----------------------------- MODULE Assignments -----------------------------
(***************************************************************************)
(* Who guarantees the reports of which core: a shuffle of the validators   *)
(* drawn from the entropy of an epoch, moved on by one core at every       *)
(* rotation.                                                               *)
(***************************************************************************)
EXTENDS Integers, Sequences

CONSTANTS
  CORES, NUMBER_OF_VALIDATORS, EPOCH_LENGTH, VALIDATOR_CORE_ROTATION,
  Draws,       \* for each entropy the numbers its hashes yield, one per validator
  Nobody       \* the key of zeros

ASSUME SizesAssumption ==
  /\ CORES \in Nat \ {0} /\ NUMBER_OF_VALIDATORS \in Nat \ {0}
  /\ VALIDATOR_CORE_ROTATION \in Nat \ {0}
  /\ EPOCH_LENGTH \in Nat \ {0} /\ EPOCH_LENGTH % VALIDATOR_CORE_ROTATION = 0

ASSUME DrawsAssumption ==
  \A e \in DOMAIN Draws : Draws[e] \in [1..NUMBER_OF_VALIDATORS -> Nat]

Validators == 1..NUMBER_OF_VALIDATORS       \* an index v of the code is v + 1 here
Cores == 0..CORES - 1

Epoch(t) == t \div EPOCH_LENGTH
Rotation(t) == t \div VALIDATOR_CORE_ROTATION

\* The remainder operator of JavaScript, negative for a negative dividend.
Remainder(a, b) == IF a < 0 THEN -((-a) % b) ELSE a % b

(* FisherYates: the element drawn leaves its place to the last one.        *)
FisherYates(arr, entropies) ==
  LET drawn[i \in 0..Len(arr)] ==
        IF i = 0 THEN [sliced |-> arr, toRet |-> <<>>]
        ELSE LET before == drawn[i - 1]
                 l == Len(arr) - i + 1
                 index == (entropies[i] % l) + 1
             IN  [sliced |-> [before.sliced EXCEPT ![index] = before.sliced[l]],
                  toRet |-> Append(before.toRet, before.sliced[index])]
  IN  drawn[Len(arr)].toRet

\* P and R of M_fn: the cores, and their rotation.
P(e, t) ==
  LET shuffled == FisherYates([i \in Validators |-> (CORES * (i - 1)) \div NUMBER_OF_VALIDATORS],
                              Draws[e])
      n == Remainder(t, EPOCH_LENGTH) \div VALIDATOR_CORE_ROTATION
  IN  [i \in Validators |-> Remainder(shuffled[i] + n, CORES)]

Phi(validators, offenders) ==
  [i \in Validators |-> IF validators[i] \in offenders THEN Nobody ELSE validators[i]]

M_fn(entropy, t, validators, offenders) ==
  [core |-> P(entropy, t), key |-> Phi(validators, offenders)]

(* Of a state s with the posterior slot: curRotation, and prevRotation for *)
(* those who guaranteed one rotation ago.  Within the same epoch they were *)
(* this epoch's validators, else the previous one's, under its entropy.    *)
curRotation(s) == M_fn(s.eta[2], s.slot, s.kappa, s.offenders)

AlwaysThisEpoch(s) == M_fn(s.eta[2], s.slot - VALIDATOR_CORE_ROTATION, s.kappa, s.offenders)
prevRotation(s) ==
  LET t == s.slot - VALIDATOR_CORE_ROTATION
  IN  IF Epoch(t) = Epoch(s.slot) THEN M_fn(s.eta[2], t, s.kappa, s.offenders)
      ELSE M_fn(s.eta[3], t, s.lambda, s.offenders)

\* The assignment a guarantee of slot t is held against, of a state s that
\* holds both.
AssignmentFor(s, t) == IF Rotation(s.slot) = Rotation(t) THEN s.cur ELSE s.prev
=============================================================================
