------------------------------ MODULE Disputes ------------------------------
(***************************************************************************)
(* The disputes extrinsic and the state it leaves: verdicts about work     *)
(* reports, the offenders, and the validator sets that judge.              *)
(*                                                                         *)
(* A list that must be strictly ordered by a field is a function of that   *)
(* field: verdicts of the report judged, culprits and faults of the key,   *)
(* judgements of the validator's index; an unordered list is refused with  *)
(* the whole block.  A signature verifies only for what its owner signed;  *)
(* an honest validator signs the truth about a report, others sign         *)
(* anything.  Block is what applyBlock does with disputes and validators,  *)
(* one valid block at a time.                                              *)
(***************************************************************************)
EXTENDS Integers, FiniteSets

CONSTANTS
  Reports,
  Valid,           \* the reports whose results are correct
  Keys,            \* the validators' Ed25519 keys
  Honest,
  NoKey,           \* the all-zero key of an empty validator
  V,               \* NUMBER_OF_VALIDATORS
  ValidatorSets,   \* what iota may hold when an epoch begins
  MaxEpoch, MaxVerdicts, MaxCulprits, MaxFaults   \* bounds of the runs

Indices == 1 .. V

(* A faulty variant: a bare two thirds.                                    *)
TwoThirds == (2 * V) \div 3

(* MINIMUM_VALIDATORS: two thirds plus one.                                *)
MinimumValidators == (2 * V) \div 3 + 1

ASSUME ConstantsAssumption ==
  /\ Valid \subseteq Reports
  /\ Honest \subseteq Keys
  /\ NoKey \notin Keys
  /\ V \in Nat \ {0}
  /\ ValidatorSets \subseteq [Indices -> Keys]
  /\ MaxEpoch \in Nat

(* The judges' assumption: in no validator set do dishonest seats reach    *)
(* the number of judgements a verdict needs.                               *)
ASSUME HonestJudges ==
  \A s \in ValidatorSets :
    Cardinality({i \in Indices : s[i] \in Keys \ Honest}) < (2 * V) \div 3 + 1

VARIABLES
  epoch,                        \* tau.epochIndex()
  good, bad, wonky, offenders,  \* DisputesStateImpl
  gammaP, kappa, lambda,        \* next, current and previous validators
  sinceOffence                  \* ghost: epoch changes since a key offended, at most 3

vars == <<epoch, good, bad, wonky, offenders, gammaP, kappa, lambda, sinceOffence>>

Seats == [Indices -> Keys \cup {NoKey}]

TypeOK ==
  /\ epoch \in Nat
  /\ good \subseteq Reports /\ bad \subseteq Reports /\ wonky \subseteq Reports
  /\ offenders \subseteq Keys
  /\ gammaP \in Seats /\ kappa \in Seats /\ lambda \in Seats
  /\ sinceOffence \in [Keys -> 0 .. 3]

(* A genesis state: no disputes yet, any three validator sets.             *)
Init ==
  /\ epoch = 1
  /\ good = {} /\ bad = {} /\ wonky = {} /\ offenders = {}
  /\ gammaP \in ValidatorSets /\ kappa \in ValidatorSets /\ lambda \in ValidatorSets
  /\ sinceOffence = [k \in Keys |-> 0]

-----------------------------------------------------------------------------
(* Which messages bear a valid signature of key k.                         *)
SignsJudgement(k, r, vote) == k \in Keys /\ (k \in Honest => (vote <=> r \in Valid))
SignsGuarantee(k, r) == k \in Keys /\ (k \in Honest => r \in Valid)

Ayes(ballot) == Cardinality({i \in DOMAIN ballot.votes : ballot.votes[i]})

JudgingSet(ballot) == IF ballot.age = epoch THEN kappa ELSE lambda

(* A faulty variant: a report already found wonky is judged again.         *)
WonkyForgotten(r) == r \in good \cup bad

AlreadyJudged(r) == r \in good \cup bad \cup wonky

(* DisputeVerdictImpl.checkValidity for a verdict about report r.          *)
VerdictValid(r, ballot) ==
  LET judges == DOMAIN ballot.votes
  IN  /\ Cardinality(judges) = MinimumValidators
      /\ ballot.age \in {epoch, epoch - 1}
      /\ \A i \in judges : SignsJudgement(JudgingSet(ballot)[i], r, ballot.votes[i])
      /\ ~AlreadyJudged(r)
      /\ Ayes(ballot) \in {0, V \div 3, MinimumValidators}

(* DisputesVerdicts.votes: what the ballots decide.                        *)
VotedBad(verdicts) == {r \in DOMAIN verdicts : Ayes(verdicts[r]) = 0}
VotedGood(verdicts) ==
  {r \in DOMAIN verdicts : Ayes(verdicts[r]) = MinimumValidators}
VotedWonky(verdicts) == DOMAIN verdicts \ (VotedBad(verdicts) \cup VotedGood(verdicts))

(* bold_k: the keys that may still be accused.                             *)
Accusable ==
  ({kappa[i] : i \in Indices} \cup {lambda[i] : i \in Indices}) \ offenders

(* DisputesCulprits.checkValidity, and the last check of toPosterior.      *)
CulpritsValid(verdicts, culprits) ==
  /\ DOMAIN culprits \subseteq Accusable
  /\ \A k \in DOMAIN culprits : SignsGuarantee(k, culprits[k])
  /\ \A r \in VotedBad(verdicts) :
       Cardinality({k \in DOMAIN culprits : culprits[k] = r}) >= 2
  /\ \A k \in DOMAIN culprits : culprits[k] \in bad \cup VotedBad(verdicts)

(* A faulty variant: the two directions of a fault exchanged.              *)
ContradictsSwapped(fault, bads, goods) ==
  IF fault.vote THEN fault.target \in goods \ bads ELSE fault.target \in bads \ goods

(* The signed judgement contradicts the verdict.                           *)
Contradicts(fault, bads, goods) ==
  IF fault.vote THEN fault.target \in bads \ goods ELSE fault.target \in goods \ bads

(* DisputesFaults.checkValidity, and the last check of toPosterior.        *)
FaultsValid(verdicts, faults) ==
  /\ \A r \in VotedGood(verdicts) : \E k \in DOMAIN faults : faults[k].target = r
  /\ DOMAIN faults \subseteq Accusable
  /\ \A k \in DOMAIN faults : SignsJudgement(k, faults[k].target, faults[k].vote)
  /\ \A k \in DOMAIN faults :
       Contradicts(faults[k], bad \cup VotedBad(verdicts), good \cup VotedGood(verdicts))

(* A faulty variant: the seats of offenders are kept.                      *)
PhiKeepsAll(seats, offending) == seats

(* ValidatorsImpl.phi: the seats of offenders are emptied.                 *)
Phi(seats, offending) ==
  [i \in Indices |-> IF seats[i] \in offending THEN NoKey ELSE seats[i]]

(* On an epoch change kappa becomes lambda, gammaP becomes kappa, and what *)
(* accumulation left in iota becomes gammaP without the offenders.         *)
RotateValidators(newEpoch, iota) ==
  IF newEpoch > epoch
  THEN /\ lambda' = kappa
       /\ kappa' = gammaP
       /\ gammaP' = Phi(iota, offenders')
  ELSE UNCHANGED <<gammaP, kappa, lambda>>

(* DisputesStateImpl.toPosterior.                                          *)
Record(verdicts, culprits, faults) ==
  /\ good' = good \cup VotedGood(verdicts)
  /\ bad' = bad \cup VotedBad(verdicts)
  /\ wonky' = wonky \cup VotedWonky(verdicts)
  /\ offenders' = offenders \cup DOMAIN culprits \cup DOMAIN faults

CountEpochs(newEpoch) ==
  sinceOffence' =
    [k \in Keys |-> IF k \in offenders /\ newEpoch > epoch /\ sinceOffence[k] < 3
                    THEN sinceOffence[k] + 1 ELSE sinceOffence[k]]

(* What a valid block does with disputes and validators; tau, kappa and    *)
(* lambda are those of the prior state throughout.                         *)
Block(newEpoch, iota, verdicts, culprits, faults) ==
  /\ Record(verdicts, culprits, faults)
  /\ RotateValidators(newEpoch, iota)
  /\ CountEpochs(newEpoch)
  /\ epoch' = newEpoch

UpTo(n, S) == {T \in SUBSET S : Cardinality(T) <= n}

Ballots ==
  LET judges == {S \in SUBSET Indices : Cardinality(S) = MinimumValidators}
  IN  [age : {epoch, epoch - 1}, votes : UNION {[S -> BOOLEAN] : S \in judges}]

(* DisputeExtrinsicImpl.checkValidity in its order, then the rest of the   *)
(* block; no slot, and so no epoch, is ever before the parent's.           *)
Next ==
  \E T \in UpTo(MaxVerdicts, Reports) : \E verdicts \in [T -> Ballots] :
    /\ \A r \in T : VerdictValid(r, verdicts[r])
    /\ \E C \in UpTo(MaxCulprits, Keys) : \E culprits \in [C -> Reports] :
         /\ CulpritsValid(verdicts, culprits)
         /\ \E F \in UpTo(MaxFaults, Keys) :
            \E faults \in [F -> [target : Reports, vote : BOOLEAN]] :
              /\ FaultsValid(verdicts, faults)
              /\ \E newEpoch \in epoch .. MaxEpoch, iota \in ValidatorSets :
                   Block(newEpoch, iota, verdicts, culprits, faults)

Spec == Init /\ [][Next]_vars

-----------------------------------------------------------------------------
(* A report has at most one verdict for ever, although verdicts about it   *)
(* may come in any block, from two validator sets (verdicts.ts:177-185).   *)
VerdictsDisjoint == good \cap bad = {} /\ good \cap wonky = {} /\ bad \cap wonky = {}

(* With honest judges on more seats than a verdict can do without, what is *)
(* recorded as good is correct and what is recorded as bad is not.         *)
VerdictsTruthful == good \subseteq Valid /\ bad \cap Valid = {}

(* No honest validator ever becomes an offender, whatever verdicts, faults *)
(* and culprits the others put into blocks (disputes-state-impl.ts:103).   *)
HonestNeverPunished == offenders \cap Honest = {}

Seated(seats) == {seats[i] : i \in Indices}

(* An offender is out of the next validators after one epoch change, of    *)
(* the current ones after two, and after three nobody can judge with its   *)
(* key (validators-impl.ts:75, kappa-impl.ts:24, lambda-impl.ts:19).      *)
OffendersExpelled ==
  \A k \in offenders :
    /\ sinceOffence[k] >= 1 => k \notin Seated(gammaP)
    /\ sinceOffence[k] >= 2 => k \notin Seated(kappa)
    /\ sinceOffence[k] >= 3 => k \notin Seated(lambda)
=============================================================================
