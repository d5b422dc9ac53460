------------------------------- MODULE Safrole -------------------------------
(***************************************************************************)
(* Safrole: the ticket contest of one epoch decides who seals the blocks   *)
(* of the next, and the entropy, the validators and the sealing series     *)
(* rotate together when an epoch begins.                                   *)
(*                                                                         *)
(* A hash of the entropy pool is the slot of the block that made it; those *)
(* of genesis are slots before 0.  A ticket's identifier is the VRF        *)
(* output of its key over the entropy and the attempt: distinct for        *)
(* distinct tickets and ordered by the constant Id.  A ring proof hides    *)
(* the key but verifies only for a key of the ring.  The validators that   *)
(* iota holds, less the offenders (module Disputes), are an input.         *)
(* Block is what applyBlock does with these, one valid block at a time.    *)
(***************************************************************************)
EXTENDS Integers, Sequences, FiniteSets

CONSTANTS
  Keys,            \* the validators' Bandersnatch keys
  NoKey,           \* the key of an emptied seat
  NoMark,          \* a header without winning tickets
  ValidatorSets,   \* what phi of iota may be when an epoch begins
  V,               \* NUMBER_OF_VALIDATORS
  E, Y,            \* EPOCH_LENGTH, LOTTERY_MAX_SLOT
  N, K,            \* MAX_TICKETS_PER_VALIDATOR, MAX_TICKETS_PER_BLOCK
  Id,              \* the ticket identifiers, as numbers
  FallbackSeat,    \* the seat that hashing an entropy and a phase selects
  MaxSlot          \* bound of the runs

Seats == [1 .. V -> Keys \cup {NoKey}]
Etas == -3 * E .. MaxSlot
Tickets == [key : Keys, eta : Etas, attempt : 0 .. N]

ASSUME ConstantsAssumption ==
  /\ NoKey \notin Keys
  /\ V \in Nat \ {0} /\ N \in Nat \ {0} /\ K \in Nat /\ MaxSlot \in Nat
  /\ E \in Nat \ {0} /\ E % 2 = 0
  /\ Y \in 1 .. E - 1
  /\ ValidatorSets \subseteq Seats
  /\ Id \in [Tickets -> Nat]
  /\ \A t, u \in Tickets : Id[t] = Id[u] => t = u
  /\ FallbackSeat \in [Etas \X (0 .. E - 1) -> 1 .. V]
  /\ NoMark \notin [1 .. E -> Tickets]

VARIABLES
  slot,            \* tau
  eta,             \* the entropies 0 .. 3
  kappa, gammaP,   \* this epoch's validators and the next
  gammaZ,          \* the keys whose ring proofs verify
  gammaA,          \* the ticket accumulator, sorted by identifier
  gammaS,          \* the slot sealers: E tickets, or E keys
  submitted,       \* ghost: the tickets that this epoch's blocks brought
  won,             \* ghost: this epoch's winning-tickets mark
  prev, last       \* ghost: the two latest epoch marks

vars == <<slot, eta, kappa, gammaP, gammaZ, gammaA, gammaS, submitted, won, prev, last>>

Epoch(s) == s \div E
Phase(s) == s % E

Sealers == [mode : {"tickets"}, slots : [1 .. E -> Tickets]]
      \cup [mode : {"keys"}, slots : [1 .. E -> Keys \cup {NoKey}]]
EpochMarks == [entropy : Etas, entropy2 : Etas, validators : Seats]

TypeOK ==
  /\ slot \in 0 .. MaxSlot
  /\ eta \in [0 .. 3 -> Etas]
  /\ kappa \in Seats /\ gammaP \in Seats
  /\ gammaZ \subseteq Keys
  /\ gammaA \in Seq(Tickets) /\ Len(gammaA) <= E
  /\ gammaS \in Sealers
  /\ submitted \subseteq Tickets
  /\ won \in [1 .. E -> Tickets] \cup {NoMark}
  /\ prev \in EpochMarks /\ last \in EpochMarks

-----------------------------------------------------------------------------
(* Bandersnatch.ringRoot: the keys a ring proof may come from; padding     *)
(* never proves anything.                                                  *)
RingRoot(seats) == {seats[i] : i \in 1 .. V} \ {NoKey}

(* F: the sealing keys chosen by hashing the entropy with each phase.      *)
FallbackKeys(e, seats) == [i \in 1 .. E |-> seats[FallbackSeat[e, i - 1]]]

(* outsideInSequencer: the lowest, the highest, the second lowest, ...     *)
OutsideIn(t) ==
  [i \in 1 .. E |-> IF i % 2 = 1 THEN t[(i + 1) \div 2] ELSE t[E + 1 - i \div 2]]

(* Buffer.compare of two identifiers.                                      *)
Before(t, u) == Id[t] < Id[u]

(* Array.prototype.sort, which is stable: equals keep their order.         *)
Earlier(s, k, j) == Before(s[k], s[j]) \/ (s[k] = s[j] /\ k < j)
Position(s, j) == 1 + Cardinality({k \in DOMAIN s : Earlier(s, k, j)})
Sorted(s) ==
  [i \in DOMAIN s |-> s[CHOOSE j \in DOMAIN s : Position(s, j) = i]]

ByTickets(tickets) == [mode |-> "tickets", slots |-> OutsideIn(tickets)]
ByKeys(e, seats) == [mode |-> "keys", slots |-> FallbackKeys(e, seats)]

(* Genesis as the repository builds it: nobody sits yet, so that the first *)
(* block is one of a later epoch, and all the entropies are equal.         *)
EmptyGenesis ==
  /\ eta = [i \in 0 .. 3 |-> -3 * E]
  /\ kappa = [i \in 1 .. V |-> NoKey]
  /\ gammaZ = {}

(* A chain started from a given state, as in the test vectors.             *)
GivenGenesis ==
  /\ eta = [i \in 0 .. 3 |-> -i * E]
  /\ kappa \in ValidatorSets
  /\ gammaZ = RingRoot(gammaP)

Init ==
  /\ slot = 0
  /\ gammaP \in ValidatorSets
  /\ EmptyGenesis \/ GivenGenesis
  /\ gammaA = <<>>
  /\ gammaS = ByKeys(eta[2], kappa)
  /\ submitted = {}
  /\ won = NoMark
  /\ prev = [entropy |-> eta[2], entropy2 |-> eta[3], validators |-> kappa]
  /\ last = [entropy |-> eta[1], entropy2 |-> eta[2], validators |-> gammaP]

-----------------------------------------------------------------------------
NewerEra(newSlot) == Epoch(newSlot) > Epoch(slot)
NextEra(newSlot) == Epoch(newSlot) = Epoch(slot) + 1

(* A faulty variant: the entropy of this very block rotates already.       *)
RotateNewest(newSlot) ==
  eta' = [i \in 0 .. 3 |->
            IF i = 0 THEN newSlot
            ELSE IF ~NewerEra(newSlot) THEN eta[i]
            ELSE IF i = 1 THEN newSlot ELSE eta[i - 1]]

(* rotate1_3 and toPosterior: eta 0 takes up the block's VRF output.       *)
RotateEntropy(newSlot) ==
  eta' = [i \in 0 .. 3 |-> IF i = 0 THEN newSlot
                           ELSE IF NewerEra(newSlot) THEN eta[i - 1] ELSE eta[i]]

(* A faulty variant: the ring root stays the old ring's.                   *)
RotateRingLate(newSlot) ==
  IF NewerEra(newSlot)
  THEN kappa' = gammaP /\ gammaP' \in ValidatorSets /\ gammaZ' = RingRoot(gammaP)
  ELSE UNCHANGED <<kappa, gammaP, gammaZ>>

(* kappa, gamma_p and gamma_z advance when an epoch begins, once however   *)
(* many epochs had no block.                                               *)
RotateRing(newSlot) ==
  IF NewerEra(newSlot)
  THEN kappa' = gammaP /\ gammaP' \in ValidatorSets /\ gammaZ' = RingRoot(gammaP')
  ELSE UNCHANGED <<kappa, gammaP, gammaZ>>

(* The ring proofs that verify, one for each ticket: made with a key of    *)
(* the ring, over the contest's entropy.                                   *)
Provable(ring, e) == {t \in Tickets : t.key \in ring /\ t.eta = e}

(* A faulty variant: the same ticket may be brought again.                 *)
TicketsValidAgain(tickets, newSlot) ==
  tickets # <<>> =>
    /\ Phase(newSlot) < Y
    /\ \A i \in DOMAIN tickets :
         /\ tickets[i].attempt < N
         /\ tickets[i] \in Provable(gammaZ', eta'[2])
    /\ \A i, j \in DOMAIN tickets : i < j => Before(tickets[i], tickets[j])

(* TicketsExtrinsicImpl.newTickets: in time, proved, in strict order, which*)
(* the code checks of neighbours, none already accumulated.                *)
TicketsValid(tickets, newSlot) ==
  tickets # <<>> =>
    /\ Phase(newSlot) < Y
    /\ \A i \in DOMAIN tickets :
         /\ tickets[i].attempt < N
         /\ tickets[i] \in Provable(gammaZ', eta'[2])
    /\ \A i, j \in DOMAIN tickets : i < j => Before(tickets[i], tickets[j])
    /\ \A i \in DOMAIN tickets, j \in DOMAIN gammaA : tickets[i] # gammaA[j]

(* A faulty variant: a full accumulator is enough, its contest still open. *)
NextSealersOpen(newSlot) ==
  gammaS' = IF NextEra(newSlot) /\ Len(gammaA) = E
            THEN ByTickets(gammaA)
            ELSE IF ~NewerEra(newSlot) THEN gammaS
            ELSE ByKeys(eta'[2], kappa')

(* GammaSImpl.toPosterior.                                                 *)
NextSealers(newSlot) ==
  gammaS' = IF NextEra(newSlot) /\ Len(gammaA) = E /\ Phase(slot) >= Y
            THEN ByTickets(gammaA)
            ELSE IF ~NewerEra(newSlot) THEN gammaS
            ELSE ByKeys(eta'[2], kappa')

FirstE(s) == IF Len(s) > E THEN SubSeq(s, 1, E) ELSE s

Elements(s) == {s[i] : i \in DOMAIN s}

(* A new epoch's contest starts empty.                                     *)
Carried(newSlot) == IF NewerEra(newSlot) THEN <<>> ELSE gammaA

(* A faulty variant: the accumulator is cut before it is sorted.           *)
AccumulateCut(tickets, newSlot) ==
  /\ gammaA' = Sorted(FirstE(tickets \o Carried(newSlot)))
  /\ Elements(tickets) \subseteq Elements(gammaA')

(* GammaAImpl.toPosterior: the E lowest identifiers; a block that brings   *)
(* a ticket which is not among them is refused.                            *)
Accumulate(tickets, newSlot) ==
  /\ gammaA' = FirstE(Sorted(tickets \o Carried(newSlot)))
  /\ Elements(tickets) \subseteq Elements(gammaA')

(* verifySeal: the author holds a seat and its VRF output, or its key, is  *)
(* the one due in this slot.                                               *)
SealValid(author, newSlot) ==
  LET due == gammaS'.slots[Phase(newSlot) + 1]
  IN  /\ \E i \in 1 .. V : kappa'[i] = author
      /\ IF gammaS'.mode = "keys" THEN due = author
         ELSE [key |-> author, eta |-> eta'[3], attempt |-> due.attempt] = due

(* HeaderEpochMarkerImpl.validate: what the mark of a valid header says.   *)
EpochMark == [entropy |-> eta[0], entropy2 |-> eta[1], validators |-> gammaP']

KeepEpochMarks(newSlot) ==
  IF NewerEra(newSlot) THEN prev' = last /\ last' = EpochMark
  ELSE UNCHANGED <<prev, last>>

(* HeaderTicketMarkerImpl.validate: the contest closed, with a full        *)
(* accumulator, between the parent and this block.                         *)
TicketsMark(newSlot) ==
  IF ~NewerEra(newSlot) /\ Phase(slot) < Y /\ Y <= Phase(newSlot) /\ Len(gammaA) = E
  THEN OutsideIn(gammaA) ELSE NoMark

KeepTicketsMark(newSlot) ==
  won' = IF NewerEra(newSlot) THEN NoMark
         ELSE IF TicketsMark(newSlot) # NoMark THEN TicketsMark(newSlot) ELSE won

(* The lists of provable tickets; a longer one is refused for its length.  *)
Extrinsics(ring, e) == UNION {[1 .. n -> Provable(ring, e)] : n \in 0 .. K}

NoteTickets(tickets, newSlot) ==
  submitted' = Elements(tickets) \cup (IF NewerEra(newSlot) THEN {} ELSE submitted)

(* A valid block: its slot, the key that seals it, and its tickets.        *)
Block(newSlot, author) ==
  /\ slot' = newSlot
  /\ RotateEntropy(newSlot)
  /\ RotateRing(newSlot)
  /\ NextSealers(newSlot)
  /\ SealValid(author, newSlot)
  /\ KeepEpochMarks(newSlot)
  /\ KeepTicketsMark(newSlot)
  /\ \E tickets \in Extrinsics(gammaZ', eta'[2]) :
       /\ TicketsValid(tickets, newSlot)
       /\ Accumulate(tickets, newSlot)
       /\ NoteTickets(tickets, newSlot)

Next ==
  \E newSlot \in slot + 1 .. MaxSlot, author \in Keys : Block(newSlot, author)

Spec == Init /\ [][Next]_vars

-----------------------------------------------------------------------------
(* Whoever is due in a slot of the epoch has a seat among the epoch's      *)
(* validators, and a ticket was proved over the very entropy that the seal *)
(* is verified with (gamma-s-impl.ts:89, jam-signed-header-impl.ts:103;    *)
(* the ring, the entropy and the accumulator rotate in five files).  In    *)
(* the fallback the seat may be one that an offender lost, which nobody    *)
(* can seal for.                                                           *)
SlotsHaveSealers ==
  \A i \in 1 .. E : \E s \in 1 .. V :
    LET due == gammaS.slots[i]
    IN  IF gammaS.mode = "keys" THEN kappa[s] = due
        ELSE kappa[s] = due.key /\ due.eta = eta[3]

(* No validator seals more than N slots of an epoch by ticket, however     *)
(* often it submits (tickets.ts:73, 146, 153).                             *)
FairShare ==
  gammaS.mode = "tickets" =>
    \A k \in Keys : Cardinality({i \in 1 .. E : gammaS.slots[i].key = k}) <= N

(* The accumulator holds, in order, the E lowest tickets of all that this  *)
(* epoch's blocks brought, not the E first and none of an epoch before     *)
(* (gamma-a-impl.ts:40).                                                   *)
BestTicketsKept ==
  /\ Elements(gammaA) \subseteq submitted
  /\ \A i, j \in DOMAIN gammaA : i < j => Before(gammaA[i], gammaA[j])
  /\ \A t \in submitted \ Elements(gammaA) :
       Len(gammaA) = E /\ \A i \in DOMAIN gammaA : Before(gammaA[i], t)

(* Each entropy is older than the one before it by an epoch at least: what *)
(* this epoch's tickets are drawn from was final when the epoch before     *)
(* began, also when epochs had no block (jam-entropy-impl.ts:38).          *)
EntropySettled == \A k \in 0 .. 3 : Epoch(eta[k]) <= Epoch(slot) - k

Follower == INSTANCE HeaderFollower WITH sealers <- gammaS

(* Who keeps only the headers' marks knows every epoch's sealers: tickets  *)
(* are announced before they seal and seal as announced                    *)
(* (header-ticket-marker-impl.ts:65, header-epoch-marker-impl.ts:99).      *)
ImplementsFollower == Follower!Spec
=============================================================================
