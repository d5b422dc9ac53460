--------------------------- MODULE HeaderFollower ---------------------------
(***************************************************************************)
(* What block production promises to somebody who keeps only headers.      *)
(*                                                                         *)
(* The epoch mark names the next validators and the entropy of the epochs  *)
(* that ended; the winning-tickets mark, once an epoch at most, names the  *)
(* tickets that seal the next epoch.  From these alone the follower knows  *)
(* who may seal each slot: no extrinsic and no state is consulted.         *)
(* Module Safrole implements this one.                                     *)
(***************************************************************************)
EXTENDS Integers

CONSTANTS Keys, NoKey, NoMark, V, E, N, FallbackSeat, MaxSlot

VARIABLES
  slot,
  prev, last,      \* the epoch marks of the previous epoch and of this one
  won,             \* this epoch's winning-tickets mark
  sealers          \* who seals which slot of this epoch

vars == <<slot, prev, last, won, sealers>>

Etas == -3 * E .. MaxSlot
EpochMarks ==
  [entropy : Etas, entropy2 : Etas, validators : [1 .. V -> Keys \cup {NoKey}]]
TicketMarks == [1 .. E -> [key : Keys, eta : Etas, attempt : 0 .. N - 1]]

ByTickets(mark) == [mode |-> "tickets", slots |-> mark]
ByKeys(e, seats) ==
  [mode |-> "keys", slots |-> [i \in 1 .. E |-> seats[FallbackSeat[e, i - 1]]]]

(* Any genesis: sealed by keys, no tickets won yet.                        *)
Init ==
  /\ slot = 0
  /\ prev \in EpochMarks /\ last \in EpochMarks
  /\ last.entropy2 = prev.entropy
  /\ won = NoMark
  /\ sealers = ByKeys(last.entropy2, prev.validators)

(* The author may seal this slot, under the entropy e3.                    *)
Entitled(author, newSlot, series, e3) ==
  LET due == series.slots[(newSlot % E) + 1]
  IN  IF series.mode = "keys" THEN author = due
      ELSE author = due.key /\ e3 = due.eta

(* A header in the epoch of its parent: it may carry the one winning mark. *)
SameEpoch(newSlot, author) ==
  /\ newSlot \div E = slot \div E
  /\ Entitled(author, newSlot, sealers, prev.entropy2)
  /\ won' \in TicketMarks \cup {NoMark}
  /\ won # NoMark => won' = won
  /\ UNCHANGED <<prev, last, sealers>>

(* The first header of an epoch carries an epoch mark.  The tickets won    *)
(* seal the very next epoch; without them, or after an epoch without a     *)
(* block, the keys do.                                                     *)
NewEpoch(newSlot, author) ==
  /\ newSlot \div E > slot \div E
  /\ prev' = last
  /\ last' \in EpochMarks
  /\ last'.entropy2 = last.entropy
  /\ sealers' = IF newSlot \div E = slot \div E + 1 /\ won # NoMark
                THEN ByTickets(won)
                ELSE ByKeys(last'.entropy2, last.validators)
  /\ won' = NoMark
  /\ Entitled(author, newSlot, sealers', last.entropy2)

Next ==
  \E newSlot \in slot + 1 .. MaxSlot, author \in Keys :
    /\ slot' = newSlot
    /\ SameEpoch(newSlot, author) \/ NewEpoch(newSlot, author)

Spec == Init /\ [][Next]_vars
=============================================================================
