---------------------------- MODULE ForkHistory ----------------------------
(***************************************************************************)
(* ChainManager with a history of its forks: which blocks were extended,   *)
(* and whether a call ever went on with a parent that another call gave up *)
(* after the database had answered.  The history restrains no step.        *)
(***************************************************************************)
EXTENDS ChainManager

VARIABLES
  extended,      \* every block that another one was added to
  stale          \* a call went on with a parent given up in the meantime

historyVars == <<best, finalized, unfinalized, db, pending, extended, stale>>

(* The type of the state with its history.                                 *)
HistoryTypeOK == TypeOK /\ extended \subseteq Blocks /\ stale \in BOOLEAN

HistoryInit == Init /\ extended = {} /\ stale = FALSE

(* The blocks another one can be added to by a call that starts now.       *)
Extendable == unfinalized \cup db \cup {finalized}

(* A block was added to p.                                                 *)
Extends(p) ==
  /\ extended' = extended \cup {p}
  /\ stale' = (stale \/ p \notin Extendable)

HistoryNext ==
  \/ \E b \in Incoming : CallOnUnfinalized(b) /\ Extends(Parent[b])
  \/ \E b \in Incoming : CallLookup(b) /\ UNCHANGED <<extended, stale>>
  \/ ResumeLookup /\ Extends(Parent[Head(pending).block])
  \/ (Reject \/ ResumeSave) /\ UNCHANGED <<extended, stale>>

History == HistoryInit /\ [][HistoryNext]_historyVars

-----------------------------------------------------------------------------
Siblings(a, b) == a # b /\ Parent[a] = Parent[b]

(* "We remove any competing blocks for same slot": of two blocks that      *)
(* compete for one slot on one parent only one is ever extended, whatever  *)
(* forks of other slots there are and however calls overlap, unless a call *)
(* went on with a parent that another one gave up between the database's   *)
(* answer and its use (chain-manager.ts:65, 93-107).                       *)
RivalsAreSettled ==
  ~stale => \A a, b \in extended : Siblings(a, b) => Slot[a] # Slot[b]

(* What the comment of the class says (chain-manager.ts:15): "as soon one  *)
(* of the multiple forks gets a new block added, the other forks are       *)
(* discarded", so that none of them gets a block after that.  The code     *)
(* discards the forks of one slot only (line 98): one of another slot can  *)
(* be extended later, which takes back that the first one was finalized.   *)
OneForkExtended == \A a, b \in extended : ~Siblings(a, b)
=============================================================================
