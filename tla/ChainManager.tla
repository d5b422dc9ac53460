---------------------------- MODULE ChainManager ----------------------------
(***************************************************************************)
(* The block tree kept by impls/chain-manager.ts over impls/jam-blocks-    *)
(* db.ts.  A header hash is injective, so a block is its hash.  The verdict *)
(* of applyBlock is left open except for the slot rule every valid block   *)
(* obeys.  handleIncomingBlock suspends at two awaits, both on promises    *)
(* that are already resolved: the continuations run in the order in which  *)
(* they were suspended, which is what the queue "pending" stands for.      *)
(***************************************************************************)
EXTENDS Naturals, Sequences

CONSTANTS
  Blocks,       \* every block a peer can send, and the genesis
  Genesis,
  NoBlock,      \* the parent of the genesis
  Parent,       \* the block a header's parent field hashes
  Slot,         \* the slot a header carries
  MaxInFlight   \* calls of handleIncomingBlock that may overlap

ASSUME TreeAssumption ==
  /\ Genesis \in Blocks
  /\ NoBlock \notin Blocks
  /\ Parent \in [Blocks -> Blocks \cup {NoBlock}]
  /\ \A b \in Blocks : Parent[b] = NoBlock <=> b = Genesis
  /\ \A b \in Blocks : Parent[b] # b      \* no header contains its own hash
  /\ Slot \in [Blocks -> Nat]
  /\ MaxInFlight \in Nat \ {0}

VARIABLES
  best,          \* #bestBlock
  finalized,     \* #finalizedBlock
  unfinalized,   \* keys of unfinalizedBlocks
  db,            \* keys of the finalized blocks' database
  pending        \* suspended calls, oldest first

vars == <<best, finalized, unfinalized, db, pending>>

Incoming == Blocks \ {Genesis}

Calls == [at : {"lookup", "save"}, block : Incoming, found : Blocks \cup {NoBlock}]

TypeOK ==
  /\ best \in Blocks
  /\ finalized \in Blocks
  /\ unfinalized \subseteq Blocks
  /\ db \subseteq Blocks
  /\ pending \in Seq(Calls)

(* build(genesis): the genesis is best and finalized, and saved.           *)
Init ==
  /\ best = Genesis
  /\ finalized = Genesis
  /\ unfinalized = {}
  /\ db = {Genesis}
  /\ pending = <<>>

-----------------------------------------------------------------------------
(* JamBlocksDB.save: store the block, then purge its parent if stored.     *)
Save(stored, b) == (stored \cup {b}) \ {Parent[b]}

(* A faulty variant: only blocks of earlier slots are dropped.             *)
CompetingEarlier(b) == {u \in unfinalized : Slot[u] < Slot[b]}

(* The blocks that compete with a newly finalized block for its slot.      *)
Competing(b) == {u \in unfinalized : Slot[u] = Slot[b] /\ u # b}

(* The code between a found parent and the await of save, run without a    *)
(* break: append, move the finality, drop competitors, insert, save.       *)
Adopt(b) ==
  LET parent == Parent[b]
      dropped == IF parent # finalized THEN Competing(parent) ELSE {}
  IN  /\ Slot[b] > Slot[parent]
      /\ finalized' = parent
      /\ unfinalized' = ((unfinalized \ dropped) \ {parent}) \cup {b}
      /\ db' = Save(db, parent)

Suspended(b) == [at |-> "save", block |-> b, found |-> Parent[b]]

(* A call whose parent is an unfinalized block appends at once.            *)
CallOnUnfinalized(b) ==
  /\ Len(pending) < MaxInFlight
  /\ Parent[b] \in unfinalized
  /\ Adopt(b)
  /\ pending' = Append(pending, Suspended(b))
  /\ UNCHANGED best

Asking(b) ==
  [at |-> "lookup", block |-> b,
   found |-> IF Parent[b] \in db THEN Parent[b] ELSE NoBlock]

(* Otherwise the database is asked; its answer is taken now, used later.   *)
CallLookup(b) ==
  /\ Len(pending) < MaxInFlight
  /\ Parent[b] \notin unfinalized
  /\ pending' = Append(pending, Asking(b))
  /\ UNCHANGED <<best, finalized, unfinalized, db>>

Resumes(stage) == pending # <<>> /\ Head(pending).at = stage

(* The answer was a block, or the parent is the finalized block.           *)
ParentKnown(call) == call.found # NoBlock \/ Parent[call.block] = finalized

ResumeLookup ==
  /\ Resumes("lookup")
  /\ ParentKnown(Head(pending))
  /\ Adopt(Head(pending).block)
  /\ pending' = Append(Tail(pending), Suspended(Head(pending).block))
  /\ UNCHANGED best

(* UNKNOWN_PARENT, or an error of append: nothing was changed.             *)
Reject ==
  /\ Resumes("lookup")
  /\ pending' = Tail(pending)
  /\ UNCHANGED <<best, finalized, unfinalized, db>>

(* A faulty variant: the newest suspended save is published first.         *)
ResumeNewestSave ==
  LET newest == CHOOSE k \in DOMAIN pending :
                  /\ pending[k].at = "save"
                  /\ \A j \in DOMAIN pending : pending[j].at = "save" => j <= k
  IN  /\ Resumes("save")
      /\ best' = pending[newest].block
      /\ pending' = SubSeq(pending, 1, newest - 1) \o SubSeq(pending, newest + 1, Len(pending))
      /\ UNCHANGED <<finalized, unfinalized, db>>

(* After the await of save the block becomes the best one.                 *)
ResumeSave ==
  /\ Resumes("save")
  /\ best' = Head(pending).block
  /\ pending' = Tail(pending)
  /\ UNCHANGED <<finalized, unfinalized, db>>

Next ==
  \/ \E b \in Incoming : CallOnUnfinalized(b) \/ CallLookup(b)
  \/ ResumeLookup
  \/ Reject
  \/ ResumeSave

Spec == Init /\ [][Next]_vars

-----------------------------------------------------------------------------
Idle == pending = <<>>

(* GET_STATE and the next import find the finalized block in the database  *)
(* at every moment, whatever calls overlap (chain-manager.ts:64, 111).     *)
FinalizedIsStored == finalized \in db

(* "finalizedBlock = bestBlock -1": once no call is suspended the finalized *)
(* block is the parent of the best one.  The two are assigned on different *)
(* sides of an await (chain-manager.ts:95 and 114).                        *)
FinalizedIsParentOfBest ==
  Idle => IF best = Genesis THEN finalized = Genesis
                            ELSE Parent[best] = finalized

(* The best block can be extended: a call for a child of it will find it,  *)
(* however the discarding of competitors (chain-manager.ts:97) and the     *)
(* late assignment of the best block fell together.                        *)
BestIsExtendable == Idle => best \in unfinalized \cup {Genesis}

(* What the manager promises whatever calls overlap: it never loses the    *)
(* finalized block, and once all calls have ended best and finalized block *)
(* fit and the chain can go on.                                            *)
ChainIsWhole == FinalizedIsStored /\ FinalizedIsParentOfBest /\ BestIsExtendable
=============================================================================
