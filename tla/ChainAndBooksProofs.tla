------------------------ MODULE ChainAndBooksProofs ------------------------
(***************************************************************************)
(* What is kept between blocks: the tree of blocks (ChainManager), and the *)
(* books that a block leaves for those after it (Bookkeeping).             *)
(*                                                                         *)
(* The theorems about ChainManager, and about the history of its forks     *)
(* (ForkHistory), hold for every block tree and every overlap of calls.    *)
(*                                                                         *)
(* HonestGuaranteesAccepted: the books serve the guarantees of blocks      *)
(* past.  BooksInv says what they keep of these: the assignment of this    *)
(* epoch and of the one before, but for the keys that offended, the newest *)
(* blocks with their roots, and the newest headers.                        *)
(*                                                                         *)
(* BooksAlwaysBalance: the books agree with the blocks.  BalanceInv has    *)
(* what each book needs: reports in cores are made of digests, the pools   *)
(* are sequences, the range is a sequence of trees.  The sums, counts,     *)
(* concatenations and folds of the model are recursive functions, so the   *)
(* lemmas about them come first: induction over numbers and over finite    *)
(* sets from the well-foundedness of strict inclusion, then the existence  *)
(* of a function that satisfies the recursive equation.                    *)
(***************************************************************************)
EXTENDS ForkHistory, Bookkeeping, FiniteSetTheorems, SequenceTheorems, WellFoundedInduction,
        TLAPS

(* Type correctness, for every tree and every number of overlapping calls. *)
THEOREM TypeCorrect == Spec => []TypeOK
<1> USE TreeAssumption
<1>1. Init => TypeOK
  BY DEF Init, TypeOK
<1>2. TypeOK /\ [Next]_vars => TypeOK'
  <2> SUFFICES ASSUME TypeOK, [Next]_vars PROVE TypeOK'
    OBVIOUS
  <2>0. pending \in Seq(Calls)
    BY DEF TypeOK
  <2>1. ASSUME NEW b \in Incoming, Adopt(b)
        PROVE  finalized' \in Blocks /\ unfinalized' \subseteq Blocks /\ db' \subseteq Blocks
    BY <2>1 DEF Adopt, Competing, Save, Incoming, TypeOK
  <2>2. ASSUME NEW b \in Incoming, CallOnUnfinalized(b) PROVE TypeOK'
    <3>1. Suspended(b) \in Calls
      BY DEF Suspended, Calls, Incoming
    <3> QED
      BY <2>0, <2>1, <2>2, <3>1 DEF CallOnUnfinalized, TypeOK
  <2>3. ASSUME NEW b \in Incoming, CallLookup(b) PROVE TypeOK'
    <3>1. Asking(b) \in Calls
      BY DEF Calls, Asking, Incoming
    <3> QED
      BY <2>0, <2>3, <3>1 DEF CallLookup, TypeOK
  <2>4. ASSUME pending # <<>>
        PROVE  /\ Head(pending) \in Calls
               /\ Head(pending).block \in Incoming
               /\ Tail(pending) \in Seq(Calls)
    <3>1. Head(pending) \in Calls /\ Tail(pending) \in Seq(Calls)
      BY <2>0, <2>4
    <3> QED
      BY <3>1 DEF Calls
  <2>5. CASE ResumeLookup
    <3>1. Suspended(Head(pending).block) \in Calls
      BY <2>4, <2>5 DEF Suspended, Calls, ResumeLookup, Resumes, Incoming
    <3> QED
      BY <2>1, <2>4, <2>5, <3>1 DEF ResumeLookup, Resumes, TypeOK
  <2>6. CASE Reject \/ ResumeSave
    BY <2>4, <2>6 DEF Reject, ResumeSave, Resumes, TypeOK, Incoming
  <2>7. CASE UNCHANGED vars
    BY <2>7 DEF vars, TypeOK
  <2> QED
    BY <2>2, <2>3, <2>5, <2>6, <2>7 DEF Next
<1> QED
  BY <1>1, <1>2, PTL DEF Spec

-----------------------------------------------------------------------------
(* Whatever calls overlap, the finalized block is in the database: every   *)
(* step that moves finality also stores the block and purges another one.  *)
LEMMA FinalizedAlwaysStored == Spec => []FinalizedIsStored
<1> USE TreeAssumption
<1>1. Init => FinalizedIsStored
  BY DEF Init, FinalizedIsStored
<1>2. TypeOK /\ FinalizedIsStored /\ [Next]_vars => FinalizedIsStored'
  <2> SUFFICES ASSUME TypeOK, FinalizedIsStored, [Next]_vars
               PROVE  FinalizedIsStored'
    OBVIOUS
  <2>1. ASSUME NEW b \in Incoming, Adopt(b) PROVE FinalizedIsStored'
    BY <2>1 DEF Adopt, Save, FinalizedIsStored, Incoming
  <2>2. ASSUME NEW b \in Incoming, CallOnUnfinalized(b) PROVE FinalizedIsStored'
    BY <2>1, <2>2 DEF CallOnUnfinalized
  <2>3. ASSUME NEW b \in Incoming, CallLookup(b) PROVE FinalizedIsStored'
    BY <2>3 DEF CallLookup, FinalizedIsStored
  <2>4. CASE ResumeLookup
    <3>1. Head(pending) \in Calls
      BY <2>4 DEF ResumeLookup, Resumes, TypeOK
    <3> QED
      BY <2>1, <2>4, <3>1 DEF ResumeLookup, Calls
  <2>5. CASE Reject \/ ResumeSave \/ UNCHANGED vars
    BY <2>5 DEF Reject, ResumeSave, vars, FinalizedIsStored
  <2> QED
    BY <2>2, <2>3, <2>4, <2>5 DEF Next
<1> QED
  BY <1>1, <1>2, TypeCorrect, PTL DEF Spec

-----------------------------------------------------------------------------
(* The invariant behind FinalizedIsParentOfBest and BestIsExtendable.      *)
(* Finality is moved by the newest call that has reached its save, the     *)
(* best block by the oldest: if no save is suspended the two agree,        *)
(* otherwise the newest suspended save holds a child of the finalized      *)
(* block, which is among the unfinalized ones.                             *)
SaveAt(i) == i \in 1 .. Len(pending) /\ pending[i].at = "save"

HeadsAgree ==
  /\ IF best = Genesis THEN finalized = Genesis ELSE Parent[best] = finalized
  /\ best \in unfinalized \cup {Genesis}

NewestSaveAgrees ==
  \E i \in 1 .. Len(pending) :
    /\ SaveAt(i)
    /\ Parent[pending[i].block] = finalized /\ pending[i].block \in unfinalized
    /\ \A j \in 1 .. Len(pending) : j > i => ~SaveAt(j)

SaveOrder ==
  \/ (\A i \in 1 .. Len(pending) : ~SaveAt(i)) /\ HeadsAgree
  \/ NewestSaveAgrees

(* A step that appends a save for a child of the new finalized block.      *)
LEMMA AppendSave ==
  ASSUME NEW s \in Seq(Calls), NEW b \in Incoming,
         pending' = Append(s, Suspended(b)), finalized' = Parent[b], b \in unfinalized'
  PROVE  SaveOrder'
<1>1. Suspended(b) \in Calls
  BY TreeAssumption DEF Suspended, Calls, Incoming
<1>2. /\ Len(pending') = Len(s) + 1
      /\ Len(s) \in Nat
      /\ pending'[Len(s) + 1] = Suspended(b)
  BY <1>1
<1>3. SaveAt(Len(s) + 1)'
  BY <1>2 DEF SaveAt, Suspended
<1>4. NewestSaveAgrees'
  BY <1>2, <1>3 DEF NewestSaveAgrees, Suspended
<1> QED
  BY <1>4 DEF SaveOrder

LEMMA SaveOrderInvariant == Spec => []SaveOrder
<1> USE TreeAssumption
<1>1. Init => SaveOrder
  BY DEF Init, SaveOrder, SaveAt, HeadsAgree
<1>2. TypeOK /\ SaveOrder /\ [Next]_vars => SaveOrder'
  <2> SUFFICES ASSUME TypeOK, SaveOrder, [Next]_vars
               PROVE  SaveOrder'
    OBVIOUS
  <2>0. pending \in Seq(Calls)
    BY DEF TypeOK
  <2>1. ASSUME NEW b \in Incoming, CallOnUnfinalized(b) PROVE SaveOrder'
    BY <2>0, <2>1, AppendSave DEF CallOnUnfinalized, Adopt
  <2>2. ASSUME NEW b \in Incoming, CallLookup(b) PROVE SaveOrder'
    <3> DEFINE call == Asking(b)
    <3>1. call \in Calls /\ call.at # "save"
      BY DEF Calls, Asking, Incoming
    <3>2. pending' = Append(pending, call)
      BY <2>2 DEF CallLookup
    <3> HIDE DEF call
    <3>3. /\ Len(pending) \in Nat
          /\ Len(pending') = Len(pending) + 1
          /\ \A i \in 1 .. Len(pending) : pending'[i] = pending[i]
          /\ pending'[Len(pending) + 1] = call
      BY <2>0, <3>1, <3>2
    <3>4. \A i \in 1 .. Len(pending') : SaveAt(i)' <=> SaveAt(i)
      BY <3>1, <3>3 DEF SaveAt
    <3>5. ~SaveAt(Len(pending) + 1)'
      BY <3>1, <3>3 DEF SaveAt
    <3>6. UNCHANGED <<best, finalized, unfinalized>>
      BY <2>2 DEF CallLookup
    <3>7. CASE (\A i \in 1 .. Len(pending) : ~SaveAt(i)) /\ HeadsAgree
      BY <3>3, <3>4, <3>5, <3>6, <3>7 DEF SaveOrder, HeadsAgree, SaveAt
    <3>8. CASE NewestSaveAgrees
      <4>1. NewestSaveAgrees'
        BY <3>3, <3>4, <3>5, <3>6, <3>8 DEF NewestSaveAgrees, SaveAt
      <4> QED
        BY <4>1 DEF SaveOrder
    <3> QED
      BY <3>7, <3>8 DEF SaveOrder
  <2>3. CASE ResumeLookup
    <3>1. Head(pending) \in Calls /\ Tail(pending) \in Seq(Calls)
      BY <2>0, <2>3 DEF ResumeLookup, Resumes
    <3>2. Head(pending).block \in Incoming
      BY <3>1 DEF Calls
    <3> QED
      BY <2>3, <3>1, <3>2, AppendSave DEF ResumeLookup, Adopt
  <2>4. ASSUME pending # <<>>, pending' = Tail(pending)
        PROVE  /\ Len(pending) \in Nat \ {0}
               /\ Len(pending') = Len(pending) - 1
               /\ \A i \in 1 .. Len(pending') : pending'[i] = pending[i + 1]
               /\ \A i \in 1 .. Len(pending') : SaveAt(i)' <=> SaveAt(i + 1)
    <3>1. /\ Len(pending) \in Nat \ {0}
          /\ Len(pending') = Len(pending) - 1
          /\ \A i \in 1 .. Len(pending') : pending'[i] = pending[i + 1]
      BY <2>0, <2>4
    <3> QED
      BY <3>1 DEF SaveAt
  <2>9. ASSUME pending # <<>>, pending' = Tail(pending), finalized' = finalized,
                unfinalized' = unfinalized,
                NEW i \in 1 .. Len(pending), i # 1, SaveAt(i),
                Parent[pending[i].block] = finalized, pending[i].block \in unfinalized,
                \A j \in 1 .. Len(pending) : j > i => ~SaveAt(j)
         PROVE  NewestSaveAgrees'
    <3>1. i - 1 \in 1 .. Len(pending')
      BY <2>4, <2>9
    <3>2. (i - 1) + 1 = i
      BY <2>4
    <3>3. SaveAt(i - 1)' /\ Parent[(pending'[i - 1]).block] = finalized'
          /\ (pending'[i - 1]).block \in unfinalized'
      BY <2>4, <2>9, <3>1, <3>2
    <3>4. ASSUME NEW j \in 1 .. Len(pending'), j > i - 1 PROVE ~SaveAt(j)'
      <4>1. j + 1 \in 1 .. Len(pending) /\ j + 1 > i
        BY <2>4, <2>9, <3>4
      <4> QED
        BY <2>4, <2>9, <4>1
    <3> QED
      BY <3>1, <3>3, <3>4 DEF NewestSaveAgrees
  <2>5. CASE Reject
    <3>1. pending # <<>> /\ pending' = Tail(pending) /\ UNCHANGED <<best, finalized, unfinalized>>
          /\ ~SaveAt(1)
      BY <2>5 DEF Reject, Resumes, SaveAt
    <3>2. CASE (\A i \in 1 .. Len(pending) : ~SaveAt(i)) /\ HeadsAgree
      <4>1. \A i \in 1 .. Len(pending') : i + 1 \in 1 .. Len(pending)
        BY <2>4, <3>1
      <4>2. \A i \in 1 .. Len(pending') : ~SaveAt(i)'
        BY <2>4, <3>1, <3>2, <4>1
      <4> QED
        BY <3>1, <3>2, <4>2 DEF SaveOrder, HeadsAgree
    <3>3. CASE NewestSaveAgrees
      <4>1. PICK i \in 1 .. Len(pending) :
              /\ SaveAt(i)
              /\ Parent[pending[i].block] = finalized /\ pending[i].block \in unfinalized
              /\ \A j \in 1 .. Len(pending) : j > i => ~SaveAt(j)
        BY <3>3 DEF NewestSaveAgrees
      <4> QED
        BY <3>1, <4>1, <2>9 DEF SaveOrder
    <3> QED
      BY <3>2, <3>3 DEF SaveOrder
  <2>6. CASE ResumeSave
    <3>1. /\ pending # <<>> /\ pending' = Tail(pending) /\ finalized' = finalized
          /\ unfinalized' = unfinalized
          /\ best' = pending[1].block /\ SaveAt(1)
      BY <2>0, <2>6 DEF ResumeSave, Resumes, SaveAt
    <3>2. best' \in Incoming
      <4>1. pending[1] \in Calls
        BY <2>0, <2>4, <3>1
      <4> QED
        BY <3>1, <4>1 DEF Calls
    <3>3. PICK i \in 1 .. Len(pending) :
              /\ SaveAt(i)
              /\ Parent[pending[i].block] = finalized /\ pending[i].block \in unfinalized
              /\ \A j \in 1 .. Len(pending) : j > i => ~SaveAt(j)
      BY <3>1, <2>4 DEF SaveOrder, NewestSaveAgrees
    <3>4. CASE i = 1
      <4>1. HeadsAgree'
        BY <3>1, <3>2, <3>3, <3>4 DEF HeadsAgree, Incoming
      <4> QED
        BY <2>4, <3>1, <3>3, <3>4, <4>1 DEF SaveOrder
    <3>5. CASE i # 1
      BY <3>1, <3>3, <3>5, <2>9 DEF SaveOrder
    <3> QED
      BY <3>4, <3>5
  <2>7. CASE UNCHANGED vars
    BY <2>7 DEF vars, SaveOrder, SaveAt, HeadsAgree, NewestSaveAgrees
  <2> QED
    BY <2>1, <2>2, <2>3, <2>5, <2>6, <2>7 DEF Next
<1> QED
  BY <1>1, <1>2, TypeCorrect, PTL DEF Spec

(* When no call is suspended the finalized block is the parent of the best *)
(* one, for every tree and every number of overlapping calls.              *)
LEMMA BestFollowsFinalized == Spec => []FinalizedIsParentOfBest
<1>1. SaveOrder => FinalizedIsParentOfBest
  BY DEF SaveOrder, NewestSaveAgrees, HeadsAgree, FinalizedIsParentOfBest, Idle
<1> QED
  BY <1>1, SaveOrderInvariant, PTL

(* When no call is suspended the best block can be extended, for every     *)
(* tree and every number of overlapping calls.                             *)
LEMMA BestStaysExtendable == Spec => []BestIsExtendable
<1>1. SaveOrder => BestIsExtendable
  BY DEF SaveOrder, NewestSaveAgrees, HeadsAgree, BestIsExtendable, Idle
<1> QED
  BY <1>1, SaveOrderInvariant, PTL

(* The three together: for every tree and every number of overlapping      *)
(* calls the chain stays whole.                                            *)
THEOREM ChainStaysWhole == Spec => []ChainIsWhole
<1>1. FinalizedIsStored /\ FinalizedIsParentOfBest /\ BestIsExtendable => ChainIsWhole
  BY DEF ChainIsWhole
<1> QED
  BY <1>1, FinalizedAlwaysStored, BestFollowsFinalized, BestStaysExtendable, PTL

-----------------------------------------------------------------------------
(* The invariant behind RivalsAreSettled.  A block that was extended has    *)
(* left the unfinalized ones, and its parent can be extended no more: so   *)
(* when a block is adopted it was not extended before, and no child of its *)
(* parent was.  What is left among the unfinalized blocks fits those that  *)
(* were extended, because the competitors of a new finalized block went.   *)
ExtendedOnPath ==
  /\ extended \cap unfinalized = {}
  /\ \A q \in extended : Parent[q] \notin Extendable
  /\ \A q \in extended : q # Genesis => Parent[q] \in extended
  /\ \A u \in unfinalized : Parent[u] \in extended
  /\ db \cup {finalized} \subseteq extended \cup {Genesis}

RivalsApart(A, B) == \A x \in A, y \in B : Siblings(x, y) => Slot[x] # Slot[y]

ForksInOrder ==
  /\ ExtendedOnPath
  /\ RivalsApart(extended, extended)
  /\ RivalsApart(extended, unfinalized)

(* A block adopted on a parent that can be extended keeps that order.      *)
LEMMA AdoptKeepsOrder ==
  ASSUME TypeOK, extended \subseteq Blocks, ForksInOrder, NEW b \in Incoming, Adopt(b),
         Parent[b] \in Extendable, extended' = extended \cup {Parent[b]}
  PROVE  ForksInOrder'
<1> DEFINE p == Parent[b]
<1> USE TreeAssumption
<1>1. /\ b \in Blocks \ {Genesis} /\ p \in Blocks /\ p # b
      /\ finalized' = p
      /\ unfinalized' \subseteq (unfinalized \ {p}) \cup {b}
      /\ db' = (db \cup {p}) \ {Parent[p]}
  BY DEF Incoming, Adopt, Save
<1>2. /\ extended \cap unfinalized = {}
      /\ \A q \in extended : Parent[q] \notin Extendable
      /\ \A q \in extended : q # Genesis => Parent[q] \in extended
      /\ \A u \in unfinalized : Parent[u] \in extended
      /\ db \cup {finalized} \subseteq extended \cup {Genesis}
  BY DEF ForksInOrder, ExtendedOnPath
<1>3. /\ unfinalized \subseteq Blocks /\ db \subseteq Blocks /\ finalized \in Blocks
      /\ Extendable \subseteq Blocks /\ NoBlock \notin Blocks
  BY DEF TypeOK, Extendable
<1>4. b \notin extended
  BY <1>2
<1>5. p \in unfinalized \/ p \in extended \/ p = Genesis
  BY <1>2 DEF Extendable
<1>6. p # Genesis => Parent[p] \in extended
  BY <1>2, <1>5
<1>7. p \in extended \/ p = Genesis \/ p \in unfinalized \ {finalized}
  BY <1>2, <1>5
<1>8. \A q \in extended : Parent[q] # b /\ Parent[q] # p
  <2> SUFFICES ASSUME NEW q \in extended PROVE Parent[q] # b /\ Parent[q] # p
    OBVIOUS
  <2>1. CASE q = Genesis
    BY <1>1, <1>3, <2>1
  <2>2. CASE q # Genesis
    BY <1>2, <1>4, <2>2
  <2> QED
    BY <2>1, <2>2
<1>9. Extendable' \subseteq Extendable \cup {b}
  BY <1>1 DEF Extendable
<1>10. Parent[p] \notin Extendable'
  <2>1. CASE p = Genesis
    BY <1>1, <1>3, <1>9, <2>1
  <2>2. CASE p # Genesis
    <3>1. Parent[p] # p /\ Parent[p] # b /\ Parent[p] \notin unfinalized
      BY <1>1, <1>2, <1>4, <1>6, <2>2
    <3> QED
      BY <1>1, <3>1 DEF Extendable
  <2> QED
    BY <2>1, <2>2
<1>11. ExtendedOnPath'
  <2>1. extended' \cap unfinalized' = {}
    BY <1>1, <1>2, <1>4
  <2>2. \A q \in extended' : Parent[q] \notin Extendable'
    BY <1>2, <1>8, <1>9, <1>10
  <2>3. \A q \in extended' : q # Genesis => Parent[q] \in extended'
    BY <1>2, <1>6
  <2>4. \A u \in unfinalized' : Parent[u] \in extended'
    BY <1>1, <1>2
  <2>5. db' \cup {finalized'} \subseteq extended' \cup {Genesis}
    BY <1>1, <1>2
  <2> QED
    BY <2>1, <2>2, <2>3, <2>4, <2>5 DEF ExtendedOnPath
<1>12. \A x \in extended \cup unfinalized : Siblings(x, p) => p # Genesis
  BY <1>3, <1>1 DEF Siblings
<1>13. RivalsApart(extended', extended')
  <2>1. RivalsApart(extended, extended) /\ RivalsApart(extended, unfinalized)
    BY DEF ForksInOrder
  <2>2. \A x \in extended : Siblings(x, p) => Slot[x] # Slot[p]
    BY <1>5, <1>12, <2>1 DEF RivalsApart
  <2> QED
    BY <2>1, <2>2 DEF RivalsApart, Siblings
<1>14. RivalsApart(extended', unfinalized')
  <2>1. RivalsApart(extended, unfinalized)
    BY DEF ForksInOrder
  <2>2. \A x \in extended' : ~Siblings(x, b)
    BY <1>8, <1>1 DEF Siblings
  <2>3. ASSUME NEW y \in unfinalized', y # b, Siblings(p, y) PROVE Slot[p] # Slot[y]
    <3>1. y \in unfinalized /\ y # p
      BY <1>1, <2>3
    <3>2. CASE p \in extended
      BY <2>1, <2>3, <3>1, <3>2 DEF RivalsApart
    <3>3. CASE p = Genesis
      BY <1>12, <2>3, <3>1, <3>3 DEF Siblings
    <3>4. CASE p \in unfinalized \ {finalized}
      <4>1. y \notin Competing(p)
        BY <2>3, <3>4 DEF Adopt
      <4> QED
        BY <3>1, <4>1 DEF Competing
    <3> QED
      BY <1>7, <3>2, <3>3, <3>4
  <2> QED
    BY <1>1, <2>1, <2>2, <2>3 DEF RivalsApart
<1> QED
  BY <1>11, <1>13, <1>14 DEF ForksInOrder

(* The steps of the history are those of the specification.                *)
LEMMA HistoryTakesItsSteps == History => Spec
<1>1. HistoryInit => Init
  BY DEF HistoryInit
<1>2. [HistoryNext]_historyVars => [Next]_vars
  BY DEF HistoryNext, Next, historyVars, vars
<1> QED
  BY <1>1, <1>2, PTL DEF History, Spec

LEMMA HistoryTypeCorrect == History => []HistoryTypeOK
<1> USE TreeAssumption
<1>1. HistoryInit /\ TypeOK => HistoryTypeOK
  BY DEF HistoryInit, HistoryTypeOK
<1>2. TypeOK /\ TypeOK' /\ HistoryTypeOK /\ [HistoryNext]_historyVars => HistoryTypeOK'
  <2> SUFFICES ASSUME TypeOK, TypeOK', HistoryTypeOK, [HistoryNext]_historyVars
               PROVE  HistoryTypeOK'
    OBVIOUS
  <2>1. ASSUME NEW b \in Incoming, Parent[b] \in Blocks, Extends(Parent[b]) PROVE HistoryTypeOK'
    BY <2>1 DEF Extends, HistoryTypeOK
  <2>2. ASSUME NEW b \in Incoming PROVE Parent[b] \in Blocks
    BY DEF Incoming
  <2>3. CASE ResumeLookup /\ Extends(Parent[Head(pending).block])
    <3>1. Head(pending) \in Calls
      BY <2>3 DEF ResumeLookup, Resumes, TypeOK
    <3>2. Head(pending).block \in Incoming
      BY <3>1 DEF Calls
    <3> QED
      BY <2>1, <2>2, <2>3, <3>2
  <2>4. CASE UNCHANGED <<extended, stale>>
    BY <2>4 DEF HistoryTypeOK
  <2> QED
    BY <2>1, <2>2, <2>3, <2>4 DEF HistoryNext, historyVars
<1> QED
  BY <1>1, <1>2, TypeCorrect, HistoryTakesItsSteps, PTL DEF History

(* Of the blocks that compete for a slot on one parent only one is ever    *)
(* extended, unless a call went on with a parent given up in the meantime: *)
(* for every tree, forks of any slots among it, and every number of calls  *)
(* that overlap.                                                           *)
THEOREM RivalsSettled == History => []RivalsAreSettled
<1> DEFINE Inv == ~stale => ForksInOrder
<1> USE TreeAssumption
<1>1. HistoryInit => Inv
  BY DEF HistoryInit, Init, ForksInOrder, ExtendedOnPath, RivalsApart
<1>2. TypeOK /\ HistoryTypeOK /\ Inv /\ [HistoryNext]_historyVars => Inv'
  <2> SUFFICES ASSUME TypeOK, HistoryTypeOK, Inv, [HistoryNext]_historyVars PROVE Inv'
    OBVIOUS
  <2>1. ASSUME NEW b \in Incoming, Adopt(b), Extends(Parent[b]) PROVE Inv'
    <3>1. ASSUME ~stale' PROVE ForksInOrder'
      <4>1. /\ ~stale /\ Parent[b] \in Extendable
            /\ extended' = extended \cup {Parent[b]}
        BY <2>1, <3>1 DEF Extends
      <4> QED
        BY <2>1, <4>1, AdoptKeepsOrder DEF HistoryTypeOK
    <3> QED
      BY <3>1
  <2>2. ASSUME UNCHANGED <<finalized, unfinalized, db, extended, stale>> PROVE Inv'
    BY <2>2 DEF ForksInOrder, ExtendedOnPath, RivalsApart, Extendable
  <2>3. ASSUME NEW b \in Incoming, CallOnUnfinalized(b), Extends(Parent[b]) PROVE Inv'
    BY <2>1, <2>3 DEF CallOnUnfinalized
  <2>4. ASSUME NEW b \in Incoming, CallLookup(b), UNCHANGED <<extended, stale>> PROVE Inv'
    BY <2>2, <2>4 DEF CallLookup
  <2>5. CASE ResumeLookup /\ Extends(Parent[Head(pending).block])
    <3>1. Head(pending) \in Calls
      BY <2>5 DEF ResumeLookup, Resumes, TypeOK
    <3>2. Head(pending).block \in Incoming
      BY <3>1 DEF Calls
    <3> QED
      BY <2>1, <2>5, <3>2 DEF ResumeLookup
  <2>6. CASE (Reject \/ ResumeSave) /\ UNCHANGED <<extended, stale>>
    BY <2>2, <2>6 DEF Reject, ResumeSave
  <2>7. CASE UNCHANGED historyVars
    BY <2>2, <2>7 DEF historyVars
  <2> QED
    BY <2>3, <2>4, <2>5, <2>6, <2>7 DEF HistoryNext
<1>3. Inv => RivalsAreSettled
  BY DEF RivalsAreSettled, ForksInOrder, RivalsApart
<1> HIDE DEF Inv
<1> QED
  BY <1>1, <1>2, <1>3, TypeCorrect, HistoryTypeCorrect, HistoryTakesItsSteps, PTL DEF History

-----------------------------------------------------------------------------
(* Division, and the order of products.                                     *)
LEMMA Division ==
  ASSUME NEW a \in Nat, NEW b \in Nat \ {0}
  PROVE  /\ a \div b \in Nat
         /\ b * (a \div b) <= a
         /\ a < b * (a \div b) + b
  BY SMT

LEMMA ProductIsMonotone ==
  ASSUME NEW b \in Nat \ {0}, NEW m \in Nat, NEW n \in Nat, m < n
  PROVE  b * m + b <= b * n
  <1>1. PICK d \in Nat : n = m + 1 + d
    <2>1. n - m - 1 \in Nat /\ n = m + 1 + (n - m - 1)
      OBVIOUS
    <2> QED BY <2>1
  <1>2. b * n = b * m + b + b * d
    BY <1>1, SMT
  <1>3. b * d \in Nat /\ b * m \in Nat
    BY SMT
  <1> QED
    BY <1>2, <1>3, SMT

(* Slots, rotations and epochs.                                            *)
LEMMA DivisionWithRest ==
  ASSUME NEW a \in Nat, NEW b \in Nat \ {0}
  PROVE  a \div b \in Nat /\ a % b \in 0 .. b - 1 /\ a = b * (a \div b) + (a % b)
BY SMT

LEMMA QuotientIsUnique ==
  ASSUME NEW a \in Nat, NEW b \in Nat \ {0}, NEW q \in Nat, b * q <= a, a < b * q + b
  PROVE  a \div b = q
<1>. DEFINE r == a \div b
<1>1. r \in Nat /\ b * r <= a /\ a < b * r + b
  BY Division
<1>. HIDE DEF r
<1>2. b * q \in Nat /\ b * r \in Nat
  BY <1>1, SMT
<1>3. CASE q < r
  <2>1. b * q + b <= b * r
    BY <1>1, <1>3, ProductIsMonotone
  <2>. QED
    BY <1>1, <1>2, <2>1
<1>4. CASE r < q
  <2>1. b * r + b <= b * q
    BY <1>1, <1>4, ProductIsMonotone
  <2>. QED
    BY <1>1, <1>2, <2>1
<1>5. CASE q = r
  BY <1>5 DEF r
<1>. QED
  BY <1>1, <1>3, <1>4, <1>5

LEMMA Products ==
  ASSUME NEW a \in Nat, NEW b \in Nat, NEW c \in Nat
  PROVE  /\ a * b \in Nat /\ a * (b * c) = (a * b) * c /\ a * (b + c) = a * b + a * c
BY SMT

LEMMA ProductKeepsOrder ==
  ASSUME NEW b \in Nat \ {0}, NEW m \in Nat, NEW n \in Nat, m <= n
  PROVE  b * m <= b * n
<1>1. CASE m = n
  BY <1>1, Products
<1>2. CASE m < n
  BY <1>2, ProductIsMonotone, Products
<1>. QED
  BY <1>1, <1>2

(* The rotations of an epoch: their number, M.                             *)
Turns == EPOCH_LENGTH \div VALIDATOR_CORE_ROTATION

LEMMA TurnsFact ==
  /\ Turns \in Nat \ {0} /\ EPOCH_LENGTH = VALIDATOR_CORE_ROTATION * Turns
  /\ VALIDATOR_CORE_ROTATION \in Nat \ {0} /\ EPOCH_LENGTH \in Nat \ {0}
<1>. DEFINE r == VALIDATOR_CORE_ROTATION
            l == EPOCH_LENGTH
<1>1. r \in Nat \ {0} /\ l \in Nat \ {0} /\ l % r = 0
  BY SizesAssumption
<1>. HIDE DEF r, l
<1>2. l \div r \in Nat /\ l = r * (l \div r) + (l % r)
  BY <1>1, DivisionWithRest
<1>. PICK m \in Nat : m = l \div r
  BY <1>2
<1>3. l = r * m
  <2>1. r * m \in Nat
    BY <1>1, Products
  <2>. QED
    BY <1>1, <1>2, <2>1
<1>4. m # 0
  BY <1>1, <1>3, SMT
<1>. QED
  BY <1>1, <1>3, <1>4 DEF Turns, r, l

(* The rotation of a slot tells its epoch, and which of the epoch's it is. *)
LEMMA EpochByRotation ==
  ASSUME NEW t \in Nat
  PROVE  /\ Rotation(t) \in Nat /\ Epoch(t) = Rotation(t) \div Turns
         /\ (t % EPOCH_LENGTH) \div VALIDATOR_CORE_ROTATION
              = Rotation(t) - Turns * (Rotation(t) \div Turns)
<1>. PICK r \in Nat \ {0} : r = VALIDATOR_CORE_ROTATION
  BY TurnsFact
<1>. PICK m \in Nat \ {0} : m = Turns
  BY TurnsFact
<1>. PICK l \in Nat \ {0} : l = EPOCH_LENGTH
  BY TurnsFact
<1>1. l = r * m
  BY TurnsFact
<1>. PICK q \in Nat : q = t \div r
  BY Division
<1>2. r * q <= t /\ t < r * q + r
  BY Division
<1>. PICK e \in Nat : e = q \div m
  BY Division
<1>3. m * e <= q /\ q < m * e + m
  BY Division
<1>. PICK k \in Nat : k = m * e
  BY Products
<1>. PICK d \in Nat : d = l * e
  BY Products
<1>. PICK p \in Nat : p = r * q
  BY Products
<1>4. d = r * k
  BY <1>1, Products
<1>5. d <= p
  BY <1>3, <1>4, ProductKeepsOrder
<1>6. p + r <= d + l
  <2>1. q < k + m /\ k + m \in Nat
    BY <1>3
  <2>2. r * q + r <= r * (k + m)
    BY <2>1, ProductIsMonotone
  <2>3. r * (k + m) = r * k + r * m
    BY Products
  <2>. QED
    BY <1>1, <1>4, <2>2, <2>3
<1>7. t \div l = e
  <2>1. l * e <= t /\ t < l * e + l
    BY <1>2, <1>5, <1>6
  <2>. QED
    BY <2>1, QuotientIsUnique
<1>8. t % l \in Nat /\ t % l = t - d
  <2>1. t % l \in 0 .. l - 1 /\ t = l * (t \div l) + (t % l)
    BY DivisionWithRest
  <2>2. PICK w \in 0 .. l - 1 : w = t % l
    BY <2>1
  <2>3. t = d + w
    BY <1>7, <2>1, <2>2
  <2>4. w \in Nat /\ w = t - d
    BY <2>3
  <2>. QED
    BY <2>2, <2>4
<1>9. (t % l) \div r = q - k
  <2>. PICK w \in Nat : w = t % l
    BY <1>8
  <2>. PICK z \in Nat : z = q - k
    BY <1>3
  <2>1. r * q = r * k + r * z
    <3>1. q = k + z
      OBVIOUS
    <3>2. r * (k + z) = r * k + r * z
      BY Products
    <3>. QED
      BY <3>1, <3>2
  <2>2. r * z \in Nat
    BY Products
  <2>3. r * z <= w /\ w < r * z + r
    BY <1>2, <1>4, <1>8, <2>1, <2>2
  <2>. QED
    BY <2>3, QuotientIsUnique
<1>. QED
  BY <1>7, <1>9 DEF Rotation, Epoch

LEMMA SameRotation ==
  ASSUME NEW t \in Nat, NEW u \in Nat, Rotation(t) = Rotation(u)
  PROVE  /\ Epoch(t) = Epoch(u)
         /\ \A e : P(e, t) = P(e, u)
<1>1. /\ Epoch(t) = Epoch(u)
      /\ (t % EPOCH_LENGTH) \div VALIDATOR_CORE_ROTATION
           = (u % EPOCH_LENGTH) \div VALIDATOR_CORE_ROTATION
  BY EpochByRotation
<1>2. Remainder(t, EPOCH_LENGTH) = t % EPOCH_LENGTH /\ Remainder(u, EPOCH_LENGTH) = u % EPOCH_LENGTH
  BY DEF Remainder
<1>. QED
  BY <1>1, <1>2 DEF P

(* The slot one rotation before another.                                   *)
LEMMA RotationBefore ==
  ASSUME NEW t \in Nat, Rotation(t) >= 1
  PROVE  /\ t - VALIDATOR_CORE_ROTATION \in Nat
         /\ Rotation(t - VALIDATOR_CORE_ROTATION) = Rotation(t) - 1
<1>. PICK r \in Nat \ {0} : r = VALIDATOR_CORE_ROTATION
  BY TurnsFact
<1>. PICK q \in Nat : q = t \div r
  BY Division
<1>1. q >= 1 /\ r * q <= t /\ t < r * q + r
  BY Division DEF Rotation
<1>. PICK z \in Nat : q = z + 1
  <2>. q - 1 \in Nat /\ q = (q - 1) + 1
    BY <1>1
  <2>. QED
    OBVIOUS
<1>2. r * q = r * z + r /\ r * z \in Nat
  <2>1. r * (z + 1) = r * z + r * 1 /\ r * 1 = r
    BY Products
  <2>. QED
    BY <2>1, Products
<1>3. t - r \in Nat /\ r * z <= t - r /\ t - r < r * z + r
  BY <1>1, <1>2
<1>4. (t - r) \div r = z
  <2>. PICK w \in Nat : w = t - r
    BY <1>3
  <2>. QED
    BY <1>3, QuotientIsUnique
<1>. QED
  BY <1>3, <1>4 DEF Rotation

(* Later slots are in no earlier rotation or epoch.                        *)
LEMMA QuotientsKeepOrder ==
  ASSUME NEW b \in Nat \ {0}, NEW t \in Nat, NEW u \in Nat, t <= u
  PROVE  t \div b <= u \div b
<1>. PICK q \in Nat : q = t \div b
  BY Division
<1>. PICK w \in Nat : w = u \div b
  BY Division
<1>1. b * q <= t /\ u < b * w + b /\ b * q \in Nat /\ b * w \in Nat
  BY Division, Products
<1>2. CASE w < q
  <2>1. b * w + b <= b * q
    BY <1>2, ProductIsMonotone
  <2>. QED
    BY <1>1, <2>1
<1>. QED
  BY <1>2

LEMMA Later ==
  ASSUME NEW t \in Nat, NEW u \in Nat, t <= u
  PROVE  /\ Epoch(t) <= Epoch(u) /\ Rotation(t) <= Rotation(u)
         /\ Epoch(t) \in Nat /\ Rotation(t) \in Nat
BY TurnsFact, QuotientsKeepOrder, Division DEF Epoch, Rotation

-----------------------------------------------------------------------------
(* The books in every state.                                               *)

IsSeq(q) == \E S : q \in Seq(S)

(* Of n the newest max.                                                    *)
Held(n, max) == IF n < max THEN n ELSE max

(* Slots grow, by at least one a block.                                    *)
SlotsInv ==
  /\ slot \in Nat /\ IsSeq(past)
  /\ \A i \in 1 .. Len(past) :
       past[i].slot \in Nat /\ slot - past[i].slot >= Len(past) - i
  /\ \A i, j \in 1 .. Len(past) : i < j => past[i].slot < past[j].slot

(* Entropy e and these keys still say whom a block assigned, but for the   *)
(* keys off that offended.                                                 *)
Tells(off, e, keys, block) ==
  /\ block.assigned.core = P(e, block.slot)
  /\ \A v \in Validators :
       block.assigned.key[v] \notin off \cup {Nobody} => block.assigned.key[v] = keys[v]

(* What the state keeps of this epoch and of the one before tells whom     *)
(* their blocks assigned.                                                  *)
AssignedInv ==
  \A b \in 1 .. Len(past) :
    /\ Epoch(past[b].slot) = Epoch(slot) => Tells(offenders, eta[2], kappa, past[b])
    /\ Epoch(past[b].slot) = Epoch(slot) - 1 => Tells(offenders, eta[3], lambda, past[b])

(* The recent history: the newest blocks, each with its state root but for *)
(* the last.                                                               *)
Entry(n) == [headerHash |-> n, stateRoot |-> IF n < Len(past) THEN n ELSE 0, log |-> past[n].log]

RecentInv ==
  /\ IsSeq(recent) /\ Len(recent) = Held(Len(past), RECENT_HISTORY_LENGTH)
  /\ \A i \in 1 .. Len(recent) : recent[i] = Entry(Len(past) - Len(recent) + i)

(* The headers to look up: those of the newest blocks.                     *)
Found == (Len(past) - Held(Len(past), MAXIMUM_AGE_LOOKUP_ANCHOR + 1) + 1) .. Len(past)

LookupsInv ==
  /\ IsFiniteSet(DOMAIN lookups)
  /\ Cardinality(DOMAIN lookups) = Held(Len(past), MAXIMUM_AGE_LOOKUP_ANCHOR + 1)
  /\ DOMAIN lookups = {past[i].slot : i \in Found}
  /\ \A i \in Found : lookups[past[i].slot] = i

BooksInv == SlotsInv /\ AssignedInv /\ RecentInv /\ LookupsInv

-----------------------------------------------------------------------------
LEMMA Appended ==
  ASSUME NEW q, IsSeq(q), NEW v
  PROVE  /\ IsSeq(Append(q, v)) /\ Len(Append(q, v)) = Len(q) + 1 /\ Len(q) \in Nat
         /\ Append(q, v)[Len(q) + 1] = v
         /\ \A i \in 1 .. Len(q) : Append(q, v)[i] = q[i]
         /\ DOMAIN q = 1 .. Len(q) /\ DOMAIN Append(q, v) = 1 .. Len(q) + 1
<1>1. PICK S : q \in Seq(S)
  BY DEF IsSeq
<1>. DEFINE T == S \cup {v}
<1>2. q \in Seq(T) /\ v \in T
  BY <1>1
<1>. HIDE DEF T
<1>. QED
  BY <1>2 DEF IsSeq

LEMMA NewestOf ==
  ASSUME NEW n \in Nat, NEW q, IsSeq(q)
  PROVE  /\ IsSeq(Newest(n, q)) /\ Len(Newest(n, q)) = Held(Len(q), n) /\ Len(q) \in Nat
         /\ \A i \in 1 .. Held(Len(q), n) : Newest(n, q)[i] = q[Len(q) - Held(Len(q), n) + i]
<1>1. PICK S : q \in Seq(S)
  BY DEF IsSeq
<1>. PICK l \in Nat : l = Len(q)
  BY <1>1
<1>. DEFINE m == IF l > n THEN l - n ELSE 0
<1>2. m \in Nat /\ m <= l /\ l - m = Held(l, n)
  <2>1. CASE l > n
    BY <2>1 DEF Held
  <2>2. CASE ~(l > n)
    <3>1. l <= n
      BY <2>2
    <3>2. m = 0
      BY <2>2
    <3>3. Held(l, n) = l
      BY <3>1 DEF Held
    <3>. QED
      BY <3>2, <3>3
  <2>. QED
    BY <2>1, <2>2
<1>6. Newest(n, q) = SubSeq(q, m + 1, l)
  BY Zenon DEF Newest
<1>. HIDE DEF m
<1>3. \A i \in m + 1 .. l : q[i] \in S
  BY <1>1, <1>2
<1>4. /\ SubSeq(q, m + 1, l) \in Seq(S) /\ Len(SubSeq(q, m + 1, l)) = l - m
      /\ \A i \in 1 .. l - m : SubSeq(q, m + 1, l)[i] = q[m + i]
  <2>. m + 1 \in Int /\ l \in Int
    BY <1>2
  <2>1. /\ SubSeq(q, m + 1, l) \in Seq(S)
        /\ Len(SubSeq(q, m + 1, l)) = IF m + 1 <= l THEN l - (m + 1) + 1 ELSE 0
        /\ \A i \in 1 .. l - (m + 1) + 1 : SubSeq(q, m + 1, l)[i] = q[m + 1 + i - 1]
    BY ONLY <1>3, m + 1 \in Int, l \in Int, SubSeqProperties
  <2>2. \A i \in 1 .. l - m : m + 1 + i - 1 = m + i /\ i \in 1 .. l - (m + 1) + 1
    BY <1>2
  <2>3. (IF m + 1 <= l THEN l - (m + 1) + 1 ELSE 0) = l - m
    BY <1>2
  <2>. QED
    BY <2>1, <2>2, <2>3
<1>5. Held(Len(q), n) = l - m /\ Len(q) - Held(Len(q), n) = m
  BY <1>2
<1>. QED
  BY <1>4, <1>5, <1>6 DEF IsSeq

LEMMA PosteriorIs ==
  ASSUME NEW t, NEW offence, NEW s, s = Posterior(t, offence)
  PROVE  /\ s.slot = t /\ s.offenders = offenders \cup offence
         /\ s.kappa = IF isNewerEra(t) THEN gammaP ELSE kappa
         /\ s.lambda = IF isNewerEra(t) THEN kappa ELSE lambda
         /\ s.eta[2] = IF isNewerEra(t) THEN eta[1] ELSE eta[2]
         /\ s.eta[3] = IF isNewerEra(t) THEN eta[2] ELSE eta[3]
         /\ s.cur = M_fn(s.eta[2], t, s.kappa, s.offenders)
         /\ s.prev = IF Epoch(t - VALIDATOR_CORE_ROTATION) = Epoch(t)
                     THEN M_fn(s.eta[2], t - VALIDATOR_CORE_ROTATION, s.kappa, s.offenders)
                     ELSE M_fn(s.eta[3], t - VALIDATOR_CORE_ROTATION, s.lambda, s.offenders)
<1>. DEFINE q == [slot |-> t,
                  kappa |-> IF isNewerEra(t) THEN gammaP ELSE kappa,
                  lambda |-> IF isNewerEra(t) THEN kappa ELSE lambda,
                  eta |-> [n \in 0..3 |-> IF n = 0 THEN Mix(eta[0], t)
                                          ELSE IF isNewerEra(t) THEN eta[n - 1] ELSE eta[n]],
                  offenders |-> offenders \cup offence]
<1>1. /\ s.slot = q.slot /\ s.kappa = q.kappa /\ s.lambda = q.lambda /\ s.eta = q.eta
      /\ s.offenders = q.offenders /\ s.cur = curRotation(q) /\ s.prev = prevRotation(q)
  BY DEF Posterior
<1>2. /\ q.slot = t /\ q.offenders = offenders \cup offence
      /\ q.kappa = IF isNewerEra(t) THEN gammaP ELSE kappa
      /\ q.lambda = IF isNewerEra(t) THEN kappa ELSE lambda
      /\ q.eta[2] = IF isNewerEra(t) THEN eta[1] ELSE eta[2]
      /\ q.eta[3] = IF isNewerEra(t) THEN eta[2] ELSE eta[3]
  OBVIOUS
<1>. HIDE DEF q
<1>. QED
  BY <1>1, <1>2 DEF curRotation, prevRotation

LEMMA AssignmentOf ==
  ASSUME NEW e, NEW t, NEW keys, NEW off
  PROVE  /\ M_fn(e, t, keys, off).core = P(e, t)
         /\ \A v \in Validators : M_fn(e, t, keys, off).key[v] \in {keys[v], Nobody}
         /\ \A v \in Validators : keys[v] \notin off => M_fn(e, t, keys, off).key[v] = keys[v]
BY DEF M_fn, Phi

-----------------------------------------------------------------------------
LEMMA BooksBegin == BooksInit => BooksInv
<1>. SUFFICES ASSUME BooksInit PROVE BooksInv
  OBVIOUS
<1>1. slot = 0 /\ past = <<>> /\ recent = <<>> /\ lookups = [t \in {} |-> 0]
  BY DEF BooksInit
<1>2. IsSeq(<<>>) /\ Len(<<>>) = 0
  BY DEF IsSeq
<1>3. RECENT_HISTORY_LENGTH \in Nat \ {0} /\ MAXIMUM_AGE_LOOKUP_ANCHOR \in Nat
  BY BooksAssumption
<1>4. Held(0, RECENT_HISTORY_LENGTH) = 0 /\ Held(0, MAXIMUM_AGE_LOOKUP_ANCHOR + 1) = 0
  BY <1>3 DEF Held
<1>5. Found = {}
  BY <1>1, <1>2, <1>4 DEF Found
<1>6. SlotsInv /\ AssignedInv /\ RecentInv
  BY <1>1, <1>2, <1>4 DEF SlotsInv, AssignedInv, RecentInv
<1>7. DOMAIN lookups = {} /\ Cardinality({}) = 0 /\ IsFiniteSet({})
  BY <1>1, FS_EmptySet
<1>8. LookupsInv
  BY <1>1, <1>2, <1>4, <1>5, <1>7 DEF LookupsInv
<1>. QED
  BY <1>6, <1>8 DEF BooksInv

-----------------------------------------------------------------------------
(* A block: what of it the books keep.                                     *)
Grown(t, offence, block) ==
  /\ t \in Nat /\ t > slot /\ slot' = t
  /\ kappa' = Posterior(t, offence).kappa /\ lambda' = Posterior(t, offence).lambda
  /\ eta' = Posterior(t, offence).eta /\ offenders' = Posterior(t, offence).offenders
  /\ past' = Append(past, block) /\ block.slot = t /\ block.assigned = Posterior(t, offence).cur
  /\ recent' = Newest(RECENT_HISTORY_LENGTH,
                      Append(RecentWithRoot, [headerHash |-> Len(past) + 1, stateRoot |-> 0,
                                              log |-> block.log]))
  /\ lookups' = NextLookups(t, Len(past) + 1)

LEMMA StepGrows ==
  ASSUME slot \in Nat, BooksNext
  PROVE  \E t, offence, block : Grown(t, offence, block)
<1>1. PICK gap \in Gaps, offence \in {{}, Culprits \ offenders}, load \in Loads,
           assurers \in IF Engaged = {} THEN {{}} ELSE Turnouts :
        \E iota \in IF isNewerEra(slot + gap) THEN ValidatorSets ELSE {gammaP},
           queue \in IF NewlyAvailable(assurers) = {} THEN {authQueue} ELSE Queues :
          ApplyBlock(slot + gap, offence, iota, assurers, queue, load)
  BY Zenon DEF BooksNext
<1>2. PICK iota, queue : ApplyBlock(slot + gap, offence, iota, assurers, queue, load)
  BY <1>1, Zenon
<1>. DEFINE t == slot + gap
            s == Posterior(t, offence)
            belt == appendMMR(beefyBelt, <<Len(past) + 1>>)
<1>3. t \in Nat /\ t > slot
  BY BooksAssumption
<1>. HIDE DEF t
<1>4. PICK eg :
        /\ slot' = t /\ kappa' = s.kappa /\ lambda' = s.lambda /\ eta' = s.eta
        /\ offenders' = s.offenders
        /\ recent' = NextRecent(Len(past) + 1, belt)
        /\ lookups' = NextLookups(t, Len(past) + 1)
        /\ past' = Append(past, [slot |-> t, assigned |-> s.cur, author |-> load.author,
                                 signers |-> reporters(s, eg), log |-> MMRSuperPeak(belt)])
  BY <1>2, Zenon DEF ApplyBlock, t
<1>. DEFINE block == [slot |-> t, assigned |-> s.cur, author |-> load.author,
                      signers |-> reporters(s, eg), log |-> MMRSuperPeak(belt)]
<1>5. block.slot = t /\ block.assigned = s.cur /\ block.log = MMRSuperPeak(belt)
  OBVIOUS
<1>6. past' = Append(past, block)
  BY <1>4
<1>. HIDE DEF block, belt
<1>7. recent' = Newest(RECENT_HISTORY_LENGTH,
                       Append(RecentWithRoot, [headerHash |-> Len(past) + 1, stateRoot |-> 0,
                                               log |-> block.log]))
  BY <1>4, <1>5, Zenon DEF NextRecent
<1>8. Grown(t, offence, block)
  BY <1>3, <1>4, <1>5, <1>6, <1>7, Zenon DEF Grown
<1>. QED
  BY <1>8, Zenon

(* The chain is one block longer.                                          *)
LEMMA PastGrows ==
  ASSUME SlotsInv, NEW t, NEW offence, NEW block, Grown(t, offence, block)
  PROVE  /\ Len(past) \in Nat /\ Len(past') = Len(past) + 1 /\ IsSeq(past')
         /\ past'[Len(past) + 1] = block
         /\ \A i \in 1 .. Len(past) : past'[i] = past[i]
BY Appended DEF SlotsInv, Grown

LEMMA SlotsStep ==
  ASSUME SlotsInv, NEW t, NEW offence, NEW block, Grown(t, offence, block)
  PROVE  SlotsInv'
<1>. PICK n \in Nat : n = Len(past)
  BY PastGrows
<1>1. /\ Len(past') = n + 1 /\ IsSeq(past') /\ past'[n + 1].slot = t
      /\ \A i \in 1 .. n : past'[i] = past[i]
  BY PastGrows DEF Grown
<1>2. t \in Nat /\ t > slot /\ slot' = t /\ slot \in Nat
  BY DEF Grown, SlotsInv
<1>3. \A i \in 1 .. n : past[i].slot \in Nat /\ slot - past[i].slot >= n - i
  BY DEF SlotsInv
<1>4. \A i, j \in 1 .. n : i < j => past[i].slot < past[j].slot
  BY DEF SlotsInv
<1>5. \A i \in 1 .. n + 1 : past'[i].slot \in Nat /\ t - past'[i].slot >= n + 1 - i
  <2>. TAKE i \in 1 .. n + 1
  <2>1. CASE i = n + 1
    BY <1>1, <1>2, <2>1
  <2>2. CASE i \in 1 .. n
    <3>. PICK u \in Nat : u = past[i].slot
      BY <1>3, <2>2
    <3>1. slot - u >= n - i /\ past'[i].slot = u
      BY <1>1, <1>3, <2>2
    <3>. QED
      BY <1>2, <2>2, <3>1
  <2>. QED
    BY <2>1, <2>2
<1>6. \A i, j \in 1 .. n + 1 : i < j => past'[i].slot < past'[j].slot
  <2>. SUFFICES ASSUME NEW i \in 1 .. n + 1, NEW j \in 1 .. n + 1, i < j
                PROVE  past'[i].slot < past'[j].slot
    OBVIOUS
  <2>1. i \in 1 .. n /\ past'[i].slot = past[i].slot
    BY <1>1
  <2>2. CASE j = n + 1
    <3>. PICK u \in Nat : u = past[i].slot
      BY <1>3, <2>1
    <3>1. slot - u >= n - i
      BY <1>3, <2>1
    <3>. QED
      BY <1>1, <1>2, <2>1, <2>2, <3>1
  <2>3. CASE j \in 1 .. n
    BY <1>1, <1>4, <2>1, <2>3
  <2>. QED
    BY <2>2, <2>3
<1>. QED
  BY <1>1, <1>2, <1>5, <1>6 DEF SlotsInv

(* At an epoch's end what told of it becomes what tells of the one before. *)
LEMMA AssignedStep ==
  ASSUME SlotsInv, AssignedInv, NEW t, NEW offence, NEW block, Grown(t, offence, block)
  PROVE  AssignedInv'
<1>. PICK n \in Nat : n = Len(past)
  BY PastGrows
<1>1. /\ Len(past') = n + 1 /\ past'[n + 1] = block /\ \A i \in 1 .. n : past'[i] = past[i]
  BY PastGrows
<1>2. t \in Nat /\ t > slot /\ slot' = t /\ slot \in Nat
  BY DEF Grown, SlotsInv
<1>. PICK s : s = Posterior(t, offence)
  OBVIOUS
<1>3. /\ kappa' = s.kappa /\ lambda' = s.lambda /\ eta' = s.eta /\ offenders' = s.offenders
      /\ block.slot = t /\ block.assigned = s.cur
  BY DEF Grown
<1>4. /\ offenders' = offenders \cup offence
      /\ kappa' = IF isNewerEra(t) THEN gammaP ELSE kappa
      /\ lambda' = IF isNewerEra(t) THEN kappa ELSE lambda
      /\ eta'[2] = IF isNewerEra(t) THEN eta[1] ELSE eta[2]
      /\ eta'[3] = IF isNewerEra(t) THEN eta[2] ELSE eta[3]
      /\ block.assigned = M_fn(eta'[2], t, kappa', offenders')
  BY <1>3, PosteriorIs
<1>5. /\ Epoch(t) \in Nat /\ Epoch(slot) \in Nat /\ Epoch(slot) <= Epoch(t)
  <2>1. slot <= t /\ t \in Nat /\ slot \in Nat
    BY <1>2
  <2>. QED
    BY ONLY <2>1, Later
<1>6. Tells(offenders', eta'[2], kappa', past'[n + 1])
  <2>1. block.assigned.core = P(eta'[2], t)
    BY <1>4, AssignmentOf
  <2>2. \A v \in Validators : block.assigned.key[v] \in {kappa'[v], Nobody}
    BY <1>4, AssignmentOf
  <2>. QED
    BY <1>1, <1>3, <2>1, <2>2 DEF Tells
<1>7. ASSUME NEW b \in 1 .. n, NEW e, NEW keys, Tells(offenders, e, keys, past[b])
      PROVE  Tells(offenders', e, keys, past'[b])
  BY <1>1, <1>4, <1>7 DEF Tells
<1>8. \A b \in 1 .. n :
         /\ past'[b].slot = past[b].slot /\ Epoch(past[b].slot) \in Nat
         /\ Epoch(past[b].slot) <= Epoch(slot)
  <2>. TAKE b \in 1 .. n
  <2>1. past[b].slot \in Nat /\ slot - past[b].slot >= n - b
    BY DEF SlotsInv
  <2>. PICK u \in Nat : u = past[b].slot
    BY <2>1
  <2>2. u <= slot
    BY <1>2, <2>1
  <2>. QED
    BY <1>1, <1>2, <2>2, Later
<1>9. \A b \in 1 .. n :
         /\ Epoch(past[b].slot) = Epoch(slot) => Tells(offenders, eta[2], kappa, past[b])
         /\ Epoch(past[b].slot) = Epoch(slot) - 1 => Tells(offenders, eta[3], lambda, past[b])
  BY DEF AssignedInv
<1>10. ASSUME NEW b \in 1 .. n, Epoch(past[b].slot) = Epoch(t)
       PROVE  Tells(offenders', eta'[2], kappa', past'[b])
  <2>1. ~ isNewerEra(t) /\ Epoch(past[b].slot) = Epoch(slot)
    BY <1>5, <1>8, <1>10 DEF isNewerEra
  <2>2. Tells(offenders, eta[2], kappa, past[b]) /\ eta'[2] = eta[2] /\ kappa' = kappa
    BY <1>4, <1>9, <2>1
  <2>. QED
    BY <1>7, <2>2
<1>11. ASSUME NEW b \in 1 .. n, Epoch(past[b].slot) = Epoch(t) - 1
       PROVE  Tells(offenders', eta'[3], lambda', past'[b])
  <2>1. CASE isNewerEra(t)
    <3>1. Epoch(past[b].slot) = Epoch(slot)
      BY <1>5, <1>8, <1>11, <2>1 DEF isNewerEra
    <3>2. Tells(offenders, eta[2], kappa, past[b]) /\ eta'[3] = eta[2] /\ lambda' = kappa
      BY <1>4, <1>9, <2>1, <3>1
    <3>. QED
      BY <1>7, <3>2
  <2>2. CASE ~ isNewerEra(t)
    <3>1. Epoch(past[b].slot) = Epoch(slot) - 1
      BY <1>5, <1>8, <1>11, <2>2 DEF isNewerEra
    <3>2. Tells(offenders, eta[3], lambda, past[b]) /\ eta'[3] = eta[3] /\ lambda' = lambda
      BY <1>4, <1>9, <2>2, <3>1
    <3>. QED
      BY <1>7, <3>2
  <2>. QED
    BY <2>1, <2>2
<1>12. \A b \in 1 .. n + 1 :
         /\ Epoch(past'[b].slot) = Epoch(t) => Tells(offenders', eta'[2], kappa', past'[b])
         /\ Epoch(past'[b].slot) = Epoch(t) - 1 => Tells(offenders', eta'[3], lambda', past'[b])
  <2>. TAKE b \in 1 .. n + 1
  <2>1. CASE b = n + 1
    <3>1. Epoch(past'[b].slot) = Epoch(t) /\ Epoch(t) # Epoch(t) - 1
      BY <1>1, <1>3, <1>5, <2>1
    <3>. QED
      BY <1>6, <2>1, <3>1
  <2>2. CASE b \in 1 .. n
    BY <1>8, <1>10, <1>11, <2>2
  <2>. QED
    BY <2>1, <2>2
<1>13. Epoch(slot') = Epoch(t)
  BY <1>2
<1>. QED
  BY <1>1, <1>12, <1>13, Zenon DEF AssignedInv

-----------------------------------------------------------------------------
(* The recent history when its last block has learnt its state root.       *)
Full(k) == [headerHash |-> k, stateRoot |-> k, log |-> past[k].log]

LEMMA HeldIs ==
  ASSUME NEW n \in Nat, NEW max \in Nat
  PROVE  /\ Held(n, max) \in Nat /\ Held(n, max) <= n /\ Held(n, max) <= max
         /\ (n < max => Held(n, max) = n) /\ (n >= max => Held(n, max) = max)
BY DEF Held

LEMMA RangeOfPast ==
  ASSUME SlotsInv, RecentInv
  PROVE  Len(past) \in Nat /\ Len(recent) \in Nat /\ Len(recent) <= Len(past)
         /\ Len(recent) <= RECENT_HISTORY_LENGTH /\ RECENT_HISTORY_LENGTH \in Nat \ {0}
<1>1. Len(past) \in Nat
  BY DEF SlotsInv, IsSeq
<1>2. RECENT_HISTORY_LENGTH \in Nat \ {0}
  BY BooksAssumption
<1>3. Len(recent) = Held(Len(past), RECENT_HISTORY_LENGTH)
  BY DEF RecentInv
<1>. QED
  BY <1>1, <1>2, <1>3 DEF Held

LEMMA WithRoot ==
  ASSUME SlotsInv, RecentInv
  PROVE  /\ IsSeq(RecentWithRoot) /\ Len(RecentWithRoot) = Len(recent)
         /\ DOMAIN RecentWithRoot = 1 .. Len(recent)
         /\ \A i \in 1 .. Len(recent) : RecentWithRoot[i] = Full(Len(past) - Len(recent) + i)
<1>. PICK n \in Nat : n = Len(past)
  BY RangeOfPast
<1>. PICK m \in Nat : m = Len(recent)
  BY RangeOfPast
<1>1. m <= n
  BY RangeOfPast
<1>2. DOMAIN recent = 1 .. m
  BY Appended DEF RecentInv
<1>. DEFINE w == [i \in 1 .. m |-> IF i = m THEN [recent[i] EXCEPT !.stateRoot = n] ELSE recent[i]]
<1>3. RecentWithRoot = w
  BY <1>2 DEF RecentWithRoot
<1>4. w \in Seq({w[i] : i \in 1 .. m}) /\ Len(w) = m /\ DOMAIN w = 1 .. m
  OBVIOUS
<1>5. \A i \in 1 .. m : w[i] = Full(n - m + i)
  <2>. TAKE i \in 1 .. m
  <2>1. recent[i] = Entry(n - m + i)
    BY DEF RecentInv
  <2>2. n - m + i \in 1 .. n
    BY <1>1
  <2>3. CASE i = m
    <3>1. n - m + i = n
      BY <1>1, <2>3
    <3>2. w[i] = [Entry(n) EXCEPT !.stateRoot = n]
      BY <2>1, <2>3, <3>1
    <3>3. Entry(n) = [headerHash |-> n, stateRoot |-> 0, log |-> past[n].log]
      BY DEF Entry
    <3>. QED
      BY <3>1, <3>2, <3>3 DEF Full
  <2>4. CASE i # m
    <3>1. n - m + i < n /\ w[i] = recent[i]
      BY <1>1, <2>4
    <3>. QED
      BY <2>1, <3>1 DEF Full, Entry
  <2>. QED
    BY <2>3, <2>4
<1>. HIDE DEF w
<1>. QED
  BY <1>3, <1>4, <1>5 DEF IsSeq

LEMMA RecentStep ==
  ASSUME SlotsInv, RecentInv, NEW t, NEW offence, NEW block, Grown(t, offence, block)
  PROVE  RecentInv'
<1>. PICK n \in Nat : n = Len(past)
  BY RangeOfPast
<1>. PICK m \in Nat : m = Len(recent)
  BY RangeOfPast
<1>. PICK h \in Nat \ {0} : h = RECENT_HISTORY_LENGTH
  BY RangeOfPast
<1>1. /\ Len(past') = n + 1 /\ past'[n + 1] = block /\ \A i \in 1 .. n : past'[i] = past[i]
  BY PastGrows
<1>2. m = Held(n, h) /\ m <= n
  BY RangeOfPast DEF RecentInv
<1>. DEFINE r == RecentWithRoot
            e == [headerHash |-> n + 1, stateRoot |-> 0, log |-> block.log]
            a == Append(r, e)
<1>3. /\ IsSeq(r) /\ Len(r) = m
      /\ \A i \in 1 .. m : r[i] = Full(n - m + i)
  BY WithRoot
<1>4. recent' = Newest(h, a)
  BY DEF Grown
<1>. HIDE DEF r, e
<1>5. IsSeq(a) /\ Len(a) = m + 1 /\ a[m + 1] = e /\ \A i \in 1 .. m : a[i] = r[i]
  BY <1>3, Appended
<1>. HIDE DEF a
<1>. PICK k \in Nat : k = Held(m + 1, h)
  BY DEF Held
<1>6. k = Held(n + 1, h) /\ k <= m + 1 /\ k >= 1
  BY <1>2 DEF Held
<1>7. IsSeq(recent') /\ Len(recent') = k /\ \A i \in 1 .. k : recent'[i] = a[m + 1 - k + i]
  <2>1. /\ IsSeq(Newest(h, a)) /\ Len(Newest(h, a)) = Held(Len(a), h)
        /\ \A i \in 1 .. Held(Len(a), h) : Newest(h, a)[i] = a[Len(a) - Held(Len(a), h) + i]
    BY ZenonT(30), <1>5, NewestOf
  <2>2. Held(Len(a), h) = k /\ Len(a) - Held(Len(a), h) = m + 1 - k
    BY <1>5
  <2>. QED
    BY <1>4, <2>1, <2>2, Zenon
<1>8. \A i \in 1 .. k : recent'[i] = [headerHash |-> n + 1 - k + i,
                                     stateRoot |-> IF n + 1 - k + i < n + 1 THEN n + 1 - k + i ELSE 0,
                                     log |-> past'[n + 1 - k + i].log]
  <2>. TAKE i \in 1 .. k
  <2>. PICK j \in Nat : j = m + 1 - k + i
    BY <1>6
  <2>1. recent'[i] = a[j]
    BY <1>7
  <2>2. CASE i = k
    <3>1. j = m + 1 /\ n + 1 - k + i = n + 1
      BY ONLY <2>2, j = m + 1 - k + i, k \in Nat, m \in Nat, n \in Nat
    <3>. QED
      BY SMTT(20), <1>1, <1>5, <2>1, <3>1 DEF e
  <2>3. CASE i # k
    <3>1. j \in 1 .. m /\ n + 1 - k + i = n - m + j /\ n - m + j \in 1 .. n
      <4>1. m <= n /\ k <= m + 1 /\ i < k /\ i >= 1
        BY <1>2, <1>6, <2>3
      <4>2. j \in 1 .. m
        BY ONLY <4>1, j \in Nat, k \in Nat, i \in 1 .. k, m \in Nat, j = m + 1 - k + i
      <4>3. n + 1 - k + i = n - m + j
        BY ONLY j \in Nat, k \in Nat, i \in 1 .. k, m \in Nat, n \in Nat, j = m + 1 - k + i
      <4>4. n - m + j \in 1 .. n
        BY ONLY <4>1, <4>2, m \in Nat, n \in Nat
      <4>. QED
        BY <4>2, <4>3, <4>4
    <3>2. recent'[i] = Full(n - m + j)
      BY <1>3, <1>5, <2>1, <3>1
    <3>. QED
      <4>. PICK z \in 1 .. n : z = n - m + j
        BY <3>1
      <4>1. recent'[i] = [headerHash |-> z, stateRoot |-> z, log |-> past[z].log]
        BY <3>2 DEF Full
      <4>2. z < n + 1 /\ past'[z] = past[z] /\ n + 1 - k + i = z
        BY SMTT(20), <1>1, <3>1
      <4>. QED
        BY <4>1, <4>2
  <2>. QED
    BY <2>2, <2>3
<1>9. \A i \in 1 .. Len(recent') :
         recent'[i] = [headerHash |-> Len(past') - Len(recent') + i,
                       stateRoot |-> IF Len(past') - Len(recent') + i < Len(past')
                                     THEN Len(past') - Len(recent') + i ELSE 0,
                       log |-> past'[Len(past') - Len(recent') + i].log]
  <2>1. Len(past') = n + 1 /\ Len(recent') = k
    BY <1>1, <1>7
  <2>. QED
    BY ONLY <1>8, <2>1, n \in Nat, k \in Nat
<1>10. Len(recent') = Held(Len(past'), RECENT_HISTORY_LENGTH)
  BY <1>1, <1>6, <1>7, Zenon
<1>. QED
  BY <1>7, <1>9, <1>10, Zenon DEF RecentInv, Entry

-----------------------------------------------------------------------------
(* The headers to look up.                                                 *)
LEMMA LookupsStep ==
  ASSUME SlotsInv, LookupsInv, NEW t, NEW offence, NEW block, Grown(t, offence, block)
  PROVE  LookupsInv'
<1>. PICK n \in Nat : n = Len(past)
  BY PastGrows
<1>. PICK a \in Nat : a = MAXIMUM_AGE_LOOKUP_ANCHOR
  BY BooksAssumption
<1>1. /\ Len(past') = n + 1 /\ past'[n + 1].slot = t /\ \A i \in 1 .. n : past'[i] = past[i]
  BY PastGrows DEF Grown
<1>2. t \in Nat /\ t > slot /\ slot \in Nat
  BY DEF Grown, SlotsInv
<1>3. /\ \A i \in 1 .. n : past[i].slot \in Nat /\ past[i].slot < t
      /\ \A i, j \in 1 .. n : i < j => past[i].slot < past[j].slot
  <2>1. \A i \in 1 .. n : past[i].slot \in Nat /\ slot - past[i].slot >= n - i
    BY DEF SlotsInv
  <2>2. ASSUME NEW i \in 1 .. n PROVE past[i].slot < t
    <3>. PICK u \in Nat : u = past[i].slot
      BY <2>1
    <3>1. slot - u >= n - i
      BY <2>1
    <3>. QED
      BY <1>2, <3>1
  <2>. QED
    BY <2>1, <2>2 DEF SlotsInv
<1>. PICK c \in Nat : c = Held(n, a + 1)
  <2>. a + 1 \in Nat
    OBVIOUS
  <2>. QED
    BY HeldIs
<1>. PICK d \in Nat : d = Held(n + 1, a + 1)
  <2>. a + 1 \in Nat /\ n + 1 \in Nat
    OBVIOUS
  <2>. QED
    BY HeldIs
<1>. DEFINE D == DOMAIN lookups
            f == n - c + 1
<1>4. /\ IsFiniteSet(D) /\ Cardinality(D) = c
      /\ D = {past[i].slot : i \in f .. n}
      /\ \A i \in f .. n : lookups[past[i].slot] = i
  BY DEF LookupsInv, Found
<1>5. /\ f \in Nat /\ f >= 1 /\ f <= n + 1
      /\ (c > a => f = n - a /\ f <= n /\ d = c) /\ (~ (c > a) => f = 1 /\ n <= a /\ d = c + 1)
  <2>. a + 1 \in Nat /\ n + 1 \in Nat
    OBVIOUS
  <2>1. c <= n /\ c <= a + 1 /\ (n < a + 1 => c = n) /\ (n >= a + 1 => c = a + 1)
    BY HeldIs
  <2>2. (n + 1 < a + 1 => d = n + 1) /\ (n + 1 >= a + 1 => d = a + 1)
    BY HeldIs
  <2>. QED
    BY <2>1, <2>2
<1>. HIDE DEF f
<1>. DEFINE oldest == CHOOSE k \in D : \A j \in D : k <= j
            dropped == IF c > a THEN {oldest} ELSE {}
            g == IF c > a THEN f + 1 ELSE f
<1>6. lookups' = [k \in (D \cup {t}) \ dropped |-> IF k = t THEN n + 1 ELSE lookups[k]]
  BY <1>4, Zenon DEF Grown, NextLookups
<1>7. ASSUME c > a PROVE oldest = past[f].slot
  <2>1. f \in f .. n /\ f \in 1 .. n
    BY <1>5, <1>7
  <2>2. past[f].slot \in D /\ \A j \in D : past[f].slot <= j
    <3>1. \A i \in f .. n : past[f].slot <= past[i].slot
      <4>. TAKE i \in f .. n
      <4>1. i \in 1 .. n /\ (f = i \/ f < i)
        BY <2>1
      <4>. QED
        BY <1>3, <2>1, <4>1
    <3>. QED
      BY <1>4, <2>1, <3>1
  <2>3. oldest \in D /\ \A j \in D : oldest <= j
    BY <2>2, Zenon
  <2>4. oldest \in Nat /\ past[f].slot \in Nat
    <3>1. \A x \in D : x \in Nat
      BY <1>3, <1>4, <1>5
    <3>. HIDE DEF oldest, D
    <3>. QED
      BY <2>2, <2>3, <3>1
  <2>5. oldest <= past[f].slot /\ past[f].slot <= oldest
    BY <2>2, <2>3
  <2>. QED
    BY ONLY <2>4, <2>5
<1>. HIDE DEF oldest
<1>8. t \notin D
  BY <1>3, <1>4, <1>5
<1>9. (D \cup {t}) \ dropped = {past'[i].slot : i \in g .. n + 1}
  <2>1. {past'[i].slot : i \in g .. n + 1} = {past[i].slot : i \in g .. n} \cup {t}
    BY <1>1, <1>5
  <2>2. CASE c > a
    <3>1. f \in 1 .. n /\ dropped = {past[f].slot} /\ g = f + 1
      <4>1. dropped = {oldest} /\ oldest = past[f].slot /\ g = f + 1
        BY <1>7, <2>2
      <4>. QED
        BY <1>5, <2>2, <4>1
    <3>2. past[f].slot # t
      BY <1>3, <3>1
    <3>3. \A i \in g .. n : past[i].slot # past[f].slot /\ i \in f .. n
      BY <1>3, <3>1
    <3>4. D = {past[i].slot : i \in g .. n} \cup {past[f].slot}
      BY <1>4, <3>1
    <3>. QED
      BY ZenonT(30), <2>1, <3>1, <3>2, <3>3, <3>4
  <2>3. CASE ~ (c > a)
    BY <1>4, <2>1, <2>3
  <2>. QED
    BY <2>2, <2>3
<1>10. g = n + 1 - d + 1
  <2>1. CASE c > a
    <3>1. g = f + 1 /\ f = n - c + 1 /\ d = c
      BY <1>5, <2>1 DEF f
    <3>. QED
      BY <3>1
  <2>2. CASE ~ (c > a)
    <3>1. g = f /\ f = n - c + 1 /\ d = c + 1
      BY <1>5, <2>2 DEF f
    <3>. QED
      BY <3>1
  <2>. QED
    BY <2>1, <2>2
<1>11. \A i \in g .. n + 1 : lookups'[past'[i].slot] = i
  <2>. TAKE i \in g .. n + 1
  <2>1. past'[i].slot \in (D \cup {t}) \ dropped
    BY <1>9
  <2>2. CASE i = n + 1
    BY <1>1, <1>6, <2>1, <2>2
  <2>3. CASE i # n + 1
    <3>1. i \in f .. n /\ i \in 1 .. n
      BY <1>5, <2>3
    <3>2. past'[i].slot = past[i].slot /\ past[i].slot # t
      BY <1>1, <1>3, <3>1
    <3>. QED
      BY <1>4, <1>6, <2>1, <3>1, <3>2
  <2>. QED
    BY <2>2, <2>3
<1>12. /\ IsFiniteSet((D \cup {t}) \ dropped)
       /\ Cardinality((D \cup {t}) \ dropped) = d
  <2>1. IsFiniteSet(D \cup {t}) /\ Cardinality(D \cup {t}) = c + 1
    BY <1>4, <1>8, FS_AddElement
  <2>2. CASE c > a
    <3>1. f \in f .. n /\ dropped = {past[f].slot}
      <4>1. dropped = {oldest} /\ oldest = past[f].slot
        BY <1>7, <2>2
      <4>. QED
        BY <1>5, <2>2, <4>1
    <3>2. past[f].slot \in D \cup {t}
      BY <1>4, <3>1
    <3>3. d = c
      BY <1>5, <2>2
    <3>. HIDE DEF D, dropped
    <3>4. /\ IsFiniteSet((D \cup {t}) \ {past[f].slot})
          /\ Cardinality((D \cup {t}) \ {past[f].slot}) = (c + 1) - 1
      BY <2>1, <3>2, FS_RemoveElement
    <3>. QED
      BY <3>1, <3>3, <3>4
  <2>3. CASE ~ (c > a)
    <3>1. (D \cup {t}) \ dropped = D \cup {t}
      BY <2>3
    <3>2. d = c + 1
      BY <1>5, <2>3
    <3>. QED
      BY <2>1, <3>1, <3>2
  <2>. QED
    BY <2>2, <2>3
<1>13. DOMAIN lookups' = (D \cup {t}) \ dropped
  BY <1>6
<1>. HIDE DEF D, dropped, g
<1>14. Found' = g .. n + 1
  <2>1. Found' = (Len(past') - Held(Len(past'), MAXIMUM_AGE_LOOKUP_ANCHOR + 1) + 1) .. Len(past')
    BY Zenon DEF Found
  <2>2. Len(past') = n + 1 /\ MAXIMUM_AGE_LOOKUP_ANCHOR = a
    BY <1>1
  <2>3. Held(Len(past'), MAXIMUM_AGE_LOOKUP_ANCHOR + 1) = d
    BY <2>2, Zenon
  <2>4. Len(past') - Held(Len(past'), MAXIMUM_AGE_LOOKUP_ANCHOR + 1) + 1 = g
    BY ONLY <1>10, <2>2, <2>3, n \in Nat, d \in Nat
  <2>. QED
    BY <2>1, <2>2, <2>4, Zenon
<1>. QED
  BY <1>1, <1>9, <1>11, <1>12, <1>13, <1>14 DEF LookupsInv

-----------------------------------------------------------------------------
(* One rotation before is in the same epoch or in the one before.          *)
LEMMA EpochBeforeByRotation ==
  ASSUME NEW t \in Nat, NEW u \in Nat, Rotation(u) = Rotation(t) - 1
  PROVE  Epoch(u) = Epoch(t) \/ Epoch(u) = Epoch(t) - 1
<1>. PICK m \in Nat \ {0} : m = Turns
  BY TurnsFact
<1>. PICK p \in Nat : p = Rotation(u)
  BY EpochByRotation
<1>. PICK q \in Nat : q = Rotation(t)
  BY EpochByRotation
<1>. PICK e \in Nat : e = p \div m
  BY Division
<1>1. m * e <= p /\ p < m * e + m /\ m * e \in Nat
  BY Division, Products
<1>2. q = p + 1 /\ Epoch(u) = e /\ Epoch(t) = q \div m
  <2>1. Epoch(u) = p \div m /\ Epoch(t) = q \div m
    BY EpochByRotation
  <2>. QED
    BY <2>1
<1>3. CASE q < m * e + m
  <2>1. q \div m = e
    BY <1>1, <1>2, <1>3, QuotientIsUnique
  <2>. QED
    BY <1>2, <2>1
<1>4. CASE ~ (q < m * e + m)
  <2>. PICK f \in Nat : f = e + 1
    OBVIOUS
  <2>1. m * f = m * e + m
    <3>1. m * (e + 1) = m * e + m * 1 /\ m * 1 = m
      BY Products
    <3>. QED
      BY <3>1
  <2>2. m * f <= q /\ q < m * f + m
    BY <1>1, <1>2, <1>4, <2>1
  <2>3. q \div m = f
    BY <2>2, QuotientIsUnique
  <2>4. Epoch(t) = f /\ Epoch(u) = e
    BY <1>2, <2>3
  <2>. QED
    BY <2>4
<1>. QED
  BY <1>3, <1>4

(* An assignment that pays the block's credentials.                        *)
Honours(assigned, block) ==
  /\ assigned.core = block.assigned.core
  /\ \A v \in Validators : block.assigned.key[v] \notin offenders \cup {Nobody}
                             => assigned.key[v] = block.assigned.key[v]

LEMMA AssignedAgain ==
  ASSUME NEW e, NEW keys, NEW block, NEW u \in Nat, block.slot \in Nat,
         Rotation(u) = Rotation(block.slot), Tells(offenders, e, keys, block)
  PROVE  Honours(M_fn(e, u, keys, offenders), block)
<1>1. P(e, u) = P(e, block.slot)
  <2>. PICK w \in Nat : w = block.slot
    OBVIOUS
  <2>1. \A x : P(x, u) = P(x, w)
    BY SameRotation
  <2>. QED
    BY <2>1
<1>2. M_fn(e, u, keys, offenders).core = block.assigned.core
  BY <1>1, AssignmentOf DEF Tells
<1>3. ASSUME NEW v \in Validators, block.assigned.key[v] \notin offenders \cup {Nobody}
      PROVE  M_fn(e, u, keys, offenders).key[v] = block.assigned.key[v]
  <2>1. block.assigned.key[v] = keys[v]
    BY <1>3 DEF Tells
  <2>2. keys[v] \notin offenders
    BY <1>3, <2>1
  <2>. QED
    BY <2>1, <2>2, AssignmentOf
<1>. QED
  BY <1>2, <1>3 DEF Honours

(* What a block of this rotation or of the one before assigned, the next   *)
(* block assigns to its guarantees, but for the keys that offended.        *)
LEMMA SameAssignment ==
  ASSUME BooksInv, NEW t \in Nat, t > slot, NEW b \in 1 .. Len(past),
         Rotation(past[b].slot) >= Rotation(t) - 1
  PROVE  Honours(AssignmentFor(Posterior(t, {}), past[b].slot), past[b])
<1>. PICK none : none = {}
  OBVIOUS
<1>. PICK s : s = Posterior(t, none)
  OBVIOUS
<1>1. /\ past[b].slot \in Nat /\ slot - past[b].slot >= Len(past) - b
      /\ slot \in Nat /\ Len(past) \in Nat
  BY DEF BooksInv, SlotsInv, IsSeq
<1>. PICK u \in Nat : u = past[b].slot
  BY <1>1
<1>2. u <= slot /\ u <= t /\ slot <= t
  BY <1>1
<1>3. /\ Epoch(u) \in Nat /\ Epoch(slot) \in Nat /\ Epoch(t) \in Nat
      /\ Rotation(u) \in Nat /\ Rotation(t) \in Nat
      /\ Epoch(u) <= Epoch(slot) /\ Epoch(slot) <= Epoch(t) /\ Rotation(u) <= Rotation(t)
  <2>. PICK z \in Nat : z = slot
    BY <1>1
  <2>1. u <= z /\ u <= t /\ z <= t
    BY <1>2
  <2>2. Epoch(u) <= Epoch(z) /\ Epoch(u) \in Nat /\ Rotation(u) \in Nat
    BY <2>1, Later
  <2>3. Epoch(z) <= Epoch(t) /\ Epoch(z) \in Nat
    BY <2>1, Later
  <2>4. Rotation(u) <= Rotation(t) /\ Epoch(t) \in Nat /\ Rotation(t) \in Nat
    <3>1. t <= t
      OBVIOUS
    <3>. QED
      BY <2>1, <3>1, Later
  <2>. QED
    BY <2>2, <2>3, <2>4
<1>4. /\ Epoch(u) = Epoch(slot) => Tells(offenders, eta[2], kappa, past[b])
      /\ Epoch(u) = Epoch(slot) - 1 => Tells(offenders, eta[3], lambda, past[b])
  BY DEF BooksInv, AssignedInv
<1>5. /\ s.slot = t
      /\ s.kappa = IF isNewerEra(t) THEN gammaP ELSE kappa
      /\ s.lambda = IF isNewerEra(t) THEN kappa ELSE lambda
      /\ s.eta[2] = IF isNewerEra(t) THEN eta[1] ELSE eta[2]
      /\ s.eta[3] = IF isNewerEra(t) THEN eta[2] ELSE eta[3]
      /\ s.cur = M_fn(s.eta[2], t, s.kappa, offenders)
      /\ s.prev = IF Epoch(t - VALIDATOR_CORE_ROTATION) = Epoch(t)
                  THEN M_fn(s.eta[2], t - VALIDATOR_CORE_ROTATION, s.kappa, offenders)
                  ELSE M_fn(s.eta[3], t - VALIDATOR_CORE_ROTATION, s.lambda, offenders)
  <2>1. offenders \cup none = offenders
    OBVIOUS
  <2>2. /\ s.slot = t /\ s.offenders = offenders \cup none
        /\ s.kappa = IF isNewerEra(t) THEN gammaP ELSE kappa
        /\ s.lambda = IF isNewerEra(t) THEN kappa ELSE lambda
        /\ s.eta[2] = IF isNewerEra(t) THEN eta[1] ELSE eta[2]
        /\ s.eta[3] = IF isNewerEra(t) THEN eta[2] ELSE eta[3]
        /\ s.cur = M_fn(s.eta[2], t, s.kappa, s.offenders)
        /\ s.prev = IF Epoch(t - VALIDATOR_CORE_ROTATION) = Epoch(t)
                    THEN M_fn(s.eta[2], t - VALIDATOR_CORE_ROTATION, s.kappa, s.offenders)
                    ELSE M_fn(s.eta[3], t - VALIDATOR_CORE_ROTATION, s.lambda, s.offenders)
    BY ONLY s = Posterior(t, none), PosteriorIs
  <2>3. s.offenders = offenders
    BY <2>1, <2>2
  <2>. QED
    BY <2>2, <2>3
<1>6. Epoch(u) = Epoch(t) => /\ s.eta[2] = eta[2] /\ s.kappa = kappa
                             /\ Tells(offenders, s.eta[2], s.kappa, past[b])
  BY <1>3, <1>4, <1>5 DEF isNewerEra
<1>7. Epoch(u) = Epoch(t) - 1 => Tells(offenders, s.eta[3], s.lambda, past[b])
  <2>. SUFFICES ASSUME Epoch(u) = Epoch(t) - 1
                PROVE  Tells(offenders, s.eta[3], s.lambda, past[b])
    OBVIOUS
  <2>1. CASE Epoch(slot) = Epoch(t)
    BY <1>3, <1>4, <1>5, <2>1 DEF isNewerEra
  <2>2. CASE Epoch(slot) # Epoch(t)
    <3>1. Epoch(slot) = Epoch(u) /\ isNewerEra(t)
      BY <1>3, <2>2 DEF isNewerEra
    <3>. QED
      BY <1>4, <1>5, <3>1
  <2>. QED
    BY <2>1, <2>2
<1>8. CASE Rotation(u) = Rotation(t)
  <2>1. Epoch(u) = Epoch(t)
    BY <1>8, SameRotation
  <2>2. AssignmentFor(s, u) = M_fn(s.eta[2], t, s.kappa, offenders)
    BY <1>5, <1>8 DEF AssignmentFor
  <2>3. Tells(offenders, s.eta[2], s.kappa, past[b])
    BY <1>6, <2>1
  <2>4. Honours(M_fn(s.eta[2], t, s.kappa, offenders), past[b])
    BY <1>1, <1>8, <2>3, AssignedAgain
  <2>. QED
    BY <2>2, <2>4
<1>9. CASE Rotation(u) # Rotation(t)
  <2>1. Rotation(u) = Rotation(t) - 1 /\ Rotation(t) >= 1
    BY <1>3, <1>9
  <2>. PICK w \in Nat : w = t - VALIDATOR_CORE_ROTATION
    BY <2>1, RotationBefore
  <2>2. Rotation(w) = Rotation(u)
    BY <2>1, RotationBefore
  <2>3. Epoch(w) = Epoch(u)
    BY <2>2, SameRotation
  <2>4. Epoch(u) = Epoch(t) \/ Epoch(u) = Epoch(t) - 1
    BY <2>1, EpochBeforeByRotation
  <2>5. AssignmentFor(s, u) = s.prev
    BY <1>5, <1>9 DEF AssignmentFor
  <2>6. Honours(s.prev, past[b])
    <3>1. CASE Epoch(w) = Epoch(t)
      <4>1. s.prev = M_fn(s.eta[2], w, s.kappa, offenders)
        BY <1>5, <3>1
      <4>2. Tells(offenders, s.eta[2], s.kappa, past[b])
        BY <1>6, <2>3, <3>1
      <4>. QED
        BY <1>1, <2>2, <4>1, <4>2, AssignedAgain
    <3>2. CASE Epoch(w) # Epoch(t)
      <4>1. s.prev = M_fn(s.eta[3], w, s.lambda, offenders)
        BY <1>5, <3>2
      <4>2. Tells(offenders, s.eta[3], s.lambda, past[b])
        BY <1>7, <2>3, <2>4, <3>2
      <4>. QED
        BY <1>1, <2>2, <4>1, <4>2, AssignedAgain
    <3>. QED
      BY <3>1, <3>2
  <2>. QED
    BY <2>5, <2>6
<1>. QED
  BY <1>8, <1>9

-----------------------------------------------------------------------------
(* An honest guarantee of the core c, for the slot and with the keys of    *)
(* block b.                                                                *)
Guaranteed(g, b, t, c, a, l, h, d, pair) ==
  /\ a \in 1 .. b /\ Recent(a)
  /\ l \in 1 .. b /\ past[l].slot >= t - MAXIMUM_AGE_LOOKUP_ANCHOR
  /\ h \in Range(authPool[c]) /\ d \in Works
  /\ pair \in Assigned(b, c) \X Assigned(b, c) /\ pair[1] < pair[2]
  /\ g.core = c /\ g.authorizer = h /\ g.digests = d /\ g.slot = past[b].slot
  /\ g.anchor = [hash |-> a, postState |-> a, accOutLog |-> past[a].log]
  /\ g.lookup = [slot |-> past[l].slot, hash |-> l]
  /\ g.signatures = Credentials(pair, past[b].assigned.key)

LEMMA HonestOnes ==
  ASSUME NEW b, NEW t, NEW c, NEW g \in Honest(b, t, c)
  PROVE  \E a, l, h, d, pair : Guaranteed(g, b, t, c, a, l, h, d, pair)
<1>1. PICK a \in {a \in 1 .. b : Recent(a)},
           l \in {l \in 1 .. b : past[l].slot >= t - MAXIMUM_AGE_LOOKUP_ANCHOR},
           h \in Range(authPool[c]), d \in Works,
           pair \in {p \in Assigned(b, c) \X Assigned(b, c) : p[1] < p[2]} :
        g = Report(c, h, d,
                   [anchor |-> [hash |-> a, postState |-> a, accOutLog |-> past[a].log],
                    lookup |-> [slot |-> past[l].slot, hash |-> l]],
                   past[b].slot, Credentials(pair, past[b].assigned.key))
  BY DEF Honest
<1>2. /\ g.core = c /\ g.authorizer = h /\ g.digests = d /\ g.slot = past[b].slot
      /\ g.anchor = [hash |-> a, postState |-> a, accOutLog |-> past[a].log]
      /\ g.lookup = [slot |-> past[l].slot, hash |-> l]
      /\ g.signatures = Credentials(pair, past[b].assigned.key)
  BY <1>1 DEF Report
<1>3. Guaranteed(g, b, t, c, a, l, h, d, pair)
  BY <1>2, Zenon DEF Guaranteed
<1>. QED
  BY <1>3, Zenon

LEMMA HonestSignatures ==
  ASSUME BooksInv, NEW t \in Nat, t > slot, NEW b \in 1 .. Len(past), NEW c \in Cores,
         Rotation(past[b].slot) >= Rotation(t) - 1, NEW s, s = Posterior(t, {}),
         NEW g, NEW a, NEW l, NEW h, NEW d, NEW pair,
         Guaranteed(g, b, t, c, a, l, h, d, pair)
  PROVE  GuaranteeValid(s, g)
<1>1. s.slot = t
  BY ONLY s = Posterior(t, {}), PosteriorIs
<1>2. Honours(AssignmentFor(s, g.slot), past[b])
  <2>1. Honours(AssignmentFor(Posterior(t, {}), past[b].slot), past[b])
    BY SameAssignment
  <2>. QED
    BY <2>1 DEF Guaranteed
<1>. DEFINE key == past[b].assigned.key
<1>3. /\ pair[1] \in Assigned(b, c) /\ pair[2] \in Assigned(b, c) /\ pair[1] < pair[2]
      /\ g.signatures = Credentials(pair, key) /\ g.core = c /\ g.digests = d /\ d \in Works
      /\ g.slot = past[b].slot
  BY DEF Guaranteed
<1>4. g.signatures = [i \in 1 .. 2 |-> [validatorIndex |-> pair[i], signedBy |-> key[pair[i]]]]
  BY <1>3 DEF Credentials
<1>5. /\ pair[1] \in Validators /\ past[b].assigned.core[pair[1]] = c
      /\ key[pair[1]] \notin offenders \cup {Nobody}
      /\ pair[2] \in Validators /\ past[b].assigned.core[pair[2]] = c
      /\ key[pair[2]] \notin offenders \cup {Nobody}
  BY <1>3 DEF Assigned
<1>6. \A i \in 1 .. 2 : /\ pair[i] \in Validators /\ past[b].assigned.core[pair[i]] = c
                        /\ key[pair[i]] \notin offenders \cup {Nobody}
  <2>. TAKE i \in 1 .. 2
  <2>1. i = 1 \/ i = 2
    OBVIOUS
  <2>. QED
    BY <1>5, <2>1
<1>. HIDE DEF key
<1>7. Len(g.signatures) = 2 /\ DOMAIN g.signatures = 1 .. 2
  BY <1>4
<1>8. ASSUME NEW i \in DOMAIN g.signatures PROVE CredentialValid(s, g, g.signatures[i])
  <2>1. i \in 1 .. 2
    BY <1>7
  <2>2. g.signatures[i] = [validatorIndex |-> pair[i], signedBy |-> key[pair[i]]]
    BY <1>4, <2>1
  <2>3. g.signatures[i].validatorIndex = pair[i] /\ g.signatures[i].signedBy = key[pair[i]]
    BY <2>2
  <2>4. /\ pair[i] \in Validators
        /\ AssignmentFor(s, g.slot).key[pair[i]] = key[pair[i]]
        /\ AssignmentFor(s, g.slot).core[pair[i]] = c
    BY <1>2, <1>6, <2>1 DEF Honours, key
  <2>. QED
    BY <1>3, <2>3, <2>4, Zenon DEF CredentialValid
<1>9. \A i \in 2 .. Len(g.signatures) :
         g.signatures[i - 1].validatorIndex < g.signatures[i].validatorIndex
  <2>1. g.signatures[1].validatorIndex = pair[1] /\ g.signatures[2].validatorIndex = pair[2]
    BY <1>4
  <2>2. \A i \in 2 .. Len(g.signatures) : i = 2 /\ i - 1 = 1
    BY <1>7
  <2>. QED
    BY <1>3, <2>1, <2>2
<1>10. VALIDATOR_CORE_ROTATION * (Rotation(s.slot) - 1) <= g.slot /\ g.slot <= s.slot
  <2>1. /\ past[b].slot \in Nat /\ slot - past[b].slot >= Len(past) - b
        /\ slot \in Nat /\ Len(past) \in Nat
    BY DEF BooksInv, SlotsInv, IsSeq
  <2>. PICK u \in Nat : u = past[b].slot
    BY <2>1
  <2>. PICK r \in Nat \ {0} : r = VALIDATOR_CORE_ROTATION
    BY TurnsFact
  <2>. PICK q \in Nat : q = t \div r
    BY Division
  <2>. PICK p \in Nat : p = u \div r
    BY Division
  <2>2. r * p <= u /\ r * p \in Nat
    BY Division, Products
  <2>3. p >= q - 1
    BY DEF Rotation
  <2>4. r * (q - 1) <= u
    <3>1. CASE q = 0
      <4>1. r * (q - 1) = 0 - r
        BY <3>1
      <4>. QED
        BY <4>1
    <3>2. CASE q # 0
      <4>. PICK z \in Nat : z = q - 1
        BY ONLY <3>2, q \in Nat
      <4>1. r * z <= r * p
        BY <2>3, ProductKeepsOrder
      <4>2. r * z <= u /\ r * z \in Nat
        BY <2>2, <4>1, Products
      <4>. QED
        BY <4>2
    <3>. QED
      BY <3>1, <3>2
  <2>5. u <= t
    <3>. PICK y \in Nat : y = slot
      BY <2>1
    <3>. PICK n \in Nat : n = Len(past)
      BY <2>1
    <3>1. y - u >= n - b /\ y < t /\ b \in 1 .. n
      BY <2>1
    <3>. QED
      BY ONLY <3>1
  <2>6. Rotation(s.slot) = q /\ g.slot = u /\ s.slot = t
    BY <1>1, <1>3 DEF Rotation
  <2>. QED
    BY <2>4, <2>5, <2>6, Zenon
<1>11. Len(g.digests) >= 1 /\ g.core \in Cores
  BY <1>3, BooksAssumption
<1>12. Len(g.signatures) \in 2 .. 3
  BY <1>7
<1>. QED
  BY <1>8, <1>9, <1>10, <1>11, <1>12, Zenon DEF GuaranteeValid

LEMMA HonestContext ==
  ASSUME BooksInv, NEW t \in Nat, t > slot, NEW b \in 1 .. Len(past), NEW c,
         NEW s, s = Posterior(t, {}), NEW g, NEW a, NEW l, NEW h, NEW d, NEW pair,
         Guaranteed(g, b, t, c, a, l, h, d, pair)
  PROVE  ContextKnown(s, g)
<1>1. s.slot = t
  BY ONLY s = Posterior(t, {}), PosteriorIs
<1>. PICK n \in Nat : n = Len(past)
  BY DEF BooksInv, SlotsInv, IsSeq
<1>2. /\ a \in 1 .. b /\ Recent(a) /\ l \in 1 .. b
      /\ past[l].slot >= t - MAXIMUM_AGE_LOOKUP_ANCHOR
      /\ g.anchor.hash = a /\ g.anchor.postState = a /\ g.anchor.accOutLog = past[a].log
      /\ g.lookup.slot = past[l].slot /\ g.lookup.hash = l
  BY DEF Guaranteed
<1>3. \E i \in DOMAIN RecentWithRoot : RecentWithRoot[i] = Full(a)
  <2>. PICK m \in Nat : m = Len(recent)
    BY RangeOfPast DEF BooksInv
  <2>. PICK k \in Nat \ {0} : k = RECENT_HISTORY_LENGTH
    BY BooksAssumption
  <2>1. m = Held(n, k)
    BY DEF BooksInv, RecentInv
  <2>2. m <= n /\ (n < k => m = n) /\ (n >= k => m = k)
    BY ONLY <2>1, n \in Nat, k \in Nat, HeldIs
  <2>3. a \in 1 .. n /\ a > n - k
    BY <1>2 DEF Recent
  <2>. PICK i \in 1 .. m : n - m + i = a
    <3>. DEFINE i == a - n + m
    <3>1. i \in 1 .. m /\ n - m + i = a
      BY <2>2, <2>3
    <3>. QED
      BY <3>1
  <2>4. DOMAIN RecentWithRoot = 1 .. m /\ RecentWithRoot[i] = Full(n - m + i)
    BY WithRoot DEF BooksInv
  <2>. QED
    BY <2>4
<1>4. /\ g.lookup.slot >= s.slot - MAXIMUM_AGE_LOOKUP_ANCHOR
      /\ g.lookup.slot \in DOMAIN lookups /\ lookups[g.lookup.slot] = g.lookup.hash
  <2>. PICK w \in Nat : w = MAXIMUM_AGE_LOOKUP_ANCHOR
    BY BooksAssumption
  <2>. PICK z \in Nat : z = w + 1
    OBVIOUS
  <2>. PICK k \in Nat : k = Held(n, z)
    BY HeldIs
  <2>1. (n < z => k = n) /\ (n >= z => k = z)
    BY ONLY k = Held(n, z), n \in Nat, z \in Nat, HeldIs
  <2>2. l \in 1 .. n
    BY <1>2
  <2>3. past[l].slot \in Nat /\ slot - past[l].slot >= n - l /\ slot \in Nat
    BY <2>2 DEF BooksInv, SlotsInv
  <2>. PICK u \in Nat : u = past[l].slot
    BY <2>3
  <2>4. u >= t - w /\ slot - u >= n - l
    BY <1>2, <2>3
  <2>5. n - l < w
    <3>. PICK y \in Nat : y = slot
      BY <2>3
    <3>1. u >= t - w /\ y - u >= n - l /\ y < t /\ l \in Nat
      BY <2>2, <2>4
    <3>. QED
      BY ONLY <3>1, u \in Nat, t \in Nat, w \in Nat, y \in Nat, n \in Nat
  <2>6. l \in (n - k + 1) .. n
    BY <2>1, <2>2, <2>5
  <2>7. Found = (n - k + 1) .. n
    BY DEF Found
  <2>8. past[l].slot \in DOMAIN lookups /\ lookups[past[l].slot] = l
    BY <2>6, <2>7 DEF BooksInv, LookupsInv
  <2>. QED
    BY <1>1, <1>2, <2>8
<1>5. PICK i \in DOMAIN RecentWithRoot : RecentWithRoot[i] = Full(a)
  BY <1>3
<1>6. /\ RecentWithRoot[i].headerHash = g.anchor.hash
      /\ RecentWithRoot[i].stateRoot = g.anchor.postState
      /\ RecentWithRoot[i].log = g.anchor.accOutLog
  BY <1>2, <1>5 DEF Full
<1>. QED
  BY <1>4, <1>6, Zenon DEF ContextKnown

LEMMA BooksServe == BooksInv => HonestGuaranteeAccepted
<1>. SUFFICES ASSUME BooksInv, NEW gap \in Gaps, NEW b \in DOMAIN past, NEW c \in Cores,
                     RhoWithout(slot + gap, {})[c] = Empty,
                     Rotation(past[b].slot) >= Rotation(Posterior(slot + gap, {}).slot) - 1,
                     NEW g \in Honest(b, Posterior(slot + gap, {}).slot, c), ReportPayable(g)
              PROVE  Accepts(Posterior(slot + gap, {}), RhoWithout(slot + gap, {}), <<g>>)
  BY Zenon DEF HonestGuaranteeAccepted
<1>1. slot \in Nat /\ b \in 1 .. Len(past)
  BY Appended DEF BooksInv, SlotsInv
<1>. PICK t \in Nat : t = slot + gap
  BY <1>1, BooksAssumption
<1>2. t > slot
  BY <1>1, BooksAssumption
<1>. PICK s : s = Posterior(t, {})
  OBVIOUS
<1>. PICK without : without = RhoWithout(t, {})
  OBVIOUS
<1>3. s.slot = t
  BY ONLY s = Posterior(t, {}), PosteriorIs
<1>4. /\ without[c] = Empty /\ Rotation(past[b].slot) >= Rotation(t) - 1 /\ g \in Honest(b, t, c)
  BY <1>3
<1>5. PICK a, l, h, d, pair : Guaranteed(g, b, t, c, a, l, h, d, pair)
  BY <1>4, HonestOnes
<1>6. GuaranteeValid(s, g)
  BY <1>1, <1>2, <1>4, <1>5, HonestSignatures
<1>7. ContextKnown(s, g)
  BY <1>1, <1>2, <1>5, HonestContext
<1>8. Authorized(without, g)
  <2>1. g.core = c /\ g.authorizer = h /\ h \in Range(authPool[c])
    BY <1>5, Zenon DEF Guaranteed
  <2>2. \E i \in DOMAIN authPool[c] : authPool[c][i] = h
    BY <2>1, Zenon DEF Range
  <2>. QED
    BY <1>4, <2>1, <2>2, Zenon DEF Authorized
<1>9. Accepts(s, without, <<g>>)
  <2>1. Len(<<g>>) = 1 /\ DOMAIN <<g>> = {1} /\ <<g>>[1] = g /\ 1 <= CORES
    BY SizesAssumption
  <2>2. Len(<<g>>) <= CORES /\ 2 .. Len(<<g>>) = {}
    BY <2>1
  <2>. QED
    BY <1>6, <1>7, <1>8, <2>1, <2>2, Zenon DEF Accepts
<1>. QED
  BY <1>9

-----------------------------------------------------------------------------
LEMMA BooksStep == BooksInv /\ [BooksNext]_booksVars => BooksInv'
<1>. SUFFICES ASSUME BooksInv, [BooksNext]_booksVars PROVE BooksInv'
  OBVIOUS
<1>1. CASE UNCHANGED booksVars
  BY <1>1 DEF booksVars, BooksInv, SlotsInv, AssignedInv, RecentInv, LookupsInv, Found, Entry
<1>2. CASE BooksNext
  <2>1. slot \in Nat
    BY DEF BooksInv, SlotsInv
  <2>2. PICK t, offence, block : Grown(t, offence, block)
    BY <1>2, <2>1, StepGrows
  <2>. QED
    BY <2>2, SlotsStep, AssignedStep, RecentStep, LookupsStep DEF BooksInv
<1>. QED
  BY <1>1, <1>2

(* A guarantee that validators make honestly is accepted for as long as it *)
(* may be: for every number of validators and cores, every length of       *)
(* rotations, epochs and histories, and every distance between blocks      *)
(* (guarantees.ts:155-215, 289-450; guarantors-assignment-impl.ts:76-169;  *)
(* header-lookup-history-impl.ts:22-34).                                   *)
THEOREM HonestGuaranteesAccepted == Books => []HonestGuaranteeAccepted
<1>. QED
  BY BooksBegin, BooksStep, BooksServe, PTL DEF Books

-----------------------------------------------------------------------------
(* Induction without a predicate: a nonempty set of numbers has a least    *)
(* element, since the intervals up to its members are finite sets and      *)
(* strict inclusion of these is well founded.                              *)
LEMMA LeastElement ==
  ASSUME NEW S \in SUBSET Nat, S # {}
  PROVE  \E m \in S : \A n \in S : m <= n
<1>. DEFINE T == {0 .. n : n \in S}
<1>1. T \subseteq FiniteSubsetsOf(Nat)
  <2>1. ASSUME NEW n \in S PROVE 0 .. n \in SUBSET Nat /\ IsFiniteSet(0 .. n)
    BY FS_Interval
  <2>. QED
    BY <2>1 DEF FiniteSubsetsOf
<1>2. T # {}
  OBVIOUS
<1>3. \E t \in T : \A u \in T : <<u, t>> \notin StrictSubsetOrdering(Nat)
  <2>. HIDE DEF T
  <2>. QED
    BY <1>1, <1>2, FS_StrictSubsetOrderingWellFounded, WFMin
<1>4. PICK m \in S : \A u \in T : <<u, 0 .. m>> \notin StrictSubsetOrdering(Nat)
  BY <1>3
<1>5. ASSUME NEW n \in S, n < m PROVE FALSE
  <2>1. <<0 .. n, 0 .. m>> \notin StrictSubsetOrdering(Nat)
    BY <1>4
  <2>2. 0 .. n \in SUBSET Nat /\ 0 .. m \in SUBSET Nat /\ 0 .. n \subseteq 0 .. m
    BY <1>5
  <2>3. m \in 0 .. m /\ m \notin 0 .. n
    BY <1>5
  <2>. QED
    BY <2>1, <2>2, <2>3 DEF StrictSubsetOrdering
<1>. QED
  BY <1>5

(* Induction, on the members of a set up to a bound.                       *)
LEMMA Induction ==
  ASSUME NEW N \in Nat, NEW S, 0 \in S,
         \A n \in 0 .. N - 1 : n \in S => n + 1 \in S
  PROVE  \A n \in 0 .. N : n \in S
<1>. DEFINE Bad == {n \in 0 .. N : n \notin S}
<1>. SUFFICES ASSUME Bad # {} PROVE FALSE
  OBVIOUS
<1>1. PICK m \in Bad : \A n \in Bad : m <= n
  <2>. Bad \in SUBSET Nat
    OBVIOUS
  <2>. HIDE DEF Bad
  <2>. QED
    BY LeastElement
<1>2. m # 0 /\ m - 1 \in 0 .. N - 1 /\ (m - 1) + 1 = m
  BY <1>1
<1>3. m - 1 \in S
  BY <1>1, <1>2
<1>. QED
  BY <1>1, <1>2, <1>3

(* A function on 0 .. N may be defined from its value at 0 and by steps.   *)
Recursion(g, N, V, c, step) ==
  /\ g \in [0 .. N -> V]
  /\ g[0] = c
  /\ \A n \in 1 .. N : g[n] = step[<<g[n - 1], n>>]

(* Steps define a function, by induction on how far it is defined.         *)
LEMMA RecursionExists ==
  ASSUME NEW N \in Nat, NEW V, NEW c \in V, NEW step \in [V \X (1 .. N) -> V]
  PROVE  \E g : Recursion(g, N, V, c, step)
<1>. DEFINE Good(g, n) == g[0] = c /\ \A k \in 1 .. n : g[k] = step[<<g[k - 1], k>>]
            S == {n \in 0 .. N : \E g \in [0 .. N -> V] : Good(g, n)}
<1>1. 0 \in S
  <2>. DEFINE g0 == [n \in 0 .. N |-> c]
  <2>1. g0 \in [0 .. N -> V] /\ Good(g0, 0)
    OBVIOUS
  <2>2. \E g \in [0 .. N -> V] : Good(g, 0)
    <3>. HIDE DEF g0, Good
    <3>. QED
      BY <2>1
  <2>. HIDE DEF Good
  <2>. QED
    BY <2>2
<1>2. ASSUME NEW n \in 0 .. N - 1, n \in S PROVE n + 1 \in S
  <2>1. PICK g \in [0 .. N -> V] : Good(g, n)
    BY <1>2
  <2>. DEFINE h == [g EXCEPT ![n + 1] = step[<<g[n], n + 1>>]]
  <2>2. n \in 0 .. N /\ n + 1 \in 1 .. N /\ (n + 1) - 1 = n
    OBVIOUS
  <2>3. step[<<g[n], n + 1>>] \in V
    BY <2>2
  <2>4. h \in [0 .. N -> V]
    BY <2>3
  <2>5. h[n + 1] = step[<<h[n], n + 1>>] /\ h[0] = g[0]
    BY <2>2
  <2>6. ASSUME NEW k \in 1 .. n PROVE h[k] = step[<<h[k - 1], k>>]
    <3>1. k \in 0 .. N /\ k - 1 \in 0 .. N /\ k # n + 1 /\ k - 1 # n + 1
      BY <2>2
    <3>2. h[k] = g[k] /\ h[k - 1] = g[k - 1]
      BY <3>1
    <3>. QED
      BY <2>1, <3>2
  <2>7. Good(h, n + 1)
    <3>. HIDE DEF h
    <3>. QED
      BY SMTT(30), <2>1, <2>2, <2>5, <2>6
  <2>8. \E f \in [0 .. N -> V] : Good(f, n + 1)
    <3>. HIDE DEF h, Good
    <3>. QED
      BY <2>4, <2>7
  <2>. HIDE DEF Good
  <2>. QED
    BY <2>8, <2>2
<1>3. \A n \in 0 .. N : n \in S
  <2>. HIDE DEF S
  <2>. QED
    BY <1>1, <1>2, Induction
<1>4. PICK g \in [0 .. N -> V] : Good(g, N)
  <2>. N \in S
    <3>. HIDE DEF S
    <3>. QED
      BY <1>3
  <2>. HIDE DEF Good
  <2>. QED
    OBVIOUS
<1>. QED
  BY <1>4 DEF Recursion

(* Induction over the subsets of a finite set: strict inclusion is well    *)
(* founded.                                                                *)
LEMMA SubsetInduction ==
  ASSUME NEW S, IsFiniteSet(S), NEW G,
         \A T \in SUBSET S : (\A U \in SUBSET T : U # T => U \in G) => T \in G
  PROVE  \A T \in SUBSET S : T \in G
<1>. DEFINE Bad == {T \in SUBSET S : T \notin G}
<1>. SUFFICES ASSUME Bad # {} PROVE FALSE
  OBVIOUS
<1>1. Bad \subseteq FiniteSubsetsOf(S)
  BY FS_Subset DEF FiniteSubsetsOf
<1>2. PICK T \in Bad : \A U \in Bad : <<U, T>> \notin StrictSubsetOrdering(S)
  <2>. HIDE DEF Bad
  <2>. QED
    BY <1>1, FS_StrictSubsetOrderingWellFounded, WFMin
<1>3. ASSUME NEW U \in SUBSET T, U # T PROVE U \in G
  <2>. SUFFICES ASSUME U \notin G PROVE FALSE
    OBVIOUS
  <2>1. U \in Bad /\ U \in SUBSET S /\ T \in SUBSET S
    OBVIOUS
  <2>2. <<U, T>> \in StrictSubsetOrdering(S)
    BY <2>1, <1>3 DEF StrictSubsetOrdering
  <2>. QED
    BY <1>2, <2>1, <2>2
<1>. QED
  BY <1>2, <1>3


(* A fold over a finite set, by what it is of the subsets: step adds the   *)
(* member that pick takes first to the fold of the rest.                   *)
Folding(g, base, step, pick, S) ==
  /\ DOMAIN g = SUBSET S
  /\ \A T \in SUBSET S :
       g[T] = IF T = {} THEN base ELSE step[<<pick[T], g[T \ {pick[T]}]>>]

(* There is one, by steps up to the size of the set.                       *)
LEMMA FoldingExists ==
  ASSUME NEW S, IsFiniteSet(S), NEW V, NEW base \in V, NEW step \in [S \X V -> V], NEW pick,
         \A T \in SUBSET S : T # {} => pick[T] \in T
  PROVE  \E g : Folding(g, base, step, pick, S)
<1>. DEFINE N == Cardinality(S) + 1
            W == [SUBSET S -> V]
            start == [T \in SUBSET S |-> base]
            wider == [p \in W \X (1 .. N) |->
                        [T \in SUBSET S |->
                           IF T = {} THEN base ELSE step[<<pick[T], p[1][T \ {pick[T]}]>>]]]
<1>1. N \in Nat /\ Cardinality(S) \in Nat
  BY FS_CardinalityType
<1>2. start \in W
  OBVIOUS
<1>3. wider \in [W \X (1 .. N) -> W]
  <2>1. ASSUME NEW p \in W \X (1 .. N), NEW T \in SUBSET S, T # {}
        PROVE  step[<<pick[T], p[1][T \ {pick[T]}]>>] \in V
    <3>1. pick[T] \in S /\ T \ {pick[T]} \in SUBSET S
      BY <2>1
    <3>2. p[1] \in W
      OBVIOUS
    <3>3. p[1][T \ {pick[T]}] \in V
      BY <3>1, <3>2
    <3>. QED
      BY <3>1, <3>3
  <2>2. ASSUME NEW p \in W \X (1 .. N)
        PROVE  [T \in SUBSET S |-> IF T = {} THEN base
                                   ELSE step[<<pick[T], p[1][T \ {pick[T]}]>>]] \in W
    <3>1. ASSUME NEW T \in SUBSET S
          PROVE  (IF T = {} THEN base ELSE step[<<pick[T], p[1][T \ {pick[T]}]>>]) \in V
      <4>1. CASE T = {}
        BY <4>1
      <4>2. CASE T # {}
        BY <2>1, <4>2
      <4>. QED
        BY <4>1, <4>2
    <3>. QED
      BY <3>1
  <2>. HIDE DEF W
  <2>. QED
    BY <2>2
<1>4. \E h : Recursion(h, N, W, start, wider)
  <2>. HIDE DEF N, W, start, wider
  <2>. QED
    BY <1>1, <1>2, <1>3, RecursionExists
<1>5. PICK h : Recursion(h, N, W, start, wider)
  BY <1>4
<1>6. ASSUME NEW n \in 1 .. N, NEW T \in SUBSET S
      PROVE  h[n][T] = IF T = {} THEN base ELSE step[<<pick[T], h[n - 1][T \ {pick[T]}]>>]
  <2>1. n - 1 \in 0 .. N /\ h[n - 1] \in W /\ h[n] = wider[<<h[n - 1], n>>]
    <3>. HIDE DEF W, wider, start
    <3>. QED
      BY SMTT(20), <1>1, <1>5 DEF Recursion
  <2>2. <<h[n - 1], n>> \in W \X (1 .. N)
    BY <2>1
  <2>. HIDE DEF W, N
  <2>. QED
    BY <2>1, <2>2
<1>. DEFINE Stable == {T \in SUBSET S : \A n \in 1 .. N : Cardinality(T) < n =>
                         h[n][T] = h[N][T]}
<1>7. ASSUME NEW T \in SUBSET S, \A U \in SUBSET T : U # T => U \in Stable
      PROVE  T \in Stable
  <2>. SUFFICES ASSUME NEW n \in 1 .. N, Cardinality(T) < n
                PROVE  h[n][T] = h[N][T]
    OBVIOUS
  <2>0. N \in 1 .. N
    BY <1>1
  <2>. HIDE DEF N
  <2>1. CASE T = {}
    BY <2>0, <2>1, <1>6
  <2>2. CASE T # {}
    <3>. DEFINE U == T \ {pick[T]}
    <3>1. pick[T] \in T /\ IsFiniteSet(T)
      BY <2>2, FS_Subset
    <3>2. Cardinality(U) = Cardinality(T) - 1 /\ Cardinality(T) \in Nat
      BY <3>1, FS_RemoveElement, FS_CardinalityType
    <3>3. Cardinality(T) <= Cardinality(S)
      BY FS_Subset
    <3>4. Cardinality(U) \in Nat
      BY <3>1, FS_RemoveElement, FS_CardinalityType
    <3>5. U \in Stable
      <4>. U \in SUBSET T /\ U # T
        BY <3>1
      <4>. QED
        BY <1>7
    <3>. HIDE DEF U
    <3>6. /\ n - 1 \in 1 .. N /\ Cardinality(U) < n - 1
          /\ N - 1 \in 1 .. N /\ Cardinality(U) < N - 1
      <4>. N = Cardinality(S) + 1
        BY DEF N
      <4>. QED
        BY <3>2, <3>3, <3>4, <1>1
    <3>7. h[n - 1][U] = h[N][U] /\ h[N - 1][U] = h[N][U]
      BY <3>5, <3>6
    <3>8. /\ h[n][T] = step[<<pick[T], h[n - 1][U]>>]
          /\ h[N][T] = step[<<pick[T], h[N - 1][U]>>]
      BY <2>0, <2>2, <1>6 DEF U
    <3>. QED
      BY <3>7, <3>8
  <2>. QED
    BY <2>1, <2>2
<1>8. \A T \in SUBSET S : T \in Stable
  <2>. HIDE DEF Stable
  <2>. QED
    BY <1>7, SubsetInduction
<1>9. N \in 1 .. N /\ h[N] \in W
  <2>. HIDE DEF W, wider, start
  <2>. QED
    BY <1>1, <1>5 DEF Recursion
<1>10. ASSUME NEW T \in SUBSET S
       PROVE  h[N][T] = IF T = {} THEN base ELSE step[<<pick[T], h[N][T \ {pick[T]}]>>]
  <2>1. CASE T = {}
    BY <1>6, <1>9, <2>1
  <2>2. CASE T # {}
    <3>. DEFINE U == T \ {pick[T]}
    <3>1. pick[T] \in T /\ IsFiniteSet(T)
      BY <2>2, FS_Subset
    <3>2. /\ Cardinality(U) = Cardinality(T) - 1 /\ Cardinality(T) \in Nat
          /\ Cardinality(U) \in Nat
      BY <3>1, FS_RemoveElement, FS_CardinalityType
    <3>3. Cardinality(T) <= Cardinality(S)
      BY FS_Subset
    <3>4. N - 1 \in 1 .. N /\ Cardinality(U) < N - 1 /\ U \in SUBSET S
      BY <3>2, <3>3, <1>1
    <3>. HIDE DEF N
    <3>5. h[N - 1][U] = h[N][U]
      BY <1>8, <3>4
    <3>6. h[N][T] = step[<<pick[T], h[N - 1][U]>>]
      BY <1>6, <1>9, <2>2
    <3>. QED
      BY <2>2, <3>5, <3>6
  <2>. QED
    BY <2>1, <2>2
<1>11. Folding(h[N], base, step, pick, S)
  <2>. DOMAIN h[N] = SUBSET S
    BY <1>9
  <2>. HIDE DEF N, W
  <2>. QED
    BY <1>10 DEF Folding
<1>. QED
  BY <1>11

-----------------------------------------------------------------------------
(* Sums, of functions over finite sets of indices.                         *)

(* How SumFunctionOnSet recurs on the subsets of its indices.              *)
Picked(s) == CHOOSE i \in s : TRUE
Summing(g, f, S) ==
  /\ DOMAIN g = SUBSET S
  /\ \A T \in SUBSET S : g[T] = IF T = {} THEN 0 ELSE f[Picked(T)] + g[T \ {Picked(T)}]

LEMMA PickedIn ==
  ASSUME NEW S, S # {}
  PROVE  Picked(S) \in S
BY DEF Picked

LEMMA SummingExists ==
  ASSUME NEW S, IsFiniteSet(S), NEW f, \A i \in S : f[i] \in Int
  PROVE  \E g : Summing(g, f, S)
<1>. DEFINE step == [p \in S \X Int |-> f[p[1]] + p[2]]
            pick == [T \in SUBSET S |-> Picked(T)]
<1>1. step \in [S \X Int -> Int] /\ \A i \in S, v \in Int : step[<<i, v>>] = f[i] + v
  OBVIOUS
<1>2. \A T \in SUBSET S : T # {} => pick[T] \in T /\ pick[T] = Picked(T)
  BY PickedIn
<1>. HIDE DEF step, pick
<1>3. PICK g : Folding(g, 0, step, pick, S)
  <2>. 0 \in Int /\ \A T \in SUBSET S : T # {} => pick[T] \in T
    BY <1>2
  <2>. QED
    BY <1>1, FoldingExists
<1>. DEFINE G == {T \in SUBSET S : g[T] \in Int}
<1>4. ASSUME NEW T \in SUBSET S, \A U \in SUBSET T : U # T => U \in G
      PROVE  T \in G
  <2>1. CASE T = {}
    <3>1. g[T] = 0
      BY <1>3, <2>1 DEF Folding
    <3>. QED
      BY <3>1
  <2>2. CASE T # {}
    <3>1. Picked(T) \in T /\ pick[T] = Picked(T)
      BY <1>2, <2>2
    <3>2. g[T \ {Picked(T)}] \in Int
      BY <1>4, <3>1
    <3>3. g[T] = step[<<Picked(T), g[T \ {Picked(T)}]>>]
      BY <1>3, <2>2, <3>1 DEF Folding
    <3>. QED
      BY <1>1, <3>1, <3>2, <3>3
  <2>. QED
    BY <2>1, <2>2
<1>5. \A T \in SUBSET S : T \in G
  <2>. HIDE DEF G
  <2>. QED
    BY <1>4, SubsetInduction
<1>6. ASSUME NEW T \in SUBSET S
      PROVE  g[T] = IF T = {} THEN 0 ELSE f[Picked(T)] + g[T \ {Picked(T)}]
  <2>1. CASE T = {}
    BY <1>3, <2>1 DEF Folding
  <2>2. CASE T # {}
    <3>1. Picked(T) \in T /\ pick[T] = Picked(T)
      BY <1>2, <2>2
    <3>2. g[T \ {Picked(T)}] \in Int
      BY <1>5, <3>1
    <3>3. g[T] = step[<<Picked(T), g[T \ {Picked(T)}]>>]
      BY <1>3, <2>2, <3>1 DEF Folding
    <3>. QED
      BY <1>1, <2>2, <3>1, <3>2, <3>3
  <2>. QED
    BY <2>1, <2>2
<1>7. Summing(g, f, S)
  BY <1>3, <1>6 DEF Folding, Summing
<1>. QED
  BY <1>7

(* Recursions over a set and over a subset agree on the latter.            *)
LEMMA SummingAgrees ==
  ASSUME NEW S, IsFiniteSet(S), NEW T \in SUBSET S, NEW f, NEW g, NEW h,
         Summing(g, f, S), Summing(h, f, T)
  PROVE  h[T] = g[T]
<1>. DEFINE G == {U \in SUBSET T : h[U] = g[U]}
<1>1. IsFiniteSet(T)
  BY FS_Subset
<1>2. ASSUME NEW U \in SUBSET T, \A W \in SUBSET U : W # U => W \in G
      PROVE  U \in G
  <2>1. CASE U = {}
    BY <2>1 DEF Summing
  <2>2. CASE U # {}
    <3>1. Picked(U) \in U
      BY <2>2, PickedIn
    <3>2. U \ {Picked(U)} \in G
      BY <3>1, <1>2
    <3>3. h[U] = f[Picked(U)] + h[U \ {Picked(U)}]
      BY <2>2 DEF Summing
    <3>4. g[U] = f[Picked(U)] + g[U \ {Picked(U)}]
      BY <2>2 DEF Summing
    <3>. QED
      BY <3>2, <3>3, <3>4
  <2>. QED
    BY <2>1, <2>2
<1>3. \A U \in SUBSET T : U \in G
  <2>. HIDE DEF G
  <2>. QED
    BY <1>1, <1>2, SubsetInduction
<1>. QED
  BY <1>3

(* SumFunctionOnSet is the value of the recursion.                         *)
LEMMA SumIsSumming ==
  ASSUME NEW S, IsFiniteSet(S), NEW f, \A i \in S : f[i] \in Int
  PROVE  \E g : Summing(g, f, S) /\ SumFunctionOnSet(f, S) = g[S]
<1>. DEFINE Body(g) == [T \in SUBSET S |->
                          IF T = {} THEN 0
                          ELSE f[CHOOSE i \in T : TRUE] + g[T \ {CHOOSE i \in T : TRUE}]]
            iter == CHOOSE g : g = Body(g)
<1>1. SumFunctionOnSet(f, S) = iter[S]
  BY DEF SumFunctionOnSet, FoldFunctionOnSet, MapThenFoldSet
<1>2. PICK h : Summing(h, f, S)
  BY SummingExists
<1>3. PICK g : g = Body(g) /\ g = iter
  <2>. DEFINE k == [T \in SUBSET S |-> h[T]]
  <2>1. k = Body(k)
    BY <1>2 DEF Summing, Picked
  <2>. HIDE DEF k, Body
  <2>. QED
    BY <2>1
<1>4. Summing(g, f, S)
  BY <1>3 DEF Summing, Picked
<1>. QED
  BY <1>1, <1>3, <1>4

(* Nothing sums to zero.                                                   *)
LEMMA SumOfNone ==
  ASSUME NEW f
  PROVE  SumFunctionOnSet(f, {}) = 0
<1>1. PICK g : Summing(g, f, {}) /\ SumFunctionOnSet(f, {}) = g[{}]
  BY FS_EmptySet, SumIsSumming
<1>. QED
  BY <1>1 DEF Summing

(* A sum is that of the rest and of the element picked first.              *)
LEMMA SumPick ==
  ASSUME NEW S, IsFiniteSet(S), S # {}, NEW f, \A i \in S : f[i] \in Int
  PROVE  SumFunctionOnSet(f, S)
           = f[Picked(S)] + SumFunctionOnSet(f, S \ {Picked(S)})
<1>. DEFINE T == S \ {Picked(S)}
<1>1. T \in SUBSET S /\ IsFiniteSet(T) /\ \A i \in T : f[i] \in Int
  BY FS_RemoveElement
<1>. HIDE DEF T
<1>2. PICK g : Summing(g, f, S) /\ SumFunctionOnSet(f, S) = g[S]
  BY SumIsSumming
<1>3. PICK h : Summing(h, f, T) /\ SumFunctionOnSet(f, T) = h[T]
  BY <1>1, SumIsSumming
<1>4. h[T] = g[T]
  BY <1>1, <1>2, <1>3, SummingAgrees
<1>5. g[S] = f[Picked(S)] + g[T]
  BY <1>2 DEF Summing, T
<1>. QED
  BY <1>2, <1>3, <1>4, <1>5 DEF T

(* A sum of integers is one.                                               *)
LEMMA SumInt ==
  ASSUME NEW S, IsFiniteSet(S), NEW f, \A i \in S : f[i] \in Int
  PROVE  SumFunctionOnSet(f, S) \in Int
<1>. DEFINE G == {T \in SUBSET S : SumFunctionOnSet(f, T) \in Int}
<1>1. ASSUME NEW T \in SUBSET S, \A U \in SUBSET T : U # T => U \in G
      PROVE  T \in G
  <2>1. CASE T = {}
    BY <2>1, SumOfNone
  <2>2. CASE T # {}
    <3>1. Picked(T) \in T /\ IsFiniteSet(T)
      BY <2>2, PickedIn, FS_Subset
    <3>2. SumFunctionOnSet(f, T) = f[Picked(T)] + SumFunctionOnSet(f, T \ {Picked(T)})
      BY <2>2, <3>1, SumPick
    <3>3. SumFunctionOnSet(f, T \ {Picked(T)}) \in Int /\ f[Picked(T)] \in Int
      BY <1>1, <3>1
    <3>. QED
      BY <3>2, <3>3
  <2>. QED
    BY <2>1, <2>2
<1>2. \A T \in SUBSET S : T \in G
  <2>. HIDE DEF G
  <2>. QED
    BY <1>1, SubsetInduction
<1>. QED
  BY <1>2

(* The order does not matter: any element may be taken first.              *)
LEMMA SumRemove ==
  ASSUME NEW S, IsFiniteSet(S), NEW f, \A i \in S : f[i] \in Int, NEW k \in S
  PROVE  SumFunctionOnSet(f, S) = f[k] + SumFunctionOnSet(f, S \ {k})
<1>. DEFINE G == {T \in SUBSET S : \A i \in T :
                    SumFunctionOnSet(f, T) = f[i] + SumFunctionOnSet(f, T \ {i})}
<1>1. ASSUME NEW T \in SUBSET S, \A U \in SUBSET T : U # T => U \in G
      PROVE  T \in G
  <2>. SUFFICES ASSUME NEW i \in T
                PROVE  SumFunctionOnSet(f, T) = f[i] + SumFunctionOnSet(f, T \ {i})
    OBVIOUS
  <2>. DEFINE p == Picked(T)
  <2>1. p \in T /\ IsFiniteSet(T)
    BY PickedIn, FS_Subset
  <2>2. SumFunctionOnSet(f, T) = f[p] + SumFunctionOnSet(f, T \ {p})
    BY <2>1, SumPick
  <2>. HIDE DEF p
  <2>3. CASE i = p
    BY <2>2, <2>3
  <2>4. CASE i # p
    <3>1. T \ {p} \in G /\ T \ {i} \in G /\ i \in T \ {p} /\ p \in T \ {i}
      <4>. T \ {p} # T /\ T \ {i} # T
        BY <2>1
      <4>. QED
        BY <1>1, <2>1, <2>4
    <3>2. /\ SumFunctionOnSet(f, T \ {p}) = f[i] + SumFunctionOnSet(f, (T \ {p}) \ {i})
          /\ SumFunctionOnSet(f, T \ {i}) = f[p] + SumFunctionOnSet(f, (T \ {i}) \ {p})
      BY <3>1
    <3>. DEFINE rest == SumFunctionOnSet(f, (T \ {p}) \ {i})
    <3>3. (T \ {p}) \ {i} = (T \ {i}) \ {p}
      OBVIOUS
    <3>4. rest \in Int /\ f[i] \in Int /\ f[p] \in Int
      <4>. IsFiniteSet((T \ {p}) \ {i}) /\ \A j \in (T \ {p}) \ {i} : f[j] \in Int
        BY <2>1, FS_RemoveElement
      <4>. QED
        BY <2>1, SumInt
    <3>. HIDE DEF rest
    <3>5. SumFunctionOnSet(f, T) = f[p] + (f[i] + rest)
      BY <2>2, <3>2 DEF rest
    <3>6. SumFunctionOnSet(f, T \ {i}) = f[p] + rest
      BY <3>2, <3>3 DEF rest
    <3>. QED
      BY <3>4, <3>5, <3>6
  <2>. QED
    BY <2>3, <2>4
<1>2. \A T \in SUBSET S : T \in G
  <2>. HIDE DEF G
  <2>. QED
    BY <1>1, SubsetInduction
<1>. QED
  BY <1>2

(* Equal terms make equal sums.                                            *)
LEMMA SumSame ==
  ASSUME NEW S, IsFiniteSet(S), NEW f, NEW g,
         \A i \in S : f[i] \in Int /\ f[i] = g[i]
  PROVE  SumFunctionOnSet(f, S) = SumFunctionOnSet(g, S)
<1>. DEFINE G == {T \in SUBSET S : SumFunctionOnSet(f, T) = SumFunctionOnSet(g, T)}
<1>1. ASSUME NEW T \in SUBSET S, \A U \in SUBSET T : U # T => U \in G
      PROVE  T \in G
  <2>1. CASE T = {}
    BY <2>1, SumOfNone
  <2>2. CASE T # {}
    <3>1. Picked(T) \in T /\ IsFiniteSet(T)
      BY <2>2, PickedIn, FS_Subset
    <3>2. \A i \in T : f[i] \in Int /\ g[i] \in Int
      OBVIOUS
    <3>3. SumFunctionOnSet(f, T) = f[Picked(T)] + SumFunctionOnSet(f, T \ {Picked(T)})
      BY <2>2, <3>1, <3>2, SumPick
    <3>4. SumFunctionOnSet(g, T) = g[Picked(T)] + SumFunctionOnSet(g, T \ {Picked(T)})
      BY <2>2, <3>1, <3>2, SumPick
    <3>. QED
      BY <1>1, <3>1, <3>3, <3>4
  <2>. QED
    BY <2>1, <2>2
<1>2. \A T \in SUBSET S : T \in G
  <2>. HIDE DEF G
  <2>. QED
    BY <1>1, SubsetInduction
<1>. QED
  BY <1>2

(* Zeros sum to zero.                                                      *)
LEMMA SumOfZeros ==
  ASSUME NEW S, IsFiniteSet(S), NEW f, \A i \in S : f[i] = 0
  PROVE  SumFunctionOnSet(f, S) = 0
<1>. DEFINE G == {T \in SUBSET S : SumFunctionOnSet(f, T) = 0}
<1>1. ASSUME NEW T \in SUBSET S, \A U \in SUBSET T : U # T => U \in G
      PROVE  T \in G
  <2>1. CASE T = {}
    BY <2>1, SumOfNone
  <2>2. CASE T # {}
    <3>1. Picked(T) \in T /\ IsFiniteSet(T) /\ \A i \in T : f[i] \in Int
      BY <2>2, PickedIn, FS_Subset
    <3>2. SumFunctionOnSet(f, T) = f[Picked(T)] + SumFunctionOnSet(f, T \ {Picked(T)})
      BY <2>2, <3>1, SumPick
    <3>. QED
      BY <1>1, <3>1, <3>2
  <2>. QED
    BY <2>1, <2>2
<1>2. \A T \in SUBSET S : T \in G
  <2>. HIDE DEF G
  <2>. QED
    BY <1>1, SubsetInduction
<1>. QED
  BY <1>2
(* A sum over two sets that have nothing in common.                        *)
LEMMA SumSplit ==
  ASSUME NEW S, IsFiniteSet(S), NEW f, \A i \in S : f[i] \in Int, NEW A \in SUBSET S
  PROVE  SumFunctionOnSet(f, S) = SumFunctionOnSet(f, A) + SumFunctionOnSet(f, S \ A)
<1>. DEFINE G == {T \in SUBSET S :
                    SumFunctionOnSet(f, T) = SumFunctionOnSet(f, T \cap A)
                                               + SumFunctionOnSet(f, T \ A)}
<1>1. ASSUME NEW T \in SUBSET S, \A U \in SUBSET T : U # T => U \in G
      PROVE  T \in G
  <2>1. CASE T = {}
    <3>. T \cap A = {} /\ T \ A = {}
      BY <2>1
    <3>. QED
      BY <2>1, SumOfNone
  <2>2. CASE T # {}
    <3>. DEFINE p == Picked(T)
                U == T \ {p}
    <3>1. p \in T /\ IsFiniteSet(T)
      BY <2>2, PickedIn, FS_Subset
    <3>2. /\ IsFiniteSet(T \cap A) /\ IsFiniteSet(T \ A)
          /\ IsFiniteSet(U \cap A) /\ IsFiniteSet(U \ A)
      BY <3>1, FS_Subset
    <3>3. SumFunctionOnSet(f, T) = f[p] + SumFunctionOnSet(f, U)
      BY <2>2, <3>1, SumPick
    <3>4. SumFunctionOnSet(f, U) = SumFunctionOnSet(f, U \cap A) + SumFunctionOnSet(f, U \ A)
      BY <1>1, <3>1
    <3>5. SumFunctionOnSet(f, U \cap A) \in Int /\ SumFunctionOnSet(f, U \ A) \in Int
      <4>. (\A i \in U \cap A : f[i] \in Int) /\ (\A i \in U \ A : f[i] \in Int)
        OBVIOUS
      <4>. HIDE DEF U
      <4>. QED
        BY <3>2, SumInt
    <3>6. f[p] \in Int
      BY <3>1
    <3>7. CASE p \in A
      <4>1. p \in T \cap A /\ (T \cap A) \ {p} = U \cap A /\ T \ A = U \ A
        BY <3>1, <3>7
      <4>2. SumFunctionOnSet(f, T \cap A) = f[p] + SumFunctionOnSet(f, (T \cap A) \ {p})
        <5>. \A i \in T \cap A : f[i] \in Int
          OBVIOUS
        <5>. HIDE DEF p
        <5>. QED
          BY <3>2, <4>1, SumRemove
      <4>. HIDE DEF p, U
      <4>3. SumFunctionOnSet(f, T \cap A) = f[p] + SumFunctionOnSet(f, U \cap A)
        BY <4>1, <4>2
      <4>4. SumFunctionOnSet(f, T \ A) = SumFunctionOnSet(f, U \ A)
        BY <4>1
      <4>. QED
        BY <3>3, <3>4, <3>5, <3>6, <4>3, <4>4
    <3>8. CASE p \notin A
      <4>1. p \in T \ A /\ (T \ A) \ {p} = U \ A /\ T \cap A = U \cap A
        BY <3>1, <3>8
      <4>2. SumFunctionOnSet(f, T \ A) = f[p] + SumFunctionOnSet(f, (T \ A) \ {p})
        <5>. \A i \in T \ A : f[i] \in Int
          OBVIOUS
        <5>. HIDE DEF p
        <5>. QED
          BY <3>2, <4>1, SumRemove
      <4>. HIDE DEF p, U
      <4>3. SumFunctionOnSet(f, T \ A) = f[p] + SumFunctionOnSet(f, U \ A)
        BY <4>1, <4>2
      <4>4. SumFunctionOnSet(f, T \cap A) = SumFunctionOnSet(f, U \cap A)
        BY <4>1
      <4>. QED
        BY <3>3, <3>4, <3>5, <3>6, <4>3, <4>4
    <3>. QED
      BY <3>7, <3>8
  <2>. QED
    BY <2>1, <2>2
<1>2. \A T \in SUBSET S : T \in G
  <2>. HIDE DEF G
  <2>. QED
    BY <1>1, SubsetInduction
<1>3. S \cap A = A
  OBVIOUS
<1>. QED
  BY <1>2, <1>3


-----------------------------------------------------------------------------
(* FlattenSeq of no sequences, and of the others step by step.             *)
Flattening(g, ss, T) ==
  /\ g \in [1 .. Len(ss) -> Seq(T)]
  /\ g[1] = ss[1]
  /\ \A i \in 2 .. Len(ss) : g[i] = g[i - 1] \o ss[i]

(* FlattenSeq is the last value of a recursion over the sequences.         *)
LEMMA FlattenSeqIs ==
  ASSUME NEW T, NEW ss \in Seq(Seq(T)), Len(ss) > 0
  PROVE  \E g : Flattening(g, ss, T) /\ FlattenSeq(ss) = g[Len(ss)]
<1>. DEFINE N == Len(ss) - 1
            V == Seq(T)
            step == [p \in V \X (1 .. N) |-> p[1] \o ss[p[2] + 1]]
            Body(g) == [i \in 1 .. Len(ss) |-> IF i = 1 THEN ss[i] ELSE g[i - 1] \o ss[i]]
            flatten == CHOOSE g : g = Body(g)
<1>1. N \in Nat /\ Len(ss) \in Nat /\ \A i \in 1 .. Len(ss) : ss[i] \in Seq(T)
  OBVIOUS
<1>2. step \in [V \X (1 .. N) -> V]
  <2>1. ASSUME NEW p \in V \X (1 .. N) PROVE p[1] \o ss[p[2] + 1] \in V
    <3>1. p[1] \in Seq(T) /\ p[2] + 1 \in 1 .. Len(ss)
      BY <1>1
    <3>2. ss[p[2] + 1] \in Seq(T)
      BY <1>1, <3>1
    <3>. QED
      BY <3>1, <3>2
  <2>. HIDE DEF V, N
  <2>. QED
    BY <2>1
<1>3. ss[1] \in V
  BY <1>1
<1>4. PICK h : Recursion(h, N, V, ss[1], step)
  <2>. HIDE DEF N, V, step
  <2>. QED
    BY <1>1, <1>2, <1>3, RecursionExists
<1>5. /\ h \in [0 .. N -> Seq(T)] /\ h[0] = ss[1]
      /\ \A n \in 1 .. N : h[n] = step[<<h[n - 1], n>>]
  BY <1>4 DEF Recursion
<1>6. ASSUME NEW n \in 1 .. N PROVE h[n] = h[n - 1] \o ss[n + 1]
  <2>1. h[n - 1] \in V
    <3>. n - 1 \in 0 .. N
      BY <1>1
    <3>. QED
      BY <1>5
  <2>2. <<h[n - 1], n>> \in V \X (1 .. N) /\ h[n] = step[<<h[n - 1], n>>]
    BY <2>1, <1>5
  <2>. HIDE DEF V, N
  <2>. QED
    BY <2>2
<1>. DEFINE k == [i \in 1 .. Len(ss) |-> h[i - 1]]
<1>7. k = Body(k)
  <2>1. ASSUME NEW i \in 1 .. Len(ss)
        PROVE  h[i - 1] = IF i = 1 THEN ss[i] ELSE k[i - 1] \o ss[i]
    <3>1. CASE i = 1
      BY <3>1, <1>5
    <3>2. CASE i # 1
      <4>1. i - 1 \in 1 .. N /\ i - 1 \in 1 .. Len(ss) /\ (i - 1) + 1 = i
        BY <1>1, <3>2
      <4>2. h[i - 1] = h[(i - 1) - 1] \o ss[(i - 1) + 1]
        BY <4>1, <1>6
      <4>3. k[i - 1] = h[(i - 1) - 1]
        BY <4>1
      <4>. QED
        BY <3>2, <4>1, <4>2, <4>3
    <3>. QED
      BY <3>1, <3>2
  <2>2. k = [i \in 1 .. Len(ss) |-> IF i = 1 THEN ss[i] ELSE k[i - 1] \o ss[i]]
    BY <2>1
  <2>. QED
    BY <2>2
<1>8. PICK g : g = Body(g) /\ g = flatten
  <2>. HIDE DEF k, Body
  <2>. QED
    BY <1>7
<1>9. FlattenSeq(ss) = g[Len(ss)]
  <2>1. FlattenSeq(ss) = flatten[Len(ss)]
    BY <1>1 DEF FlattenSeq
  <2>. QED
    BY <2>1, <1>8
<1>10. ASSUME NEW i \in 1 .. Len(ss)
       PROVE  g[i] = IF i = 1 THEN ss[i] ELSE g[i - 1] \o ss[i]
  BY <1>8
<1>11. g[1] = ss[1] /\ \A i \in 2 .. Len(ss) : g[i] = g[i - 1] \o ss[i]
  <2>1. 1 \in 1 .. Len(ss) /\ \A i \in 2 .. Len(ss) : i \in 1 .. Len(ss) /\ i # 1
    BY <1>1
  <2>. QED
    BY <1>10, <2>1
<1>12. \A i \in 1 .. Len(ss) : g[i] \in Seq(T)
  <2>. DEFINE S == {n \in 0 .. N : g[n + 1] \in Seq(T)}
  <2>1. 0 \in S
    BY <1>1, <1>11
  <2>2. ASSUME NEW n \in 0 .. N - 1, n \in S PROVE n + 1 \in S
    <3>1. (n + 1) + 1 \in 2 .. Len(ss) /\ ((n + 1) + 1) - 1 = n + 1 /\ n + 1 \in 0 .. N
      BY <1>1
    <3>2. g[(n + 1) + 1] = g[n + 1] \o ss[(n + 1) + 1]
      BY <1>11, <3>1
    <3>3. g[n + 1] \in Seq(T) /\ ss[(n + 1) + 1] \in Seq(T)
      BY <2>2, <1>1, <3>1
    <3>4. g[n + 1] \o ss[(n + 1) + 1] \in Seq(T)
      BY <3>3
    <3>. QED
      BY <3>1, <3>2, <3>4
  <2>3. \A n \in 0 .. N : n \in S
    <3>. HIDE DEF S, N
    <3>. QED
      BY <1>1, <2>1, <2>2, Induction
  <2>4. ASSUME NEW i \in 1 .. Len(ss) PROVE g[i] \in Seq(T)
    <3>. i - 1 \in 0 .. N /\ (i - 1) + 1 = i
      BY <1>1
    <3>. i - 1 \in S
      BY <2>3
    <3>. QED
      OBVIOUS
  <2>. QED
    BY <2>4
<1>13. DOMAIN g = 1 .. Len(ss)
  BY <1>8
<1>14. Flattening(g, ss, T)
  <2>. g = [i \in 1 .. Len(ss) |-> g[i]]
    BY <1>8
  <2>. QED
    BY <1>11, <1>12, <1>13 DEF Flattening
<1>. QED
  BY <1>9, <1>14

-----------------------------------------------------------------------------
(* What a map takes a finite set to is finite.                             *)
Image(m, S) == {m[i] : i \in S}

LEMMA ImageIsFinite ==
  ASSUME NEW S, IsFiniteSet(S), NEW m
  PROVE  IsFiniteSet(Image(m, S))
<1>. DEFINE f == [i \in S |-> m[i]]
<1>1. f \in Surjection(S, Image(m, S))
  BY DEF Surjection, Image
<1>. HIDE DEF f
<1>. QED
  BY <1>1, FS_Surjection

(* The sum over all by groups: first over those of the same key.           *)
Groups(h, f, S, key, K) ==
  \A k \in K : h[k] = SumFunctionOnSet(f, {i \in S : key[i] = k})

LEMMA SumGrouped ==
  ASSUME NEW S, IsFiniteSet(S), NEW f, \A i \in S : f[i] \in Int,
         NEW K, IsFiniteSet(K), NEW key, \A i \in S : key[i] \in K,
         NEW h, Groups(h, f, S, key, K)
  PROVE  SumFunctionOnSet(h, K) = SumFunctionOnSet(f, S)
<1>. DEFINE Of1(k) == {i \in S : key[i] = k}
            OfAll(T) == {i \in S : key[i] \in T}
            G == {T \in SUBSET K : SumFunctionOnSet(h, T) = SumFunctionOnSet(f, OfAll(T))}
<1>1. \A A \in SUBSET S : IsFiniteSet(A) /\ (\A i \in A : f[i] \in Int)
                          /\ SumFunctionOnSet(f, A) \in Int
  <2>. TAKE A \in SUBSET S
  <2>1. IsFiniteSet(A) /\ \A i \in A : f[i] \in Int
    BY FS_Subset
  <2>. QED
    BY <2>1, SumInt
<1>2. \A k \in K : h[k] \in Int
  <2>. TAKE k \in K
  <2>1. Of1(k) \in SUBSET S
    OBVIOUS
  <2>2. h[k] = SumFunctionOnSet(f, Of1(k))
    BY DEF Groups
  <2>. HIDE DEF Of1
  <2>. QED
    BY <1>1, <2>1, <2>2
<1>3. ASSUME NEW T \in SUBSET K, \A U \in SUBSET T : U # T => U \in G
      PROVE  T \in G
  <2>1. CASE T = {}
    <3>1. OfAll(T) = {}
      BY <2>1
    <3>. HIDE DEF OfAll
    <3>. QED
      BY <2>1, <3>1, SumOfNone
  <2>2. CASE T # {}
    <3>. PICK p : p = Picked(T)
      OBVIOUS
    <3>. PICK U : U = T \ {p}
      OBVIOUS
    <3>1. p \in T /\ IsFiniteSet(T) /\ U \in SUBSET T /\ U # T /\ p \in K
      BY <2>2, PickedIn, FS_Subset
    <3>2. /\ Of1(p) \in SUBSET OfAll(T) /\ OfAll(T) \ Of1(p) = OfAll(U)
          /\ OfAll(T) \in SUBSET S /\ Of1(p) \in SUBSET S /\ OfAll(U) \in SUBSET S
      BY <3>1
    <3>3. h[p] = SumFunctionOnSet(f, Of1(p))
      BY <3>1 DEF Groups
    <3>4. SumFunctionOnSet(h, U) = SumFunctionOnSet(f, OfAll(U))
      BY <1>3, <3>1
    <3>. HIDE DEF Of1, OfAll
    <3>5. SumFunctionOnSet(f, OfAll(T))
            = SumFunctionOnSet(f, Of1(p)) + SumFunctionOnSet(f, OfAll(T) \ Of1(p))
      <4>1. IsFiniteSet(OfAll(T)) /\ \A i \in OfAll(T) : f[i] \in Int
        BY <1>1, <3>2
      <4>. QED
        BY ONLY <3>2, <4>1, SumSplit
    <3>6. SumFunctionOnSet(h, T) = h[p] + SumFunctionOnSet(h, U)
      <4>. \A k \in T : h[k] \in Int
        BY <1>2
      <4>. QED
        BY <2>2, <3>1, SumPick
    <3>7. SumFunctionOnSet(h, T) = SumFunctionOnSet(f, OfAll(T))
      BY <3>2, <3>3, <3>4, <3>5, <3>6
    <3>. QED
      BY <3>7
  <2>. QED
    BY <2>1, <2>2
<1>4. \A T \in SUBSET K : T \in G
  <2>. HIDE DEF G
  <2>. QED
    BY <1>3, SubsetInduction
<1>5. OfAll(K) = S
  OBVIOUS
<1>. QED
  BY <1>4, <1>5

(* Numbering the terms otherwise changes nothing.                          *)
LEMMA SumRenumbered ==
  ASSUME NEW S, IsFiniteSet(S), NEW h, \A i \in S : h[i] \in Int,
         NEW m, \A i, j \in S : m[i] = m[j] => i = j,
         NEW f, \A i \in S : f[m[i]] = h[i]
  PROVE  SumFunctionOnSet(f, Image(m, S)) = SumFunctionOnSet(h, S)
<1>. DEFINE G == {T \in SUBSET S : SumFunctionOnSet(f, Image(m, T)) = SumFunctionOnSet(h, T)}
<1>1. ASSUME NEW T \in SUBSET S, \A U \in SUBSET T : U # T => U \in G
      PROVE  T \in G
  <2>1. CASE T = {}
    <3>1. Image(m, T) = {}
      BY <2>1 DEF Image
    <3>. QED
      BY <2>1, <3>1, SumOfNone
  <2>2. CASE T # {}
    <3>. PICK p : p = Picked(T)
      OBVIOUS
    <3>. PICK U : U = T \ {p}
      OBVIOUS
    <3>1. p \in T /\ IsFiniteSet(T) /\ U \in SUBSET T /\ U # T
      BY <2>2, PickedIn, FS_Subset
    <3>2. /\ Image(m, T) \ {m[p]} = Image(m, U) /\ m[p] \in Image(m, T)
          /\ \A a \in Image(m, T) : f[a] \in Int
      BY <3>1 DEF Image
    <3>3. IsFiniteSet(Image(m, T))
      BY <3>1, ImageIsFinite
    <3>4. SumFunctionOnSet(f, Image(m, T)) = f[m[p]] + SumFunctionOnSet(f, Image(m, U))
      <4>. PICK A, a : A = Image(m, T) /\ a = m[p]
        OBVIOUS
      <4>1. IsFiniteSet(A) /\ (\A i \in A : f[i] \in Int) /\ a \in A
        BY <3>2, <3>3
      <4>2. SumFunctionOnSet(f, A) = f[a] + SumFunctionOnSet(f, A \ {a})
        BY <4>1, SumRemove
      <4>. QED
        BY <3>2, <4>2
    <3>5. SumFunctionOnSet(h, T) = h[p] + SumFunctionOnSet(h, U)
      BY <2>2, <3>1, SumPick
    <3>6. SumFunctionOnSet(f, Image(m, U)) = SumFunctionOnSet(h, U) /\ f[m[p]] = h[p]
      BY <1>1, <3>1
    <3>. QED
      BY <3>4, <3>5, <3>6
  <2>. QED
    BY <2>1, <2>2
<1>2. \A T \in SUBSET S : T \in G
  <2>. HIDE DEF G
  <2>. QED
    BY <1>1, SubsetInduction
<1>. QED
  BY <1>2

(* The gas of digests: of two lists, and of a list of lists.               *)
LEMMA UsedIs ==
  ASSUME NEW T, \A d \in T : d.used \in Int, NEW a \in Seq(T)
  PROVE  /\ UsedBy(a) = SumFunctionOnSet([i \in 1 .. Len(a) |-> a[i].used], 1 .. Len(a))
         /\ UsedBy(a) \in Int
<1>. DEFINE f == [i \in 1 .. Len(a) |-> a[i].used]
<1>1. DOMAIN a = 1 .. Len(a) /\ Len(a) \in Nat
  OBVIOUS
<1>2. UsedBy(a) = SumFunctionOnSet(f, 1 .. Len(a))
  <2>1. UsedBy(a) = SumFunctionOnSet([i \in DOMAIN a |-> a[i].used], DOMAIN a)
    BY DEF UsedBy, SumOf
  <2>. QED
    BY <1>1, <2>1
<1>3. IsFiniteSet(1 .. Len(a)) /\ \A i \in 1 .. Len(a) : f[i] \in Int
  BY <1>1, FS_Interval
<1>. HIDE DEF f
<1>4. SumFunctionOnSet(f, 1 .. Len(a)) \in Int
  BY <1>3, SumInt
<1>. QED
  BY <1>2, <1>4 DEF f

LEMMA UsedByBoth ==
  ASSUME NEW T, \A d \in T : d.used \in Int, NEW a \in Seq(T), NEW b \in Seq(T)
  PROVE  UsedBy(a \o b) = UsedBy(a) + UsedBy(b)
<1>. PICK k \in Nat, l \in Nat : k = Len(a) /\ l = Len(b)
  OBVIOUS
<1>. PICK c : c = a \o b
  OBVIOUS
<1>1. /\ c \in Seq(T) /\ Len(c) = k + l
      /\ \A i \in 1 .. k : c[i] = a[i]
      /\ \A i \in 1 .. l : c[k + i] = b[i]
  OBVIOUS
<1>. DEFINE f == [i \in 1 .. k + l |-> c[i].used]
            g == [i \in 1 .. k |-> a[i].used]
            h == [i \in 1 .. l |-> b[i].used]
            m == [i \in 1 .. l |-> k + i]
<1>2. /\ UsedBy(c) = SumFunctionOnSet(f, 1 .. k + l)
      /\ UsedBy(a) = SumFunctionOnSet(g, 1 .. k)
      /\ UsedBy(b) = SumFunctionOnSet(h, 1 .. l)
  BY <1>1, UsedIs
<1>3. /\ IsFiniteSet(1 .. k + l) /\ IsFiniteSet(1 .. k) /\ IsFiniteSet(1 .. l)
      /\ 1 .. k \in SUBSET (1 .. k + l)
  <2>1. 1 \in Int /\ k \in Int /\ l \in Int /\ k + l \in Int
    OBVIOUS
  <2>2. IsFiniteSet(1 .. k + l) /\ IsFiniteSet(1 .. k) /\ IsFiniteSet(1 .. l)
    BY ONLY <2>1, FS_Interval
  <2>3. 1 .. k \in SUBSET (1 .. k + l)
    OBVIOUS
  <2>. QED
    BY <2>2, <2>3
<1>4. \A i \in 1 .. k + l : f[i] \in Int
  <2>. TAKE i \in 1 .. k + l
  <2>1. c[i] \in T
    BY <1>1
  <2>. QED
    BY <2>1
<1>5. \A i \in 1 .. k : f[i] \in Int /\ f[i] = g[i]
  <2>. TAKE i \in 1 .. k
  <2>1. i \in 1 .. k + l /\ c[i] = a[i]
    BY <1>1
  <2>2. f[i] = c[i].used /\ g[i] = a[i].used
    BY <2>1
  <2>. QED
    BY <1>4, <2>1, <2>2
<1>6. \A i \in 1 .. l : h[i] \in Int /\ m[i] = k + i /\ f[m[i]] = h[i]
  <2>. TAKE i \in 1 .. l
  <2>1. k + i \in 1 .. k + l /\ c[k + i] = b[i]
    BY <1>1
  <2>2. m[i] = k + i /\ f[k + i] = c[k + i].used /\ h[i] = b[i].used
    BY <2>1
  <2>3. f[k + i] \in Int
    BY <1>4, <2>1
  <2>. QED
    BY <2>1, <2>2, <2>3
<1>7. Image(m, 1 .. l) = (1 .. k + l) \ (1 .. k)
  <2>1. ASSUME NEW j \in (1 .. k + l) \ (1 .. k) PROVE j \in Image(m, 1 .. l)
    <3>1. j - k \in 1 .. l /\ m[j - k] = j
      OBVIOUS
    <3>. QED
      BY <3>1 DEF Image
  <2>2. ASSUME NEW i \in 1 .. l PROVE m[i] \in (1 .. k + l) \ (1 .. k)
    OBVIOUS
  <2>. QED
    BY <2>1, <2>2 DEF Image
<1>8. \A i, j \in 1 .. l : m[i] = m[j] => i = j
  OBVIOUS
<1>. HIDE DEF f, g, h, m
<1>9. SumFunctionOnSet(f, 1 .. k + l)
        = SumFunctionOnSet(f, 1 .. k) + SumFunctionOnSet(f, (1 .. k + l) \ (1 .. k))
  BY ONLY <1>3, <1>4, SumSplit
<1>10. SumFunctionOnSet(f, 1 .. k) = SumFunctionOnSet(g, 1 .. k)
  BY <1>3, <1>5, SumSame
<1>11. SumFunctionOnSet(f, Image(m, 1 .. l)) = SumFunctionOnSet(h, 1 .. l)
  <2>1. (\A i \in 1 .. l : h[i] \in Int) /\ (\A i \in 1 .. l : f[m[i]] = h[i])
    BY <1>6
  <2>. QED
    BY ONLY <1>3, <1>8, <2>1, SumRenumbered
<1>. QED
  BY <1>2, <1>7, <1>9, <1>10, <1>11

LEMMA UsedByAll ==
  ASSUME NEW T, \A d \in T : d.used \in Int, NEW ss \in Seq(Seq(T))
  PROVE  /\ FlattenSeq(ss) \in Seq(T)
         /\ UsedBy(FlattenSeq(ss))
              = SumFunctionOnSet([i \in 1 .. Len(ss) |-> UsedBy(ss[i])], 1 .. Len(ss))
<1>. PICK n \in Nat : n = Len(ss)
  OBVIOUS
<1>. DEFINE f == [i \in 1 .. n |-> UsedBy(ss[i])]
<1>1. \A i \in 1 .. n : ss[i] \in Seq(T) /\ f[i] = UsedBy(ss[i]) /\ f[i] \in Int
  <2>. TAKE i \in 1 .. n
  <2>1. ss[i] \in Seq(T)
    OBVIOUS
  <2>. QED
    BY <2>1, UsedIs
<1>. HIDE DEF f
<1>2. CASE n = 0
  <2>1. ss = << >> /\ 1 .. n = {}
    <3>1. 1 .. n = {}
      BY <1>2
    <3>2. ss \in Seq(Seq(T)) /\ Len(ss) = 0
      BY <1>2
    <3>3. ss = << >>
      BY ONLY <3>2, EmptySeq
    <3>. QED
      BY <3>1, <3>3
  <2>2. FlattenSeq(ss) = << >>
    BY <1>2, <2>1 DEF FlattenSeq
  <2>3. << >> \in Seq(T) /\ 1 .. Len(<< >>) = {}
    OBVIOUS
  <2>4. UsedBy(<< >>) = 0
    BY <2>3, UsedIs, SumOfNone
  <2>5. SumFunctionOnSet(f, 1 .. n) = 0
    BY <2>1, SumOfNone
  <2>. QED
    BY <2>2, <2>3, <2>4, <2>5 DEF f
<1>3. CASE n > 0
  <2>1. PICK g : Flattening(g, ss, T) /\ FlattenSeq(ss) = g[n]
    BY <1>3, FlattenSeqIs
  <2>2. /\ \A i \in 1 .. n : g[i] \in Seq(T)
        /\ g[1] = ss[1] /\ \A i \in 2 .. n : g[i] = g[i - 1] \o ss[i]
    BY <2>1 DEF Flattening
  <2>. DEFINE G == {k \in 0 .. n - 1 : UsedBy(g[k + 1]) = SumFunctionOnSet(f, 1 .. k + 1)}
  <2>3. ASSUME NEW k \in 1 .. n
        PROVE  /\ SumFunctionOnSet(f, 1 .. k) = f[k] + SumFunctionOnSet(f, 1 .. k - 1)
               /\ SumFunctionOnSet(f, 1 .. k) \in Int
    <3>1. 1 \in Int /\ k \in Int /\ k \in 1 .. k /\ (1 .. k) \ {k} = 1 .. k - 1
      OBVIOUS
    <3>2. IsFiniteSet(1 .. k)
      BY ONLY <3>1, FS_Interval
    <3>3. \A i \in 1 .. k : f[i] \in Int
      BY <1>1
    <3>4. SumFunctionOnSet(f, 1 .. k) = f[k] + SumFunctionOnSet(f, (1 .. k) \ {k})
      BY ONLY <3>1, <3>2, <3>3, SumRemove
    <3>5. SumFunctionOnSet(f, 1 .. k) \in Int
      BY ONLY <3>2, <3>3, SumInt
    <3>. QED
      BY <3>1, <3>4, <3>5
  <2>4. 0 \in G
    <3>1. 1 \in 1 .. n /\ 1 - 1 = 0 /\ 1 .. 0 = {} /\ 0 + 1 = 1 /\ 0 \in 0 .. n - 1
      BY <1>3
    <3>2. SumFunctionOnSet(f, 1 .. 1) = f[1] + 0 /\ f[1] \in Int
      BY <1>1, <2>3, <3>1, SumOfNone
    <3>3. f[1] = UsedBy(g[1])
      BY <1>1, <2>2, <3>1
    <3>4. UsedBy(g[0 + 1]) = SumFunctionOnSet(f, 1 .. 0 + 1)
      BY <3>1, <3>2, <3>3
    <3>. QED
      BY <3>1, <3>4
  <2>5. ASSUME NEW k \in 0 .. (n - 1) - 1, k \in G PROVE k + 1 \in G
    <3>. PICK l : l = (k + 1) + 1
      OBVIOUS
    <3>1. l \in 2 .. n /\ l \in 1 .. n /\ l - 1 = k + 1 /\ k + 1 \in 1 .. n /\ k + 1 \in 0 .. n - 1
      OBVIOUS
    <3>2. g[l] = g[k + 1] \o ss[l] /\ g[k + 1] \in Seq(T) /\ ss[l] \in Seq(T)
      BY <1>1, <2>2, <3>1
    <3>3. UsedBy(g[l]) = UsedBy(g[k + 1]) + UsedBy(ss[l])
      BY <3>2, UsedByBoth
    <3>4. UsedBy(g[k + 1]) = SumFunctionOnSet(f, 1 .. k + 1)
      BY <2>5
    <3>5. /\ SumFunctionOnSet(f, 1 .. l) = f[l] + SumFunctionOnSet(f, 1 .. k + 1)
          /\ SumFunctionOnSet(f, 1 .. k + 1) \in Int /\ f[l] \in Int /\ f[l] = UsedBy(ss[l])
      BY <1>1, <2>3, <3>1
    <3>6. UsedBy(g[l]) = SumFunctionOnSet(f, 1 .. l)
      BY ONLY <3>3, <3>4, <3>5, UsedBy(g[l]) = UsedBy(g[k + 1]) + UsedBy(ss[l])
    <3>. QED
      BY <3>1, <3>6
  <2>6. \A k \in 0 .. n - 1 : k \in G
    <3>. HIDE DEF G
    <3>. n - 1 \in Nat
      BY <1>3
    <3>. QED
      BY <2>4, <2>5, Induction
  <2>7. UsedBy(g[n]) = SumFunctionOnSet(f, 1 .. n)
    <3>1. n - 1 \in 0 .. n - 1 /\ (n - 1) + 1 = n
      BY <1>3
    <3>2. n - 1 \in G
      BY <2>6, <3>1
    <3>. QED
      BY <3>1, <3>2
  <2>8. g[n] \in Seq(T)
    BY <1>3, <2>2
  <2>. QED
    BY <2>1, <2>7, <2>8 DEF f
<1>. QED
  BY <1>2, <1>3

-----------------------------------------------------------------------------
(* How often an authorization is in a pool.                                *)
Once(b) == IF b THEN 1 ELSE 0

Places(q, h) == {i \in 1 .. Len(q) : q[i] = h}

LEMMA CountType ==
  ASSUME NEW q, IsSeq(q), NEW h
  PROVE  /\ Len(q) \in Nat /\ IsFiniteSet(Places(q, h)) /\ Count(q, h) \in Nat
         /\ Count(q, h) = Cardinality(Places(q, h)) /\ Cardinality(Places(q, h)) \in Nat
<1>. PICK A : A = Places(q, h)
  OBVIOUS
<1>1. DOMAIN q = 1 .. Len(q) /\ Len(q) \in Nat
  BY Appended
<1>2. IsFiniteSet(1 .. Len(q))
  BY <1>1, FS_Interval
<1>3. IsFiniteSet(A)
  BY <1>2, FS_Subset DEF Places
<1>4. Count(q, h) = Cardinality(A)
  BY <1>1 DEF Count, Places
<1>. QED
  BY <1>1, <1>3, <1>4, FS_CardinalityType

LEMMA CountAppend ==
  ASSUME NEW q, IsSeq(q), NEW v, NEW h
  PROVE  Count(Append(q, v), h) = Count(q, h) + Once(v = h)
<1>. PICK p : p = Append(q, v)
  OBVIOUS
<1>. PICK n \in Nat : n = Len(q)
  BY CountType
<1>1. /\ IsSeq(p) /\ Len(p) = n + 1 /\ p[n + 1] = v
      /\ \A i \in 1 .. n : p[i] = q[i]
  BY Appended
<1>. PICK A, B : A = {i \in 1 .. n : q[i] = h} /\ B = {i \in 1 .. n + 1 : p[i] = h}
  OBVIOUS
<1>2. /\ Count(q, h) = Cardinality(A) /\ IsFiniteSet(A) /\ Count(p, h) = Cardinality(B)
      /\ Cardinality(A) \in Nat
  <2>1. IsSeq(q) /\ A = Places(q, h)
    BY DEF Places
  <2>2. IsSeq(p) /\ B = Places(p, h)
    BY <1>1 DEF Places
  <2>3. Count(q, h) = Cardinality(A) /\ IsFiniteSet(A) /\ Cardinality(A) \in Nat
    BY ONLY <2>1, CountType
  <2>4. Count(p, h) = Cardinality(B)
    BY ONLY <2>2, CountType
  <2>. QED
    BY <2>3, <2>4
<1>3. CASE v = h
  <2>1. B = A \cup {n + 1} /\ n + 1 \notin A
    BY <1>1, <1>3
  <2>2. Cardinality(B) = Cardinality(A) + 1
    BY ONLY <1>2, <2>1, FS_AddElement
  <2>. QED
    BY ONLY <1>2, <1>3, <2>2, p = Append(q, v) DEF Once
<1>4. CASE v # h
  <2>1. B = A
    BY <1>1, <1>4
  <2>. QED
    BY ONLY <1>2, <1>4, <2>1, p = Append(q, v) DEF Once
<1>. QED
  BY <1>3, <1>4

LEMMA CountNewest ==
  ASSUME NEW n \in Nat, NEW q, IsSeq(q), NEW h
  PROVE  Count(Newest(n, q), h) <= Count(q, h)
<1>. PICK p, l : p = Newest(n, q) /\ l = Held(Len(q), n)
  OBVIOUS
<1>1. /\ IsSeq(p) /\ Len(p) = l /\ Len(q) \in Nat /\ l \in Nat /\ l <= Len(q)
      /\ \A i \in 1 .. l : p[i] = q[Len(q) - l + i]
  <2>1. /\ IsSeq(p) /\ Len(p) = l /\ Len(q) \in Nat
        /\ \A i \in 1 .. l : p[i] = q[Len(q) - l + i]
    BY ZenonT(30), NewestOf
  <2>2. l \in Nat /\ l <= Len(q)
    BY <2>1 DEF Held
  <2>. QED
    BY <2>1, <2>2
<1>. PICK m \in Nat : m = Len(q) - l
  BY <1>1
<1>. PICK A, B : A = {i \in 1 .. l : p[i] = h} /\ B = {i \in 1 .. Len(q) : q[i] = h}
  OBVIOUS
<1>. DEFINE f == [i \in A |-> m + i]
<1>2. f \in Injection(A, B)
  <2>1. \A i \in A : f[i] \in B
    <3>. TAKE i \in A
    <3>1. f[i] = m + i /\ i \in 1 .. l /\ p[i] = h /\ p[i] = q[m + i]
      BY <1>1
    <3>2. m + i \in 1 .. Len(q)
      BY <1>1, <3>1
    <3>. QED
      BY <3>1, <3>2
  <2>2. \A i, j \in A : f[i] = f[j] => i = j
    BY <1>1
  <2>3. f \in [A -> B]
    BY <2>1
  <2>. HIDE DEF f
  <2>. QED
    BY ONLY <2>2, <2>3 DEF Injection, IsInjective
<1>3. IsFiniteSet(B) /\ Count(q, h) = Cardinality(B) /\ Count(p, h) = Cardinality(A)
  <2>1. IsSeq(q) /\ B = Places(q, h)
    BY DEF Places
  <2>2. IsSeq(p) /\ A = Places(p, h)
    BY <1>1 DEF Places
  <2>3. Count(q, h) = Cardinality(B) /\ IsFiniteSet(B)
    BY ONLY <2>1, CountType
  <2>4. Count(p, h) = Cardinality(A)
    BY ONLY <2>2, CountType
  <2>. QED
    BY <2>3, <2>4
<1>. HIDE DEF f
<1>4. Cardinality(A) <= Cardinality(B)
  BY ONLY <1>2, <1>3, FS_Injection
<1>. QED
  BY ONLY <1>3, <1>4, p = Newest(n, q)

LEMMA Removed ==
  ASSUME NEW q, IsSeq(q), NEW k \in 1 .. Len(q)
  PROVE  /\ IsSeq(RemoveAt(q, k)) /\ Len(RemoveAt(q, k)) = Len(q) - 1 /\ Len(q) \in Nat
         /\ \A i \in 1 .. k - 1 : RemoveAt(q, k)[i] = q[i]
         /\ \A i \in k .. Len(q) - 1 : RemoveAt(q, k)[i] = q[i + 1]
<1>. PICK S : q \in Seq(S)
  BY DEF IsSeq
<1>. PICK n \in Nat : n = Len(q)
  OBVIOUS
<1>. PICK a, b : a = SubSeq(q, 1, k - 1) /\ b = SubSeq(q, k + 1, n)
  OBVIOUS
<1>1. a \in Seq(S) /\ Len(a) = k - 1 /\ \A i \in 1 .. k - 1 : a[i] = q[i]
  OBVIOUS
<1>2. b \in Seq(S) /\ Len(b) = n - k /\ \A i \in 1 .. n - k : b[i] = q[k + i]
  OBVIOUS
<1>3. RemoveAt(q, k) = a \o b
  BY DEF RemoveAt
<1>4. /\ a \o b \in Seq(S) /\ Len(a \o b) = n - 1
      /\ \A i \in 1 .. k - 1 : (a \o b)[i] = a[i]
      /\ \A i \in k .. n - 1 : (a \o b)[i] = b[i - (k - 1)]
  <2>0. a \in Seq(S) /\ b \in Seq(S)
    BY <1>1, <1>2
  <2>3. (k - 1) + (n - k) = n - 1 /\ Len(a) = k - 1 /\ Len(b) = n - k
    BY <1>1, <1>2
  <2>6. /\ a \o b \in Seq(S) /\ Len(a \o b) = Len(a) + Len(b)
         /\ \A i \in 1 .. Len(a) + Len(b) :
              (a \o b)[i] = IF i <= Len(a) THEN a[i] ELSE b[i - Len(a)]
    BY ONLY <2>0, ConcatProperties
  <2>1. a \o b \in Seq(S) /\ Len(a \o b) = (k - 1) + (n - k)
    BY <2>3, <2>6
  <2>2. \A i \in 1 .. (k - 1) + (n - k) :
           (a \o b)[i] = IF i <= k - 1 THEN a[i] ELSE b[i - (k - 1)]
    BY <2>3, <2>6
  <2>4. ASSUME NEW i \in 1 .. k - 1 PROVE (a \o b)[i] = a[i]
    <3>1. i \in 1 .. (k - 1) + (n - k) /\ i <= k - 1
      OBVIOUS
    <3>. QED
      BY <2>2, <3>1
  <2>5. ASSUME NEW i \in k .. n - 1 PROVE (a \o b)[i] = b[i - (k - 1)]
    <3>1. i \in 1 .. (k - 1) + (n - k) /\ ~(i <= k - 1)
      OBVIOUS
    <3>. QED
      BY <2>2, <3>1
  <2>. QED
    BY <2>1, <2>3, <2>4, <2>5
<1>5. ASSUME NEW i \in k .. n - 1 PROVE (a \o b)[i] = q[i + 1]
  <2>1. i - (k - 1) \in 1 .. n - k /\ k + (i - (k - 1)) = i + 1
    OBVIOUS
  <2>. QED
    BY <1>2, <1>4, <2>1
<1>. QED
  BY <1>1, <1>3, <1>4, <1>5 DEF IsSeq

(* An authorization that is used leaves the pool, one place of it.         *)
LEMMA CountWithout ==
  ASSUME NEW q, IsSeq(q), NEW a, \E i \in DOMAIN q : q[i] = a, NEW h
  PROVE  /\ IsSeq(WithoutAuthorization(q, a))
         /\ Count(WithoutAuthorization(q, a), h) + Once(a = h) = Count(q, h)
<1>. DEFINE First(i) == q[i] = a /\ \A j \in 1 .. i - 1 : q[j] # a
            k == CHOOSE i \in DOMAIN q : First(i)
<1>. PICK n \in Nat : n = Len(q)
  BY CountType
<1>1. DOMAIN q = 1 .. n
  BY Appended
<1>2. WithoutAuthorization(q, a) = RemoveAt(q, k)
  BY DEF WithoutAuthorization
<1>3. k \in 1 .. n /\ q[k] = a
  <2>. DEFINE S == {i \in 1 .. n : q[i] = a}
  <2>1. S \in SUBSET Nat /\ S # {}
    BY <1>1
  <2>2. PICK m \in S : \A i \in S : m <= i
    <3>. HIDE DEF S
    <3>. QED
      BY <2>1, LeastElement
  <2>3. m \in DOMAIN q /\ First(m)
    <3>1. ASSUME NEW j \in 1 .. m - 1, q[j] = a PROVE FALSE
      <4>1. j \in S /\ j < m
        BY <3>1
      <4>. QED
        BY <2>2, <4>1
    <3>. QED
      BY <1>1, <3>1
  <2>4. \E i \in DOMAIN q : First(i)
    <3>. HIDE DEF First, S
    <3>. QED
      BY <2>3
  <2>5. k \in DOMAIN q /\ First(k)
    <3>. HIDE DEF First
    <3>. QED
      BY <2>4
  <2>. HIDE DEF k
  <2>. QED
    BY <1>1, <2>5
<1>. HIDE DEF k
<1>. PICK p : p = RemoveAt(q, k)
  OBVIOUS
<1>4. /\ IsSeq(p) /\ Len(p) = n - 1
      /\ \A i \in 1 .. k - 1 : p[i] = q[i]
      /\ \A i \in k .. n - 1 : p[i] = q[i + 1]
  BY <1>3, Removed
<1>. PICK A, B : A = {i \in 1 .. n - 1 : p[i] = h} /\ B = {i \in 1 .. n : q[i] = h}
  OBVIOUS
<1>. DEFINE f == [i \in A |-> IF i < k THEN i ELSE i + 1]
<1>5. \A i \in A : /\ f[i] \in 1 .. n /\ f[i] # k /\ q[f[i]] = h
                   /\ f[i] = IF i < k THEN i ELSE i + 1
  <2>. TAKE i \in A
  <2>1. CASE i < k
    <3>1. i \in 1 .. k - 1 /\ f[i] = i
      BY <1>3, <2>1
    <3>. QED
      BY <1>3, <1>4, <2>1, <3>1
  <2>2. CASE ~(i < k)
    <3>1. i \in k .. n - 1 /\ f[i] = i + 1
      BY <1>3, <2>2
    <3>. QED
      BY <1>3, <1>4, <2>2, <3>1
  <2>. QED
    BY <2>1, <2>2
<1>6. \A j \in B \ {k} : \E i \in A : f[i] = j
  <2>. TAKE j \in B \ {k}
  <2>1. CASE j < k
    <3>1. j \in 1 .. k - 1 /\ j \in 1 .. n - 1 /\ q[j] = h
      BY <1>3, <2>1
    <3>2. p[j] = h
      BY <1>4, <3>1
    <3>3. j \in A /\ f[j] = j
      BY <2>1, <3>1, <3>2
    <3>. QED
      BY <3>3
  <2>2. CASE ~(j < k)
    <3>. PICK i \in Nat : i = j - 1
      BY <1>3, <2>2
    <3>1. i \in k .. n - 1 /\ i + 1 = j /\ q[j] = h /\ ~(i < k) /\ i \in 1 .. n - 1
      BY <1>3, <2>2
    <3>2. p[i] = h
      BY <1>4, <3>1
    <3>3. i \in A /\ f[i] = j
      BY <3>1, <3>2
    <3>. QED
      BY <3>3
  <2>. QED
    BY <2>1, <2>2
<1>7. f \in Bijection(A, B \ {k})
  <2>1. \A i \in A : f[i] \in B \ {k}
    BY <1>5
  <2>2. f \in [A -> B \ {k}]
    BY <2>1
  <2>3. \A i, j \in A : f[i] = f[j] => i = j
    BY <1>3, <1>5
  <2>. HIDE DEF f
  <2>4. f \in Injection(A, B \ {k}) /\ f \in Surjection(A, B \ {k})
    BY ONLY <1>6, <2>2, <2>3 DEF Injection, Surjection, IsInjective
  <2>. QED
    BY <2>4 DEF Bijection
<1>8. /\ IsFiniteSet(B) /\ Count(q, h) = Cardinality(B) /\ Cardinality(B) \in Nat
      /\ IsFiniteSet(A) /\ Count(p, h) = Cardinality(A) /\ Cardinality(A) \in Nat
  <2>1. IsSeq(q) /\ B = Places(q, h)
    BY DEF Places
  <2>2. IsSeq(p) /\ A = Places(p, h)
    BY <1>4 DEF Places
  <2>3. IsFiniteSet(B) /\ Count(q, h) = Cardinality(B) /\ Cardinality(B) \in Nat
    BY ONLY <2>1, CountType
  <2>4. IsFiniteSet(A) /\ Count(p, h) = Cardinality(A) /\ Cardinality(A) \in Nat
    BY ONLY <2>2, CountType
  <2>. QED
    BY <2>3, <2>4
<1>9. Cardinality(B \ {k}) = Cardinality(A)
  <2>. HIDE DEF f
  <2>1. ExistsBijection(A, B \ {k})
    BY <1>7 DEF ExistsBijection
  <2>. QED
    BY <1>8, <2>1, FS_Bijection
<1>10. k \in B <=> a = h
  BY <1>3
<1>11. Cardinality(B \ {k}) = Cardinality(B) - Once(a = h)
  <2>1. Cardinality(B \ {k}) = IF k \in B THEN Cardinality(B) - 1 ELSE Cardinality(B)
    BY ONLY <1>8, FS_RemoveElement
  <2>. QED
    BY ONLY <1>8, <1>10, <2>1 DEF Once
<1>12. Once(a = h) \in Nat
  BY DEF Once
<1>. QED
  BY ONLY <1>2, <1>4, <1>8, <1>9, <1>11, <1>12, p = RemoveAt(q, k)

-----------------------------------------------------------------------------
(* FlattenSeq, step by step from the empty sequence on.                    *)
Chained(e, ss, n) ==
  /\ e[0] = << >>
  /\ \A i \in 1 .. n : e[i] = e[i - 1] \o ss[i]

LEMMA ChainedExists ==
  ASSUME NEW T, NEW ss \in Seq(Seq(T)), NEW n \in Nat, n = Len(ss)
  PROVE  \E e : Chained(e, ss, n) /\ FlattenSeq(ss) = e[n] /\ \A i \in 0 .. n : e[i] \in Seq(T)
<1>0. << >> \in Seq(T)
  OBVIOUS
<1>1. CASE n = 0
  <2>. DEFINE e == [i \in 0 .. 0 |-> << >>]
  <2>1. e[0] = << >> /\ 1 .. n = {}
    BY <1>1
  <2>2. FlattenSeq(ss) = << >>
    <3>1. ss \in Seq(Seq(T)) /\ Len(ss) = 0
      BY <1>1
    <3>2. ss = << >>
      BY ONLY <3>1, EmptySeq
    <3>. QED
      BY <3>1, <3>2 DEF FlattenSeq
  <2>. HIDE DEF e
  <2>3. ASSUME NEW i \in 0 .. n PROVE e[i] \in Seq(T)
    <3>1. i = 0
      BY <1>1
    <3>. QED
      BY <1>0, <2>1, <3>1
  <2>4. Chained(e, ss, n) /\ FlattenSeq(ss) = e[n]
    BY <1>1, <2>1, <2>2 DEF Chained
  <2>. QED
    BY <2>3, <2>4
<1>2. CASE n > 0
  <2>1. PICK g : Flattening(g, ss, T) /\ FlattenSeq(ss) = g[n]
    BY <1>2, FlattenSeqIs
  <2>2. /\ \A i \in 1 .. n : g[i] \in Seq(T)
        /\ g[1] = ss[1] /\ \A i \in 2 .. n : g[i] = g[i - 1] \o ss[i]
    BY <2>1 DEF Flattening
  <2>. DEFINE e == [i \in 0 .. n |-> IF i = 0 THEN << >> ELSE g[i]]
  <2>3. e[0] = << >> /\ \A i \in 1 .. n : e[i] = g[i]
    OBVIOUS
  <2>. HIDE DEF e
  <2>4. ASSUME NEW i \in 1 .. n PROVE e[i] = e[i - 1] \o ss[i]
    <3>1. CASE i = 1
      <4>1. ss[1] \in Seq(T) /\ 1 \in 1 .. n /\ 1 - 1 = 0
        BY <1>2, <2>2
      <4>2. << >> \o ss[1] = ss[1]
        BY ONLY <4>1, ConcatEmptySeq
      <4>3. e[1] = ss[1]
        BY <2>2, <2>3, <4>1
      <4>. QED
        BY <2>3, <3>1, <4>1, <4>2, <4>3
    <3>2. CASE i # 1
      <4>1. i \in 2 .. n /\ i - 1 \in 1 .. n
        BY <3>2
      <4>. QED
        BY <2>2, <2>3, <4>1
    <3>. QED
      BY <3>1, <3>2
  <2>5. ASSUME NEW i \in 0 .. n PROVE e[i] \in Seq(T)
    <3>1. i = 0 \/ i \in 1 .. n
      OBVIOUS
    <3>. QED
      BY <1>0, <2>2, <2>3, <3>1
  <2>6. FlattenSeq(ss) = e[n]
    BY <1>2, <2>1, <2>3
  <2>. QED
    BY <2>3, <2>4, <2>5, <2>6 DEF Chained
<1>. QED
  BY <1>1, <1>2

LEMMA ChainedIs ==
  ASSUME NEW T, NEW ss \in Seq(Seq(T)), NEW n \in Nat, n = Len(ss), NEW e, Chained(e, ss, n)
  PROVE  FlattenSeq(ss) = e[n] /\ \A i \in 0 .. n : e[i] \in Seq(T)
<1>1. PICK g : Chained(g, ss, n) /\ FlattenSeq(ss) = g[n] /\ \A i \in 0 .. n : g[i] \in Seq(T)
  BY ChainedExists
<1>. DEFINE G == {i \in 0 .. n : e[i] = g[i]}
<1>2. 0 \in G
  BY <1>1 DEF Chained
<1>3. ASSUME NEW i \in 0 .. n - 1, i \in G PROVE i + 1 \in G
  <2>. PICK j : j = i + 1
    OBVIOUS
  <2>1. j \in 1 .. n /\ j - 1 = i /\ j \in 0 .. n
    OBVIOUS
  <2>2. e[j] = e[j - 1] \o ss[j] /\ g[j] = g[j - 1] \o ss[j]
    BY <1>1, <2>1 DEF Chained
  <2>3. e[j] = g[j]
    BY <1>3, <2>1, <2>2
  <2>. QED
    BY <2>1, <2>3
<1>4. \A i \in 0 .. n : i \in G
  <2>. HIDE DEF G
  <2>. QED
    BY <1>2, <1>3, Induction
<1>5. n \in 0 .. n
  OBVIOUS
<1>. QED
  BY <1>1, <1>4, <1>5

(* The greatest of some numbers.                                           *)
LEMMA GreatestIs ==
  ASSUME NEW N \in Nat, NEW S \in SUBSET (1 .. N), S # {}
  PROVE  Max(S) \in S /\ \A i \in S : i <= Max(S)
<1>. DEFINE B == {N - i : i \in S}
<1>1. B \in SUBSET Nat /\ B # {}
  OBVIOUS
<1>2. PICK m \in B : \A i \in B : m <= i
  <2>. HIDE DEF B
  <2>. QED
    BY <1>1, LeastElement
<1>3. PICK k \in S : m = N - k
  BY <1>2
<1>4. ASSUME NEW i \in S PROVE i <= k
  <2>1. m <= N - i
    BY <1>2
  <2>. QED
    BY <1>3, <2>1
<1>5. \A i \in S : k >= i
  BY <1>4
<1>6. PICK l \in S : (\A i \in S : l >= i) /\ l = Max(S)
  BY <1>5 DEF Max
<1>. QED
  BY <1>6

(* What a new tree becomes when it meets the peaks of s, one by one.       *)
Meeting(d, v, s, n, T) ==
  /\ d[0] = v
  /\ \A i \in 1 .. n : d[i] = s[i] \o d[i - 1]
  /\ \A i \in 0 .. n : d[i] \in Seq(T)
  /\ GrownBy(v, s) = d[n]

LEMMA FoldJoins ==
  ASSUME NEW T, NEW s \in Seq(Seq(T)), NEW n \in Nat, n = Len(s), NEW v \in Seq(T)
  PROVE  \E d : Meeting(d, v, s, n, T)
<1>. DEFINE V == Seq(T)
            S == 1 .. n
            step == [p \in S \X V |-> s[p[1]] \o p[2]]
            pick == [U \in SUBSET S |-> Max(U)]
            Body(g) == [U \in SUBSET S |->
                          IF U = {} THEN v ELSE s[Max(U)] \o g[U \ {Max(U)}]]
            it == CHOOSE g : g = Body(g)
<1>1. GrownBy(v, s) = it[S]
  <2>1. DOMAIN s = S
    OBVIOUS
  <2>. QED
    BY <2>1 DEF GrownBy, FoldLeft, MapThenFoldSet
<1>2. \A i \in S : s[i] \in V
  OBVIOUS
<1>3. step \in [S \X V -> V] /\ \A i \in S, w \in V : step[<<i, w>>] = s[i] \o w
  <2>1. ASSUME NEW i \in S, NEW w \in V PROVE s[i] \o w \in V
    <3>1. s[i] \in Seq(T) /\ w \in Seq(T)
      BY <1>2
    <3>. QED
      BY ONLY <3>1, ConcatProperties DEF V
  <2>. HIDE DEF V, S
  <2>. QED
    BY <2>1
<1>4. \A U \in SUBSET S : U # {} => pick[U] \in U /\ pick[U] = Max(U)
  BY GreatestIs
<1>5. IsFiniteSet(S)
  BY FS_Interval
<1>6. \E g : g = Body(g)
  <2>1. PICK g : Folding(g, v, step, pick, S)
    <3>1. /\ v \in V /\ step \in [S \X V -> V]
          /\ \A U \in SUBSET S : U # {} => pick[U] \in U
      BY <1>3, <1>4
    <3>. HIDE DEF V, S, step, pick
    <3>. QED
      BY ONLY <1>5, <3>1, FoldingExists
  <2>. HIDE DEF V, S, step, pick
  <2>. DEFINE G == {U \in SUBSET S : g[U] \in V}
  <2>2. ASSUME NEW U \in SUBSET S, \A W \in SUBSET U : W # U => W \in G
        PROVE  U \in G
    <3>1. CASE U = {}
      <4>1. g[U] = v /\ v \in V
        BY <2>1, <3>1 DEF Folding, V
      <4>. QED
        BY <4>1
    <3>2. CASE U # {}
      <4>1. pick[U] \in U /\ pick[U] \in S
        BY <1>4, <3>2
      <4>2. g[U \ {pick[U]}] \in V
        BY <2>2, <4>1
      <4>3. g[U] = step[<<pick[U], g[U \ {pick[U]}]>>]
        BY <2>1, <3>2 DEF Folding
      <4>. QED
        BY <1>3, <4>1, <4>2, <4>3
    <3>. QED
      BY <3>1, <3>2
  <2>3. \A U \in SUBSET S : U \in G
    <3>. HIDE DEF G
    <3>. QED
      BY <1>5, <2>2, SubsetInduction
  <2>4. ASSUME NEW U \in SUBSET S
        PROVE  g[U] = IF U = {} THEN v ELSE s[Max(U)] \o g[U \ {Max(U)}]
    <3>1. CASE U = {}
      BY <2>1, <3>1 DEF Folding
    <3>2. CASE U # {}
      <4>1. pick[U] \in S /\ pick[U] = Max(U) /\ pick[U] \in U
        BY <1>4, <3>2
      <4>2. g[U \ {pick[U]}] \in V
        BY <2>3
      <4>3. g[U] = step[<<pick[U], g[U \ {pick[U]}]>>]
        BY <2>1, <3>2 DEF Folding
      <4>. QED
        BY <1>3, <3>2, <4>1, <4>2, <4>3
    <3>. QED
      BY <3>1, <3>2
  <2>. DEFINE k == [U \in SUBSET S |-> g[U]]
  <2>5. k = Body(k)
    <3>1. ASSUME NEW U \in SUBSET S
          PROVE  g[U] = IF U = {} THEN v ELSE s[Max(U)] \o k[U \ {Max(U)}]
      <4>1. U \ {Max(U)} \in SUBSET S
        OBVIOUS
      <4>. QED
        BY <2>4, <4>1
    <3>. QED
      BY <3>1
  <2>. HIDE DEF k, Body
  <2>. QED
    BY <2>5
<1>7. PICK g : g = Body(g) /\ g = it
  <2>. HIDE DEF Body
  <2>. QED
    BY <1>6
<1>8. \A U \in SUBSET S : g[U] = IF U = {} THEN v ELSE s[Max(U)] \o g[U \ {Max(U)}]
  BY <1>7
<1>. DEFINE d == [i \in 0 .. n |-> g[1 .. i]]
<1>9. d[0] = v /\ d[n] = it[S]
  <2>1. 1 .. 0 = {} /\ {} \in SUBSET S /\ 0 \in 0 .. n /\ n \in 0 .. n
    OBVIOUS
  <2>2. d[0] = g[{}] /\ d[n] = g[1 .. n]
    BY <2>1
  <2>3. g[{}] = v
    BY <1>8, <2>1
  <2>. QED
    BY <1>7, <2>2, <2>3
<1>10. ASSUME NEW i \in 1 .. n PROVE d[i] = s[i] \o d[i - 1]
  <2>1. /\ i \in Nat /\ 1 .. i \in SUBSET S /\ 1 .. i # {} /\ (1 .. i) \ {i} = 1 .. i - 1
        /\ i \in 0 .. n /\ i - 1 \in 0 .. n /\ 1 .. i \in SUBSET (1 .. i) /\ i \in 1 .. i
    <3>1. i \in Nat /\ i \in 0 .. n /\ i - 1 \in 0 .. n /\ i \in 1 .. i
      OBVIOUS
    <3>2. 1 .. i \in SUBSET (1 .. n) /\ 1 .. i # {} /\ (1 .. i) \ {i} = 1 .. i - 1
      <4>1. 1 .. i # {}
        BY <3>1
      <4>2. \A j \in 1 .. i : j \in 1 .. n
        OBVIOUS
      <4>3. ASSUME NEW j PROVE j \in (1 .. i) \ {i} <=> j \in 1 .. i - 1
        OBVIOUS
      <4>. QED
        BY ONLY <4>1, <4>2, <4>3
    <3>. QED
      BY ONLY <3>1, <3>2 DEF S
  <2>2. Max(1 .. i) \in 1 .. i /\ \A j \in 1 .. i : j <= Max(1 .. i)
    BY ONLY <2>1, GreatestIs
  <2>3. Max(1 .. i) = i
    BY ONLY <2>1, <2>2
  <2>4. g[1 .. i] = s[i] \o g[1 .. i - 1]
    BY <1>8, <2>1, <2>3
  <2>. QED
    BY <2>1, <2>4
<1>. HIDE DEF d
<1>. DEFINE D == {i \in 0 .. n : d[i] \in V}
<1>11. 0 \in D
  BY <1>9
<1>12. ASSUME NEW i \in 0 .. n - 1, i \in D PROVE i + 1 \in D
  <2>1. i + 1 \in 1 .. n /\ (i + 1) - 1 = i /\ i + 1 \in 0 .. n
    OBVIOUS
  <2>2. d[i + 1] = s[i + 1] \o d[i] /\ s[i + 1] \in Seq(T) /\ d[i] \in Seq(T)
    BY <1>2, <1>10, <1>12, <2>1
  <2>3. s[i + 1] \o d[i] \in Seq(T)
    BY ONLY <2>2, ConcatProperties
  <2>. QED
    BY <2>1, <2>2, <2>3
<1>13. \A i \in 0 .. n : i \in D
  <2>. HIDE DEF D
  <2>. QED
    BY <1>11, <1>12, Induction
<1>. QED
  BY <1>1, <1>9, <1>10, <1>13 DEF Meeting

-----------------------------------------------------------------------------
(* A new tree comes after all that the range held.                         *)
LEMMA ReverseIs ==
  ASSUME NEW T, NEW s \in Seq(T), NEW n \in Nat, n = Len(s)
  PROVE  /\ Reverse(s) \in Seq(T) /\ Len(Reverse(s)) = n
         /\ \A i \in 1 .. n : Reverse(s)[i] = s[n - i + 1]
<1>1. \A i \in 1 .. n : n - i + 1 \in 1 .. n /\ s[n - i + 1] \in T
  OBVIOUS
<1>2. Reverse(s) = [i \in 1 .. n |-> s[n - i + 1]]
  BY DEF Reverse
<1>. QED
  BY <1>1, <1>2

\* f is the first free place, d[i] the tree that v has become after i peaks.
FirstFree(belt, v, T, f, M, d) ==
  /\ f \in 1 .. Len(belt) + 1 /\ M \in Nat
  /\ f = Len(belt) + 1 \/ belt[f] = << >>
  /\ d[0] = v /\ \A i \in 1 .. f - 1 : d[i] = belt[i] \o d[i - 1]
  /\ \A i \in 0 .. f - 1 : d[i] \in Seq(T)
  /\ M = IF f > Len(belt) THEN f ELSE Len(belt)
  /\ appendMMR(belt, v)
       = [i \in 1 .. M |-> IF i < f THEN << >> ELSE IF i = f THEN d[f - 1] ELSE belt[i]]

LEMMA FirstFreeExists ==
  ASSUME NEW T, NEW belt \in Seq(Seq(T)), NEW L \in Nat, L = Len(belt), NEW v \in Seq(T)
  PROVE  \E f, M, d : FirstFree(belt, v, T, f, M, d)
<1>. DEFINE places == {i \in 1 .. L + 1 : i = L + 1 \/ belt[i] = << >>}
            free == CHOOSE i \in places : \A j \in places : i <= j
            grown == GrownBy(v, SubSeq(belt, 1, free - 1))
<1>1. appendMMR(belt, v)
        = [i \in 1 .. (IF free > L THEN free ELSE L) |->
             IF i < free THEN << >> ELSE IF i = free THEN grown ELSE belt[i]]
  BY DEF appendMMR, NoPeak
<1>2. free \in places
  <2>1. places \in SUBSET Nat /\ L + 1 \in places
    OBVIOUS
  <2>. HIDE DEF places
  <2>2. \E m \in places : \A n \in places : m <= n
    BY <2>1, LeastElement
  <2>. QED
    BY <2>2
<1>. HIDE DEF free
<1>3. PICK f : f = free
  OBVIOUS
<1>4. f \in 1 .. L + 1 /\ (f = L + 1 \/ belt[f] = << >>) /\ f \in Nat
  BY <1>2, <1>3
<1>5. PICK s : s = SubSeq(belt, 1, f - 1)
  OBVIOUS
<1>6. s \in Seq(Seq(T)) /\ Len(s) = f - 1 /\ \A i \in 1 .. f - 1 : s[i] = belt[i]
  <2>1. /\ 1 \in Int /\ f - 1 \in Int /\ \A i \in 1 .. f - 1 : belt[i] \in Seq(T)
    BY <1>4
  <2>2. /\ SubSeq(belt, 1, f - 1) \in Seq(Seq(T))
        /\ Len(SubSeq(belt, 1, f - 1)) = IF 1 <= f - 1 THEN (f - 1) - 1 + 1 ELSE 0
        /\ \A i \in 1 .. (f - 1) - 1 + 1 : SubSeq(belt, 1, f - 1)[i] = belt[1 + i - 1]
    BY ONLY <2>1, SubSeqProperties
  <2>. QED
    BY <1>4, <1>5, <2>2
<1>7. PICK k \in Nat : k = f - 1
  BY <1>4
<1>8. PICK d : Meeting(d, v, s, k, T)
  <2>1. s \in Seq(Seq(T)) /\ k \in Nat /\ k = Len(s) /\ v \in Seq(T)
    BY <1>6, <1>7
  <2>. QED
    BY ONLY <2>1, FoldJoins
<1>9. grown = d[f - 1] /\ d[0] = v
  BY <1>3, <1>5, <1>7, <1>8 DEF Meeting
<1>. HIDE DEF grown, places
<1>10. PICK M \in Nat : M = IF f > L THEN f ELSE L
  BY <1>4
<1>11. appendMMR(belt, v)
         = [i \in 1 .. M |-> IF i < f THEN << >> ELSE IF i = f THEN d[f - 1] ELSE belt[i]]
  BY <1>1, <1>3, <1>9, <1>10
<1>12. \A i \in 1 .. f - 1 : d[i] = belt[i] \o d[i - 1]
  BY <1>6, <1>7, <1>8 DEF Meeting
<1>13. \A i \in 0 .. f - 1 : d[i] \in Seq(T)
  BY <1>7, <1>8 DEF Meeting
<1>. QED
  <2>1. f \in 1 .. Len(belt) + 1 /\ (f = Len(belt) + 1 \/ belt[f] = << >>)
    BY <1>4
  <2>2. M \in Nat /\ M = IF f > Len(belt) THEN f ELSE Len(belt)
    BY <1>10
  <2>3. FirstFree(belt, v, T, f, M, d)
    BY ONLY <1>9, <1>11, <1>12, <1>13, <2>1, <2>2 DEF FirstFree
  <2>. QED
    BY ONLY <2>3

LEMMA AppendsLast ==
  ASSUME NEW T, NEW belt \in Seq(Seq(T)), NEW v \in Seq(T)
  PROVE  /\ appendMMR(belt, v) \in Seq(Seq(T))
         /\ FlattenSeq(Reverse(appendMMR(belt, v))) = FlattenSeq(Reverse(belt)) \o v
<1>. PICK L \in Nat : L = Len(belt)
  OBVIOUS
<1>1. PICK f, M, d : FirstFree(belt, v, T, f, M, d)
  BY FirstFreeExists
<1>2. /\ f \in 1 .. L + 1 /\ M \in Nat
      /\ f = L + 1 \/ belt[f] = << >>
      /\ d[0] = v /\ \A i \in 1 .. f - 1 : d[i] = belt[i] \o d[i - 1]
      /\ \A i \in 0 .. f - 1 : d[i] \in Seq(T)
      /\ M = IF f > L THEN f ELSE L
  BY ONLY <1>1, L = Len(belt) DEF FirstFree
<1>3. PICK range : range = appendMMR(belt, v)
  OBVIOUS
<1>4. range = [i \in 1 .. M |-> IF i < f THEN << >> ELSE IF i = f THEN d[f - 1] ELSE belt[i]]
  BY <1>1, <1>3 DEF FirstFree
<1>5. range \in Seq(Seq(T)) /\ Len(range) = M
  <2>1. ASSUME NEW i \in 1 .. M
        PROVE  (IF i < f THEN << >> ELSE IF i = f THEN d[f - 1] ELSE belt[i]) \in Seq(T)
    <3>1. << >> \in Seq(T)
      OBVIOUS
    <3>2. CASE i = f
      BY <1>2, <3>2
    <3>3. CASE i > f
      <4>1. i \in 1 .. L
        BY <1>2, <3>3
      <4>. QED
        BY <1>2, <3>3, <4>1
    <3>. QED
      BY <1>2, <3>1, <3>2, <3>3
  <2>2. DOMAIN range = 1 .. M /\ \A i \in 1 .. M : range[i] \in Seq(T)
    BY <1>4, <2>1
  <2>3. range = [i \in 1 .. M |-> range[i]]
    BY <1>4, <2>2
  <2>. QED
    <3>1. M \in Nat
      BY <1>2
    <3>2. PICK X : X = Seq(T)
      OBVIOUS
    <3>3. \A i \in 1 .. M : range[i] \in X
      BY <2>2, <3>2
    <3>4. /\ [i \in 1 .. M |-> range[i]] \in Seq(X)
          /\ Len([i \in 1 .. M |-> range[i]]) = M
      BY ONLY <3>1, <3>3
    <3>. QED
      BY ONLY <2>3, <3>2, <3>4
<1>6. PICK r : r = Reverse(belt)
  OBVIOUS
<1>7. r \in Seq(Seq(T)) /\ Len(r) = L /\ \A i \in 1 .. L : r[i] = belt[L - i + 1]
  BY <1>6, ReverseIs
<1>8. PICK q : q = Reverse(range)
  OBVIOUS
<1>9. q \in Seq(Seq(T)) /\ Len(q) = M /\ \A i \in 1 .. M : q[i] = range[M - i + 1]
  BY <1>2, <1>5, <1>8, ReverseIs
<1>10. PICK e : Chained(e, r, L) /\ FlattenSeq(r) = e[L] /\ \A i \in 0 .. L : e[i] \in Seq(T)
  BY <1>7, ChainedExists
<1>11. e[0] = << >> /\ \A i \in 1 .. L : e[i] = e[i - 1] \o r[i]
  BY <1>10 DEF Chained
<1>. f \in Nat
  BY <1>2
<1>12. PICK k \in Nat : k = M - f
  <2>1. f \in Nat /\ M = IF f > L THEN f ELSE L
    BY <1>2
  <2>2. M - f \in Nat
    BY ONLY <2>1, L \in Nat
  <2>. QED
    BY ONLY <2>2
<1>13. k <= L /\ f >= 1 /\ M = k + f /\ (k > 0 => M = L) /\ k \in 0 .. L /\ f - 1 \in 0 .. f - 1
  BY <1>2, <1>12
<1>14. PICK u : u = e[k] \o d[f - 1]
  OBVIOUS
<1>15. u \in Seq(T)
  <2>1. e[k] \in Seq(T) /\ d[f - 1] \in Seq(T)
    BY <1>2, <1>10, <1>13
  <2>. QED
    BY ONLY <1>14, <2>1, ConcatProperties
<1>16. FlattenSeq(q) = u
  <2>. DEFINE g == [i \in 0 .. M |-> IF i <= k THEN e[i] ELSE u]
  <2>0. \A i \in 0 .. M : g[i] = IF i <= k THEN e[i] ELSE u
    OBVIOUS
  <2>. HIDE DEF g
  <2>1. g[0] = << >> /\ g[M] = u
    <3>1. 0 \in 0 .. M /\ M \in 0 .. M /\ 0 <= k /\ ~ (M <= k)
      BY <1>13
    <3>. QED
      BY ONLY <1>11, <2>0, <3>1
  <2>2. ASSUME NEW i \in 1 .. M PROVE g[i] = g[i - 1] \o q[i]
    <3>1. /\ M - i + 1 \in 1 .. M /\ i \in 0 .. M /\ i - 1 \in 0 .. M
          /\ q[i] = range[M - i + 1] /\ i \in Nat
      BY <1>9
    <3>2. CASE i <= k
      <4>1. /\ i \in 1 .. L /\ M - i + 1 > f /\ M = L
            /\ i - 1 <= k
        BY ONLY <1>13, <3>1, <3>2, i \in 1 .. M, M \in Nat, L \in Nat, f \in Nat, k \in Nat
      <4>2. q[i] = r[i]
        BY <1>4, <1>7, <3>1, <4>1
      <4>. QED
        BY ONLY <1>11, <2>0, <3>1, <3>2, <4>1, <4>2
    <3>3. CASE i = k + 1
      <4>1. M - i + 1 = f /\ i - 1 = k /\ ~ (i <= k)
        BY ONLY <1>13, <3>1, <3>3, M \in Nat, f \in Nat, k \in Nat
      <4>2. q[i] = d[f - 1]
        BY <1>4, <3>1, <4>1
      <4>. QED
        BY ONLY <1>14, <2>0, <3>1, <4>1, <4>2, k <= k, k \in Nat
    <3>4. CASE i > k + 1
      <4>1. M - i + 1 < f /\ ~ (i <= k) /\ ~ (i - 1 <= k)
        BY ONLY <1>13, <3>1, <3>4, M \in Nat, f \in Nat, k \in Nat
      <4>2. q[i] = << >>
        BY <1>4, <3>1, <4>1
      <4>3. u \o << >> = u
        BY ONLY <1>15, ConcatEmptySeq
      <4>. QED
        BY ONLY <2>0, <3>1, <4>1, <4>2, <4>3
    <3>5. i <= k \/ i = k + 1 \/ i > k + 1
      BY ONLY <3>1, k \in Nat
    <3>. QED
      BY ONLY <3>2, <3>3, <3>4, <3>5
  <2>3. Chained(g, q, M)
    BY <2>1, <2>2 DEF Chained
  <2>4. q \in Seq(Seq(T)) /\ M \in Nat /\ M = Len(q)
    BY <1>9
  <2>5. FlattenSeq(q) = g[M]
    BY ONLY <2>3, <2>4, ChainedIs
  <2>. QED
    BY <2>1, <2>5
<1>. PICK all : all = e[L] \o v
  OBVIOUS
<1>. DEFINE G == {j \in 0 .. f - 1 : e[L - j] \o d[j] = all}
<1>17. 0 \in G
  <2>1. 0 \in 0 .. f - 1 /\ L - 0 = L
    BY <1>13
  <2>. QED
    BY <1>2, <2>1
<1>18. ASSUME NEW j \in 0 .. (f - 1) - 1, j \in G PROVE j + 1 \in G
  <2>. PICK i : i = j + 1
    OBVIOUS
  <2>1. /\ i \in 1 .. f - 1 /\ i - 1 = j /\ j \in 0 .. f - 1 /\ i \in 0 .. f - 1
        /\ L - j \in 1 .. L /\ L - i \in 0 .. L /\ (L - j) - 1 = L - i /\ L - (L - j) + 1 = i
        /\ i \in 1 .. L
    BY <1>2
  <2>2. e[L - j] = e[L - i] \o belt[i]
    BY <1>7, <1>11, <2>1
  <2>3. d[i] = belt[i] \o d[j]
    BY <1>2, <2>1
  <2>4. e[L - i] \in Seq(T) /\ belt[i] \in Seq(T) /\ d[j] \in Seq(T)
    BY <1>2, <1>10, <2>1
  <2>5. (e[L - i] \o belt[i]) \o d[j] = e[L - i] \o (belt[i] \o d[j])
    <3>1. PICK a, b, c : a = e[L - i] /\ b = belt[i] /\ c = d[j]
      OBVIOUS
    <3>2. a \in Seq(T) /\ b \in Seq(T) /\ c \in Seq(T)
      BY <2>4, <3>1
    <3>3. (a \o b) \o c = a \o (b \o c)
      BY ONLY SMTT(30), <3>2, ConcatAssociative
    <3>. QED
      BY <3>1, <3>3
  <2>6. e[L - j] \o d[j] = all
    BY <1>18
  <2>. QED
    BY <2>1, <2>2, <2>3, <2>5, <2>6
<1>19. \A j \in 0 .. f - 1 : j \in G
  <2>1. f - 1 \in Nat
    BY <1>2
  <2>. HIDE DEF G
  <2>. QED
    BY <1>17, <1>18, <2>1, Induction
<1>20. e[L - (f - 1)] \o d[f - 1] = all
  BY <1>13, <1>19
<1>21. e[L - (f - 1)] = e[k]
  <2>1. CASE f = L + 1
    BY <1>2, <1>12, <2>1
  <2>2. CASE f # L + 1
    <3>1. k = L - f /\ L - (f - 1) \in 1 .. L /\ (L - (f - 1)) - 1 = k /\ L - (L - (f - 1)) + 1 = f
      BY <1>2, <1>12, <2>2
    <3>2. e[L - (f - 1)] = e[k] \o << >>
      BY <1>2, <1>7, <1>11, <2>2, <3>1
    <3>3. e[k] \in Seq(T)
      BY <1>10, <1>13
    <3>4. e[k] \o << >> = e[k]
      BY ONLY <3>3, ConcatEmptySeq
    <3>. QED
      BY <3>2, <3>4
  <2>. QED
    BY <2>1, <2>2
<1>. QED
  BY <1>3, <1>5, <1>6, <1>8, <1>10, <1>14, <1>16, <1>20, <1>21

-----------------------------------------------------------------------------
(* The guarantees of a block, and the gas they tell of.                    *)
Fitting(eg, without) ==
  /\ IsSeq(eg)
  /\ \A i \in 1 .. Len(eg) :
        eg[i].core \in Cores /\ eg[i].digests \in Works /\ Authorized(without, eg[i])

LEMMA OfferedIs ==
  ASSUME NEW s, NEW g \in Offered(s)
  PROVE  g.digests \in Works
<1>1. CASE past = << >>
  BY <1>1 DEF Offered
<1>2. CASE past # << >>
  <2>. DEFINE From(keys) ==
         {Report(c, h, d, ParentContext, t, Credentials(pair, keys)) :
            c \in Cores, h \in AllAuthorizers, d \in Works, t \in {s.slot, past[ParentBlock].slot},
            pair \in {p \in Validators \X Validators :
                        p[1] < p[2] /\ Nobody \notin {keys[p[1]], keys[p[2]]}}}
  <2>1. Offered(s) = UNION {From(keys) : keys \in {s.kappa, s.lambda}}
    BY <1>2 DEF Offered
  <2>2. ASSUME NEW keys, g \in From(keys) PROVE g.digests \in Works
    <3>1. PICK c \in Cores, h \in AllAuthorizers, d \in Works, t \in {s.slot, past[ParentBlock].slot},
               pair \in {p \in Validators \X Validators :
                           p[1] < p[2] /\ Nobody \notin {keys[p[1]], keys[p[2]]}} :
            g = Report(c, h, d, ParentContext, t, Credentials(pair, keys))
      BY <2>2
    <3>. QED
      BY <3>1 DEF Report
  <2>. HIDE DEF From
  <2>. QED
    BY <2>1, <2>2
<1>. QED
  BY <1>1, <1>2

LEMMA ExtrinsicsFit ==
  ASSUME NEW s, NEW without, NEW eg \in Extrinsics(s, without), Accepts(s, without, eg)
  PROVE  Fitting(eg, without)
<1>. DEFINE fine == {g \in Offered(s) : Accepts(s, without, << g >>)}
<1>1. Extrinsics(s, without) = UNION {[1 .. m -> fine] : m \in 0 .. 2}
  BY Zenon DEF Extrinsics, SeqOf
<1>2. IsSeq(eg) /\ \A i \in 1 .. Len(eg) : eg[i] \in Offered(s)
  <2>. PICK m \in 0 .. 2 : eg \in [1 .. m -> fine]
    BY <1>1
  <2>1. m \in Nat /\ fine \subseteq Offered(s)
    OBVIOUS
  <2>. HIDE DEF fine
  <2>2. eg \in Seq(fine) /\ Len(eg) = m
    BY <2>1
  <2>. QED
    BY <2>1, <2>2 DEF IsSeq
<1>3. DOMAIN eg = 1 .. Len(eg)
  BY <1>2 DEF IsSeq
<1>4. ASSUME NEW i \in 1 .. Len(eg)
      PROVE  eg[i].core \in Cores /\ eg[i].digests \in Works /\ Authorized(without, eg[i])
  <2>1. Authorized(without, eg[i]) /\ GuaranteeValid(s, eg[i])
    BY <1>3, <1>4, Zenon DEF Accepts
  <2>2. eg[i].core \in Cores
    BY <2>1, Zenon DEF GuaranteeValid
  <2>. QED
    BY <1>2, <2>1, <2>2, OfferedIs
<1>. QED
  BY <1>2, <1>4 DEF Fitting

LEMMA NumbersUpTo ==
  ASSUME NEW n \in Nat
  PROVE  IsFiniteSet(1 .. n)
<1>1. 1 \in Int /\ n \in Int
  OBVIOUS
<1>. QED
  BY ONLY <1>1, FS_Interval

LEMMA CoresAreFinite ==
  IsFiniteSet(Cores)
<1>1. 0 \in Int /\ CORES - 1 \in Int
  BY SizesAssumption
<1>2. IsFiniteSet(0 .. CORES - 1)
  BY ONLY <1>1, FS_Interval
<1>. QED
  BY <1>2 DEF Cores

LEMMA WorksAre ==
  /\ \A d \in Works : d \in Seq(Digests)
  /\ \A d \in Digests : d.used \in Int /\ d.service \in DOMAIN MinGas
<1>1. \A d \in Works : d \in Seq(Digests)
  BY BooksAssumption
<1>2. ASSUME NEW d \in Digests PROVE d.used \in Int /\ d.service \in DOMAIN MinGas
  BY ONLY <1>2 DEF Digests
<1>. QED
  BY ONLY <1>1, <1>2

(* Which services a sequence of digests is about.                          *)
LEMMA ServicesAreFinite ==
  ASSUME NEW a \in Seq(Digests)
  PROVE  IsFiniteSet({a[i].service : i \in DOMAIN a})
<1>. PICK n \in Nat : n = Len(a)
  OBVIOUS
<1>1. DOMAIN a = 1 .. n
  OBVIOUS
<1>. DEFINE m == [i \in 1 .. n |-> a[i].service]
<1>2. IsFiniteSet(1 .. n)
  BY NumbersUpTo
<1>3. \A i \in 1 .. n : m[i] = a[i].service
  OBVIOUS
<1>4. Image(m, 1 .. n) = {a[i].service : i \in DOMAIN a}
  BY <1>1, <1>3 DEF Image
<1>. HIDE DEF m
<1>5. IsFiniteSet(Image(m, 1 .. n))
  BY ONLY <1>2, ImageIsFinite
<1>. QED
  BY <1>4, <1>5

(* All the gas of some guarantees, counted by core.                        *)
LEMMA GasByCore ==
  ASSUME NEW eg, IsSeq(eg), \A i \in 1 .. Len(eg) : eg[i].core \in Cores /\ eg[i].digests \in Works,
         NEW assurers
  PROVE  /\ DigestsOf(eg) \in Seq(Digests)
         /\ SumOf([c \in Cores |-> NextCoreStats(eg, assurers)[c].gasUsed]) = UsedBy(DigestsOf(eg))
<1>. PICK n \in Nat : n = Len(eg)
  BY DEF IsSeq
<1>1. DOMAIN eg = 1 .. n
  BY DEF IsSeq
<1>2. PICK ss : ss = [i \in 1 .. n |-> eg[i].digests]
  OBVIOUS
<1>3. \A i \in 1 .. n : ss[i] = eg[i].digests /\ ss[i] \in Seq(Digests)
  BY <1>2, WorksAre
<1>4. ss \in Seq(Seq(Digests)) /\ Len(ss) = n
  <2>. PICK T : T = Seq(Digests)
    OBVIOUS
  <2>1. \A i \in 1 .. n : eg[i].digests \in T
    BY <1>3
  <2>. QED
    BY ONLY <1>2, <2>1, n \in Nat, T = Seq(Digests)
<1>5. DigestsOf(eg) = FlattenSeq(ss)
  BY <1>1, <1>2 DEF DigestsOf
<1>. PICK f : f = [i \in 1 .. n |-> UsedBy(ss[i])]
  OBVIOUS
<1>6. /\ FlattenSeq(ss) \in Seq(Digests)
      /\ UsedBy(FlattenSeq(ss)) = SumFunctionOnSet(f, 1 .. n)
  BY <1>4, WorksAre, UsedByAll
<1>7. \A i \in 1 .. n : f[i] = UsedBy(eg[i].digests) /\ f[i] \in Int
  BY <1>3, WorksAre, UsedIs
<1>8. IsFiniteSet(1 .. n) /\ IsFiniteSet(Cores)
  BY NumbersUpTo, CoresAreFinite
<1>. PICK key : key = [i \in 1 .. n |-> eg[i].core]
  OBVIOUS
<1>9. \A i \in 1 .. n : key[i] = eg[i].core /\ key[i] \in Cores
  OBVIOUS
<1>. PICK h : h = [c \in Cores |-> NextCoreStats(eg, assurers)[c].gasUsed]
  OBVIOUS
<1>10. ASSUME NEW c \in Cores
       PROVE  h[c] = SumFunctionOnSet(f, {i \in 1 .. n : key[i] = c})
  <2>. PICK A : A = {i \in 1 .. n : key[i] = c}
    OBVIOUS
  <2>1. A = elementForCore(eg, c)
    BY <1>1, <1>9 DEF elementForCore
  <2>. PICK q : q = [i \in A |-> UsedBy(eg[i].digests)]
    OBVIOUS
  <2>2. h[c] = SumOf([i \in elementForCore(eg, c) |-> UsedBy(eg[i].digests)])
    BY DEF NextCoreStats
  <2>3. h[c] = SumFunctionOnSet(q, A)
    BY <2>1, <2>2 DEF SumOf
  <2>4. IsFiniteSet(A)
    BY <1>8, FS_Subset
  <2>5. \A i \in A : q[i] \in Int /\ q[i] = f[i]
    BY <1>7
  <2>6. SumFunctionOnSet(q, A) = SumFunctionOnSet(f, A)
    BY ONLY <2>4, <2>5, SumSame
  <2>. QED
    BY <2>3, <2>6
<1>11. SumFunctionOnSet(h, Cores) = SumFunctionOnSet(f, 1 .. n)
  <2>1. \A i \in 1 .. n : f[i] \in Int
    BY <1>7
  <2>2. \A i \in 1 .. n : key[i] \in Cores
    BY <1>9
  <2>. QED
    <3>. PICK S : S = 1 .. n
      OBVIOUS
    <3>1. IsFiniteSet(S) /\ IsFiniteSet(Cores)
      BY <1>8
    <3>2. \A i \in S : f[i] \in Int
      BY <2>1
    <3>3. \A i \in S : key[i] \in Cores
      BY <2>2
    <3>4. Groups(h, f, S, key, Cores)
      BY <1>10 DEF Groups
    <3>5. SumFunctionOnSet(h, Cores) = SumFunctionOnSet(f, S)
      BY ONLY <3>1, <3>2, <3>3, <3>4, SumGrouped
    <3>. QED
      BY <3>5
<1>12. SumOf(h) = SumFunctionOnSet(h, Cores)
  BY DEF SumOf
<1>. QED
  BY <1>5, <1>6, <1>11, <1>12

(* And counted by service.                                                 *)
LEMMA GasByService ==
  ASSUME NEW eg, DigestsOf(eg) \in Seq(Digests), NEW load \in Loads, NEW accumulated,
         FlattenSeq([i \in DOMAIN accumulated |-> accumulated[i]]) \in Seq(Digests)
  PROVE  LET stats == NextServiceStats(eg, load, accumulated)
         IN  SumOf([s \in DOMAIN stats |-> stats[s].refinementGasUsed]) = UsedBy(DigestsOf(eg))
<1>. PICK stats : stats = NextServiceStats(eg, load, accumulated)
  OBVIOUS
<1>. SUFFICES SumOf([s \in DOMAIN stats |-> stats[s].refinementGasUsed]) = UsedBy(DigestsOf(eg))
  OBVIOUS
<1>. PICK a : a = DigestsOf(eg)
  OBVIOUS
<1>. PICK given : given = FlattenSeq([i \in DOMAIN accumulated |-> accumulated[i]])
  OBVIOUS
<1>. PICK K : K = {a[i].service : i \in DOMAIN a} \cup {load.preimages[i] : i \in DOMAIN load.preimages}
                    \cup {given[i].service : i \in DOMAIN given}
  OBVIOUS
<1>1. DOMAIN stats = K
  BY Zenon DEF NextServiceStats
<1>2. ASSUME NEW s \in K
      PROVE  stats[s].refinementGasUsed = SumOf([i \in Of(s, a) |-> a[i].used])
  BY DEF NextServiceStats
<1>3. IsFiniteSet(K)
  <2>1. load.preimages \in Seq(DOMAIN MinGas)
    BY BooksAssumption
  <2>. PICK n \in Nat : n = Len(load.preimages) /\ DOMAIN load.preimages = 1 .. n
    BY <2>1
  <2>2. IsFiniteSet(1 .. n)
    BY NumbersUpTo
  <2>3. IsFiniteSet(Image(load.preimages, 1 .. n))
    BY ONLY <2>2, ImageIsFinite
  <2>4. IsFiniteSet({load.preimages[i] : i \in DOMAIN load.preimages})
    BY <2>3 DEF Image
  <2>5. IsFiniteSet({a[i].service : i \in DOMAIN a}) /\ IsFiniteSet({given[i].service : i \in DOMAIN given})
    BY ServicesAreFinite
  <2>. QED
    BY <2>4, <2>5, FS_Union
<1>. PICK n \in Nat : n = Len(a) /\ DOMAIN a = 1 .. n
  OBVIOUS
<1>. PICK f : f = [i \in 1 .. n |-> a[i].used]
  OBVIOUS
<1>4. \A i \in 1 .. n : a[i] \in Digests /\ f[i] = a[i].used /\ f[i] \in Int
  BY WorksAre
<1>. PICK key : key = [i \in 1 .. n |-> a[i].service]
  OBVIOUS
<1>5. \A i \in 1 .. n : key[i] = a[i].service /\ key[i] \in K
  OBVIOUS
<1>6. IsFiniteSet(1 .. n)
  BY NumbersUpTo
<1>. PICK h : h = [s \in DOMAIN stats |-> stats[s].refinementGasUsed]
  OBVIOUS
<1>7. ASSUME NEW s \in K
      PROVE  h[s] = SumFunctionOnSet(f, {i \in 1 .. n : key[i] = s})
  <2>. PICK A : A = {i \in 1 .. n : key[i] = s}
    OBVIOUS
  <2>1. A = Of(s, a)
    BY <1>5 DEF Of
  <2>. PICK q : q = [i \in A |-> a[i].used]
    OBVIOUS
  <2>2. h[s] = SumOf(q)
    BY <1>1, <1>2, <2>1
  <2>3. h[s] = SumFunctionOnSet(q, A)
    BY <2>2 DEF SumOf
  <2>4. IsFiniteSet(A)
    BY <1>6, FS_Subset
  <2>5. \A i \in A : q[i] \in Int /\ q[i] = f[i]
    BY <1>4
  <2>6. SumFunctionOnSet(q, A) = SumFunctionOnSet(f, A)
    BY ONLY <2>4, <2>5, SumSame
  <2>. QED
    BY <2>3, <2>6
<1>8. SumFunctionOnSet(h, K) = SumFunctionOnSet(f, 1 .. n)
  <2>1. \A i \in 1 .. n : f[i] \in Int
    BY <1>4
  <2>2. \A i \in 1 .. n : key[i] \in K
    BY <1>5
  <2>. QED
    <3>. PICK S : S = 1 .. n
      OBVIOUS
    <3>1. IsFiniteSet(S) /\ IsFiniteSet(K)
      BY <1>3, <1>6
    <3>2. \A i \in S : f[i] \in Int
      BY <2>1
    <3>3. \A i \in S : key[i] \in K
      BY <2>2
    <3>4. Groups(h, f, S, key, K)
      BY ZenonT(30), <1>7 DEF Groups
    <3>5. SumFunctionOnSet(h, K) = SumFunctionOnSet(f, S)
      BY ONLY <3>1, <3>2, <3>3, <3>4, SumGrouped
    <3>. QED
      BY <3>5
<1>9. UsedBy(a) = SumFunctionOnSet(f, 1 .. n)
  BY WorksAre, UsedIs
<1>10. SumOf(h) = SumFunctionOnSet(h, K)
  BY <1>1 DEF SumOf
<1>. QED
  BY <1>8, <1>9, <1>10

-----------------------------------------------------------------------------
(* What the books say of the chain, in every state.                        *)
ReportsInv == \A c \in Cores : rho[c] = Empty \/ rho[c].digests \in Works

PoolsInv ==
  \A c \in Cores :
    /\ IsSeq(authPool[c]) /\ IsSeq(spent[c]) /\ IsSeq(entered[c])
    /\ \A h : Count(authPool[c], h) + Count(spent[c], h) <= Count(entered[c], h)

RangeInv == beefyBelt \in Seq(Seq(Nat)) /\ RangeHoldsEveryBlock

\* The slot is that of the last block.
TipInv == slot = IF Len(past) = 0 THEN 0 ELSE past[Len(past)].slot

BalanceInv ==
  /\ SlotsInv /\ TipInv /\ ReportsInv /\ PoolsInv /\ RangeInv
  /\ CoresMatchServices /\ ValidatorsCredited

-----------------------------------------------------------------------------
(* A block: what it writes into these books.                               *)
WorkOf(assurers) ==
  [i \in DOMAIN SetToSeq(NewlyAvailable(assurers)) |->
     rho[SetToSeq(NewlyAvailable(assurers))[i]].digests]

Written(t, s, assurers, queue, load, eg, block) ==
  /\ t \in Nat /\ t > slot /\ slot' = t
  /\ s.slot = t /\ s.kappa = kappa'
  /\ kappa' = IF isNewerEra(t) THEN gammaP ELSE kappa
  /\ lambda' = IF isNewerEra(t) THEN kappa ELSE lambda
  /\ load \in Loads /\ Fitting(eg, RhoWithout(t, assurers))
  /\ rho' = [c \in Cores |->
               IF elementForCore(eg, c) = {} THEN RhoWithout(t, assurers)[c]
               ELSE [digests |-> TheElement(eg, c).digests, reportSlot |-> t]]
  /\ authPool' = NextPool(t, queue, eg)
  /\ entered' = [c \in Cores |-> Append(entered[c], FromQueue(queue, t, c))]
  /\ spent' = [c \in Cores |-> IF elementForCore(eg, c) = {} THEN spent[c]
                               ELSE Append(spent[c], TheElement(eg, c).authorizer)]
  /\ beefyBelt' = appendMMR(beefyBelt, << Len(past) + 1 >>)
  /\ validatorStats' = NextValidatorStats(s, eg, load, assurers)
  /\ coreStats' = NextCoreStats(eg, assurers)
  /\ serviceStats' = NextServiceStats(eg, load, WorkOf(assurers))
  /\ past' = Append(past, block)
  /\ block.slot = t /\ block.author = load.author /\ block.signers = reporters(s, eg)

LEMMA StepWritten ==
  ASSUME slot \in Nat, BooksNext
  PROVE  \E t, s, assurers, queue, load, eg, block : Written(t, s, assurers, queue, load, eg, block)
<1>1. PICK gap \in Gaps, offence \in {{}, Culprits \ offenders}, load \in Loads,
           assurers \in IF Engaged = {} THEN {{}} ELSE Turnouts :
        \E iota \in IF isNewerEra(slot + gap) THEN ValidatorSets ELSE {gammaP},
           queue \in IF NewlyAvailable(assurers) = {} THEN {authQueue} ELSE Queues :
          ApplyBlock(slot + gap, offence, iota, assurers, queue, load)
  BY Zenon DEF BooksNext
<1>2. PICK iota, queue : ApplyBlock(slot + gap, offence, iota, assurers, queue, load)
  BY <1>1, Zenon
<1>. DEFINE t == slot + gap
            s == Posterior(t, offence)
            without == RhoWithout(t, assurers)
            belt == appendMMR(beefyBelt, << Len(past) + 1 >>)
<1>3. t \in Nat /\ t > slot
  BY BooksAssumption
<1>. HIDE DEF t
<1>4. PICK eg \in Extrinsics(s, without) :
        /\ Accepts(s, without, eg)
        /\ slot' = t /\ kappa' = s.kappa /\ lambda' = s.lambda
        /\ rho' = [c \in Cores |->
                     IF elementForCore(eg, c) = {} THEN without[c]
                     ELSE [digests |-> TheElement(eg, c).digests, reportSlot |-> t]]
        /\ authPool' = NextPool(t, queue, eg)
        /\ entered' = [c \in Cores |-> Append(entered[c], FromQueue(queue, t, c))]
        /\ spent' = [c \in Cores |-> IF elementForCore(eg, c) = {} THEN spent[c]
                                     ELSE Append(spent[c], TheElement(eg, c).authorizer)]
        /\ beefyBelt' = belt
        /\ validatorStats' = NextValidatorStats(s, eg, load, assurers)
        /\ coreStats' = NextCoreStats(eg, assurers)
        /\ serviceStats' = NextServiceStats(eg, load, WorkOf(assurers))
        /\ past' = Append(past, [slot |-> t, assigned |-> s.cur, author |-> load.author,
                                 signers |-> reporters(s, eg), log |-> MMRSuperPeak(belt)])
  BY <1>2, Zenon DEF ApplyBlock, WorkOf, t
<1>5. PICK block : block = [slot |-> t, assigned |-> s.cur, author |-> load.author,
                            signers |-> reporters(s, eg), log |-> MMRSuperPeak(belt)]
  OBVIOUS
<1>6. block.slot = t /\ block.author = load.author /\ block.signers = reporters(s, eg)
  BY <1>5
<1>7. past' = Append(past, block)
  BY <1>4, <1>5
<1>8. Fitting(eg, without)
  BY ONLY <1>4, ExtrinsicsFit, Zenon
<1>9. /\ s.slot = t /\ s.kappa = IF isNewerEra(t) THEN gammaP ELSE kappa
      /\ s.lambda = IF isNewerEra(t) THEN kappa ELSE lambda
  BY ONLY PosteriorIs DEF s
<1>. HIDE DEF s
<1>10. Written(t, s, assurers, queue, load, eg, block)
  BY <1>3, <1>4, <1>6, <1>7, <1>8, <1>9, Zenon DEF Written
<1>. QED
  BY <1>10, Zenon

(* The chain is one block longer.                                          *)
LEMMA PastWritten ==
  ASSUME IsSeq(past), NEW block, past' = Append(past, block)
  PROVE  /\ IsSeq(past') /\ Len(past) \in Nat /\ Len(past') = Len(past) + 1
         /\ DOMAIN past = 1 .. Len(past) /\ DOMAIN past' = 1 .. Len(past) + 1
         /\ past'[Len(past) + 1] = block
         /\ \A i \in 1 .. Len(past) : past'[i] = past[i]
BY Appended

(* The element of a core that has one.                                     *)
LEMMA ElementIs ==
  ASSUME NEW eg, NEW without, Fitting(eg, without), NEW c, elementForCore(eg, c) # {}
  PROVE  \E i \in 1 .. Len(eg) :
           /\ TheElement(eg, c) = eg[i] /\ eg[i].core = c /\ eg[i].digests \in Works
           /\ Authorized(without, eg[i])
<1>. DEFINE i == CHOOSE i \in elementForCore(eg, c) : TRUE
<1>1. i \in elementForCore(eg, c)
  OBVIOUS
<1>2. TheElement(eg, c) = eg[i]
  BY Zenon DEF TheElement
<1>. HIDE DEF i
<1>3. DOMAIN eg = 1 .. Len(eg)
  BY DEF Fitting, IsSeq
<1>4. i \in 1 .. Len(eg) /\ eg[i].core = c
  BY <1>1, <1>3 DEF elementForCore
<1>. QED
  BY <1>2, <1>4 DEF Fitting

LEMMA ReportsStep ==
  ASSUME ReportsInv,
         NEW t, NEW s, NEW assurers, NEW queue, NEW load, NEW eg, NEW block,
         Written(t, s, assurers, queue, load, eg, block)
  PROVE  ReportsInv'
<1>1. /\ Fitting(eg, RhoWithout(t, assurers))
      /\ rho' = [c \in Cores |->
                   IF elementForCore(eg, c) = {} THEN RhoWithout(t, assurers)[c]
                   ELSE [digests |-> TheElement(eg, c).digests, reportSlot |-> t]]
  BY DEF Written
<1>2. ASSUME NEW c \in Cores PROVE rho'[c] = Empty \/ rho'[c].digests \in Works
  <2>1. CASE elementForCore(eg, c) = {}
    <3>1. rho'[c] = RhoWithout(t, assurers)[c]
      BY <1>1, <2>1
    <3>2. RhoWithout(t, assurers)[c] = Empty \/ RhoWithout(t, assurers)[c] = rho[c]
      BY DEF RhoWithout
    <3>. QED
      BY <3>1, <3>2 DEF ReportsInv
  <2>2. CASE elementForCore(eg, c) # {}
    <3>1. rho'[c].digests = TheElement(eg, c).digests
      BY <1>1, <2>2
    <3>2. TheElement(eg, c).digests \in Works
      BY <1>1, <2>2, ElementIs
    <3>. QED
      BY <3>1, <3>2
  <2>. QED
    BY <2>1, <2>2
<1>. QED
  BY <1>2 DEF ReportsInv

LEMMA RangeStep ==
  ASSUME IsSeq(past), RangeInv,
         NEW t, NEW s, NEW assurers, NEW queue, NEW load, NEW eg, NEW block,
         Written(t, s, assurers, queue, load, eg, block)
  PROVE  RangeInv'
<1>1. beefyBelt' = appendMMR(beefyBelt, << Len(past) + 1 >>) /\ past' = Append(past, block)
  BY DEF Written
<1>. PICK n : n = Len(past)
  OBVIOUS
<1>2. n \in Nat /\ DOMAIN past = 1 .. n /\ DOMAIN past' = 1 .. n + 1
  BY <1>1, PastWritten
<1>. PICK v : v = << n + 1 >>
  OBVIOUS
<1>3. v \in Seq(Nat) /\ Len(v) = 1 /\ v[1] = n + 1
  BY <1>2
<1>4. beefyBelt \in Seq(Seq(Nat)) /\ FlattenSeq(Reverse(beefyBelt)) = [i \in 1 .. n |-> i]
  BY <1>2 DEF RangeInv, RangeHoldsEveryBlock
<1>5. /\ beefyBelt' \in Seq(Seq(Nat))
      /\ FlattenSeq(Reverse(beefyBelt')) = FlattenSeq(Reverse(beefyBelt)) \o v
  <2>1. /\ appendMMR(beefyBelt, v) \in Seq(Seq(Nat))
        /\ FlattenSeq(Reverse(appendMMR(beefyBelt, v))) = FlattenSeq(Reverse(beefyBelt)) \o v
    BY ONLY <1>3, <1>4, AppendsLast
  <2>. QED
    BY <1>1, <2>1
<1>6. [i \in 1 .. n |-> i] \o v = [i \in 1 .. n + 1 |-> i]
  <2>. PICK a : a = [i \in 1 .. n |-> i]
    OBVIOUS
  <2>1. a \in Seq(Nat) /\ Len(a) = n /\ \A i \in 1 .. n : a[i] = i
    BY <1>2
  <2>2. /\ a \o v \in Seq(Nat) /\ Len(a \o v) = n + 1
        /\ \A i \in 1 .. n + 1 : (a \o v)[i] = IF i <= n THEN a[i] ELSE v[i - n]
    <3>1. /\ a \o v \in Seq(Nat) /\ Len(a \o v) = Len(a) + Len(v)
          /\ \A i \in 1 .. Len(a) + Len(v) : (a \o v)[i] = IF i <= Len(a) THEN a[i] ELSE v[i - Len(a)]
      BY ONLY <1>3, <2>1, ConcatProperties
    <3>. QED
      BY ONLY <1>3, <2>1, <3>1
  <2>. PICK b : b = a \o v
    OBVIOUS
  <2>3. ASSUME NEW i \in 1 .. n + 1 PROVE b[i] = i
    <3>1. CASE i <= n
      BY <1>2, <2>1, <2>2, <3>1
    <3>2. CASE i = n + 1
      BY <1>2, <1>3, <2>2, <3>2
    <3>. QED
      BY <1>2, <3>1, <3>2
  <2>4. b \in Seq(Nat) /\ Len(b) = n + 1
    BY <2>2
  <2>5. b = [i \in 1 .. n + 1 |-> i]
    BY ONLY <1>2, <2>3, <2>4
  <2>. QED
    BY <2>5
<1>7. FlattenSeq(Reverse(beefyBelt')) = [i \in DOMAIN past' |-> i]
  BY <1>2, <1>4, <1>5, <1>6
<1>. QED
  BY <1>5, <1>7 DEF RangeInv, RangeHoldsEveryBlock

-----------------------------------------------------------------------------
(* What a block hands to accumulation waited for assurances.               *)
LEMMA WorkOfIs ==
  ASSUME ReportsInv, NEW assurers
  PROVE  FlattenSeq([i \in DOMAIN WorkOf(assurers) |-> WorkOf(assurers)[i]]) \in Seq(Digests)
<1>. PICK S : S = NewlyAvailable(assurers)
  OBVIOUS
<1>1. \A c \in S : rho[c].digests \in Works
  <2>. TAKE c \in S
  <2>1. c \in Cores /\ 3 * nPositiveVotes(c, assurers) > 2 * NUMBER_OF_VALIDATORS
    BY DEF NewlyAvailable
  <2>2. CASE c \in Engaged
    BY <2>2 DEF Engaged, ReportsInv
  <2>3. CASE c \notin Engaged
    <3>1. nPositiveVotes(c, assurers) = 0
      BY <2>3 DEF nPositiveVotes
    <3>2. NUMBER_OF_VALIDATORS \in Nat
      BY SizesAssumption
    <3>. QED
      BY ONLY <2>1, <3>1, <3>2
  <2>. QED
    BY <2>2, <2>3
<1>2. IsFiniteSet(S)
  BY CoresAreFinite, FS_Subset DEF NewlyAvailable
<1>. PICK n \in Nat : n = Cardinality(S)
  BY <1>2, FS_CardinalityType
<1>3. \E f \in [1 .. n -> S] : IsInjective(f)
  <2>1. ExistsBijection(1 .. n, S)
    BY <1>2, FS_CardinalityType
  <2>2. PICK f : f \in Bijection(1 .. n, S)
    BY <2>1 DEF ExistsBijection
  <2>3. f \in [1 .. n -> S] /\ IsInjective(f)
    BY <2>2 DEF Bijection, Injection, IsInjective
  <2>. QED
    BY <2>3
<1>. PICK q : q = SetToSeq(S)
  OBVIOUS
<1>4. q \in [1 .. n -> S]
  BY <1>3 DEF SetToSeq
<1>. PICK w : w = WorkOf(assurers)
  OBVIOUS
<1>5. w = [i \in 1 .. n |-> rho[q[i]].digests]
  BY <1>4 DEF WorkOf
<1>. PICK X : X = Seq(Digests)
  OBVIOUS
<1>6. \A i \in 1 .. n : rho[q[i]].digests \in X
  BY <1>1, <1>4, WorksAre
<1>7. w \in Seq(X) /\ [i \in DOMAIN w |-> w[i]] = w
  BY ONLY <1>5, <1>6, n \in Nat
<1>8. w \in Seq(Seq(Digests))
  BY <1>7
<1>9. FlattenSeq(w) \in Seq(Digests)
  BY ONLY <1>8, WorksAre, UsedByAll
<1>. QED
  BY <1>7, <1>9

LEMMA MatchStep ==
  ASSUME ReportsInv,
         NEW t, NEW s, NEW assurers, NEW queue, NEW load, NEW eg, NEW block,
         Written(t, s, assurers, queue, load, eg, block)
  PROVE  CoresMatchServices'
<1>1. /\ load \in Loads /\ Fitting(eg, RhoWithout(t, assurers))
      /\ coreStats' = NextCoreStats(eg, assurers)
      /\ serviceStats' = NextServiceStats(eg, load, WorkOf(assurers))
  BY DEF Written
<1>2. IsSeq(eg) /\ \A i \in 1 .. Len(eg) : eg[i].core \in Cores /\ eg[i].digests \in Works
  BY <1>1 DEF Fitting
<1>3. /\ DigestsOf(eg) \in Seq(Digests)
      /\ SumOf([c \in Cores |-> NextCoreStats(eg, assurers)[c].gasUsed]) = UsedBy(DigestsOf(eg))
  BY ONLY <1>2, GasByCore
<1>4. FlattenSeq([i \in DOMAIN WorkOf(assurers) |-> WorkOf(assurers)[i]]) \in Seq(Digests)
  BY WorkOfIs
<1>. PICK stats : stats = NextServiceStats(eg, load, WorkOf(assurers))
  OBVIOUS
<1>5. SumOf([x \in DOMAIN stats |-> stats[x].refinementGasUsed]) = UsedBy(DigestsOf(eg))
  BY <1>1, <1>3, <1>4, GasByService, Zenon
<1>. QED
  BY <1>1, <1>3, <1>5 DEF CoresMatchServices

LEMMA PoolsStep ==
  ASSUME PoolsInv,
         NEW t, NEW s, NEW assurers, NEW queue, NEW load, NEW eg, NEW block,
         Written(t, s, assurers, queue, load, eg, block)
  PROVE  PoolsInv'
<1>1. /\ Fitting(eg, RhoWithout(t, assurers))
      /\ authPool' = NextPool(t, queue, eg)
      /\ entered' = [c \in Cores |-> Append(entered[c], FromQueue(queue, t, c))]
      /\ spent' = [c \in Cores |-> IF elementForCore(eg, c) = {} THEN spent[c]
                                   ELSE Append(spent[c], TheElement(eg, c).authorizer)]
  BY DEF Written
<1>2. AUTHPOOL_SIZE \in Nat
  BY BooksAssumption
<1>. SUFFICES ASSUME NEW c \in Cores
     PROVE  /\ IsSeq(authPool'[c]) /\ IsSeq(spent'[c]) /\ IsSeq(entered'[c])
            /\ \A h : Count(authPool'[c], h) + Count(spent'[c], h) <= Count(entered'[c], h)
  BY DEF PoolsInv
<1>. PICK pool, used, came : pool = authPool[c] /\ used = spent[c] /\ came = entered[c]
  OBVIOUS
<1>3. /\ IsSeq(pool) /\ IsSeq(used) /\ IsSeq(came)
      /\ \A h : Count(pool, h) + Count(used, h) <= Count(came, h)
  BY DEF PoolsInv
<1>. PICK v : v = FromQueue(queue, t, c)
  OBVIOUS
<1>4. entered'[c] = Append(came, v)
  BY <1>1
<1>5. IsSeq(Append(came, v)) /\ \A h : Count(Append(came, v), h) = Count(came, h) + Once(v = h)
  BY <1>3, Appended, CountAppend
<1>6. \A h : Once(v = h) \in Nat /\ Count(pool, h) \in Nat /\ Count(used, h) \in Nat /\ Count(came, h) \in Nat
  BY <1>3, CountType DEF Once
<1>7. ASSUME NEW left, IsSeq(left)
      PROVE  /\ IsSeq(Newest(AUTHPOOL_SIZE, Append(left, v)))
             /\ \A h : /\ Count(Newest(AUTHPOOL_SIZE, Append(left, v)), h) <= Count(left, h) + Once(v = h)
                       /\ Count(Newest(AUTHPOOL_SIZE, Append(left, v)), h) \in Nat
                       /\ Count(left, h) \in Nat
  <2>. PICK q : q = Append(left, v)
    OBVIOUS
  <2>1. IsSeq(q)
    BY <1>7, Appended
  <2>2. IsSeq(Newest(AUTHPOOL_SIZE, q))
    BY <1>2, <2>1, NewestOf
  <2>3. ASSUME NEW h
        PROVE  /\ Count(Newest(AUTHPOOL_SIZE, q), h) <= Count(left, h) + Once(v = h)
               /\ Count(Newest(AUTHPOOL_SIZE, q), h) \in Nat /\ Count(left, h) \in Nat
    <3>1. Count(Newest(AUTHPOOL_SIZE, q), h) <= Count(q, h)
      BY <1>2, <2>1, CountNewest
    <3>2. Count(q, h) = Count(left, h) + Once(v = h)
      BY <1>7, CountAppend
    <3>3. Count(Newest(AUTHPOOL_SIZE, q), h) \in Nat /\ Count(left, h) \in Nat
      BY <1>7, <2>2, CountType
    <3>. QED
      BY <3>1, <3>2, <3>3
  <2>. QED
    BY <2>2, <2>3
<1>8. CASE elementForCore(eg, c) = {}
  <2>1. authPool'[c] = Newest(AUTHPOOL_SIZE, Append(pool, v)) /\ spent'[c] = used
    BY <1>1, <1>8 DEF NextPool
  <2>2. ASSUME NEW h
        PROVE  Count(Newest(AUTHPOOL_SIZE, Append(pool, v)), h) + Count(used, h) <= Count(Append(came, v), h)
    <3>1. /\ Count(Newest(AUTHPOOL_SIZE, Append(pool, v)), h) <= Count(pool, h) + Once(v = h)
          /\ Count(Newest(AUTHPOOL_SIZE, Append(pool, v)), h) \in Nat
      BY <1>3, <1>7
    <3>2. Count(Append(came, v), h) = Count(came, h) + Once(v = h)
      BY <1>5
    <3>3. Count(pool, h) + Count(used, h) <= Count(came, h)
      BY <1>3
    <3>4. Once(v = h) \in Nat /\ Count(pool, h) \in Nat /\ Count(used, h) \in Nat /\ Count(came, h) \in Nat
      BY <1>6
    <3>. QED
      BY ONLY <3>1, <3>2, <3>3, <3>4
  <2>. QED
    BY <1>3, <1>4, <1>5, <1>7, <2>1, <2>2
<1>9. CASE elementForCore(eg, c) # {}
  <2>. PICK a : a = TheElement(eg, c).authorizer
    OBVIOUS
  <2>1. PICK i \in 1 .. Len(eg) :
          TheElement(eg, c) = eg[i] /\ eg[i].core = c /\ Authorized(RhoWithout(t, assurers), eg[i])
    BY <1>1, <1>9, ElementIs
  <2>2. \E k \in DOMAIN pool : pool[k] = a
    BY <2>1 DEF Authorized
  <2>. PICK left : left = WithoutAuthorization(pool, a)
    OBVIOUS
  <2>3. IsSeq(left) /\ \A h : Count(left, h) + Once(a = h) = Count(pool, h)
    BY <1>3, <2>2, CountWithout
  <2>4. authPool'[c] = Newest(AUTHPOOL_SIZE, Append(left, v)) /\ spent'[c] = Append(used, a)
    BY <1>1, <1>9 DEF NextPool
  <2>5. IsSeq(Append(used, a)) /\ \A h : Count(Append(used, a), h) = Count(used, h) + Once(a = h)
    BY <1>3, Appended, CountAppend
  <2>6. ASSUME NEW h
        PROVE  Count(Newest(AUTHPOOL_SIZE, Append(left, v)), h) + Count(Append(used, a), h)
                 <= Count(Append(came, v), h)
    <3>1. /\ Count(Newest(AUTHPOOL_SIZE, Append(left, v)), h) <= Count(left, h) + Once(v = h)
          /\ Count(Newest(AUTHPOOL_SIZE, Append(left, v)), h) \in Nat /\ Count(left, h) \in Nat
      BY <1>7, <2>3
    <3>2. Count(Append(came, v), h) = Count(came, h) + Once(v = h)
      BY <1>5
    <3>3. Count(pool, h) + Count(used, h) <= Count(came, h)
      BY <1>3
    <3>4. /\ Once(v = h) \in Nat /\ Count(pool, h) \in Nat /\ Count(used, h) \in Nat /\ Count(came, h) \in Nat
          /\ Once(a = h) \in Nat
      BY <1>6 DEF Once
    <3>5. Count(left, h) + Once(a = h) = Count(pool, h) /\ Count(Append(used, a), h) = Count(used, h) + Once(a = h)
      BY <2>3, <2>5
    <3>. QED
      BY ONLY <3>1, <3>2, <3>3, <3>4, <3>5
  <2>. QED
    BY <1>4, <1>5, <1>7, <2>3, <2>4, <2>5, <2>6
<1>. QED
  BY <1>8, <1>9

-----------------------------------------------------------------------------
(* What the validators are credited with, of a chain q.                    *)
InEpoch(q, e) == {n \in DOMAIN q : Epoch(q[n].slot) = e}
Authored(q, e, v) == {n \in InEpoch(q, e) : q[n].author = v}
Signed(q, e, key) == {n \in InEpoch(q, e) : key \in q[n].signers}
Credit(q, credits, e, keys) ==
  \A v \in Validators :
    /\ credits[v].blocks = Cardinality(Authored(q, e, v))
    /\ credits[v].guarantees = Cardinality(Signed(q, e, keys[v]))
IsBefore(q, e, d) == d < e /\ \A n \in DOMAIN q : Epoch(q[n].slot) \in 0 .. d \cup {e}
Before(q, e) == CHOOSE d \in {Epoch(q[n].slot) : n \in DOMAIN q} : IsBefore(q, e, d)

Credited(q, stats, e, keys, former) ==
  /\ Credit(q, stats.accumulator, e, keys)
  /\ (\E n \in DOMAIN q : Epoch(q[n].slot) < e) => Credit(q, stats.previous, Before(q, e), former)

LEMMA CreditedIs ==
  /\ ValidatorsCredited <=> Credited(past, validatorStats, Epoch(slot), kappa, lambda)
  /\ ValidatorsCredited' <=> Credited(past', validatorStats', Epoch(slot'), kappa', lambda')
BY DEF ValidatorsCredited, Credited, CreditsMatch, Credit, BlocksOf, InEpoch, Authored, Signed,
       EpochBefore, Before, IsBefore

LEMMA BeforeIs ==
  ASSUME NEW q, NEW e \in Int, \A n \in DOMAIN q : Epoch(q[n].slot) \in Int,
         NEW k \in DOMAIN q, NEW d, d = Epoch(q[k].slot), IsBefore(q, e, d)
  PROVE  Before(q, e) = d
<1>. DEFINE S == {Epoch(q[n].slot) : n \in DOMAIN q}
            c == CHOOSE c \in S : IsBefore(q, e, c)
<1>1. d \in S /\ d \in Int
  OBVIOUS
<1>2. c \in S /\ IsBefore(q, e, c)
  BY <1>1
<1>3. Before(q, e) = c
  BY Zenon DEF Before
<1>. HIDE DEF c
<1>4. PICK l \in DOMAIN q : c = Epoch(q[l].slot)
  BY <1>2
<1>5. c \in Int /\ c < e /\ c \in 0 .. d \cup {e} /\ d < e /\ d \in 0 .. c \cup {e}
  BY <1>2, <1>4 DEF IsBefore
<1>. QED
  BY <1>1, <1>3, <1>5

(* One block more.                                                         *)
LEMMA OneMore ==
  ASSUME NEW n \in Nat, NEW A \in SUBSET (1 .. n), NEW B,
         NEW yes \in {0, 1}, B = IF yes = 1 THEN A \cup {n + 1} ELSE A
  PROVE  Cardinality(B) = Cardinality(A) + yes /\ Cardinality(A) \in Nat
<1>1. IsFiniteSet(A)
  BY NumbersUpTo, FS_Subset
<1>2. Cardinality(A) \in Nat /\ n + 1 \notin A
  BY <1>1, FS_CardinalityType
<1>3. CASE yes = 1
  <2>1. Cardinality(A \cup {n + 1}) = Cardinality(A) + 1
    BY <1>1, <1>2, FS_AddElement
  <2>. QED
    BY <1>2, <1>3, <2>1
<1>4. CASE yes = 0
  BY <1>2, <1>4
<1>. QED
  BY <1>3, <1>4

MoreCredit(q, block, e, v, key) ==
  /\ Cardinality(Authored(Append(q, block), e, v))
       = Cardinality(Authored(q, e, v)) + Once(Epoch(block.slot) = e /\ block.author = v)
  /\ Cardinality(Signed(Append(q, block), e, key))
       = Cardinality(Signed(q, e, key)) + Once(Epoch(block.slot) = e /\ key \in block.signers)
  /\ Cardinality(Authored(q, e, v)) \in Nat /\ Cardinality(Signed(q, e, key)) \in Nat

LEMMA CreditGrows ==
  ASSUME NEW q, IsSeq(q), NEW block, NEW e, NEW v, NEW key
  PROVE  MoreCredit(q, block, e, v, key)
<1>. PICK p : p = Append(q, block)
  OBVIOUS
<1>. PICK n : n = Len(q)
  OBVIOUS
<1>1. /\ n \in Nat /\ DOMAIN q = 1 .. n /\ DOMAIN p = 1 .. n + 1 /\ p[n + 1] = block
      /\ \A i \in 1 .. n : p[i] = q[i]
  BY Appended
<1>2. /\ Cardinality(Authored(p, e, v))
           = Cardinality(Authored(q, e, v)) + Once(Epoch(block.slot) = e /\ block.author = v)
      /\ Cardinality(Authored(q, e, v)) \in Nat
  <2>. PICK yes \in {0, 1} : yes = Once(Epoch(block.slot) = e /\ block.author = v)
    BY DEF Once
  <2>1. Authored(q, e, v) \in SUBSET (1 .. n)
    BY <1>1 DEF Authored, InEpoch
  <2>2. Authored(p, e, v) = IF yes = 1 THEN Authored(q, e, v) \cup {n + 1} ELSE Authored(q, e, v)
    <3>1. ASSUME NEW i PROVE i \in Authored(p, e, v) <=> i \in Authored(q, e, v) \/ (yes = 1 /\ i = n + 1)
      <4>1. CASE i \in 1 .. n
        <5>1. i # n + 1 /\ i \in DOMAIN p /\ i \in DOMAIN q /\ p[i] = q[i]
          BY <1>1, <4>1
        <5>. QED
          BY ONLY <5>1 DEF Authored, InEpoch
      <4>2. CASE i = n + 1
        <5>1. i \in DOMAIN p /\ i \notin DOMAIN q /\ p[i] = block
          BY <1>1, <4>2
        <5>. QED
          BY <4>2, <5>1 DEF Authored, InEpoch, Once
      <4>3. CASE i \notin 1 .. n /\ i # n + 1
        <5>1. i \notin DOMAIN p /\ i \notin DOMAIN q
          BY <1>1, <4>3
        <5>. QED
          BY ONLY <4>3, <5>1 DEF Authored, InEpoch
      <4>. QED
        BY ONLY <4>1, <4>2, <4>3
    <3>2. CASE yes = 1
      BY ONLY <3>1, <3>2
    <3>3. CASE yes = 0
      BY ONLY <3>1, <3>3
    <3>. QED
      BY ONLY <3>2, <3>3, yes \in {0, 1}
  <2>. QED
    BY ONLY <1>1, <2>1, <2>2, OneMore, yes = Once(Epoch(block.slot) = e /\ block.author = v), yes \in {0, 1}
<1>3. /\ Cardinality(Signed(p, e, key))
           = Cardinality(Signed(q, e, key)) + Once(Epoch(block.slot) = e /\ key \in block.signers)
      /\ Cardinality(Signed(q, e, key)) \in Nat
  <2>. PICK yes \in {0, 1} : yes = Once(Epoch(block.slot) = e /\ key \in block.signers)
    BY DEF Once
  <2>1. Signed(q, e, key) \in SUBSET (1 .. n)
    BY <1>1 DEF Signed, InEpoch
  <2>2. Signed(p, e, key) = IF yes = 1 THEN Signed(q, e, key) \cup {n + 1} ELSE Signed(q, e, key)
    <3>1. ASSUME NEW i PROVE i \in Signed(p, e, key) <=> i \in Signed(q, e, key) \/ (yes = 1 /\ i = n + 1)
      <4>1. CASE i \in 1 .. n
        <5>1. i # n + 1 /\ i \in DOMAIN p /\ i \in DOMAIN q /\ p[i] = q[i]
          BY <1>1, <4>1
        <5>. QED
          BY ONLY <5>1 DEF Signed, InEpoch
      <4>2. CASE i = n + 1
        <5>1. i \in DOMAIN p /\ i \notin DOMAIN q /\ p[i] = block
          BY <1>1, <4>2
        <5>. QED
          BY <4>2, <5>1 DEF Signed, InEpoch, Once
      <4>3. CASE i \notin 1 .. n /\ i # n + 1
        <5>1. i \notin DOMAIN p /\ i \notin DOMAIN q
          BY <1>1, <4>3
        <5>. QED
          BY ONLY <4>3, <5>1 DEF Signed, InEpoch
      <4>. QED
        BY ONLY <4>1, <4>2, <4>3
    <3>2. CASE yes = 1
      BY ONLY <3>1, <3>2
    <3>3. CASE yes = 0
      BY ONLY <3>1, <3>3
    <3>. QED
      BY ONLY <3>2, <3>3, yes \in {0, 1}
  <2>. QED
    BY ONLY <1>1, <2>1, <2>2, OneMore, yes = Once(Epoch(block.slot) = e /\ key \in block.signers), yes \in {0, 1}
<1>. QED
  BY <1>2, <1>3 DEF MoreCredit

(* The last epoch with a block before epoch e, of a chain in order.        *)
LEMMA BeforeExists ==
  ASSUME NEW q, IsSeq(q), NEW e \in Int, \A n \in 1 .. Len(q) : Epoch(q[n].slot) \in 0 .. e,
         \A i, j \in 1 .. Len(q) : i < j => Epoch(q[i].slot) <= Epoch(q[j].slot),
         NEW m \in DOMAIN q, Epoch(q[m].slot) < e
  PROVE  \E k \in DOMAIN q : IsBefore(q, e, Epoch(q[k].slot))
<1>. PICK n \in Nat : n = Len(q) /\ DOMAIN q = 1 .. n
  BY DEF IsSeq
<1>. DEFINE S == {i \in 1 .. n : Epoch(q[i].slot) < e}
            k == Max(S)
<1>1. S \in SUBSET (1 .. n) /\ S # {}
  OBVIOUS
<1>2. k \in S /\ \A i \in S : i <= k
  <2>. HIDE DEF S
  <2>. QED
    BY <1>1, GreatestIs
<1>. HIDE DEF k
<1>3. k \in 1 .. n /\ Epoch(q[k].slot) < e
  BY <1>2
<1>4. ASSUME NEW i \in 1 .. n PROVE Epoch(q[i].slot) \in 0 .. Epoch(q[k].slot) \cup {e}
  <2>1. Epoch(q[i].slot) \in 0 .. e /\ Epoch(q[k].slot) \in 0 .. e
    BY <1>3
  <2>2. CASE i <= k
    <3>1. Epoch(q[i].slot) <= Epoch(q[k].slot)
      BY <1>3, <2>1, <2>2
    <3>. QED
      BY <2>1, <3>1
  <2>3. CASE ~(i <= k)
    <3>1. ~(Epoch(q[i].slot) < e)
      BY <1>2, <2>3
    <3>. QED
      BY <2>1, <3>1
  <2>. QED
    BY <2>2, <2>3
<1>. QED
  BY <1>3, <1>4 DEF IsBefore

LEMMA CreditStep ==
  ASSUME SlotsInv, TipInv, ValidatorsCredited,
         NEW t, NEW s, NEW assurers, NEW queue, NEW load, NEW eg, NEW block,
         Written(t, s, assurers, queue, load, eg, block)
  PROVE  ValidatorsCredited'
<1>1. /\ t \in Nat /\ t > slot /\ slot' = t /\ s.slot = t /\ s.kappa = kappa'
      /\ kappa' = IF isNewerEra(t) THEN gammaP ELSE kappa
      /\ lambda' = IF isNewerEra(t) THEN kappa ELSE lambda
      /\ validatorStats' = NextValidatorStats(s, eg, load, assurers)
      /\ past' = Append(past, block)
      /\ block.slot = t /\ block.author = load.author /\ block.signers = reporters(s, eg)
  BY DEF Written
<1>. PICK q, p : q = past /\ p = past'
  OBVIOUS
<1>. PICK n : n = Len(q)
  OBVIOUS
<1>2. /\ IsSeq(q) /\ n \in Nat /\ DOMAIN q = 1 .. n /\ DOMAIN p = 1 .. n + 1
      /\ p[n + 1] = block /\ (\A i \in 1 .. n : p[i] = q[i]) /\ p = Append(q, block)
  BY <1>1, Appended DEF SlotsInv
<1>. PICK e, f : e = Epoch(slot) /\ f = Epoch(t)
  OBVIOUS
<1>3. slot \in Nat /\ \A i \in 1 .. n : q[i].slot \in Nat /\ q[i].slot <= slot
  BY <1>2 DEF SlotsInv
<1>4. e \in Nat /\ f \in Nat /\ e <= f
  BY <1>1, <1>3, Later
<1>5. \A i \in 1 .. n : Epoch(q[i].slot) \in 0 .. e
  <2>. TAKE i \in 1 .. n
  <2>1. Epoch(q[i].slot) <= e /\ Epoch(q[i].slot) \in Nat
    BY <1>3, Later
  <2>. QED
    BY <1>4, <2>1
<1>6. \A i, j \in 1 .. n : i < j => Epoch(q[i].slot) <= Epoch(q[j].slot)
  <2>. SUFFICES ASSUME NEW i \in 1 .. n, NEW j \in 1 .. n, i < j
       PROVE  Epoch(q[i].slot) <= Epoch(q[j].slot)
    OBVIOUS
  <2>1. q[i].slot < q[j].slot /\ q[i].slot \in Nat /\ q[j].slot \in Nat
    BY <1>3 DEF SlotsInv
  <2>2. q[i].slot <= q[j].slot
    BY <2>1
  <2>. QED
    BY ONLY <2>1, <2>2, Later
<1>7. n > 0 => q[n].slot = slot /\ n \in 1 .. n /\ Epoch(q[n].slot) = e
  BY <1>2 DEF TipInv
<1>8. Credited(q, validatorStats, e, kappa, lambda)
  BY CreditedIs
<1>. SUFFICES Credited(p, validatorStats', f, kappa', lambda')
  BY <1>1, CreditedIs
<1>. PICK base : base = IF isNewerEra(t) THEN NoCredits ELSE validatorStats.accumulator
  OBVIOUS
<1>9. \A v \in Validators :
        /\ validatorStats'.accumulator[v].blocks = base[v].blocks + Once(block.author = v)
        /\ validatorStats'.accumulator[v].guarantees = base[v].guarantees + Once(kappa'[v] \in block.signers)
  BY <1>1 DEF NextValidatorStats, Once
<1>10. validatorStats'.previous = IF isNewerEra(t) THEN validatorStats.accumulator ELSE validatorStats.previous
  BY <1>1 DEF NextValidatorStats
<1>11. isNewerEra(t) <=> f > e
  BY DEF isNewerEra
<1>12. \A i \in DOMAIN p : Epoch(p[i].slot) = IF i = n + 1 THEN f ELSE Epoch(q[i].slot)
  BY <1>1, <1>2
<1>13. ASSUME NEW g, NEW v, NEW key
       PROVE  /\ Cardinality(Authored(p, g, v))
                   = Cardinality(Authored(q, g, v)) + Once(f = g /\ block.author = v)
              /\ Cardinality(Signed(p, g, key))
                   = Cardinality(Signed(q, g, key)) + Once(f = g /\ key \in block.signers)
              /\ Cardinality(Authored(q, g, v)) \in Nat /\ Cardinality(Signed(q, g, key)) \in Nat
  <2>1. f = Epoch(block.slot) /\ p = Append(q, block) /\ IsSeq(q)
    BY <1>1, <1>2
  <2>2. MoreCredit(q, block, g, v, key)
    BY <2>1, CreditGrows
  <2>. QED
    BY ONLY <2>1, <2>2 DEF MoreCredit
<1>14. CASE ~ isNewerEra(t)
  <2>1. f = e /\ kappa' = kappa /\ lambda' = lambda /\ validatorStats'.previous = validatorStats.previous
    BY <1>1, <1>4, <1>10, <1>11, <1>14
  <2>2. Credit(p, validatorStats'.accumulator, f, kappa')
    <3>1. ASSUME NEW v \in Validators
          PROVE  /\ validatorStats'.accumulator[v].blocks = Cardinality(Authored(p, f, v))
                 /\ validatorStats'.accumulator[v].guarantees = Cardinality(Signed(p, f, kappa'[v]))
      <4>1. /\ base[v].blocks = Cardinality(Authored(q, f, v))
            /\ base[v].guarantees = Cardinality(Signed(q, f, kappa'[v]))
        BY <1>8, <1>14, <2>1 DEF Credited, Credit
      <4>2. /\ Cardinality(Authored(p, f, v)) = Cardinality(Authored(q, f, v)) + Once(block.author = v)
            /\ Cardinality(Signed(p, f, kappa'[v]))
                 = Cardinality(Signed(q, f, kappa'[v])) + Once(kappa'[v] \in block.signers)
        BY <1>13 DEF Once
      <4>. QED
        BY <1>9, <4>1, <4>2
    <3>. QED
      BY <3>1 DEF Credit
  <2>3. ASSUME \E i \in DOMAIN p : Epoch(p[i].slot) < f
        PROVE  Credit(p, validatorStats'.previous, Before(p, f), lambda')
    <3>1. PICK i \in 1 .. n : Epoch(q[i].slot) < e
      <4>1. PICK i \in DOMAIN p : Epoch(p[i].slot) < f
        BY <2>3
      <4>2. i # n + 1
        BY <1>4, <1>12, <4>1
      <4>3. i \in 1 .. n
        BY <1>2, <4>2
      <4>. QED
        BY <1>12, <2>1, <4>1, <4>2, <4>3
    <3>2. PICK k \in DOMAIN q : IsBefore(q, e, Epoch(q[k].slot))
      <4>1. /\ IsSeq(q) /\ e \in Int /\ i \in DOMAIN q /\ Epoch(q[i].slot) < e
            /\ \A m \in 1 .. Len(q) : Epoch(q[m].slot) \in 0 .. e
            /\ \A l, m \in 1 .. Len(q) : l < m => Epoch(q[l].slot) <= Epoch(q[m].slot)
        BY <1>2, <1>4, <1>5, <1>6, <3>1
      <4>. QED
        BY ONLY <4>1, BeforeExists
    <3>. PICK d : d = Epoch(q[k].slot)
      OBVIOUS
    <3>3. d < e /\ d \in Nat /\ k \in DOMAIN p /\ d = Epoch(p[k].slot)
      BY <1>2, <1>5, <1>12, <3>2 DEF IsBefore
    <3>4. Before(q, e) = d
      <4>1. \A m \in DOMAIN q : Epoch(q[m].slot) \in Int
        BY <1>2, <1>5
      <4>2. e \in Int /\ k \in DOMAIN q /\ IsBefore(q, e, d) /\ d = Epoch(q[k].slot)
        BY <1>4, <3>2
      <4>. QED
        BY ONLY <4>1, <4>2, BeforeIs
    <3>5. Before(p, f) = d
      <4>1. ASSUME NEW m \in DOMAIN p PROVE Epoch(p[m].slot) \in Int
        <5>1. CASE m = n + 1
          <6>1. Epoch(p[m].slot) = f
            BY <1>12, <5>1
          <6>. QED
            BY <1>4, <6>1
        <5>2. CASE m # n + 1
          <6>1. m \in 1 .. n /\ Epoch(p[m].slot) = Epoch(q[m].slot)
            BY <1>2, <1>12, <5>2
          <6>. QED
            BY <1>5, <6>1
        <5>. QED
          BY <5>1, <5>2
      <4>2. IsBefore(p, f, d)
        <5>1. ASSUME NEW m \in DOMAIN p PROVE Epoch(p[m].slot) \in 0 .. d \cup {f}
          <6>1. CASE m = n + 1
            BY <1>12, <6>1
          <6>2. CASE m # n + 1
            <7>1. m \in DOMAIN q /\ Epoch(p[m].slot) = Epoch(q[m].slot)
              BY <1>2, <1>12, <6>2
            <7>. QED
              BY <2>1, <3>2, <7>1 DEF IsBefore
          <6>. QED
            BY <6>1, <6>2
        <5>. QED
          BY <2>1, <3>3, <5>1 DEF IsBefore
      <4>3. f \in Int /\ k \in DOMAIN p /\ d = Epoch(p[k].slot)
        BY <1>4, <3>3
      <4>. QED
        BY ONLY <4>1, <4>2, <4>3, BeforeIs
    <3>6. Credit(q, validatorStats.previous, d, lambda)
      BY <1>2, <1>8, <3>1, <3>4 DEF Credited
    <3>7. ASSUME NEW v \in Validators
          PROVE  /\ Cardinality(Authored(p, d, v)) = Cardinality(Authored(q, d, v))
                 /\ Cardinality(Signed(p, d, lambda[v])) = Cardinality(Signed(q, d, lambda[v]))
      <4>1. f # d
        BY <1>4, <2>1, <3>3
      <4>2. Once(f = d /\ block.author = v) = 0 /\ Once(f = d /\ lambda[v] \in block.signers) = 0
        BY <4>1 DEF Once
      <4>3. /\ Cardinality(Authored(p, d, v))
                 = Cardinality(Authored(q, d, v)) + Once(f = d /\ block.author = v)
            /\ Cardinality(Signed(p, d, lambda[v]))
                 = Cardinality(Signed(q, d, lambda[v])) + Once(f = d /\ lambda[v] \in block.signers)
            /\ Cardinality(Authored(q, d, v)) \in Nat /\ Cardinality(Signed(q, d, lambda[v])) \in Nat
        BY ONLY <1>13
      <4>. QED
        BY ONLY <4>2, <4>3
    <3>. QED
      BY <2>1, <3>5, <3>6, <3>7 DEF Credit
  <2>. QED
    BY <2>2, <2>3 DEF Credited
<1>15. CASE isNewerEra(t)
  <2>1. f > e /\ lambda' = kappa /\ validatorStats'.previous = validatorStats.accumulator /\ base = NoCredits
    BY <1>1, <1>10, <1>11, <1>15
  <2>2. Credit(p, validatorStats'.accumulator, f, kappa')
    <3>1. InEpoch(q, f) = {}
      BY <1>2, <1>4, <1>5, <2>1 DEF InEpoch
    <3>2. ASSUME NEW v \in Validators
          PROVE  /\ validatorStats'.accumulator[v].blocks = Cardinality(Authored(p, f, v))
                 /\ validatorStats'.accumulator[v].guarantees = Cardinality(Signed(p, f, kappa'[v]))
      <4>1. /\ Cardinality(Authored(q, f, v)) = 0 /\ Cardinality(Signed(q, f, kappa'[v])) = 0
        BY <3>1, FS_EmptySet DEF Authored, Signed
      <4>2. base[v].blocks = 0 /\ base[v].guarantees = 0
        BY <2>1 DEF NoCredits, NoCredit
      <4>3. /\ Cardinality(Authored(p, f, v)) = Cardinality(Authored(q, f, v)) + Once(block.author = v)
            /\ Cardinality(Signed(p, f, kappa'[v]))
                 = Cardinality(Signed(q, f, kappa'[v])) + Once(kappa'[v] \in block.signers)
        BY <1>13 DEF Once
      <4>. QED
        BY <1>9, <4>1, <4>2, <4>3
    <3>. QED
      BY <3>2 DEF Credit
  <2>3. ASSUME \E i \in DOMAIN p : Epoch(p[i].slot) < f
        PROVE  Credit(p, validatorStats'.previous, Before(p, f), lambda')
    <3>1. n \in 1 .. n /\ Epoch(q[n].slot) = e
      <4>1. PICK i \in DOMAIN p : Epoch(p[i].slot) < f
        BY <2>3
      <4>2. i # n + 1
        BY <1>4, <1>12, <4>1
      <4>3. n > 0
        BY <1>2, <4>2
      <4>. QED
        BY <1>7, <4>3
    <3>2. Before(p, f) = e
      <4>1. ASSUME NEW m \in DOMAIN p PROVE Epoch(p[m].slot) \in Int
        <5>1. CASE m = n + 1
          <6>1. Epoch(p[m].slot) = f
            BY <1>12, <5>1
          <6>. QED
            BY <1>4, <6>1
        <5>2. CASE m # n + 1
          <6>1. m \in 1 .. n /\ Epoch(p[m].slot) = Epoch(q[m].slot)
            BY <1>2, <1>12, <5>2
          <6>. QED
            BY <1>5, <6>1
        <5>. QED
          BY <5>1, <5>2
      <4>2. IsBefore(p, f, e)
        <5>1. ASSUME NEW m \in DOMAIN p PROVE Epoch(p[m].slot) \in 0 .. e \cup {f}
          <6>1. CASE m = n + 1
            BY <1>12, <6>1
          <6>2. CASE m # n + 1
            BY <1>2, <1>5, <1>12, <6>2
          <6>. QED
            BY <6>1, <6>2
        <5>. QED
          BY <2>1, <5>1 DEF IsBefore
      <4>3. f \in Int /\ n \in DOMAIN p /\ e = Epoch(p[n].slot)
        BY <1>2, <1>4, <1>12, <3>1
      <4>. QED
        BY ONLY <4>1, <4>2, <4>3, BeforeIs
    <3>3. Credit(q, validatorStats.accumulator, e, kappa)
      BY <1>8 DEF Credited
    <3>4. ASSUME NEW v \in Validators
          PROVE  /\ Cardinality(Authored(p, e, v)) = Cardinality(Authored(q, e, v))
                 /\ Cardinality(Signed(p, e, kappa[v])) = Cardinality(Signed(q, e, kappa[v]))
      <4>1. f # e
        BY <1>4, <2>1
      <4>2. Once(f = e /\ block.author = v) = 0 /\ Once(f = e /\ kappa[v] \in block.signers) = 0
        BY <4>1 DEF Once
      <4>3. /\ Cardinality(Authored(p, e, v))
                 = Cardinality(Authored(q, e, v)) + Once(f = e /\ block.author = v)
            /\ Cardinality(Signed(p, e, kappa[v]))
                 = Cardinality(Signed(q, e, kappa[v])) + Once(f = e /\ kappa[v] \in block.signers)
            /\ Cardinality(Authored(q, e, v)) \in Nat /\ Cardinality(Signed(q, e, kappa[v])) \in Nat
        BY ONLY <1>13
      <4>. QED
        BY ONLY <4>2, <4>3
    <3>. QED
      BY <2>1, <3>2, <3>3, <3>4 DEF Credit
  <2>. QED
    BY <2>2, <2>3 DEF Credited
<1>. QED
  BY <1>14, <1>15

-----------------------------------------------------------------------------
LEMMA BalanceBegin == BooksInit => BalanceInv
<1>. SUFFICES ASSUME BooksInit PROVE BalanceInv
  OBVIOUS
<1>1. /\ slot = 0 /\ past = << >> /\ beefyBelt = << >>
      /\ rho = [c \in Cores |-> Empty] /\ authPool = [c \in Cores |-> << >>]
      /\ spent = [c \in Cores |-> << >>] /\ entered = [c \in Cores |-> << >>]
      /\ validatorStats = [accumulator |-> NoCredits, previous |-> NoCredits]
      /\ coreStats = [c \in Cores |-> NoWork] /\ serviceStats = [s \in {} |-> 0]
  BY DEF BooksInit
<1>2. IsSeq(<< >>) /\ Len(<< >>) = 0 /\ DOMAIN << >> = {} /\ << >> \in Seq(Seq(Nat))
  BY DEF IsSeq
<1>3. SlotsInv /\ TipInv
  BY <1>1, <1>2 DEF SlotsInv, TipInv
<1>4. ReportsInv
  BY <1>1 DEF ReportsInv
<1>5. PoolsInv
  <2>1. \A h : Places(<< >>, h) = {}
    BY <1>2 DEF Places
  <2>2. \A h : Count(<< >>, h) = 0
    BY <1>2, <2>1, CountType, FS_EmptySet
  <2>. QED
    BY <1>1, <1>2, <2>2 DEF PoolsInv
<1>6. RangeInv
  <2>1. Reverse(<< >>) \in Seq(Seq(Nat)) /\ Len(Reverse(<< >>)) = 0
    BY ONLY <1>2, 0 \in Nat, ReverseIs
  <2>2. Reverse(<< >>) = << >>
    BY ONLY <2>1, EmptySeq
  <2>3. FlattenSeq(<< >>) = << >>
    BY <1>2 DEF FlattenSeq
  <2>4. << >> = [n \in DOMAIN << >> |-> n]
    BY <1>2
  <2>. QED
    BY <1>1, <1>2, <2>2, <2>3, <2>4 DEF RangeInv, RangeHoldsEveryBlock
<1>7. CoresMatchServices
  <2>. PICK f : f = [c \in Cores |-> coreStats[c].gasUsed]
    OBVIOUS
  <2>. PICK g : g = [s \in DOMAIN serviceStats |-> serviceStats[s].refinementGasUsed]
    OBVIOUS
  <2>1. DOMAIN f = Cores /\ \A c \in Cores : f[c] = 0
    BY <1>1 DEF NoWork
  <2>2. DOMAIN g = {}
    BY <1>1
  <2>3. SumOf(f) = 0
    BY <2>1, CoresAreFinite, SumOfZeros DEF SumOf
  <2>4. SumOf(g) = 0
    BY <2>2, SumOfNone DEF SumOf
  <2>. QED
    BY <2>3, <2>4 DEF CoresMatchServices
<1>8. ValidatorsCredited
  <2>1. \A e, v, key : Authored(<< >>, e, v) = {} /\ Signed(<< >>, e, key) = {}
    BY <1>2 DEF Authored, Signed, InEpoch
  <2>2. Credit(<< >>, NoCredits, Epoch(slot), kappa)
    BY <2>1, FS_EmptySet DEF Credit, NoCredits, NoCredit
  <2>3. validatorStats.accumulator = NoCredits
    BY <1>1
  <2>4. Credited(past, validatorStats, Epoch(slot), kappa, lambda)
    BY <1>1, <1>2, <2>2, <2>3 DEF Credited
  <2>. QED
    BY <2>4, CreditedIs
<1>. QED
  BY <1>3, <1>4, <1>5, <1>6, <1>7, <1>8 DEF BalanceInv

LEMMA BalanceStep == BooksInv /\ BalanceInv /\ [BooksNext]_booksVars => BalanceInv'
<1>. SUFFICES ASSUME BooksInv, BalanceInv, [BooksNext]_booksVars PROVE BalanceInv'
  OBVIOUS
<1>0. SlotsInv'
  BY BooksStep DEF BooksInv
<1>1. CASE UNCHANGED booksVars
  <2>1. /\ UNCHANGED <<slot, kappa, lambda, rho, authPool, beefyBelt, validatorStats, coreStats>>
        /\ UNCHANGED <<serviceStats, past, entered, spent>>
    BY <1>1 DEF booksVars
  <2>2. TipInv' /\ ReportsInv' /\ PoolsInv' /\ RangeInv'
    BY <2>1 DEF BalanceInv, TipInv, ReportsInv, PoolsInv, RangeInv, RangeHoldsEveryBlock
  <2>3. CoresMatchServices'
    BY <2>1 DEF BalanceInv, CoresMatchServices
  <2>4. ValidatorsCredited'
    BY <2>1, CreditedIs DEF BalanceInv
  <2>. QED
    BY <1>0, <2>2, <2>3, <2>4 DEF BalanceInv
<1>2. CASE BooksNext
  <2>1. slot \in Nat /\ IsSeq(past)
    BY DEF BalanceInv, SlotsInv
  <2>2. PICK t, s, assurers, queue, load, eg, block : Written(t, s, assurers, queue, load, eg, block)
    BY <1>2, <2>1, StepWritten, Zenon
  <2>3. TipInv'
    <3>1. slot' = t /\ past' = Append(past, block) /\ block.slot = t
      BY <2>2 DEF Written
    <3>2. /\ Len(past) \in Nat /\ Len(past') = Len(past) + 1 /\ past'[Len(past) + 1] = block
      BY <2>1, <3>1, PastWritten
    <3>. QED
      BY <3>1, <3>2 DEF TipInv
  <2>4. ReportsInv'
    BY <2>2, ReportsStep DEF BalanceInv
  <2>5. PoolsInv'
    BY <2>2, PoolsStep DEF BalanceInv
  <2>6. RangeInv'
    BY <2>1, <2>2, RangeStep DEF BalanceInv
  <2>7. CoresMatchServices'
    BY <2>2, MatchStep DEF BalanceInv
  <2>8. ValidatorsCredited'
    BY <2>2, CreditStep DEF BalanceInv
  <2>. QED
    BY <1>0, <2>3, <2>4, <2>5, <2>6, <2>7, <2>8 DEF BalanceInv
<1>. QED
  BY <1>1, <1>2

LEMMA BalanceServes == BalanceInv => BooksBalance
<1>. SUFFICES ASSUME BalanceInv PROVE BooksBalance
  OBVIOUS
<1>1. AuthorizationsSpentOnce
  BY DEF BalanceInv, PoolsInv, AuthorizationsSpentOnce
<1>. QED
  BY <1>1 DEF BalanceInv, RangeInv, BooksBalance

(* The books agree with what the blocks contained, and with each other:    *)
(* every validator is credited with what the blocks of this epoch, and of  *)
(* the last one before it that had a block, say it did; the gas counted by *)
(* core is the gas counted by service; no authorization is used more often *)
(* than it came into the pool, however often the pool overflows; and the   *)
(* trees of the range hold every block once and in order, for any number   *)
(* of blocks (validator-statistics-impl.ts:46-115, core- and services-     *)
(* statistics, authorizer-pool-impl.ts:58-90, mmr.ts:11-46).               *)
THEOREM BooksAlwaysBalance == Books => []BooksBalance
<1>1. BooksInit => BooksInv /\ BalanceInv
  BY BooksBegin, BalanceBegin
<1>2. BooksInv /\ BalanceInv /\ [BooksNext]_booksVars => (BooksInv /\ BalanceInv)'
  BY BooksStep, BalanceStep
<1>3. BooksInv /\ BalanceInv => BooksBalance
  BY BalanceServes
<1>. QED
  BY <1>1, <1>2, <1>3, PTL DEF Books
=============================================================================
