------------------------ MODULE ReportPipelineProofs ------------------------
(***************************************************************************)
(* What module ReportPipeline says of the pipeline, for every number of    *)
(* cores, every set of reports and every length of the epoch that the      *)
(* recent history and the timeout fit in (HistoryIsLongEnough).            *)
(*                                                                         *)
(* The argument is one inductive invariant, PipelineInv.  Its heart is     *)
(* that a queued item waits for exactly the packages that it needs and     *)
(* that are not accumulated.  When a report enters the queue the code      *)
(* takes away only what is in the history of the last epoch; that this is  *)
(* everything follows from what a needed package went through: it was in   *)
(* the recent history, or in the same block, when the report was           *)
(* guaranteed (RecentHistoric), the report times out on its core after U   *)
(* slots (CoresInv), and until then the package stays in the history, for  *)
(* the recent blocks and the timeout fit in an epoch (NeedsHistoric).      *)
(*                                                                         *)
(* Lemmas first say what the operators of the queue return: they are       *)
(* recursive functions, and induction over their arguments comes down to   *)
(* LeastElement.                                                           *)
(***************************************************************************)
EXTENDS ReportPipeline, FiniteSetTheorems, WellFoundedInduction, TLAPS

-----------------------------------------------------------------------------
(* Induction without a predicate: a nonempty set of numbers has a least    *)
(* element, since the intervals up to its members are finite sets and      *)
(* strict inclusion of these is well founded.                              *)
LEMMA LeastElement ==
  ASSUME NEW S \in SUBSET Nat, S # {}
  PROVE  \E m \in S : \A n \in S : m <= n
<1>. DEFINE T == {0 .. n : n \in S}
<1>1. T \subseteq FiniteSubsetsOf(Nat)
  <2>1. ASSUME NEW n \in S PROVE 0 .. n \in SUBSET Nat /\ IsFiniteSet(0 .. n)
    BY FS_Interval
  <2>. QED
    BY <2>1 DEF FiniteSubsetsOf
<1>2. T # {}
  OBVIOUS
<1>3. \E x \in T : \A y \in T : <<y, x>> \notin StrictSubsetOrdering(Nat)
  <2>. HIDE DEF T
  <2>. QED
    BY <1>1, <1>2, FS_StrictSubsetOrderingWellFounded, WFMin
<1>4. PICK m \in S : \A y \in T : <<y, 0 .. m>> \notin StrictSubsetOrdering(Nat)
  BY <1>3
<1>5. ASSUME NEW n \in S, n < m PROVE FALSE
  <2>1. <<0 .. n, 0 .. m>> \notin StrictSubsetOrdering(Nat)
    BY <1>4
  <2>2. 0 .. n \in SUBSET Nat /\ 0 .. m \in SUBSET Nat /\ 0 .. n \subseteq 0 .. m
    BY <1>5
  <2>3. m \in 0 .. m /\ m \notin 0 .. n
    BY <1>5
  <2>. QED
    BY <2>1, <2>2, <2>3 DEF StrictSubsetOrdering
<1>. QED
  BY <1>5

(* Induction, on the members of a set up to a bound.                       *)
LEMMA Induction ==
  ASSUME NEW N \in Nat, NEW S, 0 \in S,
         \A n \in 0 .. N - 1 : n \in S => n + 1 \in S
  PROVE  \A n \in 0 .. N : n \in S
<1>. DEFINE Bad == {n \in 0 .. N : n \notin S}
<1>. SUFFICES ASSUME Bad # {} PROVE FALSE
  OBVIOUS
<1>1. PICK m \in Bad : \A n \in Bad : m <= n
  <2>. Bad \in SUBSET Nat
    OBVIOUS
  <2>. HIDE DEF Bad
  <2>. QED
    BY LeastElement
<1>2. m # 0 /\ m - 1 \in 0 .. N - 1 /\ (m - 1) + 1 = m
  BY <1>1
<1>3. m - 1 \in S
  BY <1>1, <1>2
<1>. QED
  BY <1>1, <1>2, <1>3

(* A function on 0 .. N may be defined from its value at 0 and by steps.   *)
Recursion(g, N, V, c, step) ==
  /\ g \in [0 .. N -> V]
  /\ g[0] = c
  /\ \A n \in 1 .. N : g[n] = step[<<g[n - 1], n>>]

(* Steps define a function, by induction on how far it is defined.         *)
LEMMA RecursionExists ==
  ASSUME NEW N \in Nat, NEW V, NEW c \in V, NEW step \in [V \X (1 .. N) -> V]
  PROVE  \E g : Recursion(g, N, V, c, step)
<1>. DEFINE Good(g, n) == g[0] = c /\ \A k \in 1 .. n : g[k] = step[<<g[k - 1], k>>]
            S == {n \in 0 .. N : \E g \in [0 .. N -> V] : Good(g, n)}
<1>1. 0 \in S
  <2>. DEFINE g0 == [n \in 0 .. N |-> c]
  <2>1. g0 \in [0 .. N -> V] /\ Good(g0, 0)
    OBVIOUS
  <2>2. \E g \in [0 .. N -> V] : Good(g, 0)
    <3>. HIDE DEF g0, Good
    <3>. QED
      BY <2>1
  <2>. HIDE DEF Good
  <2>. QED
    BY <2>2
<1>2. ASSUME NEW n \in 0 .. N - 1, n \in S PROVE n + 1 \in S
  <2>1. PICK g \in [0 .. N -> V] : Good(g, n)
    BY <1>2
  <2>. DEFINE h == [g EXCEPT ![n + 1] = step[<<g[n], n + 1>>]]
  <2>2. n \in 0 .. N /\ n + 1 \in 1 .. N /\ (n + 1) - 1 = n
    OBVIOUS
  <2>3. step[<<g[n], n + 1>>] \in V
    BY <2>2
  <2>4. h \in [0 .. N -> V]
    BY <2>3
  <2>5. h[n + 1] = step[<<h[n], n + 1>>] /\ h[0] = g[0]
    BY <2>2
  <2>6. ASSUME NEW k \in 1 .. n PROVE h[k] = step[<<h[k - 1], k>>]
    <3>1. k \in 0 .. N /\ k - 1 \in 0 .. N /\ k # n + 1 /\ k - 1 # n + 1
      BY <2>2
    <3>2. h[k] = g[k] /\ h[k - 1] = g[k - 1]
      BY <3>1
    <3>. QED
      BY <2>1, <3>2
  <2>7. Good(h, n + 1)
    <3>. HIDE DEF h
    <3>. QED
      BY <2>1, <2>2, <2>5, <2>6
  <2>8. \E f \in [0 .. N -> V] : Good(f, n + 1)
    <3>. HIDE DEF h, Good
    <3>. QED
      BY <2>4, <2>7
  <2>. HIDE DEF Good
  <2>. QED
    BY <2>8, <2>2
<1>3. \A n \in 0 .. N : n \in S
  <2>. HIDE DEF S
  <2>. QED
    BY <1>1, <1>2, Induction
<1>4. PICK g \in [0 .. N -> V] : Good(g, N)
  <2>. N \in S
    <3>. HIDE DEF S
    <3>. QED
      BY <1>3
  <2>. HIDE DEF Good
  <2>. QED
    OBVIOUS
<1>. QED
  BY <1>4 DEF Recursion

-----------------------------------------------------------------------------
(* The operator Select, and what it keeps of a sequence.                   *)

(* Select is the last value of its recursion.                              *)
Selecting(g, seq, I, T) ==
  /\ g \in [0 .. Len(seq) -> Seq(T)]
  /\ g[0] = <<>>
  /\ \A i \in 1 .. Len(seq) :
       g[i] = IF i \in I THEN Append(g[i - 1], seq[i]) ELSE g[i - 1]
  /\ Select(seq, I) = g[Len(seq)]

(* The recursive function in Select exists, and takes its steps.           *)
LEMMA SelectUnfolds ==
  ASSUME NEW T, NEW seq \in Seq(T), NEW I
  PROVE  \E g : Selecting(g, seq, I, T)
<1>. DEFINE N == Len(seq)
            Body(f) == [i \in 0 .. N |->
                          IF i = 0 THEN <<>>
                          ELSE IF i \in I THEN Append(f[i - 1], seq[i]) ELSE f[i - 1]]
            upTo == CHOOSE f : f = Body(f)
            step == [x \in Seq(T) \X (1 .. N) |->
                       IF x[2] \in I THEN Append(x[1], seq[x[2]]) ELSE x[1]]
<1>1. N \in Nat /\ \A i \in 1 .. N : seq[i] \in T
  OBVIOUS
<1>2. step \in [Seq(T) \X (1 .. N) -> Seq(T)]
  BY <1>1
<1>3. \A s \in Seq(T), i \in 1 .. N :
        step[<<s, i>>] = IF i \in I THEN Append(s, seq[i]) ELSE s
  OBVIOUS
<1>4. PICK h \in [0 .. N -> Seq(T)] :
        h[0] = <<>> /\ \A i \in 1 .. N : h[i] = step[<<h[i - 1], i>>]
  <2>. DEFINE V == Seq(T)
              empty == <<>>
  <2>1. empty \in V
    OBVIOUS
  <2>2. step \in [V \X (1 .. N) -> V]
    BY <1>2
  <2>. HIDE DEF step, N, V, empty
  <2>3. \E h : Recursion(h, N, V, empty, step)
    BY <1>1, <2>1, <2>2, RecursionExists
  <2>. QED
    BY <2>3 DEF V, empty, Recursion
<1>5. \A i \in 1 .. N : h[i - 1] \in Seq(T) /\ h[i] = step[<<h[i - 1], i>>]
  <2>1. \A i \in 1 .. N : i - 1 \in 0 .. N
    BY <1>1
  <2>. HIDE DEF step, N
  <2>. QED
    BY <1>4, <2>1
<1>6. \A i \in 1 .. N : h[i] = IF i \in I THEN Append(h[i - 1], seq[i]) ELSE h[i - 1]
  <2>. HIDE DEF step, N
  <2>. QED
    BY <1>5, <1>3
<1>7. h = Body(h)
  <2>. HIDE DEF step
  <2>1. \A i \in 0 .. N : i # 0 => i \in 1 .. N
    BY <1>1
  <2>. HIDE DEF N
  <2>2. \A i \in 0 .. N : h[i] = Body(h)[i]
    BY <1>4, <1>6, <2>1, Zenon
  <2>. QED
    BY <1>4, <2>2
<1>8. upTo = Body(upTo)
  <2>1. \E f : f = Body(f)
    <3>. HIDE DEF Body
    <3>. QED
      BY <1>7
  <2>. HIDE DEF Body
  <2>. QED
    BY <2>1
<1>9. /\ upTo[0] = <<>>
      /\ \A i \in 1 .. N : upTo[i] = IF i \in I THEN Append(upTo[i - 1], seq[i]) ELSE upTo[i - 1]
  <2>1. \A f : f = Body(f) => /\ f[0] = <<>>
                              /\ \A i \in 1 .. N : f[i] = IF i \in I THEN Append(f[i - 1], seq[i]) ELSE f[i - 1]
    <3>1. 0 \in 0 .. N /\ \A i \in 1 .. N : i \in 0 .. N /\ i # 0
      BY <1>1
    <3>2. ASSUME NEW f, f = Body(f)
          PROVE  \A i \in 0 .. N : f[i] = Body(f)[i]
      <4>. HIDE DEF Body
      <4>. QED
        BY <3>2
    <3>3. ASSUME NEW f
          PROVE  \A i \in 0 .. N : Body(f)[i] = IF i = 0 THEN <<>>
                          ELSE IF i \in I THEN Append(f[i - 1], seq[i]) ELSE f[i - 1]
      OBVIOUS
    <3>. HIDE DEF Body, N
    <3>. QED
      BY <3>1, <3>2, <3>3
  <2>. HIDE DEF upTo, Body
  <2>. QED
    BY <2>1, <1>8
<1>10. upTo = [i \in 0 .. N |-> upTo[i]]
  <2>1. \A f : f = Body(f) => f = [i \in 0 .. N |-> f[i]]
    OBVIOUS
  <2>. HIDE DEF upTo, Body
  <2>. QED
    BY <2>1, <1>8
<1>11. Select(seq, I) = upTo[N]
  BY DEF Select
<1>12. \A i \in 0 .. N : i \in {j \in 0 .. N : upTo[j] = h[j]}
  <2>. DEFINE S == {j \in 0 .. N : upTo[j] = h[j]}
  <2>. HIDE DEF upTo
  <2>1. 0 \in S
    BY <1>9, <1>4, <1>1
  <2>2. ASSUME NEW i \in 0 .. N - 1, i \in S PROVE i + 1 \in S
    <3>1. i + 1 \in 1 .. N /\ (i + 1) - 1 = i /\ i + 1 \in 0 .. N
      BY <1>1
    <3>2. upTo[i] = h[i]
      BY <2>2
    <3>3. upTo[i + 1] = h[i + 1]
      <4>. HIDE DEF S, step, N
      <4>1. upTo[i + 1] = IF i + 1 \in I THEN Append(upTo[i], seq[i + 1]) ELSE upTo[i]
        BY <3>1, <1>9
      <4>2. h[i + 1] = IF i + 1 \in I THEN Append(h[i], seq[i + 1]) ELSE h[i]
        BY <3>1, <1>6
      <4>. QED
        BY <4>1, <4>2, <3>2
    <3>. QED
      BY <3>1, <3>3
  <2>. HIDE DEF S
  <2>3. \A i \in 0 .. N : i \in S
    <3>. HIDE DEF N
    <3>. QED
      BY <1>1, <2>1, <2>2, Induction
  <2>. QED
    BY <2>3 DEF S
<1>13. Select(seq, I) = h[N]
  <2>. HIDE DEF upTo
  <2>1. N \in 0 .. N
    BY <1>1
  <2>. QED
    BY <2>1, <1>11, <1>12
<1>. HIDE DEF step
<1>. QED
  BY <1>4, <1>6, <1>13 DEF Selecting

(* A subsequence: every element comes from a position of its own.          *)
SubsequenceOf(sub, seq, from) ==
  /\ from \in [1 .. Len(sub) -> 1 .. Len(seq)]
  /\ \A k \in 1 .. Len(sub) : sub[k] = seq[from[k]]
  /\ \A j, k \in 1 .. Len(sub) : from[j] = from[k] => j = k

(* Select keeps exactly the elements at the positions.                     *)
LEMMA SelectKeeps ==
  ASSUME NEW T, NEW seq \in Seq(T), NEW I
  PROVE  /\ Select(seq, I) \in Seq(T)
         /\ Len(Select(seq, I)) <= Len(seq)
         /\ \E from : /\ SubsequenceOf(Select(seq, I), seq, from)
                      /\ \A k \in 1 .. Len(Select(seq, I)) : from[k] \in I
                      /\ \A i \in I \cap (1 .. Len(seq)) :
                           \E k \in 1 .. Len(Select(seq, I)) : from[k] = i
<1>. DEFINE N == Len(seq)
            Kept(s, n, from) ==
              /\ from \in [1 .. Len(s) -> 1 .. n]
              /\ \A k \in 1 .. Len(s) : s[k] = seq[from[k]] /\ from[k] \in I
              /\ \A j, k \in 1 .. Len(s) : from[j] = from[k] => j = k
              /\ \A i \in I \cap (1 .. n) : \E k \in 1 .. Len(s) : from[k] = i
<1>1. N \in Nat /\ \A i \in 1 .. N : seq[i] \in T
  OBVIOUS
<1>2. PICK g \in [0 .. N -> Seq(T)] :
        /\ g[0] = <<>>
        /\ \A i \in 1 .. N : g[i] = IF i \in I THEN Append(g[i - 1], seq[i]) ELSE g[i - 1]
        /\ Select(seq, I) = g[N]
  <2>. PICK g : Selecting(g, seq, I, T)
    BY SelectUnfolds
  <2>. QED
    BY DEF Selecting
<1>. DEFINE S == {n \in 0 .. N : Len(g[n]) <= n /\ \E from : Kept(g[n], n, from)}
<1>3. 0 \in S
  <2>1. Len(g[0]) = 0
    BY <1>2
  <2>2. \E from : Kept(g[0], 0, from)
    <3>1. Kept(g[0], 0, [k \in 1 .. 0 |-> k])
      BY <2>1
    <3>. HIDE DEF Kept
    <3>. QED
      BY <3>1
  <2>. HIDE DEF Kept
  <2>. QED
    BY <2>1, <2>2, <1>1
<1>4. ASSUME NEW n \in 0 .. N - 1, n \in S PROVE n + 1 \in S
  <2>1. n + 1 \in 1 .. N /\ (n + 1) - 1 = n /\ n \in 0 .. N /\ n \in Nat /\ n + 1 \in 0 .. N
    BY <1>1
  <2>2. Len(g[n]) <= n /\ \E from : Kept(g[n], n, from)
    <3>. HIDE DEF Kept
    <3>. QED
      BY <1>4
  <2>3. PICK from : Kept(g[n], n, from)
    <3>. HIDE DEF Kept
    <3>. QED
      BY <2>2
  <2>4. g[n] \in Seq(T) /\ Len(g[n]) \in Nat /\ seq[n + 1] \in T
    BY <1>1, <1>2, <2>1
  <2>5. g[n + 1] = IF n + 1 \in I THEN Append(g[n], seq[n + 1]) ELSE g[n]
    BY <1>2, <2>1
  <2>6. CASE n + 1 \notin I
    <3>1. Kept(g[n + 1], n + 1, from)
      <4>1. g[n + 1] = g[n]
        BY <2>5, <2>6
      <4>2. from \in [1 .. Len(g[n]) -> 1 .. n + 1]
        BY <2>3, <2>1
      <4>3. \A i \in I \cap (1 .. n + 1) : i \in I \cap (1 .. n)
        BY <2>1, <2>6
      <4>. QED
        BY <2>3, <4>1, <4>2, <4>3
    <3>2. Len(g[n + 1]) <= n + 1
      BY <2>1, <2>2, <2>4, <2>5, <2>6
    <3>. HIDE DEF Kept
    <3>. QED
      BY <3>1, <3>2, <2>1
  <2>7. CASE n + 1 \in I
    <3>. DEFINE l == Len(g[n])
                more == [k \in 1 .. l + 1 |-> IF k = l + 1 THEN n + 1 ELSE from[k]]
    <3>1. /\ Len(g[n + 1]) = l + 1 /\ g[n + 1][l + 1] = seq[n + 1]
          /\ \A k \in 1 .. l : g[n + 1][k] = g[n][k]
      BY <2>4, <2>5, <2>7
    <3>2. \A k \in 1 .. l + 1 : k = l + 1 \/ (k \in 1 .. l /\ k # l + 1)
      <4>. l \in Nat
        BY <2>4
      <4>. HIDE DEF l
      <4>. QED
        OBVIOUS
    <3>3. more[l + 1] = n + 1 /\ \A k \in 1 .. l : more[k] = from[k] /\ from[k] \in 1 .. n
      BY <2>3, <2>4
    <3>4. more \in [1 .. l + 1 -> 1 .. n + 1]
      BY <2>3, <2>4, <2>1
    <3>5. \A k \in 1 .. l : from[k] # n + 1
      <4>. HIDE DEF more, l
      <4>1. \A i \in 1 .. n : i # n + 1
        BY <2>1
      <4>. QED
        BY <3>3, <4>1
    <3>. HIDE DEF more, l
    <3>6. \A k \in 1 .. l + 1 : g[n + 1][k] = seq[more[k]] /\ more[k] \in I
      BY <3>1, <3>2, <3>3, <2>3, <2>7 DEF l
    <3>7. \A j, k \in 1 .. l + 1 : more[j] = more[k] => j = k
      <4>1. \A j, k \in 1 .. l : from[j] = from[k] => j = k
        BY <2>3 DEF l
      <4>. QED
        BY <3>2, <3>3, <3>5, <4>1
    <3>8. \A i \in I \cap (1 .. n + 1) : \E k \in 1 .. l + 1 : more[k] = i
      <4>1. l + 1 \in 1 .. l + 1 /\ \A k \in 1 .. l : k \in 1 .. l + 1
        BY <2>4 DEF l
      <4>2. \A i \in 1 .. n + 1 : i = n + 1 \/ i \in 1 .. n
        BY <2>1
      <4>3. \A i \in I \cap (1 .. n) : \E k \in 1 .. l : from[k] = i
        BY <2>3 DEF l
      <4>. QED
        BY <3>3, <4>1, <4>2, <4>3
    <3>9. Kept(g[n + 1], n + 1, more)
      BY <3>1, <3>4, <3>6, <3>7, <3>8
    <3>10. Len(g[n + 1]) <= n + 1
      BY <2>1, <2>2, <2>4, <3>1 DEF l
    <3>. HIDE DEF Kept
    <3>. QED
      BY <3>9, <3>10, <2>1
  <2>. QED
    BY <2>6, <2>7
<1>5. \A n \in 0 .. N : n \in S
  <2>. HIDE DEF S, N
  <2>. QED
    BY <1>1, <1>3, <1>4, Induction
<1>6. Len(g[N]) <= N /\ \E from : Kept(g[N], N, from)
  <2>. N \in S
    BY <1>1, <1>5
  <2>. HIDE DEF Kept
  <2>. QED
    OBVIOUS
<1>7. g[N] \in Seq(T)
  BY <1>1, <1>2
<1>8. ASSUME NEW from, Kept(g[N], N, from)
      PROVE  /\ SubsequenceOf(g[N], seq, from)
             /\ \A k \in 1 .. Len(g[N]) : from[k] \in I
             /\ \A i \in I \cap (1 .. N) : \E k \in 1 .. Len(g[N]) : from[k] = i
  BY <1>8 DEF SubsequenceOf
<1>. HIDE DEF Kept
<1>. QED
  BY <1>2, <1>6, <1>7, <1>8

-----------------------------------------------------------------------------
(* EditQueue, and sequences in the order in which packages may be          *)
(* accumulated: InOrder(seq, source, past) says that every report of seq is*)
(* of source, that no package comes twice or is in past, and that each finds*)
(* what it needs in past or before itself.                                 *)

PackageAt(items, k) == PackageOf[items[k].report]

(* Items edited: those of other packages, with the needs that are left.    *)
EditedFrom(edited, items, done, from) ==
  /\ from \in [1 .. Len(edited) -> 1 .. Len(items)]
  /\ \A k \in 1 .. Len(edited) :
       /\ edited[k].report = items[from[k]].report
       /\ edited[k].needs = items[from[k]].needs \ done
       /\ PackageAt(items, from[k]) \notin done
  /\ \A j, k \in 1 .. Len(edited) : from[j] = from[k] => j = k
  /\ \A i \in 1 .. Len(items) :
       PackageAt(items, i) \notin done => \E k \in 1 .. Len(edited) : from[k] = i

(* EditQueue drops the items of done packages and the needs they were.     *)
LEMMA EditLeaves ==
  ASSUME NEW items \in Seq(Items), NEW done
  PROVE  /\ Edit(items, done) \in Seq(Items)
         /\ \E from : EditedFrom(Edit(items, done), items, done, from)
<1>. DEFINE I == {k \in DOMAIN items : PackageOf[items[k].report] \notin done}
            kept == Select(items, I)
            N == Len(items)
            L == Len(kept)
<1>1. N \in Nat /\ DOMAIN items = 1 .. N /\ \A i \in 1 .. N : items[i] \in Items
  OBVIOUS
<1>2. /\ kept \in Seq(Items)
      /\ \E from : /\ SubsequenceOf(kept, items, from)
                   /\ \A k \in 1 .. L : from[k] \in I
                   /\ \A i \in I \cap (1 .. N) : \E k \in 1 .. L : from[k] = i
  <2>. HIDE DEF I
  <2>. QED
    BY SelectKeeps
<1>3. PICK from : /\ SubsequenceOf(kept, items, from)
                  /\ \A k \in 1 .. L : from[k] \in I
                  /\ \A i \in I \cap (1 .. N) : \E k \in 1 .. L : from[k] = i
  <2>. HIDE DEF I, kept, L, N
  <2>. QED
    BY <1>2
<1>4. Edit(items, done) = [k \in DOMAIN kept |-> [kept[k] EXCEPT !.needs = @ \ done]]
  BY DEF Edit
<1>5. \A i \in I : i \in 1 .. N /\ PackageAt(items, i) \notin done
  BY <1>1 DEF PackageAt
<1>6. \A i \in 1 .. N : PackageAt(items, i) \notin done => i \in I
  BY <1>1 DEF PackageAt
<1>. HIDE DEF I, kept
<1>7. L \in Nat /\ DOMAIN kept = 1 .. L /\ \A k \in 1 .. L : kept[k] \in Items
  BY <1>2
<1>8. \A k \in 1 .. L : /\ [kept[k] EXCEPT !.needs = @ \ done] \in Items
                        /\ [kept[k] EXCEPT !.needs = @ \ done].report = kept[k].report
                        /\ [kept[k] EXCEPT !.needs = @ \ done].needs = kept[k].needs \ done
  BY <1>7 DEF Items
<1>9. /\ Edit(items, done) \in Seq(Items) /\ Len(Edit(items, done)) = L
      /\ \A k \in 1 .. L : /\ Edit(items, done)[k].report = kept[k].report
                           /\ Edit(items, done)[k].needs = kept[k].needs \ done
  <2>. DEFINE e == [k \in 1 .. L |-> [kept[k] EXCEPT !.needs = @ \ done]]
  <2>1. e \in [1 .. L -> Items]
    BY <1>8
  <2>2. e \in Seq(Items) /\ Len(e) = L
    <3>. HIDE DEF e, L
    <3>. QED
      BY <2>1, <1>7
  <2>3. \A k \in 1 .. L : e[k] = [kept[k] EXCEPT !.needs = @ \ done]
    OBVIOUS
  <2>4. Edit(items, done) = e
    BY <1>4, <1>7
  <2>. HIDE DEF e, L
  <2>. QED
    BY <1>8, <2>2, <2>3, <2>4
<1>. HIDE DEF L
<1>10. EditedFrom(Edit(items, done), items, done, from)
  <2>1. /\ from \in [1 .. L -> 1 .. N]
        /\ \A k \in 1 .. L : kept[k] = items[from[k]]
        /\ \A j, k \in 1 .. L : from[j] = from[k] => j = k
    BY <1>3 DEF SubsequenceOf, L
  <2>2. \A i \in 1 .. N : PackageAt(items, i) \notin done => \E k \in 1 .. L : from[k] = i
    BY <1>3, <1>6
  <2>3. \A k \in 1 .. L : PackageAt(items, from[k]) \notin done
    BY <1>3, <1>5
  <2>. QED
    BY <1>9, <2>1, <2>2, <2>3 DEF EditedFrom
<1>. QED
  BY <1>9, <1>10

(* Items of packages of their own, of reports from a set, that wait for    *)
(* whatever they need beyond the past.                                     *)
Waits(items, source, past) ==
  /\ items \in Seq(Items)
  /\ \A j, k \in 1 .. Len(items) : PackageAt(items, j) = PackageAt(items, k) => j = k
  /\ \A k \in 1 .. Len(items) :
       /\ items[k].report \in source
       /\ PackageAt(items, k) \notin past
       /\ Needs[PackageAt(items, k)] \subseteq items[k].needs \cup past

(* Items that wait for what is not past still do when more is done.        *)
LEMMA EditWaits ==
  ASSUME NEW items, NEW source, NEW past, NEW done, Waits(items, source, past)
  PROVE  Waits(Edit(items, done), source, past \cup done)
<1>. DEFINE e == Edit(items, done)
<1>1. items \in Seq(Items)
  BY DEF Waits
<1>2. e \in Seq(Items)
  BY <1>1, EditLeaves
<1>3. PICK from : EditedFrom(e, items, done, from)
  BY <1>1, EditLeaves
<1>4. \A k \in 1 .. Len(e) : PackageAt(e, k) = PackageAt(items, from[k]) /\ from[k] \in 1 .. Len(items)
  BY <1>3 DEF EditedFrom, PackageAt
<1>5. \A j, k \in 1 .. Len(e) : PackageAt(e, j) = PackageAt(e, k) => j = k
  BY <1>3, <1>4 DEF EditedFrom, Waits
<1>6. ASSUME NEW k \in 1 .. Len(e)
      PROVE  /\ e[k].report \in source
             /\ PackageAt(e, k) \notin past \cup done
             /\ Needs[PackageAt(e, k)] \subseteq e[k].needs \cup (past \cup done)
  BY <1>3, <1>4 DEF EditedFrom, Waits
<1>. QED
  BY <1>2, <1>5, <1>6 DEF Waits

(* Reports of packages of their own, each after the packages it needs.     *)
InOrder(seq, source, past) ==
  /\ seq \in Seq(Reports)
  /\ \A j, k \in 1 .. Len(seq) : PackageOf[seq[j]] = PackageOf[seq[k]] => j = k
  /\ \A k \in 1 .. Len(seq) :
       /\ seq[k] \in source
       /\ PackageOf[seq[k]] \notin past
       /\ Needs[PackageOf[seq[k]]] \subseteq past \cup {PackageOf[seq[j]] : j \in 1 .. k - 1}

(* The packages of a sequence after another are those of both.             *)
LEMMA PackagesOfConcatenation ==
  ASSUME NEW s \in Seq(Reports), NEW t \in Seq(Reports)
  PROVE  PackagesIn(s \o t) = PackagesIn(s) \cup PackagesIn(t)
<1>1. /\ Len(s) \in Nat /\ Len(t) \in Nat /\ DOMAIN s = 1 .. Len(s) /\ DOMAIN t = 1 .. Len(t)
      /\ s \o t \in Seq(Reports) /\ Len(s \o t) = Len(s) + Len(t)
      /\ DOMAIN (s \o t) = 1 .. Len(s) + Len(t)
  OBVIOUS
<1>2. /\ \A k \in 1 .. Len(s) : (s \o t)[k] = s[k] /\ k \in 1 .. Len(s) + Len(t)
      /\ \A k \in 1 .. Len(t) : (s \o t)[Len(s) + k] = t[k] /\ Len(s) + k \in 1 .. Len(s) + Len(t)
  OBVIOUS
<1>3. \A k \in 1 .. Len(s) + Len(t) :
        \/ k \in 1 .. Len(s)
        \/ k - Len(s) \in 1 .. Len(t) /\ k = Len(s) + (k - Len(s))
  BY <1>1
<1>. DEFINE m == Len(s)
            n == Len(t)
            u == s \o t
<1>. HIDE DEF m, n, u
<1>4. /\ \A k \in 1 .. m : u[k] = s[k] /\ k \in 1 .. m + n
      /\ \A k \in 1 .. n : u[m + k] = t[k] /\ m + k \in 1 .. m + n
      /\ \A k \in 1 .. m + n : k \in 1 .. m \/ (k - m \in 1 .. n /\ k = m + (k - m))
  BY <1>2, <1>3 DEF m, n, u
<1>5. \A k \in 1 .. m + n : u[k] \in {s[j] : j \in 1 .. m} \cup {t[j] : j \in 1 .. n}
  BY <1>4
<1>6. {PackageOf[u[k]] : k \in 1 .. m + n} = {PackageOf[s[k]] : k \in 1 .. m} \cup {PackageOf[t[k]] : k \in 1 .. n}
  <2>1. ASSUME NEW k \in 1 .. m + n
        PROVE  PackageOf[u[k]] \in {PackageOf[s[j]] : j \in 1 .. m} \cup {PackageOf[t[j]] : j \in 1 .. n}
    BY <1>5
  <2>2. ASSUME NEW k \in 1 .. m PROVE PackageOf[s[k]] \in {PackageOf[u[j]] : j \in 1 .. m + n}
    BY <1>4
  <2>3. ASSUME NEW k \in 1 .. n PROVE PackageOf[t[k]] \in {PackageOf[u[j]] : j \in 1 .. m + n}
    BY <1>4
  <2>. QED
    BY <2>1, <2>2, <2>3
<1>. QED
  BY <1>1, <1>6 DEF PackagesIn, m, n, u

(* What is in order after a sequence may be put behind it.                 *)
LEMMA ConcatenationInOrder ==
  ASSUME NEW s, NEW t, NEW source, NEW past,
         InOrder(s, source, past), InOrder(t, source, past \cup PackagesIn(s))
  PROVE  InOrder(s \o t, source, past)
<1>. DEFINE m == Len(s)
            n == Len(t)
            u == s \o t
            before(seq, k) == {PackageOf[seq[j]] : j \in 1 .. k - 1}
<1>1. s \in Seq(Reports) /\ t \in Seq(Reports)
  BY DEF InOrder
<1>2. /\ m \in Nat /\ n \in Nat /\ DOMAIN s = 1 .. m
      /\ u \in Seq(Reports) /\ Len(u) = m + n
  BY <1>1
<1>3. /\ \A k \in 1 .. m : u[k] = s[k]
      /\ \A k \in 1 .. n : u[m + k] = t[k]
  BY <1>1
<1>4. \A k \in 1 .. m + n : k \in 1 .. m \/ (k - m \in 1 .. n /\ k = m + (k - m))
  <2>. HIDE DEF m, n
  <2>. QED
    BY <1>2
<1>5. PackagesIn(s) = {PackageOf[s[j]] : j \in 1 .. m}
  BY <1>2 DEF PackagesIn
<1>6. /\ \A j, k \in 1 .. m : PackageOf[s[j]] = PackageOf[s[k]] => j = k
      /\ \A k \in 1 .. m : /\ s[k] \in source
                           /\ PackageOf[s[k]] \notin past
                           /\ Needs[PackageOf[s[k]]] \subseteq past \cup before(s, k)
      /\ \A j, k \in 1 .. n : PackageOf[t[j]] = PackageOf[t[k]] => j = k
      /\ \A k \in 1 .. n : /\ t[k] \in source
                           /\ PackageOf[t[k]] \notin past \cup PackagesIn(s)
                           /\ Needs[PackageOf[t[k]]] \subseteq past \cup PackagesIn(s) \cup before(t, k)
  BY DEF InOrder
<1>. HIDE DEF m, n, u
<1>7. ASSUME NEW k \in 1 .. m + n
      PROVE  /\ u[k] \in source
             /\ PackageOf[u[k]] \notin past
             /\ Needs[PackageOf[u[k]]] \subseteq past \cup before(u, k)
  <2>1. CASE k \in 1 .. m
    <3>1. \A j \in 1 .. k - 1 : j \in 1 .. m
      BY <2>1, <1>2
    <3>2. before(s, k) \subseteq before(u, k)
      BY <3>1, <1>3
    <3>. HIDE DEF before
    <3>. QED
      BY <2>1, <3>2, <1>3, <1>6
  <2>2. CASE k - m \in 1 .. n /\ k = m + (k - m)
    <3>1. u[k] = t[k - m]
      BY <2>2, <1>3
    <3>2. \A j \in 1 .. m : j \in 1 .. k - 1 /\ u[j] = s[j]
      BY <2>2, <1>2, <1>3
    <3>3. \A j \in 1 .. (k - m) - 1 : m + j \in 1 .. k - 1 /\ u[m + j] = t[j]
      BY <2>2, <1>2, <1>3
    <3>4. PackagesIn(s) \cup before(t, k - m) \subseteq before(u, k)
      BY <3>2, <3>3, <1>5
    <3>. HIDE DEF before
    <3>. QED
      BY <2>2, <3>1, <3>4, <1>6
  <2>. QED
    BY <2>1, <2>2, <1>4
<1>8. ASSUME NEW j \in 1 .. m + n, NEW k \in 1 .. m + n, PackageOf[u[j]] = PackageOf[u[k]]
      PROVE  j = k
  <2>1. \A i \in 1 .. m + n : \/ (i \in 1 .. m /\ u[i] = s[i] /\ PackageOf[u[i]] \in PackagesIn(s))
                              \/ (i - m \in 1 .. n /\ i = m + (i - m) /\ u[i] = t[i - m])
    BY <1>3, <1>4, <1>5
  <2>2. \A i \in 1 .. n : PackageOf[t[i]] \notin PackagesIn(s)
    BY <1>6
  <2>3. CASE j - m = k - m
    BY <2>3, <1>2
  <2>. QED
    BY <2>1, <2>2, <2>3, <1>6, <1>8
<1>. HIDE DEF before
<1>. QED
  BY <1>2, <1>7, <1>8 DEF InOrder, u, m, n, before

(* The reports of items that wait for nothing may come now.                *)
LEMMA NothingToWaitFor ==
  ASSUME NEW items, NEW source, NEW past, Waits(items, source, past),
         \A k \in 1 .. Len(items) : items[k].needs = {}
  PROVE  InOrder([k \in DOMAIN items |-> items[k].report], source, past)
<1>. DEFINE L == Len(items)
            now == [k \in DOMAIN items |-> items[k].report]
<1>1. L \in Nat /\ DOMAIN items = 1 .. L /\ \A k \in 1 .. L : items[k] \in Items
  BY DEF Waits
<1>2. \A k \in 1 .. L : now[k] = items[k].report /\ now[k] \in Reports
  BY <1>1 DEF Items
<1>3. now \in Seq(Reports) /\ Len(now) = L
  <2>1. now = [k \in 1 .. L |-> now[k]]
    BY <1>1
  <2>. HIDE DEF now, L
  <2>. QED
    BY <1>1, <1>2, <2>1
<1>4. \A k \in 1 .. L : PackageOf[now[k]] = PackageAt(items, k)
  BY <1>2 DEF PackageAt
<1>. HIDE DEF now
<1>5. \A j, k \in 1 .. L : PackageOf[now[j]] = PackageOf[now[k]] => j = k
  BY <1>4 DEF Waits
<1>6. ASSUME NEW k \in 1 .. L
      PROVE  /\ now[k] \in source
             /\ PackageOf[now[k]] \notin past
             /\ Needs[PackageOf[now[k]]] \subseteq past
  BY <1>2, <1>4 DEF Waits
<1>. QED
  BY <1>3, <1>5, <1>6 DEF InOrder, now

(* What is selected is at one of the positions.                            *)
LEMMA SelectAmong ==
  ASSUME NEW T, NEW seq \in Seq(T), NEW I, NEW k \in 1 .. Len(Select(seq, I))
  PROVE  \E i \in I \cap (1 .. Len(seq)) : Select(seq, I)[k] = seq[i]
<1>. DEFINE s == Select(seq, I)
<1>1. PICK from : SubsequenceOf(s, seq, from) /\ \A j \in 1 .. Len(s) : from[j] \in I
  BY SelectKeeps
<1>. HIDE DEF s
<1>2. k \in 1 .. Len(s)
  BY DEF s
<1>3. from[k] \in I \cap (1 .. Len(seq)) /\ s[k] = seq[from[k]]
  BY <1>1, <1>2 DEF SubsequenceOf
<1>. QED
  BY <1>3 DEF s

(* What is at some positions of waiting items waits.                       *)
LEMMA SelectWaits ==
  ASSUME NEW items, NEW source, NEW past, NEW I, Waits(items, source, past)
  PROVE  Waits(Select(items, I), source, past)
<1>. DEFINE s == Select(items, I)
<1>1. items \in Seq(Items)
  BY DEF Waits
<1>2. s \in Seq(Items)
  BY <1>1, SelectKeeps
<1>3. PICK from : SubsequenceOf(s, items, from)
  BY <1>1, SelectKeeps
<1>. HIDE DEF s
<1>4. \A k \in 1 .. Len(s) : s[k] = items[from[k]] /\ from[k] \in 1 .. Len(items)
                             /\ PackageAt(s, k) = PackageAt(items, from[k])
  BY <1>3 DEF SubsequenceOf, PackageAt
<1>5. \A j, k \in 1 .. Len(s) : PackageAt(s, j) = PackageAt(s, k) => j = k
  BY <1>3, <1>4 DEF SubsequenceOf, Waits
<1>6. \A k \in 1 .. Len(s) :
        /\ s[k].report \in source
        /\ PackageAt(s, k) \notin past
        /\ Needs[PackageAt(s, k)] \subseteq s[k].needs \cup past
  BY <1>4 DEF Waits
<1>7. Waits(s, source, past)
  BY <1>2, <1>5, <1>6 DEF Waits
<1>. QED
  BY <1>7 DEF s

-----------------------------------------------------------------------------
(* The priority queue: every round takes what waits for nothing.           *)

Rounds == [todo : Seq(Items), done : Seq(Reports)]

(* What a round leaves: done in order, the others waiting for the rest.    *)
RoundInv(r, source, past) ==
  /\ r \in Rounds
  /\ InOrder(r.done, source, past)
  /\ Waits(r.todo, source, past \cup PackagesIn(r.done))

(* A round accumulates what waits for nothing, and edits the rest.         *)
LEMMA RoundStep ==
  ASSUME NEW r, NEW source, NEW past, RoundInv(r, source, past)
  PROVE  RoundInv(NextRound(r), source, past)
<1>. DEFINE I == {k \in DOMAIN r.todo : r.todo[k].needs = {}}
            free == Select(r.todo, I)
            now == [k \in DOMAIN free |-> free[k].report]
            here == past \cup PackagesIn(r.done)
            later == Edit(r.todo, PackagesIn(now))
            all == r.done \o now
<1>1. NextRound(r) = [todo |-> later, done |-> all]
  BY DEF NextRound
<1>2. Waits(r.todo, source, here) /\ InOrder(r.done, source, past)
  BY DEF RoundInv
<1>3. Waits(free, source, here)
  <2>. HIDE DEF I, here
  <2>. QED
    BY <1>2, SelectWaits
<1>4. ASSUME NEW k \in 1 .. Len(free) PROVE free[k].needs = {}
  <2>1. \A i \in I : r.todo[i].needs = {}
    OBVIOUS
  <2>2. r.todo \in Seq(Items)
    BY <1>2 DEF Waits
  <2>. HIDE DEF I
  <2>3. PICK i \in I \cap (1 .. Len(r.todo)) : free[k] = r.todo[i]
    BY <2>2, SelectAmong
  <2>. QED
    BY <2>1, <2>3
<1>5. InOrder(now, source, here)
  <2>. HIDE DEF free, here
  <2>. QED
    BY <1>3, <1>4, NothingToWaitFor
<1>. HIDE DEF now, later
<1>6. InOrder(all, source, past)
  BY <1>2, <1>5, ConcatenationInOrder
<1>7. PackagesIn(all) = PackagesIn(r.done) \cup PackagesIn(now)
  BY <1>2, <1>5, PackagesOfConcatenation DEF InOrder
<1>8. Waits(later, source, here \cup PackagesIn(now))
  <2>. HIDE DEF here
  <2>. QED
    BY <1>2, EditWaits DEF later
<1>9. here \cup PackagesIn(now) = past \cup PackagesIn(all)
  BY <1>7
<1>10. Waits(later, source, past \cup PackagesIn(all))
  <2>. HIDE DEF here, all
  <2>. QED
    BY <1>8, <1>9
<1>. HIDE DEF all
<1>11. [todo |-> later, done |-> all] \in Rounds
  BY <1>6, <1>10 DEF Rounds, InOrder, Waits
<1>. QED
  BY <1>1, <1>6, <1>10, <1>11 DEF RoundInv

(* computeAccumulationPriority takes out reports of the items it is given, *)
(* each package once and after the packages it needs, whatever the items   *)
(* wait for, and however many rounds it takes.                             *)
LEMMA PriorityInOrder ==
  ASSUME NEW items, NEW source, NEW past, Waits(items, source, past)
  PROVE  InOrder(Priority(items), source, past)
<1>. DEFINE N == Len(items)
            first == [todo |-> items, done |-> <<>>]
            Body(f) == [n \in 0 .. N |-> IF n = 0 THEN first ELSE NextRound(f[n - 1])]
            round == CHOOSE f : f = Body(f)
            Good == {r \in Rounds : RoundInv(r, source, past)}
            step == [x \in Good \X (1 .. N) |-> NextRound(x[1])]
            S == {n \in 0 .. N : round[n] \in Good}
<1>1. N \in Nat /\ items \in Seq(Items)
  BY DEF Waits
<1>2. first \in Good
  <2>1. first \in Rounds /\ first.todo = items /\ first.done = <<>>
    BY <1>1 DEF Rounds
  <2>2. InOrder(<<>>, source, past) /\ PackagesIn(<<>>) = {}
    BY DEF InOrder, PackagesIn
  <2>3. Waits(items, source, past \cup {})
    BY Zenon
  <2>. HIDE DEF first
  <2>. QED
    BY <2>1, <2>2, <2>3 DEF RoundInv
<1>3. \A r \in Good : NextRound(r) \in Good
  BY RoundStep DEF RoundInv
<1>. HIDE DEF Good, first, N
<1>4. step \in [Good \X (1 .. N) -> Good]
  BY <1>3
<1>5. PICK h : Recursion(h, N, Good, first, step)
  <2>. HIDE DEF step
  <2>. QED
    BY <1>1, <1>2, <1>4, RecursionExists
<1>6. \A n \in 1 .. N : h[n] = NextRound(h[n - 1])
  <2>1. \A n \in 1 .. N : n - 1 \in 0 .. N
    BY <1>1
  <2>2. \A n \in 1 .. N : h[n - 1] \in Good /\ h[n] = step[<<h[n - 1], n>>]
    BY <1>5, <2>1 DEF Recursion
  <2>. QED
    BY <2>2
<1>7. h = Body(h)
  <2>1. \A n \in 0 .. N : n # 0 => n \in 1 .. N
    BY <1>1
  <2>2. h \in [0 .. N -> Good] /\ h[0] = first
    BY <1>5 DEF Recursion
  <2>3. \A n \in 0 .. N : h[n] = Body(h)[n]
    BY <1>6, <2>1, <2>2, Zenon
  <2>. QED
    BY <2>2, <2>3
<1>8. round = Body(round)
  <2>. HIDE DEF Body
  <2>. QED
    BY <1>7
<1>9. round[0] = first /\ \A n \in 1 .. N : round[n] = NextRound(round[n - 1])
  <2>1. 0 \in 0 .. N /\ \A n \in 1 .. N : n \in 0 .. N /\ n # 0
    BY <1>1
  <2>2. \A n \in 0 .. N : round[n] = Body(round)[n]
    <3>. HIDE DEF Body, round
    <3>. QED
      BY <1>8
  <2>. HIDE DEF round
  <2>3. \A n \in 0 .. N : Body(round)[n] = IF n = 0 THEN first ELSE NextRound(round[n - 1])
    OBVIOUS
  <2>. HIDE DEF Body
  <2>. QED
    BY <2>1, <2>2, <2>3
<1>10. Priority(items) = round[N].done
  BY DEF Priority, N, first
<1>. HIDE DEF round
<1>11. 0 \in S
  BY <1>1, <1>2, <1>9
<1>12. ASSUME NEW n \in 0 .. N - 1, n \in S PROVE n + 1 \in S
  <2>1. n + 1 \in 1 .. N /\ n + 1 \in 0 .. N /\ (n + 1) - 1 = n /\ round[n] \in Good
    BY <1>1, <1>12
  <2>2. round[n + 1] = NextRound(round[n])
    BY <1>9, <2>1
  <2>. QED
    BY <1>3, <2>1, <2>2
<1>13. N \in S
  <2>1. N \in 0 .. N
    BY <1>1
  <2>. HIDE DEF S
  <2>2. \A n \in 0 .. N : n \in S
    BY <1>1, <1>11, <1>12, Induction
  <2>. QED
    BY <2>1, <2>2
<1>. QED
  BY <1>10, <1>13 DEF RoundInv, Good

-----------------------------------------------------------------------------
(* The queue, read from the phase of the slot round to the one before it.  *)

(* A number is a multiple and a rest.                                      *)
LEMMA DivisionWithRest ==
  ASSUME NEW a \in Nat, NEW b \in Nat \ {0}
  PROVE  a \div b \in Nat /\ a % b \in 0 .. b - 1 /\ a = b * (a \div b) + (a % b)
BY SMT

(* Multiples of different numbers are at least one multiple apart.         *)
LEMMA MultiplesApart ==
  ASSUME NEW b \in Nat, NEW q \in Nat, NEW r \in Nat, q < r
  PROVE  b * q + b <= b * r
<1>1. PICK d \in Nat : r = q + 1 + d
  <2>. r - q - 1 \in Nat /\ r = q + 1 + (r - q - 1)
    OBVIOUS
  <2>. QED
    OBVIOUS
<1>2. b * (q + 1 + d) = b * q + b + b * d
  BY SMT
<1>3. b * d \in Nat /\ b * q \in Nat
  BY SMT
<1>. QED
  BY <1>1, <1>2, <1>3

(* Numbers with the same rest are at least the modulus apart.              *)
LEMMA SameRest ==
  ASSUME NEW a \in Nat, NEW c \in Nat, NEW b \in Nat \ {0}, a < c, a % b = c % b
  PROVE  a + b <= c
<1>. DEFINE q == a \div b
            r == c \div b
            x == a % b
<1>1. q \in Nat /\ r \in Nat /\ x \in Nat /\ a = b * q + x /\ c = b * r + x
  <2>1. a \div b \in Nat /\ a % b \in 0 .. b - 1 /\ a = b * (a \div b) + (a % b)
    BY DivisionWithRest
  <2>2. c \div b \in Nat /\ c = b * (c \div b) + (c % b)
    BY DivisionWithRest
  <2>3. x \in Nat /\ c % b = x
    BY <2>1
  <2>. HIDE DEF x
  <2>. QED
    BY <2>1, <2>2, <2>3 DEF x
<1>2. b * q \in Nat /\ b * r \in Nat
  <2>. HIDE DEF q, r
  <2>. QED
    BY <1>1, SMT
<1>. HIDE DEF q, r, x
<1>3. CASE q < r
  <2>1. b * q + b <= b * r
    BY <1>1, <1>3, MultiplesApart
  <2>. QED
    BY <2>1, <1>1, <1>2
<1>4. CASE r < q
  <2>1. b * r + b <= b * q
    BY <1>1, <1>4, MultiplesApart
  <2>. QED
    BY <2>1, <1>1, <1>2
<1>5. CASE q = r
  BY <1>1, <1>5
<1>. QED
  BY <1>1, <1>3, <1>4, <1>5

ItemPackages(items) == {PackageAt(items, k) : k \in 1 .. Len(items)}

(* Items of different packages may be put behind each other.               *)
LEMMA ConcatenationWaits ==
  ASSUME NEW s, NEW t, NEW source, NEW past,
         Waits(s, source, past), Waits(t, source, past),
         ItemPackages(s) \cap ItemPackages(t) = {}
  PROVE  /\ Waits(s \o t, source, past)
         /\ ItemPackages(s \o t) = ItemPackages(s) \cup ItemPackages(t)
<1>. DEFINE m == Len(s)
            n == Len(t)
            u == s \o t
<1>1. s \in Seq(Items) /\ t \in Seq(Items)
  BY DEF Waits
<1>2. m \in Nat /\ n \in Nat /\ u \in Seq(Items) /\ Len(u) = m + n
  BY <1>1
<1>3. /\ \A k \in 1 .. m : u[k] = s[k]
      /\ \A k \in 1 .. n : u[m + k] = t[k]
  BY <1>1
<1>. HIDE DEF m, n, u
<1>4. \A k \in 1 .. m + n : k \in 1 .. m \/ (k - m \in 1 .. n /\ k = m + (k - m))
  BY <1>2
<1>5. /\ \A k \in 1 .. m : PackageAt(u, k) = PackageAt(s, k) /\ PackageAt(s, k) \in ItemPackages(s)
                           /\ k \in 1 .. m + n
      /\ \A k \in 1 .. n : PackageAt(u, m + k) = PackageAt(t, k) /\ PackageAt(t, k) \in ItemPackages(t)
                           /\ m + k \in 1 .. m + n
  BY <1>2, <1>3 DEF PackageAt, ItemPackages, m, n
<1>6. ItemPackages(u) = ItemPackages(s) \cup ItemPackages(t)
  <2>1. ASSUME NEW k \in 1 .. m + n
        PROVE  PackageAt(u, k) \in ItemPackages(s) \cup ItemPackages(t)
    BY <1>4, <1>5
  <2>2. \A k \in 1 .. m : PackageAt(s, k) \in ItemPackages(u)
    BY <1>2, <1>5 DEF ItemPackages
  <2>3. \A k \in 1 .. n : PackageAt(t, k) \in ItemPackages(u)
    BY <1>2, <1>5 DEF ItemPackages
  <2>. QED
    BY <2>1, <2>2, <2>3, <1>2 DEF ItemPackages, m, n
<1>7. ASSUME NEW j \in 1 .. m + n, NEW k \in 1 .. m + n, PackageAt(u, j) = PackageAt(u, k)
      PROVE  j = k
  <2>1. \A i \in 1 .. m + n :
          \/ (i \in 1 .. m /\ PackageAt(u, i) = PackageAt(s, i) /\ PackageAt(u, i) \in ItemPackages(s))
          \/ (i - m \in 1 .. n /\ i = m + (i - m) /\ PackageAt(u, i) = PackageAt(t, i - m)
              /\ PackageAt(u, i) \in ItemPackages(t))
    BY <1>4, <1>5
  <2>2. /\ \A i, l \in 1 .. m : PackageAt(s, i) = PackageAt(s, l) => i = l
        /\ \A i, l \in 1 .. n : PackageAt(t, i) = PackageAt(t, l) => i = l
    BY DEF Waits, m, n
  <2>3. CASE j - m = k - m
    BY <2>3, <1>2
  <2>. QED
    BY <2>1, <2>2, <2>3, <1>7
<1>8. ASSUME NEW k \in 1 .. m + n
      PROVE  /\ u[k].report \in source
             /\ PackageAt(u, k) \notin past
             /\ Needs[PackageAt(u, k)] \subseteq u[k].needs \cup past
  <2>1. CASE k \in 1 .. m
    BY <2>1, <1>3, <1>5 DEF Waits, m
  <2>2. CASE k - m \in 1 .. n /\ k = m + (k - m)
    <3>1. u[k] = t[k - m] /\ PackageAt(u, k) = PackageAt(t, k - m)
      BY <2>2, <1>3, <1>5
    <3>. QED
      BY <3>1, <2>2 DEF Waits, n
  <2>. QED
    BY <2>1, <2>2, <1>4
<1>9. Waits(u, source, past)
  BY <1>2, <1>7, <1>8 DEF Waits
<1>. QED
  BY <1>6, <1>9 DEF u

(* An epoch of consecutive slots has every phase at most once.             *)
LEMMA PhasesApart ==
  ASSUME NEW m \in Nat, NEW i \in Nat, NEW j \in Nat, i < j, j < E
  PROVE  (m + i) % E # (m + j) % E /\ (m + j) % E \in Phases
<1>1. E \in Nat \ {0}
  BY ConstantsAssumption
<1>2. m + i \in Nat /\ m + j \in Nat /\ m + i < m + j /\ ~ (m + i) + E <= m + j
  BY <1>1
<1>3. (m + i) % E # (m + j) % E
  BY <1>1, <1>2, SameRest
<1>. QED
  BY <1>1, <1>2, <1>3, DivisionWithRest DEF Phases

(* The queue from a phase on is all of it, each phase once.                *)
LEMMA QueueFromWaits ==
  ASSUME NEW m \in Nat, NEW source, NEW past,
         \A p \in Phases : Waits(queue[p], source, past),
         \A p, q \in Phases : p # q => ItemPackages(queue[p]) \cap ItemPackages(queue[q]) = {}
  PROVE  /\ Waits(QueueFrom(m), source, past)
         /\ ItemPackages(QueueFrom(m)) \subseteq UNION {ItemPackages(queue[p]) : p \in Phases}
<1>. DEFINE at(n) == (m + n - 1) % E
            Body(f) == [n \in 0 .. E |-> IF n = 0 THEN <<>> ELSE f[n - 1] \o queue[(m + n - 1) % E]]
            upTo == CHOOSE f : f = Body(f)
            V == Seq(Items)
            step == [x \in V \X (1 .. E) |-> x[1] \o queue[at(x[2])]]
            S == {n \in 0 .. E :
                    /\ Waits(upTo[n], source, past)
                    /\ ItemPackages(upTo[n]) \subseteq
                         UNION {ItemPackages(queue[at(j)]) : j \in 1 .. n}}
<1>1. E \in Nat /\ E # 0
  BY ConstantsAssumption
<1>2. \A n \in 1 .. E : at(n) \in Phases
  <2>1. \A n \in 1 .. E : m + n - 1 \in Nat
    BY <1>1
  <2>. QED
    BY <1>1, <2>1, DivisionWithRest DEF Phases
<1>3. \A i, j \in 1 .. E : i # j => at(i) # at(j)
  <2>1. ASSUME NEW i \in 1 .. E, NEW j \in 1 .. E, i < j PROVE at(i) # at(j)
    <3>1. /\ i - 1 \in Nat /\ j - 1 \in Nat /\ i - 1 < j - 1 /\ j - 1 < E
          /\ m + i - 1 = m + (i - 1) /\ m + j - 1 = m + (j - 1)
      BY <2>1, <1>1
    <3>. QED
      BY <3>1, PhasesApart
  <2>2. \A i, j \in 1 .. E : i # j => i < j \/ j < i
    BY <1>1
  <2>. HIDE DEF at
  <2>. QED
    BY <2>1, <2>2
<1>4. \A p \in Phases : queue[p] \in V
  BY DEF Waits
<1>5. step \in [V \X (1 .. E) -> V]
  <2>1. \A s, t \in V : s \o t \in V
    OBVIOUS
  <2>. HIDE DEF V, at
  <2>. QED
    BY <1>2, <1>4, <2>1
<1>. DEFINE empty == <<>>
<1>6. empty \in V
  OBVIOUS
<1>7. PICK h : Recursion(h, E, V, empty, step)
  <2>. HIDE DEF step, V, empty
  <2>. QED
    BY <1>1, <1>5, <1>6, RecursionExists
<1>. HIDE DEF V
<1>8. \A n \in 1 .. E : h[n] = h[n - 1] \o queue[at(n)]
  <2>1. \A n \in 1 .. E : n - 1 \in 0 .. E
    BY <1>1
  <2>2. \A n \in 1 .. E : h[n - 1] \in V /\ h[n] = step[<<h[n - 1], n>>]
    <3>. HIDE DEF step, at
    <3>. QED
      BY <1>7, <2>1 DEF Recursion
  <2>. HIDE DEF at
  <2>. QED
    BY <2>2
<1>9. h = Body(h)
  <2>1. \A n \in 0 .. E : n # 0 => n \in 1 .. E
    BY <1>1
  <2>2. h \in [0 .. E -> V] /\ h[0] = empty
    BY <1>7 DEF Recursion
  <2>3. \A n \in 0 .. E : h[n] = Body(h)[n]
    BY <1>8, <2>1, <2>2, Zenon
  <2>. QED
    BY <2>2, <2>3
<1>10. upTo = Body(upTo)
  <2>. HIDE DEF Body
  <2>. QED
    BY <1>9
<1>11. upTo[0] = <<>> /\ \A n \in 1 .. E : upTo[n] = upTo[n - 1] \o queue[at(n)]
  <2>1. 0 \in 0 .. E /\ \A n \in 1 .. E : n \in 0 .. E /\ n # 0
    BY <1>1
  <2>2. \A n \in 0 .. E : upTo[n] = Body(upTo)[n]
    <3>. HIDE DEF Body, upTo
    <3>. QED
      BY <1>10
  <2>. HIDE DEF upTo
  <2>3. \A n \in 0 .. E : Body(upTo)[n] = IF n = 0 THEN <<>> ELSE upTo[n - 1] \o queue[at(n)]
    OBVIOUS
  <2>. HIDE DEF Body, at
  <2>. QED
    BY <2>1, <2>2, <2>3
<1>12. QueueFrom(m) = upTo[E]
  BY DEF QueueFrom
<1>. HIDE DEF upTo, at
<1>13. 0 \in S
  <2>1. Waits(<<>>, source, past) /\ ItemPackages(<<>>) = {}
    BY DEF Waits, ItemPackages
  <2>. QED
    BY <1>1, <1>11, <2>1
<1>14. ASSUME NEW n \in 0 .. E - 1, n \in S PROVE n + 1 \in S
  <2>1. n + 1 \in 1 .. E /\ n + 1 \in 0 .. E /\ (n + 1) - 1 = n /\ n \in Nat
    BY <1>1
  <2>2. /\ Waits(upTo[n], source, past)
        /\ ItemPackages(upTo[n]) \subseteq UNION {ItemPackages(queue[at(j)]) : j \in 1 .. n}
    BY <1>14
  <2>3. upTo[n + 1] = upTo[n] \o queue[at(n + 1)]
    BY <1>11, <2>1
  <2>4. at(n + 1) \in Phases
    BY <1>2, <2>1
  <2>5. ItemPackages(upTo[n]) \cap ItemPackages(queue[at(n + 1)]) = {}
    <3>1. \A j \in 1 .. n : j \in 1 .. E /\ j # n + 1
      BY <2>1, <1>1
    <3>2. \A j \in 1 .. n : at(j) \in Phases /\ at(j) # at(n + 1)
      BY <3>1, <2>1, <1>2, <1>3
    <3>. QED
      BY <3>2, <2>2, <2>4
  <2>6. /\ Waits(upTo[n + 1], source, past)
        /\ ItemPackages(upTo[n + 1]) = ItemPackages(upTo[n]) \cup ItemPackages(queue[at(n + 1)])
    <3>. DEFINE t == queue[at(n + 1)]
                s == upTo[n]
    <3>1. Waits(t, source, past) /\ Waits(s, source, past) /\ ItemPackages(s) \cap ItemPackages(t) = {}
      BY <2>2, <2>4, <2>5
    <3>2. upTo[n + 1] = s \o t
      BY <2>3
    <3>. HIDE DEF s, t
    <3>3. /\ Waits(s \o t, source, past)
          /\ ItemPackages(s \o t) = ItemPackages(s) \cup ItemPackages(t)
      BY <3>1, ConcatenationWaits
    <3>4. /\ Waits(upTo[n + 1], source, past)
          /\ ItemPackages(upTo[n + 1]) = ItemPackages(s) \cup ItemPackages(t)
      BY <3>2, <3>3
    <3>. QED
      BY <3>4 DEF s, t
  <2>7. \A j \in 1 .. n : j \in 1 .. n + 1
    BY <2>1
  <2>8. n + 1 \in 1 .. n + 1
    BY <2>1
  <2>9. ItemPackages(upTo[n + 1]) \subseteq UNION {ItemPackages(queue[at(j)]) : j \in 1 .. n + 1}
    BY <2>2, <2>6, <2>7, <2>8
  <2>. QED
    BY <2>1, <2>6, <2>9
<1>15. E \in S
  <2>1. E \in 0 .. E
    BY <1>1
  <2>. HIDE DEF S
  <2>2. \A n \in 0 .. E : n \in S
    BY <1>1, <1>13, <1>14, Induction
  <2>. QED
    BY <2>1, <2>2
<1>. QED
  BY <1>2, <1>12, <1>15

-----------------------------------------------------------------------------
(* What is queued, arrived and accumulated.                                *)

AccumulatedPackages == PackagesIn(accumulated)
QueuePackages == UNION {ItemPackages(queue[p]) : p \in Phases}

(* The queue: every package once, none accumulated, every item waiting for *)
(* at least what is not accumulated.                                       *)
QueueInv ==
  /\ \A p \in Phases : Waits(queue[p], Reports, AccumulatedPackages)
  /\ \A p, q \in Phases : p # q => ItemPackages(queue[p]) \cap ItemPackages(queue[q]) = {}

HistoryTruthful == HistoricPackages \subseteq AccumulatedPackages

(* Reports that become available: of packages of their own, not known to   *)
(* the queue or the past, at most one per core.                            *)
Arrives(new) ==
  /\ new \in Seq(Reports) /\ Len(new) <= C
  /\ \A j, k \in 1 .. Len(new) : PackageOf[new[j]] = PackageOf[new[k]] => j = k
  /\ \A k \in 1 .. Len(new) : PackageOf[new[k]] \notin QueuePackages \cup AccumulatedPackages

Arrived(new) == {new[k] : k \in 1 .. Len(new)}

(* Every queueable item is a new report, with what history does not show.  *)
LEMMA QueueableItems ==
  ASSUME HistoryTruthful, NEW new, Arrives(new)
  PROVE  /\ Waits(Queueable(new), Arrived(new), AccumulatedPackages)
         /\ \A k \in 1 .. Len(Queueable(new)) :
              Queueable(new)[k].needs =
                Needs[PackageAt(Queueable(new), k)] \ HistoricPackages
         /\ \A j \in 1 .. Len(new) : Needs[PackageOf[new[j]]] # {} =>
              \E k \in 1 .. Len(Queueable(new)) : Queueable(new)[k].report = new[j]
<1>. DEFINE I == {k \in DOMAIN new : Needs[PackageOf[new[k]]] # {}}
            dependent == Select(new, I)
            items == [k \in DOMAIN dependent |->
                        [report |-> dependent[k], needs |-> Needs[PackageOf[dependent[k]]]]]
            past == AccumulatedPackages
            q == Edit(items, HistoricPackages)
            L == Len(dependent)
            N == Len(new)
<1>1. Queueable(new) = q
  BY DEF Queueable, HistoricPackages
<1>2. new \in Seq(Reports) /\ N \in Nat /\ DOMAIN new = 1 .. N /\ \A k \in 1 .. N : new[k] \in Reports
  BY DEF Arrives
<1>3. dependent \in Seq(Reports)
  <2>. HIDE DEF I
  <2>. QED
    BY <1>2, SelectKeeps
<1>4. PICK from : /\ SubsequenceOf(dependent, new, from)
                  /\ \A i \in I \cap (1 .. N) : \E k \in 1 .. L : from[k] = i
  <2>. HIDE DEF I
  <2>. QED
    BY <1>2, SelectKeeps
<1>5. \A i \in 1 .. N : Needs[PackageOf[new[i]]] # {} => i \in I
  BY <1>2
<1>. HIDE DEF I, dependent
<1>6. L \in Nat /\ DOMAIN dependent = 1 .. L /\ \A k \in 1 .. L : dependent[k] \in Reports
  BY <1>3
<1>7. \A r \in Reports : PackageOf[r] \in Packages /\ Needs[PackageOf[r]] \in SUBSET Packages
  BY ConstantsAssumption
<1>8. \A k \in 1 .. L : /\ items[k] = [report |-> dependent[k], needs |-> Needs[PackageOf[dependent[k]]]]
                        /\ items[k] \in Items
  BY <1>6, <1>7 DEF Items
<1>9. items \in Seq(Items) /\ Len(items) = L
  <2>1. items = [k \in 1 .. L |-> items[k]]
    BY <1>6
  <2>. HIDE DEF items, L
  <2>. QED
    BY <1>6, <1>8, <2>1
<1>10. \A k \in 1 .. L : /\ items[k].report = dependent[k]
                         /\ items[k].needs = Needs[PackageOf[dependent[k]]]
  BY <1>8
<1>. HIDE DEF items
<1>11. \A k \in 1 .. L : /\ from[k] \in 1 .. N
                         /\ items[k].report = new[from[k]]
                         /\ PackageAt(items, k) = PackageOf[new[from[k]]]
                         /\ items[k].needs = Needs[PackageAt(items, k)]
  BY <1>4, <1>10 DEF SubsequenceOf, PackageAt
<1>12. \A j, k \in 1 .. L : from[j] = from[k] => j = k
  BY <1>4 DEF SubsequenceOf
<1>13. Waits(items, Arrived(new), past)
  <2>1. \A j, k \in 1 .. L : PackageAt(items, j) = PackageAt(items, k) => j = k
    BY <1>11, <1>12 DEF Arrives
  <2>2. \A k \in 1 .. L : items[k].report \in Arrived(new)
    BY <1>11 DEF Arrived
  <2>3. \A k \in 1 .. L : PackageAt(items, k) \notin past
    BY <1>11 DEF Arrives
  <2>. QED
    BY <1>9, <1>11, <2>1, <2>2, <2>3 DEF Waits
<1>14. Waits(q, Arrived(new), past \cup HistoricPackages)
  <2>. HIDE DEF past
  <2>. QED
    BY <1>13, EditWaits
<1>15. past \cup HistoricPackages = past
  BY DEF HistoryTruthful
<1>16. PICK to : EditedFrom(q, items, HistoricPackages, to)
  BY <1>9, EditLeaves
<1>. HIDE DEF q
<1>17. \A k \in 1 .. Len(q) : /\ to[k] \in 1 .. L
                              /\ q[k].report = items[to[k]].report
                              /\ q[k].needs = items[to[k]].needs \ HistoricPackages
                              /\ PackageAt(q, k) = PackageAt(items, to[k])
  BY <1>9, <1>16 DEF EditedFrom, PackageAt
<1>18. \A k \in 1 .. Len(q) : q[k].needs = Needs[PackageAt(q, k)] \ HistoricPackages
  BY <1>11, <1>17
<1>19. ASSUME NEW j \in 1 .. N, Needs[PackageOf[new[j]]] # {}
       PROVE  \E k \in 1 .. Len(q) : q[k].report = new[j]
  <2>1. PICK i \in 1 .. L : from[i] = j
    BY <1>4, <1>5, <1>19
  <2>2. PackageAt(items, i) \notin HistoricPackages
    BY <1>15, <1>13, <1>9, <2>1 DEF Waits
  <2>3. PICK k \in 1 .. Len(q) : to[k] = i
    BY <1>9, <1>16, <2>1, <2>2 DEF EditedFrom
  <2>. QED
    BY <1>11, <1>17, <2>1, <2>3
<1>. HIDE DEF N
<1>. QED
  BY <1>1, <1>14, <1>15, <1>18, <1>19 DEF N

(* The immediate reports are the new ones without needs, all of them.      *)
LEMMA ImmediateReports ==
  ASSUME NEW new, Arrives(new)
  PROVE  /\ InOrder(Immediate(new), Arrived(new), AccumulatedPackages)
         /\ Len(Immediate(new)) <= C
         /\ \A j \in 1 .. Len(new) : Needs[PackageOf[new[j]]] = {} =>
              \E k \in 1 .. Len(Immediate(new)) : Immediate(new)[k] = new[j]
<1>. DEFINE I == {k \in DOMAIN new : Needs[PackageOf[new[k]]] = {}}
            f == Select(new, I)
            N == Len(new)
<1>1. Immediate(new) = f
  BY DEF Immediate
<1>2. new \in Seq(Reports) /\ N \in Nat /\ DOMAIN new = 1 .. N
  BY DEF Arrives
<1>3. f \in Seq(Reports) /\ Len(f) <= N
  <2>. HIDE DEF I
  <2>. QED
    BY <1>2, SelectKeeps
<1>4. PICK from : /\ SubsequenceOf(f, new, from)
                  /\ \A k \in 1 .. Len(f) : from[k] \in I
                  /\ \A i \in I \cap (1 .. N) : \E k \in 1 .. Len(f) : from[k] = i
  <2>. HIDE DEF I
  <2>. QED
    BY <1>2, SelectKeeps
<1>5. /\ \A i \in 1 .. N : Needs[PackageOf[new[i]]] = {} => i \in I
      /\ \A i \in I : Needs[PackageOf[new[i]]] = {}
  BY <1>2
<1>. HIDE DEF I, f
<1>6. \A k \in 1 .. Len(f) : /\ from[k] \in 1 .. N /\ f[k] = new[from[k]]
                             /\ Needs[PackageOf[f[k]]] = {}
  BY <1>4, <1>5 DEF SubsequenceOf
<1>7. \A j, k \in 1 .. Len(f) : PackageOf[f[j]] = PackageOf[f[k]] => j = k
  BY SMTT(20), <1>4, <1>6 DEF Arrives, SubsequenceOf
<1>8. \A k \in 1 .. Len(f) : f[k] \in Arrived(new) /\ PackageOf[f[k]] \notin AccumulatedPackages
  BY <1>6 DEF Arrives, Arrived
<1>9. InOrder(f, Arrived(new), AccumulatedPackages)
  BY <1>3, <1>6, <1>7, <1>8 DEF InOrder
<1>10. Len(f) <= C
  <2>1. N <= C
    BY DEF Arrives
  <2>. QED
    BY <1>2, <1>3, <2>1, ConstantsAssumption
<1>11. ASSUME NEW j \in 1 .. N, Needs[PackageOf[new[j]]] = {}
       PROVE  \E k \in 1 .. Len(f) : f[k] = new[j]
  BY <1>4, <1>5, <1>6, <1>11
<1>. QED
  BY <1>1, <1>9, <1>10, <1>11

(* What is from a set is from a larger one.                                *)
LEMMA MoreSources ==
  ASSUME NEW seq, NEW source, NEW more, NEW past, source \subseteq more
  PROVE  /\ Waits(seq, source, past) => Waits(seq, more, past)
         /\ InOrder(seq, source, past) => InOrder(seq, more, past)
BY DEF Waits, InOrder

(* The items at a phase are queued items of queued reports.                *)
LEMMA QueuedWait ==
  ASSUME QueueInv, NEW p \in Phases
  PROVE  /\ Waits(queue[p], QueuedReports, AccumulatedPackages)
         /\ \A k \in 1 .. Len(queue[p]) :
              queue[p][k] \in QueuedItems /\ queue[p][k].report \in QueuedReports
<1>1. Waits(queue[p], Reports, AccumulatedPackages)
  BY DEF QueueInv
<1>2. DOMAIN queue[p] = 1 .. Len(queue[p])
  BY <1>1 DEF Waits
<1>3. \A k \in 1 .. Len(queue[p]) : queue[p][k] \in QueuedItems
  BY <1>2 DEF QueuedItems
<1>4. \A k \in 1 .. Len(queue[p]) : queue[p][k].report \in QueuedReports
  BY <1>3 DEF QueuedReports
<1>. QED
  BY <1>1, <1>3, <1>4 DEF Waits

(* What a block may accumulate: new and queued reports, every package once,*)
(* none accumulated before, each after the packages it needs; the new ones *)
(* that need nothing are among the first C.                                *)
LEMMA AccumulatableInOrder ==
  ASSUME QueueInv, HistoryTruthful, NEW newSlot \in Nat, NEW new, Arrives(new)
  PROVE  /\ InOrder(Accumulatable(new, newSlot), Arrived(new) \cup QueuedReports,
                    AccumulatedPackages)
         /\ \A j \in 1 .. Len(new) : Needs[PackageOf[new[j]]] = {} =>
              \E k \in 1 .. Len(Accumulatable(new, newSlot)) :
                k <= C /\ Accumulatable(new, newSlot)[k] = new[j]
<1>. DEFINE first == Immediate(new)
            m == newSlot % E
            known == QueueFrom(m)
            fresh == Queueable(new)
            source == Arrived(new) \cup QueuedReports
            past == AccumulatedPackages
            here == past \cup PackagesIn(first)
            rest == Priority(Edit(known \o fresh, PackagesIn(first)))
<1>1. m \in Nat
  BY DivisionWithRest, ConstantsAssumption
<1>2. Accumulatable(new, newSlot) = first \o rest
  BY DEF Accumulatable
<1>3. InOrder(first, source, past) /\ Len(first) <= C
  <2>. HIDE DEF first
  <2>. QED
    BY ImmediateReports, MoreSources DEF first
<1>4. /\ Waits(known, source, past)
      /\ ItemPackages(known) \subseteq QueuePackages
  <2>1. \A p \in Phases : Waits(queue[p], source, past)
    BY QueuedWait, MoreSources
  <2>2. \A p, q \in Phases : p # q => ItemPackages(queue[p]) \cap ItemPackages(queue[q]) = {}
    BY DEF QueueInv
  <2>. HIDE DEF m, source, past
  <2>3. /\ Waits(known, source, past)
        /\ ItemPackages(known) \subseteq UNION {ItemPackages(queue[p]) : p \in Phases}
    BY <1>1, <2>1, <2>2, QueueFromWaits
  <2>. QED
    BY <2>3 DEF QueuePackages
<1>5. Waits(fresh, source, past) /\ ItemPackages(fresh) \cap QueuePackages = {}
  <2>1. Waits(fresh, Arrived(new), past)
    BY QueueableItems
  <2>. HIDE DEF fresh
  <2>2. \A k \in 1 .. Len(fresh) : fresh[k].report \in Arrived(new)
    BY <2>1 DEF Waits
  <2>3. \A r \in Arrived(new) : PackageOf[r] \notin QueuePackages
    BY DEF Arrives, Arrived
  <2>4. \A k \in 1 .. Len(fresh) : PackageAt(fresh, k) \notin QueuePackages
    BY <2>2, <2>3 DEF PackageAt
  <2>5. Waits(fresh, source, past)
    BY <2>1, MoreSources
  <2>. QED
    BY <2>4, <2>5 DEF ItemPackages
<1>. HIDE DEF m, known, fresh, first, source, past
<1>6. Waits(known \o fresh, source, past)
  <2>1. ItemPackages(known) \cap ItemPackages(fresh) = {}
    BY <1>4, <1>5
  <2>. QED
    BY <1>4, <1>5, <2>1, ConcatenationWaits
<1>7. InOrder(rest, source, here)
  BY <1>6, EditWaits, PriorityInOrder
<1>. HIDE DEF rest
<1>8. InOrder(first \o rest, source, past)
  BY <1>3, <1>7, ConcatenationInOrder
<1>9. ASSUME NEW k \in 1 .. Len(first)
      PROVE  k \in 1 .. Len(first \o rest) /\ k <= C /\ (first \o rest)[k] = first[k]
  <2>1. first \in Seq(Reports) /\ rest \in Seq(Reports)
    BY <1>3, <1>7 DEF InOrder
  <2>2. Len(first) \in Nat /\ Len(rest) \in Nat
    BY <2>1
  <2>3. k <= C
    BY <1>3, <2>2, ConstantsAssumption
  <2>. QED
    BY <2>1, <2>2, <2>3
<1>10. \A j \in 1 .. Len(new) : Needs[PackageOf[new[j]]] = {} =>
         \E k \in 1 .. Len(first) : first[k] = new[j]
  BY ImmediateReports DEF first
<1>11. \A j \in 1 .. Len(new) : Needs[PackageOf[new[j]]] = {} =>
         \E k \in 1 .. Len(first \o rest) : k <= C /\ (first \o rest)[k] = new[j]
  BY <1>9, <1>10
<1>. QED
  BY <1>2, <1>8, <1>11 DEF source, past

(* The same of what the gas allows of it.                                  *)
LEMMA PrefixInOrder ==
  ASSUME NEW seq, NEW source, NEW past, InOrder(seq, source, past),
         NEW n \in 0 .. Len(seq)
  PROVE  /\ InOrder(SubSeq(seq, 1, n), source, past)
         /\ Len(SubSeq(seq, 1, n)) = n
         /\ \A k \in 1 .. n : SubSeq(seq, 1, n)[k] = seq[k]
<1>. DEFINE s == SubSeq(seq, 1, n)
<1>1. seq \in Seq(Reports) /\ Len(seq) \in Nat
  BY DEF InOrder
<1>2. s \in Seq(Reports) /\ Len(s) = n /\ \A k \in 1 .. n : s[k] = seq[k]
  BY <1>1
<1>. HIDE DEF s
<1>3. \A k \in 1 .. n : k \in 1 .. Len(seq)
  BY <1>1
<1>4. ASSUME NEW k \in 1 .. n
      PROVE  /\ s[k] \in source
             /\ PackageOf[s[k]] \notin past
             /\ Needs[PackageOf[s[k]]] \subseteq past \cup {PackageOf[s[j]] : j \in 1 .. k - 1}
  <2>1. \A j \in 1 .. k - 1 : s[j] = seq[j]
    BY <1>1, <1>2
  <2>2. {PackageOf[s[j]] : j \in 1 .. k - 1} = {PackageOf[seq[j]] : j \in 1 .. k - 1}
    BY <2>1
  <2>3. /\ seq[k] \in source
        /\ PackageOf[seq[k]] \notin past
        /\ Needs[PackageOf[seq[k]]] \subseteq past \cup {PackageOf[seq[j]] : j \in 1 .. k - 1}
    BY <1>3 DEF InOrder
  <2>. QED
    BY <1>2, <2>2, <2>3
<1>5. \A j, k \in 1 .. n : PackageOf[s[j]] = PackageOf[s[k]] => j = k
  BY <1>2, <1>3 DEF InOrder
<1>. QED
  BY <1>2, <1>4, <1>5 DEF InOrder, s

-----------------------------------------------------------------------------
(* The inductive invariant.                                                *)

Entries == [block : Nat, packages : SUBSET Packages]

RecentType ==
  /\ height \in Nat
  /\ recent \in Seq(Entries)
  /\ reported \subseteq Packages

(* Nothing in the recent history, and no anchor of a reported package, is  *)
(* later than the last block.                                              *)
NothingFromTheFuture ==
  /\ \A i \in 1 .. Len(recent) : recent[i].block <= height
  /\ \A p \in reported : Anchor[p] < height

(* After the anchor of a reported package comes the block that reported it.*)
AnchorBeforeReport ==
  \A p \in reported : \A i \in 1 .. Len(recent) :
    recent[i].block = Anchor[p] =>
      \E j \in 1 .. Len(recent) : i < j /\ p \in recent[j].packages

RecentInv == RecentType /\ NothingFromTheFuture /\ AnchorBeforeReport

(* A core holds a report of its own, until it times out, and no package is *)
(* on two cores.                                                           *)
CoresInv ==
  /\ \A c \in Cores : rho[c] # NoReport =>
       CoreOf[rho[c]] = c /\ reportSlot[c] <= slot /\ slot < reportSlot[c] + U
  /\ \A c, d \in Cores :
       /\ rho[c] # NoReport /\ rho[d] # NoReport
       /\ PackageOf[rho[c]] = PackageOf[rho[d]]
       => c = d

(* What is on a core is neither queued nor accumulated, and all of it was  *)
(* reported.                                                               *)
PlacesApart ==
  PackagesOf(Pending) \cap (QueuePackages \cup AccumulatedPackages) = {}

AllReported ==
  PackagesOf(Pending) \cup QueuePackages \cup AccumulatedPackages \subseteq reported

(* Everything is accumulated once, and after what it needs.                *)
PastInOrder == InOrder(accumulated, Reports, {})

(* What a recent block reported and is accumulated is still in the history,*)
(* not further back than the block.                                        *)
RecentHistoric ==
  \A j \in 1 .. Len(recent) : \A q \in recent[j].packages \cap AccumulatedPackages :
    \E i \in 1 .. E : q \in history[i] /\ i + (Len(recent) - j) > E

(* What a report on a core needs and is accumulated stays in the history   *)
(* until the report times out.                                             *)
NeedsHistoric ==
  \A c \in Cores : rho[c] # NoReport =>
    \A q \in Needs[PackageOf[rho[c]]] \cap AccumulatedPackages :
      \E i \in 1 .. E : q \in history[i] /\ i + slot >= reportSlot[c] + U

(* A queued item is at the phase of the slot at which it became ready.     *)
PhaseInv ==
  \A p \in Phases : \A k \in 1 .. Len(queue[p]) :
    readySlot[queue[p][k].report] % E = p /\ readySlot[queue[p][k].report] <= slot

PipelineInv ==
  /\ TypeOK /\ RecentInv
  /\ CoresInv /\ PlacesApart /\ AllReported /\ PastInOrder
  /\ QueueInv /\ WaitsExactly /\ PhaseInv
  /\ HistoryTruthful /\ RecentHistoric /\ NeedsHistoric

(* The rest of a division is the only one below the divisor.               *)
LEMMA RestIsUnique ==
  ASSUME NEW b \in Nat \ {0}, NEW q \in Nat, NEW x \in 0 .. b - 1, NEW a \in Nat,
         a = b * q + x
  PROVE  a % b = x
<1>. DEFINE r == a \div b
            y == a % b
<1>1. r \in Nat /\ y \in 0 .. b - 1 /\ a = b * r + y
  BY DivisionWithRest
<1>2. b * q \in Nat /\ b * r \in Nat
  <2>. HIDE DEF r
  <2>. QED
    BY <1>1, SMT
<1>. HIDE DEF r, y
<1>3. CASE q < r
  <2>1. b * q + b <= b * r
    BY <1>1, <1>3, MultiplesApart
  <2>. QED
    BY <2>1, <1>1, <1>2
<1>4. CASE r < q
  <2>1. b * r + b <= b * q
    BY <1>1, <1>4, MultiplesApart
  <2>. QED
    BY <2>1, <1>1, <1>2
<1>5. CASE q = r
  <2>. x = y
    BY <1>1, <1>2, <1>5
  <2>. QED
    BY DEF y
<1>. QED
  BY <1>1, <1>3, <1>4, <1>5

(* How far back a phase is from a slot, round the epoch.                   *)
Back(n, p) == ((n % E) + E - p) % E

(* The last slot at a phase is as far back as Back says.                   *)
LEMMA PhaseBack ==
  ASSUME NEW n \in Nat, NEW p \in Phases
  PROVE  /\ Back(n, p) \in 0 .. E - 1
         /\ Back(n, p) = 0 <=> p = n % E
         /\ Back(n, p) <= n => (n - Back(n, p)) % E = p
<1>. DEFINE a == n % E
            q == n \div E
<1>1. E \in Nat \ {0}
  BY ConstantsAssumption
<1>2. q \in Nat /\ a \in 0 .. E - 1 /\ n = E * q + a
  BY <1>1, DivisionWithRest
<1>3. p \in 0 .. E - 1 /\ p \in Nat
  BY DEF Phases
<1>4. E * 0 = 0 /\ E * 1 = E /\ E * q \in Nat
  <2>. HIDE DEF q
  <2>. QED
    BY <1>1, <1>2, SMT
<1>. HIDE DEF a, q
<1>5. Back(n, p) = (a + E - p) % E
  BY DEF Back, a
<1>6. CASE p <= a
  <2>1. a - p \in 0 .. E - 1 /\ a + E - p \in Nat /\ a + E - p = E * 1 + (a - p)
    BY <1>1, <1>2, <1>3, <1>4, <1>6
  <2>2. Back(n, p) = a - p
    BY <1>1, <1>5, <2>1, RestIsUnique
  <2>3. n - (a - p) \in Nat /\ n - (a - p) = E * q + p
    BY <1>1, <1>2, <1>3, <1>4, <1>6
  <2>4. (n - (a - p)) % E = p
    BY <1>1, <1>2, <1>3, <2>3, RestIsUnique
  <2>5. a - p = 0 <=> p = a
    BY <1>2, <1>3
  <2>. QED
    BY <2>1, <2>2, <2>4, <2>5 DEF a
<1>7. CASE a < p
  <2>1. /\ a + E - p \in 0 .. E - 1 /\ a + E - p \in Nat /\ a + E - p = E * 0 + (a + E - p)
        /\ a + E - p # 0
    BY <1>1, <1>2, <1>3, <1>4, <1>7
  <2>2. Back(n, p) = a + E - p
    BY <1>1, <1>5, <2>1, RestIsUnique
  <2>3. ASSUME Back(n, p) <= n PROVE (n - Back(n, p)) % E = p
    <3>1. q # 0
      BY <1>1, <1>2, <1>3, <1>4, <2>2, <2>3
    <3>2. q - 1 \in Nat /\ E * q = E * (q - 1) + E
      BY <1>1, <1>2, <3>1, SMT
    <3>3. E * (q - 1) \in Nat
      BY <1>1, <3>2, SMT
    <3>4. n - Back(n, p) \in Nat /\ n - Back(n, p) = E * (q - 1) + p
      <4>. DEFINE x == E * q
                  y == E * (q - 1)
      <4>1. x \in Nat /\ y \in Nat /\ x = y + E /\ n = x + a
        BY <1>2, <1>4, <3>2, <3>3
      <4>. HIDE DEF x, y
      <4>2. n - Back(n, p) \in Nat /\ n - Back(n, p) = y + p
        BY <1>1, <1>2, <1>3, <2>2, <2>3, <4>1
      <4>. QED
        BY <4>2 DEF y
    <3>. DEFINE z == n - Back(n, p)
                r == q - 1
    <3>5. z \in Nat /\ r \in Nat /\ z = E * r + p
      BY <3>2, <3>4
    <3>. HIDE DEF z, r
    <3>6. z % E = p
      BY <1>1, <1>3, <3>5, RestIsUnique
    <3>. QED
      BY <3>6 DEF z
  <2>4. p # a
    BY <1>2, <1>3, <1>7
  <2>. QED
    BY <2>1, <2>2, <2>3, <2>4 DEF a
<1>. QED
  BY <1>2, <1>3, <1>6, <1>7

(* The reports that become available are those of the assured cores.       *)
LEMMA AvailableArrives ==
  ASSUME PipelineInv, NEW J \in SUBSET Reports, NEW assured \in SUBSET Cores,
         \A c \in assured : RhoDagger(J)[c] # NoReport
  PROVE  /\ Arrives(NewlyAvailable(RhoDagger(J), assured))
         /\ Arrived(NewlyAvailable(RhoDagger(J), assured)) = {rho[c] : c \in assured}
         /\ \A c \in assured : rho[c] # NoReport /\ rho[c] \notin J
<1>. DEFINE d == RhoDagger(J)
            I == {c \in Cores : d[c] # NoReport /\ CoreOf[d[c]] \in assured}
            new == NewlyAvailable(d, assured)
            T == Reports \cup {NoReport}
<1>1. /\ C \in Nat /\ NoReport \notin Reports /\ rho \in [Cores -> T]
      /\ \A c \in Cores : rho[c] # NoReport => CoreOf[rho[c]] = c /\ rho[c] \in Reports
  BY ConstantsAssumption DEF PipelineInv, TypeOK, CoresInv
<1>2. \A c \in Cores : d[c] = IF rho[c] \in J THEN NoReport ELSE rho[c]
  BY DEF RhoDagger
<1>3. d \in Seq(T) /\ Len(d) = C
  <2>1. d = [c \in 1 .. C |-> IF rho[c] \in J THEN NoReport ELSE rho[c]]
    BY DEF RhoDagger, Cores
  <2>2. \A c \in 1 .. C : (IF rho[c] \in J THEN NoReport ELSE rho[c]) \in T
    BY <1>1 DEF Cores
  <2>. HIDE DEF T, d
  <2>. QED
    BY <1>1, <2>1, <2>2
<1>4. \A c \in assured : rho[c] # NoReport /\ rho[c] \notin J /\ d[c] = rho[c] /\ c \in Cores
  BY <1>2
<1>5. \A c \in I : c \in assured /\ d[c] = rho[c]
  BY <1>1, <1>2
<1>6. \A c \in assured : c \in I
  BY <1>1, <1>4
<1>7. new = Select(d, I)
  BY DEF NewlyAvailable
<1>. HIDE DEF d, I, T, new
<1>8. new \in Seq(T) /\ Len(new) <= C
  BY <1>3, <1>7, SelectKeeps
<1>9. PICK from : /\ SubsequenceOf(new, d, from)
                  /\ \A k \in 1 .. Len(new) : from[k] \in I
                  /\ \A i \in I \cap (1 .. C) : \E k \in 1 .. Len(new) : from[k] = i
  BY <1>3, <1>7, SelectKeeps
<1>10. \A k \in 1 .. Len(new) : from[k] \in assured /\ new[k] = rho[from[k]]
  BY <1>5, <1>9 DEF SubsequenceOf
<1>11. \A c \in assured : \E k \in 1 .. Len(new) : new[k] = rho[c]
  <2>1. \A c \in assured : c \in I \cap (1 .. C)
    BY <1>4, <1>6 DEF Cores
  <2>. QED
    BY <1>9, <1>10, <2>1
<1>12. Arrived(new) = {rho[c] : c \in assured}
  BY <1>10, <1>11 DEF Arrived
<1>13. \A k \in 1 .. Len(new) : new[k] \in Reports /\ new[k] \in Pending
  BY <1>1, <1>4, <1>10 DEF Pending
<1>14. new \in Seq(Reports)
  BY <1>8, <1>13
<1>15. ASSUME NEW j \in 1 .. Len(new), NEW k \in 1 .. Len(new), PackageOf[new[j]] = PackageOf[new[k]]
       PROVE  j = k
  <2>1. from[j] = from[k]
    BY <1>4, <1>10, <1>15 DEF PipelineInv, CoresInv
  <2>. QED
    BY <1>9, <2>1 DEF SubsequenceOf
<1>16. \A k \in 1 .. Len(new) : PackageOf[new[k]] \notin QueuePackages \cup AccumulatedPackages
  BY <1>13 DEF PipelineInv, PlacesApart, PackagesOf
<1>17. Arrives(new)
  BY <1>8, <1>14, <1>15, <1>16 DEF Arrives
<1>. QED
  BY <1>4, <1>12, <1>17 DEF d, new

-----------------------------------------------------------------------------
(* What accumulation does to the queue and the accumulated reports.        *)

(* What a block accumulates, given the reports that become available.      *)
Accumulates(new, done) ==
  /\ InOrder(done, Arrived(new) \cup QueuedReports, AccumulatedPackages)
  /\ \A j \in 1 .. Len(new) : Needs[PackageOf[new[j]]] = {} =>
       \E k \in 1 .. Len(done) : done[k] = new[j]

(* Accumulate is by a sequence that Accumulates describes.                 *)
LEMMA AccumulateStep ==
  ASSUME PipelineInv, NEW newSlot \in Nat, NEW new, Arrives(new), Accumulate(new, newSlot)
  PROVE  \E done : /\ Accumulates(new, done)
                   /\ history' = NextHistory(done)
                   /\ queue' = NextQueue(new, done, newSlot)
                   /\ accumulated' = accumulated \o done
<1>. DEFINE reports == Accumulatable(new, newSlot)
            source == Arrived(new) \cup QueuedReports
<1>1. QueueInv /\ HistoryTruthful
  BY DEF PipelineInv
<1>2. /\ InOrder(reports, source, AccumulatedPackages)
      /\ \A j \in 1 .. Len(new) : Needs[PackageOf[new[j]]] = {} =>
           \E k \in 1 .. Len(reports) : k <= C /\ reports[k] = new[j]
  BY <1>1, AccumulatableInOrder
<1>3. PICK n \in AccumulatedCounts(reports) :
        LET done == SubSeq(reports, 1, n)
        IN  /\ history' = NextHistory(done)
            /\ queue' = NextQueue(new, done, newSlot)
            /\ accumulated' = accumulated \o done
  BY DEF Accumulate
<1>. DEFINE done == SubSeq(reports, 1, n)
<1>. HIDE DEF reports, source
<1>4. Len(reports) \in Nat /\ C \in Nat
  BY <1>2, ConstantsAssumption DEF InOrder
<1>5. n \in 0 .. Len(reports) /\ \A k \in 1 .. Len(reports) : k <= C => k \in 1 .. n
  BY <1>4 DEF AccumulatedCounts
<1>6. /\ InOrder(done, source, AccumulatedPackages)
      /\ Len(done) = n
      /\ \A k \in 1 .. n : done[k] = reports[k]
  BY <1>2, <1>5, PrefixInOrder
<1>7. history' = NextHistory(done) /\ queue' = NextQueue(new, done, newSlot)
      /\ accumulated' = accumulated \o done
  BY <1>3
<1>. HIDE DEF done
<1>8. Accumulates(new, done)
  BY <1>2, <1>5, <1>6 DEF Accumulates, source
<1>. QED
  BY <1>7, <1>8

(* The queue after a block: at its slot's phase the new reports that have  *)
(* to wait, at the others what was there and is not accumulated, and every *)
(* item waits for what it did less what is accumulated.                    *)
QueueEffect(newSlot, new, done) ==
  /\ \A p \in Phases :
       Waits(queue'[p], Reports, AccumulatedPackages \cup PackagesIn(done))
  /\ \A p \in Phases : \A k \in 1 .. Len(queue'[p]) :
       \/ /\ p = newSlot % E
          /\ queue'[p][k].report \in Arrived(new)
          /\ queue'[p][k].needs =
               Needs[PackageAt(queue'[p], k)] \ (HistoricPackages \cup PackagesIn(done))
       \/ /\ p # newSlot % E
          /\ \E l \in 1 .. Len(queue[p]) :
               /\ queue'[p][k].report = queue[p][l].report
               /\ queue'[p][k].needs = queue[p][l].needs \ PackagesIn(done)
  /\ \A j \in 1 .. Len(new) :
       Needs[PackageOf[new[j]]] # {} /\ PackageOf[new[j]] \notin PackagesIn(done) =>
         \E k \in 1 .. Len(queue'[newSlot % E]) : queue'[newSlot % E][k].report = new[j]
  /\ \A p \in Phases : \A l \in 1 .. Len(queue[p]) :
       \/ PackageAt(queue[p], l) \in PackagesIn(done)
       \/ readySlot[queue[p][l].report] + E <= newSlot
       \/ \E k \in 1 .. Len(queue'[p]) : queue'[p][k].report = queue[p][l].report

(* The next queue is as QueueEffect describes it.                          *)
LEMMA QueueStep ==
  ASSUME PipelineInv, NEW newSlot \in Nat, newSlot > slot,
         NEW new, Arrives(new), NEW done, queue' = NextQueue(new, done, newSlot)
  PROVE  QueueEffect(newSlot, new, done)
<1>. DEFINE now == PackagesIn(done)
            past == AccumulatedPackages
            m == newSlot % E
            fresh == Queueable(new)
<1>1. QueueInv /\ HistoryTruthful /\ TypeOK /\ PhaseInv
  BY DEF PipelineInv
<1>2. m \in Phases /\ E \in Nat \ {0} /\ slot \in Nat
  BY <1>1, ConstantsAssumption, DivisionWithRest DEF Phases, TypeOK
<1>3. \A p \in Phases :
        queue'[p] = IF Back(newSlot, p) = 0 THEN Edit(fresh, now)
                    ELSE IF Back(newSlot, p) < newSlot - slot THEN <<>>
                    ELSE Edit(queue[p], now)
  BY DEF NextQueue, Back
<1>4. \A p \in Phases : Back(newSlot, p) \in 0 .. E - 1 /\ (Back(newSlot, p) = 0 <=> p = m)
  BY PhaseBack
<1>5. /\ Waits(fresh, Arrived(new), past)
      /\ \A k \in 1 .. Len(fresh) : fresh[k].needs = Needs[PackageAt(fresh, k)] \ HistoricPackages
      /\ \A j \in 1 .. Len(new) : Needs[PackageOf[new[j]]] # {} =>
           \E k \in 1 .. Len(fresh) : fresh[k].report = new[j]
  BY <1>1, QueueableItems
<1>6. Arrived(new) \subseteq Reports
  BY DEF Arrives, Arrived
<1>7. \A p \in Phases : Waits(queue[p], Reports, past)
  BY <1>1 DEF QueueInv
<1>. HIDE DEF fresh, m, past, now
<1>8. Waits(fresh, Reports, past)
  BY <1>5, <1>6, MoreSources
<1>9. fresh \in Seq(Items) /\ \A p \in Phases : queue[p] \in Seq(Items)
  BY <1>7, <1>8 DEF Waits
<1>10. ASSUME NEW p \in Phases PROVE Waits(queue'[p], Reports, past \cup now)
  <2>1. Waits(<<>>, Reports, past \cup now)
    BY DEF Waits
  <2>2. Waits(Edit(fresh, now), Reports, past \cup now)
    BY <1>8, EditWaits
  <2>3. Waits(Edit(queue[p], now), Reports, past \cup now)
    BY <1>7, EditWaits
  <2>4. queue'[p] \in {<<>>, Edit(fresh, now), Edit(queue[p], now)}
    BY <1>3
  <2>. QED
    BY <2>1, <2>2, <2>3, <2>4
<1>11. PICK from : EditedFrom(Edit(fresh, now), fresh, now, from)
  BY <1>9, EditLeaves
<1>12. ASSUME NEW k \in 1 .. Len(queue'[m])
       PROVE  /\ queue'[m][k].report \in Arrived(new)
              /\ queue'[m][k].needs = Needs[PackageAt(queue'[m], k)] \ (HistoricPackages \cup now)
  <2>. DEFINE e == Edit(fresh, now)
  <2>1. queue'[m] = e
    BY <1>2, <1>3, <1>4
  <2>. HIDE DEF e
  <2>2. /\ from[k] \in 1 .. Len(fresh)
        /\ e[k].report = fresh[from[k]].report
        /\ e[k].needs = fresh[from[k]].needs \ now
    BY <1>11, <1>12, <2>1 DEF EditedFrom, e
  <2>3. PackageAt(e, k) = PackageAt(fresh, from[k])
    BY <2>2 DEF PackageAt
  <2>4. fresh[from[k]].report \in Arrived(new)
    BY <1>5, <2>2 DEF Waits
  <2>5. e[k].needs = (Needs[PackageAt(e, k)] \ HistoricPackages) \ now
    BY <1>5, <2>2, <2>3
  <2>. QED
    BY <2>1, <2>2, <2>4, <2>5
<1>13. ASSUME NEW p \in Phases, p # m, NEW k \in 1 .. Len(queue'[p])
       PROVE  \E l \in 1 .. Len(queue[p]) :
                /\ queue'[p][k].report = queue[p][l].report
                /\ queue'[p][k].needs = queue[p][l].needs \ now
  <2>. DEFINE e == Edit(queue[p], now)
  <2>1. queue'[p] = e
    <3>1. queue'[p] # <<>>
      BY <1>13
    <3>. QED
      BY <3>1, <1>3, <1>4, <1>13
  <2>2. PICK to : EditedFrom(e, queue[p], now, to)
    BY <1>9, EditLeaves
  <2>. HIDE DEF e
  <2>3. /\ to[k] \in 1 .. Len(queue[p])
        /\ e[k].report = queue[p][to[k]].report
        /\ e[k].needs = queue[p][to[k]].needs \ now
    BY <1>13, <2>1, <2>2 DEF EditedFrom
  <2>. QED
    BY <2>1, <2>3
<1>14. ASSUME NEW j \in 1 .. Len(new), Needs[PackageOf[new[j]]] # {}, PackageOf[new[j]] \notin now
       PROVE  \E k \in 1 .. Len(queue'[m]) : queue'[m][k].report = new[j]
  <2>. DEFINE e == Edit(fresh, now)
  <2>1. queue'[m] = e
    BY <1>2, <1>3, <1>4
  <2>. HIDE DEF e
  <2>2. PICK i \in 1 .. Len(fresh) : fresh[i].report = new[j]
    BY <1>5, <1>14
  <2>3. PackageAt(fresh, i) \notin now
    BY <1>14, <2>2 DEF PackageAt
  <2>4. PICK k \in 1 .. Len(e) : from[k] = i
    BY <1>11, <2>3 DEF EditedFrom, e
  <2>5. e[k].report = new[j]
    BY <1>11, <2>2, <2>4 DEF EditedFrom, e
  <2>. QED
    BY <2>1, <2>5
<1>15. ASSUME NEW p \in Phases, NEW l \in 1 .. Len(queue[p]), PackageAt(queue[p], l) \notin now,
              ~ (readySlot[queue[p][l].report] + E <= newSlot)
       PROVE  \E k \in 1 .. Len(queue'[p]) : queue'[p][k].report = queue[p][l].report
  <2>. DEFINE r == readySlot[queue[p][l].report]
              i == Back(newSlot, p)
              e == Edit(queue[p], now)
  <2>1. queue[p][l].report \in Reports
    BY <1>7 DEF Waits
  <2>2. r \in Nat /\ r % E = p /\ r <= slot
    BY <1>1, <2>1 DEF PhaseInv, TypeOK
  <2>. HIDE DEF r
  <2>3. i \in 0 .. E - 1 /\ (i <= newSlot => (newSlot - i) % E = p)
    BY PhaseBack
  <2>. HIDE DEF i
  <2>4. ASSUME i < newSlot - slot PROVE FALSE
    <3>. DEFINE s == newSlot - i
    <3>1. i <= newSlot /\ s \in Nat /\ r < s /\ s <= newSlot
      BY <1>2, <2>2, <2>3, <2>4
    <3>2. s % E = p
      BY <2>3, <3>1
    <3>. HIDE DEF s
    <3>3. r + E <= s
      BY <1>2, <2>2, <3>1, <3>2, SameRest
    <3>4. r + E <= newSlot
      BY <1>2, <2>2, <3>1, <3>3
    <3>. QED
      BY <1>15, <3>4 DEF r
  <2>5. i # 0
    BY <2>4, <1>2
  <2>6. queue'[p] = e
    BY <1>3, <2>4, <2>5 DEF i
  <2>7. PICK to : EditedFrom(e, queue[p], now, to)
    BY <1>9, EditLeaves
  <2>. HIDE DEF e
  <2>8. PICK k \in 1 .. Len(e) : to[k] = l
    BY <1>15, <2>7 DEF EditedFrom
  <2>9. e[k].report = queue[p][l].report
    BY <2>7, <2>8 DEF EditedFrom
  <2>. QED
    BY <2>6, <2>9
<1>16. \A p \in Phases : \A k \in 1 .. Len(queue'[p]) :
         \/ /\ p = m
            /\ queue'[p][k].report \in Arrived(new)
            /\ queue'[p][k].needs =
                 Needs[PackageAt(queue'[p], k)] \ (HistoricPackages \cup now)
         \/ /\ p # m
            /\ \E l \in 1 .. Len(queue[p]) :
                 /\ queue'[p][k].report = queue[p][l].report
                 /\ queue'[p][k].needs = queue[p][l].needs \ now
  BY <1>12, <1>13
<1>17. \A p \in Phases : \A l \in 1 .. Len(queue[p]) :
         \/ PackageAt(queue[p], l) \in now
         \/ readySlot[queue[p][l].report] + E <= newSlot
         \/ \E k \in 1 .. Len(queue'[p]) : queue'[p][k].report = queue[p][l].report
  BY <1>15
<1>18. \A j \in 1 .. Len(new) :
         Needs[PackageOf[new[j]]] # {} /\ PackageOf[new[j]] \notin now =>
           \E k \in 1 .. Len(queue'[m]) : queue'[m][k].report = new[j]
  BY <1>14
<1>. QED
  BY <1>10, <1>16, <1>17, <1>18 DEF m, past, now, QueueEffect

-----------------------------------------------------------------------------
(* What a block does, part by part.                                        *)

(* Where the reports of a queue are.                                       *)
LEMMA QueuedAt ==
  ASSUME NEW q, \A p \in Phases : q[p] \in Seq(Items)
  PROVE  /\ UNION {{q[p][k] : k \in DOMAIN q[p]} : p \in Phases}
              = UNION {{q[p][k] : k \in 1 .. Len(q[p])} : p \in Phases}
         /\ \A r : r \in {item.report : item \in UNION {{q[p][k] : k \in DOMAIN q[p]} : p \in Phases}}
              <=> \E p \in Phases : \E k \in 1 .. Len(q[p]) : q[p][k].report = r
<1>1. \A p \in Phases : DOMAIN q[p] = 1 .. Len(q[p])
  OBVIOUS
<1>. DEFINE at(p) == {q[p][k] : k \in 1 .. Len(q[p])}
            all == UNION {at(p) : p \in Phases}
<1>2. UNION {{q[p][k] : k \in DOMAIN q[p]} : p \in Phases} = all
  BY <1>1
<1>3. \A x : x \in all <=> \E p \in Phases : \E k \in 1 .. Len(q[p]) : x = q[p][k]
  OBVIOUS
<1>. HIDE DEF all
<1>4. \A r : r \in {item.report : item \in all}
        <=> \E p \in Phases : \E k \in 1 .. Len(q[p]) : q[p][k].report = r
  BY <1>3
<1>. QED
  BY <1>2, <1>4 DEF all

(* Queued reports are those of the items at the phases.                    *)
LEMMA QueuedPackages ==
  ASSUME QueueInv
  PROVE  /\ \A p \in Phases : queue[p] \in Seq(Items)
         /\ \A r : r \in QueuedReports <=>
              \E p \in Phases : \E k \in 1 .. Len(queue[p]) : queue[p][k].report = r
         /\ PackagesOf(QueuedReports) = QueuePackages
<1>1. \A p \in Phases : queue[p] \in Seq(Items)
  BY DEF QueueInv, Waits
<1>2. \A r : r \in QueuedReports <=>
        \E p \in Phases : \E k \in 1 .. Len(queue[p]) : queue[p][k].report = r
  BY <1>1, QueuedAt DEF QueuedReports, QueuedItems
<1>3. PackagesOf(QueuedReports) \subseteq QueuePackages
  <2>1. ASSUME NEW r \in QueuedReports PROVE PackageOf[r] \in QueuePackages
    <3>1. PICK p \in Phases : \E k \in 1 .. Len(queue[p]) : queue[p][k].report = r
      BY <1>2
    <3>2. PackageOf[r] \in ItemPackages(queue[p])
      BY <3>1 DEF ItemPackages, PackageAt
    <3>. QED
      BY <3>2 DEF QueuePackages
  <2>. QED
    BY <2>1 DEF PackagesOf
<1>4. QueuePackages \subseteq PackagesOf(QueuedReports)
  <2>1. ASSUME NEW p \in Phases, NEW k \in 1 .. Len(queue[p])
        PROVE  PackageAt(queue[p], k) \in PackagesOf(QueuedReports)
    BY <1>2 DEF PackagesOf, PackageAt
  <2>. QED
    BY <2>1 DEF QueuePackages, ItemPackages
<1>. QED
  BY <1>1, <1>2, <1>3, <1>4

(* What a block does to a core.                                            *)
LEMMA CoreStep ==
  ASSUME PipelineInv, NEW newSlot \in Nat, NEW judged \in SUBSET Reports,
         NEW assured \in SUBSET Cores, NEW guaranteed \in SUBSET Reports,
         Block(newSlot, judged, assured, guaranteed), NEW c \in Cores
  PROVE  /\ \/ rho'[c] = NoReport /\ reportSlot'[c] \in Nat
            \/ rho'[c] \in guaranteed /\ CoreOf[rho'[c]] = c /\ reportSlot'[c] = newSlot
            \/ /\ rho'[c] = rho[c] /\ rho[c] # NoReport /\ reportSlot'[c] = reportSlot[c]
               /\ c \notin assured /\ rho[c] \notin condemned' /\ newSlot < reportSlot[c] + U
         /\ rho[c] # NoReport /\ rho'[c] # rho[c] =>
              rho[c] \in condemned' \/ newSlot >= reportSlot[c] + U \/ c \in assured
<1>. DEFINE d == RhoDagger(condemned')
            dd == RhoDoubleDagger(d, assured, newSlot)
<1>1. /\ reportSlot[c] \in Nat /\ U \in Nat
  BY ConstantsAssumption DEF PipelineInv, TypeOK
<1>2. /\ rho'[c] = IF GuaranteeFor(c, guaranteed) = {} THEN dd[c]
                   ELSE CHOOSE r \in guaranteed : CoreOf[r] = c
      /\ reportSlot'[c] = IF GuaranteeFor(c, guaranteed) # {} THEN newSlot
                          ELSE IF dd[c] = NoReport THEN 0 ELSE reportSlot[c]
  BY DEF Block, ReportOnCores
<1>3. d[c] = IF rho[c] \in condemned' THEN NoReport ELSE rho[c]
  BY DEF RhoDagger
<1>4. dd[c] = IF c \in assured \/ newSlot >= reportSlot[c] + U THEN NoReport ELSE d[c]
  BY DEF RhoDoubleDagger
<1>5. \A r \in guaranteed : dd[CoreOf[r]] = NoReport
  BY DEF Block, GuaranteesValid
<1>. HIDE DEF d, dd
<1>6. CASE GuaranteeFor(c, guaranteed) = {}
  BY <1>1, <1>2, <1>3, <1>4, <1>6
<1>7. CASE GuaranteeFor(c, guaranteed) # {}
  <2>1. rho'[c] \in guaranteed /\ CoreOf[rho'[c]] = c
    BY <1>2, <1>7 DEF GuaranteeFor
  <2>2. dd[c] = NoReport
    BY <1>5, <2>1
  <2>. QED
    BY <1>1, <1>2, <1>3, <1>4, <1>7, <2>1, <2>2
<1>. QED
  BY <1>6, <1>7

(* Keeping the last H entries drops first ones, never the last.            *)
LEMMA LastBlocksDrops ==
  ASSUME NEW s \in Seq(Entries), s # <<>>
  PROVE  /\ LastBlocks(s) \in Seq(Entries)
         /\ Len(LastBlocks(s)) <= H
         /\ \E d \in Nat :
              /\ d < Len(s)
              /\ Len(LastBlocks(s)) = Len(s) - d
              /\ \A k \in 1 .. Len(s) - d : LastBlocks(s)[k] = s[k + d]
<1>1. H \in Nat /\ H > 0
  BY ConstantsAssumption
<1>2. Len(s) \in Nat /\ Len(s) > 0
  OBVIOUS
<1>3. CASE Len(s) > H
  <2>1. LastBlocks(s) = SubSeq(s, Len(s) - H + 1, Len(s))
    BY <1>3 DEF LastBlocks
  <2>2. /\ Len(SubSeq(s, Len(s) - H + 1, Len(s))) = H
        /\ \A k \in 1 .. H : SubSeq(s, Len(s) - H + 1, Len(s))[k] = s[k + (Len(s) - H)]
        /\ SubSeq(s, Len(s) - H + 1, Len(s)) \in Seq(Entries)
    BY <1>1, <1>2, <1>3
  <2>3. Len(s) - H \in Nat /\ Len(s) - H < Len(s) /\ Len(s) - (Len(s) - H) = H
    BY <1>1, <1>2, <1>3
  <2>4. /\ Len(LastBlocks(s)) = Len(s) - (Len(s) - H) /\ Len(LastBlocks(s)) <= H
        /\ \A k \in 1 .. Len(s) - (Len(s) - H) : LastBlocks(s)[k] = s[k + (Len(s) - H)]
    BY <1>1, <2>1, <2>2, <2>3
  <2>. QED
    BY <2>1, <2>2, <2>3, <2>4
<1>4. CASE ~(Len(s) > H)
  <2>1. LastBlocks(s) = s
    BY <1>4 DEF LastBlocks
  <2>. QED
    BY <1>1, <1>2, <1>4, <2>1
<1>. QED
  BY <1>3, <1>4

(* The recent history moves on by one entry, and forgets some old ones.    *)
LEMMA RecentShifts ==
  ASSUME RecentType, NEW guaranteed \in SUBSET Reports, Remember(guaranteed)
  PROVE  /\ recent' \in Seq(Entries) /\ Len(recent') <= H
         /\ \E d \in Nat :
              /\ d <= Len(recent)
              /\ Len(recent') = Len(recent) + 1 - d
              /\ recent'[Len(recent) + 1 - d] =
                   [block |-> height + 1, packages |-> PackagesOf(guaranteed)]
              /\ \A k \in 1 .. Len(recent) - d : recent'[k] = recent[k + d]
<1>. DEFINE entry == [block |-> height + 1, packages |-> PackagesOf(guaranteed)]
            longer == Append(recent, entry)
            L == Len(recent)
<1>1. recent' = LastBlocks(longer)
  BY DEF Remember
<1>2. height \in Nat /\ recent \in Seq(Entries) /\ L \in Nat
  BY DEF RecentType
<1>3. PackagesOf(guaranteed) \subseteq Packages
  BY ConstantsAssumption DEF PackagesOf
<1>4. entry \in Entries
  BY <1>2, <1>3 DEF Entries
<1>5. /\ longer \in Seq(Entries) /\ longer # <<>> /\ Len(longer) = L + 1
      /\ longer[L + 1] = entry
      /\ \A i \in 1 .. L : longer[i] = recent[i]
  BY <1>2, <1>4
<1>. HIDE DEF longer, entry, L
<1>6. recent' \in Seq(Entries) /\ Len(recent') <= H
  BY <1>1, <1>5, LastBlocksDrops
<1>7. PICK d \in Nat : /\ d < Len(longer)
                       /\ Len(recent') = Len(longer) - d
                       /\ \A k \in 1 .. Len(longer) - d : recent'[k] = longer[k + d]
  BY <1>1, <1>5, LastBlocksDrops
<1>8. d <= L /\ Len(recent') = L + 1 - d
  BY <1>2, <1>5, <1>7
<1>9. recent'[L + 1 - d] = entry
  <2>1. L + 1 - d \in 1 .. L + 1 - d /\ (L + 1 - d) + d = L + 1
    BY <1>2, <1>8
  <2>. QED
    BY <1>5, <1>7, <2>1
<1>10. ASSUME NEW k \in 1 .. L - d PROVE recent'[k] = recent[k + d]
  <2>1. k \in 1 .. L + 1 - d /\ k + d \in 1 .. L
    BY <1>2, <1>8
  <2>2. k \in 1 .. Len(longer) - d
    <3>1. Len(longer) = L + 1
      BY <1>5
    <3>. QED
      BY <1>2, <2>1, <3>1
  <2>3. recent'[k] = longer[k + d]
    BY <1>7, <2>2
  <2>. QED
    BY <1>5, <2>1, <2>3
<1>. QED
  BY <1>6, <1>8, <1>9, <1>10 DEF L, entry

(* No package reported before passes the checks of a guarantee.            *)
LEMMA FreshGuarantees ==
  ASSUME RecentInv, NEW ddRho, NEW guaranteed \in SUBSET Reports,
         GuaranteesValid(guaranteed, ddRho), NEW r \in guaranteed
  PROVE  PackageOf[r] \notin reported /\ Anchor[PackageOf[r]] <= height
<1>. DEFINE p == PackageOf[r]
<1>1. p \notin RecentPackages /\ Anchor[p] \in RecentBlocks
  BY DEF GuaranteesValid, InPipeline
<1>2. PICK i \in 1 .. Len(recent) : recent[i].block = Anchor[p]
  BY <1>1 DEF RecentBlocks, RecentInv, RecentType
<1>3. ASSUME p \in reported PROVE FALSE
  <2>1. PICK j \in 1 .. Len(recent) : p \in recent[j].packages
    BY <1>2, <1>3 DEF RecentInv, AnchorBeforeReport
  <2>. QED
    BY <2>1, <1>1 DEF RecentPackages, RecentInv, RecentType
<1>. QED
  BY <1>2, <1>3 DEF RecentInv, NothingFromTheFuture

(* A block keeps the invariant of the recent history.                      *)
LEMMA RecentStep ==
  ASSUME RecentInv,
         NEW newSlot, NEW judged, NEW assured, NEW guaranteed \in SUBSET Reports,
         Block(newSlot, judged, assured, guaranteed)
  PROVE  RecentInv'
<1>. DEFINE entry == [block |-> height + 1, packages |-> PackagesOf(guaranteed)]
            longer == Append(recent, entry)
            L == Len(recent)
<1>1. /\ recent' = LastBlocks(longer)
      /\ reported' = reported \cup PackagesOf(guaranteed)
      /\ height' = height + 1
  BY DEF Block, Remember
<1>2. PackagesOf(guaranteed) \subseteq Packages
  BY ConstantsAssumption DEF PackagesOf
<1>3. height \in Nat /\ recent \in Seq(Entries) /\ L \in Nat /\ reported \subseteq Packages
  BY DEF RecentInv, RecentType
<1>4. entry \in Entries
  BY <1>2, <1>3 DEF Entries
<1>5. /\ longer \in Seq(Entries) /\ longer # <<>> /\ Len(longer) = L + 1
      /\ longer[L + 1] = entry
      /\ \A i \in 1 .. L : longer[i] = recent[i]
  BY <1>3, <1>4
<1>. HIDE DEF longer
<1>6. /\ recent' \in Seq(Entries)
       /\ \E d \in Nat : /\ d < L + 1
                         /\ Len(recent') = L + 1 - d
                         /\ \A k \in 1 .. L + 1 - d : recent'[k] = longer[k + d]
  <2>1. /\ LastBlocks(longer) \in Seq(Entries)
        /\ \E d \in Nat : /\ d < Len(longer)
                          /\ Len(LastBlocks(longer)) = Len(longer) - d
                          /\ \A k \in 1 .. Len(longer) - d : LastBlocks(longer)[k] = longer[k + d]
    BY <1>5, LastBlocksDrops
  <2>2. Len(longer) = L + 1 /\ recent' = LastBlocks(longer)
    BY <1>1, <1>5
  <2>. QED
    BY <2>1, <2>2
<1>7. PICK d \in Nat : /\ d < L + 1
                       /\ Len(recent') = L + 1 - d
                       /\ \A k \in 1 .. L + 1 - d : recent'[k] = longer[k + d]
  BY <1>6
<1>8. RecentType'
  BY <1>1, <1>2, <1>3, <1>6 DEF RecentType
<1>9. \A r \in guaranteed : PackageOf[r] \notin reported /\ Anchor[PackageOf[r]] <= height
  BY FreshGuarantees DEF Block
<1>10. \A p \in PackagesOf(guaranteed) : Anchor[p] <= height
  BY <1>9 DEF PackagesOf
<1>11. \A p \in Packages : Anchor[p] \in Nat
  BY ConstantsAssumption
<1>12. \A p \in reported' : p \in Packages /\ Anchor[p] < height + 1
  BY <1>1, <1>2, <1>3, <1>10, <1>11 DEF RecentInv, NothingFromTheFuture
<1>13. \A i \in 1 .. L : recent[i] \in Entries /\ recent[i].block <= height
  BY <1>3 DEF RecentInv, NothingFromTheFuture
<1>14. NothingFromTheFuture'
  <2>1. ASSUME NEW i \in 1 .. Len(recent') PROVE recent'[i].block <= height + 1
    <3>1. i + d \in 1 .. L + 1 /\ recent'[i] = longer[i + d]
      BY <1>3, <1>7
    <3>2. CASE i + d = L + 1
      <4>1. recent'[i] = entry
        BY <3>1, <3>2, <1>5
      <4>. QED
        BY <4>1, <1>3
    <3>3. CASE i + d \in 1 .. L
      <4>1. recent'[i].block <= height /\ recent'[i].block \in Nat
        BY <3>1, <3>3, <1>5, <1>13 DEF Entries
      <4>. QED
        BY <4>1, <1>3
    <3>4. \A n \in 1 .. L + 1 : n = L + 1 \/ n \in 1 .. L
      BY <1>3
    <3>. QED
      BY <3>1, <3>2, <3>3, <3>4, Zenon
  <2>. QED
    BY <2>1, <1>1, <1>12 DEF NothingFromTheFuture
<1>15. AnchorBeforeReport'
  <2>. SUFFICES ASSUME NEW p \in reported', NEW i \in 1 .. Len(recent'),
                       recent'[i].block = Anchor[p]
                PROVE  \E j \in 1 .. Len(recent') : i < j /\ p \in recent'[j].packages
    BY DEF AnchorBeforeReport
  <2>1. i \in 1 .. L + 1 - d /\ i + d \in 1 .. L + 1 /\ recent'[i] = longer[i + d]
    BY <1>3, <1>7
  <2>2. i + d \in 1 .. L
    <3>. SUFFICES ASSUME i + d = L + 1 PROVE FALSE
      BY <2>1, <1>3
    <3>1. recent'[i].block = height + 1
      BY <2>1, <1>5
    <3>2. Anchor[p] \in Nat /\ Anchor[p] < height + 1
      BY <1>11, <1>12
    <3>. QED
      BY <3>1, <3>2, <1>3
  <2>3. recent[i + d].block = Anchor[p]
    BY <2>1, <2>2, <1>5
  <2>4. CASE p \in reported
    <3>1. PICK j \in 1 .. L : i + d < j /\ p \in recent[j].packages
      BY <2>2, <2>3, <2>4 DEF RecentInv, AnchorBeforeReport
    <3>2. j - d \in 1 .. Len(recent') /\ i < j - d
      BY <3>1, <1>3, <1>7
    <3>3. recent'[j - d] = recent[j]
      BY <3>1, <3>2, <1>3, <1>5, <1>7
    <3>. QED
      BY <3>1, <3>2, <3>3
  <2>5. CASE p \in PackagesOf(guaranteed)
    <3>1. L + 1 - d \in 1 .. Len(recent') /\ i < L + 1 - d
      BY <2>2, <1>3, <1>7
    <3>2. (L + 1 - d) + d = L + 1 /\ L + 1 - d \in 1 .. L + 1 - d
      BY <3>1, <1>3, <1>7
    <3>3. recent'[L + 1 - d] = longer[L + 1]
      BY <3>2, <1>7
    <3>4. recent'[L + 1 - d].packages = PackagesOf(guaranteed)
      BY <3>3, <1>5
    <3>. QED
      BY <3>1, <3>4, <2>5
  <2>. QED
    BY <2>4, <2>5, <1>1
<1>. QED
  BY <1>8, <1>14, <1>15 DEF RecentInv


(* What a block does: the new reports are those of the assured cores, done *)
(* is what it accumulates.                                                 *)
BlockEffect(newSlot, assured, guaranteed, new, done) ==
  /\ newSlot \in Nat /\ newSlot > slot /\ slot' = newSlot
  /\ assured \in SUBSET Cores /\ guaranteed \in SUBSET Reports
  /\ condemned \subseteq condemned' /\ condemned' \subseteq Reports
  /\ Arrives(new) /\ Arrived(new) = {rho[c] : c \in assured}
  /\ \A c \in assured : rho[c] # NoReport /\ rho[c] \notin condemned'
  /\ Accumulates(new, done)
  /\ history' = NextHistory(done)
  /\ queue' = NextQueue(new, done, newSlot)
  /\ accumulated' = accumulated \o done
  /\ NoteReady(newSlot)
  /\ Remember(guaranteed) /\ height' = height + 1
  /\ reported' = reported \cup PackagesOf(guaranteed)
  /\ \A r, s \in guaranteed : r # s => PackageOf[r] # PackageOf[s]
  /\ \A r \in guaranteed : /\ PackageOf[r] \notin reported
                           /\ Needs[PackageOf[r]] \subseteq PackagesOf(guaranteed) \cup RecentPackages
  /\ rho' \in [Cores -> Reports \cup {NoReport}] /\ reportSlot' \in [Cores -> Nat]
  /\ \A c \in Cores :
       \/ rho'[c] = NoReport
       \/ rho'[c] \in guaranteed /\ CoreOf[rho'[c]] = c /\ reportSlot'[c] = newSlot
       \/ /\ rho'[c] = rho[c] /\ rho[c] # NoReport /\ reportSlot'[c] = reportSlot[c]
          /\ c \notin assured /\ rho[c] \notin condemned' /\ newSlot < reportSlot[c] + U
  /\ \A c \in Cores : rho[c] # NoReport /\ rho'[c] # rho[c] =>
       rho[c] \in condemned' \/ newSlot >= reportSlot[c] + U \/ c \in assured
  /\ \A r \in guaranteed : \E c \in Cores : rho'[c] = r

(* A block is as BlockEffect describes it.                                 *)
LEMMA BlockHasEffect ==
  ASSUME PipelineInv, NEW newSlot \in Nat, NEW judged \in SUBSET Reports,
         NEW assured \in SUBSET Cores, NEW guaranteed \in SUBSET Reports,
         Block(newSlot, judged, assured, guaranteed)
  PROVE  \E new, done : BlockEffect(newSlot, assured, guaranteed, new, done)
<1>. DEFINE new == NewlyAvailable(RhoDagger(condemned'), assured)
<1>1. /\ newSlot > slot /\ slot' = newSlot
      /\ condemned' = condemned \cup judged
      /\ \A c \in assured : RhoDagger(condemned')[c] # NoReport
      /\ Accumulate(new, newSlot)
      /\ NoteReady(newSlot) /\ Remember(guaranteed) /\ height' = height + 1
      /\ reported' = reported \cup PackagesOf(guaranteed)
  BY DEF Block
<1>2. condemned \subseteq condemned' /\ condemned' \in SUBSET Reports
  BY <1>1 DEF PipelineInv, TypeOK
<1>3. /\ Arrives(new) /\ Arrived(new) = {rho[c] : c \in assured}
      /\ \A c \in assured : rho[c] # NoReport /\ rho[c] \notin condemned'
  <2>. DEFINE J == condemned'
  <2>1. J \in SUBSET Reports /\ \A c \in assured : RhoDagger(J)[c] # NoReport
    BY <1>1, <1>2
  <2>. HIDE DEF J
  <2>2. /\ Arrives(NewlyAvailable(RhoDagger(J), assured))
        /\ Arrived(NewlyAvailable(RhoDagger(J), assured)) = {rho[c] : c \in assured}
        /\ \A c \in assured : rho[c] # NoReport /\ rho[c] \notin J
    BY <2>1, AvailableArrives
  <2>. QED
    BY <2>2 DEF J
<1>. HIDE DEF new
<1>4. PICK done : /\ Accumulates(new, done)
                  /\ history' = NextHistory(done)
                  /\ queue' = NextQueue(new, done, newSlot)
                  /\ accumulated' = accumulated \o done
  BY <1>1, <1>3, AccumulateStep
<1>5. /\ \A r, s \in guaranteed : r # s => PackageOf[r] # PackageOf[s]
      /\ \A r \in guaranteed : Needs[PackageOf[r]] \subseteq PackagesOf(guaranteed) \cup RecentPackages
  BY DEF Block, GuaranteesValid
<1>6. \A r \in guaranteed : PackageOf[r] \notin reported
  BY FreshGuarantees DEF Block, PipelineInv
<1>7. \A c \in Cores :
        /\ \/ rho'[c] = NoReport /\ reportSlot'[c] \in Nat
           \/ rho'[c] \in guaranteed /\ CoreOf[rho'[c]] = c /\ reportSlot'[c] = newSlot
           \/ /\ rho'[c] = rho[c] /\ rho[c] # NoReport /\ reportSlot'[c] = reportSlot[c]
              /\ c \notin assured /\ rho[c] \notin condemned' /\ newSlot < reportSlot[c] + U
        /\ rho[c] # NoReport /\ rho'[c] # rho[c] =>
             rho[c] \in condemned' \/ newSlot >= reportSlot[c] + U \/ c \in assured
  BY CoreStep
<1>8. \A c \in Cores : rho'[c] \in Reports \cup {NoReport} /\ reportSlot'[c] \in Nat
  <2>1. \A c \in Cores : rho[c] \in Reports \cup {NoReport} /\ reportSlot[c] \in Nat
    BY DEF PipelineInv, TypeOK
  <2>. QED
    BY <1>7, <2>1
<1>9. rho' \in [Cores -> Reports \cup {NoReport}] /\ reportSlot' \in [Cores -> Nat]
  <2>1. rho' = [c \in Cores |-> rho'[c]] /\ reportSlot' = [c \in Cores |-> reportSlot'[c]]
    BY DEF Block, ReportOnCores
  <2>. QED
    BY <1>8, <2>1
<1>10. ASSUME NEW r \in guaranteed PROVE \E c \in Cores : rho'[c] = r
  <2>. DEFINE c == CoreOf[r]
  <2>1. c \in Cores
    BY ConstantsAssumption
  <2>2. GuaranteeFor(c, guaranteed) # {} /\ \A s \in guaranteed : CoreOf[s] = c => s = r
    BY DEF GuaranteeFor, Block, GuaranteesValid
  <2>. HIDE DEF c
  <2>3. rho'[c] = CHOOSE s \in guaranteed : CoreOf[s] = c
    BY <2>1, <2>2 DEF Block, ReportOnCores
  <2>4. rho'[c] = r
    BY <2>2, <2>3 DEF c
  <2>. QED
    BY <2>1, <2>4
<1>11. BlockEffect(newSlot, assured, guaranteed, new, done)
  BY <1>1, <1>2, <1>3, <1>4, <1>5, <1>6, <1>7, <1>9, <1>10 DEF BlockEffect
<1>. QED
  BY <1>11

-----------------------------------------------------------------------------
(* Every part of the invariant is kept.                                    *)

(* Where the packages are after a block: what it accumulates was on an     *)
(* assured core or queued, what it queues too and is not accumulated.      *)
LEMMA EffectOnPlaces ==
  ASSUME PipelineInv, NEW newSlot, NEW assured, NEW guaranteed, NEW new, NEW done,
         BlockEffect(newSlot, assured, guaranteed, new, done)
  PROVE  /\ done \in Seq(Reports)
         /\ \A k \in 1 .. Len(done) :
              done[k] \in QueuedReports \/ \E c \in assured : done[k] = rho[c]
         /\ AccumulatedPackages' = AccumulatedPackages \cup PackagesIn(done)
         /\ PackagesIn(done) \subseteq {PackageOf[rho[c]] : c \in assured} \cup QueuePackages
         /\ PackagesIn(done) \cap AccumulatedPackages = {}
         /\ QueuePackages' \subseteq {PackageOf[rho[c]] : c \in assured} \cup QueuePackages
         /\ QueuePackages' \cap AccumulatedPackages' = {}
<1>1. /\ InOrder(done, Arrived(new) \cup QueuedReports, AccumulatedPackages)
      /\ Arrived(new) = {rho[c] : c \in assured}
      /\ Arrives(new) /\ queue' = NextQueue(new, done, newSlot)
      /\ newSlot \in Nat /\ newSlot > slot
      /\ accumulated' = accumulated \o done
  BY DEF BlockEffect, Accumulates
<1>2. QueueInv /\ accumulated \in Seq(Reports)
  BY DEF PipelineInv, TypeOK
<1>3. done \in Seq(Reports) /\ DOMAIN done = 1 .. Len(done)
  BY <1>1 DEF InOrder
<1>4. \A k \in 1 .. Len(done) : done[k] \in QueuedReports \/ \E c \in assured : done[k] = rho[c]
  BY <1>1 DEF InOrder
<1>5. AccumulatedPackages' = AccumulatedPackages \cup PackagesIn(done)
  <2>1. PackagesIn(accumulated \o done) = PackagesIn(accumulated) \cup PackagesIn(done)
    BY <1>2, <1>3, PackagesOfConcatenation
  <2>. QED
    BY <1>1, <2>1 DEF AccumulatedPackages, PackagesIn
<1>6. PackagesIn(done) \subseteq {PackageOf[rho[c]] : c \in assured} \cup QueuePackages
  <2>1. \A r \in QueuedReports : PackageOf[r] \in QueuePackages
    BY <1>2, QueuedPackages DEF PackagesOf
  <2>. QED
    BY <1>3, <1>4, <2>1 DEF PackagesIn
<1>7. PackagesIn(done) \cap AccumulatedPackages = {}
  BY <1>1, <1>3 DEF InOrder, PackagesIn
<1>8. /\ \A p \in Phases :
           Waits(queue'[p], Reports, AccumulatedPackages \cup PackagesIn(done))
      /\ \A p \in Phases : \A k \in 1 .. Len(queue'[p]) :
           \/ queue'[p][k].report \in Arrived(new)
           \/ \E l \in 1 .. Len(queue[p]) : queue'[p][k].report = queue[p][l].report
  <2>1. QueueEffect(newSlot, new, done)
    BY <1>1, QueueStep
  <2>2. \A p \in Phases :
          Waits(queue'[p], Reports, AccumulatedPackages \cup PackagesIn(done))
    BY <2>1 DEF QueueEffect
  <2>3. ASSUME NEW p \in Phases, NEW k \in 1 .. Len(queue'[p])
        PROVE  \/ queue'[p][k].report \in Arrived(new)
               \/ \E l \in 1 .. Len(queue[p]) : queue'[p][k].report = queue[p][l].report
    <3>1. \/ /\ p = newSlot % E
             /\ queue'[p][k].report \in Arrived(new)
             /\ queue'[p][k].needs =
                  Needs[PackageAt(queue'[p], k)] \ (HistoricPackages \cup PackagesIn(done))
          \/ /\ p # newSlot % E
             /\ \E l \in 1 .. Len(queue[p]) :
                  /\ queue'[p][k].report = queue[p][l].report
                  /\ queue'[p][k].needs = queue[p][l].needs \ PackagesIn(done)
      BY <2>1, Zenon DEF QueueEffect
    <3>. QED
      BY <3>1, Zenon
  <2>. QED
    BY <2>2, <2>3
<1>9. ASSUME NEW p \in Phases, NEW k \in 1 .. Len(queue'[p])
      PROVE  /\ PackageAt(queue'[p], k) \in {PackageOf[rho[c]] : c \in assured} \cup QueuePackages
             /\ PackageAt(queue'[p], k) \notin AccumulatedPackages'
  <2>1. PackageAt(queue'[p], k) \notin AccumulatedPackages'
    BY <1>5, <1>8 DEF Waits
  <2>2. CASE queue'[p][k].report \in Arrived(new)
    BY <1>1, <2>1, <2>2 DEF PackageAt
  <2>3. CASE \E l \in 1 .. Len(queue[p]) : queue'[p][k].report = queue[p][l].report
    BY <2>1, <2>3 DEF PackageAt, QueuePackages, ItemPackages
  <2>. QED
    BY <1>8, <2>2, <2>3
<1>10. \A x \in QueuePackages' : \E p \in Phases : \E k \in 1 .. Len(queue'[p]) : x = PackageAt(queue'[p], k)
  BY DEF QueuePackages, ItemPackages, PackageAt
<1>. QED
  BY <1>3, <1>4, <1>5, <1>6, <1>7, <1>9, <1>10

(* Packages stay in one place.                                             *)
LEMMA PlacesStep ==
  ASSUME PipelineInv, NEW newSlot, NEW assured, NEW guaranteed, NEW new, NEW done,
         BlockEffect(newSlot, assured, guaranteed, new, done)
  PROVE  CoresInv' /\ PlacesApart' /\ AllReported' /\ PastInOrder' /\ HistoryTruthful'
<1>1. /\ done \in Seq(Reports)
      /\ AccumulatedPackages' = AccumulatedPackages \cup PackagesIn(done)
      /\ PackagesIn(done) \subseteq {PackageOf[rho[c]] : c \in assured} \cup QueuePackages
      /\ QueuePackages' \subseteq {PackageOf[rho[c]] : c \in assured} \cup QueuePackages
  BY EffectOnPlaces
<1>2. /\ \A c \in Cores :
           \/ rho'[c] = NoReport
           \/ rho'[c] \in guaranteed /\ CoreOf[rho'[c]] = c /\ reportSlot'[c] = newSlot
           \/ /\ rho'[c] = rho[c] /\ rho[c] # NoReport /\ reportSlot'[c] = reportSlot[c]
              /\ c \notin assured /\ newSlot < reportSlot[c] + U
      /\ \A c \in assured : rho[c] # NoReport /\ c \in Cores
      /\ \A r, s \in guaranteed : r # s => PackageOf[r] # PackageOf[s]
      /\ \A r \in guaranteed : PackageOf[r] \notin reported
      /\ guaranteed \subseteq Reports
      /\ newSlot > slot /\ slot' = newSlot /\ newSlot \in Nat
      /\ reported' = reported \cup PackagesOf(guaranteed)
  BY DEF BlockEffect
<1>3. /\ \A c \in Cores : rho[c] # NoReport =>
           CoreOf[rho[c]] = c /\ reportSlot[c] <= slot /\ slot < reportSlot[c] + U
      /\ \A c, d \in Cores :
           /\ rho[c] # NoReport /\ rho[d] # NoReport
           /\ PackageOf[rho[c]] = PackageOf[rho[d]]
           => c = d
  BY DEF PipelineInv, CoresInv
<1>4. /\ slot \in Nat /\ U \in Nat \ {0} /\ NoReport \notin Reports
      /\ \A c \in Cores : reportSlot[c] \in Nat
  BY ConstantsAssumption DEF PipelineInv, TypeOK
<1>5. \A c \in Cores : rho[c] # NoReport =>
        /\ PackageOf[rho[c]] \notin QueuePackages \cup AccumulatedPackages
        /\ PackageOf[rho[c]] \in reported
  BY DEF PipelineInv, PlacesApart, AllReported, PackagesOf, Pending
<1>6. QueuePackages \cup AccumulatedPackages \subseteq reported
  BY DEF PipelineInv, AllReported
<1>7. CoresInv'
  <2>1. ASSUME NEW c \in Cores, rho'[c] # NoReport
        PROVE  CoreOf[rho'[c]] = c /\ reportSlot'[c] <= slot' /\ slot' < reportSlot'[c] + U
    <3>1. CASE rho'[c] \in guaranteed /\ CoreOf[rho'[c]] = c /\ reportSlot'[c] = newSlot
      BY <3>1, <1>2, <1>4
    <3>2. CASE rho'[c] = rho[c] /\ rho[c] # NoReport /\ reportSlot'[c] = reportSlot[c]
               /\ newSlot < reportSlot[c] + U
      BY <3>2, <1>2, <1>3, <1>4
    <3>. QED
      BY <1>2, <2>1, <3>1, <3>2
  <2>2. ASSUME NEW c \in Cores, NEW d \in Cores, rho'[c] # NoReport, rho'[d] # NoReport,
               PackageOf[rho'[c]] = PackageOf[rho'[d]]
        PROVE  c = d
    <3>1. \A e \in {c, d} : \/ rho'[e] \in guaranteed /\ CoreOf[rho'[e]] = e /\ PackageOf[rho'[e]] \notin reported
                            \/ rho'[e] = rho[e] /\ rho[e] # NoReport /\ PackageOf[rho[e]] \in reported
      BY <1>2, <1>5, <2>2
    <3>. QED
      BY <3>1, <1>2, <1>3, <2>2
  <2>. QED
    BY <2>1, <2>2 DEF CoresInv
<1>8. \A x \in PackagesOf(Pending)' :
        \/ x \in PackagesOf(guaranteed) /\ x \notin reported
        \/ \E c \in Cores : rho[c] # NoReport /\ c \notin assured /\ x = PackageOf[rho[c]]
  BY <1>2 DEF PackagesOf, Pending
<1>9. PlacesApart'
  <2>1. \A c \in assured : PackageOf[rho[c]] \in reported
    BY <1>2, <1>5
  <2>2. ASSUME NEW x \in PackagesOf(Pending)', x \in QueuePackages' \cup AccumulatedPackages' PROVE FALSE
    <3>1. x \in {PackageOf[rho[c]] : c \in assured} \cup QueuePackages \cup AccumulatedPackages
      BY <1>1, <2>2
    <3>2. x \in reported
      BY <3>1, <2>1, <1>6
    <3>3. PICK c \in Cores : rho[c] # NoReport /\ c \notin assured /\ x = PackageOf[rho[c]]
      BY <3>2, <1>8
    <3>4. PICK d \in assured : x = PackageOf[rho[d]]
      BY <3>1, <3>3, <1>5
    <3>5. d \in Cores /\ rho[d] # NoReport
      BY <1>2
    <3>6. c = d
      BY <3>3, <3>4, <3>5, <1>3
    <3>. QED
      BY <3>3, <3>4, <3>6
  <2>. QED
    BY <2>2 DEF PlacesApart
<1>10. AllReported'
  <2>1. \A c \in assured : PackageOf[rho[c]] \in reported
    BY <1>2, <1>5
  <2>2. QueuePackages' \cup AccumulatedPackages' \subseteq reported
    BY <1>1, <1>6, <2>1
  <2>3. PackagesOf(Pending)' \subseteq reported'
    BY <1>2, <1>5, <1>8
  <2>4. reported \subseteq reported'
    BY <1>2
  <2>. QED
    BY <2>2, <2>3, <2>4 DEF AllReported
<1>11. PastInOrder'
  <2>1. InOrder(accumulated, Reports, {})
    BY DEF PipelineInv, PastInOrder
  <2>2. InOrder(done, Arrived(new) \cup QueuedReports, AccumulatedPackages) /\ accumulated' = accumulated \o done
    BY DEF BlockEffect, Accumulates
  <2>3. InOrder(done, Reports, {} \cup PackagesIn(accumulated))
    <3>1. \A k \in 1 .. Len(done) : done[k] \in Reports
      BY <1>1
    <3>2. {} \cup PackagesIn(accumulated) = AccumulatedPackages
      BY DEF AccumulatedPackages
    <3>. HIDE DEF AccumulatedPackages
    <3>3. InOrder(done, Reports, AccumulatedPackages)
      BY <2>2, <3>1 DEF InOrder
    <3>. QED
      BY <3>2, <3>3
  <2>4. InOrder(accumulated \o done, Reports, {})
    BY <2>1, <2>3, ConcatenationInOrder
  <2>. QED
    BY <2>2, <2>4 DEF PastInOrder
<1>12. HistoryTruthful'
  <2>1. history' = NextHistory(done) /\ HistoricPackages \subseteq AccumulatedPackages
    BY DEF BlockEffect, PipelineInv, HistoryTruthful
  <2>2. E \in Nat
    BY ConstantsAssumption
  <2>3. \A i \in 1 .. E : history'[i] = IF i = E THEN PackagesIn(done) ELSE history[i + 1]
    BY <2>1 DEF NextHistory
  <2>4. \A i \in 1 .. E : i # E => i + 1 \in 1 .. E
    BY <2>2
  <2>5. \A i \in 1 .. E : history'[i] \subseteq PackagesIn(done) \cup HistoricPackages
    BY <2>3, <2>4 DEF HistoricPackages
  <2>6. HistoricPackages' \subseteq PackagesIn(done) \cup HistoricPackages
    BY <2>5 DEF HistoricPackages
  <2>. QED
    BY <2>1, <2>6, <1>1 DEF HistoryTruthful
<1>. QED
  BY <1>7, <1>9, <1>10, <1>11, <1>12

(* A queued item is a new one, or an old one without what is done.         *)
LEMMA EffectOnItem ==
  ASSUME PipelineInv, NEW newSlot, NEW assured, NEW guaranteed, NEW new, NEW done,
         BlockEffect(newSlot, assured, guaranteed, new, done),
         NEW p \in Phases, NEW k \in 1 .. Len(queue'[p])
  PROVE  \/ /\ p = newSlot % E
            /\ \E c \in assured : queue'[p][k].report = rho[c]
            /\ queue'[p][k].needs =
                 Needs[PackageAt(queue'[p], k)] \ (HistoricPackages \cup PackagesIn(done))
         \/ /\ p # newSlot % E
            /\ \E l \in 1 .. Len(queue[p]) :
                 /\ queue'[p][k].report = queue[p][l].report
                 /\ queue'[p][k].needs = queue[p][l].needs \ PackagesIn(done)
<1>1. /\ Arrived(new) = {rho[c] : c \in assured}
      /\ Arrives(new) /\ queue' = NextQueue(new, done, newSlot)
      /\ newSlot \in Nat /\ newSlot > slot
  BY DEF BlockEffect
<1>2. QueueEffect(newSlot, new, done)
  BY <1>1, QueueStep
<1>3. \/ /\ p = newSlot % E
         /\ queue'[p][k].report \in Arrived(new)
         /\ queue'[p][k].needs =
              Needs[PackageAt(queue'[p], k)] \ (HistoricPackages \cup PackagesIn(done))
      \/ /\ p # newSlot % E
         /\ \E l \in 1 .. Len(queue[p]) :
              /\ queue'[p][k].report = queue[p][l].report
              /\ queue'[p][k].needs = queue[p][l].needs \ PackagesIn(done)
  BY <1>2, Zenon DEF QueueEffect
<1>4. queue'[p][k].report \in Arrived(new) => \E c \in assured : queue'[p][k].report = rho[c]
  BY <1>1
<1>. QED
  BY <1>3, <1>4, Zenon

(* The queue keeps every package once, with what it waits for.             *)
LEMMA QueueInvStep ==
  ASSUME PipelineInv, NEW newSlot, NEW assured, NEW guaranteed, NEW new, NEW done,
         BlockEffect(newSlot, assured, guaranteed, new, done)
  PROVE  QueueInv'
<1>1. /\ Arrives(new) /\ queue' = NextQueue(new, done, newSlot)
      /\ newSlot \in Nat /\ newSlot > slot /\ assured \subseteq Cores
      /\ \A c \in assured : rho[c] # NoReport
  BY DEF BlockEffect
<1>2. AccumulatedPackages' = AccumulatedPackages \cup PackagesIn(done)
  BY EffectOnPlaces
<1>3. \A p \in Phases : Waits(queue'[p], Reports, AccumulatedPackages')
  <2>1. QueueEffect(newSlot, new, done)
    BY <1>1, QueueStep
  <2>. QED
    BY <1>2, <2>1 DEF QueueEffect
<1>4. \A p, q \in Phases : p # q => ItemPackages(queue[p]) \cap ItemPackages(queue[q]) = {}
  BY DEF PipelineInv, QueueInv
<1>5. \A c \in assured : PackageOf[rho[c]] \notin QueuePackages
  BY <1>1 DEF PipelineInv, PlacesApart, PackagesOf, Pending
<1>6. ASSUME NEW p \in Phases, NEW k \in 1 .. Len(queue'[p])
      PROVE  \/ p = newSlot % E /\ PackageAt(queue'[p], k) \notin QueuePackages
             \/ p # newSlot % E /\ PackageAt(queue'[p], k) \in ItemPackages(queue[p])
  BY <1>5, EffectOnItem DEF PackageAt, ItemPackages
<1>7. \A p \in Phases : ItemPackages(queue[p]) \subseteq QueuePackages
  BY DEF QueuePackages
<1>8. ASSUME NEW p \in Phases, NEW q \in Phases, p # q,
             NEW x, x \in ItemPackages(queue'[p]), x \in ItemPackages(queue'[q])
      PROVE  FALSE
  <2>1. PICK k \in 1 .. Len(queue'[p]) : x = PackageAt(queue'[p], k)
    BY <1>8 DEF ItemPackages, PackageAt
  <2>2. PICK l \in 1 .. Len(queue'[q]) : x = PackageAt(queue'[q], l)
    BY <1>8 DEF ItemPackages, PackageAt
  <2>. QED
    BY <2>1, <2>2, <1>4, <1>6, <1>7, <1>8
<1>9. \A p, q \in Phases : p # q => ItemPackages(queue'[p]) \cap ItemPackages(queue'[q]) = {}
  BY <1>8
<1>. QED
  BY <1>3, <1>9 DEF QueueInv

(* A block leaves no item waiting for what is accumulated.                 *)
LEMMA WaitsExactlyStep ==
  ASSUME PipelineInv, NEW newSlot, NEW assured, NEW guaranteed, NEW new, NEW done,
         BlockEffect(newSlot, assured, guaranteed, new, done)
  PROVE  WaitsExactly'
<1>1. AccumulatedPackages' = AccumulatedPackages \cup PackagesIn(done)
  BY EffectOnPlaces
<1>2. QueueInv'
  BY QueueInvStep
<1>3. HistoricPackages \subseteq AccumulatedPackages
  BY DEF PipelineInv, HistoryTruthful
<1>4. ASSUME NEW c \in assured
      PROVE  Needs[PackageOf[rho[c]]] \cap AccumulatedPackages \subseteq HistoricPackages
  <2>1. c \in Cores /\ rho[c] # NoReport
    BY DEF BlockEffect
  <2>. QED
    BY <2>1 DEF PipelineInv, NeedsHistoric, HistoricPackages
<1>5. ASSUME NEW p \in Phases, NEW k \in 1 .. Len(queue'[p])
      PROVE  queue'[p][k].needs = Needs[PackageOf[queue'[p][k].report]] \ AccumulatedPackages'
  <2>1. CASE /\ \E c \in assured : queue'[p][k].report = rho[c]
             /\ queue'[p][k].needs =
                  Needs[PackageAt(queue'[p], k)] \ (HistoricPackages \cup PackagesIn(done))
    BY <2>1, <1>1, <1>3, <1>4 DEF PackageAt
  <2>2. CASE \E l \in 1 .. Len(queue[p]) :
               /\ queue'[p][k].report = queue[p][l].report
               /\ queue'[p][k].needs = queue[p][l].needs \ PackagesIn(done)
    <3>1. PICK l \in 1 .. Len(queue[p]) :
                 /\ queue'[p][k].report = queue[p][l].report
                 /\ queue'[p][k].needs = queue[p][l].needs \ PackagesIn(done)
      BY <2>2
    <3>2. queue[p][l] \in QueuedItems
      BY QueuedWait DEF PipelineInv
    <3>3. queue[p][l].needs = Needs[PackageOf[queue[p][l].report]] \ AccumulatedPackages
      BY <3>2 DEF PipelineInv, WaitsExactly, AccumulatedPackages
    <3>. QED
      BY <1>1, <3>1, <3>3
  <2>. QED
    BY <2>1, <2>2, EffectOnItem
<1>6. \A p \in Phases : DOMAIN queue'[p] = 1 .. Len(queue'[p])
  BY <1>2 DEF QueueInv, Waits
<1>7. ASSUME NEW item \in QueuedItems'
      PROVE  item.needs = Needs[PackageOf[item.report]] \ AccumulatedPackages'
  <2>1. PICK p \in Phases : \E k \in DOMAIN queue'[p] : item = queue'[p][k]
    BY <1>7 DEF QueuedItems
  <2>. QED
    BY <1>5, <1>6, <2>1
<1>. QED
  BY <1>7 DEF WaitsExactly, AccumulatedPackages

(* Items that reach the age of an epoch are gone.                          *)
LEMMA PhaseInvStep ==
  ASSUME PipelineInv, NEW newSlot, NEW assured, NEW guaranteed, NEW new, NEW done,
         BlockEffect(newSlot, assured, guaranteed, new, done)
  PROVE  PhaseInv'
<1>1. /\ newSlot \in Nat /\ newSlot > slot /\ slot' = newSlot /\ slot \in Nat
      /\ \A c \in assured : rho[c] # NoReport /\ c \in Cores
      /\ NoteReady(newSlot)
  BY DEF BlockEffect, PipelineInv, TypeOK
<1>2. QueueInv /\ QueueInv'
  BY QueueInvStep DEF PipelineInv
<1>3. ASSUME NEW p \in Phases, NEW k \in 1 .. Len(queue'[p])
      PROVE  readySlot'[queue'[p][k].report] % E = p /\ readySlot'[queue'[p][k].report] <= slot'
  <2>. DEFINE r == queue'[p][k].report
  <2>1. r \in Reports
    BY <1>2 DEF QueueInv, Waits
  <2>2. r \in QueuedReports'
    <3>1. \A i \in Phases : queue'[i] \in Seq(Items)
      BY <1>2 DEF QueueInv, Waits
    <3>. QED
      BY <3>1, QueuedAt DEF QueuedReports, QueuedItems
  <2>3. readySlot'[r] = IF r \in QueuedReports THEN readySlot[r] ELSE newSlot
    BY <1>1, <2>1, <2>2 DEF NoteReady
  <2>. HIDE DEF r
  <2>4. CASE p = newSlot % E /\ \E c \in assured : r = rho[c]
    <3>1. r \notin QueuedReports
      <4>1. PackageOf[r] \notin QueuePackages
        BY <1>1, <2>4 DEF PipelineInv, PlacesApart, PackagesOf, Pending
      <4>. QED
        BY <4>1, <1>2, QueuedPackages DEF PackagesOf
    <3>. QED
      BY <1>1, <2>3, <2>4, <3>1 DEF r
  <2>5. CASE \E l \in 1 .. Len(queue[p]) : r = queue[p][l].report
    <3>1. PICK l \in 1 .. Len(queue[p]) : r = queue[p][l].report
      BY <2>5
    <3>2. r \in QueuedReports
      BY <1>2, <3>1, QueuedWait
    <3>3. readySlot[r] % E = p /\ readySlot[r] <= slot /\ readySlot[r] \in Nat
      BY <2>1, <3>1 DEF PipelineInv, PhaseInv, TypeOK
    <3>4. readySlot'[r] = readySlot[r] /\ readySlot[r] <= slot'
      BY <1>1, <2>3, <3>2, <3>3
    <3>. QED
      BY <3>3, <3>4 DEF r
  <2>6. \/ p = newSlot % E /\ \E c \in assured : r = rho[c]
        \/ \E l \in 1 .. Len(queue[p]) : r = queue[p][l].report
    BY EffectOnItem DEF r
  <2>. QED
    BY <2>4, <2>5, <2>6
<1>. QED
  BY <1>3 DEF PhaseInv

(* The history moves on by one set.                                        *)
LEMMA HistoryShifts ==
  ASSUME PipelineInv, NEW newSlot, NEW assured, NEW guaranteed, NEW new, NEW done,
         BlockEffect(newSlot, assured, guaranteed, new, done)
  PROVE  /\ \A q \in PackagesIn(done) : q \in history'[E]
         /\ \A i \in 2 .. E : history[i] = history'[i - 1]
         /\ history' \in [1 .. E -> SUBSET Packages]
<1>1. E \in Nat /\ E # 0
  BY ConstantsAssumption
<1>2. history' = NextHistory(done) /\ history \in [1 .. E -> SUBSET Packages]
  BY DEF BlockEffect, PipelineInv, TypeOK
<1>3. \A i \in 1 .. E : history'[i] = IF i = E THEN PackagesIn(done) ELSE history[i + 1]
  BY <1>2 DEF NextHistory
<1>4. E \in 1 .. E
  BY <1>1
<1>5. ASSUME NEW i \in 2 .. E PROVE history[i] = history'[i - 1]
  <2>1. i - 1 \in 1 .. E /\ i - 1 # E /\ (i - 1) + 1 = i
    BY <1>1
  <2>. QED
    BY <1>3, <2>1
<1>6. history' \in [1 .. E -> SUBSET Packages]
  <2>1. done \in Seq(Reports)
    BY EffectOnPlaces
  <2>2. PackagesIn(done) \subseteq Packages
    BY <2>1, ConstantsAssumption DEF PackagesIn
  <2>3. \A i \in 1 .. E : i # E => i + 1 \in 1 .. E
    BY <1>1
  <2>4. \A i \in 1 .. E : history'[i] \in SUBSET Packages
    BY <1>2, <1>3, <2>2, <2>3
  <2>5. history' = [i \in 1 .. E |-> history'[i]]
    BY <1>2 DEF NextHistory
  <2>. QED
    BY <2>4, <2>5
<1>. QED
  BY <1>3, <1>4, <1>5, <1>6

(* What is in a recent block or on a core is not forgotten by the history. *)
LEMMA HistoryStep ==
  ASSUME PipelineInv, NEW newSlot, NEW assured, NEW guaranteed, NEW new, NEW done,
         BlockEffect(newSlot, assured, guaranteed, new, done)
  PROVE  RecentHistoric' /\ NeedsHistoric'
<1>. DEFINE L == Len(recent)
            now == PackagesIn(done)
<1>1. /\ E \in Nat \ {0} /\ H \in Nat \ {0} /\ U \in Nat \ {0} /\ H + U - 1 <= E
  BY ConstantsAssumption, HistoryIsLongEnough
<1>2. /\ recent \in Seq(Entries) /\ L \in Nat /\ L <= H
      /\ slot \in Nat /\ \A c \in Cores : reportSlot[c] \in Nat
  BY DEF PipelineInv, TypeOK, Entries
<1>3. /\ \A q \in now : q \in history'[E]
      /\ \A i \in 2 .. E : history[i] = history'[i - 1]
  BY HistoryShifts
<1>4. /\ AccumulatedPackages' = AccumulatedPackages \cup now
      /\ AccumulatedPackages \cup now \subseteq reported
  <2>1. /\ AccumulatedPackages' = AccumulatedPackages \cup now
        /\ now \subseteq {PackageOf[rho[c]] : c \in assured} \cup QueuePackages
    BY EffectOnPlaces
  <2>2. \A c \in assured : PackageOf[rho[c]] \in PackagesOf(Pending)
    BY DEF BlockEffect, PackagesOf, Pending
  <2>. QED
    BY <2>1, <2>2 DEF PipelineInv, AllReported
<1>5. PackagesOf(guaranteed) \cap reported = {}
  BY DEF BlockEffect, PackagesOf
<1>6. PICK d \in Nat :
        /\ d <= L
        /\ Len(recent') = L + 1 - d
        /\ recent'[L + 1 - d] = [block |-> height + 1, packages |-> PackagesOf(guaranteed)]
        /\ \A k \in 1 .. L - d : recent'[k] = recent[k + d]
  BY RecentShifts DEF BlockEffect, PipelineInv, RecentInv
<1>7. Len(recent') <= H
  BY RecentShifts DEF BlockEffect, PipelineInv, RecentInv
<1>8. \A j \in 1 .. L : \A q \in recent[j].packages \cap AccumulatedPackages :
        \E i \in 1 .. E : q \in history[i] /\ i + (L - j) > E
  BY DEF PipelineInv, RecentHistoric
<1>. HIDE DEF L, now
<1>9. RecentHistoric'
  <2>. SUFFICES ASSUME NEW j \in 1 .. Len(recent'),
                       NEW q \in recent'[j].packages \cap AccumulatedPackages'
                PROVE  \E i \in 1 .. E : q \in history'[i] /\ i + (Len(recent') - j) > E
    BY DEF RecentHistoric
  <2>1. CASE j = L + 1 - d
    <3>1. q \in PackagesOf(guaranteed)
      BY <1>6, <2>1
    <3>. QED
      BY <3>1, <1>4, <1>5
  <2>2. CASE j # L + 1 - d
    <3>1. j \in 1 .. L - d /\ j + d \in 1 .. L /\ recent'[j] = recent[j + d]
      BY <1>2, <1>6, <2>2
    <3>2. CASE q \in now
      <4>1. q \in history'[E] /\ E \in 1 .. E
        BY <1>1, <1>3, <3>2
      <4>2. E + (Len(recent') - j) > E
        BY <1>1, <1>2, <1>6, <3>1
      <4>. QED
        BY <4>1, <4>2
    <3>3. CASE q \in AccumulatedPackages
      <4>1. PICK i \in 1 .. E : q \in history[i] /\ i + (L - (j + d)) > E
        BY <1>8, <3>1, <3>3
      <4>2. i \in 2 .. E /\ i - 1 \in 1 .. E /\ (i - 1) + (Len(recent') - j) > E
        <5>1. Len(recent') = L + 1 - d /\ L + 1 - d <= H
          BY <1>6, <1>7
        <5>2. j \in Nat /\ 1 <= j /\ i \in Nat /\ i <= E /\ d \in Nat
          BY <1>1, <1>2, <3>1
        <5>3. i + (L - (j + d)) > E
          BY <4>1
        <5>4. i >= 2
          BY <1>1, <1>2, <5>1, <5>2, <5>3
        <5>5. (i - 1) + (Len(recent') - j) > E
          BY <1>2, <5>1, <5>2, <5>3
        <5>6. i \in 2 .. E /\ i - 1 \in 1 .. E
          BY <1>1, <5>2, <5>4
        <5>. QED
          BY <5>5, <5>6
      <4>. QED
        BY <1>3, <4>1, <4>2
    <3>. QED
      BY <1>4, <3>2, <3>3
  <2>. QED
    BY <2>1, <2>2
<1>10. NeedsHistoric'
  <2>. SUFFICES ASSUME NEW c \in Cores, rho'[c] # NoReport,
                       NEW q \in Needs[PackageOf[rho'[c]]], q \in AccumulatedPackages'
                PROVE  \E i \in 1 .. E : q \in history'[i] /\ i + slot' >= reportSlot'[c] + U
    BY DEF NeedsHistoric
  <2>1. /\ newSlot \in Nat /\ newSlot > slot /\ slot' = newSlot
        /\ \/ rho'[c] \in guaranteed /\ reportSlot'[c] = newSlot
           \/ /\ rho'[c] = rho[c] /\ rho[c] # NoReport /\ reportSlot'[c] = reportSlot[c]
              /\ newSlot < reportSlot[c] + U
    BY DEF BlockEffect
  <2>2. E \in 1 .. E /\ U <= E
    BY <1>1
  <2>3. CASE q \in now
    <3>1. E + slot' >= reportSlot'[c] + U
      <4>1. reportSlot'[c] <= newSlot /\ reportSlot'[c] \in Nat
        <5>1. rho[c] # NoReport => reportSlot[c] <= slot
          BY DEF PipelineInv, CoresInv
        <5>. QED
          BY <1>2, <2>1, <5>1
      <4>. QED
        BY <1>1, <2>1, <2>2, <4>1
    <3>. QED
      BY <1>3, <2>2, <2>3, <3>1
  <2>4. CASE q \in AccumulatedPackages /\ rho'[c] \in guaranteed /\ reportSlot'[c] = newSlot
    <3>1. q \in PackagesOf(guaranteed) \cup RecentPackages
      BY <2>4 DEF BlockEffect
    <3>2. q \in RecentPackages
      BY <1>4, <1>5, <2>4, <3>1
    <3>3. PICK j \in 1 .. L : q \in recent[j].packages
      BY <1>2, <3>2 DEF RecentPackages, L
    <3>4. PICK i \in 1 .. E : q \in history[i] /\ i + (L - j) > E
      BY <1>8, <2>4, <3>3
    <3>5. i \in 2 .. E /\ i - 1 \in 1 .. E /\ (i - 1) + newSlot >= newSlot + U
      BY <1>1, <1>2, <2>1, <3>3, <3>4
    <3>. QED
      BY <1>3, <2>1, <2>4, <3>4, <3>5
  <2>5. CASE /\ q \in AccumulatedPackages
             /\ rho'[c] = rho[c] /\ rho[c] # NoReport /\ reportSlot'[c] = reportSlot[c]
             /\ newSlot < reportSlot[c] + U
    <3>1. PICK i \in 1 .. E : q \in history[i] /\ i + slot >= reportSlot[c] + U
      BY <2>5 DEF PipelineInv, NeedsHistoric
    <3>2. i \in 2 .. E /\ i - 1 \in 1 .. E /\ (i - 1) + newSlot >= reportSlot[c] + U
      BY <1>1, <1>2, <2>1, <2>5, <3>1
    <3>. QED
      BY <1>3, <2>1, <2>5, <3>1, <3>2
  <2>. QED
    BY <1>4, <2>1, <2>3, <2>4, <2>5
<1>. QED
  BY <1>9, <1>10

(* A block keeps the types.                                                *)
LEMMA TypeStep ==
  ASSUME PipelineInv, NEW newSlot, NEW assured, NEW guaranteed, NEW new, NEW done,
         BlockEffect(newSlot, assured, guaranteed, new, done)
  PROVE  TypeOK'
<1>1. /\ slot' \in Nat /\ height' \in Nat /\ condemned' \subseteq Reports
      /\ rho' \in [Cores -> Reports \cup {NoReport}]
      /\ reportSlot' \in [Cores -> Nat]
  BY DEF BlockEffect, PipelineInv, TypeOK
<1>2. queue' \in [Phases -> Seq(Items)]
  <2>1. \A p \in Phases : queue'[p] \in Seq(Items)
    BY QueueInvStep DEF QueueInv, Waits
  <2>2. queue' = [p \in Phases |-> queue'[p]]
    BY DEF BlockEffect, NextQueue
  <2>. QED
    BY <2>1, <2>2
<1>3. history' \in [1 .. E -> SUBSET Packages]
  BY HistoryShifts
<1>4. recent' \in Seq([block : Nat, packages : SUBSET Packages]) /\ Len(recent') <= H
  BY RecentShifts DEF BlockEffect, PipelineInv, RecentInv, Entries
<1>5. reported' \subseteq Packages
  <2>1. reported' = reported \cup PackagesOf(guaranteed) /\ guaranteed \subseteq Reports
    BY DEF BlockEffect
  <2>2. PackagesOf(guaranteed) \subseteq Packages
    BY <2>1, ConstantsAssumption DEF PackagesOf
  <2>. QED
    BY <2>1, <2>2 DEF PipelineInv, TypeOK
<1>6. accumulated' \in Seq(Reports)
  BY PlacesStep DEF PastInOrder, InOrder
<1>7. readySlot' \in [Reports -> Nat]
  <2>1. /\ readySlot \in [Reports -> Nat] /\ newSlot \in Nat
        /\ readySlot' = [r \in Reports |->
              IF r \in QueuedReports' \ QueuedReports THEN newSlot ELSE readySlot[r]]
    BY DEF BlockEffect, PipelineInv, TypeOK, NoteReady
  <2>. QED
    BY <2>1
<1>. QED
  BY <1>1, <1>2, <1>3, <1>4, <1>5, <1>6, <1>7 DEF TypeOK

(* A block keeps the inductive invariant.                                  *)
LEMMA PipelineStep ==
  ASSUME PipelineInv, NEW newSlot \in Nat, NEW judged \in SUBSET Reports,
         NEW assured \in SUBSET Cores, NEW guaranteed \in SUBSET Reports,
         Block(newSlot, judged, assured, guaranteed)
  PROVE  PipelineInv'
<1>1. PICK new, done : BlockEffect(newSlot, assured, guaranteed, new, done)
  BY BlockHasEffect
<1>2. RecentInv'
  BY RecentStep DEF PipelineInv
<1>. QED
  BY <1>1, <1>2, TypeStep, PlacesStep, QueueInvStep, WaitsExactlyStep, PhaseInvStep, HistoryStep
     DEF PipelineInv

(* The inductive invariant holds at genesis.                               *)
LEMMA PipelineStart == Init => PipelineInv
<1>. SUFFICES ASSUME Init PROVE PipelineInv
  OBVIOUS
<1>. USE DEF Init
<1>1. /\ 0 \in Nat /\ H \in Nat /\ 1 <= H
  BY ConstantsAssumption
<1>2. recent \in Seq(Entries) /\ Len(recent) = 1 /\ recent[1].block = 0 /\ recent[1].packages = {}
  BY DEF Entries
<1>3. /\ Pending = {} /\ QueuePackages = {} /\ AccumulatedPackages = {}
      /\ QueuedItems = {} /\ HistoricPackages = {}
  BY DEF Pending, QueuePackages, AccumulatedPackages, QueuedItems, HistoricPackages,
         ItemPackages, PackagesIn
<1>4. TypeOK
  <2>1. recent \in Seq([block : Nat, packages : SUBSET Packages])
    BY <1>2 DEF Entries
  <2>. QED
    BY <1>1, <1>2, <2>1 DEF TypeOK
<1>5. RecentInv
  BY <1>2 DEF RecentInv, RecentType, NothingFromTheFuture, AnchorBeforeReport
<1>6. CoresInv
  BY DEF CoresInv
<1>7. PlacesApart /\ AllReported
  BY <1>3 DEF PlacesApart, AllReported, PackagesOf
<1>8. PastInOrder
  BY DEF PastInOrder, InOrder
<1>9. QueueInv
  <2>1. Waits(<<>>, Reports, AccumulatedPackages) /\ ItemPackages(<<>>) = {}
    BY DEF Waits, ItemPackages
  <2>. QED
    BY <2>1 DEF QueueInv
<1>10. WaitsExactly
  BY <1>3 DEF WaitsExactly
<1>11. PhaseInv
  BY DEF PhaseInv
<1>12. HistoryTruthful
  BY <1>3 DEF HistoryTruthful
<1>13. RecentHistoric /\ NeedsHistoric
  BY <1>3 DEF RecentHistoric, NeedsHistoric
<1>. QED
  BY <1>4, <1>5, <1>6, <1>7, <1>8, <1>9, <1>10, <1>11, <1>12, <1>13 DEF PipelineInv

(* The inductive invariant holds, for all values of the constants.         *)
THEOREM PipelineInvariant == Spec => []PipelineInv
<1>1. Init => PipelineInv
  BY PipelineStart
<1>2. PipelineInv /\ [Next]_vars => PipelineInv'
  <2>1. ASSUME PipelineInv, Next PROVE PipelineInv'
    <3>1. PICK newSlot \in 1 .. MaxSlot, judged \in SUBSET (Reports \ condemned) :
            \E assured \in SUBSET Cores, guaranteed \in SUBSET Reports :
              Block(newSlot, judged, assured, guaranteed)
      BY <2>1 DEF Next
    <3>2. PICK assured \in SUBSET Cores, guaranteed \in SUBSET Reports :
            Block(newSlot, judged, assured, guaranteed)
      BY <3>1
    <3>3. newSlot \in Nat /\ judged \in SUBSET Reports
      BY ConstantsAssumption
    <3>. QED
      BY <2>1, <3>2, <3>3, PipelineStep
  <2>2. ASSUME PipelineInv, UNCHANGED vars PROVE PipelineInv'
    <3>. USE <2>2 DEF vars
    <3>1. /\ AccumulatedPackages' = AccumulatedPackages /\ QueuePackages' = QueuePackages
          /\ QueuedItems' = QueuedItems /\ HistoricPackages' = HistoricPackages
          /\ PackagesOf(Pending)' = PackagesOf(Pending)
      BY DEF AccumulatedPackages, QueuePackages, QueuedItems, HistoricPackages, PackagesOf,
             Pending, PackagesIn, ItemPackages, PackageAt
    <3>2. TypeOK' /\ RecentInv'
      BY DEF PipelineInv, TypeOK, RecentInv, RecentType, NothingFromTheFuture, AnchorBeforeReport
    <3>3. CoresInv' /\ PhaseInv' /\ PastInOrder'
      BY DEF PipelineInv, CoresInv, PhaseInv, PastInOrder
    <3>4. PlacesApart' /\ AllReported' /\ HistoryTruthful'
      BY <3>1 DEF PipelineInv, PlacesApart, AllReported, HistoryTruthful
    <3>5. QueueInv' /\ RecentHistoric' /\ NeedsHistoric'
      BY <3>1 DEF PipelineInv, QueueInv, RecentHistoric, NeedsHistoric
    <3>6. WaitsExactly'
      BY <3>1 DEF PipelineInv, WaitsExactly, AccumulatedPackages
    <3>. QED
      BY <3>2, <3>3, <3>4, <3>5, <3>6 DEF PipelineInv
  <2>. QED
    BY <2>1, <2>2
<1>. QED
  BY <1>1, <1>2, PTL DEF Spec

-----------------------------------------------------------------------------
(* What follows from it.                                                   *)

(* The recent history keeps the block that reported a package for as long  *)
(* as the anchor of the report.                                            *)
THEOREM RecentInvariant == Spec => []RecentInv
BY PipelineInvariant, PTL DEF PipelineInv

(* A report appears on a core only through a guarantee of the block.       *)
LEMMA AppearsByGuarantee ==
  ASSUME NEW newSlot, NEW judged, NEW assured, NEW guaranteed \in SUBSET Reports,
         Block(newSlot, judged, assured, guaranteed),
         NEW c \in Cores, rho'[c] # NoReport, rho'[c] # rho[c]
  PROVE  rho'[c] \in guaranteed
<1>. DEFINE dRho == RhoDagger(condemned')
            ddRho == RhoDoubleDagger(dRho, assured, newSlot)
<1>1. rho'[c] = IF GuaranteeFor(c, guaranteed) = {} THEN ddRho[c]
                ELSE CHOOSE r \in guaranteed : CoreOf[r] = c
  BY DEF Block, ReportOnCores
<1>2. ddRho[c] \in {NoReport, rho[c]}
  BY DEF RhoDoubleDagger, RhoDagger
<1>3. GuaranteeFor(c, guaranteed) # {}
  BY <1>1, <1>2
<1>. QED
  BY <1>1, <1>3 DEF GuaranteeFor

(* No package is reported twice, for every value of the constants.         *)
THEOREM ReportedAtMostOnce == Spec => ReportedOnce
<1>1. ASSUME RecentInv, [Next]_vars
      PROVE  [\A p \in Packages : p \in reported =>
                ~ \E c \in Cores : /\ rho'[c] # NoReport /\ rho'[c] # rho[c]
                                   /\ PackageOf[rho'[c]] = p]_vars
  <2>. SUFFICES ASSUME Next, NEW p \in reported, NEW c \in Cores,
                       rho'[c] # NoReport, rho'[c] # rho[c], PackageOf[rho'[c]] = p
                PROVE  FALSE
    BY <1>1
  <2>1. PICK newSlot \in 1 .. MaxSlot, judged \in SUBSET (Reports \ condemned) :
          \E assured \in SUBSET Cores, guaranteed \in SUBSET Reports :
            Block(newSlot, judged, assured, guaranteed)
    BY DEF Next
  <2>2. PICK assured \in SUBSET Cores, guaranteed \in SUBSET Reports :
          Block(newSlot, judged, assured, guaranteed)
    BY <2>1
  <2>3. rho'[c] \in guaranteed
    BY <2>2, AppearsByGuarantee
  <2>. QED
    BY <1>1, <2>2, <2>3, FreshGuarantees DEF Block
<1>. QED
  BY <1>1, RecentInvariant, PTL DEF Spec, ReportedOnce

(* A queued item waits for exactly what it needs and is not accumulated,   *)
(* whatever the history has forgotten.                                     *)
THEOREM WaitsForExactlyItsNeeds == Spec => []WaitsExactly
BY PipelineInvariant, PTL DEF PipelineInv

(* Reports are accumulated once per package and after what they need.      *)
THEOREM AccumulatedInOrder == Spec => []PastInOrder
BY PipelineInvariant, PTL DEF PipelineInv

(* The size of a set with at most one element.                             *)
LEMMA AtMostOne ==
  ASSUME NEW S, \A x, y \in S : x = y
  PROVE  Cardinality(S) = IF S = {} THEN 0 ELSE 1
<1>1. CASE S = {}
  BY <1>1, FS_EmptySet
<1>2. CASE S # {}
  <2>1. PICK x : S = {x}
    BY <1>2
  <2>. QED
    BY <1>2, <2>1, FS_Singleton
<1>. QED
  BY <1>1, <1>2

(* A package is on one core, once in the queue, or once accumulated.       *)
THEOREM PackageInOnePlace == Spec => []PackageOnce
<1>1. ASSUME PipelineInv, NEW p \in Packages
      PROVE  Cardinality(CoresOf(p)) + Cardinality(QueuePlaces(p))
               + Cardinality(Positions(accumulated, p)) <= 1
  <2>1. \A c, d \in CoresOf(p) : c = d
    BY <1>1 DEF CoresOf, PipelineInv, CoresInv
  <2>2. QueueInv /\ \A i \in Phases : DOMAIN queue[i] = 1 .. Len(queue[i])
    <3>1. QueueInv
      BY <1>1 DEF PipelineInv
    <3>2. \A i \in Phases : queue[i] \in Seq(Items)
      BY <3>1 DEF QueueInv, Waits
    <3>. QED
      BY <3>1, <3>2
  <2>3. \A x \in QueuePlaces(p) : \E i \in Phases : \E k \in 1 .. Len(queue[i]) :
          x = <<i, k>> /\ PackageAt(queue[i], k) = p
    BY <2>2 DEF QueuePlaces, PackageAt
  <2>4. ASSUME NEW i \in Phases, NEW k \in 1 .. Len(queue[i]), PackageAt(queue[i], k) = p,
               NEW j \in Phases, NEW l \in 1 .. Len(queue[j]), PackageAt(queue[j], l) = p
        PROVE  i = j /\ k = l
    <3>1. i = j
      BY <2>2, <2>4 DEF QueueInv, ItemPackages
    <3>. QED
      BY <2>2, <2>4, <3>1 DEF QueueInv, Waits
  <2>5. \A x, y \in QueuePlaces(p) : x = y
    <3>. SUFFICES ASSUME NEW x \in QueuePlaces(p), NEW y \in QueuePlaces(p) PROVE x = y
      OBVIOUS
    <3>1. PICK i \in Phases : \E k \in 1 .. Len(queue[i]) :
            x = <<i, k>> /\ PackageAt(queue[i], k) = p
      BY <2>3
    <3>2. PICK j \in Phases : \E l \in 1 .. Len(queue[j]) :
            y = <<j, l>> /\ PackageAt(queue[j], l) = p
      BY <2>3
    <3>. QED
      BY <3>1, <3>2, <2>4
  <2>6. \A k \in Positions(accumulated, p) : k \in 1 .. Len(accumulated) /\ PackageOf[accumulated[k]] = p
    BY <1>1 DEF Positions, PipelineInv, TypeOK
  <2>7. \A j, k \in Positions(accumulated, p) : j = k
    BY <1>1, <2>6 DEF PipelineInv, PastInOrder, InOrder
  <2>8. CoresOf(p) # {} => p \in PackagesOf(Pending)
    BY DEF CoresOf, PackagesOf, Pending
  <2>9. QueuePlaces(p) # {} => p \in QueuePackages
    BY <2>3 DEF QueuePackages, ItemPackages
  <2>10. Positions(accumulated, p) # {} => p \in AccumulatedPackages
    BY DEF Positions, AccumulatedPackages, PackagesIn
  <2>11. QueuePackages \cap AccumulatedPackages = {}
    BY <2>2 DEF QueueInv, Waits, QueuePackages, ItemPackages
  <2>12. PackagesOf(Pending) \cap (QueuePackages \cup AccumulatedPackages) = {}
    BY <1>1 DEF PipelineInv, PlacesApart
  <2>13. /\ Cardinality(CoresOf(p)) = IF CoresOf(p) = {} THEN 0 ELSE 1
         /\ Cardinality(QueuePlaces(p)) = IF QueuePlaces(p) = {} THEN 0 ELSE 1
         /\ Cardinality(Positions(accumulated, p)) = IF Positions(accumulated, p) = {} THEN 0 ELSE 1
    BY <2>1, <2>5, <2>7, AtMostOne
  <2>14. \/ CoresOf(p) = {} /\ QueuePlaces(p) = {}
         \/ CoresOf(p) = {} /\ Positions(accumulated, p) = {}
         \/ QueuePlaces(p) = {} /\ Positions(accumulated, p) = {}
    BY <2>8, <2>9, <2>10, <2>11, <2>12
  <2>. QED
    BY <2>13, <2>14
<1>2. PipelineInv => PackageOnce
  BY <1>1 DEF PackageOnce
<1>. QED
  BY <1>2, PipelineInvariant, PTL

(* The effect of a step of Next.                                           *)
LEMMA NextHasEffect ==
  ASSUME PipelineInv, Next
  PROVE  \E newSlot, assured, guaranteed, new, done :
           BlockEffect(newSlot, assured, guaranteed, new, done)
<1>1. PICK newSlot \in 1 .. MaxSlot, judged \in SUBSET (Reports \ condemned) :
        \E assured \in SUBSET Cores, guaranteed \in SUBSET Reports :
          Block(newSlot, judged, assured, guaranteed)
  BY DEF Next
<1>2. PICK assured \in SUBSET Cores, guaranteed \in SUBSET Reports :
        Block(newSlot, judged, assured, guaranteed)
  BY <1>1
<1>3. newSlot \in Nat /\ judged \in SUBSET Reports
  BY ConstantsAssumption, <1>1 DEF PipelineInv, TypeOK
<1>. QED
  BY <1>2, <1>3, BlockHasEffect

(* What is settled after a block was settled, or is done by the block.     *)
LEMMA EffectOnReports ==
  ASSUME PipelineInv, NEW newSlot, NEW assured, NEW guaranteed, NEW new, NEW done,
         BlockEffect(newSlot, assured, guaranteed, new, done)
  PROVE  /\ \A r : r \in Settled' <=> r \in Settled \/ \E k \in 1 .. Len(done) : r = done[k]
         /\ \A r : r \in QueuedReports' <=>
              \E p \in Phases : \E k \in 1 .. Len(queue'[p]) : queue'[p][k].report = r
         /\ \A r \in QueuedReports' : r \in QueuedReports \/ \E c \in assured : r = rho[c]
<1>1. accumulated \in Seq(Reports) /\ done \in Seq(Reports) /\ accumulated' = accumulated \o done
  BY EffectOnPlaces DEF PipelineInv, TypeOK, BlockEffect
<1>2. \A r : r \in Settled' <=> r \in Settled \/ \E k \in 1 .. Len(done) : r = done[k]
  <2>. DEFINE m == Len(accumulated)
              n == Len(done)
              u == accumulated \o done
  <2>1. /\ m \in Nat /\ n \in Nat /\ DOMAIN accumulated = 1 .. m /\ DOMAIN u = 1 .. m + n
        /\ \A k \in 1 .. m : u[k] = accumulated[k]
        /\ \A k \in 1 .. n : u[m + k] = done[k]
    BY <1>1
  <2>. HIDE DEF m, n, u
  <2>2. /\ \A k \in 1 .. m : k \in 1 .. m + n
        /\ \A k \in 1 .. n : m + k \in 1 .. m + n
        /\ \A k \in 1 .. m + n : k \in 1 .. m \/ (k - m \in 1 .. n /\ k = m + (k - m))
    BY <2>1
  <2>3. \A r : (\E k \in 1 .. m + n : r = u[k])
           <=> (\E k \in 1 .. m : r = accumulated[k]) \/ (\E k \in 1 .. n : r = done[k])
    BY ZenonT(30), <2>1, <2>2
  <2>4. accumulated' = u
    BY <1>1 DEF u
  <2>. QED
    BY ZenonT(30), <2>1, <2>3, <2>4 DEF Settled, n
<1>3. \A p \in Phases : queue'[p] \in Seq(Items)
  BY QueueInvStep DEF QueueInv, Waits
<1>4. \A r : r \in QueuedReports' <=>
        \E p \in Phases : \E k \in 1 .. Len(queue'[p]) : queue'[p][k].report = r
  BY <1>3, QueuedAt DEF QueuedReports, QueuedItems
<1>5. ASSUME NEW r \in QueuedReports'
      PROVE  r \in QueuedReports \/ \E c \in assured : r = rho[c]
  <2>1. PICK p \in Phases : \E k \in 1 .. Len(queue'[p]) : queue'[p][k].report = r
    BY <1>4, <1>5
  <2>2. PICK k \in 1 .. Len(queue'[p]) : queue'[p][k].report = r
    BY <2>1
  <2>3. \A l \in 1 .. Len(queue[p]) : queue[p][l].report \in QueuedReports
    BY QueuedWait DEF PipelineInv
  <2>. QED
    BY <2>2, <2>3, EffectOnItem
<1>. QED
  BY <1>2, <1>4, <1>5

(* A report condemned before it is available is neither queued nor         *)
(* accumulated by the block or later.                                      *)
THEOREM CondemnedReportsStop == Spec => CondemnedInTime
<1>1. ASSUME PipelineInv, [Next]_vars
      PROVE  [\A r \in condemned' : r \notin QueuedReports \cup Settled =>
                r \notin QueuedReports' \cup Settled']_vars
  <2>. SUFFICES ASSUME Next, NEW r \in condemned', r \notin QueuedReports \cup Settled
                PROVE  r \notin QueuedReports' \cup Settled'
    BY <1>1
  <2>1. PICK newSlot, assured, guaranteed, new, done :
          BlockEffect(newSlot, assured, guaranteed, new, done)
    BY <1>1, NextHasEffect
  <2>2. \A c \in assured : rho[c] \notin condemned'
    BY <2>1 DEF BlockEffect
  <2>3. r \notin QueuedReports'
    BY <1>1, <2>1, <2>2, EffectOnReports
  <2>4. \A k \in 1 .. Len(done) : done[k] \in QueuedReports \/ \E c \in assured : done[k] = rho[c]
    BY <1>1, <2>1, EffectOnPlaces
  <2>5. r \notin Settled'
    BY <1>1, <2>1, <2>2, <2>4, EffectOnReports
  <2>. QED
    BY <2>3, <2>5
<1>. QED
  BY <1>1, PipelineInvariant, PTL DEF Spec, CondemnedInTime

-----------------------------------------------------------------------------
(* The pipeline implements the life cycle of a package.                    *)

(* One package, one report among those known before a block.               *)
LEMMA OneReportPerPackage ==
  ASSUME PipelineInv, NEW r, NEW s, PackageOf[r] = PackageOf[s],
         r \in QueuedReports \/ r \in Pending,
         s \in QueuedReports \/ s \in Pending
  PROVE  r = s
<1>1. QueueInv
  BY DEF PipelineInv
<1>2. \A x \in QueuedReports : PackageOf[x] \in QueuePackages
  BY <1>1, QueuedPackages DEF PackagesOf
<1>3. \A x \in Pending : PackageOf[x] \notin QueuePackages
  BY DEF PipelineInv, PlacesApart, PackagesOf
<1>4. CASE r \in Pending /\ s \in Pending
  BY <1>4 DEF Pending, PipelineInv, CoresInv
<1>5. CASE r \in QueuedReports /\ s \in QueuedReports
  <2>1. PICK p \in Phases : \E k \in 1 .. Len(queue[p]) : queue[p][k].report = r
    BY <1>1, <1>5, QueuedPackages
  <2>2. PICK k \in 1 .. Len(queue[p]) : queue[p][k].report = r
    BY <2>1
  <2>3. PICK q \in Phases : \E l \in 1 .. Len(queue[q]) : queue[q][l].report = s
    BY <1>1, <1>5, QueuedPackages
  <2>4. PICK l \in 1 .. Len(queue[q]) : queue[q][l].report = s
    BY <2>3
  <2>5. PackageAt(queue[p], k) = PackageAt(queue[q], l)
    BY <2>2, <2>4 DEF PackageAt
  <2>6. p = q
    BY <1>1, <2>5 DEF QueueInv, ItemPackages
  <2>7. k = l
    BY <1>1, <2>5, <2>6 DEF QueueInv, Waits
  <2>. QED
    BY <2>2, <2>4, <2>6, <2>7
<1>. QED
  BY <1>2, <1>3, <1>4, <1>5

(* A report leaves a core or the queue only for a reason.                  *)
THEOREM ReportsAreNotLost == Spec => NoReportLost
<1>1. ASSUME PipelineInv, Next
      PROVE  /\ \A c \in Cores :
                  rho[c] # NoReport /\ rho'[c] # rho[c] =>
                    \/ rho[c] \in condemned'
                    \/ slot' >= reportSlot[c] + U
                    \/ rho[c] \in QueuedReports'
                    \/ rho[c] \in Settled'
             /\ \A r \in QueuedReports \ QueuedReports' :
                  r \in Settled' \/ slot' - readySlot[r] >= E
  <2>1. PICK newSlot, assured, guaranteed, new, done :
          BlockEffect(newSlot, assured, guaranteed, new, done)
    BY <1>1, NextHasEffect
  <2>2. /\ newSlot \in Nat /\ newSlot > slot /\ slot' = newSlot /\ assured \subseteq Cores
        /\ Arrives(new) /\ Arrived(new) = {rho[c] : c \in assured}
        /\ queue' = NextQueue(new, done, newSlot)
        /\ \A c \in assured : rho[c] # NoReport
        /\ \A c \in Cores : rho[c] # NoReport /\ rho'[c] # rho[c] =>
             rho[c] \in condemned' \/ newSlot >= reportSlot[c] + U \/ c \in assured
        /\ \A j \in 1 .. Len(new) : Needs[PackageOf[new[j]]] = {} =>
             \E k \in 1 .. Len(done) : done[k] = new[j]
    BY <2>1 DEF BlockEffect, Accumulates
  <2>3. QueueEffect(newSlot, new, done)
    BY <1>1, <2>2, QueueStep
  <2>4. \A r : r \in QueuedReports' <=>
          \E p \in Phases : \E k \in 1 .. Len(queue'[p]) : queue'[p][k].report = r
    BY <1>1, <2>1, EffectOnReports
  <2>5. \A k \in 1 .. Len(done) : done[k] \in Settled'
    BY <1>1, <2>1, EffectOnReports
  <2>6. /\ done \in Seq(Reports)
        /\ \A k \in 1 .. Len(done) : done[k] \in QueuedReports \/ \E c \in assured : done[k] = rho[c]
    BY <1>1, <2>1, EffectOnPlaces
  <2>7. \A k \in 1 .. Len(done) : done[k] \in QueuedReports \/ done[k] \in Pending
    BY <2>2, <2>6 DEF Pending
  <2>8. ASSUME NEW r, r \in QueuedReports \/ r \in Pending, PackageOf[r] \in PackagesIn(done)
        PROVE  r \in Settled'
    <3>1. PICK k \in 1 .. Len(done) : PackageOf[r] = PackageOf[done[k]]
      BY <2>6, <2>8 DEF PackagesIn
    <3>2. r = done[k]
      BY <1>1, <2>7, <2>8, <3>1, OneReportPerPackage
    <3>. QED
      BY <2>5, <3>2
  <2>9. ASSUME NEW c \in assured PROVE rho[c] \in QueuedReports' \/ rho[c] \in Settled'
    <3>1. PICK j \in 1 .. Len(new) : new[j] = rho[c]
      BY <2>2 DEF Arrived
    <3>2. CASE Needs[PackageOf[rho[c]]] = {}
      BY <2>2, <2>5, <3>1, <3>2
    <3>3. CASE PackageOf[rho[c]] \in PackagesIn(done)
      BY <2>2, <2>8, <3>3 DEF Pending
    <3>4. CASE Needs[PackageOf[rho[c]]] # {} /\ PackageOf[rho[c]] \notin PackagesIn(done)
      <4>1. \E k \in 1 .. Len(queue'[newSlot % E]) : queue'[newSlot % E][k].report = new[j]
        BY <2>3, <3>1, <3>4 DEF QueueEffect
      <4>2. newSlot % E \in Phases
        BY <2>2, ConstantsAssumption, DivisionWithRest DEF Phases
      <4>. QED
        BY <2>4, <3>1, <4>1, <4>2
    <3>. QED
      BY <3>2, <3>3, <3>4
  <2>10. ASSUME NEW r \in QueuedReports, r \notin QueuedReports', r \notin Settled'
         PROVE  slot' - readySlot[r] >= E
    <3>1. PICK p \in Phases : \E l \in 1 .. Len(queue[p]) : queue[p][l].report = r
      BY <1>1, <2>10, QueuedPackages DEF PipelineInv
    <3>2. PICK l \in 1 .. Len(queue[p]) : queue[p][l].report = r
      BY <3>1
    <3>3. PackageAt(queue[p], l) \notin PackagesIn(done)
      BY <2>8, <2>10, <3>2 DEF PackageAt
    <3>4. ~ \E k \in 1 .. Len(queue'[p]) : queue'[p][k].report = r
      BY <2>4, <2>10
    <3>5. readySlot[r] + E <= newSlot
      BY <2>3, <3>2, <3>3, <3>4 DEF QueueEffect
    <3>6. r \in Reports
      BY <1>1, <3>2 DEF PipelineInv, QueueInv, Waits
    <3>7. readySlot[r] \in Nat /\ E \in Nat
      BY <1>1, <3>6, ConstantsAssumption DEF PipelineInv, TypeOK
    <3>. QED
      BY <2>2, <3>5, <3>7
  <2>11. ASSUME NEW c \in Cores, rho[c] # NoReport, rho'[c] # rho[c]
         PROVE  \/ rho[c] \in condemned'
                \/ slot' >= reportSlot[c] + U
                \/ rho[c] \in QueuedReports'
                \/ rho[c] \in Settled'
    BY <2>2, <2>9, <2>11
  <2>. QED
    BY <2>10, <2>11
<1>2. ASSUME PipelineInv, [Next]_vars
      PROVE  [/\ \A c \in Cores :
                   rho[c] # NoReport /\ rho'[c] # rho[c] =>
                     \/ rho[c] \in condemned'
                     \/ slot' >= reportSlot[c] + U
                     \/ rho[c] \in QueuedReports'
                     \/ rho[c] \in Settled'
              /\ \A r \in QueuedReports \ QueuedReports' :
                   r \in Settled' \/ slot' - readySlot[r] >= E]_vars
  BY <1>1, <1>2, Zenon
<1>. QED
  BY <1>2, PipelineInvariant, PTL DEF Spec, NoReportLost

(* The packages as their stages see them.                                  *)
LEMMA StageIs ==
  ASSUME PipelineInv, NEW p
  PROVE  Stage(p) = IF p \in AccumulatedPackages THEN "accumulated"
                    ELSE IF p \in QueuePackages THEN "waiting"
                    ELSE IF p \in PackagesOf(Pending) THEN "reported"
                    ELSE IF p \in reported THEN "dropped" ELSE "unseen"
BY QueuedPackages DEF Stage, AccumulatedPackages, PipelineInv

(* The pipeline leads every package through its life, each after the       *)
(* packages it needs.                                                      *)
THEOREM PipelineImplementsLifecycle == Spec => ImplementsLifecycle
<1>1. ASSUME Init PROVE Lifecycle!Init
  <2>1. PipelineInv
    BY <1>1, PipelineStart
  <2>2. reported = {} /\ AllReported
    BY <1>1, <2>1 DEF Init, PipelineInv
  <2>3. \A p \in Packages : Stage(p) = "unseen"
    BY <2>1, <2>2, StageIs DEF AllReported
  <2>. QED
    BY <2>3 DEF Lifecycle!Init
<1>2. ASSUME PipelineInv, PipelineInv', Next PROVE Lifecycle!Next
  <2>. DEFINE stage == [p \in Packages |-> Stage(p)]
  <2>1. PICK newSlot, assured, guaranteed, new, done :
          BlockEffect(newSlot, assured, guaranteed, new, done)
    BY <1>2, NextHasEffect
  <2>2. \A p \in Packages :
          Stage(p)' = IF p \in AccumulatedPackages' THEN "accumulated"
                      ELSE IF p \in QueuePackages' THEN "waiting"
                      ELSE IF p \in PackagesOf(Pending)' THEN "reported"
                      ELSE IF p \in reported' THEN "dropped" ELSE "unseen"
    <3>1. QueueInv'
      BY <1>2 DEF PipelineInv
    <3>2. PackagesOf(QueuedReports)' = QueuePackages'
      <4>1. \A p \in Phases : queue'[p] \in Seq(Items)
        BY <3>1 DEF QueueInv, Waits
      <4>2. \A r : r \in QueuedReports' <=>
              \E p \in Phases : \E k \in 1 .. Len(queue'[p]) : queue'[p][k].report = r
        BY <1>2, <2>1, EffectOnReports
      <4>3. ASSUME NEW r \in QueuedReports' PROVE PackageOf[r] \in QueuePackages'
        <5>1. PICK p \in Phases : \E k \in 1 .. Len(queue'[p]) : queue'[p][k].report = r
          BY <4>2, <4>3
        <5>2. PackageOf[r] \in ItemPackages(queue'[p])
          BY <5>1 DEF ItemPackages, PackageAt
        <5>. QED
          BY <5>2 DEF QueuePackages, ItemPackages, PackageAt
      <4>4. ASSUME NEW p \in Phases, NEW k \in 1 .. Len(queue'[p])
            PROVE  \E r \in QueuedReports' : PackageOf[r] = PackageAt(queue'[p], k)
        BY <4>2 DEF PackageAt
      <4>5. \A x \in QueuePackages' : \E r \in QueuedReports' : PackageOf[r] = x
        BY <4>4 DEF QueuePackages, ItemPackages, PackageAt
      <4>. QED
        BY <4>3, <4>5 DEF PackagesOf
    <3>. QED
      BY <3>2 DEF Stage, AccumulatedPackages
  <2>3. /\ AccumulatedPackages' = AccumulatedPackages \cup PackagesIn(done)
        /\ PackagesIn(done) \subseteq {PackageOf[rho[c]] : c \in assured} \cup QueuePackages
        /\ QueuePackages' \subseteq {PackageOf[rho[c]] : c \in assured} \cup QueuePackages
    BY <1>2, <2>1, EffectOnPlaces
  <2>4. \A c \in assured : PackageOf[rho[c]] \in PackagesOf(Pending)
    BY <2>1 DEF BlockEffect, PackagesOf, Pending
  <2>5. \A x \in PackagesOf(Pending)' :
          (x \in PackagesOf(guaranteed) /\ x \notin reported) \/ x \in PackagesOf(Pending)
    BY <2>1 DEF BlockEffect, PackagesOf, Pending
  <2>6. \A x \in PackagesOf(guaranteed) : x \in PackagesOf(Pending)'
    <3>1. ASSUME NEW r \in guaranteed PROVE r \in Pending'
      <4>1. r # NoReport
        BY <2>1, ConstantsAssumption DEF BlockEffect
      <4>. QED
        BY <2>1, <4>1 DEF BlockEffect, Pending
    <3>. QED
      BY <3>1 DEF PackagesOf
  <2>7. reported' = reported \cup PackagesOf(guaranteed)
    BY <2>1 DEF BlockEffect
  <2>8. /\ PackagesOf(Pending) \cup QueuePackages \cup AccumulatedPackages \subseteq reported
        /\ PackagesOf(Pending) \cap (QueuePackages \cup AccumulatedPackages) = {}
    BY <1>2 DEF PipelineInv, AllReported, PlacesApart
  <2>9. ASSUME NEW p \in AccumulatedPackages' PROVE Needs[p] \subseteq AccumulatedPackages'
    <3>1. InOrder(accumulated', Reports, {})
      BY <1>2 DEF PipelineInv, PastInOrder, InOrder
    <3>2. DOMAIN accumulated' = 1 .. Len(accumulated') /\ Len(accumulated') \in Nat
      BY <3>1 DEF InOrder
    <3>3. PICK k \in 1 .. Len(accumulated') : p = PackageOf[accumulated'[k]]
      BY <3>2, <2>9 DEF AccumulatedPackages, PackagesIn
    <3>4. Needs[p] \subseteq {PackageOf[accumulated'[j]] : j \in 1 .. k - 1}
      BY <3>1, <3>3 DEF InOrder
    <3>5. \A j \in 1 .. k - 1 : j \in DOMAIN accumulated'
      BY <3>2
    <3>. QED
      BY <3>4, <3>5 DEF AccumulatedPackages, PackagesIn
  <2>10. ASSUME NEW p \in Packages, Stage(p)' # Stage(p)
         PROVE  /\ <<Stage(p), Stage(p)'>> \in Lifecycle!Follows
                /\ Stage(p)' = "accumulated" => \A q \in Needs[p] : Stage(q)' = "accumulated"
    <3>1. Stage(p) = IF p \in AccumulatedPackages THEN "accumulated"
                     ELSE IF p \in QueuePackages THEN "waiting"
                     ELSE IF p \in PackagesOf(Pending) THEN "reported"
                     ELSE IF p \in reported THEN "dropped" ELSE "unseen"
      BY <1>2, StageIs
    <3>2. /\ p \in AccumulatedPackages => p \in AccumulatedPackages'
          /\ p \in AccumulatedPackages' =>
               p \in AccumulatedPackages \cup PackagesOf(Pending) \cup QueuePackages
          /\ p \in QueuePackages' => p \in PackagesOf(Pending) \cup QueuePackages
          /\ p \in reported => p \in reported'
      BY <2>3, <2>4, <2>7
    <3>3. <<Stage(p), Stage(p)'>> \in Lifecycle!Follows
      <4>1. CASE p \in AccumulatedPackages
        BY <2>2, <2>10, <3>1, <3>2, <4>1
      <4>2. CASE p \notin AccumulatedPackages /\ p \in QueuePackages
        <5>1. p \notin PackagesOf(Pending)' /\ p \in reported'
          BY <2>5, <2>8, <3>2, <4>2
        <5>. QED
          BY <2>2, <2>10, <3>1, <4>2, <5>1 DEF Lifecycle!Follows
      <4>3. CASE p \notin AccumulatedPackages /\ p \notin QueuePackages /\ p \in PackagesOf(Pending)
        <5>1. p \in reported'
          BY <2>8, <3>2, <4>3
        <5>. QED
          BY <2>2, <2>10, <3>1, <4>3, <5>1 DEF Lifecycle!Follows
      <4>4. CASE /\ p \notin AccumulatedPackages /\ p \notin QueuePackages
                 /\ p \notin PackagesOf(Pending) /\ p \in reported
        BY <2>2, <2>5, <2>10, <3>1, <3>2, <4>4
      <4>5. CASE /\ p \notin AccumulatedPackages /\ p \notin QueuePackages
                 /\ p \notin PackagesOf(Pending) /\ p \notin reported
        BY <2>2, <2>6, <2>7, <2>10, <3>1, <3>2, <4>5 DEF Lifecycle!Follows
      <4>. QED
        BY <4>1, <4>2, <4>3, <4>4, <4>5
    <3>4. ASSUME Stage(p)' = "accumulated", NEW q \in Needs[p] PROVE Stage(q)' = "accumulated"
      <4>1. p \in AccumulatedPackages'
        BY <2>2, <3>4
      <4>2. q \in AccumulatedPackages' /\ q \in Packages
        BY <2>9, <4>1, ConstantsAssumption
      <4>. QED
        BY <2>2, <4>2
    <3>. QED
      BY <3>3, <3>4
  <2>11. \A p \in Packages : Stage(p)' \in Lifecycle!Stages
    BY <2>2 DEF Lifecycle!Stages
  <2>12. /\ stage' = [p \in Packages |-> Stage(p)']
         /\ \A p \in Packages : Needs[p] \subseteq Packages
    BY ConstantsAssumption
  <2>. QED
    BY <2>10, <2>11, <2>12 DEF Lifecycle!Next
<1>3. ASSUME UNCHANGED vars PROVE UNCHANGED [p \in Packages |-> Stage(p)]
  BY <1>3 DEF vars, Stage, PackagesIn, PackagesOf, QueuedReports, QueuedItems, Pending
<1>4. PipelineInv /\ PipelineInv' /\ [Next]_vars =>
        [Lifecycle!Next]_([p \in Packages |-> Stage(p)])
  BY <1>2, <1>3, Zenon
<1>. QED
  BY <1>1, <1>4, PipelineInvariant, PTL DEF Spec, ImplementsLifecycle, Lifecycle!Spec
=============================================================================
