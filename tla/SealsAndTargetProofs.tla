----------------------- MODULE SealsAndTargetProofs -----------------------
(***************************************************************************)
(* Who may seal a header (Safrole), and how headers come in from a client  *)
(* (FuzzerTarget).                                                         *)
(*                                                                         *)
(* Of Safrole: the accumulator is sorted, every epoch has its sealers, and *)
(* whoever follows the headers alone knows them: for every number of       *)
(* validators, every length of epoch and contest, and any order of the     *)
(* identifiers.                                                            *)
(*                                                                         *)
(* Of FuzzerTarget: the client and the target never talk past each other,  *)
(* for every block tree, every verdict of the codec and every way of       *)
(* cutting the messages.  The inductive invariant says at which point of   *)
(* the one conversation both are: between two requests, with a request on  *)
(* its way, with one being handled, or with an answer on its way; and      *)
(* where the chain is at that point.                                       *)
(***************************************************************************)
EXTENDS Safrole, FuzzerTarget, FiniteSetTheorems, SequenceTheorems, TLAPS

-----------------------------------------------------------------------------
LEMMA Sizes == E \in Nat /\ E >= 2 /\ Y \in 1 .. E - 1 /\ V \in Nat /\ MaxSlot \in Nat
BY ConstantsAssumption

(* The order of the places in a list is strict and total.                  *)
LEMMA EarlierOrder ==
  ASSUME NEW s \in Seq(Tickets),
         NEW i \in DOMAIN s, NEW j \in DOMAIN s, NEW k \in DOMAIN s
  PROVE  /\ ~Earlier(s, i, i)
         /\ Earlier(s, i, j) /\ Earlier(s, j, k) => Earlier(s, i, k)
         /\ i # j => Earlier(s, i, j) \/ Earlier(s, j, i)
<1>1. /\ s[i] \in Tickets /\ s[j] \in Tickets /\ s[k] \in Tickets
      /\ i \in Int /\ j \in Int /\ k \in Int
  OBVIOUS
<1>2. /\ Id[s[i]] \in Int /\ Id[s[j]] \in Int /\ Id[s[k]] \in Int
      /\ Id[s[i]] = Id[s[j]] => s[i] = s[j]
  BY <1>1, ConstantsAssumption
<1>. HIDE DEF Tickets
<1> QED
  BY <1>1, <1>2 DEF Earlier, Before

(* Places of a list are counted without the place itself.                  *)
LEMMA PositionInRange ==
  ASSUME NEW s \in Seq(Tickets), NEW j \in 1 .. Len(s)
  PROVE  Position(s, j) \in 1 .. Len(s)
<1> DEFINE L == Len(s)
           B == {k \in DOMAIN s : Earlier(s, k, j)}
<1>1. L \in Nat /\ DOMAIN s = 1 .. L
  OBVIOUS
<1>2. IsFiniteSet(1 .. L) /\ Cardinality(1 .. L) = L
  BY <1>1, FS_Interval
<1>3. B \subseteq 1 .. L /\ j \notin B
  BY <1>1, EarlierOrder
<1>4. Cardinality(B) \in Nat /\ Cardinality(B) < L
  <2>. HIDE DEF B
  <2>1. IsFiniteSet(B) /\ Cardinality(B) <= L /\ (Cardinality(B) = L => B = 1 .. L)
    BY <1>2, <1>3, FS_Subset
  <2> QED
    BY <1>1, <1>3, <2>1, FS_CardinalityType
<1> QED
  BY <1>1, <1>4 DEF Position

(* An earlier place has the smaller position.                              *)
LEMMA PositionGrows ==
  ASSUME NEW s \in Seq(Tickets), NEW i \in 1 .. Len(s), NEW j \in 1 .. Len(s),
         Earlier(s, i, j)
  PROVE  Position(s, i) < Position(s, j)
<1> DEFINE L == Len(s)
           A == {k \in DOMAIN s : Earlier(s, k, i)}
           B == {k \in DOMAIN s : Earlier(s, k, j)}
<1>1. L \in Nat /\ DOMAIN s = 1 .. L
  OBVIOUS
<1>2. IsFiniteSet(1 .. L)
  BY <1>1, FS_Interval
<1>3. A \subseteq B /\ B \subseteq 1 .. L /\ i \in B /\ i \notin A
  BY <1>1, EarlierOrder
<1>4. Cardinality(A) < Cardinality(B)
        /\ Cardinality(A) \in Nat /\ Cardinality(B) \in Nat
  <2>. HIDE DEF A, B
  <2>1. IsFiniteSet(B)
    BY <1>2, <1>3, FS_Subset
  <2>2. IsFiniteSet(A) /\ Cardinality(A) <= Cardinality(B)
          /\ (Cardinality(A) = Cardinality(B) => A = B)
    BY <2>1, <1>3, FS_Subset
  <2> QED
    BY <1>3, <2>1, <2>2, FS_CardinalityType
<1> QED
  BY <1>4 DEF Position

(* Every position is some place's.                                         *)
LEMMA PositionOnto ==
  ASSUME NEW s \in Seq(Tickets), NEW i \in 1 .. Len(s)
  PROVE  \E j \in 1 .. Len(s) : Position(s, j) = i
<1> DEFINE L == Len(s)
           f == [j \in 1 .. L |-> Position(s, j)]
<1>1. L \in Nat /\ DOMAIN s = 1 .. L
  OBVIOUS
<1>2. IsFiniteSet(1 .. L)
  BY <1>1, FS_Interval
<1>3. f \in [1 .. L -> 1 .. L]
  BY PositionInRange
<1>4. ASSUME NEW j \in 1 .. L, NEW k \in 1 .. L, j # k
      PROVE  f[j] # f[k]
  <2>1. Earlier(s, j, k) \/ Earlier(s, k, j)
    BY <1>1, <1>4, EarlierOrder
  <2>2. f[j] \in Int /\ f[k] \in Int
    BY <1>3
  <2> QED
    BY <2>1, <2>2, PositionGrows
<1>5. f \in Injection(1 .. L, 1 .. L)
  BY <1>3, <1>4 DEF Injection, IsInjective
<1>6. f \in Surjection(1 .. L, 1 .. L)
  BY <1>2, <1>5, FS_Injection
<1> QED
  BY <1>6 DEF Surjection

(* What sorting returns: the same tickets, none before one at its left.    *)
LEMMA SortedIsSorted ==
  ASSUME NEW s \in Seq(Tickets)
  PROVE  /\ Sorted(s) \in Seq(Tickets)
         /\ Len(Sorted(s)) = Len(s)
         /\ Elements(Sorted(s)) = Elements(s)
         /\ \A i, j \in 1 .. Len(s) :
              i < j /\ (\A k, m \in 1 .. Len(s) : k # m => s[k] # s[m])
                => Before(Sorted(s)[i], Sorted(s)[j])
<1> DEFINE L == Len(s)
           p(i) == CHOOSE j \in DOMAIN s : Position(s, j) = i
<1>1. L \in Nat /\ DOMAIN s = 1 .. L
  OBVIOUS
<1>2. \A i \in 1 .. L : p(i) \in 1 .. L /\ Position(s, p(i)) = i
  BY <1>1, PositionOnto
<1>3. Sorted(s) = [i \in 1 .. L |-> s[p(i)]]
  BY <1>1 DEF Sorted
<1>4. \A j \in 1 .. L : p(Position(s, j)) = j
  <2> SUFFICES ASSUME NEW j \in 1 .. L PROVE p(Position(s, j)) = j
    OBVIOUS
  <2> DEFINE k == p(Position(s, j))
  <2>1. k \in 1 .. L /\ Position(s, k) = Position(s, j) /\ Position(s, j) \in 1 .. L
    BY <1>2, PositionInRange
  <2>. HIDE DEF k
  <2>2. k # j => Earlier(s, k, j) \/ Earlier(s, j, k)
    BY <1>1, <2>1, EarlierOrder
  <2>3. k = j
    BY <2>1, <2>2, PositionGrows
  <2> QED
    BY <2>3 DEF k
<1>5. \A i \in 1 .. L : Sorted(s)[i] = s[p(i)]
  BY <1>3
<1>6. \A i \in 1 .. L : Sorted(s)[i] \in Tickets
  BY <1>1, <1>2, <1>5
<1>7. Sorted(s) \in Seq(Tickets) /\ Len(Sorted(s)) = L
  BY <1>1, <1>2, <1>3
<1>8. Elements(Sorted(s)) = Elements(s)
  <2>1. DOMAIN Sorted(s) = 1 .. L
    BY <1>3
  <2>2. \A j \in 1 .. L : \E i \in 1 .. L : Sorted(s)[i] = s[j]
    BY <1>4, <1>5, PositionInRange
  <2>3. \A i \in 1 .. L : \E j \in 1 .. L : Sorted(s)[i] = s[j]
    BY <1>2, <1>5
  <2>4. \A x : x \in Elements(Sorted(s)) <=> \E i \in 1 .. L : x = Sorted(s)[i]
    BY <2>1 DEF Elements
  <2>5. \A x : x \in Elements(s) <=> \E i \in 1 .. L : x = s[i]
    BY <1>1 DEF Elements
  <2>6. \A x : x \in Elements(Sorted(s)) <=> x \in Elements(s)
    BY <2>2, <2>3, <2>4, <2>5
  <2>7. Elements(Sorted(s)) \subseteq Elements(s) /\ Elements(s) \subseteq Elements(Sorted(s))
    BY <2>6
  <2> QED
    BY <2>7
<1>9. ASSUME NEW i \in 1 .. L, NEW j \in 1 .. L, i < j,
             \A k, m \in 1 .. L : k # m => s[k] # s[m]
      PROVE  Before(Sorted(s)[i], Sorted(s)[j])
  <2>. HIDE DEF p
  <2>1. /\ p(i) \in 1 .. L /\ Position(s, p(i)) = i
        /\ p(j) \in 1 .. L /\ Position(s, p(j)) = j
    BY <1>2
  <2>2. p(i) # p(j)
    BY <1>9, <2>1
  <2>3. ~Earlier(s, p(j), p(i))
    BY <1>9, <2>1, PositionGrows
  <2>4. Earlier(s, p(i), p(j))
    BY <1>1, <2>1, <2>2, <2>3, EarlierOrder
  <2>5. Before(s[p(i)], s[p(j)])
    BY <1>9, <2>1, <2>2, <2>4 DEF Earlier
  <2> QED
    BY <1>5, <2>5
<1> QED
  BY <1>7, <1>8, <1>9

(* Sorting a sorted list changes nothing.                                  *)
LEMMA SortedStays ==
  ASSUME NEW s \in Seq(Tickets),
         \A i, j \in 1 .. Len(s) : i < j => Before(s[i], s[j])
  PROVE  Sorted(s) = s
<1> DEFINE L == Len(s)
<1>1. L \in Nat /\ DOMAIN s = 1 .. L
  OBVIOUS
<1>2. ASSUME NEW j \in 1 .. L PROVE Position(s, j) = j
  <2>1. \A k \in 1 .. L : Earlier(s, k, j) <=> k < j
    <3> SUFFICES ASSUME NEW k \in 1 .. L PROVE Earlier(s, k, j) <=> k < j
      OBVIOUS
    <3>1. k < j => Earlier(s, k, j)
      BY DEF Earlier
    <3>2. j < k => Earlier(s, j, k)
      BY DEF Earlier
    <3>3. Earlier(s, k, j) => ~Earlier(s, j, k) /\ k # j
      BY <1>1, EarlierOrder
    <3> QED
      BY <1>1, <3>1, <3>2, <3>3
  <2>2. {k \in DOMAIN s : Earlier(s, k, j)} = 1 .. j - 1
    BY <1>1, <2>1
  <2>3. Cardinality(1 .. j - 1) = j - 1
    BY <1>1, FS_Interval
  <2>4. Position(s, j) = 1 + (j - 1)
    BY <2>2, <2>3 DEF Position
  <2> QED
    BY <2>4
<1>3. \A i \in 1 .. L : (CHOOSE j \in DOMAIN s : Position(s, j) = i) = i
  BY <1>1, <1>2
<1>4. Sorted(s) = [i \in DOMAIN s |-> s[i]]
  <2>1. \A i \in DOMAIN s : s[CHOOSE j \in DOMAIN s : Position(s, j) = i] = s[i]
    BY <1>1, <1>3, Zenon
  <2> QED
    BY <2>1, Zenon DEF Sorted
<1> QED
  BY <1>1, <1>4

(* slice(0, E).                                                            *)
LEMMA FirstEIsPrefix ==
  ASSUME NEW s \in Seq(Tickets)
  PROVE  /\ FirstE(s) \in Seq(Tickets)
         /\ Len(FirstE(s)) = IF Len(s) > E THEN E ELSE Len(s)
         /\ \A i \in 1 .. Len(FirstE(s)) : FirstE(s)[i] = s[i]
<1>1. E \in Nat
  BY Sizes
<1>2. CASE Len(s) > E
  <2>1. FirstE(s) = SubSeq(s, 1, E)
    BY <1>2 DEF FirstE
  <2>2. SubSeq(s, 1, E) \in Seq(Tickets) /\ Len(SubSeq(s, 1, E)) = E
          /\ \A i \in 1 .. E : SubSeq(s, 1, E)[i] = s[i]
    BY <1>1, <1>2
  <2> QED
    BY <1>2, <2>1, <2>2
<1>3. CASE ~(Len(s) > E)
  BY <1>3 DEF FirstE
<1> QED
  BY <1>2, <1>3

(* The accumulator after a block, whatever it was before: sorted, within   *)
(* its size, and nothing it lost comes before what it kept.                *)
LEMMA AccumulateKeepsBest ==
  ASSUME NEW new \in Seq(Tickets), NEW old \in Seq(Tickets),
         \A i, j \in 1 .. Len(new) : i # j => new[i] # new[j],
         \A i, j \in 1 .. Len(old) : i # j => old[i] # old[j],
         \A i \in 1 .. Len(new), j \in 1 .. Len(old) : new[i] # old[j]
  PROVE  LET q == FirstE(Sorted(new \o old))
         IN  /\ q \in Seq(Tickets) /\ Len(q) <= E
             /\ Len(q) = IF Len(new) + Len(old) > E THEN E ELSE Len(new) + Len(old)
             /\ Elements(q) \subseteq Elements(new) \cup Elements(old)
             /\ \A i, j \in 1 .. Len(q) : i < j => Before(q[i], q[j])
             /\ \A t \in (Elements(new) \cup Elements(old)) \ Elements(q) :
                  Len(q) = E /\ \A i \in 1 .. Len(q) : Before(q[i], t)
<1> DEFINE s == new \o old
           o == Sorted(s)
           q == FirstE(o)
           L == Len(s)
<1>1. /\ s \in Seq(Tickets) /\ L = Len(new) + Len(old) /\ L \in Nat
      /\ \A i \in 1 .. L : s[i] = IF i <= Len(new) THEN new[i] ELSE old[i - Len(new)]
  OBVIOUS
<1>2. \A i, j \in 1 .. L : i # j => s[i] # s[j]
  <2> SUFFICES ASSUME NEW i \in 1 .. L, NEW j \in 1 .. L, i # j PROVE s[i] # s[j]
    OBVIOUS
  <2>1. CASE i <= Len(new) /\ j <= Len(new)
    BY <1>1, <2>1
  <2>2. CASE i <= Len(new) /\ j > Len(new)
    BY <1>1, <2>2
  <2>3. CASE i > Len(new) /\ j <= Len(new)
    <3>1. i - Len(new) \in 1 .. Len(old) /\ j \in 1 .. Len(new)
      BY <1>1, <2>3
    <3> QED
      BY <1>1, <2>3, <3>1
  <2>4. CASE i > Len(new) /\ j > Len(new)
    <3> DEFINE a == i - Len(new)
               b == j - Len(new)
    <3>1. a \in 1 .. Len(old) /\ b \in 1 .. Len(old) /\ a # b
      BY <1>1, <2>4
    <3>2. s[i] = old[a] /\ s[j] = old[b]
      BY <1>1, <2>4
    <3>. HIDE DEF a, b, s
    <3> QED
      BY <3>1, <3>2
  <2> QED
    BY <1>1, <2>1, <2>2, <2>3, <2>4
<1>3. Elements(s) = Elements(new) \cup Elements(old)
  <2>1. \A x : x \in Elements(s) <=> \E i \in 1 .. L : x = s[i]
    <3>1. DOMAIN s = 1 .. L
      BY <1>1
    <3> QED
      BY <3>1, Zenon DEF Elements
  <2>2. \A x : x \in Elements(new) <=> \E i \in 1 .. Len(new) : x = new[i]
    BY DEF Elements
  <2>3. \A x : x \in Elements(old) <=> \E i \in 1 .. Len(old) : x = old[i]
    BY DEF Elements
  <2>4. \A i \in 1 .. Len(new) : i \in 1 .. L /\ new[i] = s[i]
    BY <1>1
  <2>5. \A i \in 1 .. Len(old) : i + Len(new) \in 1 .. L /\ old[i] = s[i + Len(new)]
    BY <1>1
  <2>6. \A i \in 1 .. L : \/ i \in 1 .. Len(new) /\ s[i] = new[i]
                          \/ i - Len(new) \in 1 .. Len(old) /\ s[i] = old[i - Len(new)]
    BY <1>1
  <2>. HIDE DEF s
  <2>7. ASSUME NEW x \in Elements(s) PROVE x \in Elements(new) \cup Elements(old)
    <3>1. PICK i \in 1 .. L : x = s[i]
      BY <2>1
    <3>2. CASE i \in 1 .. Len(new) /\ s[i] = new[i]
      BY <2>2, <3>1, <3>2
    <3>3. CASE i - Len(new) \in 1 .. Len(old) /\ s[i] = old[i - Len(new)]
      <4>1. x \in Elements(old)
        BY <2>3, <3>1, <3>3
      <4> QED
        BY <4>1
    <3> QED
      BY <2>6, <3>2, <3>3
  <2>8. ASSUME NEW x \in Elements(new) PROVE x \in Elements(s)
    <3>1. PICK i \in 1 .. Len(new) : x = new[i]
      BY <2>2
    <3> QED
      BY <2>1, <2>4, <3>1
  <2>9. ASSUME NEW x \in Elements(old) PROVE x \in Elements(s)
    <3>1. PICK i \in 1 .. Len(old) : x = old[i]
      BY <2>3
    <3> QED
      BY <2>1, <2>5, <3>1
  <2> QED
    BY <2>7, <2>8, <2>9
<1>. HIDE DEF s
<1>4. /\ o \in Seq(Tickets) /\ Len(o) = L /\ Elements(o) = Elements(s)
      /\ \A i, j \in 1 .. L : i < j => Before(o[i], o[j])
  BY <1>1, <1>2, SortedIsSorted
<1>. HIDE DEF o
<1>5. /\ q \in Seq(Tickets)
      /\ Len(q) = IF L > E THEN E ELSE L
      /\ \A i \in 1 .. Len(q) : q[i] = o[i]
  BY <1>4, FirstEIsPrefix
<1>. HIDE DEF q
<1>6. Elements(q) \subseteq Elements(o)
  <2>1. DOMAIN q = 1 .. Len(q) /\ DOMAIN o = 1 .. L
    BY <1>4, <1>5
  <2>2. \A i \in 1 .. Len(q) : i \in 1 .. L /\ q[i] = o[i]
    BY <1>1, <1>5, Sizes
  <2> QED
    BY <2>1, <2>2, Zenon DEF Elements
<1>7. \A i, j \in 1 .. Len(q) : i < j => Before(q[i], q[j])
  BY <1>1, <1>4, <1>5, Sizes
<1>8. ASSUME NEW t \in Elements(o) \ Elements(q)
      PROVE  Len(q) = E /\ \A i \in 1 .. Len(q) : Before(q[i], t)
  <2>1. PICK k \in 1 .. L : t = o[k]
    BY <1>4 DEF Elements
  <2>2. k \notin 1 .. Len(q)
    BY <1>5, <2>1, <1>8 DEF Elements
  <2>3. Len(q) = E /\ k > E
    BY <1>1, <1>5, <2>1, <2>2, Sizes
  <2> QED
    BY <1>1, <1>4, <1>5, <2>1, <2>3, Sizes
<1>9. Len(q) <= E /\ Len(q) = IF Len(new) + Len(old) > E THEN E ELSE Len(new) + Len(old)
  BY <1>1, <1>5, Sizes
<1> QED
  BY <1>3, <1>4, <1>5, <1>6, <1>7, <1>8, <1>9 DEF q, o, s

(* A full list of E tickets with one that another full list lacks lacks    *)
(* one of that list's.                                                     *)
LEMMA FullDisplaces ==
  ASSUME NEW q \in Seq(Tickets), Len(q) = E, NEW old \in Seq(Tickets), Len(old) = E,
         \A i, j \in 1 .. E : i # j => old[i] # old[j],
         NEW n \in Elements(q), n \notin Elements(old)
  PROVE  \E t \in Elements(old) : t \notin Elements(q)
<1> SUFFICES ASSUME \A t \in Elements(old) : t \in Elements(q) PROVE FALSE
  OBVIOUS
<1> DEFINE f == [j \in 1 .. E |-> CHOOSE i \in 1 .. E : q[i] = old[j]]
<1>1. \A j \in 1 .. E : old[j] \in Elements(old)
  BY DEF Elements
<1>2. \A j \in 1 .. E : \E i \in 1 .. E : q[i] = old[j]
  <2>1. DOMAIN q = 1 .. E
    OBVIOUS
  <2> SUFFICES ASSUME NEW j \in 1 .. E PROVE \E i \in 1 .. E : q[i] = old[j]
    OBVIOUS
  <2>2. old[j] \in Elements(q)
    BY <1>1
  <2> QED
    BY <2>1, <2>2, Zenon DEF Elements
<1>3. \A j \in 1 .. E : f[j] \in 1 .. E /\ q[f[j]] = old[j]
  BY <1>2
<1>4. f \in [1 .. E -> 1 .. E]
  BY <1>3
<1>5. \A i, j \in 1 .. E : i # j => f[i] # f[j]
  <2>. HIDE DEF f
  <2> QED
    BY <1>3
<1>. HIDE DEF f
<1>6. f \in Injection(1 .. E, 1 .. E)
  BY <1>4, <1>5 DEF Injection, IsInjective
<1>7. f \in Surjection(1 .. E, 1 .. E)
  BY <1>6, Sizes, FS_Interval, FS_Injection
<1>8. PICK i \in 1 .. E : n = q[i]
  BY DEF Elements
<1>9. PICK j \in 1 .. E : f[j] = i
  BY <1>7 DEF Surjection
<1> QED
  BY <1>1, <1>3, <1>8, <1>9

(* Outside in, every place of an accumulator is used once.                 *)
LEMMA OutsideInIsPermutation ==
  ASSUME NEW t \in Seq(Tickets), Len(t) = E
  PROVE  /\ OutsideIn(t) \in [1 .. E -> Tickets]
         /\ \A i \in 1 .. E : OutsideIn(t)[i] \in Elements(t)
         /\ (\A i, j \in 1 .. E : i # j => t[i] # t[j])
              => \A i, j \in 1 .. E : i # j => OutsideIn(t)[i] # OutsideIn(t)[j]
<1> DEFINE p(i) == IF i % 2 = 1 THEN (i + 1) \div 2 ELSE E + 1 - i \div 2
<1>1. E \in Nat /\ E % 2 = 0
  BY ConstantsAssumption
<1>2. \A i \in 1 .. E : p(i) \in 1 .. E
  BY <1>1
<1>3. \A i, j \in 1 .. E : p(i) = p(j) => i = j
  BY <1>1
<1>4. \A i \in 1 .. E : OutsideIn(t)[i] = t[p(i)]
  BY DEF OutsideIn
<1>5. \A i \in 1 .. E : t[p(i)] \in Tickets /\ t[p(i)] \in Elements(t)
  <2>. HIDE DEF p
  <2> QED
    BY <1>2 DEF Elements
<1>6. OutsideIn(t) = [i \in 1 .. E |-> OutsideIn(t)[i]]
  BY DEF OutsideIn
<1>. HIDE DEF p
<1> QED
  BY <1>2, <1>3, <1>4, <1>5, <1>6

(* An epoch's later slot has the later phase.                              *)
LEMMA PhaseGrows ==
  ASSUME NEW s \in Nat, NEW r \in Nat, r > s
  PROVE  /\ Epoch(s) \in Nat /\ Phase(s) \in 0 .. E - 1
         /\ Epoch(r) \in Nat /\ Phase(r) \in 0 .. E - 1
         /\ Epoch(r) = Epoch(s) => Phase(r) > Phase(s)
         /\ Epoch(r) >= Epoch(s)
<1>1. E \in Nat \ {0}
  BY Sizes
<1>2. /\ s \div E \in Nat /\ s % E \in 0 .. E - 1 /\ s = E * (s \div E) + (s % E)
      /\ r \div E \in Nat /\ r % E \in 0 .. E - 1 /\ r = E * (r \div E) + (r % E)
  BY <1>1
<1> DEFINE a == s \div E
           b == r \div E
<1>. HIDE DEF a, b
<1>3. a \in Nat /\ b \in Nat /\ (b < a => b + 1 <= a)
  BY <1>2 DEF a, b
<1>4. b < a => E * a >= E * b + E
  BY <1>1, <1>3
<1>5. b >= a
  BY <1>1, <1>2, <1>3, <1>4 DEF a, b
<1>6. b = a => r % E > s % E
  <2>1. s = E * a + (s % E) /\ r = E * b + (r % E)
    BY <1>2 DEF a, b
  <2>2. b = a => E * b = E * a /\ E * a \in Int
    BY <1>1, <1>3
  <2> QED
    BY <1>2, <2>1, <2>2
<1> QED
  BY <1>2, <1>3, <1>5, <1>6, Zenon DEF a, b, Epoch, Phase

-----------------------------------------------------------------------------
(* The strengthening: what the accumulator holds can seal the next epoch.  *)
RingInv ==
  /\ gammaZ \subseteq RingRoot(gammaP)
  /\ \A t \in Elements(gammaA) : t.key \in gammaZ /\ t.eta = eta[2] /\ t.attempt < N

(* Sealing tickets are distinct and in the validators' allowance.          *)
SealersInv ==
  gammaS.mode = "tickets" =>
    /\ \A i \in 1 .. E : gammaS.slots[i].attempt < N
    /\ \A i, j \in 1 .. E : i # j => gammaS.slots[i] # gammaS.slots[j]

(* The headers' marks tell what the state holds.                           *)
MarksInv ==
  /\ prev = [entropy |-> eta[2], entropy2 |-> eta[3], validators |-> kappa]
  /\ last = [entropy |-> eta[1], entropy2 |-> eta[2], validators |-> gammaP]
  /\ won = IF Phase(slot) >= Y /\ Len(gammaA) = E THEN OutsideIn(gammaA) ELSE NoMark

SafroleInv ==
  /\ TypeOK /\ RingInv /\ BestTicketsKept /\ EntropySettled
  /\ SlotsHaveSealers /\ SealersInv /\ MarksInv

LEMMA EtaRange == 0 \in Etas /\ \A s \in 0 .. MaxSlot : s \in Etas
BY Sizes DEF Etas

(* What a fallback series is made of.                                      *)
LEMMA ByKeysType ==
  ASSUME NEW e \in Etas, NEW seats \in Seats
  PROVE  /\ ByKeys(e, seats) \in Sealers
         /\ ByKeys(e, seats).mode = "keys"
         /\ \A i \in 1 .. E : \E s \in 1 .. V : seats[s] = ByKeys(e, seats).slots[i]
<1>1. \A i \in 1 .. E : <<e, i - 1>> \in Etas \X (0 .. E - 1)
  BY Sizes
<1>2. \A i \in 1 .. E : FallbackSeat[e, i - 1] \in 1 .. V
  BY <1>1, ConstantsAssumption
<1>3. \A i \in 1 .. E : seats[FallbackSeat[e, i - 1]] \in Keys \cup {NoKey}
  BY <1>2 DEF Seats
<1>4. FallbackKeys(e, seats) \in [1 .. E -> Keys \cup {NoKey}]
  BY <1>3 DEF FallbackKeys
<1>5. \A i \in 1 .. E : FallbackKeys(e, seats)[i] = seats[FallbackSeat[e, i - 1]]
  BY DEF FallbackKeys
<1> QED
  BY <1>2, <1>4, <1>5 DEF ByKeys, Sealers

LEMMA ByTicketsType ==
  ASSUME NEW t \in Seq(Tickets), Len(t) = E
  PROVE  ByTickets(t) \in Sealers /\ ByTickets(t).mode = "tickets"
           /\ ByTickets(t).slots = OutsideIn(t)
BY OutsideInIsPermutation DEF ByTickets, Sealers

(* What iota offers has the type of the seats.                             *)
LEMMA ValidatorSetsType == ValidatorSets \subseteq Seats /\ NoKey \notin Keys
BY ConstantsAssumption

LEMMA RingRootType == ASSUME NEW seats \in Seats
  PROVE RingRoot(seats) \subseteq Keys
        /\ \A k \in RingRoot(seats) : \E s \in 1 .. V : seats[s] = k
BY DEF RingRoot, Seats

LEMMA InitInv == Init => SafroleInv
<1> SUFFICES ASSUME Init PROVE SafroleInv
  OBVIOUS
<1>. USE DEF Init
<1>1. /\ -0 * E = 0 /\ -1 * E = -E /\ -2 * E = -(2 * E) /\ -3 * E = -(3 * E)
      /\ 0 \in Etas /\ -E \in Etas /\ -(2 * E) \in Etas /\ -(3 * E) \in Etas
  BY Sizes DEF Etas
<1>2. /\ eta \in [0 .. 3 -> Etas]
      /\ \/ /\ eta[0] = 0 /\ eta[1] = -E
            /\ eta[2] = -(2 * E) /\ eta[3] = -(3 * E)
         \/ \A k \in 0 .. 3 : eta[k] = -(3 * E)
  <2>1. CASE EmptyGenesis
    BY <1>1, <2>1 DEF EmptyGenesis
  <2>2. CASE GivenGenesis
    <3>1. \A i \in 0 .. 3 : i = 0 \/ i = 1 \/ i = 2 \/ i = 3
      OBVIOUS
    <3>2. \A i \in 0 .. 3 : -i * E \in Etas
      BY <1>1, <3>1
    <3> QED
      BY <1>1, <2>2, <3>2 DEF GivenGenesis
  <2> QED
    BY <2>1, <2>2
<1>3. kappa \in Seats /\ gammaP \in Seats /\ gammaZ \subseteq RingRoot(gammaP)
        /\ gammaZ \subseteq Keys
  <2>1. [i \in 1 .. V |-> NoKey] \in Seats
    BY DEF Seats
  <2> QED
    BY <2>1, ValidatorSetsType, RingRootType DEF EmptyGenesis, GivenGenesis
<1>4. eta[2] \in Etas /\ eta[3] \in Etas /\ eta[1] \in Etas
  <2>1. eta \in [0 .. 3 -> Etas]
    BY <1>2
  <2>. HIDE DEF Init
  <2> QED
    BY <2>1
<1>5. gammaS \in Sealers /\ gammaS.mode = "keys" /\ SlotsHaveSealers
  BY <1>3, <1>4, ByKeysType DEF SlotsHaveSealers
<1>6. prev \in EpochMarks /\ last \in EpochMarks
  BY <1>3, <1>4 DEF EpochMarks
<1>7. gammaA \in Seq(Tickets) /\ Len(gammaA) = 0 /\ Elements(gammaA) = {} /\ DOMAIN gammaA = {}
  BY DEF Elements
<1>8. TypeOK
  <2>1. eta \in [0 .. 3 -> Etas]
    BY <1>2
  <2> QED
    BY <2>1, <1>3, <1>5, <1>6, <1>7, Sizes DEF TypeOK
<1>9. RingInv /\ BestTicketsKept
  BY <1>3, <1>7 DEF RingInv, BestTicketsKept
<1>10. EntropySettled
  <2>1. /\ 0 \div E = 0 /\ (-E) \div E = -1
        /\ (-(2 * E)) \div E = -2 /\ (-(3 * E)) \div E = -3
    BY Sizes
  <2>2. \A k \in 0 .. 3 : k = 0 \/ k = 1 \/ k = 2 \/ k = 3
    OBVIOUS
  <2>3. CASE \A k \in 0 .. 3 : eta[k] = -(3 * E)
    BY <2>1, <2>2, <2>3 DEF EntropySettled, Epoch
  <2>4. CASE /\ eta[0] = 0 /\ eta[1] = -E
             /\ eta[2] = -(2 * E) /\ eta[3] = -(3 * E)
    BY <2>1, <2>2, <2>4 DEF EntropySettled, Epoch
  <2> QED
    BY <1>2, <2>3, <2>4
<1>11. MarksInv
  BY <1>7, Sizes DEF MarksInv
<1>12. SealersInv
  BY <1>5 DEF SealersInv
<1> QED
  BY <1>5, <1>8, <1>9, <1>10, <1>11, <1>12 DEF SafroleInv

-----------------------------------------------------------------------------
(* Next, its choices named.                                                *)
Step(newSlot, author, tickets) ==
  /\ newSlot \in slot + 1 .. MaxSlot
  /\ author \in Keys
  /\ slot' = newSlot
  /\ RotateEntropy(newSlot)
  /\ RotateRing(newSlot)
  /\ NextSealers(newSlot)
  /\ SealValid(author, newSlot)
  /\ KeepEpochMarks(newSlot)
  /\ KeepTicketsMark(newSlot)
  /\ tickets \in Extrinsics(gammaZ', eta'[2])
  /\ TicketsValid(tickets, newSlot)
  /\ Accumulate(tickets, newSlot)
  /\ NoteTickets(tickets, newSlot)

LEMMA NextIsStep == Next => \E newSlot, author, tickets : Step(newSlot, author, tickets)
<1> SUFFICES ASSUME Next PROVE \E newSlot, author, tickets : Step(newSlot, author, tickets)
  OBVIOUS
<1>1. PICK newSlot \in slot + 1 .. MaxSlot, author \in Keys : Block(newSlot, author)
  BY DEF Next
<1>2. PICK tickets \in Extrinsics(gammaZ', eta'[2]) :
        TicketsValid(tickets, newSlot) /\ Accumulate(tickets, newSlot)
          /\ NoteTickets(tickets, newSlot)
  BY <1>1 DEF Block
<1>3. Step(newSlot, author, tickets)
  BY <1>1, <1>2 DEF Block, Step
<1> QED
  BY <1>3

(* The slot advances; the entropies keep their range.                      *)
LEMMA StepEntropy ==
  ASSUME SafroleInv, NEW newSlot, NEW author, NEW tickets, Step(newSlot, author, tickets)
  PROVE  /\ slot \in Nat /\ newSlot \in Nat /\ newSlot > slot
         /\ slot' = newSlot /\ slot' \in 0 .. MaxSlot
         /\ eta' \in [0 .. 3 -> Etas] /\ eta'[0] = newSlot
         /\ NewerEra(newSlot) =>
              eta'[1] = eta[0] /\ eta'[2] = eta[1] /\ eta'[3] = eta[2]
         /\ ~NewerEra(newSlot) =>
              eta'[1] = eta[1] /\ eta'[2] = eta[2] /\ eta'[3] = eta[3]
<1>1. slot \in 0 .. MaxSlot /\ eta \in [0 .. 3 -> Etas]
  BY DEF SafroleInv, TypeOK
<1>2. /\ slot \in Nat /\ newSlot \in Nat /\ newSlot > slot
      /\ slot' = newSlot /\ slot' \in 0 .. MaxSlot
  BY <1>1, Sizes DEF Step
<1>3. newSlot \in Etas
  BY <1>2, EtaRange
<1>4. eta' = [i \in 0 .. 3 |-> IF i = 0 THEN newSlot
                               ELSE IF NewerEra(newSlot) THEN eta[i - 1] ELSE eta[i]]
  BY DEF Step, RotateEntropy
<1>5. \A i \in 0 .. 3 : (IF i = 0 THEN newSlot
                         ELSE IF NewerEra(newSlot) THEN eta[i - 1] ELSE eta[i]) \in Etas
  BY <1>1, <1>3
<1> QED
  BY <1>2, <1>4, <1>5

(* The ring and its root advance together.                                 *)
LEMMA StepRing ==
  ASSUME SafroleInv, NEW newSlot, NEW author, NEW tickets, Step(newSlot, author, tickets)
  PROVE  /\ kappa' \in Seats /\ gammaP' \in Seats /\ gammaZ' \subseteq Keys
         /\ gammaZ' \subseteq RingRoot(gammaP')
         /\ NewerEra(newSlot) => kappa' = gammaP
         /\ ~NewerEra(newSlot) =>
              kappa' = kappa /\ gammaP' = gammaP /\ gammaZ' = gammaZ
BY ValidatorSetsType, RingRootType DEF SafroleInv, TypeOK, RingInv, Step, RotateRing

(* The accumulator's size, order and contents after a block.               *)
LEMMA StepAccumulator ==
  ASSUME SafroleInv, NEW newSlot, NEW author, NEW tickets, Step(newSlot, author, tickets)
  PROVE  /\ tickets \in Seq(Tickets) /\ Carried(newSlot) \in Seq(Tickets)
         /\ Len(Carried(newSlot)) <= E
         /\ gammaA' \in Seq(Tickets) /\ Len(gammaA') <= E
         /\ Len(Carried(newSlot)) = E => Len(gammaA') = E
         /\ Elements(gammaA') \subseteq Elements(tickets) \cup Elements(Carried(newSlot))
         /\ \A i, j \in 1 .. Len(gammaA') : i < j => Before(gammaA'[i], gammaA'[j])
         /\ \A t \in (Elements(tickets) \cup Elements(Carried(newSlot))) \ Elements(gammaA') :
              Len(gammaA') = E /\ \A i \in 1 .. Len(gammaA') : Before(gammaA'[i], t)
         /\ \A i, j \in 1 .. Len(Carried(newSlot)) :
              i # j => Carried(newSlot)[i] # Carried(newSlot)[j]
         /\ \A t \in Elements(tickets) : t \notin Elements(Carried(newSlot))
<1> DEFINE old == Carried(newSlot)
<1>1. gammaA \in Seq(Tickets) /\ Len(gammaA) <= E
      /\ \A i, j \in 1 .. Len(gammaA) : i < j => Before(gammaA[i], gammaA[j])
  BY DEF SafroleInv, TypeOK, BestTicketsKept
<1>2. old \in Seq(Tickets) /\ Len(old) <= E
      /\ \A i, j \in 1 .. Len(old) : i < j => Before(old[i], old[j])
  BY <1>1, Sizes DEF Carried
<1>3. \A i \in 1 .. Len(old) : i \in 1 .. Len(gammaA) /\ old[i] = gammaA[i]
  BY DEF Carried
<1>4. PICK n \in 0 .. K : tickets \in [1 .. n -> Provable(gammaZ', eta'[2])]
  BY DEF Step, Extrinsics
<1>5. tickets \in Seq(Tickets) /\ Len(tickets) = n /\ DOMAIN tickets = 1 .. n /\ n \in Nat
  BY <1>4, ConstantsAssumption DEF Provable
<1>6. /\ \A i, j \in 1 .. n : i < j => Before(tickets[i], tickets[j])
      /\ \A i \in 1 .. n, j \in 1 .. Len(gammaA) : tickets[i] # gammaA[j]
  <2>1. CASE tickets = <<>>
    BY <1>5, <2>1
  <2>2. CASE tickets # <<>>
    BY SMTT(20), <1>1, <1>5, <2>2 DEF Step, TicketsValid
  <2> QED
    BY <2>1, <2>2
<1>7. ASSUME NEW t \in Tickets PROVE ~Before(t, t)
  BY ConstantsAssumption DEF Before
<1>. HIDE DEF old
<1>8. \A i, j \in 1 .. Len(old) : i # j => old[i] # old[j]
  <2> SUFFICES ASSUME NEW i \in 1 .. Len(old), NEW j \in 1 .. Len(old), i # j
               PROVE  old[i] # old[j]
    OBVIOUS
  <2>1. old[i] \in Tickets /\ old[j] \in Tickets /\ (i < j \/ j < i)
    BY <1>2
  <2> QED
    BY <1>2, <1>7, <2>1
<1>9. \A i, j \in 1 .. n : i # j => tickets[i] # tickets[j]
  <2> SUFFICES ASSUME NEW i \in 1 .. n, NEW j \in 1 .. n, i # j
               PROVE  tickets[i] # tickets[j]
    OBVIOUS
  <2>1. tickets[i] \in Tickets /\ tickets[j] \in Tickets /\ (i < j \/ j < i)
    BY <1>5
  <2> QED
    BY <1>6, <1>7, <2>1
<1>10. \A i \in 1 .. n, j \in 1 .. Len(old) : tickets[i] # old[j]
  BY <1>3, <1>6
<1>11. gammaA' = FirstE(Sorted(tickets \o old))
  BY DEF Step, Accumulate, old
<1>12. /\ gammaA' \in Seq(Tickets) /\ Len(gammaA') <= E
       /\ Len(gammaA') = IF Len(tickets) + Len(old) > E THEN E ELSE Len(tickets) + Len(old)
       /\ Elements(gammaA') \subseteq Elements(tickets) \cup Elements(old)
       /\ \A i, j \in 1 .. Len(gammaA') : i < j => Before(gammaA'[i], gammaA'[j])
       /\ \A t \in (Elements(tickets) \cup Elements(old)) \ Elements(gammaA') :
            Len(gammaA') = E /\ \A i \in 1 .. Len(gammaA') : Before(gammaA'[i], t)
  BY <1>2, <1>5, <1>8, <1>9, <1>10, <1>11, AccumulateKeepsBest
<1>13. Len(old) = E => Len(gammaA') = E
  BY <1>5, <1>12, Sizes
<1>14. \A t \in Elements(tickets) : t \notin Elements(old)
  <2>1. DOMAIN old = 1 .. Len(old)
    BY <1>2
  <2> QED
    BY <1>5, <1>10, <2>1, Zenon DEF Elements
<1> QED
  BY <1>2, <1>5, <1>8, <1>12, <1>13, <1>14 DEF old

(* What the accumulator holds can seal the next epoch.                     *)
LEMMA StepRingInv ==
  ASSUME SafroleInv, NEW newSlot, NEW author, NEW tickets, Step(newSlot, author, tickets)
  PROVE  RingInv'
<1>1. gammaZ' \subseteq RingRoot(gammaP')
  BY StepRing
<1>2. ASSUME NEW t \in Elements(tickets)
      PROVE  t.key \in gammaZ' /\ t.eta = eta'[2] /\ t.attempt < N
  <2>1. PICK i \in DOMAIN tickets : t = tickets[i]
    BY DEF Elements
  <2>2. tickets # <<>>
    BY <2>1
  <2>3. tickets[i].attempt < N /\ tickets[i] \in Provable(gammaZ', eta'[2])
    BY <2>2 DEF Step, TicketsValid
  <2> QED
    BY <2>1, <2>3 DEF Provable
<1>3. ASSUME NEW t \in Elements(Carried(newSlot))
      PROVE  t.key \in gammaZ' /\ t.eta = eta'[2] /\ t.attempt < N
  <2>1. CASE NewerEra(newSlot)
    BY <1>3, <2>1 DEF Carried, Elements
  <2>2. CASE ~NewerEra(newSlot)
    BY <1>3, <2>2, StepRing, StepEntropy DEF Carried, SafroleInv, RingInv
  <2> QED
    BY <2>1, <2>2
<1>4. Elements(gammaA') \subseteq Elements(tickets) \cup Elements(Carried(newSlot))
  BY StepAccumulator
<1>5. \A t \in Elements(gammaA') :
        t.key \in gammaZ' /\ t.eta = eta'[2] /\ t.attempt < N
  BY <1>2, <1>3, <1>4
<1>6. Elements(gammaA)' = Elements(gammaA')
  BY DEF Elements
<1> QED
  BY <1>1, <1>5, <1>6 DEF RingInv, RingRoot

(* The accumulator keeps the best of all that the epoch brought.           *)
LEMMA StepBest ==
  ASSUME SafroleInv, NEW newSlot, NEW author, NEW tickets, Step(newSlot, author, tickets)
  PROVE  BestTicketsKept' /\ submitted' \subseteq Tickets
<1> DEFINE old == Carried(newSlot)
           past == IF NewerEra(newSlot) THEN {} ELSE submitted
<1>1. /\ tickets \in Seq(Tickets) /\ old \in Seq(Tickets) /\ Len(old) <= E
      /\ gammaA' \in Seq(Tickets) /\ Len(gammaA') <= E
      /\ Len(old) = E => Len(gammaA') = E
      /\ Elements(gammaA') \subseteq Elements(tickets) \cup Elements(old)
      /\ \A i, j \in 1 .. Len(gammaA') : i < j => Before(gammaA'[i], gammaA'[j])
      /\ \A t \in (Elements(tickets) \cup Elements(old)) \ Elements(gammaA') :
           Len(gammaA') = E /\ \A i \in 1 .. Len(gammaA') : Before(gammaA'[i], t)
      /\ \A i, j \in 1 .. Len(old) : i # j => old[i] # old[j]
      /\ \A t \in Elements(tickets) : t \notin Elements(old)
  BY StepAccumulator
<1>2. submitted' = Elements(tickets) \cup past
  BY DEF Step, NoteTickets
<1>3. /\ Elements(old) \subseteq past /\ past \subseteq Tickets
      /\ \A t \in past \ Elements(old) :
           Len(old) = E /\ \A i \in 1 .. Len(old) : Before(old[i], t)
  <2>1. CASE NewerEra(newSlot)
    BY <2>1 DEF Carried, Elements
  <2>2. CASE ~NewerEra(newSlot)
    BY <2>2 DEF Carried, SafroleInv, TypeOK, BestTicketsKept
  <2> QED
    BY <2>1, <2>2
<1>. HIDE DEF old, past
<1>4. Elements(tickets) \subseteq Tickets /\ Elements(old) \subseteq Tickets
  BY <1>1 DEF Elements
<1>5. ASSUME NEW t \in submitted' \ Elements(gammaA')
      PROVE  Len(gammaA') = E /\ \A i \in 1 .. Len(gammaA') : Before(gammaA'[i], t)
  <2>1. CASE t \in Elements(tickets) \cup Elements(old)
    BY <1>1, <1>5, <2>1
  <2>2. CASE t \notin Elements(tickets) \cup Elements(old)
    <3>1. t \in past \ Elements(old) /\ t \in Tickets
      BY <1>2, <1>3, <1>5, <2>2
    <3>2. Len(old) = E /\ Len(gammaA') = E
      BY <1>1, <1>3, <3>1
    <3>3. \A u \in Elements(old) : Before(u, t)
      <4>1. DOMAIN old = 1 .. Len(old)
        BY <1>1
      <4> QED
        BY <1>3, <3>1, <4>1 DEF Elements
    <3>4. ASSUME NEW i \in 1 .. Len(gammaA') PROVE Before(gammaA'[i], t)
      <4> DEFINE n == gammaA'[i]
      <4>1. n \in Elements(gammaA') /\ n \in Tickets
        <5>1. DOMAIN gammaA' = 1 .. Len(gammaA') /\ gammaA'[i] \in Tickets
          BY <1>1
        <5> QED
          BY <5>1, Zenon DEF Elements
      <4>2. CASE n \in Elements(old)
        BY <3>3, <4>2
      <4>3. CASE n \notin Elements(old)
        <5>. HIDE DEF n
        <5>1. PICK u \in Elements(old) : u \notin Elements(gammaA')
          BY <1>1, <3>2, <4>1, <4>3, FullDisplaces
        <5>2. Before(n, u)
          BY <1>1, <5>1 DEF n
        <5>3. Before(u, t)
          BY <3>3, <5>1
        <5>4. Id[n] \in Nat /\ Id[u] \in Nat /\ Id[t] \in Nat
          BY <1>4, <3>1, <4>1, <5>1, ConstantsAssumption
        <5> QED
          BY <5>2, <5>3, <5>4 DEF Before, n
      <4> QED
        BY <4>2, <4>3
    <3> QED
      BY <3>2, <3>4
  <2> QED
    BY <2>1, <2>2
<1>6. Elements(gammaA') \subseteq submitted'
  BY <1>1, <1>2, <1>3
<1>7. submitted' \subseteq Tickets
  BY <1>2, <1>3, <1>4
<1>8. Elements(gammaA)' = Elements(gammaA') /\ DOMAIN gammaA' = 1 .. Len(gammaA')
  BY <1>1 DEF Elements
<1> QED
  BY <1>1, <1>5, <1>6, <1>7, <1>8 DEF BestTicketsKept, Before

(* Each entropy stays an epoch older than the one before it.               *)
LEMMA StepSettled ==
  ASSUME SafroleInv, NEW newSlot, NEW author, NEW tickets, Step(newSlot, author, tickets)
  PROVE  EntropySettled'
<1>1. /\ slot \in Nat /\ newSlot \in Nat /\ newSlot > slot /\ slot' = newSlot
      /\ eta'[0] = newSlot
      /\ NewerEra(newSlot) =>
           eta'[1] = eta[0] /\ eta'[2] = eta[1] /\ eta'[3] = eta[2]
      /\ ~NewerEra(newSlot) =>
           eta'[1] = eta[1] /\ eta'[2] = eta[2] /\ eta'[3] = eta[3]
  BY StepEntropy
<1>2. eta \in [0 .. 3 -> Etas] /\ \A k \in 0 .. 3 : Epoch(eta[k]) <= Epoch(slot) - k
  BY DEF SafroleInv, TypeOK, EntropySettled
<1>3. /\ Epoch(eta[0]) <= Epoch(slot) /\ Epoch(eta[1]) <= Epoch(slot) - 1
      /\ Epoch(eta[2]) <= Epoch(slot) - 2 /\ Epoch(eta[3]) <= Epoch(slot) - 3
  BY <1>2, PhaseGrows, <1>1
<1>4. \A k \in 0 .. 3 : Epoch(eta[k]) \in Int
  BY <1>2, Sizes DEF Epoch, Etas
<1>5. Epoch(slot) \in Nat /\ Epoch(newSlot) \in Nat /\ Epoch(newSlot) >= Epoch(slot)
  BY <1>1, PhaseGrows
<1>6. NewerEra(newSlot) <=> Epoch(newSlot) > Epoch(slot)
  BY DEF NewerEra
<1>7. /\ Epoch(eta[0]) \in Int /\ Epoch(eta[1]) \in Int
      /\ Epoch(eta[2]) \in Int /\ Epoch(eta[3]) \in Int
  BY <1>4
<1>8. /\ Epoch(eta'[0]) <= Epoch(newSlot) - 0 /\ Epoch(eta'[1]) <= Epoch(newSlot) - 1
      /\ Epoch(eta'[2]) <= Epoch(newSlot) - 2 /\ Epoch(eta'[3]) <= Epoch(newSlot) - 3
  <2>1. CASE NewerEra(newSlot)
    BY <1>1, <1>3, <1>5, <1>6, <1>7, <2>1
  <2>2. CASE ~NewerEra(newSlot)
    BY <1>1, <1>3, <1>5, <1>6, <1>7, <2>2
  <2> QED
    BY <2>1, <2>2
<1>9. \A k \in 0 .. 3 : k = 0 \/ k = 1 \/ k = 2 \/ k = 3
  OBVIOUS
<1>10. \A k \in 0 .. 3 : Epoch(eta'[k]) <= Epoch(slot') - k
  BY <1>1, <1>8, <1>9, Zenon
<1> QED
  BY <1>10 DEF EntropySettled, Epoch

(* Every slot of the next epoch has its sealer.                            *)
LEMMA StepSealers ==
  ASSUME SafroleInv, NEW newSlot, NEW author, NEW tickets, Step(newSlot, author, tickets)
  PROVE  gammaS' \in Sealers /\ SlotsHaveSealers' /\ SealersInv'
<1>1. /\ kappa' \in Seats
      /\ NewerEra(newSlot) => kappa' = gammaP
      /\ ~NewerEra(newSlot) => kappa' = kappa
  BY StepRing
<1>2. /\ eta' \in [0 .. 3 -> Etas]
      /\ NewerEra(newSlot) => eta'[3] = eta[2]
      /\ ~NewerEra(newSlot) => eta'[3] = eta[3]
  BY StepEntropy
<1>3. Epoch(slot) \in Nat /\ Epoch(newSlot) \in Nat
  BY StepEntropy, PhaseGrows
<1>4. CASE NextEra(newSlot) /\ Len(gammaA) = E /\ Phase(slot) >= Y
  <2>1. gammaS' = ByTickets(gammaA) /\ NewerEra(newSlot)
    BY <1>3, <1>4 DEF Step, NextSealers, NextEra, NewerEra
  <2>2. /\ gammaA \in Seq(Tickets) /\ Len(gammaA) = E
        /\ \A i, j \in 1 .. E : i < j => Before(gammaA[i], gammaA[j])
    BY <1>4 DEF SafroleInv, TypeOK, BestTicketsKept
  <2>3. \A i, j \in 1 .. E : i # j => gammaA[i] # gammaA[j]
    <3> SUFFICES ASSUME NEW i \in 1 .. E, NEW j \in 1 .. E, i # j
                 PROVE  gammaA[i] # gammaA[j]
      OBVIOUS
    <3>1. gammaA[i] \in Tickets /\ gammaA[j] \in Tickets /\ (i < j \/ j < i)
      BY <2>2
    <3>2. Id[gammaA[i]] \in Nat /\ Id[gammaA[j]] \in Nat
      BY <3>1, ConstantsAssumption
    <3> QED
      BY <2>2, <3>1, <3>2 DEF Before
  <2>4. /\ gammaS' \in Sealers /\ gammaS'.mode = "tickets"
        /\ gammaS'.slots = OutsideIn(gammaA)
    BY <2>1, <2>2, ByTicketsType
  <2>5. /\ \A i \in 1 .. E : OutsideIn(gammaA)[i] \in Elements(gammaA)
        /\ \A i, j \in 1 .. E : i # j => OutsideIn(gammaA)[i] # OutsideIn(gammaA)[j]
    BY <2>2, <2>3, OutsideInIsPermutation
  <2>6. \A t \in Elements(gammaA) :
          /\ \E s \in 1 .. V : kappa'[s] = t.key
          /\ t.eta = eta'[3] /\ t.attempt < N
    <3>1. gammaP \in Seats
      BY DEF SafroleInv, TypeOK
    <3> QED
      BY <1>1, <1>2, <2>1, <3>1, RingRootType DEF SafroleInv, RingInv
  <2> QED
    BY <2>4, <2>5, <2>6 DEF SlotsHaveSealers, SealersInv
<1>5. CASE ~(NextEra(newSlot) /\ Len(gammaA) = E /\ Phase(slot) >= Y) /\ ~NewerEra(newSlot)
  <2>1. gammaS' = gammaS
    BY <1>5 DEF Step, NextSealers
  <2> QED
    BY <1>1, <1>2, <1>5, <2>1 DEF SafroleInv, TypeOK, SlotsHaveSealers, SealersInv
<1>6. CASE ~(NextEra(newSlot) /\ Len(gammaA) = E /\ Phase(slot) >= Y) /\ NewerEra(newSlot)
  <2>1. gammaS' = ByKeys(eta'[2], kappa')
    BY <1>6 DEF Step, NextSealers
  <2>2. eta'[2] \in Etas
    BY <1>2
  <2>3. /\ gammaS' \in Sealers /\ gammaS'.mode = "keys"
        /\ \A i \in 1 .. E : \E s \in 1 .. V : kappa'[s] = gammaS'.slots[i]
    BY <1>1, <2>1, <2>2, ByKeysType
  <2> QED
    BY <2>3 DEF SlotsHaveSealers, SealersInv
<1> QED
  BY <1>4, <1>5, <1>6

(* The accumulator rests once the contest is closed.                       *)
LEMMA ContestCloses ==
  ASSUME SafroleInv, NEW newSlot, NEW author, NEW tickets, Step(newSlot, author, tickets),
         Phase(newSlot) >= Y
  PROVE  gammaA' = Carried(newSlot)
<1>1. tickets = <<>>
  <2>1. tickets # <<>> => Phase(newSlot) < Y
    BY Zenon DEF Step, TicketsValid
  <2>2. Phase(newSlot) \in Int /\ Y \in Int
    BY StepEntropy, PhaseGrows, Sizes
  <2> QED
    BY <2>1, <2>2
<1>2. /\ gammaA \in Seq(Tickets) /\ Len(gammaA) <= E
      /\ \A i, j \in 1 .. Len(gammaA) : i < j => Before(gammaA[i], gammaA[j])
  BY DEF SafroleInv, TypeOK, BestTicketsKept
<1> DEFINE old == Carried(newSlot)
<1>3. /\ old \in Seq(Tickets) /\ Len(old) <= E
      /\ \A i, j \in 1 .. Len(old) : i < j => Before(old[i], old[j])
  BY <1>2, Sizes DEF Carried
<1>4. gammaA' = FirstE(Sorted(<<>> \o old))
  BY <1>1 DEF Step, Accumulate
<1>. HIDE DEF old
<1>5. <<>> \o old = old
  BY <1>3
<1>6. Sorted(old) = old
  BY <1>3, SortedStays
<1>7. FirstE(old) = old
  BY <1>3, Sizes DEF FirstE
<1> QED
  BY <1>4, <1>5, <1>6, <1>7 DEF old

(* The headers' marks keep telling what the state holds.                   *)
LEMMA StepMarks ==
  ASSUME SafroleInv, NEW newSlot, NEW author, NEW tickets, Step(newSlot, author, tickets)
  PROVE  MarksInv'
<1>1. /\ slot \in Nat /\ newSlot \in Nat /\ newSlot > slot /\ slot' = newSlot
      /\ NewerEra(newSlot) =>
           eta'[1] = eta[0] /\ eta'[2] = eta[1] /\ eta'[3] = eta[2]
      /\ ~NewerEra(newSlot) =>
           eta'[1] = eta[1] /\ eta'[2] = eta[2] /\ eta'[3] = eta[3]
  BY StepEntropy
<1>2. /\ NewerEra(newSlot) => kappa' = gammaP
      /\ ~NewerEra(newSlot) => kappa' = kappa /\ gammaP' = gammaP
  BY StepRing
<1>3. /\ prev = [entropy |-> eta[2], entropy2 |-> eta[3], validators |-> kappa]
      /\ last = [entropy |-> eta[1], entropy2 |-> eta[2], validators |-> gammaP]
      /\ won = IF Phase(slot) >= Y /\ Len(gammaA) = E THEN OutsideIn(gammaA) ELSE NoMark
  BY DEF SafroleInv, MarksInv
<1>4. /\ prev' = [entropy |-> eta'[2], entropy2 |-> eta'[3], validators |-> kappa']
      /\ last' = [entropy |-> eta'[1], entropy2 |-> eta'[2], validators |-> gammaP']
  BY <1>1, <1>2, <1>3 DEF Step, KeepEpochMarks, EpochMark
<1>5. Phase(slot) \in Nat /\ Phase(newSlot) \in Nat /\ Y \in Nat /\ E >= 2 /\ E \in Nat
  BY <1>1, PhaseGrows, Sizes
<1>6. ~NewerEra(newSlot) => Phase(newSlot) > Phase(slot)
  <2>1. /\ Epoch(slot) \in Nat /\ Epoch(newSlot) \in Nat /\ Epoch(newSlot) >= Epoch(slot)
        /\ Epoch(newSlot) = Epoch(slot) => Phase(newSlot) > Phase(slot)
    BY <1>1, PhaseGrows
  <2>2. NewerEra(newSlot) <=> Epoch(newSlot) > Epoch(slot)
    BY DEF NewerEra
  <2>. HIDE DEF Step
  <2> QED
    BY <2>1, <2>2
<1>7. won' = IF Phase(newSlot) >= Y /\ Len(gammaA') = E THEN OutsideIn(gammaA') ELSE NoMark
  <2>1. won' = IF NewerEra(newSlot) THEN NoMark
               ELSE IF TicketsMark(newSlot) # NoMark THEN TicketsMark(newSlot) ELSE won
    BY DEF Step, KeepTicketsMark
  <2>2. CASE NewerEra(newSlot)
    <3>1. Phase(newSlot) >= Y => gammaA' = <<>>
      BY <2>2, ContestCloses DEF Carried
    <3> QED
      BY <1>5, <2>1, <2>2, <3>1
  <2>3. CASE ~NewerEra(newSlot) /\ Phase(newSlot) >= Y
    <3>1. gammaA' = gammaA
      BY <2>3, ContestCloses DEF Carried
    <3> QED
      BY <1>3, <1>5, <2>1, <2>3, <3>1 DEF TicketsMark
  <2>4. CASE ~NewerEra(newSlot) /\ ~(Phase(newSlot) >= Y)
    BY <1>3, <1>5, <1>6, <2>1, <2>4 DEF TicketsMark
  <2> QED
    BY <2>2, <2>3, <2>4
<1> QED
  BY <1>1, <1>4, <1>7 DEF MarksInv, Phase, OutsideIn

(* The marks have their type.                                              *)
LEMMA StepMarksType ==
  ASSUME SafroleInv, NEW newSlot, NEW author, NEW tickets, Step(newSlot, author, tickets)
  PROVE  /\ won' \in [1 .. E -> Tickets] \cup {NoMark}
         /\ prev' \in EpochMarks /\ last' \in EpochMarks
<1>1. TypeOK
  BY DEF SafroleInv
<1>2. eta[0] \in Etas /\ eta[1] \in Etas /\ gammaP' \in Seats
  BY <1>1, StepRing DEF TypeOK
<1>3. TicketsMark(newSlot) \in [1 .. E -> Tickets] \cup {NoMark}
  BY <1>1, OutsideInIsPermutation DEF TicketsMark, TypeOK
<1>4. won' \in [1 .. E -> Tickets] \cup {NoMark}
  BY <1>1, <1>3 DEF Step, KeepTicketsMark, TypeOK
<1> QED
  BY <1>1, <1>2, <1>4 DEF Step, KeepEpochMarks, EpochMark, EpochMarks, TypeOK

(* The whole strengthening is inductive.                                   *)
LEMMA NextInv == SafroleInv /\ [Next]_vars => SafroleInv'
<1> SUFFICES ASSUME SafroleInv, [Next]_vars PROVE SafroleInv'
  OBVIOUS
<1>1. CASE Next
  <2>1. PICK newSlot, author, tickets : Step(newSlot, author, tickets)
    BY <1>1, NextIsStep
  <2>2. TypeOK'
    BY <2>1, StepEntropy, StepRing, StepAccumulator, StepSealers, StepBest, StepMarksType
       DEF TypeOK, Sealers, EpochMarks
  <2> QED
    BY <2>1, <2>2, StepRingInv, StepBest, StepSettled, StepSealers, StepMarks
       DEF SafroleInv
<1>2. CASE UNCHANGED vars
  <2>1. TypeOK' /\ RingInv' /\ EntropySettled'
    BY <1>2 DEF vars, SafroleInv, TypeOK, RingInv, EntropySettled, Elements, RingRoot
  <2>2. BestTicketsKept'
    BY <1>2 DEF vars, SafroleInv, BestTicketsKept, Elements
  <2>3. SlotsHaveSealers' /\ SealersInv' /\ MarksInv'
    BY <1>2 DEF vars, SafroleInv, SlotsHaveSealers, SealersInv, MarksInv, OutsideIn, Phase
  <2> QED
    BY <2>1, <2>2, <2>3 DEF SafroleInv
<1> QED
  BY <1>1, <1>2

LEMMA SafroleInvariant == Spec => []SafroleInv
BY InitInv, NextInv, PTL DEF Spec

-----------------------------------------------------------------------------
(* Safrole's state is well typed: the accumulator never exceeds an epoch.  *)
THEOREM TypeCorrect == Spec => []TypeOK
<1>1. SafroleInv => TypeOK
  BY DEF SafroleInv
<1> QED
  BY <1>1, SafroleInvariant, PTL

(* No epoch begins with a slot that no validator of it may seal by ticket, *)
(* nor by the key due (gamma-s-impl.ts:89).                                *)
THEOREM EverySlotHasSealer == Spec => []SlotsHaveSealers
<1>1. SafroleInv => SlotsHaveSealers
  BY DEF SafroleInv
<1> QED
  BY <1>1, SafroleInvariant, PTL

(* The accumulator is the lowest tickets of its epoch, in order            *)
(* (gamma-a-impl.ts:40).                                                   *)
THEOREM AccumulatorIsBest == Spec => []BestTicketsKept
<1>1. SafroleInv => BestTicketsKept
  BY DEF SafroleInv
<1> QED
  BY <1>1, SafroleInvariant, PTL

(* Each entropy is an epoch older than the one before it                   *)
(* (jam-entropy-impl.ts:38).                                               *)
THEOREM EntropiesSettle == Spec => []EntropySettled
<1>1. SafroleInv => EntropySettled
  BY DEF SafroleInv
<1> QED
  BY <1>1, SafroleInvariant, PTL

(* One validator's tickets differ in their attempts.                       *)
LEMMA AttemptsAreFew ==
  ASSUME SafroleInv, gammaS.mode = "tickets", NEW k \in Keys
  PROVE  Cardinality({i \in 1 .. E : gammaS.slots[i].key = k}) <= N
<1> DEFINE S == {i \in 1 .. E : gammaS.slots[i].key = k}
           f == [i \in S |-> gammaS.slots[i].attempt]
<1>1. gammaS.slots \in [1 .. E -> Tickets]
  BY DEF SafroleInv, TypeOK, Sealers
<1>2. \A i \in 1 .. E : gammaS.slots[i].eta = eta[3]
  BY DEF SafroleInv, SlotsHaveSealers
<1>3. /\ \A i \in 1 .. E : gammaS.slots[i].attempt < N
      /\ \A i, j \in 1 .. E : i # j => gammaS.slots[i] # gammaS.slots[j]
  BY DEF SafroleInv, SealersInv
<1>4. N \in Nat /\ N > 0
  BY ConstantsAssumption
<1>5. \A i \in S : f[i] \in 0 .. N - 1
  <2>1. \A i \in 1 .. E : gammaS.slots[i].attempt \in 0 .. N
    BY <1>1 DEF Tickets
  <2>2. \A i \in 1 .. E : gammaS.slots[i].attempt \in 0 .. N - 1
    <3>1. \A a \in 0 .. N : a < N => a \in 0 .. N - 1
      BY <1>4
    <3> QED
      BY <1>3, <2>1, <3>1
  <2> QED
    BY <2>2
<1>6. ASSUME NEW i \in S, NEW j \in S, i # j PROVE f[i] # f[j]
  <2>1. gammaS.slots[i] \in Tickets /\ gammaS.slots[j] \in Tickets
    BY <1>1
  <2>2. gammaS.slots[i].key = gammaS.slots[j].key /\ gammaS.slots[i].eta = gammaS.slots[j].eta
    BY <1>2
  <2>3. gammaS.slots[i] # gammaS.slots[j]
    BY <1>3, <1>6
  <2> QED
    BY <2>1, <2>2, <2>3 DEF Tickets
<1>7. f \in Injection(S, 0 .. N - 1)
  BY <1>5, <1>6 DEF Injection, IsInjective
<1>. HIDE DEF f, S
<1>8. IsFiniteSet(0 .. N - 1) /\ Cardinality(0 .. N - 1) = N
  BY <1>4, FS_Interval
<1>9. Cardinality(S) <= Cardinality(0 .. N - 1)
  BY <1>7, <1>8, FS_Injection
<1> QED
  BY <1>8, <1>9 DEF S

(* No validator seals more than its allowance of an epoch's slots by       *)
(* ticket (tickets.ts:73).                                                 *)
THEOREM SharesAreFair == Spec => []FairShare
<1>1. SafroleInv => FairShare
  BY AttemptsAreFew DEF FairShare
<1> QED
  BY <1>1, SafroleInvariant, PTL

-----------------------------------------------------------------------------
(* The author of a valid block is entitled, as a follower sees it.         *)
LEMMA AuthorEntitled ==
  ASSUME NEW newSlot, NEW author, SealValid(author, newSlot)
  PROVE  Follower!Entitled(author, newSlot, gammaS', eta'[3])
<1>1. CASE gammaS'.mode = "keys"
  BY <1>1 DEF SealValid, Phase, Follower!Entitled
<1>2. CASE gammaS'.mode # "keys"
  <2> DEFINE due == gammaS'.slots[(newSlot % E) + 1]
  <2>1. [key |-> author, eta |-> eta'[3], attempt |-> due.attempt] = due
    BY <1>2 DEF SealValid, Phase
  <2>2. author = due.key /\ eta'[3] = due.eta
    <3>. HIDE DEF due
    <3> QED
      BY <2>1
  <2> QED
    BY <1>2, <2>2 DEF Follower!Entitled
<1> QED
  BY <1>1, <1>2

(* A mark of accumulated tickets is one that a follower may be told.       *)
LEMMA AnnouncedMark ==
  ASSUME SafroleInv, Len(gammaA) = E
  PROVE  OutsideIn(gammaA) \in Follower!TicketMarks /\ OutsideIn(gammaA) # NoMark
<1>1. gammaA \in Seq(Tickets) /\ \A t \in Elements(gammaA) : t.attempt < N
  BY DEF SafroleInv, TypeOK, RingInv
<1>2. /\ OutsideIn(gammaA) \in [1 .. E -> Tickets]
      /\ \A i \in 1 .. E : OutsideIn(gammaA)[i] \in Elements(gammaA)
  BY <1>1, OutsideInIsPermutation
<1>3. OutsideIn(gammaA) # NoMark
  BY <1>2, ConstantsAssumption
<1>4. N \in Nat
  BY ConstantsAssumption
<1>5. ASSUME NEW t \in Tickets, t.attempt < N
      PROVE  t \in [key : Keys, eta : Etas, attempt : 0 .. N - 1]
  BY <1>4, <1>5 DEF Tickets
<1>6. \A i \in 1 .. E : OutsideIn(gammaA)[i]
        \in [key : Keys, eta : Etas, attempt : 0 .. N - 1]
  BY <1>1, <1>2, <1>5
<1>7. Follower!TicketMarks = [1 .. E -> [key : Keys, eta : Etas, attempt : 0 .. N - 1]]
  BY DEF Follower!TicketMarks, Follower!Etas, Etas
<1> DEFINE T == [key : Keys, eta : Etas, attempt : 0 .. N - 1]
<1>. HIDE DEF T
<1>8. OutsideIn(gammaA) \in [1 .. E -> T]
  BY <1>2, <1>6 DEF T
<1> QED
  BY <1>3, <1>7, <1>8 DEF T

LEMMA SameByKeys ==
  ASSUME NEW e, NEW seats
  PROVE  ByKeys(e, seats) = Follower!ByKeys(e, seats)
BY DEF ByKeys, FallbackKeys, Follower!ByKeys

LEMMA FollowerMarks == EpochMarks = Follower!EpochMarks
BY DEF EpochMarks, Follower!EpochMarks, Etas, Follower!Etas, Seats

LEMMA InitFollows == Init => Follower!Init
<1> SUFFICES ASSUME Init PROVE Follower!Init
  OBVIOUS
<1>1. prev \in Follower!EpochMarks /\ last \in Follower!EpochMarks
  BY InitInv, FollowerMarks DEF SafroleInv, TypeOK
<1>2. last.entropy2 = prev.entropy /\ last.entropy2 = eta[2] /\ prev.validators = kappa
  BY DEF Init
<1>3. gammaS = Follower!ByKeys(eta[2], kappa)
  BY SameByKeys DEF Init
<1> QED
  BY <1>1, <1>2, <1>3 DEF Init, Follower!Init

LEMMA StepFollows ==
  ASSUME SafroleInv, NEW newSlot, NEW author, NEW tickets, Step(newSlot, author, tickets)
  PROVE  Follower!Next
<1>1. /\ slot \in Nat /\ newSlot \in Nat /\ newSlot > slot /\ slot' = newSlot
      /\ NewerEra(newSlot) =>
           eta'[1] = eta[0] /\ eta'[2] = eta[1] /\ eta'[3] = eta[2]
      /\ ~NewerEra(newSlot) =>
           eta'[1] = eta[1] /\ eta'[2] = eta[2] /\ eta'[3] = eta[3]
  BY StepEntropy
<1>2. /\ prev = [entropy |-> eta[2], entropy2 |-> eta[3], validators |-> kappa]
      /\ last = [entropy |-> eta[1], entropy2 |-> eta[2], validators |-> gammaP]
      /\ won = IF Phase(slot) >= Y /\ Len(gammaA) = E THEN OutsideIn(gammaA) ELSE NoMark
  BY DEF SafroleInv, MarksInv
<1>3. Follower!Entitled(author, newSlot, gammaS', eta'[3])
  BY AuthorEntitled DEF Step
<1>4. /\ Epoch(slot) \in Nat /\ Epoch(newSlot) \in Nat /\ Epoch(newSlot) >= Epoch(slot)
      /\ Phase(slot) \in Nat /\ Y \in Nat
  BY <1>1, PhaseGrows, Sizes
<1>5. /\ NewerEra(newSlot) <=> Epoch(newSlot) > Epoch(slot)
      /\ NextEra(newSlot) <=> Epoch(newSlot) = Epoch(slot) + 1
      /\ Epoch(newSlot) = newSlot \div E /\ Epoch(slot) = slot \div E
  BY DEF NewerEra, NextEra, Epoch
<1>6. won # NoMark <=> Phase(slot) >= Y /\ Len(gammaA) = E
  BY <1>2, AnnouncedMark
<1>7. CASE ~NewerEra(newSlot)
  <2>1. newSlot \div E = slot \div E /\ ~NextEra(newSlot)
    BY <1>4, <1>5, <1>7
  <2>2. gammaS' = gammaS /\ prev' = prev /\ last' = last
    BY <1>7, <2>1, Zenon DEF Step, NextSealers, KeepEpochMarks
  <2>3. Follower!Entitled(author, newSlot, gammaS, prev.entropy2)
    BY <1>1, <1>2, <1>3, <1>7, <2>2
  <2>4. won' = IF TicketsMark(newSlot) # NoMark THEN TicketsMark(newSlot) ELSE won
    BY <1>7 DEF Step, KeepTicketsMark
  <2>5. TicketsMark(newSlot) # NoMark =>
          Phase(slot) < Y /\ Len(gammaA) = E /\ TicketsMark(newSlot) = OutsideIn(gammaA)
    BY DEF TicketsMark
  <2>6. won' \in Follower!TicketMarks \cup {NoMark}
    BY <1>2, <2>4, <2>5, AnnouncedMark
  <2>7. won # NoMark => won' = won
    BY <1>4, <1>6, <2>4, <2>5
  <2>8. Follower!SameEpoch(newSlot, author)
    BY <2>1, <2>2, <2>3, <2>6, <2>7 DEF Follower!SameEpoch
  <2> QED
    BY <1>1, <2>8 DEF Step, Follower!Next
<1>8. CASE NewerEra(newSlot)
  <2>1. newSlot \div E > slot \div E
    BY <1>4, <1>5, <1>8
  <2>2. /\ prev' = last /\ last' = EpochMark /\ won' = NoMark
    BY <1>8 DEF Step, KeepEpochMarks, KeepTicketsMark
  <2>3. last' \in Follower!EpochMarks
    BY StepMarksType, FollowerMarks
  <2>4. last'.entropy2 = last.entropy /\ last'.entropy2 = eta'[2] /\ last.entropy2 = eta'[3]
    BY <1>1, <1>2, <1>8, <2>2 DEF EpochMark
  <2>5. last.validators = kappa'
    BY <1>2, <1>8, StepRing
  <2>6. gammaS' = IF NextEra(newSlot) /\ Len(gammaA) = E /\ Phase(slot) >= Y
                  THEN ByTickets(gammaA) ELSE ByKeys(eta'[2], kappa')
    BY <1>8 DEF Step, NextSealers
  <2>7. gammaS' = IF newSlot \div E = slot \div E + 1 /\ won # NoMark
                  THEN Follower!ByTickets(won)
                  ELSE Follower!ByKeys(last'.entropy2, last.validators)
    <3>1. CASE NextEra(newSlot) /\ Len(gammaA) = E /\ Phase(slot) >= Y
      <4>1. gammaS' = Follower!ByTickets(won)
        BY <1>2, <2>6, <3>1 DEF ByTickets, Follower!ByTickets
      <4>2. newSlot \div E = slot \div E + 1 /\ won # NoMark
        BY <1>5, <1>6, <3>1
      <4> QED
        BY <4>1, <4>2
    <3>2. CASE ~(NextEra(newSlot) /\ Len(gammaA) = E /\ Phase(slot) >= Y)
      <4>1. gammaS' = Follower!ByKeys(last'.entropy2, last.validators)
        BY <2>4, <2>5, <2>6, <3>2, SameByKeys
      <4>2. ~(newSlot \div E = slot \div E + 1 /\ won # NoMark)
        BY <1>5, <1>6, <3>2
      <4> QED
        BY <4>1, <4>2
    <3> QED
      BY <3>1, <3>2
  <2>8. Follower!Entitled(author, newSlot, gammaS', last.entropy2)
    BY <1>3, <2>4
  <2>9. Follower!NewEpoch(newSlot, author)
    BY <2>1, <2>2, <2>3, <2>4, <2>7, <2>8 DEF Follower!NewEpoch
  <2> QED
    BY <1>1, <2>9 DEF Step, Follower!Next
<1> QED
  BY <1>7, <1>8

(* Headers suffice: the sealers that the state computes are those that a   *)
(* follower of the marks computes, for every length of epoch and contest   *)
(* (header-ticket-marker-impl.ts:65, header-epoch-marker-impl.ts:99).      *)
THEOREM HeadersSuffice == Spec => ImplementsFollower
<1>1. SafroleInv /\ [Next]_vars => [Follower!Next]_(Follower!vars)
  <2> SUFFICES ASSUME SafroleInv, [Next]_vars PROVE [Follower!Next]_(Follower!vars)
    OBVIOUS
  <2>1. CASE Next
    <3>1. PICK newSlot, author, tickets : Step(newSlot, author, tickets)
      BY <2>1, NextIsStep
    <3> QED
      BY <3>1, StepFollows
  <2>2. CASE UNCHANGED vars
    BY <2>2 DEF vars, Follower!vars
  <2> QED
    BY <2>1, <2>2
<1> QED
  BY <1>1, InitFollows, SafroleInvariant, PTL DEF Spec, ImplementsFollower, Follower!Spec

---------------------------------------------------------------------------
(* The conversation of a client and the target.                            *)
Messages ==
  [kind : {"peerInfo", "initialize", "importBlock", "getState", "stateRoot", "state", "error"},
   block : Blocks \cup {NoBlock}]

Units == [message : Messages, unit : Nat]

(* A message that is on its way: its units have come in part, and the part *)
(* that is there tells the length.                                         *)
Underway(message, units, rest, length, unknown) ==
  /\ units \in Seq(Units) /\ rest \in Seq(Units)
  /\ units \o rest = Encoded(message)
  /\ rest # <<>>
  /\ length = IF units = <<>> THEN unknown ELSE Size[message.kind]

AtRest == job = Nothing /\ buffer = <<>> /\ toRead = -1
Finishing == job \in Jobs /\ job.at = "done"

InStep == pending = <<>> /\ (started => best = lastBlock)

Between ==
  /\ request = Nothing /\ toTarget = <<>> /\ toClient = <<>>
  /\ AtRest \/ Finishing
  /\ InStep

Unanswered ==
  /\ request \in Requests /\ Askable(request)
  /\ toClient = <<>> /\ heard = <<>> /\ expected = 0

Asked ==
  /\ Unanswered /\ InStep
  /\ \/ Finishing /\ toTarget = Encoded(request)
     \/ job = Nothing /\ Underway(request, buffer, toTarget, toRead, -1)

(* Where the chain is while a block is imported.                           *)
ImportingAt(at) ==
  \/ at = "importing" /\ best = lastBlock /\ \E c : pending = <<c>> /\ c.block = request.block
  \/ at = "refused" /\ InStep
  \/ at = "imported" /\ pending = <<>> /\ best = request.block

Handling ==
  /\ Unanswered
  /\ toTarget = <<>> /\ buffer = Encoded(request)
  /\ job \in Jobs /\ job.message = request
  /\ \/ job.at = "start" /\ InStep
     \/ request.kind = "importBlock" /\ ImportingAt(job.at)

(* The answer to come satisfies the client, and tells where the chain is;  *)
(* that to an undecodable block does neither.                              *)
Right(answer) ==
  \/ Refused(request) /\ answer = Message("stateRoot", NoBlock)
  \/ /\ Satisfies(answer)
     /\ IF answer.kind = "stateRoot" THEN best = answer.block ELSE InStep

Answered ==
  /\ request \in Requests /\ pending = <<>>
  /\ toTarget = <<>> /\ (AtRest \/ Finishing)
  /\ \/ toClient = <<>> /\ Refused(request)
     \/ \E answer \in Messages :
          Underway(answer, heard, toClient, expected, 0) /\ Right(answer)

Ended ==
  /\ request \in Requests /\ Refused(request)
  /\ toTarget = <<>> /\ (AtRest \/ Finishing)

SessionInv ==
  /\ alive
  /\ IF stopped THEN Ended ELSE Between \/ Asked \/ Handling \/ Answered

-----------------------------------------------------------------------------
(* A request is a message.                                                 *)
LEMMA RequestsAreMessages == Requests \subseteq Messages
BY SessionAssumption DEF Requests, Messages, CM!Incoming

(* A message's units tell which message it is, and how long.               *)
LEMMA EncodedUnits ==
  ASSUME NEW message \in Messages
  PROVE  /\ Encoded(message) \in Seq(Units) /\ Encoded(message) # <<>>
         /\ Len(Encoded(message)) = Size[message.kind]
         /\ Size[message.kind] \in Nat \ {0}
         /\ Encoded(message)[1].message = message
         /\ Head(Encoded(message)).message = message
<1>1. Size[message.kind] \in Nat \ {0}
  BY SessionAssumption DEF Messages
<1>2. \A u \in 1 .. Size[message.kind] : [message |-> message, unit |-> u] \in Units
  BY <1>1 DEF Units
<1>3. Encoded(message) \in Seq(Units) /\ Len(Encoded(message)) = Size[message.kind]
  BY <1>1, <1>2 DEF Encoded
<1>4. 1 \in 1 .. Size[message.kind]
  BY <1>1
<1>5. Encoded(message)[1] = [message |-> message, unit |-> 1]
  BY <1>4 DEF Encoded
<1>6. Encoded(message) # <<>>
  BY <1>1, <1>3
<1>. QED
  BY <1>1, <1>3, <1>5, <1>6

(* More units of a message come in: either all are there, or it is still   *)
(* on its way.                                                             *)
LEMMA UnitsComeIn ==
  ASSUME NEW message \in Messages, NEW s, NEW t, NEW length, NEW unknown \in {-1, 0},
         Underway(message, s, t, length, unknown), NEW n \in 1 .. Len(t)
  PROVE  LET units == s \o SubSeq(t, 1, n)
             rest == SubSeq(t, n + 1, Len(t))
             L == IF length = unknown THEN Announced(t) ELSE length
         IN  /\ L = Size[message.kind]
             /\ Head(units).message = message
             /\ Len(units) = L => units = Encoded(message) /\ rest = <<>>
             /\ Len(units) # L => Underway(message, units, rest, L, unknown)
<1>. DEFINE units == s \o SubSeq(t, 1, n)
            rest == SubSeq(t, n + 1, Len(t))
            L == IF length = unknown THEN Announced(t) ELSE length
            e == Encoded(message)
<1>1. /\ s \in Seq(Units) /\ t \in Seq(Units) /\ s \o t = e
      /\ length = IF s = <<>> THEN unknown ELSE Size[message.kind]
  BY DEF Underway
<1>2. /\ e \in Seq(Units) /\ Len(e) = Size[message.kind] /\ Size[message.kind] \in Nat \ {0}
      /\ e[1].message = message /\ Head(e).message = message
  BY EncodedUnits
<1>. HIDE DEF e
<1>. DEFINE now == SubSeq(t, 1, n)
<1>3. Len(s) \in Nat /\ Len(t) \in Nat /\ n \in Nat /\ n <= Len(t) /\ 1 <= n
  BY <1>1
<1>4. /\ now \in Seq(Units) /\ Len(now) = n
      /\ rest \in Seq(Units) /\ Len(rest) = Len(t) - n
  BY <1>1, <1>3
<1>5. now \o rest = t
  <2>1. now \o rest = SubSeq(t, 1, Len(t))
    BY <1>1, <1>3, ConcatAdjacentSubSeq
  <2>. QED
    BY <2>1, <1>1, SubSeqFull
<1>. HIDE DEF now, rest
<1>11. units = s \o now
  BY DEF now
<1>. HIDE DEF units
<1>12. /\ units \in Seq(Units) /\ Len(units) = Len(s) + n /\ units \o rest = e
       /\ Len(e) = Len(units) + Len(rest)
  <2>1. units \in Seq(Units) /\ Len(units) = Len(s) + Len(now)
    BY <1>1, <1>4, <1>11, ConcatProperties
  <2>2. units \o rest = s \o (now \o rest)
    <3>1. (s \o now) \o rest = s \o (now \o rest)
      <4>1. s \in Seq(Units) /\ now \in Seq(Units) /\ rest \in Seq(Units)
        BY <1>1, <1>4
      <4>. QED
        BY <4>1, ConcatAssociative
    <3>. QED
      BY <3>1, <1>11, Zenon
  <2>3. Len(units \o rest) = Len(units) + Len(rest)
    BY <2>1, <1>4, ConcatProperties
  <2>. QED
    BY <2>1, <2>2, <2>3, <1>1, <1>4, <1>5
<1>6. L = Size[message.kind]
  <2>1. CASE s = <<>>
    <3>1. t = e /\ length = unknown
      BY <2>1, <1>1
    <3>. QED
      BY <3>1, <1>2 DEF Announced
  <2>2. CASE s # <<>>
    <3>1. length # unknown
      BY <2>2, <1>1, <1>2
    <3>. QED
      BY <3>1, <2>2, <1>1
  <2>. QED
    BY <2>1, <2>2
<1>7. units # <<>> /\ Head(units) = e[1]
  <2>1. Len(units) > 0 /\ Head(units) = units[1]
    BY <1>3, <1>12
  <2>2. (units \o rest)[1] = units[1]
    BY <2>1, <1>4, <1>12, ConcatProperties
  <2>. QED
    BY <2>1, <2>2, <1>12
<1>13. Len(rest) = Size[message.kind] - Len(units) /\ Len(units) \in Nat /\ Len(rest) \in Nat
  BY <1>2, <1>3, <1>4, <1>12
<1>8. ASSUME Len(units) = L PROVE units = e /\ rest = <<>>
  <2>1. rest = <<>>
    BY <1>8, <1>2, <1>4, <1>6, <1>13
  <2>. QED
    BY <2>1, <1>12, ConcatEmptySeq
<1>9. ASSUME Len(units) # L PROVE rest # <<>>
  <2>1. Len(rest) # 0
    BY <1>9, <1>2, <1>6, <1>13
  <2>. QED
    BY <2>1, EmptySeq
<1>10. L = Size[message.kind] => (Len(units) # L => Underway(message, units, rest, L, unknown))
  BY <1>4, <1>12, <1>7, <1>9 DEF Underway, e
<1>. QED
  BY <1>2, <1>6, <1>7, <1>8, <1>10 DEF units, rest, e

-----------------------------------------------------------------------------
(* A session starts between two requests.                                  *)
LEMMA SessionStarts == TargetInit => SessionInv
BY DEF TargetInit, SessionInv, Between, AtRest, InStep, CM!Init

(* The client asks.                                                        *)
LEMMA AskStep ==
  ASSUME SessionInv, NEW message \in Requests, Ask(message)
  PROVE  SessionInv'
<1>1. /\ alive /\ ~stopped /\ Between /\ request = Nothing
  BY NothingAssumption DEF SessionInv, Ask, Asked, Handling, Answered, Unanswered
<1>2. /\ request' = message /\ toTarget' = Encoded(message)
      /\ heard' = <<>> /\ expected' = 0 /\ toClient' = <<>>
      /\ UNCHANGED <<best, pending, buffer, toRead, job, alive, lastBlock, started, stopped>>
  <2>1. message \in Messages
    BY RequestsAreMessages
  <2>2. <<>> \o Encoded(message) = Encoded(message)
    BY <2>1, EncodedUnits, ConcatEmptySeq
  <2>. QED
    BY <1>1, <2>2 DEF Ask, Between, chain, reader
<1>3. Unanswered' /\ InStep'
  BY <1>1, <1>2 DEF Unanswered, InStep, Between, Ask, Askable
<1>4. CASE Finishing
  BY <1>2, <1>3, <1>4, <1>1 DEF Asked, Finishing, SessionInv
<1>5. CASE AtRest
  <2>1. Underway(message, <<>>, Encoded(message), -1, -1)
    <3>1. message \in Messages
      BY RequestsAreMessages
    <3>. QED
      BY <3>1, EncodedUnits, ConcatEmptySeq DEF Underway
  <2>2. Underway(request, buffer, toTarget, toRead, -1)'
    BY <1>2, <1>5, <2>1 DEF AtRest
  <2>. QED
    BY <1>1, <1>2, <1>3, <1>5, <2>2 DEF Asked, AtRest, SessionInv
<1>. QED
  BY <1>1, <1>4, <1>5 DEF Between

(* Units of a request come in.                                             *)
LEMMA DataStep ==
  ASSUME SessionInv, NEW n \in 1 .. Len(toTarget), Data(n)
  PROVE  SessionInv'
<1>1. toTarget # <<>>
  OBVIOUS
<1>2. /\ alive /\ ~stopped /\ Unanswered /\ InStep /\ job = Nothing
      /\ Underway(request, buffer, toTarget, toRead, -1)
  BY <1>1, NothingAssumption
     DEF SessionInv, Data, Between, Asked, Handling, Answered, Ended, Finishing
<1>. DEFINE units == buffer \o SubSeq(toTarget, 1, n)
            rest == SubSeq(toTarget, n + 1, Len(toTarget))
            L == IF toRead = -1 THEN Announced(toTarget) ELSE toRead
<1>3. request \in Messages /\ request \in Requests
  BY <1>2, RequestsAreMessages DEF Unanswered
<1>4. /\ L = Size[request.kind]
      /\ Head(units).message = request
      /\ Len(units) = L => units = Encoded(request) /\ rest = <<>>
      /\ Len(units) # L => Underway(request, units, rest, L, -1)
  BY <1>2, <1>3, UnitsComeIn
<1>5. /\ toTarget' = rest /\ buffer' = units /\ toRead' = L
      /\ job' = IF Len(units) = L
                THEN [at |-> "start", message |-> Head(units).message] ELSE Nothing
      /\ UNCHANGED <<best, pending, toClient, alive, request, heard, expected, lastBlock, started,
                     stopped>>
  BY DEF Data, chain, client
<1>. HIDE DEF units, rest, L
<1>6. Unanswered' /\ InStep'
  BY <1>2, <1>5 DEF Unanswered, InStep, Askable
<1>7. CASE Len(units) = L
  <2>1. Handling'
    BY <1>3, <1>4, <1>5, <1>6, <1>7 DEF Handling, Jobs
  <2>. QED
    BY <2>1, <1>2, <1>5 DEF SessionInv
<1>8. CASE Len(units) # L
  <2>1. Asked'
    BY <1>4, <1>5, <1>6, <1>8 DEF Asked
  <2>. QED
    BY <2>1, <1>2, <1>5 DEF SessionInv
<1>. QED
  BY <1>7, <1>8

-----------------------------------------------------------------------------
(* The target handles a request.                                           *)

(* While it does the request is the job's, undecodable or not.             *)
LEMMA JobIsRequest ==
  ASSUME SessionInv, job # Nothing, job.at # "done"
  PROVE  /\ ~stopped /\ Handling
         /\ request \in Requests /\ request \in Messages /\ job.message = request
         /\ Head(buffer).message = request
         /\ Decodable(buffer) <=> ~Refused(request)
<1>1. ~stopped /\ Handling
  BY DEF SessionInv, Between, Asked, Answered, Ended, AtRest, Finishing
<1>2. request \in Requests /\ request \in Messages /\ job.message = request /\ buffer = Encoded(request)
  BY <1>1, RequestsAreMessages DEF Handling, Unanswered
<1>3. Head(buffer).message = request
  BY <1>2, EncodedUnits
<1>. QED
  BY <1>1, <1>2, <1>3 DEF Decodable, Refused

(* An answer is sent, and the request is done with.                        *)
LEMMA AnswerStep ==
  ASSUME SessionInv, Handling, ~stopped, NEW answer \in Messages,
         Send(answer), Now("done"), pending' = <<>>, Right(answer)', alive',
         UNCHANGED <<toTarget, buffer, toRead, client>>
  PROVE  SessionInv'
<1>1. /\ toTarget' = <<>> /\ request' \in Requests
      /\ toClient = <<>> /\ heard' = <<>> /\ expected' = 0
      /\ ~stopped' /\ alive'
  BY DEF Handling, Unanswered, SessionInv, client
<1>2. Finishing'
  BY DEF Handling, Now, Finishing, Jobs
<1>3. toClient' = Encoded(answer)
  BY <1>1, EncodedUnits, ConcatEmptySeq DEF Send
<1>4. Underway(answer, heard, toClient, expected, 0)'
  BY <1>1, <1>3, EncodedUnits, ConcatEmptySeq DEF Underway
<1>5. Answered'
  BY <1>1, <1>2, <1>4 DEF Answered
<1>. QED
  BY <1>1, <1>5 DEF SessionInv

(* A block that cannot be decoded: no answer, or one that fits no request. *)
LEMMA UndecodedStep ==
  ASSUME SessionInv, Undecoded
  PROVE  SessionInv'
<1>1. /\ ~stopped /\ Handling /\ request \in Requests /\ Refused(request)
  BY JobIsRequest DEF Undecoded
<1>2. pending' = <<>> /\ pending = <<>> /\ job.at = "start"
  BY <1>1 DEF Undecoded, Handling, ImportingAt, InStep, chain
<1>3. CASE Send(Message("stateRoot", NoBlock))
  <2>1. Message("stateRoot", NoBlock) \in Messages
    BY DEF Message, Messages
  <2>2. Right(Message("stateRoot", NoBlock))'
    BY <1>1 DEF Right, Undecoded, client, Refused
  <2>. QED
    BY <1>1, <1>2, <1>3, <2>1, <2>2, AnswerStep DEF Undecoded, reader, SessionInv
<1>4. CASE UNCHANGED toClient
  <2>1. Finishing'
    BY <1>1 DEF Undecoded, Handling, Now, Finishing, Jobs
  <2>2. Answered'
    BY <1>1, <1>2, <1>4, <2>1 DEF Answered, Undecoded, client, Handling, Unanswered, Refused
  <2>. QED
    BY <1>1, <2>2 DEF SessionInv, Undecoded, client
<1>. QED
  BY <1>3, <1>4 DEF Undecoded

(* The handshake leaves the chain alone.                                   *)
LEMMA TellPeerInfoStep ==
  ASSUME SessionInv, TellPeerInfo
  PROVE  SessionInv'
<1>. DEFINE answer == Message("peerInfo", Genesis)
<1>1. ~stopped /\ Handling /\ request.kind = "peerInfo" /\ job.at = "start"
  BY JobIsRequest DEF TellPeerInfo, Understood, Doing
<1>2. answer \in Messages
  BY SessionAssumption DEF Message, Messages
<1>3. InStep /\ InStep' /\ pending' = <<>>
  BY <1>1 DEF Handling, InStep, TellPeerInfo, chain, client
<1>4. Right(answer)'
  BY <1>1, <1>3 DEF Right, Satisfies, Message, TellPeerInfo, client
<1>. QED
  BY <1>1, <1>2, <1>3, <1>4, AnswerStep DEF TellPeerInfo, reader, SessionInv

(* The chain starts again from the genesis.                                *)
LEMMA InitializeStep ==
  ASSUME SessionInv, Initialize
  PROVE  SessionInv'
<1>. DEFINE answer == Message("stateRoot", Genesis)
<1>1. ~stopped /\ Handling /\ request.kind = "initialize" /\ job.at = "start"
  BY JobIsRequest DEF Initialize, Understood, Doing
<1>2. answer \in Messages
  BY SessionAssumption DEF Message, Messages
<1>3. best' = Genesis /\ pending' = <<>>
  BY DEF Initialize
<1>4. Right(answer)'
  BY <1>1, <1>3 DEF Right, Satisfies, Message, Initialize, client
<1>. QED
  BY <1>1, <1>2, <1>3, <1>4, AnswerStep DEF Initialize, reader, SessionInv

(* The state asked for is that of the best block: the process goes on.     *)
LEMMA GiveStateStep ==
  ASSUME SessionInv, GiveState
  PROVE  SessionInv'
<1>0. PICK answer : answer = Message("state", request.block)
  OBVIOUS
<1>1. /\ ~stopped /\ Handling /\ request.kind = "getState" /\ job.at = "start"
      /\ request \in Requests /\ job.message = request
  BY JobIsRequest DEF GiveState, Understood, Doing
<1>2. InStep /\ InStep' /\ pending' = <<>>
  BY <1>1 DEF Handling, InStep, GiveState, chain, client
<1>3. StateKnown(job.message.block)
  BY <1>1, <1>2 DEF Handling, Unanswered, Askable, InStep, StateKnown
<1>4. alive' /\ Send(answer)
  BY <1>0, <1>1, <1>3 DEF GiveState
<1>5. answer \in Messages
  BY <1>0, <1>1, RequestsAreMessages DEF Message, Messages
<1>6. Right(answer)'
  BY <1>0, <1>1, <1>2 DEF Right, Satisfies, Message, GiveState, client
<1>7. Now("done") /\ UNCHANGED <<toTarget, buffer, toRead, client>>
  BY DEF GiveState, reader
<1>. QED
  BY <1>1, <1>2, <1>4, <1>5, <1>6, <1>7, AnswerStep

(* The chain manager takes the block, or append refuses it.                *)
LEMMA ImportStep ==
  ASSUME SessionInv, Import
  PROVE  SessionInv'
<1>1. /\ ~stopped /\ Handling /\ request.kind = "importBlock" /\ job.at = "start"
      /\ request \in Requests /\ job.message = request /\ job \in Jobs
  BY JobIsRequest DEF Import, Understood, Doing, Handling
<1>2. started /\ pending = <<>> /\ best = lastBlock
  BY <1>1 DEF Handling, Unanswered, Askable, InStep, ImportingAt
<1>3. best' = best /\ UNCHANGED <<toTarget, toClient, reader, alive, client>>
  BY DEF Import, CM!CallOnUnfinalized, CM!CallLookup, chain
<1>4. ImportingAt(job.at)' /\ job' \in Jobs /\ job'.message = request
  <2>1. CASE (CM!CallOnUnfinalized(request.block) \/ CM!CallLookup(request.block)) /\ Now("importing")
    <3>1. \/ pending' = Append(pending, CM!Suspended(request.block))
          \/ pending' = Append(pending, CM!Asking(request.block))
      BY <2>1 DEF CM!CallOnUnfinalized, CM!CallLookup
    <3>2. \/ pending' = <<CM!Suspended(request.block)>>
          \/ pending' = <<CM!Asking(request.block)>>
      BY <1>2, <3>1
    <3>3. CM!Suspended(request.block).block = request.block /\ CM!Asking(request.block).block = request.block
      BY DEF CM!Suspended, CM!Asking
    <3>4. \E c : pending' = <<c>> /\ c.block = request.block
      BY <3>2, <3>3
    <3>5. job'.at = "importing" /\ job' \in Jobs /\ job'.message = request
      BY <2>1, <1>1 DEF Now, Jobs
    <3>. QED
      BY <1>2, <1>3, <3>4, <3>5 DEF ImportingAt, client
  <2>2. CASE UNCHANGED chain /\ Now("refused")
    <3>1. job'.at = "refused" /\ job' \in Jobs /\ job'.message = request
      BY <2>2, <1>1 DEF Now, Jobs
    <3>. QED
      BY <1>2, <2>2, <3>1 DEF ImportingAt, InStep, chain, Import, client
  <2>. QED
    BY <1>1, <2>1, <2>2 DEF Import
<1>5. Handling'
  BY <1>1, <1>3, <1>4 DEF Handling, Unanswered, Askable, reader, client
<1>. QED
  BY <1>1, <1>3, <1>5 DEF SessionInv, client

(* The import goes on, its call the only one of the chain manager.         *)
LEMMA GoOnImportingStep ==
  ASSUME SessionInv, GoOnImporting
  PROVE  SessionInv'
<1>1. /\ ~stopped /\ Handling /\ request.kind = "importBlock" /\ job.at = "importing"
      /\ request \in Requests /\ job.message = request /\ job \in Jobs
  BY JobIsRequest DEF GoOnImporting, Doing, Handling
<1>2. best = lastBlock
  BY <1>1 DEF Handling, ImportingAt
<1>3. PICK c : pending = <<c>> /\ c.block = request.block
  BY <1>1 DEF Handling, ImportingAt
<1>4. Head(pending) = c /\ Tail(pending) = <<>>
  BY <1>3
<1>5. UNCHANGED <<toTarget, toClient, reader, alive, client>>
  BY DEF GoOnImporting
<1>6. ImportingAt(job.at)' /\ job' \in Jobs /\ job'.message = request
  <2>1. CASE CM!ResumeLookup /\ UNCHANGED job
    <3>1. best' = best /\ pending' = Append(<<>>, CM!Suspended(c.block))
      BY <2>1, <1>4 DEF CM!ResumeLookup
    <3>2. pending' = <<CM!Suspended(c.block)>> /\ CM!Suspended(c.block).block = c.block
      BY <3>1 DEF CM!Suspended
    <3>3. \E d : pending' = <<d>> /\ d.block = request.block
      BY <3>2, <1>3
    <3>. QED
      BY <1>1, <1>2, <1>5, <2>1, <3>1, <3>3 DEF ImportingAt, client
  <2>2. CASE CM!Reject /\ Now("refused")
    <3>1. best' = best /\ pending' = <<>>
      BY <2>2, <1>4 DEF CM!Reject
    <3>2. job'.at = "refused" /\ job' \in Jobs /\ job'.message = request
      BY <2>2, <1>1 DEF Now, Jobs
    <3>. QED
      BY <1>2, <1>5, <3>1, <3>2 DEF ImportingAt, InStep, client
  <2>3. CASE CM!ResumeSave /\ Now("imported")
    <3>1. best' = request.block /\ pending' = <<>>
      BY <2>3, <1>3, <1>4 DEF CM!ResumeSave
    <3>2. job'.at = "imported" /\ job' \in Jobs /\ job'.message = request
      BY <2>3, <1>1 DEF Now, Jobs
    <3>. QED
      BY <1>5, <3>1, <3>2 DEF ImportingAt, client
  <2>. QED
    BY <2>1, <2>2, <2>3 DEF GoOnImporting
<1>7. Handling'
  BY <1>1, <1>5, <1>6 DEF Handling, Unanswered, Askable, reader, client
<1>. QED
  BY <1>1, <1>5, <1>7 DEF SessionInv, client

(* The answer is an error, or the root of the block just imported.         *)
LEMMA AnswerImportStep ==
  ASSUME SessionInv, AnswerImport
  PROVE  SessionInv'
<1>1. /\ ~stopped /\ Handling /\ request.kind = "importBlock" /\ job.at \in {"imported", "refused"}
      /\ request \in Requests /\ job.message = request /\ job \in Jobs
  BY JobIsRequest DEF AnswerImport, Doing, Handling
<1>2. PICK answer : answer = ImportAnswer
  OBVIOUS
<1>3. Now("done") /\ Send(answer) /\ UNCHANGED <<toTarget, buffer, toRead, client>> /\ alive' = alive
      /\ UNCHANGED <<best, pending>>
  BY <1>2 DEF AnswerImport, reader, chain
<1>4. request.block \in Blocks /\ request' = request
  BY <1>1, <1>3 DEF Requests, CM!Incoming, client
<1>5. CASE job.at = "refused"
  <2>1. answer = Message("error", NoBlock) /\ answer \in Messages
    BY <1>2, <1>5 DEF ImportAnswer, Message, Messages
  <2>2. InStep /\ InStep' /\ pending' = <<>>
    BY <1>1, <1>3, <1>5 DEF Handling, ImportingAt, InStep, client
  <2>3. Right(answer)'
    BY <1>1, <1>4, <2>1, <2>2 DEF Right, Satisfies, Message
  <2>. QED
    BY <1>1, <1>3, <2>1, <2>2, <2>3, AnswerStep DEF SessionInv
<1>6. CASE job.at = "imported"
  <2>1. best = request.block /\ pending = <<>>
    BY <1>1, <1>6 DEF Handling, ImportingAt
  <2>2. answer = Message("stateRoot", request.block) /\ answer \in Messages
    BY <1>2, <1>4, <1>6, <2>1 DEF ImportAnswer, Message, Messages
  <2>3. Right(answer)'
    BY <1>1, <1>3, <1>4, <2>1, <2>2 DEF Right, Satisfies, Message
  <2>. QED
    BY <1>1, <1>3, <2>1, <2>2, <2>3, AnswerStep DEF SessionInv
<1>. QED
  BY <1>1, <1>5, <1>6

(* The continuation of onMessage, also after the next request was sent.    *)
LEMMA ResetStep ==
  ASSUME SessionInv, Reset
  PROVE  SessionInv'
<1>1. /\ toRead' = -1 /\ buffer' = <<>> /\ job' = Nothing
      /\ UNCHANGED <<best, pending, toTarget, toClient, alive, request, heard, expected, lastBlock,
                     started, stopped>>
  BY DEF Reset, chain, client
<1>2. AtRest'
  BY <1>1 DEF AtRest
<1>3. job # Nothing /\ job.at = "done"
  BY DEF Reset
<1>4. CASE stopped
  BY <1>1, <1>2, <1>4 DEF SessionInv, Ended, Refused
<1>5. CASE ~stopped /\ Between
  BY <1>1, <1>2, <1>5 DEF SessionInv, Between, InStep
<1>6. CASE ~stopped /\ Asked
  <2>1. Unanswered' /\ InStep'
    BY <1>1, <1>6 DEF Asked, Unanswered, InStep, Askable
  <2>2. toTarget = Encoded(request) /\ request \in Messages
    BY <1>3, <1>6, RequestsAreMessages DEF Asked, Unanswered
  <2>3. Underway(request, <<>>, toTarget, -1, -1)
    BY <2>2, EncodedUnits, ConcatEmptySeq DEF Underway
  <2>4. Underway(request, buffer, toTarget, toRead, -1)'
    BY <1>1, <2>3
  <2>. QED
    BY <1>1, <1>6, <2>1, <2>4 DEF SessionInv, Asked
<1>7. CASE ~stopped /\ Answered
  <2>1. Answered'
    BY <1>1, <1>2, <1>7 DEF Answered, Refused, Right, Satisfies, InStep
  <2>. QED
    BY <1>1, <1>7, <2>1 DEF SessionInv
<1>8. ~Handling
  BY <1>3 DEF Handling, ImportingAt
<1>. QED
  BY <1>4, <1>5, <1>6, <1>7, <1>8 DEF SessionInv

-----------------------------------------------------------------------------
(* Units of the answer come in, the last of which concludes the request.   *)
LEMMA ConcludeStep ==
  ASSUME Answered, ~stopped, NEW answer \in Messages, Right(answer), Conclude(answer),
         toClient' = <<>>, alive,
         UNCHANGED <<best, pending, toTarget, buffer, toRead, job, alive>>
  PROVE  SessionInv'
<1>1. (AtRest \/ Finishing)' /\ toTarget' = <<>> /\ pending' = <<>> /\ pending = <<>>
  BY DEF Answered, AtRest, Finishing
<1>2. CASE ~Satisfies(answer)
  <2>1. stopped' = TRUE /\ request' = request /\ Refused(request) /\ request \in Requests
    BY <1>2 DEF Conclude, Right, Answered
  <2>. QED
    BY <1>1, <2>1 DEF SessionInv, Ended, Refused
<1>3. CASE Satisfies(answer)
  <2>1. /\ request' = Nothing /\ stopped' = stopped
        /\ lastBlock' = IF answer.kind = "stateRoot" THEN answer.block ELSE lastBlock
        /\ started' = (started \/ request.kind = "initialize")
    BY <1>3 DEF Conclude
  <2>2. ~(Refused(request) /\ answer = Message("stateRoot", NoBlock))
    <3>1. Refused(request) => request.block \in Blocks
      BY SessionAssumption DEF Refused
    <3>. SUFFICES ASSUME Refused(request), answer = Message("stateRoot", NoBlock) PROVE FALSE
      OBVIOUS
    <3>2. request.kind = "importBlock" /\ answer.kind = "stateRoot" /\ answer.block = NoBlock
      BY DEF Refused, Message
    <3>3. answer.kind = "error" \/ answer = Message("stateRoot", request.block)
      BY <3>2, <1>3 DEF Satisfies
    <3>4. answer.block = request.block
      BY <3>2, <3>3 DEF Message
    <3>. QED
      BY <3>1, <3>2, <3>4, SessionAssumption
  <2>3. IF answer.kind = "stateRoot" THEN best = answer.block ELSE InStep
    BY <2>2 DEF Right
  <2>4. request \in Requests
    BY DEF Answered
  <2>5. CASE answer.kind = "stateRoot"
    BY <1>1, <2>1, <2>3, <2>5 DEF SessionInv, Between, InStep
  <2>6. CASE answer.kind # "stateRoot"
    <3>1. request.kind # "initialize"
      <4>. SUFFICES ASSUME request.kind = "initialize" PROVE FALSE
        OBVIOUS
      <4>1. answer = Message("stateRoot", Genesis)
        BY <1>3 DEF Satisfies
      <4>. QED
        BY <4>1, <2>6 DEF Message
    <3>. QED
      BY <1>1, <2>1, <2>3, <2>6, <3>1 DEF SessionInv, Between, InStep
  <2>. QED
    BY <2>5, <2>6
<1>. QED
  BY <1>2, <1>3

LEMMA HearStep ==
  ASSUME SessionInv, NEW n \in 1 .. Len(toClient), Hear(n)
  PROVE  SessionInv'
<1>1. toClient # <<>>
  OBVIOUS
<1>2. alive /\ ~stopped /\ Answered
  BY <1>1 DEF SessionInv, Hear, Between, Asked, Handling, Unanswered
<1>3. PICK answer \in Messages : Underway(answer, heard, toClient, expected, 0) /\ Right(answer)
  BY <1>1, <1>2 DEF Answered
<1>. DEFINE units == heard \o SubSeq(toClient, 1, n)
            rest == SubSeq(toClient, n + 1, Len(toClient))
            L == IF expected = 0 THEN Announced(toClient) ELSE expected
<1>4. /\ L = Size[answer.kind]
      /\ Head(units).message = answer
      /\ Len(units) = L => units = Encoded(answer) /\ rest = <<>>
      /\ Len(units) # L => Underway(answer, units, rest, L, 0)
  BY <1>3, UnitsComeIn
<1>5. /\ toClient' = rest /\ heard' = units /\ expected' = L
      /\ IF Len(units) = L THEN Conclude(Head(units).message)
         ELSE UNCHANGED <<request, lastBlock, started, stopped>>
      /\ UNCHANGED <<best, pending, toTarget, buffer, toRead, job, alive>>
  BY DEF Hear, chain, reader
<1>. HIDE DEF units, rest, L
<1>6. CASE Len(units) = L
  BY <1>2, <1>3, <1>4, <1>5, <1>6, ConcludeStep
<1>7. CASE Len(units) # L
  <2>1. UNCHANGED <<request, lastBlock, started, stopped>>
    BY <1>5, <1>7
  <2>2. Underway(answer, heard, toClient, expected, 0)'
    BY <1>4, <1>5, <1>7
  <2>3. Right(answer)'
    BY <1>3, <1>5, <2>1 DEF Right, Satisfies, Refused, InStep
  <2>4. (AtRest \/ Finishing)'
    BY <1>2, <1>5 DEF Answered, AtRest, Finishing
  <2>5. Answered'
    BY <1>2, <1>5, <2>1, <2>2, <2>3, <2>4 DEF Answered
  <2>. QED
    BY <1>2, <1>5, <2>1, <2>5 DEF SessionInv
<1>. QED
  BY <1>6, <1>7

(* Whatever the client asks and the codec refuses, and wherever messages   *)
(* are cut, both sides are at the same point of the conversation.          *)
THEOREM SessionInvariant == Target => []SessionInv
<1>1. SessionInv /\ [TargetNext]_targetVars => SessionInv'
  <2>. SUFFICES ASSUME SessionInv, [TargetNext]_targetVars PROVE SessionInv'
    OBVIOUS
  <2>1. CASE Receive
    BY <2>1, DataStep DEF Receive
  <2>2. CASE Listen
    BY <2>2, HearStep DEF Listen
  <2>3. CASE \E message \in Requests : Ask(message)
    BY <2>3, AskStep
  <2>4. CASE Handle
    BY <2>4, UndecodedStep, TellPeerInfoStep, InitializeStep, ImportStep, GoOnImportingStep,
       AnswerImportStep, GiveStateStep, ResetStep DEF Handle
  <2>5. CASE UNCHANGED targetVars
    <3>. USE <2>5 DEF targetVars, chain, reader, client
    <3>1. /\ Refused(request)' = Refused(request) /\ InStep' = InStep /\ (AtRest \/ Finishing)' = (AtRest \/ Finishing)
          /\ Finishing' = Finishing
          /\ ImportingAt(job.at)' = ImportingAt(job.at)
          /\ \A answer \in Messages : Right(answer)' = Right(answer)
      BY DEF Refused, InStep, AtRest, Finishing, ImportingAt, Right, Satisfies
    <3>. QED
      BY <3>1 DEF SessionInv, Ended, Between, Asked, Handling, Answered, Unanswered, Askable
  <2>. QED
    BY <2>1, <2>2, <2>3, <2>4, <2>5 DEF TargetNext
<1>. QED
  BY <1>1, SessionStarts, PTL DEF Target

(* The client finds fault only with the answer to an undecodable block,    *)
(* and between requests both sides agree on the best block.                *)
THEOREM EveryAnswerIsRight == Target => []AnswersAreRight
<1>1. SessionInv => AnswersAreRight
  <2>1. \A r \in Requests : r # Nothing
    BY NothingAssumption
  <2>. QED
    BY <2>1 DEF SessionInv, AnswersAreRight, SidesAgree, Ended, Between, Asked, Handling, Answered,
                Unanswered, InStep
<1>. QED
  BY <1>1, SessionInvariant, PTL

(* The target's process never ends: no request of a session asks for the   *)
(* state of a block that it does not know, which nobody would catch.       *)
THEOREM TargetStaysAlive == Target => []alive
BY SessionInvariant, PTL DEF SessionInv
===========================================================================
