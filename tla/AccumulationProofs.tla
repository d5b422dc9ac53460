------------------------- MODULE AccumulationProofs -------------------------
(***************************************************************************)
(* Accumulation makes no money and spends no more gas than a block has, no *)
(* index is given twice, and a privilege changes by its holder only: for   *)
(* any number of services, any genesis, any amounts and any limits.        *)
(*                                                                         *)
(* Balances, transfers and gas are sums, so that the module begins with a  *)
(* theory of SumFunctionOnSet: that it is the value of a recursion, that   *)
(* any term may be taken first, and what follows from that.                *)
(*                                                                         *)
(* Four invariants are inductive together: TypeInv of every variable and   *)
(* context, OrderInv of who is still to be accumulated, GasInv of shares   *)
(* of gas, MoneyInv of what the contexts change of the balances.           *)
(***************************************************************************)
EXTENDS Accumulation, FiniteSetTheorems, SequenceTheorems, WellFoundedInduction, TLAPS

-----------------------------------------------------------------------------
(* Induction without a predicate: a nonempty set of numbers has a least    *)
(* element, since the intervals up to its members are finite sets and      *)
(* strict inclusion of these is well founded.                              *)
LEMMA LeastElement ==
  ASSUME NEW S \in SUBSET Nat, S # {}
  PROVE  \E m \in S : \A n \in S : m <= n
<1>. DEFINE T == {0 .. n : n \in S}
<1>1. T \subseteq FiniteSubsetsOf(Nat)
  <2>1. ASSUME NEW n \in S PROVE 0 .. n \in SUBSET Nat /\ IsFiniteSet(0 .. n)
    BY FS_Interval
  <2>. QED
    BY <2>1 DEF FiniteSubsetsOf
<1>2. T # {}
  OBVIOUS
<1>3. \E t \in T : \A u \in T : <<u, t>> \notin StrictSubsetOrdering(Nat)
  <2>. HIDE DEF T
  <2>. QED
    BY <1>1, <1>2, FS_StrictSubsetOrderingWellFounded, WFMin
<1>4. PICK m \in S : \A u \in T : <<u, 0 .. m>> \notin StrictSubsetOrdering(Nat)
  BY <1>3
<1>5. ASSUME NEW n \in S, n < m PROVE FALSE
  <2>1. <<0 .. n, 0 .. m>> \notin StrictSubsetOrdering(Nat)
    BY <1>4
  <2>2. 0 .. n \in SUBSET Nat /\ 0 .. m \in SUBSET Nat /\ 0 .. n \subseteq 0 .. m
    BY <1>5
  <2>3. m \in 0 .. m /\ m \notin 0 .. n
    BY <1>5
  <2>. QED
    BY <2>1, <2>2, <2>3 DEF StrictSubsetOrdering
<1>. QED
  BY <1>5

(* Induction, on the members of a set up to a bound.                       *)
LEMMA Induction ==
  ASSUME NEW N \in Nat, NEW S, 0 \in S,
         \A n \in 0 .. N - 1 : n \in S => n + 1 \in S
  PROVE  \A n \in 0 .. N : n \in S
<1>. DEFINE Bad == {n \in 0 .. N : n \notin S}
<1>. SUFFICES ASSUME Bad # {} PROVE FALSE
  OBVIOUS
<1>1. PICK m \in Bad : \A n \in Bad : m <= n
  <2>. Bad \in SUBSET Nat
    OBVIOUS
  <2>. HIDE DEF Bad
  <2>. QED
    BY LeastElement
<1>2. m # 0 /\ m - 1 \in 0 .. N - 1 /\ (m - 1) + 1 = m
  BY <1>1
<1>3. m - 1 \in S
  BY <1>1, <1>2
<1>. QED
  BY <1>1, <1>2, <1>3

(* A function on 0 .. N may be defined from its value at 0 and by steps.   *)
Recursion(g, N, V, c, step) ==
  /\ g \in [0 .. N -> V]
  /\ g[0] = c
  /\ \A n \in 1 .. N : g[n] = step[<<g[n - 1], n>>]

(* Steps define a function, by induction on how far it is defined.         *)
LEMMA RecursionExists ==
  ASSUME NEW N \in Nat, NEW V, NEW c \in V, NEW step \in [V \X (1 .. N) -> V]
  PROVE  \E g : Recursion(g, N, V, c, step)
<1>. DEFINE Good(g, n) == g[0] = c /\ \A k \in 1 .. n : g[k] = step[<<g[k - 1], k>>]
            S == {n \in 0 .. N : \E g \in [0 .. N -> V] : Good(g, n)}
<1>1. 0 \in S
  <2>. DEFINE g0 == [n \in 0 .. N |-> c]
  <2>1. g0 \in [0 .. N -> V] /\ Good(g0, 0)
    OBVIOUS
  <2>2. \E g \in [0 .. N -> V] : Good(g, 0)
    <3>. HIDE DEF g0, Good
    <3>. QED
      BY <2>1
  <2>. HIDE DEF Good
  <2>. QED
    BY <2>2
<1>2. ASSUME NEW n \in 0 .. N - 1, n \in S PROVE n + 1 \in S
  <2>1. PICK g \in [0 .. N -> V] : Good(g, n)
    BY <1>2
  <2>. DEFINE h == [g EXCEPT ![n + 1] = step[<<g[n], n + 1>>]]
  <2>2. n \in 0 .. N /\ n + 1 \in 1 .. N /\ (n + 1) - 1 = n
    OBVIOUS
  <2>3. step[<<g[n], n + 1>>] \in V
    BY <2>2
  <2>4. h \in [0 .. N -> V]
    BY <2>3
  <2>5. h[n + 1] = step[<<h[n], n + 1>>] /\ h[0] = g[0]
    BY <2>2
  <2>6. ASSUME NEW k \in 1 .. n PROVE h[k] = step[<<h[k - 1], k>>]
    <3>1. k \in 0 .. N /\ k - 1 \in 0 .. N /\ k # n + 1 /\ k - 1 # n + 1
      BY <2>2
    <3>2. h[k] = g[k] /\ h[k - 1] = g[k - 1]
      BY <3>1
    <3>. QED
      BY <2>1, <3>2
  <2>7. Good(h, n + 1)
    <3>. HIDE DEF h
    <3>. QED
      BY <2>1, <2>2, <2>5, <2>6
  <2>8. \E f \in [0 .. N -> V] : Good(f, n + 1)
    <3>. HIDE DEF h, Good
    <3>. QED
      BY <2>4, <2>7
  <2>. HIDE DEF Good
  <2>. QED
    BY <2>8, <2>2
<1>3. \A n \in 0 .. N : n \in S
  <2>. HIDE DEF S
  <2>. QED
    BY <1>1, <1>2, Induction
<1>4. PICK g \in [0 .. N -> V] : Good(g, N)
  <2>. N \in S
    <3>. HIDE DEF S
    <3>. QED
      BY <1>3
  <2>. HIDE DEF Good
  <2>. QED
    OBVIOUS
<1>. QED
  BY <1>4 DEF Recursion

(* A number is a multiple and a rest.                                      *)
LEMMA DivisionWithRest ==
  ASSUME NEW a \in Nat, NEW b \in Nat \ {0}
  PROVE  a \div b \in Nat /\ a % b \in 0 .. b - 1 /\ a = b * (a \div b) + (a % b)
BY SMT

(* Multiples of different numbers are at least one multiple apart.         *)
LEMMA MultiplesApart ==
  ASSUME NEW b \in Nat, NEW q \in Nat, NEW r \in Nat, q < r
  PROVE  b * q + b <= b * r
<1>1. PICK d \in Nat : r = q + 1 + d
  <2>. r - q - 1 \in Nat /\ r = q + 1 + (r - q - 1)
    OBVIOUS
  <2>. QED
    OBVIOUS
<1>2. b * (q + 1 + d) = b * q + b + b * d
  BY SMT
<1>3. b * d \in Nat /\ b * q \in Nat
  BY SMT
<1>. QED
  BY <1>1, <1>2, <1>3

(* The rest of a division is the only one below the divisor.               *)
LEMMA RestIsUnique ==
  ASSUME NEW b \in Nat \ {0}, NEW q \in Nat, NEW c \in 0 .. b - 1, NEW a \in Nat,
         a = b * q + c
  PROVE  a % b = c
<1>. DEFINE r == a \div b
            d == a % b
<1>1. r \in Nat /\ d \in 0 .. b - 1 /\ a = b * r + d
  BY DivisionWithRest
<1>2. b * q \in Nat /\ b * r \in Nat
  <2>. HIDE DEF r
  <2>. QED
    BY <1>1, SMT
<1>. HIDE DEF r, d
<1>3. CASE q < r
  <2>1. b * q + b <= b * r
    BY <1>1, <1>3, MultiplesApart
  <2>. QED
    BY <2>1, <1>1, <1>2
<1>4. CASE r < q
  <2>1. b * r + b <= b * q
    BY <1>1, <1>4, MultiplesApart
  <2>. QED
    BY <2>1, <1>1, <1>2
<1>5. CASE q = r
  <2>. c = d
    BY <1>1, <1>2, <1>5
  <2>. QED
    BY DEF d
<1>. QED
  BY <1>1, <1>3, <1>4, <1>5
-----------------------------------------------------------------------------
(* Indices: check_fn goes round the public ones.                           *)

Places == LastId - Reserved + 1   \* how many public indices there are

(* A place further on is at most once beyond the last index.               *)
LEMMA OffsetIs ==
  ASSUME NEW i \in Public, NEW n \in 0 .. Places - 1
  PROVE  /\ i + n <= LastId => Offset(i, n) = i + n
         /\ i + n > LastId => Offset(i, n) = i + n - Places
         /\ Offset(i, n) \in Public
<1>. DEFINE a == i - Reserved + n
<1>1. /\ Reserved \in Nat /\ LastId \in Nat /\ Reserved < LastId
      /\ Places \in Nat \ {0} /\ a \in Nat /\ i \in Int
      /\ Offset(i, n) = Reserved + (a % Places)
  BY ConstantsAssumption DEF Public, Places, Offset
<1>2. CASE i + n <= LastId
  <2>1. a \in 0 .. Places - 1 /\ a = Places * 0 + a
    BY <1>1, <1>2 DEF Places, Public
  <2>. HIDE DEF a
  <2>2. a % Places = a
    BY <1>1, <2>1, RestIsUnique
  <2>. QED
    BY <1>1, <1>2, <2>2 DEF a, Public
<1>3. CASE i + n > LastId
  <2>1. a - Places \in 0 .. Places - 1 /\ a = Places * 1 + (a - Places)
    BY <1>1, <1>3 DEF Places, Public
  <2>. HIDE DEF a
  <2>2. a % Places = a - Places
    BY <1>1, <2>1, RestIsUnique
  <2>. QED
    BY <1>1, <1>3, <2>1, <2>2 DEF a, Public, Places
<1>. QED
  BY <1>1, <1>2, <1>3

(* From any index every other is reached.                                  *)
LEMMA OffsetReaches ==
  ASSUME NEW i \in Public, NEW j \in Public
  PROVE  \E n \in 0 .. Places - 1 : Offset(i, n) = j
<1>1. Reserved \in Nat /\ LastId \in Nat /\ Reserved < LastId
  BY ConstantsAssumption
<1>2. CASE i <= j
  <2>1. j - i \in 0 .. Places - 1 /\ i + (j - i) = j /\ j <= LastId
    BY <1>1, <1>2 DEF Public, Places
  <2>. QED
    BY <2>1, OffsetIs
<1>3. CASE j < i
  <2>1. /\ j - i + Places \in 0 .. Places - 1 /\ i + (j - i + Places) > LastId
        /\ i + (j - i + Places) - Places = j
    BY <1>1, <1>3 DEF Public, Places
  <2>. QED
    BY <2>1, OffsetIs
<1>. QED
  BY <1>1, <1>2, <1>3 DEF Public

(* check_fn finds the nearest free index, if there is one.                 *)
LEMMA CheckFnFindsNearest ==
  ASSUME NEW i \in Public, NEW accounts, Public \ DOMAIN accounts # {}
  PROVE  \E n \in 0 .. Places - 1 :
           /\ CheckFn(i, accounts) = Offset(i, n)
           /\ Offset(i, n) \in Public \ DOMAIN accounts
           /\ \A k \in 0 .. Places - 1 :
                Offset(i, k) \notin DOMAIN accounts => n <= k
<1>. DEFINE S == {k \in 0 .. Places - 1 : Offset(i, k) \notin DOMAIN accounts}
            Nearest(k) == /\ Offset(i, k) \notin DOMAIN accounts
                          /\ \A j \in 0 .. k - 1 : Offset(i, j) \in DOMAIN accounts
<1>1. S # {} /\ S \in SUBSET Nat
  BY OffsetReaches
<1>2. PICK m \in S : \A k \in S : m <= k
  <2>. HIDE DEF S
  <2>. QED
    BY <1>1, LeastElement
<1>3. 0 .. Places - 1 = 0 .. LastId - Reserved
  BY ConstantsAssumption DEF Places
<1>4. m \in 0 .. LastId - Reserved /\ Nearest(m)
  <2>1. ASSUME NEW j \in 0 .. m - 1 PROVE Offset(i, j) \in DOMAIN accounts
    <3>1. j \in 0 .. Places - 1 /\ ~(m <= j)
      <4>. m \in 0 .. Places - 1 /\ Places \in Int
        BY <1>2, ConstantsAssumption DEF Places
      <4>. QED
        OBVIOUS
    <3>. QED
      BY <1>2, <3>1
  <2>. QED
    BY <1>2, <1>3, <2>1
<1>5. PICK n \in 0 .. LastId - Reserved :
        Nearest(n) /\ n = CHOOSE k \in 0 .. LastId - Reserved : Nearest(k)
  <2>. HIDE DEF Nearest
  <2>. QED
    BY <1>4
<1>6. CheckFn(i, accounts) = Offset(i, n)
  BY <1>5 DEF CheckFn
<1>7. Offset(i, n) \in Public
  BY <1>3, OffsetIs
<1>8. ASSUME NEW k \in 0 .. Places - 1, Offset(i, k) \notin DOMAIN accounts
      PROVE  n <= k
  <2>. SUFFICES ASSUME k < n PROVE FALSE
    BY <1>3
  <2>1. k \in 0 .. n - 1
    OBVIOUS
  <2>. QED
    BY <1>5, <1>8, <2>1
<1>. QED
  BY <1>3, <1>5, <1>6, <1>7, <1>8

(* What it finds is free.                                                  *)
LEMMA CheckFnFindsFree ==
  ASSUME NEW i \in Public, NEW accounts, RoomFor(accounts)
  PROVE  CheckFn(i, accounts) \in Public \ DOMAIN accounts
BY CheckFnFindsNearest DEF RoomFor

(* From the index that follows a free one another free one is found, if    *)
(* there is one: the free one itself comes last.                           *)
LEMMA CheckFnFindsAnother ==
  ASSUME NEW i \in Public, NEW accounts,
         Public \ (DOMAIN accounts \cup {i}) # {}
  PROVE  CheckFn(Offset(i, 1), accounts) \in Public \ (DOMAIN accounts \cup {i})
<1>. DEFINE o == Offset(i, 1)
<1>1. /\ Reserved \in Nat /\ LastId \in Nat /\ Reserved < LastId
      /\ Places \in Nat /\ Places >= 2 /\ i \in Reserved .. LastId
  BY ConstantsAssumption DEF Places, Public
<1>2. /\ o \in Public
      /\ i + 1 <= LastId => o = i + 1
      /\ i + 1 > LastId => o = i + 1 - Places
  BY <1>1, OffsetIs
<1>. HIDE DEF o
<1>3. PICK n \in 0 .. Places - 1 :
        /\ CheckFn(o, accounts) = Offset(o, n)
        /\ Offset(o, n) \in Public \ DOMAIN accounts
        /\ \A k \in 0 .. Places - 1 : Offset(o, k) \notin DOMAIN accounts => n <= k
  BY <1>2, CheckFnFindsNearest
<1>4. ASSUME NEW k \in 0 .. Places - 1 PROVE k = Places - 1 <=> Offset(o, k) = i
  <2>1. /\ o + k <= LastId => Offset(o, k) = o + k
        /\ o + k > LastId => Offset(o, k) = o + k - Places
    BY <1>2, OffsetIs
  <2>2. o \in Int /\ i \in Int /\ k \in Int
    BY <1>1, <1>2 DEF Public
  <2>. QED
    BY <1>1, <1>2, <2>1, <2>2 DEF Places
<1>5. PICK j \in Public : j \notin DOMAIN accounts /\ j # i
  OBVIOUS
<1>6. PICK k \in 0 .. Places - 1 : Offset(o, k) = j
  BY <1>2, OffsetReaches
<1>7. n <= k /\ k # Places - 1
  BY <1>3, <1>4, <1>5, <1>6
<1>8. Offset(o, n) # i
  <2>1. n # Places - 1
    BY <1>7, <1>1
  <2>. QED
    BY <2>1, <1>4
<1>. QED
  BY <1>3, <1>8 DEF o

-----------------------------------------------------------------------------
(* Sums, of functions over finite sets of indices.                         *)

(* Induction over the subsets of a finite set: strict inclusion is well    *)
(* founded.                                                                *)
LEMMA SubsetInduction ==
  ASSUME NEW S, IsFiniteSet(S), NEW G,
         \A T \in SUBSET S : (\A U \in SUBSET T : U # T => U \in G) => T \in G
  PROVE  \A T \in SUBSET S : T \in G
<1>. DEFINE Bad == {T \in SUBSET S : T \notin G}
<1>. SUFFICES ASSUME Bad # {} PROVE FALSE
  OBVIOUS
<1>1. Bad \subseteq FiniteSubsetsOf(S)
  BY FS_Subset DEF FiniteSubsetsOf
<1>2. PICK T \in Bad : \A U \in Bad : <<U, T>> \notin StrictSubsetOrdering(S)
  <2>. HIDE DEF Bad
  <2>. QED
    BY <1>1, FS_StrictSubsetOrderingWellFounded, WFMin
<1>3. ASSUME NEW U \in SUBSET T, U # T PROVE U \in G
  <2>. SUFFICES ASSUME U \notin G PROVE FALSE
    OBVIOUS
  <2>1. U \in Bad /\ U \in SUBSET S /\ T \in SUBSET S
    OBVIOUS
  <2>2. <<U, T>> \in StrictSubsetOrdering(S)
    BY <2>1, <1>3 DEF StrictSubsetOrdering
  <2>. QED
    BY <1>2, <2>1, <2>2
<1>. QED
  BY <1>2, <1>3

(* How SumFunctionOnSet recurs on the subsets of its indices.              *)
Picked(s) == CHOOSE i \in s : TRUE
Summing(g, f, S) ==
  /\ DOMAIN g = SUBSET S
  /\ \A T \in SUBSET S : g[T] = IF T = {} THEN 0 ELSE f[Picked(T)] + g[T \ {Picked(T)}]

LEMMA PickedIn ==
  ASSUME NEW S, S # {}
  PROVE  Picked(S) \in S
BY DEF Picked

(* The recursion has a value, by steps up to the size of the set.          *)
LEMMA SummingExists ==
  ASSUME NEW S, IsFiniteSet(S), NEW f, \A i \in S : f[i] \in Int
  PROVE  \E g : Summing(g, f, S)
<1>. DEFINE N == Cardinality(S) + 1
            V == [SUBSET S -> Int]
            start == [T \in SUBSET S |-> 0]
            step == [p \in V \X (1 .. N) |->
                       [T \in SUBSET S |->
                          IF T = {} THEN 0 ELSE f[Picked(T)] + p[1][T \ {Picked(T)}]]]
<1>1. N \in Nat /\ Cardinality(S) \in Nat
  BY FS_CardinalityType
<1>2. start \in V
  OBVIOUS
<1>3. step \in [V \X (1 .. N) -> V]
  <2>1. ASSUME NEW p \in V \X (1 .. N), NEW T \in SUBSET S, T # {}
        PROVE  f[Picked(T)] + p[1][T \ {Picked(T)}] \in Int
    <3>1. Picked(T) \in S /\ T \ {Picked(T)} \in SUBSET S
      BY <2>1, PickedIn
    <3>2. p[1] \in V
      OBVIOUS
    <3>3. p[1][T \ {Picked(T)}] \in Int /\ f[Picked(T)] \in Int
      BY <3>1, <3>2
    <3>. QED
      BY <3>3
  <2>2. ASSUME NEW p \in V \X (1 .. N)
        PROVE  [T \in SUBSET S |-> IF T = {} THEN 0
                                   ELSE f[Picked(T)] + p[1][T \ {Picked(T)}]] \in V
    <3>1. ASSUME NEW T \in SUBSET S
          PROVE  (IF T = {} THEN 0 ELSE f[Picked(T)] + p[1][T \ {Picked(T)}]) \in Int
      <4>1. CASE T = {}
        BY <4>1
      <4>2. CASE T # {}
        BY <2>1, <4>2
      <4>. QED
        BY <4>1, <4>2
    <3>. QED
      BY <3>1
  <2>. HIDE DEF V
  <2>. QED
    BY <2>2
<1>4. \E h : Recursion(h, N, V, start, step)
  <2>. HIDE DEF N, V, start, step
  <2>. QED
    BY <1>1, <1>2, <1>3, RecursionExists
<1>5. PICK h : Recursion(h, N, V, start, step)
  BY <1>4
<1>6. ASSUME NEW n \in 1 .. N, NEW T \in SUBSET S
      PROVE  h[n][T] = IF T = {} THEN 0 ELSE f[Picked(T)] + h[n - 1][T \ {Picked(T)}]
  <2>1. n - 1 \in 0 .. N /\ h[n - 1] \in V /\ h[n] = step[<<h[n - 1], n>>]
    <3>. HIDE DEF V, step, start
    <3>. QED
      BY <1>1, <1>5 DEF Recursion
  <2>2. <<h[n - 1], n>> \in V \X (1 .. N)
    BY <2>1
  <2>. HIDE DEF V, N
  <2>. QED
    BY <2>1, <2>2
<1>. DEFINE Stable == {T \in SUBSET S : \A n \in 1 .. N : Cardinality(T) < n =>
                         h[n][T] = h[N][T]}
<1>7. ASSUME NEW T \in SUBSET S, \A U \in SUBSET T : U # T => U \in Stable
      PROVE  T \in Stable
  <2>. SUFFICES ASSUME NEW n \in 1 .. N, Cardinality(T) < n
                PROVE  h[n][T] = h[N][T]
    OBVIOUS
  <2>0. N \in 1 .. N
    BY <1>1
  <2>. HIDE DEF N
  <2>1. CASE T = {}
    BY <2>0, <2>1, <1>6
  <2>2. CASE T # {}
    <3>. DEFINE U == T \ {Picked(T)}
    <3>1. Picked(T) \in T /\ IsFiniteSet(T)
      BY <2>2, PickedIn, FS_Subset
    <3>2. Cardinality(U) = Cardinality(T) - 1 /\ Cardinality(T) \in Nat
      BY <3>1, FS_RemoveElement, FS_CardinalityType
    <3>3. Cardinality(T) <= Cardinality(S)
      BY FS_Subset
    <3>4. Cardinality(U) \in Nat
      BY <3>1, FS_RemoveElement, FS_CardinalityType
    <3>5. U \in Stable
      <4>. U \in SUBSET T /\ U # T
        BY <3>1
      <4>. QED
        BY <1>7
    <3>. HIDE DEF U
    <3>6. /\ n - 1 \in 1 .. N /\ Cardinality(U) < n - 1
          /\ N - 1 \in 1 .. N /\ Cardinality(U) < N - 1
      <4>. N = Cardinality(S) + 1
        BY DEF N
      <4>. QED
        BY <3>2, <3>3, <3>4, <1>1
    <3>7. h[n - 1][U] = h[N][U] /\ h[N - 1][U] = h[N][U]
      BY <3>5, <3>6
    <3>8. h[n][T] = f[Picked(T)] + h[n - 1][U] /\ h[N][T] = f[Picked(T)] + h[N - 1][U]
      BY <2>0, <2>2, <1>6 DEF U
    <3>. QED
      BY <3>7, <3>8
  <2>. QED
    BY <2>1, <2>2
<1>8. \A T \in SUBSET S : T \in Stable
  <2>. HIDE DEF Stable
  <2>. QED
    BY <1>7, SubsetInduction
<1>9. N \in 1 .. N /\ h[N] \in V
  <2>. HIDE DEF V, step, start
  <2>. QED
    BY <1>1, <1>5 DEF Recursion
<1>10. ASSUME NEW T \in SUBSET S
       PROVE  h[N][T] = IF T = {} THEN 0 ELSE f[Picked(T)] + h[N][T \ {Picked(T)}]
  <2>1. CASE T = {}
    BY <1>6, <1>9, <2>1
  <2>2. CASE T # {}
    <3>. DEFINE U == T \ {Picked(T)}
    <3>1. Picked(T) \in T /\ IsFiniteSet(T)
      BY <2>2, PickedIn, FS_Subset
    <3>2. /\ Cardinality(U) = Cardinality(T) - 1 /\ Cardinality(T) \in Nat
          /\ Cardinality(U) \in Nat
      BY <3>1, FS_RemoveElement, FS_CardinalityType
    <3>3. Cardinality(T) <= Cardinality(S)
      BY FS_Subset
    <3>4. N - 1 \in 1 .. N /\ Cardinality(U) < N - 1 /\ U \in SUBSET S
      BY <3>2, <3>3, <1>1
    <3>. HIDE DEF N
    <3>5. h[N - 1][U] = h[N][U]
      BY <1>8, <3>4
    <3>. QED
      BY <1>6, <1>9, <2>2, <3>5
  <2>. QED
    BY <2>1, <2>2
<1>11. Summing(h[N], f, S)
  <2>. DOMAIN h[N] = SUBSET S
    BY <1>9
  <2>. HIDE DEF N, V
  <2>. QED
    BY <1>10 DEF Summing
<1>. QED
  BY <1>11

(* Recursions over a set and over a subset agree on the latter.            *)
LEMMA SummingAgrees ==
  ASSUME NEW S, IsFiniteSet(S), NEW T \in SUBSET S, NEW f, NEW g, NEW h,
         Summing(g, f, S), Summing(h, f, T)
  PROVE  h[T] = g[T]
<1>. DEFINE G == {U \in SUBSET T : h[U] = g[U]}
<1>1. IsFiniteSet(T)
  BY FS_Subset
<1>2. ASSUME NEW U \in SUBSET T, \A W \in SUBSET U : W # U => W \in G
      PROVE  U \in G
  <2>1. CASE U = {}
    BY <2>1 DEF Summing
  <2>2. CASE U # {}
    <3>1. Picked(U) \in U
      BY <2>2, PickedIn
    <3>2. U \ {Picked(U)} \in G
      BY <3>1, <1>2
    <3>3. h[U] = f[Picked(U)] + h[U \ {Picked(U)}]
      BY <2>2 DEF Summing
    <3>4. g[U] = f[Picked(U)] + g[U \ {Picked(U)}]
      BY <2>2 DEF Summing
    <3>. QED
      BY <3>2, <3>3, <3>4
  <2>. QED
    BY <2>1, <2>2
<1>3. \A U \in SUBSET T : U \in G
  <2>. HIDE DEF G
  <2>. QED
    BY <1>1, <1>2, SubsetInduction
<1>. QED
  BY <1>3

(* SumFunctionOnSet is the value of the recursion.                         *)
LEMMA SumIsSumming ==
  ASSUME NEW S, IsFiniteSet(S), NEW f, \A i \in S : f[i] \in Int
  PROVE  \E g : Summing(g, f, S) /\ SumFunctionOnSet(f, S) = g[S]
<1>. DEFINE Body(g) == [T \in SUBSET S |->
                          IF T = {} THEN 0
                          ELSE f[CHOOSE i \in T : TRUE] + g[T \ {CHOOSE i \in T : TRUE}]]
            iter == CHOOSE g : g = Body(g)
<1>1. SumFunctionOnSet(f, S) = iter[S]
  BY DEF SumFunctionOnSet, FoldFunctionOnSet, MapThenFoldSet
<1>2. PICK h : Summing(h, f, S)
  BY SummingExists
<1>3. PICK g : g = Body(g) /\ g = iter
  <2>. DEFINE k == [T \in SUBSET S |-> h[T]]
  <2>1. k = Body(k)
    BY <1>2 DEF Summing, Picked
  <2>. HIDE DEF k, Body
  <2>. QED
    BY <2>1
<1>4. Summing(g, f, S)
  BY <1>3 DEF Summing, Picked
<1>. QED
  BY <1>1, <1>3, <1>4

(* Nothing sums to zero.                                                   *)
LEMMA SumOfNone ==
  ASSUME NEW f
  PROVE  SumFunctionOnSet(f, {}) = 0
<1>1. PICK g : Summing(g, f, {}) /\ SumFunctionOnSet(f, {}) = g[{}]
  BY FS_EmptySet, SumIsSumming
<1>. QED
  BY <1>1 DEF Summing

(* A sum is that of the rest and of the element picked first.              *)
LEMMA SumPick ==
  ASSUME NEW S, IsFiniteSet(S), S # {}, NEW f, \A i \in S : f[i] \in Int
  PROVE  SumFunctionOnSet(f, S)
           = f[Picked(S)] + SumFunctionOnSet(f, S \ {Picked(S)})
<1>. DEFINE T == S \ {Picked(S)}
<1>1. T \in SUBSET S /\ IsFiniteSet(T) /\ \A i \in T : f[i] \in Int
  BY FS_RemoveElement
<1>. HIDE DEF T
<1>2. PICK g : Summing(g, f, S) /\ SumFunctionOnSet(f, S) = g[S]
  BY SumIsSumming
<1>3. PICK h : Summing(h, f, T) /\ SumFunctionOnSet(f, T) = h[T]
  BY <1>1, SumIsSumming
<1>4. h[T] = g[T]
  BY <1>1, <1>2, <1>3, SummingAgrees
<1>5. g[S] = f[Picked(S)] + g[T]
  BY <1>2 DEF Summing, T
<1>. QED
  BY <1>2, <1>3, <1>4, <1>5 DEF T

(* A sum of integers is one.                                               *)
LEMMA SumInt ==
  ASSUME NEW S, IsFiniteSet(S), NEW f, \A i \in S : f[i] \in Int
  PROVE  SumFunctionOnSet(f, S) \in Int
<1>. DEFINE G == {T \in SUBSET S : SumFunctionOnSet(f, T) \in Int}
<1>1. ASSUME NEW T \in SUBSET S, \A U \in SUBSET T : U # T => U \in G
      PROVE  T \in G
  <2>1. CASE T = {}
    BY <2>1, SumOfNone
  <2>2. CASE T # {}
    <3>1. Picked(T) \in T /\ IsFiniteSet(T)
      BY <2>2, PickedIn, FS_Subset
    <3>2. SumFunctionOnSet(f, T) = f[Picked(T)] + SumFunctionOnSet(f, T \ {Picked(T)})
      BY <2>2, <3>1, SumPick
    <3>3. SumFunctionOnSet(f, T \ {Picked(T)}) \in Int /\ f[Picked(T)] \in Int
      BY <1>1, <3>1
    <3>. QED
      BY <3>2, <3>3
  <2>. QED
    BY <2>1, <2>2
<1>2. \A T \in SUBSET S : T \in G
  <2>. HIDE DEF G
  <2>. QED
    BY <1>1, SubsetInduction
<1>. QED
  BY <1>2

(* The order does not matter: any element may be taken first.              *)
LEMMA SumRemove ==
  ASSUME NEW S, IsFiniteSet(S), NEW f, \A i \in S : f[i] \in Int, NEW k \in S
  PROVE  SumFunctionOnSet(f, S) = f[k] + SumFunctionOnSet(f, S \ {k})
<1>. DEFINE G == {T \in SUBSET S : \A i \in T :
                    SumFunctionOnSet(f, T) = f[i] + SumFunctionOnSet(f, T \ {i})}
<1>1. ASSUME NEW T \in SUBSET S, \A U \in SUBSET T : U # T => U \in G
      PROVE  T \in G
  <2>. SUFFICES ASSUME NEW i \in T
                PROVE  SumFunctionOnSet(f, T) = f[i] + SumFunctionOnSet(f, T \ {i})
    OBVIOUS
  <2>. DEFINE p == Picked(T)
  <2>1. p \in T /\ IsFiniteSet(T)
    BY PickedIn, FS_Subset
  <2>2. SumFunctionOnSet(f, T) = f[p] + SumFunctionOnSet(f, T \ {p})
    BY <2>1, SumPick
  <2>. HIDE DEF p
  <2>3. CASE i = p
    BY <2>2, <2>3
  <2>4. CASE i # p
    <3>1. T \ {p} \in G /\ T \ {i} \in G /\ i \in T \ {p} /\ p \in T \ {i}
      <4>. T \ {p} # T /\ T \ {i} # T
        BY <2>1
      <4>. QED
        BY <1>1, <2>1, <2>4
    <3>2. /\ SumFunctionOnSet(f, T \ {p}) = f[i] + SumFunctionOnSet(f, (T \ {p}) \ {i})
          /\ SumFunctionOnSet(f, T \ {i}) = f[p] + SumFunctionOnSet(f, (T \ {i}) \ {p})
      BY <3>1
    <3>. DEFINE rest == SumFunctionOnSet(f, (T \ {p}) \ {i})
    <3>3. (T \ {p}) \ {i} = (T \ {i}) \ {p}
      OBVIOUS
    <3>4. rest \in Int /\ f[i] \in Int /\ f[p] \in Int
      <4>. IsFiniteSet((T \ {p}) \ {i}) /\ \A j \in (T \ {p}) \ {i} : f[j] \in Int
        BY <2>1, FS_RemoveElement
      <4>. QED
        BY <2>1, SumInt
    <3>. HIDE DEF rest
    <3>5. SumFunctionOnSet(f, T) = f[p] + (f[i] + rest)
      BY <2>2, <3>2 DEF rest
    <3>6. SumFunctionOnSet(f, T \ {i}) = f[p] + rest
      BY <3>2, <3>3 DEF rest
    <3>. QED
      BY <3>4, <3>5, <3>6
  <2>. QED
    BY <2>3, <2>4
<1>2. \A T \in SUBSET S : T \in G
  <2>. HIDE DEF G
  <2>. QED
    BY <1>1, SubsetInduction
<1>. QED
  BY <1>2

(* Equal terms make equal sums.                                            *)
LEMMA SumSame ==
  ASSUME NEW S, IsFiniteSet(S), NEW f, NEW g,
         \A i \in S : f[i] \in Int /\ f[i] = g[i]
  PROVE  SumFunctionOnSet(f, S) = SumFunctionOnSet(g, S)
<1>. DEFINE G == {T \in SUBSET S : SumFunctionOnSet(f, T) = SumFunctionOnSet(g, T)}
<1>1. ASSUME NEW T \in SUBSET S, \A U \in SUBSET T : U # T => U \in G
      PROVE  T \in G
  <2>1. CASE T = {}
    BY <2>1, SumOfNone
  <2>2. CASE T # {}
    <3>1. Picked(T) \in T /\ IsFiniteSet(T)
      BY <2>2, PickedIn, FS_Subset
    <3>2. \A i \in T : f[i] \in Int /\ g[i] \in Int
      OBVIOUS
    <3>3. SumFunctionOnSet(f, T) = f[Picked(T)] + SumFunctionOnSet(f, T \ {Picked(T)})
      BY <2>2, <3>1, <3>2, SumPick
    <3>4. SumFunctionOnSet(g, T) = g[Picked(T)] + SumFunctionOnSet(g, T \ {Picked(T)})
      BY <2>2, <3>1, <3>2, SumPick
    <3>. QED
      BY <1>1, <3>1, <3>3, <3>4
  <2>. QED
    BY <2>1, <2>2
<1>2. \A T \in SUBSET S : T \in G
  <2>. HIDE DEF G
  <2>. QED
    BY <1>1, SubsetInduction
<1>. QED
  BY <1>2

(* No smaller terms make no smaller sum.                                   *)
LEMMA SumMonotone ==
  ASSUME NEW S, IsFiniteSet(S), NEW f, NEW g,
         \A i \in S : f[i] \in Int /\ g[i] \in Int /\ f[i] <= g[i]
  PROVE  SumFunctionOnSet(f, S) <= SumFunctionOnSet(g, S)
<1>. DEFINE G == {T \in SUBSET S : SumFunctionOnSet(f, T) <= SumFunctionOnSet(g, T)}
<1>1. ASSUME NEW T \in SUBSET S, \A U \in SUBSET T : U # T => U \in G
      PROVE  T \in G
  <2>1. CASE T = {}
    BY <2>1, SumOfNone
  <2>2. CASE T # {}
    <3>. DEFINE p == Picked(T)
                U == T \ {p}
    <3>1. p \in T /\ IsFiniteSet(T) /\ IsFiniteSet(U)
      BY <2>2, PickedIn, FS_Subset, FS_RemoveElement
    <3>2. SumFunctionOnSet(f, T) = f[p] + SumFunctionOnSet(f, U)
      BY <2>2, <3>1, SumPick
    <3>3. SumFunctionOnSet(g, T) = g[p] + SumFunctionOnSet(g, U)
      BY <2>2, <3>1, SumPick
    <3>4. SumFunctionOnSet(f, U) \in Int /\ SumFunctionOnSet(g, U) \in Int
      BY <3>1, SumInt
    <3>5. SumFunctionOnSet(f, U) <= SumFunctionOnSet(g, U)
      BY <1>1, <3>1
    <3>6. f[p] \in Int /\ g[p] \in Int /\ f[p] <= g[p]
      BY <3>1
    <3>. HIDE DEF p, U
    <3>. QED
      BY <3>2, <3>3, <3>4, <3>5, <3>6
  <2>. QED
    BY <2>1, <2>2
<1>2. \A T \in SUBSET S : T \in G
  <2>. HIDE DEF G
  <2>. QED
    BY <1>1, SubsetInduction
<1>. QED
  BY <1>2

(* The sum of term-wise sums.                                              *)
LEMMA SumAdds ==
  ASSUME NEW S, IsFiniteSet(S), NEW f, NEW g, NEW h,
         \A i \in S : f[i] \in Int /\ g[i] \in Int /\ h[i] = f[i] + g[i]
  PROVE  SumFunctionOnSet(h, S) = SumFunctionOnSet(f, S) + SumFunctionOnSet(g, S)
<1>. DEFINE G == {T \in SUBSET S :
                    SumFunctionOnSet(h, T) = SumFunctionOnSet(f, T) + SumFunctionOnSet(g, T)}
<1>1. ASSUME NEW T \in SUBSET S, \A U \in SUBSET T : U # T => U \in G
      PROVE  T \in G
  <2>1. CASE T = {}
    BY <2>1, SumOfNone
  <2>2. CASE T # {}
    <3>. DEFINE p == Picked(T)
                U == T \ {p}
    <3>1. p \in T /\ IsFiniteSet(T) /\ IsFiniteSet(U)
      BY <2>2, PickedIn, FS_Subset, FS_RemoveElement
    <3>2. \A i \in T : f[i] \in Int /\ g[i] \in Int /\ h[i] \in Int
      OBVIOUS
    <3>3. SumFunctionOnSet(f, T) = f[p] + SumFunctionOnSet(f, U)
      BY <2>2, <3>1, <3>2, SumPick
    <3>4. SumFunctionOnSet(g, T) = g[p] + SumFunctionOnSet(g, U)
      BY <2>2, <3>1, <3>2, SumPick
    <3>5. SumFunctionOnSet(h, T) = h[p] + SumFunctionOnSet(h, U)
      BY <2>2, <3>1, <3>2, SumPick
    <3>6. SumFunctionOnSet(f, U) \in Int /\ SumFunctionOnSet(g, U) \in Int
      BY <3>1, <3>2, SumInt
    <3>7. SumFunctionOnSet(h, U) = SumFunctionOnSet(f, U) + SumFunctionOnSet(g, U)
      BY <1>1, <3>1
    <3>8. f[p] \in Int /\ g[p] \in Int /\ h[p] = f[p] + g[p]
      BY <3>1
    <3>. HIDE DEF p, U
    <3>. QED
      BY <3>3, <3>4, <3>5, <3>6, <3>7, <3>8
  <2>. QED
    BY <2>1, <2>2
<1>2. \A T \in SUBSET S : T \in G
  <2>. HIDE DEF G
  <2>. QED
    BY <1>1, SubsetInduction
<1>. QED
  BY <1>2

(* Zeros sum to zero.                                                      *)
LEMMA SumOfZeros ==
  ASSUME NEW S, IsFiniteSet(S), NEW f, \A i \in S : f[i] = 0
  PROVE  SumFunctionOnSet(f, S) = 0
<1>. DEFINE G == {T \in SUBSET S : SumFunctionOnSet(f, T) = 0}
<1>1. ASSUME NEW T \in SUBSET S, \A U \in SUBSET T : U # T => U \in G
      PROVE  T \in G
  <2>1. CASE T = {}
    BY <2>1, SumOfNone
  <2>2. CASE T # {}
    <3>1. Picked(T) \in T /\ IsFiniteSet(T) /\ \A i \in T : f[i] \in Int
      BY <2>2, PickedIn, FS_Subset
    <3>2. SumFunctionOnSet(f, T) = f[Picked(T)] + SumFunctionOnSet(f, T \ {Picked(T)})
      BY <2>2, <3>1, SumPick
    <3>. QED
      BY <1>1, <3>1, <3>2
  <2>. QED
    BY <2>1, <2>2
<1>2. \A T \in SUBSET S : T \in G
  <2>. HIDE DEF G
  <2>. QED
    BY <1>1, SubsetInduction
<1>. QED
  BY <1>2

(* Terms that are not negative make no negative sum, and none exceeds it.  *)
LEMMA SumNat ==
  ASSUME NEW S, IsFiniteSet(S), NEW f, \A i \in S : f[i] \in Nat
  PROVE  SumFunctionOnSet(f, S) \in Nat
<1>. DEFINE z == [i \in S |-> 0]
<1>1. \A i \in S : f[i] \in Int /\ z[i] \in Int /\ z[i] <= f[i] /\ z[i] = 0
  OBVIOUS
<1>. HIDE DEF z
<1>2. SumFunctionOnSet(z, S) = 0
  BY <1>1, SumOfZeros
<1>3. SumFunctionOnSet(z, S) <= SumFunctionOnSet(f, S) /\ SumFunctionOnSet(f, S) \in Int
  BY <1>1, SumMonotone, SumInt
<1>. QED
  BY <1>2, <1>3

(* A sum over two sets that have nothing in common.                        *)
LEMMA SumSplit ==
  ASSUME NEW S, IsFiniteSet(S), NEW f, \A i \in S : f[i] \in Int, NEW A \in SUBSET S
  PROVE  SumFunctionOnSet(f, S) = SumFunctionOnSet(f, A) + SumFunctionOnSet(f, S \ A)
<1>. DEFINE G == {T \in SUBSET S :
                    SumFunctionOnSet(f, T) = SumFunctionOnSet(f, T \cap A)
                                               + SumFunctionOnSet(f, T \ A)}
<1>1. ASSUME NEW T \in SUBSET S, \A U \in SUBSET T : U # T => U \in G
      PROVE  T \in G
  <2>1. CASE T = {}
    <3>. T \cap A = {} /\ T \ A = {}
      BY <2>1
    <3>. QED
      BY <2>1, SumOfNone
  <2>2. CASE T # {}
    <3>. DEFINE p == Picked(T)
                U == T \ {p}
    <3>1. p \in T /\ IsFiniteSet(T)
      BY <2>2, PickedIn, FS_Subset
    <3>2. /\ IsFiniteSet(T \cap A) /\ IsFiniteSet(T \ A)
          /\ IsFiniteSet(U \cap A) /\ IsFiniteSet(U \ A)
      BY <3>1, FS_Subset
    <3>3. SumFunctionOnSet(f, T) = f[p] + SumFunctionOnSet(f, U)
      BY <2>2, <3>1, SumPick
    <3>4. SumFunctionOnSet(f, U) = SumFunctionOnSet(f, U \cap A) + SumFunctionOnSet(f, U \ A)
      BY <1>1, <3>1
    <3>5. SumFunctionOnSet(f, U \cap A) \in Int /\ SumFunctionOnSet(f, U \ A) \in Int
      <4>. (\A i \in U \cap A : f[i] \in Int) /\ (\A i \in U \ A : f[i] \in Int)
        OBVIOUS
      <4>. HIDE DEF U
      <4>. QED
        BY <3>2, SumInt
    <3>6. f[p] \in Int
      BY <3>1
    <3>7. CASE p \in A
      <4>1. p \in T \cap A /\ (T \cap A) \ {p} = U \cap A /\ T \ A = U \ A
        BY <3>1, <3>7
      <4>2. SumFunctionOnSet(f, T \cap A) = f[p] + SumFunctionOnSet(f, (T \cap A) \ {p})
        <5>. \A i \in T \cap A : f[i] \in Int
          OBVIOUS
        <5>. HIDE DEF p
        <5>. QED
          BY <3>2, <4>1, SumRemove
      <4>. HIDE DEF p, U
      <4>3. SumFunctionOnSet(f, T \cap A) = f[p] + SumFunctionOnSet(f, U \cap A)
        BY <4>1, <4>2
      <4>4. SumFunctionOnSet(f, T \ A) = SumFunctionOnSet(f, U \ A)
        BY <4>1
      <4>. QED
        BY <3>3, <3>4, <3>5, <3>6, <4>3, <4>4
    <3>8. CASE p \notin A
      <4>1. p \in T \ A /\ (T \ A) \ {p} = U \ A /\ T \cap A = U \cap A
        BY <3>1, <3>8
      <4>2. SumFunctionOnSet(f, T \ A) = f[p] + SumFunctionOnSet(f, (T \ A) \ {p})
        <5>. \A i \in T \ A : f[i] \in Int
          OBVIOUS
        <5>. HIDE DEF p
        <5>. QED
          BY <3>2, <4>1, SumRemove
      <4>. HIDE DEF p, U
      <4>3. SumFunctionOnSet(f, T \ A) = f[p] + SumFunctionOnSet(f, U \ A)
        BY <4>1, <4>2
      <4>4. SumFunctionOnSet(f, T \cap A) = SumFunctionOnSet(f, U \cap A)
        BY <4>1
      <4>. QED
        BY <3>3, <3>4, <3>5, <3>6, <4>3, <4>4
    <3>. QED
      BY <3>7, <3>8
  <2>. QED
    BY <2>1, <2>2
<1>2. \A T \in SUBSET S : T \in G
  <2>. HIDE DEF G
  <2>. QED
    BY <1>1, SubsetInduction
<1>3. S \cap A = A
  OBVIOUS
<1>. QED
  BY <1>2, <1>3

-----------------------------------------------------------------------------
(* Types.                                                                  *)

Deferred == [from : Ids, to : Ids, amount : Nat, gas : Nat]   \* transfers
Work == [service : Ids, gas : Nat]

AccountsOK(accounts) ==
  DOMAIN accounts \in SUBSET Ids /\ accounts \in [DOMAIN accounts -> Accounts]
FreeOK(f) == DOMAIN f \in SUBSET Ids /\ f \in [DOMAIN f -> Nat]

AllStates == UNION {States(ids, freeIds) : ids \in SUBSET Ids, freeIds \in SUBSET Ids}
AllContexts == [state : AllStates, next : Public, transfers : Seq(Deferred)]
AllOutcomes == [id : Ids, state : AllStates, transfers : Seq(Deferred), used : Int]

TypeOK ==
  /\ e \in AllStates
  /\ inBlock \in BOOLEAN /\ inRound \in BOOLEAN /\ height \in Nat
  /\ reports \in Seq(Work) /\ works \in Seq(Work)
  /\ limit \in Int /\ gas \in Int
  /\ FreeOK(free)
  /\ transfers \in Seq(Deferred)
  /\ todo \in SUBSET Ids
  /\ results \in Seq(AllOutcomes)
  /\ running \in Ids \cup {None}
  /\ running # None => x \in AllContexts /\ y \in AllContexts
  /\ before \in [funds : Nat, free : Nat]

(* What an account is.                                                     *)
LEMMA AccountParts ==
  ASSUME NEW a \in Accounts
  PROVE  a.balance \in Nat /\ a.code \in Ids \cup {Runs} /\ a.bare \in BOOLEAN
BY DEF Accounts

(* Paying, upgrading and creating make accounts.                           *)
LEMMA AccountPaid ==
  ASSUME NEW a \in Accounts, NEW b \in Nat
  PROVE  /\ [a EXCEPT !.balance = b] \in Accounts
         /\ [a EXCEPT !.balance = b].balance = b /\ [a EXCEPT !.balance = b].code = a.code
BY DEF Accounts

LEMMA AccountUpgraded ==
  ASSUME NEW a \in Accounts, NEW c \in Ids \cup {Runs}
  PROVE  /\ [a EXCEPT !.code = c] \in Accounts
         /\ [a EXCEPT !.code = c].balance = a.balance
BY DEF Accounts

LEMMA AccountCreated ==
  ASSUME NEW c \in Ids \cup {Runs}
  PROVE  NewAccount(c) \in Accounts /\ NewAccount(c).balance = Floor
BY ConstantsAssumption DEF Accounts, NewAccount

(* What a state is made of, and what makes one.                            *)
LEMMA StateParts ==
  ASSUME NEW st \in AllStates
  PROVE  /\ AccountsOK(st.accounts) /\ FreeOK(st.always)
         /\ st.manager \in Ids /\ st.delegator \in Ids /\ st.registrar \in Ids
         /\ st.assigners \in [Cores -> Ids] /\ st.queue \in [Cores -> Values]
         /\ st.staging \in Values
<1>1. PICK ids \in SUBSET Ids, freeIds \in SUBSET Ids : st \in States(ids, freeIds)
  BY DEF AllStates
<1>2. /\ st.accounts \in [ids -> Accounts] /\ st.always \in [freeIds -> Nat]
      /\ st.manager \in Ids /\ st.delegator \in Ids /\ st.registrar \in Ids
      /\ st.assigners \in [Cores -> Ids] /\ st.queue \in [Cores -> Values]
      /\ st.staging \in Values
  BY <1>1 DEF States
<1>. QED
  BY <1>2 DEF AccountsOK, FreeOK

(* A record of well-typed fields is a state.                               *)
LEMMA StateOf ==
  ASSUME NEW a, AccountsOK(a), NEW z, FreeOK(z),
         NEW m \in Ids, NEW d \in Ids, NEW r \in Ids,
         NEW as \in [Cores -> Ids], NEW q \in [Cores -> Values], NEW v \in Values
  PROVE  [accounts |-> a, manager |-> m, assigners |-> as, delegator |-> d,
          registrar |-> r, always |-> z, staging |-> v, queue |-> q] \in AllStates
<1>. DEFINE st == [accounts |-> a, manager |-> m, assigners |-> as, delegator |-> d,
                   registrar |-> r, always |-> z, staging |-> v, queue |-> q]
<1>1. st \in States(DOMAIN a, DOMAIN z)
  BY DEF States, AccountsOK, FreeOK
<1>2. DOMAIN a \in SUBSET Ids /\ DOMAIN z \in SUBSET Ids
  BY DEF AccountsOK, FreeOK
<1>. HIDE DEF st
<1>3. st \in AllStates
  BY <1>1, <1>2 DEF AllStates
<1>. QED
  BY <1>3 DEF st

(* Every state is a record of its fields.                                  *)
LEMMA StateIsRecord ==
  ASSUME NEW st \in AllStates
  PROVE  st = [accounts |-> st.accounts, manager |-> st.manager,
               assigners |-> st.assigners, delegator |-> st.delegator,
               registrar |-> st.registrar, always |-> st.always,
               staging |-> st.staging, queue |-> st.queue]
<1>1. PICK ids \in SUBSET Ids, freeIds \in SUBSET Ids : st \in States(ids, freeIds)
  BY DEF AllStates
<1>. QED
  BY <1>1 DEF States

(* The state with other accounts.                                          *)
LEMMA WithAccounts ==
  ASSUME NEW st \in AllStates, NEW a, AccountsOK(a)
  PROVE  [st EXCEPT !.accounts = a] \in AllStates /\ [st EXCEPT !.accounts = a].accounts = a
<1>1. [st EXCEPT !.accounts = a]
        = [accounts |-> a, manager |-> st.manager,
           assigners |-> st.assigners, delegator |-> st.delegator,
           registrar |-> st.registrar, always |-> st.always,
           staging |-> st.staging, queue |-> st.queue]
  BY StateIsRecord
<1>2. /\ FreeOK(st.always)
      /\ st.manager \in Ids /\ st.delegator \in Ids /\ st.registrar \in Ids
      /\ st.assigners \in [Cores -> Ids] /\ st.queue \in [Cores -> Values]
      /\ st.staging \in Values
  BY StateParts
<1>. QED
  BY <1>1, <1>2, StateOf

(* What a context is made of.                                              *)
LEMMA ContextParts ==
  ASSUME NEW c \in AllContexts
  PROVE  /\ c.state \in AllStates /\ c.next \in Public /\ c.transfers \in Seq(Deferred)
         /\ c = [state |-> c.state, next |-> c.next, transfers |-> c.transfers]
BY DEF AllContexts

(* A context with other accounts, and as the case may be with more.        *)
With(c, a, n, ts) ==
  [state |-> [c.state EXCEPT !.accounts = a], next |-> n, transfers |-> ts]

(* It is a context if the parts are what they should be.                   *)
LEMMA ContextWith ==
  ASSUME NEW c \in AllContexts, NEW a, AccountsOK(a), NEW n \in Public,
         NEW ts \in Seq(Deferred)
  PROVE  /\ With(c, a, n, ts) \in AllContexts
         /\ With(c, a, n, ts).state.accounts = a
         /\ With(c, a, n, ts).next = n
         /\ With(c, a, n, ts).transfers = ts
<1>. DEFINE st == [c.state EXCEPT !.accounts = a]
<1>1. st \in AllStates /\ st.accounts = a
  BY ContextParts, WithAccounts
<1>. HIDE DEF st
<1>2. [state |-> st, next |-> n, transfers |-> ts] \in AllContexts
  BY <1>1 DEF AllContexts
<1>. QED
  BY <1>1, <1>2 DEF With, st

(* The three ways in which the calls change a context's accounts.          *)
LEMMA ContextAccounts ==
  ASSUME NEW c \in AllContexts, NEW a
  PROVE  [c EXCEPT !.state.accounts = a] = With(c, a, c.next, c.transfers)
<1>1. PICK st : st = [c.state EXCEPT !.accounts = a]
  OBVIOUS
<1>2. PICK s0 : s0 = c.state
  OBVIOUS
<1>3. PICK n0 : n0 = c.next
  OBVIOUS
<1>4. PICK t0 : t0 = c.transfers
  OBVIOUS
<1>. DEFINE r == [state |-> s0, next |-> n0, transfers |-> t0]
            u == [state |-> st, next |-> n0, transfers |-> t0]
<1>5. c = r
  BY <1>2, <1>3, <1>4, ContextParts
<1>6. [r EXCEPT !.state = st] = u
  OBVIOUS
<1>7. [c EXCEPT !.state.accounts = a] = [c EXCEPT !.state = st]
  BY <1>1
<1>8. [c EXCEPT !.state = st] = u
  <2>. HIDE DEF r, u
  <2>. QED
    BY <1>5, <1>6
<1>. QED
  BY <1>1, <1>3, <1>4, <1>7, <1>8 DEF With

LEMMA ContextNext ==
  ASSUME NEW c \in AllContexts, NEW a, NEW n
  PROVE  [c EXCEPT !.state.accounts = a, !.next = n] = With(c, a, n, c.transfers)
<1>1. PICK st : st = [c.state EXCEPT !.accounts = a]
  OBVIOUS
<1>2. PICK t0 : t0 = c.transfers
  OBVIOUS
<1>. DEFINE u == [state |-> st, next |-> c.next, transfers |-> t0]
<1>3. [c EXCEPT !.state.accounts = a] = u
  BY <1>1, <1>2, ContextAccounts DEF With
<1>4. [u EXCEPT !.next = n] = [state |-> st, next |-> n, transfers |-> t0]
  OBVIOUS
<1>5. [c EXCEPT !.state.accounts = a, !.next = n]
        = [[c EXCEPT !.state.accounts = a] EXCEPT !.next = n]
  OBVIOUS
<1>. HIDE DEF u
<1>. QED
  BY <1>1, <1>2, <1>3, <1>4, <1>5 DEF With

LEMMA ContextTransfers ==
  ASSUME NEW c \in AllContexts, NEW a, NEW ts
  PROVE  [c EXCEPT !.state.accounts = a, !.transfers = ts] = With(c, a, c.next, ts)
<1>1. PICK st : st = [c.state EXCEPT !.accounts = a]
  OBVIOUS
<1>2. PICK n0 : n0 = c.next
  OBVIOUS
<1>. DEFINE u == [state |-> st, next |-> n0, transfers |-> c.transfers]
<1>3. [c EXCEPT !.state.accounts = a] = u
  BY <1>1, <1>2, ContextAccounts DEF With
<1>4. [u EXCEPT !.transfers = ts] = [state |-> st, next |-> n0, transfers |-> ts]
  OBVIOUS
<1>5. [c EXCEPT !.state.accounts = a, !.transfers = ts]
        = [[c EXCEPT !.state.accounts = a] EXCEPT !.transfers = ts]
  OBVIOUS
<1>. HIDE DEF u
<1>. QED
  BY <1>1, <1>2, <1>3, <1>4, <1>5 DEF With

(* A context with another state.                                           *)
LEMMA ContextWithState ==
  ASSUME NEW c \in AllContexts, NEW st \in AllStates
  PROVE  LET d == [c EXCEPT !.state = st]
         IN d \in AllContexts /\ d.state = st /\ d.next = c.next /\ d.transfers = c.transfers
BY DEF AllContexts

(* What the operations on accounts return.                                 *)
LEMMA PutIs ==
  ASSUME NEW a, AccountsOK(a), NEW k \in Ids, NEW v \in Accounts
  PROVE  /\ AccountsOK(Put(a, k, v))
         /\ DOMAIN Put(a, k, v) = DOMAIN a \cup {k}
         /\ Put(a, k, v)[k] = v
         /\ \A i \in DOMAIN a : i # k => Put(a, k, v)[i] = a[i]
BY DEF AccountsOK, Put

LEMMA WithoutIs ==
  ASSUME NEW a, AccountsOK(a), NEW k
  PROVE  /\ AccountsOK(Without(a, k))
         /\ DOMAIN Without(a, k) = DOMAIN a \ {k}
         /\ \A i \in DOMAIN a \ {k} : Without(a, k)[i] = a[i]
BY DEF AccountsOK, Without

(* Accounts of which one has another balance.                              *)
LEMMA BalanceIs ==
  ASSUME NEW a, AccountsOK(a), NEW s \in DOMAIN a, NEW b \in Nat
  PROVE  LET c == [a EXCEPT ![s].balance = b]
         IN /\ AccountsOK(c) /\ DOMAIN c = DOMAIN a
            /\ c[s].balance = b /\ c[s].code = a[s].code
            /\ \A i \in DOMAIN a : i # s => c[i] = a[i]
<1>. DEFINE v == [a[s] EXCEPT !.balance = b]
            c == [a EXCEPT ![s] = v]
<1>1. a \in [DOMAIN a -> Accounts] /\ a[s] \in Accounts
  BY DEF AccountsOK
<1>2. v \in Accounts /\ v.balance = b /\ v.code = a[s].code
  BY <1>1, AccountPaid
<1>3. c = [a EXCEPT ![s].balance = b]
  OBVIOUS
<1>. HIDE DEF v
<1>4. /\ AccountsOK(c) /\ DOMAIN c = DOMAIN a
      /\ c[s].balance = b /\ c[s].code = a[s].code
      /\ \A i \in DOMAIN a : i # s => c[i] = a[i]
  BY <1>1, <1>2 DEF AccountsOK
<1>. HIDE DEF c
<1>. QED
  BY <1>3, <1>4

LEMMA PaidIs ==
  ASSUME NEW a, AccountsOK(a), running \in DOMAIN a, NEW m \in Int,
         a[running].balance - m \in Nat
  PROVE  /\ AccountsOK(Paid(a, m)) /\ DOMAIN Paid(a, m) = DOMAIN a
         /\ Paid(a, m)[running].balance = a[running].balance - m
         /\ \A i \in DOMAIN a : i # running => Paid(a, m)[i] = a[i]
<1>1. PICK s : s = running
  OBVIOUS
<1>2. PICK b \in Nat : b = a[s].balance - m
  BY <1>1
<1>3. Paid(a, m) = [a EXCEPT ![s].balance = b]
  BY <1>1, <1>2 DEF Paid
<1>. DEFINE c == [a EXCEPT ![s].balance = b]
<1>4. /\ AccountsOK(c) /\ DOMAIN c = DOMAIN a
      /\ c[s].balance = b
      /\ \A i \in DOMAIN a : i # s => c[i] = a[i]
  BY <1>1, BalanceIs
<1>. HIDE DEF c
<1>. QED
  BY <1>1, <1>2, <1>3, <1>4 DEF c

(* Accounts of which one has other code.                                   *)
LEMMA UpgradedIs ==
  ASSUME NEW a, AccountsOK(a), NEW s \in DOMAIN a, NEW code \in Ids \cup {Runs}
  PROVE  LET c == [a EXCEPT ![s].code = code]
         IN /\ AccountsOK(c) /\ DOMAIN c = DOMAIN a
            /\ \A i \in DOMAIN a : c[i].balance = a[i].balance
<1>. DEFINE v == [a[s] EXCEPT !.code = code]
            c == [a EXCEPT ![s] = v]
<1>1. a \in [DOMAIN a -> Accounts] /\ a[s] \in Accounts
  BY DEF AccountsOK
<1>2. v \in Accounts /\ v.balance = a[s].balance
  BY <1>1, AccountUpgraded
<1>3. c = [a EXCEPT ![s].code = code]
  OBVIOUS
<1>. HIDE DEF v
<1>4. /\ AccountsOK(c) /\ DOMAIN c = DOMAIN a
      /\ \A i \in DOMAIN a : c[i].balance = a[i].balance
  BY <1>1, <1>2 DEF AccountsOK
<1>. HIDE DEF c
<1>. QED
  BY <1>3, <1>4

(* Sums over sequences are natural numbers.                                *)
LEMMA SeqParts ==
  ASSUME NEW T, NEW s \in Seq(T)
  PROVE  /\ DOMAIN s = 1 .. Len(s) /\ Len(s) \in Nat
         /\ IsFiniteSet(DOMAIN s) /\ \A i \in DOMAIN s : s[i] \in T
<1>1. DOMAIN s = 1 .. Len(s) /\ Len(s) \in Nat
  OBVIOUS
<1>2. IsFiniteSet(1 .. Len(s))
  BY <1>1, FS_Interval
<1>. QED
  BY <1>1, <1>2

(* What a service is sent, and the gas that comes with it.                 *)
LEMMA AmountToNat ==
  ASSUME transfers \in Seq(Deferred), NEW s
  PROVE  AmountTo(s) \in Nat /\ GasTo(s) \in Nat
<1>1. IsFiniteSet(DOMAIN transfers) /\ \A i \in DOMAIN transfers : transfers[i] \in Deferred
  BY SeqParts
<1>2. AmountTo(s) \in Nat
  <2>. DEFINE f == [i \in DOMAIN transfers |->
                      IF transfers[i].to = s THEN transfers[i].amount ELSE 0]
  <2>1. \A i \in DOMAIN transfers : f[i] \in Nat
    BY <1>1 DEF Deferred
  <2>2. AmountTo(s) = SumFunctionOnSet(f, DOMAIN f) /\ DOMAIN f = DOMAIN transfers
    BY DEF AmountTo, SumOver, SumFunction
  <2>. HIDE DEF f
  <2>. QED
    BY <1>1, <2>1, <2>2, SumNat
<1>3. GasTo(s) \in Nat
  <2>. DEFINE f == [i \in DOMAIN transfers |->
                      IF transfers[i].to = s THEN transfers[i].gas ELSE 0]
  <2>1. \A i \in DOMAIN transfers : f[i] \in Nat
    BY <1>1 DEF Deferred
  <2>2. GasTo(s) = SumFunctionOnSet(f, DOMAIN f) /\ DOMAIN f = DOMAIN transfers
    BY DEF GasTo, SumOver, SumFunction
  <2>. HIDE DEF f
  <2>. QED
    BY <1>1, <2>1, <2>2, SumNat
<1>. QED
  BY <1>2, <1>3

(* The gas of the works for a service.                                     *)
WorkGas(s) == SumOver(works, LAMBDA w : IF w.service = s THEN w.gas ELSE 0)

(* The gas a service gets for its accumulation.                            *)
LEMMA GasForNat ==
  ASSUME transfers \in Seq(Deferred), works \in Seq(Work), FreeOK(free), NEW s
  PROVE  /\ WorkGas(s) \in Nat /\ GasFor(s) \in Nat
         /\ GasFor(s) = (IF s \in DOMAIN free THEN free[s] ELSE 0) + GasTo(s) + WorkGas(s)
<1>1. WorkGas(s) \in Nat
  <2>. DEFINE f == [i \in DOMAIN works |->
                      IF works[i].service = s THEN works[i].gas ELSE 0]
  <2>1. IsFiniteSet(DOMAIN works) /\ \A i \in DOMAIN works : works[i] \in Work
    BY SeqParts
  <2>2. \A i \in DOMAIN works : f[i] \in Nat
    BY <2>1 DEF Work
  <2>3. WorkGas(s) = SumFunctionOnSet(f, DOMAIN f) /\ DOMAIN f = DOMAIN works
    BY DEF WorkGas, SumOver, SumFunction
  <2>. HIDE DEF f
  <2>. QED
    BY <2>1, <2>2, <2>3, SumNat
<1>2. GasTo(s) \in Nat
  BY AmountToNat
<1>3. (IF s \in DOMAIN free THEN free[s] ELSE 0) \in Nat
  BY DEF FreeOK
<1>4. GasFor(s) = (IF s \in DOMAIN free THEN free[s] ELSE 0) + GasTo(s) + WorkGas(s)
  BY DEF GasFor, WorkGas
<1>. QED
  BY <1>1, <1>2, <1>3, <1>4

(* The funds, the gas of the privileged, and what is in flight.            *)
LEMMA TotalNat ==
  ASSUME NEW a, AccountsOK(a)
  PROVE  Total(a) \in Nat
<1>. DEFINE f == [i \in DOMAIN a |-> a[i].balance]
<1>1. \A i \in DOMAIN a : f[i] \in Nat
  BY AccountParts DEF AccountsOK
<1>2. IsFiniteSet(Ids)
  BY ConstantsAssumption, FS_Interval DEF Ids
<1>3. IsFiniteSet(DOMAIN a)
  BY <1>2, FS_Subset DEF AccountsOK
<1>4. Total(a) = SumFunctionOnSet(f, DOMAIN f) /\ DOMAIN f = DOMAIN a
  BY DEF Total, SumOver, SumFunction
<1>. HIDE DEF f
<1>. QED
  BY <1>1, <1>3, <1>4, SumNat

LEMMA AlwaysGasNat ==
  ASSUME NEW st, FreeOK(st.always)
  PROVE  AlwaysGas(st) \in Nat
<1>. DEFINE f == [i \in DOMAIN st.always |-> st.always[i]]
<1>1. \A i \in DOMAIN st.always : f[i] \in Nat
  BY DEF FreeOK
<1>2. IsFiniteSet(Ids)
  BY ConstantsAssumption, FS_Interval DEF Ids
<1>3. IsFiniteSet(DOMAIN st.always)
  BY <1>2, FS_Subset DEF FreeOK
<1>4. AlwaysGas(st) = SumFunctionOnSet(f, DOMAIN f) /\ DOMAIN f = DOMAIN st.always
  BY DEF AlwaysGas, SumOver, SumFunction
<1>. HIDE DEF f
<1>. QED
  BY <1>1, <1>3, <1>4, SumNat

LEMMA InFlightNat ==
  ASSUME NEW ts \in Seq(Deferred)
  PROVE  InFlight(ts) \in Nat /\ GasOf(ts) \in Nat
<1>. DEFINE f == [i \in DOMAIN ts |-> ts[i].amount]
            g == [i \in DOMAIN ts |-> ts[i].gas]
<1>1. IsFiniteSet(DOMAIN ts) /\ \A i \in DOMAIN ts : ts[i] \in Deferred
  BY SeqParts
<1>2. \A i \in DOMAIN ts : f[i] \in Nat /\ g[i] \in Nat
  BY <1>1 DEF Deferred
<1>3. InFlight(ts) = SumFunctionOnSet(f, DOMAIN f) /\ DOMAIN f = DOMAIN ts
  BY DEF InFlight, SumOver, SumFunction
<1>4. GasOf(ts) = SumFunctionOnSet(g, DOMAIN g) /\ DOMAIN g = DOMAIN ts
  BY DEF GasOf, SumOver, SumFunction
<1>. HIDE DEF f, g
<1>. QED
  BY <1>1, <1>2, <1>3, <1>4, SumNat

-----------------------------------------------------------------------------
(* What rounds take and return.                                            *)

(* A nonempty set of numbers up to a bound has a greatest element.         *)
LEMMA GreatestElement ==
  ASSUME NEW N \in Nat, NEW S \in SUBSET (0 .. N), S # {}
  PROVE  Max(S) \in S /\ \A n \in S : n <= Max(S)
<1>. DEFINE T == {N - n : n \in S}
<1>1. T \in SUBSET Nat /\ T # {}
  OBVIOUS
<1>2. PICK m \in T : \A n \in T : m <= n
  <2>. HIDE DEF T
  <2>. QED
    BY <1>1, LeastElement
<1>3. PICK k \in S : m = N - k
  BY <1>2
<1>4. ASSUME NEW n \in S PROVE n <= k
  <2>. N - n \in T
    OBVIOUS
  <2>. m <= N - n
    BY <1>2
  <2>. QED
    BY <1>3
<1>5. \A n \in S : k >= n
  BY <1>4
<1>6. PICK l \in S : (\A n \in S : l >= n) /\ l = Max(S)
  BY <1>5 DEF Max
<1>. QED
  BY <1>6

(* A round's work is within the limit, or there is none.                   *)
LEMMA PrefixIs ==
  ASSUME reports \in Seq(Work)
  PROVE  Prefix \in 0 .. Len(reports) /\ \A j \in 1 .. Prefix : Fits(j)
<1>. DEFINE P(i) == \A j \in 1 .. i : Fits(j)
            Q(i) == P(i) /\ (i < Len(reports) => ~Fits(i + 1))
            S == {i \in 0 .. Len(reports) : P(i)}
            k == Max(S)
<1>1. Len(reports) \in Nat
  OBVIOUS
<1>2. 0 \in S
  BY <1>1
<1>3. k \in S /\ \A i \in S : i <= k
  <2>. S \in SUBSET (0 .. Len(reports)) /\ S # {}
    BY <1>2
  <2>. HIDE DEF S
  <2>. QED
    BY <1>1, GreatestElement
<1>. HIDE DEF k
<1>4. k \in 0 .. Len(reports) /\ P(k)
  BY <1>3
<1>5. ASSUME k < Len(reports), Fits(k + 1) PROVE FALSE
  <2>1. k + 1 \in 0 .. Len(reports)
    BY <1>1, <1>4, <1>5
  <2>2. ASSUME NEW j \in 1 .. k + 1 PROVE Fits(j)
    <3>1. CASE j = k + 1
      BY <1>5, <3>1
    <3>2. CASE j # k + 1
      <4>. j \in 1 .. k
        BY <1>4, <3>2
      <4>. QED
        BY <1>4
    <3>. QED
      BY <3>1, <3>2
  <2>3. k + 1 \in S
    BY <2>1, <2>2
  <2>4. k + 1 <= k
    BY <1>3, <2>3
  <2>. QED
    BY <1>4, <1>1, <2>4
<1>6. Q(k)
  BY <1>4, <1>5
<1>7. PICK i \in 0 .. Len(reports) : Q(i) /\ i = CHOOSE j \in 0 .. Len(reports) : Q(j)
  <2>. HIDE DEF Q
  <2>. QED
    BY <1>4, <1>6
<1>8. Prefix = i
  BY <1>7 DEF Prefix
<1>. QED
  BY <1>7, <1>8

(* FlattenSeq of no sequences, and of the others step by step.             *)
Flattening(g, ss, T) ==
  /\ g \in [1 .. Len(ss) -> Seq(T)]
  /\ g[1] = ss[1]
  /\ \A i \in 2 .. Len(ss) : g[i] = g[i - 1] \o ss[i]

(* FlattenSeq is the last value of a recursion over the sequences.         *)
LEMMA FlattenSeqIs ==
  ASSUME NEW T, NEW ss \in Seq(Seq(T)), Len(ss) > 0
  PROVE  \E g : Flattening(g, ss, T) /\ FlattenSeq(ss) = g[Len(ss)]
<1>. DEFINE N == Len(ss) - 1
            V == Seq(T)
            step == [p \in V \X (1 .. N) |-> p[1] \o ss[p[2] + 1]]
            Body(g) == [i \in 1 .. Len(ss) |-> IF i = 1 THEN ss[i] ELSE g[i - 1] \o ss[i]]
            flatten == CHOOSE g : g = Body(g)
<1>1. N \in Nat /\ Len(ss) \in Nat /\ \A i \in 1 .. Len(ss) : ss[i] \in Seq(T)
  OBVIOUS
<1>2. step \in [V \X (1 .. N) -> V]
  <2>1. ASSUME NEW p \in V \X (1 .. N) PROVE p[1] \o ss[p[2] + 1] \in V
    <3>1. p[1] \in Seq(T) /\ p[2] + 1 \in 1 .. Len(ss)
      BY <1>1
    <3>2. ss[p[2] + 1] \in Seq(T)
      BY <1>1, <3>1
    <3>. QED
      BY <3>1, <3>2
  <2>. HIDE DEF V, N
  <2>. QED
    BY <2>1
<1>3. ss[1] \in V
  BY <1>1
<1>4. PICK h : Recursion(h, N, V, ss[1], step)
  <2>. HIDE DEF N, V, step
  <2>. QED
    BY <1>1, <1>2, <1>3, RecursionExists
<1>5. /\ h \in [0 .. N -> Seq(T)] /\ h[0] = ss[1]
      /\ \A n \in 1 .. N : h[n] = step[<<h[n - 1], n>>]
  BY <1>4 DEF Recursion
<1>6. ASSUME NEW n \in 1 .. N PROVE h[n] = h[n - 1] \o ss[n + 1]
  <2>1. h[n - 1] \in V
    <3>. n - 1 \in 0 .. N
      BY <1>1
    <3>. QED
      BY <1>5
  <2>2. <<h[n - 1], n>> \in V \X (1 .. N) /\ h[n] = step[<<h[n - 1], n>>]
    BY <2>1, <1>5
  <2>. HIDE DEF V, N
  <2>. QED
    BY <2>2
<1>. DEFINE k == [i \in 1 .. Len(ss) |-> h[i - 1]]
<1>7. k = Body(k)
  <2>1. ASSUME NEW i \in 1 .. Len(ss)
        PROVE  h[i - 1] = IF i = 1 THEN ss[i] ELSE k[i - 1] \o ss[i]
    <3>1. CASE i = 1
      BY <3>1, <1>5
    <3>2. CASE i # 1
      <4>1. i - 1 \in 1 .. N /\ i - 1 \in 1 .. Len(ss) /\ (i - 1) + 1 = i
        BY <1>1, <3>2
      <4>2. h[i - 1] = h[(i - 1) - 1] \o ss[(i - 1) + 1]
        BY <4>1, <1>6
      <4>3. k[i - 1] = h[(i - 1) - 1]
        BY <4>1
      <4>. QED
        BY <3>2, <4>1, <4>2, <4>3
    <3>. QED
      BY <3>1, <3>2
  <2>2. k = [i \in 1 .. Len(ss) |-> IF i = 1 THEN ss[i] ELSE k[i - 1] \o ss[i]]
    BY <2>1
  <2>. QED
    BY <2>2
<1>8. PICK g : g = Body(g) /\ g = flatten
  <2>. HIDE DEF k, Body
  <2>. QED
    BY <1>7
<1>9. FlattenSeq(ss) = g[Len(ss)]
  <2>1. FlattenSeq(ss) = flatten[Len(ss)]
    BY <1>1 DEF FlattenSeq
  <2>. QED
    BY <2>1, <1>8
<1>10. ASSUME NEW i \in 1 .. Len(ss)
       PROVE  g[i] = IF i = 1 THEN ss[i] ELSE g[i - 1] \o ss[i]
  BY <1>8
<1>11. g[1] = ss[1] /\ \A i \in 2 .. Len(ss) : g[i] = g[i - 1] \o ss[i]
  <2>1. 1 \in 1 .. Len(ss) /\ \A i \in 2 .. Len(ss) : i \in 1 .. Len(ss) /\ i # 1
    BY <1>1
  <2>. QED
    BY <1>10, <2>1
<1>12. \A i \in 1 .. Len(ss) : g[i] \in Seq(T)
  <2>. DEFINE S == {n \in 0 .. N : g[n + 1] \in Seq(T)}
  <2>1. 0 \in S
    BY <1>1, <1>11
  <2>2. ASSUME NEW n \in 0 .. N - 1, n \in S PROVE n + 1 \in S
    <3>1. (n + 1) + 1 \in 2 .. Len(ss) /\ ((n + 1) + 1) - 1 = n + 1 /\ n + 1 \in 0 .. N
      BY <1>1
    <3>2. g[(n + 1) + 1] = g[n + 1] \o ss[(n + 1) + 1]
      BY <1>11, <3>1
    <3>3. g[n + 1] \in Seq(T) /\ ss[(n + 1) + 1] \in Seq(T)
      BY <2>2, <1>1, <3>1
    <3>4. g[n + 1] \o ss[(n + 1) + 1] \in Seq(T)
      BY <3>3
    <3>. QED
      BY <3>1, <3>2, <3>4
  <2>3. \A n \in 0 .. N : n \in S
    <3>. HIDE DEF S, N
    <3>. QED
      BY <1>1, <2>1, <2>2, Induction
  <2>4. ASSUME NEW i \in 1 .. Len(ss) PROVE g[i] \in Seq(T)
    <3>. i - 1 \in 0 .. N /\ (i - 1) + 1 = i
      BY <1>1
    <3>. i - 1 \in S
      BY <2>3
    <3>. QED
      OBVIOUS
  <2>. QED
    BY <2>4
<1>13. DOMAIN g = 1 .. Len(ss)
  BY <1>8
<1>14. Flattening(g, ss, T)
  <2>. g = [i \in 1 .. Len(ss) |-> g[i]]
    BY <1>8
  <2>. QED
    BY <1>11, <1>12, <1>13 DEF Flattening
<1>. QED
  BY <1>9, <1>14

LEMMA FlattenSeqType ==
  ASSUME NEW T, NEW ss \in Seq(Seq(T))
  PROVE  FlattenSeq(ss) \in Seq(T)
<1>1. CASE Len(ss) = 0
  <2>1. ss = << >>
    BY <1>1, EmptySeq
  <2>2. FlattenSeq(ss) = ss
    BY <1>1 DEF FlattenSeq
  <2>3. << >> \in Seq(T)
    OBVIOUS
  <2>. QED
    BY <2>1, <2>2, <2>3
<1>2. CASE Len(ss) > 0
  <2>1. PICK g : Flattening(g, ss, T) /\ FlattenSeq(ss) = g[Len(ss)]
    BY <1>2, FlattenSeqIs
  <2>2. Len(ss) \in 1 .. Len(ss)
    BY <1>2
  <2>. QED
    BY <2>1, <2>2 DEF Flattening
<1>. QED
  BY <1>1, <1>2

(* The state in which an accumulation ended.                               *)
LEMMA AfterIs ==
  ASSUME e \in AllStates, results \in Seq(AllOutcomes), NEW s
  PROVE  /\ After(s) \in AllStates
         /\ ~Ran(s) => After(s) = e
<1>. DEFINE own == {i \in DOMAIN results : results[i].id = s}
<1>1. CASE own = {}
  BY <1>1 DEF After
<1>2. CASE own # {}
  <2>1. DOMAIN results = 1 .. Len(results) /\ Len(results) \in Nat
        /\ \A i \in DOMAIN results : results[i] \in AllOutcomes
    BY SeqParts
  <2>2. own \in SUBSET (0 .. Len(results))
    BY <2>1
  <2>3. Max(own) \in own
    <3>. HIDE DEF own
    <3>. QED
      BY <1>2, <2>1, <2>2, GreatestElement
  <2>4. After(s) = results[Max(own)].state
    BY <1>2 DEF After
  <2>5. results[Max(own)] \in AllOutcomes
    BY <2>1, <2>3
  <2>6. Ran(s)
    BY <1>2 DEF Ran
  <2>. QED
    BY <2>4, <2>5, <2>6 DEF AllOutcomes
<1>. QED
  BY <1>1, <1>2

-----------------------------------------------------------------------------
(* Host calls: what a call leaves of the service's context.                *)

CtxOK(c, s) == c \in AllContexts /\ IsFree(c) /\ s \in DOMAIN c.state.accounts

ContextsOK == running # None => CtxOK(x, running) /\ CtxOK(y, running)

(* In what becomes of a context c of service s the money has moved in one  *)
(* of four ways: from s into a transfer, to a new account, from an ejected *)
(* one, or not at all.                                                     *)
SameOthers(a, b, s, k) == \A i \in DOMAIN a \ {s, k} : b[i] = a[i]

Pays(c, d, s) ==
  /\ DOMAIN d.state.accounts = DOMAIN c.state.accounts
  /\ SameOthers(c.state.accounts, d.state.accounts, s, s)
  /\ c.state.accounts[s].balance - d.state.accounts[s].balance
       = InFlight(d.transfers) - InFlight(c.transfers)

Creates(c, d, s, k) ==
  /\ k \in Ids \ DOMAIN c.state.accounts
  /\ DOMAIN d.state.accounts = DOMAIN c.state.accounts \cup {k}
  /\ SameOthers(c.state.accounts, d.state.accounts, s, k)
  /\ d.state.accounts[s].balance + d.state.accounts[k].balance = c.state.accounts[s].balance
  /\ d.transfers = c.transfers

Ejects(c, d, s, k) ==
  /\ k \in DOMAIN c.state.accounts \ {s} /\ c.state.accounts[k].code = s
  /\ DOMAIN d.state.accounts = DOMAIN c.state.accounts \ {k}
  /\ SameOthers(c.state.accounts, d.state.accounts, s, k)
  /\ d.state.accounts[s].balance = c.state.accounts[s].balance + c.state.accounts[k].balance
  /\ d.transfers = c.transfers

Moves(c, d, s) ==
  \/ Pays(c, d, s)
  \/ \E k \in Ids \ DOMAIN e.accounts : Creates(c, d, s, k)
  \/ \E k \in Ids : Ejects(c, d, s, k)

CallOK(c, cost) ==
  /\ running # None /\ cost \in Int /\ Becoming(c, cost)
  /\ CtxOK(c, running)
  /\ ~doubled' => ~doubled /\ Moves(x, c, running)

(* The parts of the running service's context.                             *)
LEMMA RunningContext ==
  ASSUME TypeOK, ContextsOK, running # None
  PROVE  /\ running \in Ids /\ x \in AllContexts /\ x.next \in Public
         /\ x.state \in AllStates /\ x.transfers \in Seq(Deferred)
         /\ AccountsOK(x.state.accounts) /\ running \in DOMAIN x.state.accounts
         /\ IsFree(x) /\ Own \in Accounts /\ Own.balance \in Nat
<1>1. running \in Ids /\ x \in AllContexts /\ IsFree(x) /\ running \in DOMAIN x.state.accounts
  BY DEF TypeOK, ContextsOK, CtxOK
<1>2. x.state \in AllStates /\ x.transfers \in Seq(Deferred) /\ x.next \in Public
  BY <1>1, ContextParts
<1>3. AccountsOK(x.state.accounts)
  BY <1>2, StateParts
<1>4. Own \in Accounts
  BY <1>1, <1>3 DEF AccountsOK, Own
<1>5. Own.balance \in Nat
  BY <1>4, AccountParts
<1>. QED
  BY <1>1, <1>2, <1>3, <1>4, <1>5

(* Another transfer adds to what is in flight.                             *)
LEMMA InFlightAppend ==
  ASSUME NEW ts \in Seq(Deferred), NEW t \in Deferred
  PROVE  InFlight(Append(ts, t)) = InFlight(ts) + t.amount
<1>. DEFINE us == Append(ts, t)
            n == Len(ts) + 1
            f == [i \in DOMAIN us |-> us[i].amount]
            g == [i \in DOMAIN ts |-> ts[i].amount]
<1>1. /\ DOMAIN ts = 1 .. Len(ts) /\ Len(ts) \in Nat
      /\ IsFiniteSet(DOMAIN ts) /\ \A i \in DOMAIN ts : ts[i] \in Deferred
  BY SeqParts
<1>2. us \in Seq(Deferred) /\ us[n] = t /\ Len(us) = n /\ \A i \in 1 .. Len(ts) : us[i] = ts[i]
  OBVIOUS
<1>. HIDE DEF us
<1>3. /\ DOMAIN us = 1 .. n /\ IsFiniteSet(DOMAIN us)
      /\ \A i \in DOMAIN us : us[i] \in Deferred
  BY <1>2, SeqParts
<1>4. (1 .. n) \ {n} = 1 .. Len(ts) /\ n \in 1 .. n
  BY <1>1
<1>5. \A i \in 1 .. n : f[i] \in Int
  BY <1>3 DEF Deferred
<1>6. SumFunctionOnSet(f, 1 .. n) = f[n] + SumFunctionOnSet(f, (1 .. n) \ {n})
  <2>. HIDE DEF f, n
  <2>. QED
    BY <1>3, <1>4, <1>5, SumRemove
<1>7. SumFunctionOnSet(g, 1 .. Len(ts)) = SumFunctionOnSet(f, 1 .. Len(ts))
  <2>1. ASSUME NEW i \in 1 .. Len(ts) PROVE g[i] \in Int /\ g[i] = f[i]
    <3>1. i \in DOMAIN ts /\ i \in DOMAIN us /\ us[i] = ts[i]
      BY <1>1, <1>2, <1>3, <1>4
    <3>2. ts[i].amount \in Int
      BY <1>1, <3>1 DEF Deferred
    <3>. QED
      BY <3>1, <3>2
  <2>. HIDE DEF f, g
  <2>. QED
    BY <1>1, <2>1, SumSame
<1>8. InFlight(us) = SumFunctionOnSet(f, 1 .. n)
  BY <1>3 DEF InFlight, SumOver, SumFunction
<1>9. InFlight(ts) = SumFunctionOnSet(g, 1 .. Len(ts))
  BY <1>1 DEF InFlight, SumOver, SumFunction
<1>10. InFlight(ts) \in Nat /\ f[n] = t.amount /\ t.amount \in Nat
  BY <1>2, <1>3, <1>4, InFlightNat DEF Deferred
<1>. HIDE DEF f, g, n
<1>11. InFlight(us) = f[n] + InFlight(ts)
  BY <1>4, <1>6, <1>7, <1>8, <1>9
<1>12. InFlight(us) = InFlight(ts) + t.amount
  BY <1>10, <1>11
<1>. QED
  BY <1>12 DEF us

(* A transfer that is made leaves a context that CallOK describes.         *)
LEMMA TransferOK ==
  ASSUME TypeOK, ContextsOK,
         NEW to \in Ids, NEW amount \in Amounts, NEW l \in Gases, Transfer(to, amount, l)
  PROVE  \E c, cost : CallOK(c, cost)
<1>1. running # None /\ amount \in Nat /\ l \in Nat /\ Floor \in Nat
  BY ConstantsAssumption DEF Transfer, Calling
<1>2. /\ running \in Ids /\ x \in AllContexts /\ x.next \in Public
      /\ x.state \in AllStates /\ x.transfers \in Seq(Deferred)
      /\ AccountsOK(x.state.accounts) /\ running \in DOMAIN x.state.accounts
      /\ IsFree(x) /\ Own.balance \in Nat
  BY <1>1, RunningContext
<1>. DEFINE t == [from |-> running, to |-> to, amount |-> amount, gas |-> l]
            a == Paid(x.state.accounts, amount)
            ts == Append(x.transfers, t)
            c == With(x, a, x.next, ts)
<1>3. Becomes(c, 1 + l)
  <2>1. Becomes([x EXCEPT !.state.accounts = a, !.transfers = ts], 1 + l)
    BY DEF Transfer
  <2>2. [x EXCEPT !.state.accounts = a, !.transfers = ts] = c
    <3>. HIDE DEF a, ts
    <3>. QED
      BY <1>2, ContextTransfers
  <2>. HIDE DEF c, a, ts
  <2>. QED
    BY <2>1, <2>2
<1>4. t \in Deferred
  BY <1>1, <1>2 DEF Deferred
<1>. HIDE DEF t
<1>5. ts \in Seq(Deferred)
  BY <1>2, <1>4
<1>6. x.state.accounts[running].balance - amount \in Nat
  BY <1>1, <1>2 DEF Transfer, Own
<1>7. /\ AccountsOK(a) /\ DOMAIN a = DOMAIN x.state.accounts
      /\ a[running].balance = x.state.accounts[running].balance - amount
      /\ \A i \in DOMAIN x.state.accounts : i # running => a[i] = x.state.accounts[i]
  BY <1>1, <1>2, <1>6, PaidIs
<1>. HIDE DEF a, ts
<1>8. c \in AllContexts /\ c.state.accounts = a /\ c.next = x.next /\ c.transfers = ts
  BY <1>2, <1>5, <1>7, ContextWith
<1>9. InFlight(ts) = InFlight(x.transfers) + amount
  <2>. InFlight(ts) = InFlight(x.transfers) + t.amount
    BY <1>2, <1>4, InFlightAppend DEF ts
  <2>. QED
    BY DEF t
<1>10. InFlight(x.transfers) \in Nat
  BY <1>2, InFlightNat
<1>. HIDE DEF c
<1>11. CtxOK(c, running)
  BY <1>2, <1>7, <1>8 DEF CtxOK, IsFree
<1>12. Pays(x, c, running)
  <2>1. SameOthers(x.state.accounts, c.state.accounts, running, running)
    BY <1>7, <1>8 DEF SameOthers
  <2>2. x.state.accounts[running].balance \in Nat
    BY <1>2 DEF Own
  <2>3. x.state.accounts[running].balance - c.state.accounts[running].balance
          = InFlight(c.transfers) - InFlight(x.transfers)
    BY <1>1, <1>7, <1>8, <1>9, <1>10, <2>2
  <2>. QED
    BY <1>7, <1>8, <2>1, <2>3 DEF Pays
<1>13. Becoming(c, 1 + l) /\ doubled' = doubled /\ 1 + l \in Int
  BY <1>1, <1>3 DEF Becomes
<1>14. CallOK(c, 1 + l)
  BY <1>1, <1>11, <1>12, <1>13 DEF CallOK, Moves
<1>. QED
  BY <1>14

(* The accounts once the running service has paid for one under index k.   *)
LEMMA CreatedIs ==
  ASSUME TypeOK, ContextsOK, running # None, Own.balance - Floor >= Floor,
         NEW code \in Codes, NEW k \in Ids \ DOMAIN x.state.accounts, NEW a,
         a = Put(Paid(x.state.accounts, Floor), k, NewAccount(code)),
         NEW n \in Public \ DOMAIN a
  PROVE  /\ CtxOK(With(x, a, n, x.transfers), running)
         /\ Creates(x, With(x, a, n, x.transfers), running, k)
<1>1. /\ x \in AllContexts /\ x.transfers \in Seq(Deferred)
      /\ AccountsOK(x.state.accounts) /\ running \in DOMAIN x.state.accounts
      /\ Own.balance \in Nat
  BY RunningContext
<1>. DEFINE c == With(x, a, n, x.transfers)
<1>2. x.state.accounts[running].balance - Floor \in Nat /\ Floor \in Int
  <2>1. Floor \in Nat
    BY ConstantsAssumption
  <2>2. PICK b \in Nat : b = Own.balance
    BY <1>1
  <2>3. b - Floor \in Nat
    BY <2>1, <2>2
  <2>. QED
    BY <2>1, <2>2, <2>3 DEF Own
<1>. PICK p : p = Paid(x.state.accounts, Floor)
  OBVIOUS
<1>3. /\ AccountsOK(p) /\ DOMAIN p = DOMAIN x.state.accounts
      /\ p[running].balance = x.state.accounts[running].balance - Floor
      /\ \A i \in DOMAIN x.state.accounts : i # running => p[i] = x.state.accounts[i]
  BY <1>1, <1>2, PaidIs
<1>. PICK v : v = NewAccount(code)
  OBVIOUS
<1>4. v \in Accounts /\ v.balance = Floor
  BY GenesisAssumption, AccountCreated
<1>5. a = Put(p, k, v)
  OBVIOUS
<1>6. /\ AccountsOK(a) /\ DOMAIN a = DOMAIN p \cup {k} /\ a[k] = v
      /\ \A i \in DOMAIN p : i # k => a[i] = p[i]
  <2>1. k \in Ids /\ AccountsOK(p) /\ v \in Accounts
    BY <1>3, <1>4
  <2>. DEFINE q == Put(p, k, v)
  <2>2. /\ AccountsOK(q) /\ DOMAIN q = DOMAIN p \cup {k} /\ q[k] = v
        /\ \A i \in DOMAIN p : i # k => q[i] = p[i]
    BY <2>1, PutIs
  <2>. HIDE DEF q
  <2>. QED
    BY <1>5, <2>2 DEF q
<1>7. c \in AllContexts /\ c.state.accounts = a /\ c.next = n /\ c.transfers = x.transfers
  BY <1>1, <1>6, ContextWith
<1>. HIDE DEF c
<1>8. running # k
  BY <1>1
<1>9. a[running].balance + a[k].balance = x.state.accounts[running].balance
  <2>1. a[running] = p[running]
    BY <1>1, <1>3, <1>6, <1>8
  <2>2. x.state.accounts[running].balance \in Int
    BY <1>1 DEF Own
  <2>. QED
    BY <1>2, <1>3, <1>4, <1>6, <2>1, <2>2
<1>10. SameOthers(x.state.accounts, a, running, k)
  BY <1>3, <1>6 DEF SameOthers
<1>11. CtxOK(c, running)
  BY <1>1, <1>3, <1>6, <1>7 DEF CtxOK, IsFree
<1>12. Creates(x, c, running, k)
  BY <1>3, <1>6, <1>7, <1>9, <1>10 DEF Creates
<1>. QED
  BY <1>11, <1>12 DEF c

(* So does the creation of an account, under an index asked for or given,  *)
LEMMA NewOK ==
  ASSUME TypeOK, ContextsOK, NEW i \in 0 .. Reserved, NEW code \in Codes, New(i, code)
  PROVE  \E c, cost : CallOK(c, cost)
<1>. DEFINE created(id) == Put(Paid(x.state.accounts, Floor), id, NewAccount(code))
<1>1. running # None /\ Own.balance - Floor >= Floor /\ 1 \in Int
  BY DEF New, Calling
<1>2. /\ x \in AllContexts /\ x.transfers \in Seq(Deferred) /\ IsFree(x)
      /\ AccountsOK(x.state.accounts) /\ running \in DOMAIN x.state.accounts
      /\ Own.balance \in Nat
  BY <1>1, RunningContext
<1>3. x.next \in Public \ DOMAIN x.state.accounts /\ Public \subseteq Ids
  BY <1>2, ConstantsAssumption DEF IsFree, Public, Ids
<1>4. ASSUME NEW k \in Ids PROVE DOMAIN created(k) = DOMAIN x.state.accounts \cup {k}
  BY DEF Put, Paid
<1>5. CASE /\ i < Reserved /\ i \notin DOMAIN x.state.accounts
           /\ Becoming([x EXCEPT !.state.accounts = created(i)], 1)
           /\ doubled' = (doubled \/ i \in DOMAIN e.accounts)
  <2>1. i \in Ids \ DOMAIN x.state.accounts /\ i \notin Public
    BY <1>5, ConstantsAssumption DEF Ids, Public
  <2>2. PICK a : a = created(i)
    OBVIOUS
  <2>3. DOMAIN a = DOMAIN x.state.accounts \cup {i}
    BY <1>4, <2>1, <2>2
  <2>4. x.next \in Public \ DOMAIN a
    BY <1>3, <2>1, <2>3
  <2>. DEFINE c == With(x, a, x.next, x.transfers)
  <2>5. CtxOK(c, running) /\ Creates(x, c, running, i)
    BY <1>1, <2>1, <2>2, <2>4, CreatedIs
  <2>6. Becoming(c, 1)
    <3>1. Becoming([x EXCEPT !.state.accounts = a], 1)
      BY <1>5, <2>2
    <3>2. [x EXCEPT !.state.accounts = a] = c
      BY <1>2, ContextAccounts
    <3>. HIDE DEF c
    <3>. QED
      BY <3>1, <3>2
  <2>. HIDE DEF c
  <2>7. ~doubled' => ~doubled /\ Moves(x, c, running)
    BY <1>5, <2>1, <2>5 DEF Moves
  <2>8. CallOK(c, 1)
    BY <1>1, <2>5, <2>6, <2>7 DEF CallOK
  <2>. QED
    BY <2>8
<1>6. CASE /\ RoomFor(created(x.next))
           /\ Becoming([x EXCEPT !.state.accounts = created(x.next),
                                 !.next = CheckFn(Offset(x.next, 1), x.state.accounts)], 1)
           /\ doubled' = (doubled \/ x.next \in DOMAIN e.accounts)
  <2>1. PICK k : k = x.next
    OBVIOUS
  <2>2. k \in Ids \ DOMAIN x.state.accounts /\ k \in Public
    BY <1>3, <2>1
  <2>3. PICK a : a = created(k)
    OBVIOUS
  <2>4. DOMAIN a = DOMAIN x.state.accounts \cup {k}
    BY <1>4, <2>2, <2>3
  <2>5. PICK n : n = CheckFn(Offset(k, 1), x.state.accounts)
    OBVIOUS
  <2>6. Public \ DOMAIN a # {}
    BY <1>6, <2>1, <2>3 DEF RoomFor
  <2>7. n \in Public \ DOMAIN a
    BY <2>2, <2>4, <2>5, <2>6, CheckFnFindsAnother
  <2>. DEFINE c == With(x, a, n, x.transfers)
  <2>8. CtxOK(c, running) /\ Creates(x, c, running, k)
    BY <1>1, <2>2, <2>3, <2>7, CreatedIs
  <2>9. Becoming(c, 1)
    <3>1. Becoming([x EXCEPT !.state.accounts = a, !.next = n], 1)
      BY <1>6, <2>1, <2>3, <2>5
    <3>2. [x EXCEPT !.state.accounts = a, !.next = n] = c
      BY <1>2, ContextNext
    <3>. HIDE DEF c
    <3>. QED
      BY <3>1, <3>2
  <2>. HIDE DEF c
  <2>10. ~doubled' => ~doubled /\ Moves(x, c, running)
    BY <1>6, <2>1, <2>2, <2>8 DEF Moves
  <2>11. CallOK(c, 1)
    BY <1>1, <2>8, <2>9, <2>10 DEF CallOK
  <2>. QED
    BY <2>11
<1>. QED
  BY <1>5, <1>6 DEF New

(* an upgrade,                                                             *)
LEMMA UpgradeOK ==
  ASSUME TypeOK, ContextsOK, NEW code \in Codes, Upgrade(code)
  PROVE  \E c, cost : CallOK(c, cost)
<1>1. running # None /\ 1 \in Int
  BY DEF Upgrade, Calling
<1>2. /\ x \in AllContexts /\ x.transfers \in Seq(Deferred) /\ IsFree(x) /\ x.next \in Public
      /\ AccountsOK(x.state.accounts) /\ running \in DOMAIN x.state.accounts
      /\ Own.balance \in Nat
  BY <1>1, RunningContext
<1>3. PICK s : s = running
  OBVIOUS
<1>4. PICK b : b = x.state.accounts
  OBVIOUS
<1>5. PICK a : a = [b EXCEPT ![s].code = code]
  OBVIOUS
<1>6. /\ AccountsOK(a) /\ DOMAIN a = DOMAIN b
      /\ \A i \in DOMAIN b : a[i].balance = b[i].balance
  <2>1. s \in DOMAIN b /\ AccountsOK(b) /\ code \in Ids \cup {Runs}
    BY <1>2, <1>3, <1>4, GenesisAssumption
  <2>. DEFINE c0 == [b EXCEPT ![s].code = code]
  <2>2. /\ AccountsOK(c0) /\ DOMAIN c0 = DOMAIN b
        /\ \A i \in DOMAIN b : c0[i].balance = b[i].balance
    BY <2>1, UpgradedIs
  <2>. HIDE DEF c0
  <2>. QED
    BY <1>5, <2>2 DEF c0
<1>7. \A i \in DOMAIN b : i # s => a[i] = b[i]
  BY <1>5
<1>. DEFINE c == With(x, a, x.next, x.transfers)
<1>8. c \in AllContexts /\ c.state.accounts = a /\ c.next = x.next /\ c.transfers = x.transfers
  BY <1>2, <1>6, ContextWith
<1>9. Becoming(c, 1) /\ doubled' = doubled
  <2>1. Becoming([x EXCEPT !.state.accounts[running].code = code], 1) /\ doubled' = doubled
    BY DEF Upgrade, Becomes
  <2>2. [x EXCEPT !.state.accounts[running].code = code] = [x EXCEPT !.state.accounts = a]
    BY <1>3, <1>4, <1>5
  <2>3. [x EXCEPT !.state.accounts = a] = c
    BY <1>2, ContextAccounts
  <2>. HIDE DEF c
  <2>. QED
    BY <2>1, <2>2, <2>3
<1>. HIDE DEF c
<1>10. CtxOK(c, running)
  BY <1>2, <1>4, <1>6, <1>8 DEF CtxOK, IsFree
<1>11. Pays(x, c, running)
  <2>1. SameOthers(b, a, s, s)
    BY <1>7 DEF SameOthers
  <2>2. a[s].balance = b[s].balance /\ b[s].balance \in Nat
    BY <1>2, <1>3, <1>4, <1>6 DEF Own
  <2>3. InFlight(c.transfers) = InFlight(x.transfers) /\ InFlight(x.transfers) \in Nat
    BY <1>2, <1>8, InFlightNat
  <2>4. b[s].balance - a[s].balance = InFlight(c.transfers) - InFlight(x.transfers)
    BY <2>2, <2>3
  <2>. QED
    BY <1>3, <1>4, <1>6, <1>8, <2>1, <2>4 DEF Pays
<1>12. CallOK(c, 1)
  BY <1>1, <1>9, <1>10, <1>11 DEF CallOK, Moves
<1>. QED
  BY <1>12

(* and an ejection.                                                        *)
LEMMA EjectOK ==
  ASSUME TypeOK, ContextsOK, NEW d \in Ids, Eject(d)
  PROVE  \E c, cost : CallOK(c, cost)
<1>1. /\ running # None /\ 1 \in Int
      /\ d \in DOMAIN x.state.accounts /\ x.state.accounts[d].code = running
  BY DEF Eject, Calling
<1>2. /\ x \in AllContexts /\ x.transfers \in Seq(Deferred) /\ IsFree(x) /\ x.next \in Public
      /\ AccountsOK(x.state.accounts) /\ running \in DOMAIN x.state.accounts
      /\ running \in Ids /\ Own.balance \in Nat
  BY <1>1, RunningContext
<1>3. PICK s \in Ids : s = running
  BY <1>2
<1>4. PICK b : b = x.state.accounts
  OBVIOUS
<1>5. b[d].balance \in Nat /\ b[s].balance \in Nat /\ AccountsOK(b) /\ s \in DOMAIN b /\ d \in DOMAIN b
  BY <1>1, <1>2, <1>3, <1>4, AccountParts DEF AccountsOK
<1>6. PICK p : p = Paid(b, -b[d].balance)
  OBVIOUS
<1>7. /\ AccountsOK(p) /\ DOMAIN p = DOMAIN b
      /\ p[s].balance = b[s].balance + b[d].balance
      /\ \A i \in DOMAIN b : i # s => p[i] = b[i]
  <2>1. PICK m \in Int : m = -b[d].balance
    BY <1>5
  <2>2. b[s].balance - m \in Nat /\ b[s].balance - m = b[s].balance + b[d].balance
    BY <1>5, <2>1
  <2>3. /\ AccountsOK(Paid(b, m)) /\ DOMAIN Paid(b, m) = DOMAIN b
        /\ Paid(b, m)[running].balance = b[running].balance - m
        /\ \A i \in DOMAIN b : i # running => Paid(b, m)[i] = b[i]
    BY <1>3, <1>5, <2>1, <2>2, PaidIs
  <2>. QED
    BY <1>3, <1>6, <2>1, <2>2, <2>3
<1>8. PICK w : w = Without(p, d)
  OBVIOUS
<1>9. /\ AccountsOK(w) /\ DOMAIN w = DOMAIN b \ {d}
      /\ \A i \in DOMAIN b \ {d} : w[i] = p[i]
  BY <1>7, <1>8, WithoutIs
<1>10. PICK a : a = Put(w, s, p[s])
  OBVIOUS
<1>11. p[s] \in Accounts
  BY <1>5, <1>7 DEF AccountsOK
<1>12. /\ AccountsOK(a) /\ DOMAIN a = (DOMAIN b \ {d}) \cup {s} /\ a[s] = p[s]
       /\ \A i \in DOMAIN b \ {d} : i # s => a[i] = b[i]
  <2>1. /\ AccountsOK(a) /\ DOMAIN a = DOMAIN w \cup {s} /\ a[s] = p[s]
        /\ \A i \in DOMAIN w : i # s => a[i] = w[i]
    BY <1>9, <1>10, <1>11, PutIs
  <2>. QED
    BY <1>7, <1>9, <2>1
<1>. DEFINE c == With(x, a, x.next, x.transfers)
<1>13. c \in AllContexts /\ c.state.accounts = a /\ c.next = x.next /\ c.transfers = x.transfers
  BY <1>2, <1>12, ContextWith
<1>14. Becoming(c, 1) /\ doubled' = (doubled \/ d = running)
  <2>1. Becoming([x EXCEPT !.state.accounts = a], 1) /\ doubled' = (doubled \/ d = running)
    BY <1>3, <1>4, <1>6, <1>8, <1>10 DEF Eject
  <2>2. [x EXCEPT !.state.accounts = a] = c
    BY <1>2, ContextAccounts
  <2>. HIDE DEF c
  <2>. QED
    BY <2>1, <2>2
<1>. HIDE DEF c
<1>15. CtxOK(c, running)
  BY <1>2, <1>3, <1>4, <1>12, <1>13 DEF CtxOK, IsFree
<1>16. CASE d = running
  <2>1. doubled'
    BY <1>14, <1>16
  <2>2. CallOK(c, 1)
    BY <1>1, <1>14, <1>15, <2>1 DEF CallOK
  <2>. QED
    BY <2>2
<1>17. CASE d # running
  <2>1. SameOthers(b, a, s, d)
    BY <1>12 DEF SameOthers
  <2>2. DOMAIN a = DOMAIN b \ {d}
    BY <1>3, <1>5, <1>12, <1>17
  <2>3. Ejects(x, c, running, d)
    BY <1>1, <1>3, <1>4, <1>7, <1>12, <1>13, <1>17, <2>1, <2>2 DEF Ejects
  <2>4. ~doubled' => ~doubled
    BY <1>14
  <2>5. Moves(x, c, running)
    BY <2>3 DEF Moves
  <2>6. CallOK(c, 1)
    BY <1>1, <1>14, <1>15, <2>4, <2>5 DEF CallOK
  <2>. QED
    BY <2>6
<1>. QED
  BY <1>16, <1>17

(* A context whose state differs in a privilege: the money is as it was.   *)
SameMoney(c, d) ==
  /\ d \in AllContexts /\ d.state.accounts = c.state.accounts
  /\ d.next = c.next /\ d.transfers = c.transfers

(* A context that differs in another part of the state than the accounts.  *)
LEMMA SameMoneyBy ==
  ASSUME NEW c \in AllContexts, NEW st \in AllStates, st.accounts = c.state.accounts
  PROVE  SameMoney(c, [c EXCEPT !.state = st])
<1>. DEFINE d == [c EXCEPT !.state = st]
<1>1. d \in AllContexts /\ d.state = st /\ d.next = c.next /\ d.transfers = c.transfers
  BY ContextWithState
<1>. HIDE DEF d
<1>2. SameMoney(c, d)
  BY <1>1 DEF SameMoney
<1>. QED
  BY <1>2 DEF d

LEMMA WithManager ==
  ASSUME NEW c \in AllContexts, NEW v, v \in Ids
  PROVE  SameMoney(c, [c EXCEPT !.state.manager = v])
<1>1. PICK s : s = c.state
  OBVIOUS
<1>2. PICK ids \in SUBSET Ids, freeIds \in SUBSET Ids : s \in States(ids, freeIds)
  BY <1>1, ContextParts DEF AllStates
<1>3. PICK st : st = [s EXCEPT !.manager = v]
  OBVIOUS
<1>4. st \in States(ids, freeIds) /\ st.accounts = s.accounts
  BY <1>2, <1>3 DEF States
<1>5. st \in AllStates
  BY <1>4 DEF AllStates
<1>6. [c EXCEPT !.state.manager = v] = [c EXCEPT !.state = st]
  BY <1>1, <1>3
<1>. QED
  BY <1>1, <1>4, <1>5, <1>6, SameMoneyBy

LEMMA WithAssigners ==
  ASSUME NEW c \in AllContexts, NEW v, v \in [Cores -> Ids]
  PROVE  SameMoney(c, [c EXCEPT !.state.assigners = v])
<1>1. PICK s : s = c.state
  OBVIOUS
<1>2. PICK ids \in SUBSET Ids, freeIds \in SUBSET Ids : s \in States(ids, freeIds)
  BY <1>1, ContextParts DEF AllStates
<1>3. PICK st : st = [s EXCEPT !.assigners = v]
  OBVIOUS
<1>4. st \in States(ids, freeIds) /\ st.accounts = s.accounts
  BY <1>2, <1>3 DEF States
<1>5. st \in AllStates
  BY <1>4 DEF AllStates
<1>6. [c EXCEPT !.state.assigners = v] = [c EXCEPT !.state = st]
  BY <1>1, <1>3
<1>. QED
  BY <1>1, <1>4, <1>5, <1>6, SameMoneyBy

LEMMA WithDelegator ==
  ASSUME NEW c \in AllContexts, NEW v, v \in Ids
  PROVE  SameMoney(c, [c EXCEPT !.state.delegator = v])
<1>1. PICK s : s = c.state
  OBVIOUS
<1>2. PICK ids \in SUBSET Ids, freeIds \in SUBSET Ids : s \in States(ids, freeIds)
  BY <1>1, ContextParts DEF AllStates
<1>3. PICK st : st = [s EXCEPT !.delegator = v]
  OBVIOUS
<1>4. st \in States(ids, freeIds) /\ st.accounts = s.accounts
  BY <1>2, <1>3 DEF States
<1>5. st \in AllStates
  BY <1>4 DEF AllStates
<1>6. [c EXCEPT !.state.delegator = v] = [c EXCEPT !.state = st]
  BY <1>1, <1>3
<1>. QED
  BY <1>1, <1>4, <1>5, <1>6, SameMoneyBy

LEMMA WithRegistrar ==
  ASSUME NEW c \in AllContexts, NEW v, v \in Ids
  PROVE  SameMoney(c, [c EXCEPT !.state.registrar = v])
<1>1. PICK s : s = c.state
  OBVIOUS
<1>2. PICK ids \in SUBSET Ids, freeIds \in SUBSET Ids : s \in States(ids, freeIds)
  BY <1>1, ContextParts DEF AllStates
<1>3. PICK st : st = [s EXCEPT !.registrar = v]
  OBVIOUS
<1>4. st \in States(ids, freeIds) /\ st.accounts = s.accounts
  BY <1>2, <1>3 DEF States
<1>5. st \in AllStates
  BY <1>4 DEF AllStates
<1>6. [c EXCEPT !.state.registrar = v] = [c EXCEPT !.state = st]
  BY <1>1, <1>3
<1>. QED
  BY <1>1, <1>4, <1>5, <1>6, SameMoneyBy

LEMMA WithQueue ==
  ASSUME NEW c \in AllContexts, NEW v, v \in [Cores -> Values]
  PROVE  SameMoney(c, [c EXCEPT !.state.queue = v])
<1>1. PICK s : s = c.state
  OBVIOUS
<1>2. PICK ids \in SUBSET Ids, freeIds \in SUBSET Ids : s \in States(ids, freeIds)
  BY <1>1, ContextParts DEF AllStates
<1>3. PICK st : st = [s EXCEPT !.queue = v]
  OBVIOUS
<1>4. st \in States(ids, freeIds) /\ st.accounts = s.accounts
  BY <1>2, <1>3 DEF States
<1>5. st \in AllStates
  BY <1>4 DEF AllStates
<1>6. [c EXCEPT !.state.queue = v] = [c EXCEPT !.state = st]
  BY <1>1, <1>3
<1>. QED
  BY <1>1, <1>4, <1>5, <1>6, SameMoneyBy

LEMMA WithStaging ==
  ASSUME NEW c \in AllContexts, NEW v, v \in Values
  PROVE  SameMoney(c, [c EXCEPT !.state.staging = v])
<1>1. PICK s : s = c.state
  OBVIOUS
<1>2. PICK ids \in SUBSET Ids, freeIds \in SUBSET Ids : s \in States(ids, freeIds)
  BY <1>1, ContextParts DEF AllStates
<1>3. PICK st : st = [s EXCEPT !.staging = v]
  OBVIOUS
<1>4. st \in States(ids, freeIds) /\ st.accounts = s.accounts
  BY <1>2, <1>3 DEF States
<1>5. st \in AllStates
  BY <1>4 DEF AllStates
<1>6. [c EXCEPT !.state.staging = v] = [c EXCEPT !.state = st]
  BY <1>1, <1>3
<1>. QED
  BY <1>1, <1>4, <1>5, <1>6, SameMoneyBy

LEMMA WithAlways ==
  ASSUME NEW c \in AllContexts, NEW v, FreeOK(v)
  PROVE  SameMoney(c, [c EXCEPT !.state.always = v])
<1>1. PICK s : s = c.state
  OBVIOUS
<1>2. PICK ids \in SUBSET Ids, freeIds \in SUBSET Ids : s \in States(ids, freeIds)
  BY <1>1, ContextParts DEF AllStates
<1>3. PICK st : st = [s EXCEPT !.always = v]
  OBVIOUS
<1>4. st \in States(ids, DOMAIN v) /\ st.accounts = s.accounts
  BY <1>2, <1>3 DEF States, FreeOK
<1>5. st \in AllStates
  BY <1>4 DEF AllStates, FreeOK
<1>6. [c EXCEPT !.state.always = v] = [c EXCEPT !.state = st]
  BY <1>1, <1>3
<1>. QED
  BY <1>1, <1>4, <1>5, <1>6, SameMoneyBy

LEMMA SameMoneyAgain ==
  ASSUME NEW c, NEW d, NEW f, SameMoney(c, d), SameMoney(d, f)
  PROVE  SameMoney(c, f)
BY DEF SameMoney

(* A call that moves no money.                                             *)
LEMMA PrivilegeOK ==
  ASSUME TypeOK, ContextsOK, running # None, NEW c, SameMoney(x, c),
         Becomes(c, 1)
  PROVE  \E d, cost : CallOK(d, cost)
<1>1. /\ x \in AllContexts /\ x.transfers \in Seq(Deferred) /\ IsFree(x)
      /\ running \in DOMAIN x.state.accounts /\ Own.balance \in Nat
  BY RunningContext
<1>2. CtxOK(c, running)
  BY <1>1 DEF CtxOK, IsFree, SameMoney
<1>3. InFlight(c.transfers) = InFlight(x.transfers) /\ InFlight(x.transfers) \in Nat
  BY <1>1, InFlightNat DEF SameMoney
<1>4. /\ c.state.accounts[running].balance = x.state.accounts[running].balance
      /\ x.state.accounts[running].balance \in Nat
  BY <1>1 DEF SameMoney, Own
<1>5. SameOthers(x.state.accounts, c.state.accounts, running, running)
  BY DEF SameMoney, SameOthers
<1>6. Pays(x, c, running)
  BY <1>3, <1>4, <1>5 DEF Pays, SameMoney
<1>7. CallOK(c, 1)
  BY <1>2, <1>6 DEF CallOK, Moves, Becomes
<1>. QED
  BY <1>7

(* The calls of the privileged leave contexts that CallOK describes:       *)
(* bless,                                                                  *)
LEMMA BlessOK ==
  ASSUME TypeOK, ContextsOK, Bless
  PROVE  \E c, cost : CallOK(c, cost)
<1>1. PICK m \in Holders, v \in Holders, r \in Holders, a \in [Cores -> Holders],
           z \in {e.always, << >>} :
        Becomes([x EXCEPT !.state.manager = m, !.state.assigners = a, !.state.delegator = v,
                          !.state.registrar = r, !.state.always = z], 1)
  BY DEF Bless
<1>2. /\ m \in Ids /\ v \in Ids /\ r \in Ids /\ a \in [Cores -> Ids]
  BY ConstantsAssumption DEF Ids
<1>3. FreeOK(z)
  <2>1. FreeOK(e.always)
    BY StateParts DEF TypeOK
  <2>2. FreeOK(<< >>)
    BY DEF FreeOK
  <2>. QED
    BY <2>1, <2>2
<1>4. running # None
  BY DEF Bless, Calling
<1>5. PICK c0 : c0 = x
  OBVIOUS
<1>6. PICK c1 : c1 = [c0 EXCEPT !.state.manager = m]
  OBVIOUS
<1>7. PICK c2 : c2 = [c1 EXCEPT !.state.assigners = a]
  OBVIOUS
<1>8. PICK c3 : c3 = [c2 EXCEPT !.state.delegator = v]
  OBVIOUS
<1>9. PICK c4 : c4 = [c3 EXCEPT !.state.registrar = r]
  OBVIOUS
<1>10. PICK c5 : c5 = [c4 EXCEPT !.state.always = z]
  OBVIOUS
<1>11. c0 \in AllContexts
  BY <1>4, <1>5, RunningContext
<1>12. SameMoney(c0, c1)
  BY <1>2, <1>6, <1>11, WithManager
<1>13. SameMoney(c0, c2)
  <2>. c1 \in AllContexts
    BY <1>12 DEF SameMoney
  <2>. QED
    BY <1>2, <1>7, <1>12, WithAssigners, SameMoneyAgain
<1>14. SameMoney(c0, c3)
  <2>. c2 \in AllContexts
    BY <1>13 DEF SameMoney
  <2>. QED
    BY <1>2, <1>8, <1>13, WithDelegator, SameMoneyAgain
<1>15. SameMoney(c0, c4)
  <2>. c3 \in AllContexts
    BY <1>14 DEF SameMoney
  <2>. QED
    BY <1>2, <1>9, <1>14, WithRegistrar, SameMoneyAgain
<1>16. SameMoney(c0, c5)
  <2>. c4 \in AllContexts
    BY <1>15 DEF SameMoney
  <2>. QED
    BY <1>3, <1>10, <1>15, WithAlways, SameMoneyAgain
<1>17. [c0 EXCEPT !.state.manager = m, !.state.assigners = a, !.state.delegator = v,
                  !.state.registrar = r, !.state.always = z] = c5
  BY <1>6, <1>7, <1>8, <1>9, <1>10
<1>. QED
  BY <1>1, <1>4, <1>5, <1>16, <1>17, PrivilegeOK

(* assign,                                                                 *)
LEMMA AssignOK ==
  ASSUME TypeOK, ContextsOK, NEW core \in Cores, NEW q \in Values, NEW a \in Holders,
         Assign(core, q, a)
  PROVE  \E c, cost : CallOK(c, cost)
<1>1. /\ running # None
      /\ Becomes([x EXCEPT !.state.queue[core] = q, !.state.assigners[core] = a], 1)
  BY DEF Assign, Calling
<1>2. PICK c0 : c0 = x
  OBVIOUS
<1>3. PICK qs : qs = [c0.state.queue EXCEPT ![core] = q]
  OBVIOUS
<1>4. PICK as : as = [c0.state.assigners EXCEPT ![core] = a]
  OBVIOUS
<1>5. c0 \in AllContexts /\ c0.state \in AllStates
  BY <1>1, <1>2, RunningContext
<1>6. a \in Ids
  BY ConstantsAssumption DEF Ids
<1>7. qs \in [Cores -> Values] /\ as \in [Cores -> Ids]
  <2>. c0.state.queue \in [Cores -> Values] /\ c0.state.assigners \in [Cores -> Ids]
    BY <1>5, StateParts
  <2>. QED
    BY <1>3, <1>4, <1>6
<1>8. PICK c1 : c1 = [c0 EXCEPT !.state.queue = qs]
  OBVIOUS
<1>9. PICK c2 : c2 = [c1 EXCEPT !.state.assigners = as]
  OBVIOUS
<1>10. SameMoney(c0, c1)
  BY <1>5, <1>7, <1>8, WithQueue
<1>11. SameMoney(c0, c2)
  <2>. c1 \in AllContexts
    BY <1>10 DEF SameMoney
  <2>. QED
    BY <1>7, <1>9, <1>10, WithAssigners, SameMoneyAgain
<1>12. [c0 EXCEPT !.state.queue[core] = q, !.state.assigners[core] = a] = c2
  <2>1. c1.state.assigners = c0.state.assigners
    <3>1. PICK s : s = c0.state
      OBVIOUS
    <3>2. PICK st : st = [s EXCEPT !.queue = qs]
      OBVIOUS
    <3>3. st.assigners = s.assigners
      <4>1. PICK ids \in SUBSET Ids, freeIds \in SUBSET Ids : s \in States(ids, freeIds)
        BY <1>5, <3>1 DEF AllStates
      <4>. QED
        BY <3>2, <4>1 DEF States
    <3>4. c1 = [c0 EXCEPT !.state = st]
      BY <1>8, <3>1, <3>2
    <3>5. c1.state = st
      BY <1>5, <3>4, ContextParts
    <3>. QED
      BY <3>1, <3>3, <3>5
  <2>2. [c0 EXCEPT !.state.queue[core] = q] = c1
    BY <1>3, <1>8
  <2>3. [c0 EXCEPT !.state.queue[core] = q, !.state.assigners[core] = a]
          = [[c0 EXCEPT !.state.queue[core] = q] EXCEPT !.state.assigners[core] = a]
    OBVIOUS
  <2>4. [c1 EXCEPT !.state.assigners[core] = a] = c2
    BY <1>4, <1>9, <2>1
  <2>. QED
    BY <2>2, <2>3, <2>4
<1>. QED
  BY <1>1, <1>2, <1>11, <1>12, PrivilegeOK

(* and designate.                                                          *)
LEMMA DesignateOK ==
  ASSUME TypeOK, ContextsOK, NEW v \in Values, Designate(v)
  PROVE  \E c, cost : CallOK(c, cost)
<1>1. running # None /\ Becomes([x EXCEPT !.state.staging = v], 1)
  BY DEF Designate, Calling
<1>2. PICK c0 : c0 = x
  OBVIOUS
<1>3. c0 \in AllContexts
  BY <1>1, <1>2, RunningContext
<1>4. SameMoney(c0, [c0 EXCEPT !.state.staging = v])
  BY <1>3, WithStaging
<1>. QED
  BY <1>1, <1>2, <1>4, PrivilegeOK

-----------------------------------------------------------------------------
(* Types and contexts in every step.                                       *)

(* A credit changes one balance, by what was sent.                         *)
LEMMA CreditedIs ==
  ASSUME e \in AllStates, transfers \in Seq(Deferred), NEW s
  PROVE  LET b == e.accounts  c == Credited(s).accounts
         IN /\ Credited(s) \in AllStates
            /\ DOMAIN c = DOMAIN b
            /\ \A i \in DOMAIN b : c[i].code = b[i].code
            /\ \A i \in DOMAIN b : i # s => c[i] = b[i]
            /\ s \in DOMAIN b => c[s].balance = b[s].balance + AmountTo(s)
<1>1. AccountsOK(e.accounts)
  BY StateParts
<1>2. CASE s \notin DOMAIN e.accounts
  BY <1>2 DEF Credited
<1>3. CASE s \in DOMAIN e.accounts
  <2>1. PICK b : b = e.accounts
    OBVIOUS
  <2>2. PICK n : n = b[s].balance + AmountTo(s)
    OBVIOUS
  <2>3. n \in Nat
    <3>1. b[s].balance \in Nat
      BY <1>1, <1>3, <2>1, AccountParts DEF AccountsOK
    <3>2. AmountTo(s) \in Nat
      BY AmountToNat
    <3>. QED
      BY <2>2, <3>1, <3>2
  <2>. DEFINE c == [b EXCEPT ![s].balance = n]
  <2>4. /\ AccountsOK(c) /\ DOMAIN c = DOMAIN b
        /\ c[s].balance = n /\ c[s].code = b[s].code
        /\ \A i \in DOMAIN b : i # s => c[i] = b[i]
    BY <1>1, <1>3, <2>1, <2>3, BalanceIs
  <2>5. Credited(s) = [e EXCEPT !.accounts = c]
    <3>1. Credited(s) = [e EXCEPT !.accounts[s].balance = @ + AmountTo(s)]
      BY <1>3 DEF Credited
    <3>. QED
      BY <2>1, <2>2, <3>1
  <2>. HIDE DEF c
  <2>6. Credited(s) \in AllStates /\ Credited(s).accounts = c
    BY <2>4, <2>5, WithAccounts
  <2>7. \A i \in DOMAIN b : c[i].code = b[i].code
    BY <2>4
  <2>. QED
    BY <2>1, <2>2, <2>4, <2>6, <2>7
<1>. QED
  BY <1>2, <1>3

(* An account of the merge is one of the round or of its last writer's.    *)
LEMMA WritersIn ==
  ASSUME results \in Seq(AllOutcomes), NEW k, Writers(k) # {}
  PROVE  /\ Max(Writers(k)) \in Writers(k) /\ Max(Writers(k)) \in DOMAIN results
         /\ k \in DOMAIN results[Max(Writers(k))].state.accounts
         /\ results[Max(Writers(k))] \in AllOutcomes
<1>1. /\ DOMAIN results = 1 .. Len(results) /\ Len(results) \in Nat
      /\ \A i \in DOMAIN results : results[i] \in AllOutcomes
  BY SeqParts
<1>2. Writers(k) \in SUBSET (0 .. Len(results)) /\ Writers(k) \subseteq DOMAIN results
  BY <1>1 DEF Writers
<1>3. Max(Writers(k)) \in Writers(k)
  BY <1>1, <1>2, GreatestElement
<1>. QED
  BY <1>1, <1>2, <1>3 DEF Writers

(* What an outcome is made of.                                             *)
LEMMA OutcomeParts ==
  ASSUME NEW r \in AllOutcomes
  PROVE  /\ r.id \in Ids /\ r.state \in AllStates /\ r.transfers \in Seq(Deferred)
         /\ r.used \in Int /\ AccountsOK(r.state.accounts)
BY StateParts DEF AllOutcomes

(* The accounts after the merge are accounts, and the state is a state.    *)
LEMMA MergedAccountsType ==
  ASSUME e \in AllStates, results \in Seq(AllOutcomes)
  PROVE  AccountsOK(MergedAccounts)
<1>1. AccountsOK(e.accounts)
  BY StateParts
<1>. DEFINE M == {i \in Ids : i \in DOMAIN e.accounts \/ Writers(i) # {}} \ Removed
            v(k) == IF Writers(k) = {} THEN e.accounts[k]
                    ELSE results[Max(Writers(k))].state.accounts[k]
<1>2. ASSUME NEW k \in M PROVE v(k) \in Accounts
  <2>1. CASE Writers(k) = {}
    BY <1>1, <1>2, <2>1 DEF AccountsOK
  <2>2. CASE Writers(k) # {}
    <3>1. /\ k \in DOMAIN results[Max(Writers(k))].state.accounts
          /\ AccountsOK(results[Max(Writers(k))].state.accounts)
      BY <2>2, WritersIn, OutcomeParts
    <3>. QED
      BY <2>2, <3>1 DEF AccountsOK
  <2>. QED
    BY <2>1, <2>2
<1>3. MergedAccounts = [k \in M |-> v(k)]
  BY DEF MergedAccounts
<1>4. M \in SUBSET Ids
  OBVIOUS
<1>. HIDE DEF M, v
<1>. QED
  BY <1>2, <1>3, <1>4 DEF AccountsOK

LEMMA MergedType ==
  ASSUME e \in AllStates, results \in Seq(AllOutcomes)
  PROVE  Merged \in AllStates
<1>. DEFINE m == After(e.manager)
            a == [c \in Cores |-> Decided(e.assigners[c], m.assigners[c],
                                          After(e.assigners[c]).assigners[c])]
            q == [c \in Cores |-> After(e.assigners[c]).queue[c]]
            d == Decided(e.delegator, m.delegator, After(e.delegator).delegator)
            r == Decided(e.registrar, m.registrar, After(e.registrar).registrar)
<1>1. \A s : After(s) \in AllStates
  BY AfterIs
<1>2. /\ m.manager \in Ids /\ FreeOK(m.always) /\ m.delegator \in Ids /\ m.registrar \in Ids
      /\ m.assigners \in [Cores -> Ids]
  BY <1>1, StateParts
<1>3. ASSUME NEW c \in Cores
      PROVE  /\ a[c] \in Ids /\ q[c] \in Values
  <2>1. After(e.assigners[c]) \in AllStates
    BY <1>1
  <2>2. /\ After(e.assigners[c]).assigners \in [Cores -> Ids]
        /\ After(e.assigners[c]).queue \in [Cores -> Values]
    BY <2>1, StateParts
  <2>. HIDE DEF m
  <2>. QED
    BY <1>2, <2>2 DEF Decided
<1>4. d \in Ids
  <2>1. After(e.delegator).delegator \in Ids
    BY <1>1, StateParts
  <2>. HIDE DEF m
  <2>. QED
    BY <1>2, <2>1 DEF Decided
<1>5. r \in Ids
  <2>1. After(e.registrar).registrar \in Ids
    BY <1>1, StateParts
  <2>. HIDE DEF m
  <2>. QED
    BY <1>2, <2>1 DEF Decided
<1>6. After(e.delegator).staging \in Values
  BY <1>1, StateParts
<1>7. a \in [Cores -> Ids] /\ q \in [Cores -> Values]
  BY <1>3
<1>8. AccountsOK(MergedAccounts)
  BY MergedAccountsType
<1>9. Merged = [accounts |-> MergedAccounts, manager |-> m.manager, assigners |-> a,
                delegator |-> d, registrar |-> r, always |-> m.always,
                staging |-> After(e.delegator).staging, queue |-> q]
  BY DEF Merged
<1>. HIDE DEF m, a, q, d, r
<1>. QED
  BY <1>2, <1>4, <1>5, <1>6, <1>7, <1>8, <1>9, StateOf

TypeInv == TypeOK /\ ContextsOK

(* Every host call is a checkpoint, or leaves a context that CallOK        *)
(* describes.                                                              *)
LEMMA HostCallOK ==
  ASSUME TypeInv, HostCall
  PROVE  Checkpoint \/ \E c, cost : CallOK(c, cost)
<1>. TypeOK /\ ContextsOK
  BY DEF TypeInv
<1>1. ASSUME NEW to \in Ids, NEW amount \in Amounts, NEW l \in Gases,
             Transfer(to, amount, l)
      PROVE  \E c, cost : CallOK(c, cost)
  BY <1>1, TransferOK
<1>2. ASSUME NEW i \in 0 .. Reserved, NEW code \in Codes, New(i, code)
      PROVE  \E c, cost : CallOK(c, cost)
  BY <1>2, NewOK
<1>3. ASSUME NEW code \in Codes, Upgrade(code)
      PROVE  \E c, cost : CallOK(c, cost)
  BY <1>3, UpgradeOK
<1>4. ASSUME NEW d \in Ids, Eject(d)
      PROVE  \E c, cost : CallOK(c, cost)
  BY <1>4, EjectOK
<1>5. ASSUME Bless
      PROVE  \E c, cost : CallOK(c, cost)
  BY <1>5, BlessOK
<1>6. ASSUME NEW core \in Cores, NEW q \in Values, NEW a \in Holders, Assign(core, q, a)
      PROVE  \E c, cost : CallOK(c, cost)
  BY <1>6, AssignOK
<1>7. ASSUME NEW v \in Values, Designate(v)
      PROVE  \E c, cost : CallOK(c, cost)
  BY <1>7, DesignateOK
<1>. QED
  BY <1>1, <1>2, <1>3, <1>4, <1>5, <1>6, <1>7 DEF HostCall

(* Types in the first state, and in every step.                            *)
LEMMA TypeInvInit ==
  ASSUME Init
  PROVE  TypeInv
<1>1. e \in AllStates
  <2>1. PICK ids \in SUBSET Ids, freeIds \in SUBSET Ids : e \in States(ids, freeIds)
    BY GenesisAssumption DEF Init, IsState
  <2>. QED
    BY <2>1 DEF AllStates
<1>2. before \in [funds : Nat, free : Nat]
  <2>1. AccountsOK(e.accounts) /\ FreeOK(e.always)
    BY <1>1, StateParts
  <2>2. Total(e.accounts) \in Nat /\ AlwaysGas(e) \in Nat
    BY <2>1, TotalNat, AlwaysGasNat
  <2>. QED
    BY <2>2 DEF Init
<1>3. FreeOK(<< >>)
  BY DEF FreeOK
<1>4. /\ reports = << >> /\ transfers = << >> /\ works = << >> /\ results = << >>
      /\ inBlock = FALSE /\ height = 0 /\ inRound = FALSE /\ free = << >> /\ todo = {}
      /\ running = None /\ gas = 0 /\ limit = 0
  BY DEF Init
<1>5. /\ reports \in Seq(Work) /\ transfers \in Seq(Deferred) /\ works \in Seq(Work)
      /\ results \in Seq(AllOutcomes)
  BY <1>4
<1>6. FreeOK(free)
  BY <1>3, <1>4
<1>7. /\ inBlock \in BOOLEAN /\ inRound \in BOOLEAN
      /\ todo \in SUBSET Ids /\ running \in Ids \cup {None}
  BY <1>4, Zenon
<1>8. height \in Nat /\ limit \in Int /\ gas \in Int
  BY <1>4
<1>9. TypeOK
  BY <1>1, <1>2, <1>4, <1>5, <1>6, <1>7, <1>8 DEF TypeOK
<1>. QED
  BY <1>4, <1>9 DEF TypeInv, ContextsOK

LEMMA BeginBlockType ==
  ASSUME TypeInv, BeginBlock
  PROVE  TypeInv'
<1>1. AccountsOK(e.accounts) /\ FreeOK(e.always)
  BY StateParts DEF TypeInv, TypeOK
<1>2. Total(e.accounts) \in Nat /\ AlwaysGas(e) \in Nat
  BY <1>1, TotalNat, AlwaysGasNat
<1>3. limit' \in Int
  BY <1>2, ConstantsAssumption DEF BeginBlock, Greater
<1>4. before' \in [funds : Nat, free : Nat]
  BY <1>2 DEF BeginBlock
<1>5. reports' \in Seq(Work)
  BY ConstantsAssumption DEF BeginBlock, Work
<1>6. FreeOK(free')
  BY <1>1 DEF BeginBlock
<1>7. height' \in Nat /\ transfers' \in Seq(Deferred) /\ inBlock' \in BOOLEAN
  BY DEF BeginBlock, TypeInv, TypeOK
<1>8. UNCHANGED <<e, works, todo, results, running, gas, x, y, inRound>>
  BY DEF BeginBlock, round
<1>. QED
  BY <1>3, <1>4, <1>5, <1>6, <1>7, <1>8 DEF TypeInv, TypeOK, ContextsOK, CtxOK, IsFree

LEMMA BeginRoundType ==
  ASSUME TypeInv, BeginRound
  PROVE  TypeInv'
<1>1. Prefix \in 0 .. Len(reports) /\ reports \in Seq(Work) /\ Len(reports) \in Nat
  BY PrefixIs DEF TypeInv, TypeOK
<1>2. works' \in Seq(Work) /\ reports' \in Seq(Work)
  <2>1. SubSeq(reports, 1, Prefix) \in Seq(Work)
    BY <1>1
  <2>2. SubSeq(reports, Prefix + 1, Len(reports)) \in Seq(Work)
    BY <1>1
  <2>. QED
    BY <2>1, <2>2 DEF BeginRound
<1>3. todo' \in SUBSET Ids
  <2>1. \A i \in DOMAIN works' : works'[i].service \in Ids
    <3>1. PICK ws : ws = works'
      OBVIOUS
    <3>2. \A i \in DOMAIN ws : ws[i] \in Work
      BY <1>2, <3>1, SeqParts
    <3>3. \A i \in DOMAIN ws : ws[i].service \in Ids
      BY <3>2 DEF Work
    <3>. QED
      BY <3>1, <3>3
  <2>2. \A i \in DOMAIN transfers : transfers[i].to \in Ids
    <3>1. \A i \in DOMAIN transfers : transfers[i] \in Deferred
      BY SeqParts DEF TypeInv, TypeOK
    <3>. QED
      BY <3>1 DEF Deferred
  <2>3. DOMAIN free \in SUBSET Ids
    BY DEF TypeInv, TypeOK, FreeOK
  <2>4. todo' = {works'[i].service : i \in DOMAIN works'} \cup DOMAIN free
                  \cup {transfers[i].to : i \in DOMAIN transfers}
    BY DEF BeginRound
  <2>. QED
    BY <2>1, <2>2, <2>3, <2>4
<1>4. /\ UNCHANGED <<e, inBlock, height, limit, free, transfers, results, running, gas, x, y,
                     before, doubled>>
      /\ inRound' \in BOOLEAN
  BY DEF BeginRound
<1>. QED
  BY <1>2, <1>3, <1>4 DEF TypeInv, TypeOK, ContextsOK, CtxOK, IsFree, FreeOK

LEMMA WithoutCodeType ==
  ASSUME TypeInv, NEW s \in todo, WithoutCode(s)
  PROVE  TypeInv'
<1>1. s \in Ids /\ results \in Seq(AllOutcomes) /\ Credited(s) \in AllStates
  BY CreditedIs DEF TypeInv, TypeOK
<1>2. Outcome(s, Credited(s), << >>, 0) \in AllOutcomes
  <2>. << >> \in Seq(Deferred)
    OBVIOUS
  <2>. QED
    BY <1>1 DEF Outcome, AllOutcomes
<1>3. results' \in Seq(AllOutcomes)
  BY <1>1, <1>2 DEF WithoutCode
<1>4. /\ UNCHANGED <<inBlock, height, reports, limit, free, transfers, works, running, gas,
                     x, y, inRound, before, doubled>>
      /\ e' = Credited(s) /\ todo' = todo \ {s}
  BY DEF WithoutCode
<1>. QED
  BY <1>1, <1>3, <1>4 DEF TypeInv, TypeOK, ContextsOK, CtxOK, IsFree, FreeOK

(* The context that an invocation starts with.                             *)
LEMMA ContextOK ==
  ASSUME TypeInv, NEW s, HasCode(e, s), RoomFor(e.accounts), NEW from \in Hashed
  PROVE  CtxOK(Context(s, Credited(s), from), s)
<1>1. e \in AllStates /\ transfers \in Seq(Deferred)
  BY DEF TypeInv, TypeOK
<1>2. PICK st : st = Credited(s)
  OBVIOUS
<1>3. st \in AllStates /\ DOMAIN st.accounts = DOMAIN e.accounts
  BY <1>1, <1>2, CreditedIs
<1>4. from \in Public /\ RoomFor(st.accounts)
  BY <1>3, ConstantsAssumption DEF RoomFor, Public
<1>5. CheckFn(from, st.accounts) \in Public \ DOMAIN st.accounts
  BY <1>4, CheckFnFindsFree
<1>6. PICK n : n = CheckFn(from, st.accounts)
  OBVIOUS
<1>7. Context(s, Credited(s), from) = [state |-> st, next |-> n, transfers |-> << >>]
  BY <1>2, <1>6 DEF Context
<1>8. s \in DOMAIN st.accounts
  BY <1>3 DEF HasCode
<1>. QED
  BY <1>3, <1>5, <1>6, <1>7, <1>8 DEF CtxOK, IsFree, AllContexts

LEMMA InvokeType ==
  ASSUME TypeInv, NEW s \in todo, Invoke(s)
  PROVE  TypeInv'
<1>1. s \in Ids /\ Credited(s) \in AllStates
  BY CreditedIs DEF TypeInv, TypeOK
<1>2. PICK from \in Hashed : x' = Context(s, Credited(s), from)
  BY DEF Invoke
<1>3. CtxOK(Context(s, Credited(s), from), s)
  BY ContextOK DEF Invoke
<1>4. CtxOK(x', s) /\ CtxOK(y', s)
  BY <1>2, <1>3 DEF Invoke
<1>5. gas' \in Int
  <2>. GasFor(s) \in Nat
    BY GasForNat DEF TypeInv, TypeOK
  <2>. QED
    BY DEF Invoke
<1>6. /\ UNCHANGED <<inBlock, height, reports, limit, free, transfers, works, results,
                     inRound, before, doubled>>
      /\ e' = Credited(s) /\ todo' = todo \ {s} /\ running' = s
  BY DEF Invoke
<1>7. TypeOK'
  BY <1>1, <1>4, <1>5, <1>6 DEF TypeInv, TypeOK, CtxOK, FreeOK
<1>8. ContextsOK'
  BY <1>4, <1>6 DEF ContextsOK, CtxOK, IsFree
<1>. QED
  BY <1>7, <1>8 DEF TypeInv

LEMMA CallType ==
  ASSUME TypeInv, NEW c, NEW cost, CallOK(c, cost)
  PROVE  TypeInv'
<1>1. /\ running # None /\ cost \in Int /\ x' = c /\ gas' = gas - cost
      /\ UNCHANGED <<e, inBlock, height, reports, limit, free, transfers, works, todo,
                     results, running, y, inRound, before>>
      /\ CtxOK(c, running)
  BY DEF CallOK, Becoming
<1>2. TypeOK'
  BY <1>1 DEF TypeInv, TypeOK, CtxOK, FreeOK
<1>3. ContextsOK'
  BY <1>1 DEF TypeInv, ContextsOK, CtxOK, IsFree
<1>. QED
  BY <1>2, <1>3 DEF TypeInv

LEMMA CheckpointType ==
  ASSUME TypeInv, Checkpoint
  PROVE  TypeInv'
<1>1. /\ running # None /\ y' = x /\ gas' = gas - 1
      /\ UNCHANGED <<e, inBlock, height, reports, limit, free, transfers, works, todo,
                     results, running, x, inRound, before>>
  BY DEF Checkpoint, Calling
<1>2. TypeOK'
  BY <1>1 DEF TypeInv, TypeOK, FreeOK
<1>3. ContextsOK'
  BY <1>1 DEF TypeInv, ContextsOK, CtxOK, IsFree
<1>. QED
  BY <1>2, <1>3 DEF TypeInv

(* Which context an invocation ends with, and what it has used.            *)
LEMMA EndInvocationIs ==
  ASSUME TypeInv, EndInvocation
  PROVE  \E end \in {x, y}, left \in Nat :
           /\ results' = Append(results, Outcome(running, end.state, end.transfers,
                                                 GasFor(running) - left))
           /\ Outcome(running, end.state, end.transfers, GasFor(running) - left) \in AllOutcomes
<1>1. PICK halted \in BOOLEAN, left \in {0, Greater(gas, 0)} :
        results' = Append(results, Outcome(running, (IF halted THEN x ELSE y).state,
                                           (IF halted THEN x ELSE y).transfers,
                                           GasFor(running) - left))
  BY DEF EndInvocation
<1>2. PICK end \in {x, y} : end = IF halted THEN x ELSE y
  OBVIOUS
<1>3. left \in Nat
  BY DEF TypeInv, TypeOK, Greater
<1>4. running \in Ids /\ end \in AllContexts
  BY DEF TypeInv, TypeOK, EndInvocation
<1>5. GasFor(running) - left \in Int
  <2>. GasFor(running) \in Nat
    BY GasForNat DEF TypeInv, TypeOK
  <2>. QED
    BY <1>3
<1>6. end.state \in AllStates /\ end.transfers \in Seq(Deferred)
  BY <1>4, ContextParts
<1>7. Outcome(running, end.state, end.transfers, GasFor(running) - left) \in AllOutcomes
  BY <1>4, <1>5, <1>6 DEF Outcome, AllOutcomes
<1>. QED
  BY <1>1, <1>2, <1>3, <1>7

LEMMA EndInvocationType ==
  ASSUME TypeInv, EndInvocation
  PROVE  TypeInv'
<1>1. results' \in Seq(AllOutcomes)
  <2>1. PICK r \in AllOutcomes : results' = Append(results, r)
    BY EndInvocationIs
  <2>2. results \in Seq(AllOutcomes)
    BY DEF TypeInv, TypeOK
  <2>. QED
    BY <2>1, <2>2
<1>2. /\ UNCHANGED <<e, inBlock, height, reports, limit, free, transfers, works, todo,
                     inRound, before, doubled>>
      /\ running' = None /\ gas' = 0
  BY DEF EndInvocation
<1>. QED
  BY <1>1, <1>2 DEF TypeInv, TypeOK, ContextsOK, FreeOK

LEMMA EndRoundType ==
  ASSUME TypeInv, EndRound
  PROVE  TypeInv'
<1>1. e \in AllStates /\ results \in Seq(AllOutcomes) /\ transfers \in Seq(Deferred)
  BY DEF TypeInv, TypeOK
<1>2. Merged \in AllStates
  BY <1>1, MergedType
<1>3. /\ DOMAIN results = 1 .. Len(results) /\ Len(results) \in Nat
      /\ IsFiniteSet(DOMAIN results) /\ \A i \in DOMAIN results : results[i] \in AllOutcomes
  BY <1>1, SeqParts
<1>4. transfers' \in Seq(Deferred)
  <2>. DEFINE ss == [i \in DOMAIN results |-> results[i].transfers]
  <2>1. \A i \in 1 .. Len(results) : ss[i] \in Seq(Deferred)
    BY <1>3 DEF AllOutcomes
  <2>2. DOMAIN ss = 1 .. Len(results) /\ ss = [i \in 1 .. Len(results) |-> ss[i]]
    BY <1>3
  <2>3. transfers' = FlattenSeq(ss)
    BY DEF EndRound
  <2>. HIDE DEF ss
  <2>4. ss \in Seq(Seq(Deferred))
    BY <1>3, <2>1, <2>2
  <2>. QED
    BY <2>3, <2>4, FlattenSeqType
<1>5. limit' \in Int
  <2>. DEFINE f == [i \in DOMAIN results |-> results[i].used]
  <2>1. \A i \in DOMAIN results : f[i] \in Int
    BY <1>3 DEF AllOutcomes
  <2>2. SumOver(results, LAMBDA r : r.used) = SumFunctionOnSet(f, DOMAIN f)
        /\ DOMAIN f = DOMAIN results
    BY DEF SumOver, SumFunction
  <2>. HIDE DEF f
  <2>3. SumOver(results, LAMBDA r : r.used) \in Int
    BY <1>3, <2>1, <2>2, SumInt
  <2>4. GasOf(transfers) \in Nat /\ limit \in Int
    BY <1>1, InFlightNat DEF TypeInv, TypeOK
  <2>5. limit' = limit + GasOf(transfers) - SumOver(results, LAMBDA r : r.used)
    BY DEF EndRound
  <2>. QED
    BY <2>3, <2>4, <2>5
<1>6. FreeOK(<< >>)
  BY DEF FreeOK
<1>7. /\ e' = Merged /\ free' = << >> /\ works' = << >> /\ results' = << >> /\ inRound' = FALSE
      /\ running = None
      /\ UNCHANGED <<inBlock, height, reports, todo, running, gas, x, y, before, doubled>>
  BY DEF EndRound
<1>8. FreeOK(free') /\ works' \in Seq(Work) /\ results' \in Seq(AllOutcomes)
  BY <1>6, <1>7
<1>. QED
  BY <1>2, <1>4, <1>5, <1>7, <1>8 DEF TypeInv, TypeOK, ContextsOK, FreeOK

LEMMA TypeInvNext ==
  ASSUME TypeInv, [Next]_vars
  PROVE  TypeInv'
<1>1. CASE BeginBlock
  BY <1>1, BeginBlockType
<1>2. CASE BeginRound
  BY <1>2, BeginRoundType
<1>3. CASE EndRound
  BY <1>3, EndRoundType
<1>4. CASE EndBlock
  BY <1>4 DEF EndBlock, round, TypeInv, TypeOK, ContextsOK, CtxOK, IsFree, FreeOK
<1>5. ASSUME NEW s \in todo, WithoutCode(s)
      PROVE  TypeInv'
  BY <1>5, WithoutCodeType
<1>6. ASSUME NEW s \in todo, Invoke(s)
      PROVE  TypeInv'
  BY <1>6, InvokeType
<1>7. CASE HostCall
  BY <1>7, HostCallOK, CallType, CheckpointType
<1>8. CASE EndInvocation
  BY <1>8, EndInvocationType
<1>9. CASE UNCHANGED vars
  BY <1>9 DEF vars, TypeInv, TypeOK, ContextsOK, CtxOK, IsFree, FreeOK
<1>. QED
  BY <1>1, <1>2, <1>3, <1>4, <1>5, <1>6, <1>7, <1>8, <1>9 DEF Next

(* Types, and a running service's contexts: its own account is in both,    *)
(* and the index for the next account is free in both.                     *)
THEOREM TypeCorrect == Spec => []TypeInv
<1>1. Init => TypeInv
  BY TypeInvInit
<1>2. TypeInv /\ [Next]_vars => TypeInv'
  BY TypeInvNext
<1>. QED
  BY <1>1, <1>2, PTL DEF Spec

(* No new account overwrites another: the index that a context would give  *)
(* one is free in it, after whatever calls (functions.ts:1184, 1266).      *)
THEOREM NextAlwaysFree == Spec => []NextIsFree
<1>1. TypeInv => NextIsFree
  BY DEF TypeInv, ContextsOK, CtxOK, NextIsFree
<1>. QED
  BY <1>1, TypeCorrect, PTL

-----------------------------------------------------------------------------
(* Privileges.                                                             *)

(* Which step ends a round.                                                *)
LEMMA OnlyEndRoundEnds ==
  ASSUME TypeInv, [Next]_vars, inRound, ~inRound'
  PROVE  EndRound
<1>1. CASE HostCall
  <2>1. Checkpoint \/ \E c, cost : CallOK(c, cost)
    BY <1>1, HostCallOK
  <2>. QED
    BY <2>1 DEF Checkpoint, CallOK, Becoming
<1>2. ASSUME ~HostCall PROVE EndRound
  BY <1>2 DEF Next, vars, BeginBlock, BeginRound, EndBlock, WithoutCode, Invoke,
    EndInvocation, round
<1>. QED
  BY <1>1, <1>2

(* A privilege after the merge is another only if its holder, or the       *)
(* manager, was among the services that ran.                               *)
LEMMA PrivilegesMerged ==
  ASSUME TypeInv
  PROVE  LET m == Merged
         IN /\ (m.manager # e.manager \/ m.always # e.always) => Ran(e.manager)
            /\ m.staging # e.staging => Ran(e.delegator)
            /\ m.delegator # e.delegator => Ran(e.manager) \/ Ran(e.delegator)
            /\ m.registrar # e.registrar => Ran(e.manager) \/ Ran(e.registrar)
            /\ \A c \in Cores :
                 /\ m.queue[c] # e.queue[c] => Ran(e.assigners[c])
                 /\ m.assigners[c] # e.assigners[c] => Ran(e.manager) \/ Ran(e.assigners[c])
<1>1. \A s : ~Ran(s) => After(s) = e
  BY AfterIs DEF TypeInv, TypeOK
<1>2. /\ Merged.manager = After(e.manager).manager
      /\ Merged.always = After(e.manager).always
      /\ Merged.staging = After(e.delegator).staging
      /\ Merged.delegator = Decided(e.delegator, After(e.manager).delegator,
                                    After(e.delegator).delegator)
      /\ Merged.registrar = Decided(e.registrar, After(e.manager).registrar,
                                    After(e.registrar).registrar)
  BY DEF Merged
<1>3. ASSUME NEW c \in Cores
      PROVE  /\ Merged.queue[c] = After(e.assigners[c]).queue[c]
             /\ Merged.assigners[c] = Decided(e.assigners[c], After(e.manager).assigners[c],
                                              After(e.assigners[c]).assigners[c])
  BY DEF Merged
<1>4. ASSUME NEW c \in Cores
      PROVE  /\ Merged.queue[c] # e.queue[c] => Ran(e.assigners[c])
             /\ Merged.assigners[c] # e.assigners[c]
                  => Ran(e.manager) \/ Ran(e.assigners[c])
  BY <1>1, <1>3 DEF Decided
<1>. QED
  BY <1>1, <1>2, <1>4 DEF Decided

(* Only who held a privilege before the round changes what it is for, and  *)
(* what a service grants itself in its own context comes to nothing        *)
(* (privileged-services.ts:14-23, accumulate.ts:335-364).                  *)
THEOREM PrivilegesCorrect == Spec => PrivilegesByHolders
<1>. DEFINE Held == /\ (e'.manager # e.manager \/ e'.always # e.always) => Ran(e.manager)
                    /\ e'.staging # e.staging => Ran(e.delegator)
                    /\ e'.delegator # e.delegator => Ran(e.manager) \/ Ran(e.delegator)
                    /\ e'.registrar # e.registrar => Ran(e.manager) \/ Ran(e.registrar)
                    /\ \A c \in Cores :
                         /\ e'.queue[c] # e.queue[c] => Ran(e.assigners[c])
                         /\ e'.assigners[c] # e.assigners[c]
                              => Ran(e.manager) \/ Ran(e.assigners[c])
<1>1. ASSUME TypeInv, [Next]_vars, inRound, ~inRound'
      PROVE  Held
  <2>1. e' = Merged
    BY <1>1, OnlyEndRoundEnds DEF EndRound
  <2>2. PICK m : m = Merged
    OBVIOUS
  <2>3. /\ (m.manager # e.manager \/ m.always # e.always) => Ran(e.manager)
        /\ m.staging # e.staging => Ran(e.delegator)
        /\ m.delegator # e.delegator => Ran(e.manager) \/ Ran(e.delegator)
        /\ m.registrar # e.registrar => Ran(e.manager) \/ Ran(e.registrar)
        /\ \A c \in Cores :
             /\ m.queue[c] # e.queue[c] => Ran(e.assigners[c])
             /\ m.assigners[c] # e.assigners[c] => Ran(e.manager) \/ Ran(e.assigners[c])
    BY <1>1, <2>2, PrivilegesMerged
  <2>. QED
    BY <2>1, <2>2, <2>3
<1>2. TypeInv /\ [Next]_vars => [inRound /\ ~inRound' => Held]_vars
  BY <1>1
<1>. HIDE DEF Held
<1>3. Spec => [][inRound /\ ~inRound' => Held]_vars
  BY <1>2, TypeCorrect, PTL DEF Spec
<1>. QED
  BY <1>3 DEF PrivilegesByHolders, Held

-----------------------------------------------------------------------------
(* More about sums.                                                        *)

(* The rows of a table add up to the same as its columns.                  *)
Column(f, S, j) == [i \in S |-> f[i][j]]
Table(f, S, T) == \A i \in S : \A j \in T : f[i][j] \in Int
RowSums(rows, f, S, T) == \A i \in S : rows[i] = SumFunctionOnSet(f[i], T)
ColumnSums(cols, f, S, T) == \A j \in T : cols[j] = SumFunctionOnSet(Column(f, S, j), S)

LEMMA SumSwap ==
  ASSUME NEW S, IsFiniteSet(S), NEW T, IsFiniteSet(T), NEW f, Table(f, S, T),
         NEW rows, RowSums(rows, f, S, T), NEW cols, ColumnSums(cols, f, S, T)
  PROVE  SumFunctionOnSet(rows, S) = SumFunctionOnSet(cols, T)
<1>. \A i \in S : \A j \in T : f[i][j] \in Int
  BY DEF Table
<1>. \A i \in S : rows[i] = SumFunctionOnSet(f[i], T)
  BY DEF RowSums
<1>. \A j \in T : cols[j] = SumFunctionOnSet(Column(f, S, j), S)
  BY DEF ColumnSums
<1>. DEFINE column(j) == [i \in S |-> f[i][j]]
            part(U) == [j \in T |-> SumFunctionOnSet(column(j), U)]
            G == {U \in SUBSET S :
                    SumFunctionOnSet(rows, U) = SumFunctionOnSet(part(U), T)}
<1>1. ASSUME NEW i \in S PROVE rows[i] \in Int
  BY SumInt
<1>2. ASSUME NEW U \in SUBSET S, NEW j \in T
      PROVE  part(U)[j] \in Int /\ part(U)[j] = SumFunctionOnSet(column(j), U)
  <2>1. \A i \in U : column(j)[i] \in Int
    OBVIOUS
  <2>2. SumFunctionOnSet(column(j), U) \in Int
    <3>. HIDE DEF column
    <3>. QED
      BY <2>1, FS_Subset, SumInt
  <2>. HIDE DEF column
  <2>. QED
    BY <2>2
<1>3. ASSUME NEW U \in SUBSET S, \A W \in SUBSET U : W # U => W \in G
      PROVE  U \in G
  <2>1. CASE U = {}
    <3>1. \A j \in T : part(U)[j] = 0
      <4>. HIDE DEF column, part
      <4>. QED
        BY <2>1, <1>2, SumOfNone
    <3>2. SumFunctionOnSet(part(U), T) = 0
      <4>. HIDE DEF part
      <4>. QED
        BY <3>1, SumOfZeros
    <3>. HIDE DEF part
    <3>. QED
      BY <2>1, <3>2, SumOfNone
  <2>2. CASE U # {}
    <3>. DEFINE p == Picked(U)
                W == U \ {p}
    <3>1. p \in U /\ p \in S /\ IsFiniteSet(U) /\ W \in SUBSET U /\ W # U /\ W \in SUBSET S
      BY <2>2, PickedIn, FS_Subset
    <3>2. SumFunctionOnSet(rows, U) = rows[p] + SumFunctionOnSet(rows, W)
      <4>. \A i \in U : rows[i] \in Int
        BY <1>1
      <4>. QED
        BY <2>2, <3>1, SumPick
    <3>3. SumFunctionOnSet(rows, W) = SumFunctionOnSet(part(W), T)
      <4>1. W \in G
        <5>. HIDE DEF W, G
        <5>. QED
          BY <1>3, <3>1
      <4>. QED
        BY <4>1
    <3>4. ASSUME NEW j \in T
          PROVE  /\ f[p][j] \in Int /\ part(W)[j] \in Int
                 /\ part(U)[j] = f[p][j] + part(W)[j]
      <4>1. \A i \in U : column(j)[i] \in Int
        OBVIOUS
      <4>2. column(j)[p] = f[p][j]
        <5>. HIDE DEF p
        <5>. QED
          BY <3>1
      <4>3. SumFunctionOnSet(column(j), U) = column(j)[p] + SumFunctionOnSet(column(j), W)
        <5>. HIDE DEF column
        <5>. QED
          BY <3>1, <4>1, SumRemove
      <4>. HIDE DEF column, part, p, W
      <4>. QED
        BY <1>2, <3>1, <4>2, <4>3
    <3>5. SumFunctionOnSet(part(U), T)
            = SumFunctionOnSet(f[p], T) + SumFunctionOnSet(part(W), T)
      <4>. HIDE DEF part, p, W
      <4>. QED
        BY <3>4, SumAdds
    <3>. HIDE DEF part, p, W
    <3>. QED
      BY <3>1, <3>2, <3>3, <3>5
  <2>. QED
    BY <2>1, <2>2
<1>4. \A U \in SUBSET S : U \in G
  <2>. HIDE DEF G
  <2>. QED
    BY <1>3, SubsetInduction
<1>5. SumFunctionOnSet(rows, S) = SumFunctionOnSet(part(S), T)
  <2>. S \in G
    <3>. HIDE DEF G
    <3>. QED
      BY <1>4
  <2>. QED
    OBVIOUS
<1>6. SumFunctionOnSet(part(S), T) = SumFunctionOnSet(cols, T)
  <2>1. ASSUME NEW j \in T PROVE part(S)[j] \in Int /\ part(S)[j] = cols[j]
    <3>1. part(S)[j] \in Int /\ part(S)[j] = SumFunctionOnSet(column(j), S)
      <4>. HIDE DEF column, part
      <4>. QED
        BY <1>2
    <3>2. column(j) = Column(f, S, j)
      BY DEF Column
    <3>. QED
      BY <3>1, <3>2
  <2>. HIDE DEF part
  <2>. QED
    BY <2>1, SumSame
<1>. QED
  BY <1>5, <1>6

(* A sum with one term that is not zero.                                   *)
LEMMA SumOfOne ==
  ASSUME NEW S, IsFiniteSet(S), NEW f, NEW k \in S, f[k] \in Int,
         \A i \in S \ {k} : f[i] = 0
  PROVE  SumFunctionOnSet(f, S) = f[k]
<1>1. \A i \in S : f[i] \in Int
  OBVIOUS
<1>2. SumFunctionOnSet(f, S) = f[k] + SumFunctionOnSet(f, S \ {k})
  BY <1>1, SumRemove
<1>3. SumFunctionOnSet(f, S \ {k}) = 0
  <2>. IsFiniteSet(S \ {k})
    BY FS_RemoveElement
  <2>. QED
    BY SumOfZeros
<1>. QED
  BY <1>2, <1>3

(* No term is more than the sum of terms that are not negative.            *)
LEMMA SumBounds ==
  ASSUME NEW S, IsFiniteSet(S), NEW f, \A i \in S : f[i] \in Nat, NEW k \in S
  PROVE  f[k] <= SumFunctionOnSet(f, S)
<1>1. \A i \in S : f[i] \in Int
  OBVIOUS
<1>2. SumFunctionOnSet(f, S) = f[k] + SumFunctionOnSet(f, S \ {k})
  BY <1>1, SumRemove
<1>3. SumFunctionOnSet(f, S \ {k}) \in Nat
  <2>. IsFiniteSet(S \ {k})
    BY FS_RemoveElement
  <2>. QED
    BY SumNat
<1>. QED
  BY <1>2, <1>3

(* A sum whose terms change in two places.                                 *)
LEMMA SumChanges ==
  ASSUME NEW S, IsFiniteSet(S), NEW f, NEW g, \A i \in S : f[i] \in Int /\ g[i] \in Int,
         NEW k \in S, NEW l \in S, k # l, \A i \in S \ {k, l} : g[i] = f[i]
  PROVE  SumFunctionOnSet(g, S) - SumFunctionOnSet(f, S) = (g[k] - f[k]) + (g[l] - f[l])
<1>. DEFINE T == S \ {k}
            U == T \ {l}
<1>1. IsFiniteSet(T) /\ IsFiniteSet(U) /\ l \in T
  BY FS_RemoveElement
<1>2. U = S \ {k, l}
  OBVIOUS
<1>3. /\ SumFunctionOnSet(f, S) = f[k] + SumFunctionOnSet(f, T)
      /\ SumFunctionOnSet(g, S) = g[k] + SumFunctionOnSet(g, T)
  BY SumRemove
<1>4. /\ SumFunctionOnSet(f, T) = f[l] + SumFunctionOnSet(f, U)
      /\ SumFunctionOnSet(g, T) = g[l] + SumFunctionOnSet(g, U)
  <2>. \A i \in T : f[i] \in Int /\ g[i] \in Int
    OBVIOUS
  <2>. HIDE DEF T
  <2>. QED
    BY <1>1, SumRemove
<1>5. SumFunctionOnSet(f, U) = SumFunctionOnSet(g, U) /\ SumFunctionOnSet(f, U) \in Int
  <2>. \A i \in U : f[i] \in Int /\ f[i] = g[i]
    BY <1>2
  <2>. HIDE DEF U
  <2>. QED
    BY <1>1, SumSame, SumInt
<1>6. f[k] \in Int /\ f[l] \in Int /\ g[k] \in Int /\ g[l] \in Int
  OBVIOUS
<1>. HIDE DEF T, U
<1>. QED
  BY <1>3, <1>4, <1>5, <1>6

(* What goes to the members of a set is no more than what goes anywhere.   *)
To(t, f, d, S) == [i \in S |-> IF d[i] = t THEN f[i] ELSE 0]

(* What goes to the members of a set is no more than what there is.        *)
LEMMA SumToMembers ==
  ASSUME NEW S, IsFiniteSet(S), NEW T, IsFiniteSet(T),
         NEW f, \A i \in S : f[i] \in Nat, NEW d,
         NEW g, \A t \in T : g[t] = SumFunctionOnSet(To(t, f, d, S), S)
  PROVE  SumFunctionOnSet(g, T) <= SumFunctionOnSet(f, S)
<1>. DEFINE row(i) == [t \in T |-> IF d[i] = t THEN f[i] ELSE 0]
            table == [i \in S |-> row(i)]
            rows == [i \in S |-> SumFunctionOnSet(row(i), T)]
<1>1. ASSUME NEW i \in S
      PROVE  table[i] = row(i) /\ rows[i] = SumFunctionOnSet(row(i), T)
  OBVIOUS
<1>2. ASSUME NEW i \in S, NEW t \in T
      PROVE  /\ table[i][t] \in Int
             /\ table[i][t] = IF d[i] = t THEN f[i] ELSE 0
  <2>. f[i] \in Int
    OBVIOUS
  <2>. QED
    OBVIOUS
<1>3. ASSUME NEW t \in T
      PROVE  g[t] = SumFunctionOnSet(Column(table, S, t), S)
  <2>. Column(table, S, t) = To(t, f, d, S)
    BY DEF Column, To
  <2>. HIDE DEF table
  <2>. QED
    OBVIOUS
<1>4. SumFunctionOnSet(rows, S) = SumFunctionOnSet(g, T)
  <2>. HIDE DEF rows, table, row
  <2>1. RowSums(rows, table, S, T)
    BY <1>1 DEF RowSums
  <2>2. Table(table, S, T)
    BY <1>2 DEF Table
  <2>3. ColumnSums(g, table, S, T)
    BY <1>3 DEF ColumnSums
  <2>. QED
    BY <2>1, <2>2, <2>3, SumSwap
<1>5. ASSUME NEW i \in S PROVE rows[i] \in Int /\ rows[i] <= f[i] /\ f[i] \in Int
  <2>0. f[i] \in Nat
    OBVIOUS
  <2>1. \A t \in T : row(i)[t] = IF d[i] = t THEN f[i] ELSE 0
    OBVIOUS
  <2>2. rows[i] = SumFunctionOnSet(row(i), T)
    BY <1>1
  <2>. HIDE DEF row, rows
  <2>3. CASE d[i] \in T
    <3>. PICK k \in T : k = d[i]
      BY <2>3
    <3>1. row(i)[k] = f[i] /\ \A t \in T \ {k} : row(i)[t] = 0
      BY <2>1
    <3>2. SumFunctionOnSet(row(i), T) = f[i]
      BY <2>0, <3>1, SumOfOne
    <3>. QED
      BY <2>0, <2>2, <3>2
  <2>4. CASE d[i] \notin T
    <3>1. \A t \in T : row(i)[t] = 0
      BY <2>1, <2>4
    <3>2. SumFunctionOnSet(row(i), T) = 0
      BY <3>1, SumOfZeros
    <3>. QED
      BY <2>0, <2>2, <3>2
  <2>. QED
    BY <2>3, <2>4
<1>6. SumFunctionOnSet(rows, S) <= SumFunctionOnSet(f, S)
  <2>. HIDE DEF rows
  <2>. QED
    BY <1>5, SumMonotone
<1>. QED
  BY <1>4, <1>6

(* What is in flight in two sequences of transfers, one after the other.   *)
LEMMA InFlightNone == InFlight(<< >>) = 0
<1>. DEFINE f == [i \in DOMAIN << >> |-> (<< >>)[i].amount]
<1>1. InFlight(<< >>) = SumFunctionOnSet(f, {})
  BY DEF InFlight, SumOver, SumFunction
<1>. HIDE DEF f
<1>. QED
  BY <1>1, SumOfNone

(* Appending to a concatenation.                                           *)
LEMMA ConcatAppend ==
  ASSUME NEW T, NEW s \in Seq(T), NEW t \in Seq(T), NEW d \in T
  PROVE  s \o Append(t, d) = Append(s \o t, d)
OBVIOUS

(* What is in flight in a concatenation is what is in flight in its parts. *)
LEMMA InFlightConcat ==
  ASSUME NEW ts \in Seq(Deferred), NEW us \in Seq(Deferred)
  PROVE  InFlight(ts \o us) = InFlight(ts) + InFlight(us)
<1>. DEFINE N == Len(us)
            part(n) == SubSeq(us, 1, n)
            G == {n \in 0 .. N : InFlight(ts \o part(n)) = InFlight(ts) + InFlight(part(n))}
<1>1. N \in Nat /\ InFlight(ts) \in Nat
  BY InFlightNat
<1>2. 0 \in G
  <2>1. part(0) = << >> /\ ts \o << >> = ts
    BY ConcatEmptySeq
  <2>2. InFlight(ts \o << >>) = InFlight(ts) + InFlight(<< >>)
    <3>1. InFlight(ts \o << >>) = InFlight(ts)
      BY <2>1, Zenon
    <3>. QED
      BY <1>1, <3>1, InFlightNone
  <2>3. InFlight(ts \o part(0)) = InFlight(ts) + InFlight(part(0))
    <3>. HIDE DEF part
    <3>. QED
      BY <2>1, <2>2, Zenon
  <2>. QED
    BY <1>1, <2>3
<1>3. ASSUME NEW n \in 0 .. N - 1, n \in G PROVE n + 1 \in G
  <2>1. n + 1 \in 1 .. N /\ n \in 0 .. N
    BY <1>1
  <2>2. part(n) \in Seq(Deferred) /\ us[n + 1] \in Deferred
    BY <2>1
  <2>3. part(n + 1) = Append(part(n), us[n + 1])
    BY <2>1
  <2>4. ts \o part(n + 1) = Append(ts \o part(n), us[n + 1])
    <3>. PICK b \in Seq(Deferred) : b = part(n)
      BY <2>2
    <3>. PICK d \in Deferred : d = us[n + 1]
      BY <2>2
    <3>1. ts \o Append(b, d) = Append(ts \o b, d)
      BY ConcatAppend
    <3>. HIDE DEF part
    <3>. QED
      BY <2>3, <3>1
  <2>5. ts \o part(n) \in Seq(Deferred)
    <3>. HIDE DEF part
    <3>. QED
      BY <2>2
  <2>6. InFlight(ts \o part(n + 1)) = InFlight(ts \o part(n)) + us[n + 1].amount
    <3>. HIDE DEF part
    <3>. QED
      BY <2>2, <2>4, <2>5, InFlightAppend
  <2>7. InFlight(part(n + 1)) = InFlight(part(n)) + us[n + 1].amount
    <3>. HIDE DEF part
    <3>. QED
      BY <2>2, <2>3, InFlightAppend
  <2>8. InFlight(ts \o part(n)) = InFlight(ts) + InFlight(part(n))
    BY <1>3
  <2>9. InFlight(part(n)) \in Nat /\ us[n + 1].amount \in Nat
    <3>. HIDE DEF part
    <3>. QED
      BY <2>2, InFlightNat DEF Deferred
  <2>10. InFlight(ts \o part(n + 1)) = InFlight(ts) + InFlight(part(n + 1))
    <3>. HIDE DEF part
    <3>. QED
      BY <1>1, <2>6, <2>7, <2>8, <2>9
  <2>11. n + 1 \in 0 .. N
    BY <2>1
  <2>. HIDE DEF part, N
  <2>. QED
    BY <2>10, <2>11
<1>4. \A n \in 0 .. N : n \in G
  <2>. HIDE DEF G, N
  <2>. QED
    BY <1>1, <1>2, <1>3, Induction
<1>5. part(N) = us
  OBVIOUS
<1>6. N \in G
  <2>. N \in 0 .. N
    BY <1>1
  <2>. HIDE DEF G, N
  <2>. QED
    BY <1>4
<1>7. InFlight(ts \o part(N)) = InFlight(ts) + InFlight(part(N))
  <2>. HIDE DEF part, N
  <2>. QED
    BY <1>6
<1>. HIDE DEF part, N
<1>. QED
  BY <1>5, <1>7

(* Nothing is lost or made when the transfers of a round are put together. *)
LEMMA InFlightFlatten ==
  ASSUME NEW ss \in Seq(Seq(Deferred)),
         NEW f, \A i \in 1 .. Len(ss) : f[i] = InFlight(ss[i])
  PROVE  InFlight(FlattenSeq(ss)) = SumFunctionOnSet(f, 1 .. Len(ss))
<1>0. Len(ss) \in Nat /\ \A i \in 1 .. Len(ss) : ss[i] \in Seq(Deferred)
  OBVIOUS
<1>1. CASE Len(ss) = 0
  <2>1. ss = << >> /\ 1 .. Len(ss) = {}
    BY <1>1, EmptySeq
  <2>2. FlattenSeq(ss) = << >>
    BY <1>1, <2>1 DEF FlattenSeq
  <2>. QED
    BY <2>1, <2>2, InFlightNone, SumOfNone
<1>2. CASE Len(ss) > 0
  <2>1. PICK g : Flattening(g, ss, Deferred) /\ FlattenSeq(ss) = g[Len(ss)]
    BY <1>2, FlattenSeqIs
  <2>. DEFINE N == Len(ss) - 1
              G == {n \in 0 .. N :
                      InFlight(g[n + 1]) = SumFunctionOnSet(f, 1 .. n + 1)}
  <2>2. N \in Nat /\ N + 1 = Len(ss)
    BY <1>0, <1>2
  <2>3. \A i \in 1 .. Len(ss) : f[i] \in Int /\ f[i] = InFlight(ss[i])
    BY <1>0, InFlightNat
  <2>4. 0 \in G
    <3>1. 1 .. 0 + 1 = {1} /\ 1 \in 1 .. Len(ss)
      BY <1>0, <1>2
    <3>0. IsFiniteSet({1})
      BY FS_Singleton
    <3>2. SumFunctionOnSet(f, {1}) = f[1]
      <4>. f[1] \in Int
        BY <2>3, <3>1
      <4>. QED
        BY <3>0, <3>1, SumOfOne
    <3>3. g[1] = ss[1]
      BY <2>1 DEF Flattening
    <3>4. InFlight(g[0 + 1]) = SumFunctionOnSet(f, 1 .. 0 + 1)
      BY <2>3, <3>1, <3>2, <3>3
    <3>. QED
      BY <2>2, <3>4
  <2>5. ASSUME NEW n \in 0 .. N - 1, n \in G PROVE n + 1 \in G
    <3>. DEFINE k == (n + 1) + 1
    <3>1. k \in 2 .. Len(ss) /\ k \in 1 .. Len(ss) /\ n + 1 \in 1 .. Len(ss) /\ k - 1 = n + 1
      BY <2>2
    <3>2. g[k] = g[n + 1] \o ss[k] /\ g[n + 1] \in Seq(Deferred) /\ ss[k] \in Seq(Deferred)
      <4>. HIDE DEF k
      <4>. QED
        BY <1>0, <2>1, <3>1 DEF Flattening
    <3>3. InFlight(g[k]) = InFlight(g[n + 1]) + f[k]
      <4>. HIDE DEF k
      <4>. QED
        BY <2>3, <3>1, <3>2, InFlightConcat
    <3>4. SumFunctionOnSet(f, 1 .. k) = f[k] + SumFunctionOnSet(f, 1 .. n + 1)
      <4>1. k \in 1 .. k /\ (1 .. k) \ {k} = 1 .. n + 1 /\ 1 .. k \subseteq 1 .. Len(ss)
        BY <3>1
      <4>2. IsFiniteSet(1 .. k)
        BY <3>1, FS_Interval
      <4>. HIDE DEF k
      <4>3. \A i \in 1 .. k : f[i] \in Int
        BY <2>3, <4>1
      <4>4. SumFunctionOnSet(f, 1 .. k) = f[k] + SumFunctionOnSet(f, (1 .. k) \ {k})
        BY <4>1, <4>2, <4>3, SumRemove
      <4>. QED
        BY <4>1, <4>4
    <3>5. InFlight(g[n + 1]) = SumFunctionOnSet(f, 1 .. n + 1)
      BY <2>5
    <3>6. f[k] \in Int /\ InFlight(g[n + 1]) \in Int
      <4>. HIDE DEF k
      <4>. QED
        BY <2>3, <3>1, <3>2, InFlightNat
    <3>7. InFlight(g[k]) = SumFunctionOnSet(f, 1 .. k)
      <4>. HIDE DEF k
      <4>. QED
        BY <3>3, <3>4, <3>5, <3>6
    <3>8. n + 1 \in 0 .. N
      BY <2>2
    <3>. HIDE DEF N
    <3>. QED
      BY <3>7, <3>8
  <2>6. \A n \in 0 .. N : n \in G
    <3>. HIDE DEF G, N
    <3>. QED
      BY <2>2, <2>4, <2>5, Induction
  <2>7. N \in G
    <3>. N \in 0 .. N
      BY <2>2
    <3>. HIDE DEF G, N
    <3>. QED
      BY <2>6
  <2>8. InFlight(g[N + 1]) = SumFunctionOnSet(f, 1 .. N + 1)
    <3>. HIDE DEF N
    <3>. QED
      BY <2>7
  <2>. HIDE DEF N
  <2>. QED
    BY <2>1, <2>2, <2>8
<1>. QED
  BY <1>0, <1>1, <1>2

(* The gas that the outcomes of a round used, once another has come.       *)
Used(rs) == SumOver(rs, LAMBDA r : r.used)

(* The gas that the outcomes of a round report.                            *)
LEMMA UsedIs ==
  ASSUME NEW rs \in Seq(AllOutcomes)
  PROVE  Used(rs) \in Int
<1>. DEFINE f == [i \in DOMAIN rs |-> rs[i].used]
<1>1. IsFiniteSet(DOMAIN rs) /\ \A i \in DOMAIN rs : rs[i] \in AllOutcomes
  BY SeqParts
<1>2. \A i \in DOMAIN rs : f[i] \in Int
  BY <1>1 DEF AllOutcomes
<1>3. Used(rs) = SumFunctionOnSet(f, DOMAIN rs)
  BY DEF Used, SumOver, SumFunction
<1>. HIDE DEF f
<1>. QED
  BY <1>1, <1>2, <1>3, SumInt

LEMMA UsedNone == Used(<< >>) = 0
<1>. DEFINE f == [i \in DOMAIN << >> |-> (<< >>)[i].used]
<1>1. Used(<< >>) = SumFunctionOnSet(f, {})
  BY DEF Used, SumOver, SumFunction
<1>. HIDE DEF f
<1>. QED
  BY <1>1, SumOfNone

LEMMA UsedAppend ==
  ASSUME NEW rs \in Seq(AllOutcomes), NEW r \in AllOutcomes
  PROVE  Used(Append(rs, r)) = Used(rs) + r.used
<1>. DEFINE us == Append(rs, r)
            n == Len(rs) + 1
            f == [i \in DOMAIN us |-> us[i].used]
            g == [i \in DOMAIN rs |-> rs[i].used]
<1>1. /\ DOMAIN rs = 1 .. Len(rs) /\ Len(rs) \in Nat
      /\ IsFiniteSet(DOMAIN rs) /\ \A i \in DOMAIN rs : rs[i] \in AllOutcomes
  BY SeqParts
<1>2. us \in Seq(AllOutcomes) /\ us[n] = r /\ Len(us) = n
      /\ \A i \in 1 .. Len(rs) : us[i] = rs[i]
  OBVIOUS
<1>. HIDE DEF us
<1>3. /\ DOMAIN us = 1 .. n /\ IsFiniteSet(DOMAIN us)
      /\ \A i \in DOMAIN us : us[i] \in AllOutcomes
  BY <1>2, SeqParts
<1>4. (1 .. n) \ {n} = 1 .. Len(rs) /\ n \in 1 .. n
  BY <1>1
<1>5. \A i \in 1 .. n : f[i] \in Int
  BY <1>3 DEF AllOutcomes
<1>6. SumFunctionOnSet(f, 1 .. n) = f[n] + SumFunctionOnSet(f, (1 .. n) \ {n})
  <2>. HIDE DEF f, n
  <2>. QED
    BY <1>3, <1>4, <1>5, SumRemove
<1>7. SumFunctionOnSet(g, 1 .. Len(rs)) = SumFunctionOnSet(f, 1 .. Len(rs))
  <2>1. ASSUME NEW i \in 1 .. Len(rs) PROVE g[i] \in Int /\ g[i] = f[i]
    <3>1. i \in DOMAIN rs /\ i \in DOMAIN us /\ us[i] = rs[i]
      BY <1>1, <1>2, <1>3, <1>4
    <3>2. rs[i].used \in Int
      BY <1>1, <3>1 DEF AllOutcomes
    <3>. QED
      BY <3>1, <3>2
  <2>. HIDE DEF f, g
  <2>. QED
    BY <1>1, <2>1, SumSame
<1>8. Used(us) = SumFunctionOnSet(f, 1 .. n)
  BY <1>3 DEF Used, SumOver, SumFunction
<1>9. Used(rs) = SumFunctionOnSet(g, 1 .. Len(rs))
  BY <1>1 DEF Used, SumOver, SumFunction
<1>10. Used(rs) \in Int /\ f[n] = r.used /\ r.used \in Int
  BY <1>2, <1>3, <1>4, UsedIs DEF AllOutcomes
<1>. HIDE DEF f, g, n
<1>11. Used(us) = f[n] + Used(rs)
  BY <1>4, <1>6, <1>7, <1>8, <1>9
<1>12. Used(us) = Used(rs) + r.used
  BY <1>10, <1>11
<1>. QED
  BY <1>12 DEF us

-----------------------------------------------------------------------------
(* The course of a round.                                                  *)

(* The places of a sequence to which one was appended.                     *)
LEMMA AppendParts ==
  ASSUME NEW T, NEW s \in Seq(T), NEW r \in T
  PROVE  /\ DOMAIN Append(s, r) = DOMAIN s \cup {Len(s) + 1} /\ Len(s) + 1 \notin DOMAIN s
         /\ Append(s, r)[Len(s) + 1] = r
         /\ \A i \in DOMAIN s : Append(s, r)[i] = s[i]
OBVIOUS

(* No service has two outcomes.                                            *)
Absent(s, rs) == \A i \in DOMAIN rs : rs[i].id # s
Distinct(rs) == \A i, j \in DOMAIN rs : rs[i].id = rs[j].id => i = j

LEMMA AbsentNone ==
  ASSUME NEW s
  PROVE  Absent(s, << >>) /\ Distinct(<< >>)
BY DEF Absent, Distinct

(* Another service's outcome keeps them apart.                             *)
LEMMA DistinctAppend ==
  ASSUME NEW rs \in Seq(AllOutcomes), NEW r \in AllOutcomes, Distinct(rs), Absent(r.id, rs)
  PROVE  Distinct(Append(rs, r))
<1>. PICK us : us = Append(rs, r)
  OBVIOUS
<1>. PICK n : n = Len(rs) + 1
  OBVIOUS
<1>1. /\ DOMAIN us = DOMAIN rs \cup {n} /\ n \notin DOMAIN rs /\ us[n] = r
      /\ \A i \in DOMAIN rs : us[i] = rs[i]
  BY AppendParts
<1>2. Distinct(us)
  BY <1>1 DEF Distinct, Absent
<1>. QED
  BY <1>2

LEMMA AbsentAppend ==
  ASSUME NEW rs \in Seq(AllOutcomes), NEW r \in AllOutcomes, NEW s, s # r.id, Absent(s, rs)
  PROVE  Absent(s, Append(rs, r))
<1>. PICK us : us = Append(rs, r)
  OBVIOUS
<1>. PICK n : n = Len(rs) + 1
  OBVIOUS
<1>1. /\ DOMAIN us = DOMAIN rs \cup {n} /\ us[n] = r
      /\ \A i \in DOMAIN rs : us[i] = rs[i]
  BY AppendParts
<1>2. Absent(s, us)
  BY <1>1 DEF Absent
<1>. QED
  BY <1>2

(* The services of the round that have no outcome yet.                     *)
Busy == todo \cup ({running} \ {None})

OrderInv ==
  /\ inRound => inBlock
  /\ running # None => inRound
  /\ ~inRound => results = << >> /\ todo = {}
  /\ running \notin todo
  /\ Distinct(results)
  /\ \A s \in Busy : Absent(s, results)

(* The order of a round in the first state, in steps that do not concern   *)
(* it, and in every other step.                                            *)
LEMMA OrderInvInit ==
  ASSUME Init
  PROVE  OrderInv
<1>1. /\ inRound = FALSE /\ results = << >> /\ todo = {} /\ running = None
  BY DEF Init
<1>2. Busy = {}
  BY <1>1 DEF Busy
<1>. QED
  BY <1>1, <1>2, AbsentNone DEF OrderInv

LEMMA OrderInvSame ==
  ASSUME OrderInv, UNCHANGED round, inRound => inBlock'
  PROVE  OrderInv'
<1>1. UNCHANGED <<todo, results, running, inRound>>
  BY DEF round
<1>2. Busy' = Busy
  BY <1>1 DEF Busy
<1>. QED
  BY <1>1, <1>2 DEF OrderInv

(* The outcome of a service that was busy until now.                       *)
LEMMA OrderInvOutcome ==
  ASSUME TypeInv, OrderInv, inRound, NEW r \in AllOutcomes, r.id \in Busy,
         results' = Append(results, r), Busy' = Busy \ {r.id}, running' = None,
         None \notin todo', UNCHANGED <<inBlock, inRound>>
  PROVE  OrderInv'
<1>1. results \in Seq(AllOutcomes) /\ Distinct(results) /\ \A s \in Busy : Absent(s, results)
  BY DEF TypeInv, TypeOK, OrderInv
<1>2. Distinct(results')
  BY <1>1, DistinctAppend
<1>3. ASSUME NEW s \in Busy' PROVE Absent(s, results')
  BY <1>1, AbsentAppend
<1>. QED
  BY <1>2, <1>3 DEF OrderInv

(* No service has the index that stands for none.                          *)
LEMMA NoneIsNoService ==
  ASSUME TypeInv
  PROVE  None \notin todo /\ None \notin Ids
BY ConstantsAssumption DEF TypeInv, TypeOK, None, Ids

LEMMA WithoutCodeOrder ==
  ASSUME TypeInv, OrderInv, NEW s \in todo, WithoutCode(s)
  PROVE  OrderInv'
<1>1. s \in Ids /\ Credited(s) \in AllStates
  BY CreditedIs DEF TypeInv, TypeOK
<1>2. PICK r : r = Outcome(s, Credited(s), << >>, 0)
  OBVIOUS
<1>3. r \in AllOutcomes /\ r.id = s
  <2>. << >> \in Seq(Deferred)
    OBVIOUS
  <2>. QED
    BY <1>1, <1>2 DEF Outcome, AllOutcomes
<1>4. /\ results' = Append(results, r) /\ todo' = todo \ {s}
      /\ running = None /\ inRound /\ UNCHANGED <<running, inRound, inBlock>>
  BY <1>2 DEF WithoutCode
<1>5. Busy = todo /\ Busy' = Busy \ {s} /\ None \notin todo'
  BY <1>4, NoneIsNoService DEF Busy
<1>6. r.id \in Busy
  BY <1>3, <1>5
<1>. QED
  BY <1>3, <1>4, <1>5, <1>6, OrderInvOutcome

LEMMA EndInvocationOrder ==
  ASSUME TypeInv, OrderInv, EndInvocation
  PROVE  OrderInv'
<1>1. PICK end \in {x, y}, left \in Nat :
        /\ results' = Append(results, Outcome(running, end.state, end.transfers,
                                              GasFor(running) - left))
        /\ Outcome(running, end.state, end.transfers, GasFor(running) - left) \in AllOutcomes
  BY EndInvocationIs
<1>2. PICK r \in AllOutcomes : r.id = running /\ results' = Append(results, r)
  BY <1>1 DEF Outcome
<1>3. running # None /\ inRound /\ running' = None /\ UNCHANGED <<todo, inRound, inBlock>>
  BY DEF EndInvocation, OrderInv
<1>4. Busy = todo \cup {running} /\ Busy' = todo /\ None \notin todo'
  BY <1>3, NoneIsNoService DEF Busy
<1>5. Busy' = Busy \ {r.id} /\ r.id \in Busy
  BY <1>2, <1>4 DEF OrderInv
<1>. QED
  BY <1>2, <1>3, <1>4, <1>5, OrderInvOutcome

LEMMA OrderInvNext ==
  ASSUME TypeInv, TypeInv', OrderInv, [Next]_vars
  PROVE  OrderInv'
<1>1. CASE BeginBlock
  BY <1>1, OrderInvSame DEF BeginBlock
<1>2. CASE BeginRound
  <2>1. inBlock' /\ inRound' /\ ~inRound /\ UNCHANGED <<results, running>>
    BY <1>2 DEF BeginRound, Between
  <2>2. results' = << >> /\ running' = None
    BY <2>1 DEF OrderInv
  <2>3. None \notin todo'
    BY NoneIsNoService, ConstantsAssumption DEF TypeInv, TypeOK, None, Ids
  <2>4. Distinct(results') /\ \A s : Absent(s, results')
    BY <2>2, AbsentNone
  <2>. QED
    BY <2>1, <2>2, <2>3, <2>4 DEF OrderInv
<1>3. CASE EndRound
  <2>1. /\ results' = << >> /\ running' = None /\ todo' = {} /\ inRound' = FALSE
        /\ inBlock' = inBlock
    BY <1>3 DEF EndRound
  <2>2. Distinct(results') /\ \A s : Absent(s, results')
    BY <2>1, AbsentNone
  <2>. QED
    BY <2>1, <2>2 DEF OrderInv
<1>4. CASE EndBlock
  BY <1>4, OrderInvSame DEF EndBlock, Between
<1>5. ASSUME NEW s \in todo, WithoutCode(s)
      PROVE  OrderInv'
  BY <1>5, WithoutCodeOrder
<1>6. ASSUME NEW s \in todo, Invoke(s)
      PROVE  OrderInv'
  <2>1. /\ running = None /\ running' = s /\ todo' = todo \ {s} /\ inRound
        /\ UNCHANGED <<results, inRound, inBlock>>
    BY <1>6 DEF Invoke
  <2>2. Busy = todo /\ Busy' = Busy
    BY <2>1, <1>6, NoneIsNoService DEF Busy
  <2>. QED
    BY <2>1, <2>2 DEF OrderInv
<1>7. CASE HostCall
  <2>1. UNCHANGED <<todo, results, running, inRound, inBlock>>
    <3>1. Checkpoint \/ \E c, cost : CallOK(c, cost)
      BY <1>7, HostCallOK
    <3>. QED
      BY <3>1 DEF Checkpoint, CallOK, Becoming
  <2>2. Busy' = Busy
    BY <2>1 DEF Busy
  <2>. QED
    BY <2>1, <2>2 DEF OrderInv
<1>8. CASE EndInvocation
  BY <1>8, EndInvocationOrder
<1>9. CASE UNCHANGED vars
  BY <1>9, OrderInvSame DEF vars, round, OrderInv
<1>. QED
  BY <1>1, <1>2, <1>3, <1>4, <1>5, <1>6, <1>7, <1>8, <1>9 DEF Next

-----------------------------------------------------------------------------
(* Gas.                                                                    *)

FreeGas(fr) == SumOver(fr, LAMBDA g : g)
WorksGas(ws) == SumOver(ws, LAMBDA w : w.gas)

(* What a service gets in all, of each kind, and what a set of them gets.  *)
FreePart(s, fr) == IF s \in DOMAIN fr THEN fr[s] ELSE 0
TransferPart(s, ts) == SumOver(ts, LAMBDA t : IF t.to = s THEN t.gas ELSE 0)
WorkPart(s, ws) == SumOver(ws, LAMBDA w : IF w.service = s THEN w.gas ELSE 0)
AmountPart(s, ts) == SumOver(ts, LAMBDA t : IF t.to = s THEN t.amount ELSE 0)

(* There are finitely many services.                                       *)
LEMMA IdsFinite ==
  ASSUME NEW T \in SUBSET Ids
  PROVE  IsFiniteSet(T) /\ IsFiniteSet(Ids)
<1>1. IsFiniteSet(Ids)
  BY ConstantsAssumption, FS_Interval DEF Ids
<1>. QED
  BY <1>1, FS_Subset

(* The free gas of some services is no more than that of all; so it is     *)
(* with the gas and the amounts of transfers and the gas of reports.       *)
LEMMA FreeParts ==
  ASSUME NEW fr, FreeOK(fr), NEW T \in SUBSET Ids,
         NEW g, \A s \in T : g[s] = FreePart(s, fr)
  PROVE  /\ \A s \in T : g[s] \in Nat
         /\ FreeGas(fr) \in Nat /\ SumFunctionOnSet(g, T) <= FreeGas(fr)
<1>. DEFINE D == DOMAIN fr
            A == T \cap D
            f == [i \in D |-> fr[i]]
<1>1. IsFiniteSet(T) /\ IsFiniteSet(D) /\ \A i \in D : f[i] \in Nat
  BY IdsFinite DEF FreeOK
<1>2. FreeGas(fr) = SumFunctionOnSet(f, D)
  BY DEF FreeGas, SumOver, SumFunction
<1>3. ASSUME NEW s \in T
      PROVE  /\ g[s] \in Nat /\ g[s] \in Int
             /\ s \in D => g[s] = f[s]
             /\ s \notin D => g[s] = 0
  BY <1>1 DEF FreePart
<1>. HIDE DEF f, D
<1>4. /\ IsFiniteSet(A) /\ IsFiniteSet(T \ A) /\ IsFiniteSet(D \ A)
      /\ A \in SUBSET T /\ A \in SUBSET D
  BY <1>1, FS_Subset
<1>5. \A i \in D : f[i] \in Int
  BY <1>1
<1>6. /\ SumFunctionOnSet(g, T) = SumFunctionOnSet(g, A) + SumFunctionOnSet(g, T \ A)
      /\ SumFunctionOnSet(f, D) = SumFunctionOnSet(f, A) + SumFunctionOnSet(f, D \ A)
  BY <1>1, <1>3, <1>4, <1>5, SumSplit
<1>7. SumFunctionOnSet(g, A) = SumFunctionOnSet(f, A)
  <2>. \A i \in A : g[i] \in Int /\ g[i] = f[i]
    BY <1>3
  <2>. QED
    BY <1>4, SumSame
<1>8. SumFunctionOnSet(g, T \ A) = 0
  <2>. \A i \in T \ A : g[i] = 0
    BY <1>3
  <2>. QED
    BY <1>4, SumOfZeros
<1>9. SumFunctionOnSet(f, D \ A) \in Nat /\ SumFunctionOnSet(f, A) \in Nat
  <2>. /\ \A i \in D \ A : f[i] \in Nat
       /\ \A i \in A : f[i] \in Nat
    BY <1>1, <1>4
  <2>. QED
    BY <1>4, SumNat
<1>. HIDE DEF A
<1>10. FreeGas(fr) \in Nat /\ SumFunctionOnSet(g, T) <= FreeGas(fr)
  BY <1>2, <1>6, <1>7, <1>8, <1>9
<1>. QED
  BY <1>3, <1>10

LEMMA SumToNat ==
  ASSUME NEW S, IsFiniteSet(S), NEW f, \A i \in S : f[i] \in Nat, NEW d, NEW t
  PROVE  SumFunctionOnSet(To(t, f, d, S), S) \in Nat
<1>. \A i \in S : To(t, f, d, S)[i] \in Nat
  BY DEF To
<1>. QED
  BY SumNat

LEMMA TransferParts ==
  ASSUME NEW ts \in Seq(Deferred), NEW T \in SUBSET Ids,
         NEW g, \A s \in T : g[s] = TransferPart(s, ts)
  PROVE  /\ \A s \in T : g[s] \in Nat
         /\ GasOf(ts) \in Nat /\ SumFunctionOnSet(g, T) <= GasOf(ts)
<1>. DEFINE D == DOMAIN ts
            f == [i \in D |-> ts[i].gas]
            d == [i \in D |-> ts[i].to]
<1>1. IsFiniteSet(T) /\ IsFiniteSet(D) /\ \A i \in D : ts[i] \in Deferred
  BY IdsFinite, SeqParts
<1>2. \A i \in D : f[i] \in Nat
  BY <1>1 DEF Deferred
<1>3. GasOf(ts) = SumFunctionOnSet(f, D)
  BY DEF GasOf, SumOver, SumFunction
<1>4. ASSUME NEW s \in T
      PROVE  g[s] = SumFunctionOnSet(To(s, f, d, D), D)
  <2>1. To(s, f, d, D) = [i \in D |-> IF ts[i].to = s THEN ts[i].gas ELSE 0]
    BY DEF To
  <2>2. TransferPart(s, ts)
          = SumFunctionOnSet([i \in D |-> IF ts[i].to = s THEN ts[i].gas ELSE 0], D)
    BY DEF TransferPart, SumOver, SumFunction
  <2>. HIDE DEF f, d
  <2>. QED
    BY <2>1, <2>2
<1>. HIDE DEF D, f, d
<1>5. \A s \in T : g[s] \in Nat
  BY <1>1, <1>2, <1>4, SumToNat
<1>6. SumFunctionOnSet(g, T) <= SumFunctionOnSet(f, D)
  BY <1>1, <1>2, <1>4, SumToMembers
<1>7. SumFunctionOnSet(f, D) \in Nat
  BY <1>1, <1>2, SumNat
<1>. QED
  BY <1>3, <1>5, <1>6, <1>7

LEMMA AmountParts ==
  ASSUME NEW ts \in Seq(Deferred), NEW T \in SUBSET Ids,
         NEW g, \A s \in T : g[s] = AmountPart(s, ts)
  PROVE  /\ \A s \in T : g[s] \in Nat
         /\ InFlight(ts) \in Nat /\ SumFunctionOnSet(g, T) <= InFlight(ts)
<1>. DEFINE D == DOMAIN ts
            f == [i \in D |-> ts[i].amount]
            d == [i \in D |-> ts[i].to]
<1>1. IsFiniteSet(T) /\ IsFiniteSet(D) /\ \A i \in D : ts[i] \in Deferred
  BY IdsFinite, SeqParts
<1>2. \A i \in D : f[i] \in Nat
  BY <1>1 DEF Deferred
<1>3. InFlight(ts) = SumFunctionOnSet(f, D)
  BY DEF InFlight, SumOver, SumFunction
<1>4. ASSUME NEW s \in T
      PROVE  g[s] = SumFunctionOnSet(To(s, f, d, D), D)
  <2>1. To(s, f, d, D) = [i \in D |-> IF ts[i].to = s THEN ts[i].amount ELSE 0]
    BY DEF To
  <2>2. AmountPart(s, ts)
          = SumFunctionOnSet([i \in D |-> IF ts[i].to = s THEN ts[i].amount ELSE 0], D)
    BY DEF AmountPart, SumOver, SumFunction
  <2>. HIDE DEF f, d
  <2>. QED
    BY <2>1, <2>2
<1>. HIDE DEF D, f, d
<1>5. \A s \in T : g[s] \in Nat
  BY <1>1, <1>2, <1>4, SumToNat
<1>6. SumFunctionOnSet(g, T) <= SumFunctionOnSet(f, D)
  BY <1>1, <1>2, <1>4, SumToMembers
<1>7. SumFunctionOnSet(f, D) \in Nat
  BY <1>1, <1>2, SumNat
<1>. QED
  BY <1>3, <1>5, <1>6, <1>7

LEMMA WorkParts ==
  ASSUME NEW ts \in Seq(Work), NEW T \in SUBSET Ids,
         NEW g, \A s \in T : g[s] = WorkPart(s, ts)
  PROVE  /\ \A s \in T : g[s] \in Nat
         /\ WorksGas(ts) \in Nat /\ SumFunctionOnSet(g, T) <= WorksGas(ts)
<1>. DEFINE D == DOMAIN ts
            f == [i \in D |-> ts[i].gas]
            d == [i \in D |-> ts[i].service]
<1>1. IsFiniteSet(T) /\ IsFiniteSet(D) /\ \A i \in D : ts[i] \in Work
  BY IdsFinite, SeqParts
<1>2. \A i \in D : f[i] \in Nat
  BY <1>1 DEF Work
<1>3. WorksGas(ts) = SumFunctionOnSet(f, D)
  BY DEF WorksGas, SumOver, SumFunction
<1>4. ASSUME NEW s \in T
      PROVE  g[s] = SumFunctionOnSet(To(s, f, d, D), D)
  <2>1. To(s, f, d, D) = [i \in D |-> IF ts[i].service = s THEN ts[i].gas ELSE 0]
    BY DEF To
  <2>2. WorkPart(s, ts)
          = SumFunctionOnSet([i \in D |-> IF ts[i].service = s THEN ts[i].gas ELSE 0], D)
    BY DEF WorkPart, SumOver, SumFunction
  <2>. HIDE DEF f, d
  <2>. QED
    BY <2>1, <2>2
<1>. HIDE DEF D, f, d
<1>5. \A s \in T : g[s] \in Nat
  BY <1>1, <1>2, <1>4, SumToNat
<1>6. SumFunctionOnSet(g, T) <= SumFunctionOnSet(f, D)
  BY <1>1, <1>2, <1>4, SumToMembers
<1>7. SumFunctionOnSet(f, D) \in Nat
  BY <1>1, <1>2, SumNat
<1>. QED
  BY <1>3, <1>5, <1>6, <1>7

(* What a service gets in a round, and what there is for all.              *)
Share(s, fr, ts, ws) == FreePart(s, fr) + TransferPart(s, ts) + WorkPart(s, ws)
Shares(fr, ts, ws) == [s \in Ids |-> Share(s, fr, ts, ws)]
RoundGas(fr, ts, ws) == FreeGas(fr) + GasOf(ts) + WorksGas(ws)

(* The shares of some services are no more than the gas of the round.      *)
LEMMA SharesBounded ==
  ASSUME NEW fr, FreeOK(fr), NEW ts \in Seq(Deferred), NEW ws \in Seq(Work),
         NEW T \in SUBSET Ids
  PROVE  /\ \A s \in Ids : Shares(fr, ts, ws)[s] \in Nat
         /\ RoundGas(fr, ts, ws) \in Nat
         /\ SumFunctionOnSet(Shares(fr, ts, ws), T) \in Nat
         /\ SumFunctionOnSet(Shares(fr, ts, ws), T) <= RoundGas(fr, ts, ws)
<1>. DEFINE a == [s \in Ids |-> FreePart(s, fr)]
            b == [s \in Ids |-> TransferPart(s, ts)]
            c == [s \in Ids |-> WorkPart(s, ws)]
            ab == [s \in Ids |-> a[s] + b[s]]
            h == Shares(fr, ts, ws)
<1>0. \A s \in Ids : /\ a[s] = FreePart(s, fr) /\ b[s] = TransferPart(s, ts)
                     /\ c[s] = WorkPart(s, ws) /\ ab[s] = a[s] + b[s]
                     /\ h[s] = ab[s] + c[s]
  BY DEF Shares, Share
<1>. HIDE DEF a, b, c, ab, h
<1>1. Ids \in SUBSET Ids /\ IsFiniteSet(T) /\ T \subseteq Ids
  BY IdsFinite
<1>2. \A s \in Ids : a[s] \in Nat /\ b[s] \in Nat /\ c[s] \in Nat
  BY <1>0, <1>1, FreeParts, TransferParts, WorkParts
<1>3. /\ SumFunctionOnSet(a, T) <= FreeGas(fr)
      /\ SumFunctionOnSet(b, T) <= GasOf(ts)
  BY <1>0, <1>1, FreeParts, TransferParts
<1>4. SumFunctionOnSet(c, T) <= WorksGas(ws)
  BY <1>0, <1>1, WorkParts
<1>5. FreeGas(fr) \in Nat /\ GasOf(ts) \in Nat /\ WorksGas(ws) \in Nat
  BY <1>0, <1>1, FreeParts, TransferParts, WorkParts
<1>6. SumFunctionOnSet(ab, T) = SumFunctionOnSet(a, T) + SumFunctionOnSet(b, T)
  <2>. \A s \in T : a[s] \in Int /\ b[s] \in Int /\ ab[s] = a[s] + b[s]
    BY <1>0, <1>2
  <2>. QED
    BY <1>1, SumAdds
<1>7. SumFunctionOnSet(h, T) = SumFunctionOnSet(ab, T) + SumFunctionOnSet(c, T)
  <2>. \A s \in T : ab[s] \in Int /\ c[s] \in Int /\ h[s] = ab[s] + c[s]
    BY <1>0, <1>2
  <2>. QED
    BY <1>1, SumAdds
<1>8. /\ SumFunctionOnSet(a, T) \in Nat /\ SumFunctionOnSet(b, T) \in Nat
      /\ SumFunctionOnSet(c, T) \in Nat
  BY <1>1, <1>2, SumNat
<1>9. \A s \in Ids : h[s] \in Nat
  BY <1>0, <1>2
<1>10. RoundGas(fr, ts, ws) = FreeGas(fr) + GasOf(ts) + WorksGas(ws)
  BY DEF RoundGas
<1>11. /\ RoundGas(fr, ts, ws) \in Nat /\ SumFunctionOnSet(h, T) \in Nat
       /\ SumFunctionOnSet(h, T) <= RoundGas(fr, ts, ws)
  BY <1>3, <1>4, <1>5, <1>6, <1>7, <1>8, <1>10
<1>. QED
  BY <1>9, <1>11 DEF h

(* A service gets its share.                                               *)
LEMMA GasForIs ==
  ASSUME NEW s \in Ids
  PROVE  GasFor(s) = Shares(free, transfers, works)[s]
<1>1. /\ GasTo(s) = TransferPart(s, transfers)
      /\ SumOver(works, LAMBDA w : IF w.service = s THEN w.gas ELSE 0) = WorkPart(s, works)
  BY DEF GasTo, TransferPart, WorkPart
<1>2. GasFor(s) = Share(s, free, transfers, works)
  BY <1>1 DEF GasFor, Share, FreePart
<1>. QED
  BY <1>2 DEF Shares

(* What the services of the round used, and those to come will at most, is *)
(* no more than what there is for the round; its work is within the limit, *)
(* and the free gas was there before the block.                            *)
GasInv ==
  /\ inBlock => /\ FreeGas(free) <= before.free
                /\ limit - FreeGas(free) + before.free >= 0
                /\ works = << >> \/ WorksGas(works) <= limit
  /\ ~inRound => works = << >>
  /\ inRound => Used(results) + SumFunctionOnSet(Shares(free, transfers, works), Busy)
                  <= RoundGas(free, transfers, works)

(* The gas of a round in the first state, and in every step.               *)
LEMMA GasInvInit ==
  ASSUME Init
  PROVE  GasInv
<1>. ~inBlock /\ ~inRound /\ works = << >>
  BY DEF Init
<1>. QED
  BY DEF GasInv

LEMMA BeginBlockGas ==
  ASSUME TypeInv, OrderInv, GasInv, BeginBlock
  PROVE  GasInv'
<1>1. ~inRound /\ works = << >>
  BY DEF BeginBlock, OrderInv, GasInv
<1>2. AlwaysGas(e) \in Nat
  BY StateParts, AlwaysGasNat DEF TypeInv, TypeOK
<1>3. FreeGas(free') = AlwaysGas(e) /\ before'.free = AlwaysGas(e)
  BY DEF BeginBlock, FreeGas, AlwaysGas
<1>4. limit' \in Nat
  BY <1>2, ConstantsAssumption DEF BeginBlock, Greater
<1>5. ~inRound' /\ works' = << >>
  BY <1>1 DEF BeginBlock, round
<1>. QED
  BY <1>2, <1>3, <1>4, <1>5 DEF GasInv

LEMMA BeginRoundGas ==
  ASSUME TypeInv, TypeInv', OrderInv, GasInv, BeginRound
  PROVE  GasInv'
<1>1. /\ inBlock /\ ~inRound /\ results = << >> /\ running = None
      /\ UNCHANGED <<inBlock, free, limit, transfers, results, running, before>>
      /\ works' = SubSeq(reports, 1, Prefix) /\ inRound'
  BY DEF BeginRound, Between, OrderInv
<1>2. works' = << >> \/ WorksGas(works') <= limit'
  <2>1. Prefix \in 0 .. Len(reports) /\ \A j \in 1 .. Prefix : Fits(j)
    BY PrefixIs DEF TypeInv, TypeOK
  <2>2. CASE Prefix = 0
    <3>. SubSeq(reports, 1, 0) = << >>
      OBVIOUS
    <3>. QED
      BY <1>1, <2>2
  <2>3. CASE Prefix # 0
    <3>1. Fits(Prefix)
      <4>. Prefix \in 1 .. Prefix
        BY <2>1, <2>3
      <4>. QED
        BY <2>1
    <3>2. WorksGas(SubSeq(reports, 1, Prefix)) <= limit
      BY <3>1 DEF Fits, WorksGas
    <3>. QED
      BY <1>1, <3>2
  <2>. QED
    BY <2>2, <2>3
<1>3. Busy' \in SUBSET Ids
  BY <1>1 DEF Busy, TypeInv, TypeOK
<1>4. FreeOK(free') /\ transfers' \in Seq(Deferred) /\ works' \in Seq(Work)
  BY DEF TypeInv, TypeOK, FreeOK
<1>5. /\ SumFunctionOnSet(Shares(free', transfers', works'), Busy') \in Nat
      /\ SumFunctionOnSet(Shares(free', transfers', works'), Busy')
           <= RoundGas(free', transfers', works')
  BY <1>3, <1>4, SharesBounded
<1>6. Used(results') = 0
  BY <1>1, UsedNone
<1>7. Used(results') + SumFunctionOnSet(Shares(free', transfers', works'), Busy')
        <= RoundGas(free', transfers', works')
  BY <1>5, <1>6
<1>. QED
  BY <1>1, <1>2, <1>7 DEF GasInv

(* A service used no more than it got.                                     *)
LEMMA GasInvOutcome ==
  ASSUME TypeInv, OrderInv, GasInv, inRound, NEW r \in AllOutcomes, r.id \in Busy,
         r.used <= GasFor(r.id),
         results' = Append(results, r), Busy' = Busy \ {r.id},
         UNCHANGED <<inBlock, inRound, limit, free, transfers, works, before>>
  PROVE  GasInv'
<1>. DEFINE h == Shares(free, transfers, works)
<1>1. /\ FreeOK(free) /\ transfers \in Seq(Deferred) /\ works \in Seq(Work)
      /\ results \in Seq(AllOutcomes)
  BY DEF TypeInv, TypeOK
<1>2. Busy \in SUBSET Ids
  BY DEF Busy, TypeInv, TypeOK
<1>3. /\ \A s \in Ids : h[s] \in Nat
      /\ RoundGas(free, transfers, works) \in Nat
  BY <1>1, <1>2, SharesBounded
<1>4. r.id \in Ids /\ r.used \in Int
  BY DEF AllOutcomes
<1>5. GasFor(r.id) = h[r.id]
  BY <1>4, GasForIs
<1>. HIDE DEF h
<1>6. SumFunctionOnSet(h, Busy) = h[r.id] + SumFunctionOnSet(h, Busy \ {r.id})
  <2>. \A s \in Busy : h[s] \in Int
    BY <1>2, <1>3
  <2>. QED
    BY <1>2, IdsFinite, SumRemove
<1>7. SumFunctionOnSet(h, Busy \ {r.id}) \in Int
  <2>1. \A s \in Busy \ {r.id} : h[s] \in Int
    BY <1>2, <1>3
  <2>2. IsFiniteSet(Busy \ {r.id})
    BY <1>2, IdsFinite
  <2>. QED
    BY <2>1, <2>2, SumInt
<1>8. Used(results') = Used(results) + r.used /\ Used(results) \in Int
  BY <1>1, UsedAppend, UsedIs
<1>9. Used(results) + SumFunctionOnSet(h, Busy) <= RoundGas(free, transfers, works)
  BY DEF GasInv, h
<1>10. h[r.id] \in Int
  BY <1>3, <1>4
<1>11. Used(results') + SumFunctionOnSet(h, Busy') <= RoundGas(free, transfers, works)
  BY <1>3, <1>4, <1>5, <1>6, <1>7, <1>8, <1>9, <1>10
<1>12. Used(results') + SumFunctionOnSet(Shares(free', transfers', works'), Busy')
         <= RoundGas(free', transfers', works')
  BY <1>11 DEF h
<1>. QED
  BY <1>12 DEF GasInv

LEMMA WithoutCodeGas ==
  ASSUME TypeInv, OrderInv, GasInv, NEW s \in todo, WithoutCode(s)
  PROVE  GasInv'
<1>1. s \in Ids /\ Credited(s) \in AllStates
  BY CreditedIs DEF TypeInv, TypeOK
<1>2. PICK r : r = Outcome(s, Credited(s), << >>, 0)
  OBVIOUS
<1>3. r \in AllOutcomes /\ r.id = s /\ r.used = 0
  <2>. << >> \in Seq(Deferred)
    OBVIOUS
  <2>. QED
    BY <1>1, <1>2 DEF Outcome, AllOutcomes
<1>4. /\ results' = Append(results, r) /\ todo' = todo \ {s} /\ running = None /\ inRound
      /\ UNCHANGED <<inBlock, inRound, limit, free, transfers, works, before, running>>
  BY <1>2 DEF WithoutCode
<1>5. Busy = todo /\ Busy' = Busy \ {s}
  BY <1>4 DEF Busy
<1>6. r.used <= GasFor(r.id)
  <2>. GasFor(s) \in Nat
    BY GasForNat DEF TypeInv, TypeOK
  <2>. QED
    BY <1>3
<1>7. r.id \in Busy /\ Busy' = Busy \ {r.id}
  BY <1>3, <1>5
<1>. QED
  BY <1>3, <1>4, <1>6, <1>7, GasInvOutcome

LEMMA EndInvocationGas ==
  ASSUME TypeInv, OrderInv, GasInv, EndInvocation
  PROVE  GasInv'
<1>1. PICK end \in {x, y}, left \in Nat :
        /\ results' = Append(results, Outcome(running, end.state, end.transfers,
                                              GasFor(running) - left))
        /\ Outcome(running, end.state, end.transfers, GasFor(running) - left) \in AllOutcomes
  BY EndInvocationIs
<1>2. PICK r \in AllOutcomes : /\ r.id = running /\ results' = Append(results, r)
                               /\ r.used = GasFor(running) - left
  BY <1>1 DEF Outcome
<1>3. /\ running # None /\ inRound /\ running' = None
      /\ UNCHANGED <<todo, inRound, inBlock, limit, free, transfers, works, before>>
  BY DEF EndInvocation, OrderInv
<1>4. Busy = todo \cup {running} /\ Busy' = todo /\ running \notin todo
  BY <1>3, NoneIsNoService DEF Busy, OrderInv
<1>5. Busy' = Busy \ {r.id} /\ r.id \in Busy
  BY <1>2, <1>4
<1>6. r.used <= GasFor(r.id)
  <2>. GasFor(running) \in Nat
    BY GasForNat DEF TypeInv, TypeOK
  <2>. QED
    BY <1>2
<1>. QED
  BY <1>2, <1>3, <1>5, <1>6, GasInvOutcome

LEMMA EndRoundGas ==
  ASSUME TypeInv, OrderInv, GasInv, EndRound
  PROVE  GasInv'
<1>1. /\ inRound /\ running = None /\ todo = {} /\ free' = << >> /\ works' = << >>
      /\ inBlock /\ ~inRound' /\ UNCHANGED <<inBlock, before>>
      /\ limit' = limit + GasOf(transfers) - Used(results)
  BY DEF EndRound, OrderInv, Used
<1>2. Busy = {}
  BY <1>1 DEF Busy
<1>3. /\ FreeOK(free) /\ transfers \in Seq(Deferred) /\ works \in Seq(Work)
      /\ results \in Seq(AllOutcomes) /\ limit \in Int /\ before.free \in Nat
  BY DEF TypeInv, TypeOK
<1>4. Used(results) <= RoundGas(free, transfers, works) /\ Used(results) \in Int
  <2>1. SumFunctionOnSet(Shares(free, transfers, works), Busy) = 0
    BY <1>2, SumOfNone
  <2>2. Used(results) \in Int
    BY <1>3, UsedIs
  <2>. QED
    BY <1>1, <2>1, <2>2 DEF GasInv
<1>5. FreeGas(free) \in Nat /\ GasOf(transfers) \in Nat /\ WorksGas(works) \in Nat
  <2>. DEFINE a == [s \in {} |-> FreePart(s, free)]
              c == [s \in {} |-> WorkPart(s, works)]
  <2>1. {} \in SUBSET Ids
    OBVIOUS
  <2>. HIDE DEF a, c
  <2>2. /\ \A s \in {} : a[s] = FreePart(s, free)
        /\ \A s \in {} : c[s] = WorkPart(s, works)
    OBVIOUS
  <2>. QED
    BY <1>3, <2>1, <2>2, FreeParts, WorkParts, InFlightNat
<1>6. RoundGas(free, transfers, works) = FreeGas(free) + GasOf(transfers) + WorksGas(works)
  BY DEF RoundGas
<1>7. /\ FreeGas(free) <= before.free /\ limit - FreeGas(free) + before.free >= 0
      /\ works = << >> \/ WorksGas(works) <= limit
  BY <1>1 DEF GasInv
<1>8. works = << >> => WorksGas(works) = 0
  <2>1. SumFunctionOnSet([i \in DOMAIN << >> |-> (<< >>)[i].gas], {}) = 0
    BY SumOfNone
  <2>2. WorksGas(<< >>) = SumFunctionOnSet([i \in DOMAIN << >> |-> (<< >>)[i].gas], {})
    BY DEF WorksGas, SumOver, SumFunction
  <2>. QED
    BY <2>1, <2>2
<1>9. limit' + before.free >= 0 /\ limit' \in Int
  <2>. PICK f : f = FreeGas(free)
    OBVIOUS
  <2>. PICK g : g = GasOf(transfers)
    OBVIOUS
  <2>. PICK w : w = WorksGas(works)
    OBVIOUS
  <2>. PICK u : u = Used(results)
    OBVIOUS
  <2>1. /\ f \in Nat /\ g \in Nat /\ w \in Nat /\ u \in Int
        /\ limit \in Int /\ before.free \in Nat
    BY <1>3, <1>4, <1>5
  <2>2. u <= f + g + w
    BY <1>4, <1>6
  <2>3. limit' = limit + g - u
    BY <1>1
  <2>4. limit - f + before.free >= 0 /\ f <= before.free
    BY <1>7
  <2>5. w = 0 \/ w <= limit
    BY <1>7, <1>8
  <2>. QED
    BY <2>1, <2>2, <2>3, <2>4, <2>5
<1>10. FreeGas(<< >>) = 0
  <2>1. FreeGas(<< >>) = SumFunctionOnSet([i \in DOMAIN << >> |-> (<< >>)[i]], {})
    BY DEF FreeGas, SumOver, SumFunction
  <2>. QED
    BY <2>1, SumOfNone
<1>11. FreeGas(free') <= before'.free /\ limit' - FreeGas(free') + before'.free >= 0
  <2>1. FreeGas(free') = 0 /\ before' = before
    BY <1>1, <1>10
  <2>. QED
    BY <1>3, <1>9, <2>1
<1>. QED
  BY <1>1, <1>11 DEF GasInv

LEMMA GasInvNext ==
  ASSUME TypeInv, TypeInv', OrderInv, GasInv, [Next]_vars
  PROVE  GasInv'
<1>1. CASE BeginBlock
  BY <1>1, BeginBlockGas
<1>2. CASE BeginRound
  BY <1>2, BeginRoundGas
<1>3. CASE EndRound
  BY <1>3, EndRoundGas
<1>4. CASE EndBlock
  BY <1>4 DEF EndBlock, Between, round, GasInv
<1>5. ASSUME NEW s \in todo, WithoutCode(s)
      PROVE  GasInv'
  BY <1>5, WithoutCodeGas
<1>6. ASSUME UNCHANGED <<inBlock, inRound, limit, free, transfers, works, results, before>>,
             Busy' = Busy
      PROVE  GasInv'
  BY <1>6 DEF GasInv
<1>7. ASSUME NEW s \in todo, Invoke(s)
      PROVE  GasInv'
  <2>1. /\ running = None /\ running' = s /\ todo' = todo \ {s}
        /\ UNCHANGED <<inBlock, inRound, limit, free, transfers, works, results, before>>
    BY <1>7 DEF Invoke
  <2>2. Busy = todo /\ Busy' = Busy
    BY <2>1, <1>7, NoneIsNoService DEF Busy
  <2>. QED
    BY <1>6, <2>1, <2>2
<1>8. CASE HostCall
  <2>1. UNCHANGED <<inBlock, inRound, limit, free, transfers, works, results, before,
                    todo, running>>
    <3>1. Checkpoint \/ \E c, cost : CallOK(c, cost)
      BY <1>8, HostCallOK
    <3>. QED
      BY <3>1 DEF Checkpoint, CallOK, Becoming
  <2>2. Busy' = Busy
    BY <2>1 DEF Busy
  <2>. QED
    BY <1>6, <2>1, <2>2
<1>9. CASE EndInvocation
  BY <1>9, EndInvocationGas
<1>10. CASE UNCHANGED vars
  <2>1. UNCHANGED <<inBlock, inRound, limit, free, transfers, works, results, before,
                    todo, running>>
    BY <1>10 DEF vars
  <2>2. Busy' = Busy
    BY <2>1 DEF Busy
  <2>. QED
    BY <1>6, <2>1, <2>2
<1>. QED
  BY <1>1, <1>2, <1>3, <1>4, <1>5, <1>7, <1>8, <1>9, <1>10 DEF Next

(* The three invariants together.                                          *)
LEMMA InvariantsCorrect == Spec => [](TypeInv /\ OrderInv /\ GasInv)
<1>1. Init => TypeInv /\ OrderInv /\ GasInv
  BY TypeInvInit, OrderInvInit, GasInvInit
<1>2. TypeInv /\ OrderInv /\ GasInv /\ [Next]_vars => (TypeInv /\ OrderInv /\ GasInv)'
  BY TypeInvNext, OrderInvNext, GasInvNext
<1>. QED
  BY <1>1, <1>2, PTL DEF Spec

(* However the gas of transfers is passed on from round to round, no more  *)
(* is used than the limit and the free gas (accumulate.ts:180-218).        *)
THEOREM GasIsBounded == Spec => []GasBounded
<1>1. TypeInv /\ GasInv => GasBounded
  <2>. SUFFICES ASSUME TypeInv, GasInv, inBlock
                PROVE  limit + before.free >= 0
    BY DEF GasBounded
  <2>1. limit \in Int /\ before.free \in Nat /\ FreeOK(free)
    BY DEF TypeInv, TypeOK
  <2>2. FreeGas(free) \in Nat
    <3>. DEFINE a == [s \in {} |-> FreePart(s, free)]
    <3>1. {} \in SUBSET Ids /\ \A s \in {} : a[s] = FreePart(s, free)
      OBVIOUS
    <3>. HIDE DEF a
    <3>. QED
      BY <2>1, <3>1, FreeParts
  <2>3. limit - FreeGas(free) + before.free >= 0
    BY DEF GasInv
  <2>. QED
    BY <2>1, <2>2, <2>3
<1>. QED
  BY <1>1, InvariantsCorrect, PTL

-----------------------------------------------------------------------------
(* Money: what an outcome changes, against the accounts of the round.      *)

(* What outcome C of service s changes of the balance of k, as far as the  *)
(* merge may take it over: its own, new accounts', and ejected accounts'.  *)
Change(E, s, C, k) ==
  IF k \in DOMAIN C
  THEN IF k \notin DOMAIN E THEN C[k].balance
       ELSE IF k = s THEN C[k].balance - E[k].balance ELSE 0
  ELSE IF k \in DOMAIN E THEN -E[k].balance ELSE 0
Changes(E, s, C) == [k \in Ids |-> Change(E, s, C, k)]
Gain(E, s, C) == SumFunctionOnSet(Changes(E, s, C), Ids)

(* What s gains with all that it creates and ejects it does not owe to     *)
(* anybody; and it ejects only what names it as its ejector.               *)
Fair(E, s, C, ts) ==
  /\ InFlight(ts) + Gain(E, s, C) <= 0
  /\ s \in DOMAIN E => s \in DOMAIN C
  /\ \A k \in DOMAIN E \ DOMAIN C : E[k].code = s /\ k # s

(* A context knows the others no richer than they are.                     *)
Keeps(E, s, C) ==
  \A k \in (DOMAIN E \cap DOMAIN C) \ {s} :
    C[k].code = E[k].code /\ C[k].balance <= E[k].balance

(* A service that may be ejected has not run.                              *)
Settled(E, s, C) ==
  s \in DOMAIN E /\ E[s].code # Runs => C[s].balance = E[s].balance

FairContext(E, s, c) ==
  Fair(E, s, c.state.accounts, c.transfers) /\ Keeps(E, s, c.state.accounts)
FairOutcome(E, r) ==
  Fair(E, r.id, r.state.accounts, r.transfers) /\ Settled(E, r.id, r.state.accounts)

LEMMA IdsAreFinite == IsFiniteSet(Ids)
BY ConstantsAssumption, FS_Interval DEF Ids

(* What is under an index is an account.                                   *)
LEMMA BalanceNat ==
  ASSUME NEW A, AccountsOK(A), NEW k \in DOMAIN A
  PROVE  /\ A[k] \in Accounts /\ A[k].balance \in Nat /\ k \in Ids
         /\ A[k].code \in Ids \cup {Runs}
BY AccountParts DEF AccountsOK

(* Changes and gains are integers.                                         *)
LEMMA ChangesInt ==
  ASSUME NEW E, AccountsOK(E), NEW C, AccountsOK(C), NEW s
  PROVE  /\ \A k \in Ids : Changes(E, s, C)[k] = Change(E, s, C, k)
         /\ \A k \in Ids : Change(E, s, C, k) \in Int /\ Changes(E, s, C)[k] \in Int
         /\ Gain(E, s, C) \in Int
<1>1. \A k \in Ids : Changes(E, s, C)[k] = Change(E, s, C, k)
  BY DEF Changes
<1>2. ASSUME NEW k \in Ids PROVE Change(E, s, C, k) \in Int
  <2>1. /\ k \in DOMAIN E => E[k].balance \in Int
        /\ k \in DOMAIN C => C[k].balance \in Int
    BY BalanceNat
  <2>. QED
    BY <2>1 DEF Change
<1>3. \A k \in Ids : Changes(E, s, C)[k] \in Int
  BY <1>1, <1>2
<1>4. Gain(E, s, C) \in Int
  <2>. IsFiniteSet(Ids)
    BY IdsAreFinite
  <2>. QED
    BY <1>3, SumInt DEF Gain
<1>. QED
  BY <1>1, <1>2, <1>3, <1>4

(* The accounts of the round themselves change nothing.                    *)
LEMMA FairStart ==
  ASSUME NEW E, AccountsOK(E), NEW s
  PROVE  Fair(E, s, E, << >>) /\ Keeps(E, s, E) /\ Settled(E, s, E)
<1>1. \A k \in Ids : Changes(E, s, E)[k] = 0
  <2>1. ASSUME NEW k \in Ids PROVE Change(E, s, E, k) = 0
    <3>1. k \in DOMAIN E => E[k].balance \in Int
      BY BalanceNat
    <3>. QED
      BY <3>1 DEF Change
  <2>. QED
    BY <2>1, ChangesInt
<1>2. Gain(E, s, E) = 0
  <2>. IsFiniteSet(Ids)
    BY IdsAreFinite
  <2>. QED
    BY <1>1, SumOfZeros DEF Gain
<1>3. Fair(E, s, E, << >>)
  BY <1>2, InFlightNone DEF Fair
<1>4. ASSUME NEW k \in DOMAIN E PROVE E[k].balance <= E[k].balance
  <2>. E[k].balance \in Nat
    BY BalanceNat
  <2>. QED
    OBVIOUS
<1>. QED
  BY <1>3, <1>4 DEF Keeps, Settled

(* How the gain moves when one balance, or two, do.                        *)
LEMMA GainInOne ==
  ASSUME NEW E, AccountsOK(E), NEW C, AccountsOK(C), NEW D, AccountsOK(D), NEW s \in Ids,
         \A i \in Ids \ {s} : Change(E, s, D, i) = Change(E, s, C, i)
  PROVE  Gain(E, s, D) - Gain(E, s, C) = Change(E, s, D, s) - Change(E, s, C, s)
<1>. DEFINE f == Changes(E, s, C)
            g == Changes(E, s, D)
<1>1. /\ \A i \in Ids : f[i] = Change(E, s, C, i) /\ f[i] \in Int
      /\ \A i \in Ids : g[i] = Change(E, s, D, i) /\ g[i] \in Int
      /\ IsFiniteSet(Ids)
  BY ChangesInt, IdsAreFinite
<1>2. Gain(E, s, C) = SumFunctionOnSet(f, Ids) /\ Gain(E, s, D) = SumFunctionOnSet(g, Ids)
  BY DEF Gain
<1>. HIDE DEF f, g
<1>3. /\ SumFunctionOnSet(f, Ids) = f[s] + SumFunctionOnSet(f, Ids \ {s})
      /\ SumFunctionOnSet(g, Ids) = g[s] + SumFunctionOnSet(g, Ids \ {s})
  BY <1>1, SumRemove
<1>4. /\ SumFunctionOnSet(f, Ids \ {s}) = SumFunctionOnSet(g, Ids \ {s})
      /\ SumFunctionOnSet(f, Ids \ {s}) \in Int
  <2>1. \A i \in Ids \ {s} : f[i] \in Int /\ f[i] = g[i]
    BY <1>1
  <2>2. IsFiniteSet(Ids \ {s})
    BY <1>1, FS_RemoveElement
  <2>. QED
    BY <2>1, <2>2, SumSame, SumInt
<1>5. /\ f[s] \in Int /\ g[s] \in Int
      /\ f[s] = Change(E, s, C, s) /\ g[s] = Change(E, s, D, s)
  BY <1>1
<1>. QED
  BY <1>2, <1>3, <1>4, <1>5

LEMMA GainInTwo ==
  ASSUME NEW E, AccountsOK(E), NEW C, AccountsOK(C), NEW D, AccountsOK(D), NEW s \in Ids,
         NEW k \in Ids, k # s,
         \A i \in Ids \ {s, k} : Change(E, s, D, i) = Change(E, s, C, i)
  PROVE  Gain(E, s, D) - Gain(E, s, C)
           = (Change(E, s, D, s) - Change(E, s, C, s))
               + (Change(E, s, D, k) - Change(E, s, C, k))
<1>. DEFINE f == Changes(E, s, C)
            g == Changes(E, s, D)
<1>1. /\ \A i \in Ids : f[i] = Change(E, s, C, i) /\ f[i] \in Int
      /\ \A i \in Ids : g[i] = Change(E, s, D, i) /\ g[i] \in Int
      /\ IsFiniteSet(Ids)
  BY ChangesInt, IdsAreFinite
<1>2. Gain(E, s, C) = SumFunctionOnSet(f, Ids) /\ Gain(E, s, D) = SumFunctionOnSet(g, Ids)
  BY DEF Gain
<1>. HIDE DEF f, g
<1>3. \A i \in Ids : f[i] \in Int /\ g[i] \in Int
  BY <1>1
<1>4. \A i \in Ids \ {s, k} : g[i] = f[i]
  BY <1>1
<1>5. SumFunctionOnSet(g, Ids) - SumFunctionOnSet(f, Ids) = (g[s] - f[s]) + (g[k] - f[k])
  BY <1>1, <1>3, <1>4, SumChanges
<1>6. /\ f[s] = Change(E, s, C, s) /\ g[s] = Change(E, s, D, s)
      /\ f[k] = Change(E, s, C, k) /\ g[k] = Change(E, s, D, k)
  BY <1>1
<1>. QED
  BY <1>2, <1>5, <1>6

(* The three ways in which money moves are fair.                           *)
LEMMA FairPays ==
  ASSUME NEW E, AccountsOK(E), NEW s \in DOMAIN E, NEW c \in AllContexts,
         NEW d \in AllContexts, FairContext(E, s, c), Pays(c, d, s)
  PROVE  FairContext(E, s, d)
<1>. PICK C : C = c.state.accounts
  OBVIOUS
<1>. PICK D : D = d.state.accounts
  OBVIOUS
<1>1. /\ AccountsOK(C) /\ AccountsOK(D) /\ s \in Ids
      /\ c.transfers \in Seq(Deferred) /\ d.transfers \in Seq(Deferred)
  BY ContextParts, StateParts, BalanceNat
<1>2. /\ Fair(E, s, C, c.transfers) /\ Keeps(E, s, C) /\ s \in DOMAIN C
  BY DEF FairContext, Fair
<1>3. /\ DOMAIN D = DOMAIN C /\ \A i \in DOMAIN C \ {s} : D[i] = C[i]
      /\ C[s].balance - D[s].balance = InFlight(d.transfers) - InFlight(c.transfers)
  BY DEF Pays, SameOthers
<1>4. \A i \in Ids \ {s} : Change(E, s, D, i) = Change(E, s, C, i)
  BY <1>3 DEF Change
<1>5. Gain(E, s, D) - Gain(E, s, C) = Change(E, s, D, s) - Change(E, s, C, s)
  BY <1>1, <1>4, GainInOne
<1>6. /\ Change(E, s, D, s) = D[s].balance - E[s].balance
      /\ Change(E, s, C, s) = C[s].balance - E[s].balance
  BY <1>2, <1>3 DEF Change
<1>7. /\ D[s].balance \in Int /\ C[s].balance \in Int /\ E[s].balance \in Int
      /\ Gain(E, s, D) \in Int /\ Gain(E, s, C) \in Int
      /\ InFlight(c.transfers) \in Int /\ InFlight(d.transfers) \in Int
  BY <1>1, <1>2, <1>3, BalanceNat, ChangesInt, InFlightNat
<1>8. InFlight(c.transfers) + Gain(E, s, C) <= 0
  BY <1>2 DEF Fair
<1>9. InFlight(d.transfers) + Gain(E, s, D) <= 0
  BY <1>3, <1>5, <1>6, <1>7, <1>8
<1>10. Fair(E, s, D, d.transfers)
  BY <1>2, <1>3, <1>9 DEF Fair
<1>11. Keeps(E, s, D)
  BY <1>2, <1>3 DEF Keeps
<1>. QED
  BY <1>10, <1>11 DEF FairContext

(* A service that creates an account pays for it.                          *)
LEMMA FairCreates ==
  ASSUME NEW E, AccountsOK(E), NEW s \in DOMAIN E, NEW c \in AllContexts,
         NEW d \in AllContexts, FairContext(E, s, c),
         NEW k \in Ids \ DOMAIN E, Creates(c, d, s, k)
  PROVE  FairContext(E, s, d)
<1>. PICK C : C = c.state.accounts
  OBVIOUS
<1>. PICK D : D = d.state.accounts
  OBVIOUS
<1>1. /\ AccountsOK(C) /\ AccountsOK(D) /\ s \in Ids /\ c.transfers \in Seq(Deferred)
  BY ContextParts, StateParts, BalanceNat
<1>2. /\ Fair(E, s, C, c.transfers) /\ Keeps(E, s, C) /\ s \in DOMAIN C
  BY DEF FairContext, Fair
<1>3. /\ k \notin DOMAIN C /\ k # s
      /\ DOMAIN D = DOMAIN C \cup {k} /\ \A i \in DOMAIN C \ {s, k} : D[i] = C[i]
      /\ D[s].balance + D[k].balance = C[s].balance
      /\ d.transfers = c.transfers
  BY <1>2 DEF Creates, SameOthers
<1>4. \A i \in Ids \ {s, k} : Change(E, s, D, i) = Change(E, s, C, i)
  BY <1>3 DEF Change
<1>5. Gain(E, s, D) - Gain(E, s, C)
        = (Change(E, s, D, s) - Change(E, s, C, s)) + (Change(E, s, D, k) - Change(E, s, C, k))
  BY <1>1, <1>3, <1>4, GainInTwo
<1>6. /\ Change(E, s, D, s) = D[s].balance - E[s].balance
      /\ Change(E, s, C, s) = C[s].balance - E[s].balance
      /\ Change(E, s, D, k) = D[k].balance /\ Change(E, s, C, k) = 0
  BY <1>2, <1>3 DEF Change
<1>7. /\ D[s].balance \in Int /\ C[s].balance \in Int /\ E[s].balance \in Int
      /\ D[k].balance \in Int
      /\ Gain(E, s, D) \in Int /\ Gain(E, s, C) \in Int
      /\ InFlight(c.transfers) \in Int
  BY <1>1, <1>2, <1>3, BalanceNat, ChangesInt, InFlightNat
<1>8. InFlight(c.transfers) + Gain(E, s, C) <= 0
  BY <1>2 DEF Fair
<1>9. InFlight(d.transfers) + Gain(E, s, D) <= 0
  BY <1>3, <1>5, <1>6, <1>7, <1>8
<1>10. Fair(E, s, D, d.transfers)
  BY <1>2, <1>3, <1>9 DEF Fair
<1>11. Keeps(E, s, D)
  BY <1>2, <1>3 DEF Keeps
<1>. QED
  BY <1>10, <1>11 DEF FairContext

(* A service that ejects another gets no more than what that one had.      *)
LEMMA FairEjects ==
  ASSUME NEW E, AccountsOK(E), NEW s \in DOMAIN E, NEW c \in AllContexts,
         NEW d \in AllContexts, FairContext(E, s, c), NEW k \in Ids, Ejects(c, d, s, k)
  PROVE  FairContext(E, s, d)
<1>. PICK C : C = c.state.accounts
  OBVIOUS
<1>. PICK D : D = d.state.accounts
  OBVIOUS
<1>1. /\ AccountsOK(C) /\ AccountsOK(D) /\ s \in Ids /\ c.transfers \in Seq(Deferred)
  BY ContextParts, StateParts, BalanceNat
<1>2. /\ Fair(E, s, C, c.transfers) /\ Keeps(E, s, C) /\ s \in DOMAIN C
  BY DEF FairContext, Fair
<1>3. /\ k \in DOMAIN C /\ k # s /\ C[k].code = s
      /\ DOMAIN D = DOMAIN C \ {k} /\ \A i \in DOMAIN C \ {s, k} : D[i] = C[i]
      /\ D[s].balance = C[s].balance + C[k].balance
      /\ d.transfers = c.transfers
  BY DEF Ejects, SameOthers
<1>4. \A i \in Ids \ {s, k} : Change(E, s, D, i) = Change(E, s, C, i)
  BY <1>3 DEF Change
<1>5. Gain(E, s, D) - Gain(E, s, C)
        = (Change(E, s, D, s) - Change(E, s, C, s)) + (Change(E, s, D, k) - Change(E, s, C, k))
  BY <1>1, <1>3, <1>4, GainInTwo
<1>6. /\ Change(E, s, D, s) = D[s].balance - E[s].balance
      /\ Change(E, s, C, s) = C[s].balance - E[s].balance
  BY <1>2, <1>3 DEF Change
<1>7. /\ D[s].balance \in Int /\ C[s].balance \in Int /\ E[s].balance \in Int
      /\ C[k].balance \in Int
      /\ Gain(E, s, D) \in Int /\ Gain(E, s, C) \in Int
      /\ InFlight(c.transfers) \in Int
  <2>1. s \in DOMAIN D /\ s \in DOMAIN C /\ k \in DOMAIN C
    BY <1>2, <1>3
  <2>2. /\ D[s].balance \in Nat /\ C[s].balance \in Nat /\ E[s].balance \in Nat
        /\ C[k].balance \in Nat
    BY <1>1, <2>1, BalanceNat
  <2>3. Gain(E, s, D) \in Int /\ Gain(E, s, C) \in Int
    BY <1>1, ChangesInt
  <2>4. InFlight(c.transfers) \in Nat
    BY <1>1, InFlightNat
  <2>. QED
    BY <2>2, <2>3, <2>4
<1>8. InFlight(c.transfers) + Gain(E, s, C) <= 0
  BY <1>2 DEF Fair
<1>9. /\ Change(E, s, D, k) - Change(E, s, C, k) + C[k].balance <= 0
      /\ k \in DOMAIN E => E[k].code = s
  <2>1. CASE k \in DOMAIN E
    <3>1. Change(E, s, D, k) = -E[k].balance /\ Change(E, s, C, k) = 0
      BY <1>3, <2>1 DEF Change
    <3>2. C[k].code = E[k].code /\ C[k].balance <= E[k].balance /\ E[k].balance \in Int
      BY <1>2, <1>3, <2>1, BalanceNat DEF Keeps
    <3>. QED
      BY <1>3, <1>7, <3>1, <3>2
  <2>2. CASE k \notin DOMAIN E
    <3>1. Change(E, s, D, k) = 0 /\ Change(E, s, C, k) = C[k].balance
      BY <1>3, <2>2 DEF Change
    <3>. QED
      BY <1>7, <2>2, <3>1
  <2>. QED
    BY <2>1, <2>2
<1>10. Change(E, s, D, k) \in Int /\ Change(E, s, C, k) \in Int
  BY <1>1, ChangesInt
<1>11. InFlight(d.transfers) + Gain(E, s, D) <= 0
  BY <1>3, <1>5, <1>6, <1>7, <1>8, <1>9, <1>10
<1>12. Fair(E, s, D, d.transfers)
  <2>1. \A i \in DOMAIN E \ DOMAIN D : E[i].code = s /\ i # s
    BY <1>2, <1>3, <1>9 DEF Fair
  <2>. QED
    BY <1>2, <1>3, <1>11, <2>1 DEF Fair
<1>13. Keeps(E, s, D)
  BY <1>2, <1>3 DEF Keeps
<1>. QED
  BY <1>12, <1>13 DEF FairContext

(* Hence whatever call of Moves it makes, its context stays fair.          *)
LEMMA FairMoves ==
  ASSUME TypeInv, NEW s \in DOMAIN e.accounts, NEW c \in AllContexts, NEW d \in AllContexts,
         FairContext(e.accounts, s, c), Moves(c, d, s)
  PROVE  FairContext(e.accounts, s, d)
<1>1. AccountsOK(e.accounts)
  BY StateParts DEF TypeInv, TypeOK
<1>2. CASE Pays(c, d, s)
  BY <1>1, <1>2, FairPays
<1>3. ASSUME NEW k \in Ids \ DOMAIN e.accounts, Creates(c, d, s, k)
      PROVE  FairContext(e.accounts, s, d)
  BY <1>1, <1>3, FairCreates
<1>4. ASSUME NEW k \in Ids, Ejects(c, d, s, k)
      PROVE  FairContext(e.accounts, s, d)
  BY <1>1, <1>4, FairEjects
<1>. QED
  BY <1>2, <1>3, <1>4 DEF Moves

(* An outcome stays fair when another service of the round is credited.    *)
LEMMA FairCredited ==
  ASSUME NEW E, AccountsOK(E), NEW F, AccountsOK(F), NEW r \in AllOutcomes,
         FairOutcome(E, r), NEW t, t # r.id,
         DOMAIN F = DOMAIN E, \A k \in DOMAIN E : F[k].code = E[k].code,
         \A k \in DOMAIN E : k # t => F[k] = E[k],
         t \in DOMAIN E => F[t].balance >= E[t].balance
  PROVE  FairOutcome(F, r)
<1>. PICK C : C = r.state.accounts
  OBVIOUS
<1>. PICK s : s = r.id
  OBVIOUS
<1>1. AccountsOK(C) /\ s \in Ids /\ r.transfers \in Seq(Deferred)
  BY OutcomeParts
<1>2. Fair(E, s, C, r.transfers) /\ Settled(E, s, C)
  BY DEF FairOutcome
<1>3. ASSUME NEW k \in Ids PROVE Change(F, s, C, k) <= Change(E, s, C, k)
  <2>0. Change(F, s, C, k) \in Int /\ Change(E, s, C, k) \in Int
    BY <1>1, ChangesInt
  <2>1. CASE k = t /\ k \in DOMAIN E /\ k \notin DOMAIN C
    <3>1. Change(F, s, C, k) = -F[k].balance /\ Change(E, s, C, k) = -E[k].balance
      BY <2>1 DEF Change
    <3>2. F[k].balance \in Int /\ E[k].balance \in Int
      BY <2>1, BalanceNat
    <3>. QED
      BY <2>1, <3>1, <3>2
  <2>2. CASE ~(k = t /\ k \in DOMAIN E /\ k \notin DOMAIN C)
    <3>. Change(F, s, C, k) = Change(E, s, C, k)
      BY <2>2 DEF Change
    <3>. QED
      BY <2>0
  <2>. QED
    BY <2>1, <2>2
<1>4. Gain(F, s, C) <= Gain(E, s, C)
  <2>. DEFINE f == Changes(F, s, C)
              g == Changes(E, s, C)
  <2>1. \A k \in Ids : f[k] \in Int /\ g[k] \in Int /\ f[k] <= g[k]
    BY <1>1, <1>3, ChangesInt
  <2>2. IsFiniteSet(Ids)
    BY IdsAreFinite
  <2>3. Gain(F, s, C) = SumFunctionOnSet(f, Ids) /\ Gain(E, s, C) = SumFunctionOnSet(g, Ids)
    BY DEF Gain
  <2>. HIDE DEF f, g
  <2>. QED
    BY <2>1, <2>2, <2>3, SumMonotone
<1>5. /\ Gain(F, s, C) \in Int /\ Gain(E, s, C) \in Int /\ InFlight(r.transfers) \in Int
  BY <1>1, ChangesInt, InFlightNat
<1>6. InFlight(r.transfers) + Gain(E, s, C) <= 0
  BY <1>2 DEF Fair
<1>7. InFlight(r.transfers) + Gain(F, s, C) <= 0
  BY <1>4, <1>5, <1>6
<1>8. Fair(F, s, C, r.transfers)
  BY <1>2, <1>7 DEF Fair
<1>9. Settled(F, s, C)
  BY <1>2 DEF Settled
<1>. QED
  BY <1>8, <1>9 DEF FairOutcome

-----------------------------------------------------------------------------
(* Money: the merge of a round.                                            *)

Balance(A, k) == IF k \in DOMAIN A THEN A[k].balance ELSE 0
Balances(A) == [k \in Ids |-> Balance(A, k)]

(* The funds are the sum of the balances under all indices.                *)
LEMMA TotalIs ==
  ASSUME NEW A, AccountsOK(A)
  PROVE  /\ \A k \in Ids : Balances(A)[k] = Balance(A, k) /\ Balance(A, k) \in Nat
         /\ Total(A) = SumFunctionOnSet(Balances(A), Ids)
<1>. DEFINE D == DOMAIN A
            f == [k \in D |-> A[k].balance]
            g == Balances(A)
<1>1. /\ Total(A) = SumFunctionOnSet(f, D)
      /\ D \in SUBSET Ids /\ IsFiniteSet(Ids) /\ IsFiniteSet(D) /\ IsFiniteSet(Ids \ D)
  <2>1. D \in SUBSET Ids
    BY DEF AccountsOK
  <2>2. Total(A) = SumFunctionOnSet(f, D)
    BY DEF Total, SumOver, SumFunction
  <2>. HIDE DEF D
  <2>. QED
    BY <2>1, <2>2, IdsAreFinite, FS_Subset
<1>2. ASSUME NEW k \in Ids
      PROVE  /\ g[k] = Balance(A, k) /\ g[k] \in Nat /\ g[k] \in Int
             /\ k \in D => g[k] = f[k]
             /\ k \notin D => g[k] = 0
  BY BalanceNat DEF Balances, Balance
<1>. HIDE DEF f, g, D
<1>3. SumFunctionOnSet(g, Ids) = SumFunctionOnSet(g, D) + SumFunctionOnSet(g, Ids \ D)
  BY <1>1, <1>2, SumSplit
<1>4. SumFunctionOnSet(g, D) = SumFunctionOnSet(f, D)
  <2>. \A k \in D : g[k] \in Int /\ g[k] = f[k]
    BY <1>1, <1>2
  <2>. QED
    BY <1>1, SumSame
<1>5. SumFunctionOnSet(g, Ids \ D) = 0
  <2>. \A k \in Ids \ D : g[k] = 0
    BY <1>2
  <2>. QED
    BY <1>1, SumOfZeros
<1>6. SumFunctionOnSet(g, D) \in Int
  <2>. \A k \in D : g[k] \in Int
    BY <1>1, <1>2
  <2>. QED
    BY <1>1, SumInt
<1>7. Total(A) = SumFunctionOnSet(g, Ids)
  BY <1>1, <1>3, <1>4, <1>5, <1>6
<1>. QED
  BY <1>2, <1>7 DEF g

(* The changes of all the outcomes, by outcome and service.                *)
ChangeTable == [i \in DOMAIN results |->
                  Changes(e.accounts, results[i].id, results[i].state.accounts)]
ChangesOf(k) == Column(ChangeTable, DOMAIN results, k)

FairOutcomes == \A i \in DOMAIN results : FairOutcome(e.accounts, results[i])

(* The changes that the outcomes make of one balance.                      *)
LEMMA ChangesOfIs ==
  ASSUME TypeInv, NEW k \in Ids, NEW i \in DOMAIN results
  PROVE  /\ ChangesOf(k)[i] = Change(e.accounts, results[i].id, results[i].state.accounts, k)
         /\ ChangesOf(k)[i] \in Int
         /\ AccountsOK(results[i].state.accounts) /\ results[i].id \in Ids
<1>1. results[i] \in AllOutcomes /\ AccountsOK(e.accounts)
  BY SeqParts, StateParts DEF TypeInv, TypeOK
<1>2. AccountsOK(results[i].state.accounts) /\ results[i].id \in Ids
  BY <1>1, OutcomeParts
<1>3. ChangesOf(k)[i] = Changes(e.accounts, results[i].id, results[i].state.accounts)[k]
  BY DEF ChangesOf, Column, ChangeTable
<1>. QED
  BY <1>1, <1>2, <1>3, ChangesInt

(* The merge takes over no more than these changes: an account that is new *)
(* from one outcome, a service's own from its own, and an ejected account  *)
(* from its ejector's, which is the only one.                              *)
LEMMA MergedNew ==
  ASSUME TypeInv, OrderInv, FairOutcomes, NEW k \in Ids, k \notin DOMAIN e.accounts
  PROVE  Balance(MergedAccounts, k)
           <= Balance(e.accounts, k) + SumFunctionOnSet(ChangesOf(k), DOMAIN results)
<1>. DEFINE f == ChangesOf(k)
<1>1. IsFiniteSet(DOMAIN results)
  BY SeqParts DEF TypeInv, TypeOK
<1>2. ASSUME NEW i \in DOMAIN results
      PROVE  /\ f[i] \in Nat
             /\ k \in DOMAIN results[i].state.accounts
                  => f[i] = results[i].state.accounts[k].balance
  <2>1. /\ f[i] = Change(e.accounts, results[i].id, results[i].state.accounts, k)
        /\ AccountsOK(results[i].state.accounts)
    BY ChangesOfIs
  <2>. HIDE DEF f
  <2>2. CASE k \in DOMAIN results[i].state.accounts
    <3>. results[i].state.accounts[k].balance \in Nat
      BY <2>1, <2>2, BalanceNat
    <3>. QED
      BY <2>1, <2>2 DEF Change
  <2>3. CASE k \notin DOMAIN results[i].state.accounts
    BY <2>1, <2>3 DEF Change
  <2>. QED
    BY <2>2, <2>3
<1>. HIDE DEF f
<1>3. SumFunctionOnSet(f, DOMAIN results) \in Nat
  BY <1>1, <1>2, SumNat
<1>4. Balance(e.accounts, k) = 0
  BY DEF Balance
<1>5. CASE Writers(k) = {}
  <2>. k \notin DOMAIN MergedAccounts
    BY <1>5 DEF MergedAccounts
  <2>. QED
    BY <1>3, <1>4 DEF Balance, f
<1>6. CASE Writers(k) # {}
  <2>1. PICK m : m = Max(Writers(k))
    OBVIOUS
  <2>2. m \in DOMAIN results /\ k \in DOMAIN results[m].state.accounts
    BY <1>6, <2>1, WritersIn DEF TypeInv, TypeOK
  <2>3. k \in DOMAIN MergedAccounts /\ MergedAccounts[k] = results[m].state.accounts[k]
    BY <1>6, <2>1 DEF MergedAccounts, Removed
  <2>4. f[m] <= SumFunctionOnSet(f, DOMAIN results) /\ f[m] \in Nat
    BY <1>1, <1>2, <2>2, SumBounds
  <2>5. Balance(MergedAccounts, k) = f[m]
    BY <1>2, <2>2, <2>3 DEF Balance
  <2>. QED
    BY <1>3, <1>4, <2>4, <2>5 DEF f
<1>. QED
  BY <1>5, <1>6

(* A balance that is kept is what the outcomes made of it.                 *)
LEMMA MergedKept ==
  ASSUME TypeInv, OrderInv, FairOutcomes, NEW k \in DOMAIN e.accounts, k \notin Removed
  PROVE  Balance(MergedAccounts, k)
           <= Balance(e.accounts, k) + SumFunctionOnSet(ChangesOf(k), DOMAIN results)
<1>. DEFINE f == ChangesOf(k)
<1>1. IsFiniteSet(DOMAIN results)
  BY SeqParts DEF TypeInv, TypeOK
<1>2. k \in Ids /\ e.accounts[k].balance \in Nat
  BY StateParts, BalanceNat DEF TypeInv, TypeOK
<1>3. ASSUME NEW i \in DOMAIN results
      PROVE  /\ k \in DOMAIN results[i].state.accounts
             /\ results[i].id # k => f[i] = 0
             /\ results[i].id = k => f[i] = results[i].state.accounts[k].balance
                                              - e.accounts[k].balance
             /\ results[i].state.accounts[k].balance \in Nat
  <2>1. k \in DOMAIN results[i].state.accounts
    BY DEF Removed
  <2>2. /\ f[i] = Change(e.accounts, results[i].id, results[i].state.accounts, k)
        /\ AccountsOK(results[i].state.accounts)
    BY <1>2, ChangesOfIs
  <2>3. results[i].state.accounts[k].balance \in Nat
    BY <2>1, <2>2, BalanceNat
  <2>. HIDE DEF f
  <2>. QED
    BY <2>1, <2>2, <2>3 DEF Change
<1>. HIDE DEF f
<1>4. Balance(e.accounts, k) = e.accounts[k].balance
  BY DEF Balance
<1>5. CASE Writers(k) = {}
  <2>1. k \in DOMAIN MergedAccounts /\ MergedAccounts[k] = e.accounts[k]
    BY <1>2, <1>5 DEF MergedAccounts
  <2>2. \A i \in DOMAIN results : f[i] = 0
    BY <1>3, <1>5 DEF Writers
  <2>3. SumFunctionOnSet(f, DOMAIN results) = 0
    BY <1>1, <2>2, SumOfZeros
  <2>. QED
    BY <1>2, <1>4, <2>1, <2>3 DEF Balance, f
<1>6. CASE Writers(k) # {}
  <2>1. PICK m : m = Max(Writers(k))
    OBVIOUS
  <2>2. m \in DOMAIN results /\ m \in Writers(k)
    BY <1>6, <2>1, WritersIn DEF TypeInv, TypeOK
  <2>3. results[m].id = k
    BY <2>2 DEF Writers
  <2>4. k \in DOMAIN MergedAccounts /\ MergedAccounts[k] = results[m].state.accounts[k]
    BY <1>2, <1>6, <2>1 DEF MergedAccounts
  <2>5. \A i \in DOMAIN results \ {m} : f[i] = 0
    BY <1>3, <2>2, <2>3 DEF OrderInv, Distinct
  <2>6. /\ f[m] = results[m].state.accounts[k].balance - e.accounts[k].balance
        /\ results[m].state.accounts[k].balance \in Nat
    BY <1>3, <2>2, <2>3
  <2>7. SumFunctionOnSet(f, DOMAIN results) = f[m]
    <3>. f[m] \in Int
      BY <1>2, <2>6
    <3>. QED
      BY <1>1, <2>2, <2>5, SumOfOne
  <2>8. Balance(MergedAccounts, k) = results[m].state.accounts[k].balance
    BY <2>4 DEF Balance
  <2>. QED
    BY <1>2, <1>4, <2>6, <2>7, <2>8 DEF f
<1>. QED
  BY <1>5, <1>6

(* A balance that is ejected was somebody's gain.                          *)
LEMMA MergedGone ==
  ASSUME TypeInv, OrderInv, FairOutcomes, NEW k \in DOMAIN e.accounts, k \in Removed
  PROVE  Balance(MergedAccounts, k)
           <= Balance(e.accounts, k) + SumFunctionOnSet(ChangesOf(k), DOMAIN results)
<1>. DEFINE f == ChangesOf(k)
<1>1. IsFiniteSet(DOMAIN results)
  BY SeqParts DEF TypeInv, TypeOK
<1>2. k \in Ids /\ e.accounts[k].balance \in Nat
  BY StateParts, BalanceNat DEF TypeInv, TypeOK
<1>3. PICK m \in DOMAIN results : k \notin DOMAIN results[m].state.accounts
  BY DEF Removed
<1>4. \A i \in DOMAIN results :
        /\ f[i] = Change(e.accounts, results[i].id, results[i].state.accounts, k)
        /\ results[i].id \in Ids
  BY <1>2, ChangesOfIs
<1>. HIDE DEF f
<1>5. \A i \in DOMAIN results :
        /\ k \notin DOMAIN results[i].state.accounts
             => e.accounts[k].code = results[i].id /\ k # results[i].id
        /\ Settled(e.accounts, results[i].id, results[i].state.accounts)
  BY DEF FairOutcomes, FairOutcome, Fair
<1>6. e.accounts[k].code = results[m].id /\ e.accounts[k].code # Runs
  <2>. Runs \notin Ids
    BY ConstantsAssumption DEF Runs, Ids
  <2>. QED
    BY <1>3, <1>4, <1>5
<1>7. f[m] = -e.accounts[k].balance
  BY <1>3, <1>4 DEF Change
<1>8. ASSUME NEW i \in DOMAIN results \ {m} PROVE f[i] = 0
  <2>1. results[i].id # results[m].id
    BY DEF OrderInv, Distinct
  <2>2. k \in DOMAIN results[i].state.accounts
    BY <1>5, <1>6, <2>1
  <2>3. CASE results[i].id = k
    <3>1. results[i].state.accounts[k].balance = e.accounts[k].balance
      BY <1>5, <1>6, <2>3 DEF Settled
    <3>2. f[i] = results[i].state.accounts[k].balance - e.accounts[k].balance
      BY <1>4, <2>2, <2>3 DEF Change
    <3>. QED
      BY <1>2, <3>1, <3>2
  <2>4. CASE results[i].id # k
    BY <1>4, <2>2, <2>4 DEF Change
  <2>. QED
    BY <2>3, <2>4
<1>9. SumFunctionOnSet(f, DOMAIN results) = f[m]
  <2>. f[m] \in Int
    BY <1>2, <1>7
  <2>. QED
    BY <1>1, <1>8, SumOfOne
<1>10. Balance(MergedAccounts, k) = 0 /\ Balance(e.accounts, k) = e.accounts[k].balance
  BY DEF Balance, MergedAccounts
<1>. QED
  BY <1>2, <1>7, <1>9, <1>10 DEF f

(* Every balance after the merge is no more than it was, and what the      *)
(* outcomes changed.                                                       *)
LEMMA MergedBalance ==
  ASSUME TypeInv, OrderInv, FairOutcomes, NEW k \in Ids
  PROVE  Balance(MergedAccounts, k)
           <= Balance(e.accounts, k) + SumFunctionOnSet(ChangesOf(k), DOMAIN results)
BY MergedNew, MergedKept, MergedGone

(* What the outcomes change, and the transfers they leave, is not positive *)
(* in all.                                                                 *)
LEMMA AllChanges ==
  ASSUME TypeInv, FairOutcomes,
         NEW cols, \A k \in Ids : cols[k] = SumFunctionOnSet(ChangesOf(k), DOMAIN results),
         NEW fl, \A i \in DOMAIN results : fl[i] = InFlight(results[i].transfers)
  PROVE  /\ \A k \in Ids : cols[k] \in Int
         /\ SumFunctionOnSet(cols, Ids) \in Int /\ SumFunctionOnSet(fl, DOMAIN results) \in Int
         /\ SumFunctionOnSet(cols, Ids) + SumFunctionOnSet(fl, DOMAIN results) <= 0
<1>. DEFINE D == DOMAIN results
            table == ChangeTable
            rows == [i \in D |-> Gain(e.accounts, results[i].id, results[i].state.accounts)]
            both == [i \in D |-> rows[i] + fl[i]]
            zero == [i \in D |-> 0]
<1>1. IsFiniteSet(D) /\ IsFiniteSet(Ids) /\ AccountsOK(e.accounts)
  BY IdsAreFinite, SeqParts, StateParts DEF TypeInv, TypeOK
<1>2. ASSUME NEW i \in D
      PROVE  /\ rows[i] = SumFunctionOnSet(table[i], Ids)
             /\ \A k \in Ids : table[i][k] \in Int
             /\ rows[i] \in Int /\ fl[i] \in Int /\ rows[i] + fl[i] <= 0
  <2>1. results[i] \in AllOutcomes
    BY SeqParts DEF TypeInv, TypeOK
  <2>2. AccountsOK(results[i].state.accounts) /\ results[i].transfers \in Seq(Deferred)
    BY <2>1, OutcomeParts
  <2>3. table[i] = Changes(e.accounts, results[i].id, results[i].state.accounts)
    BY DEF ChangeTable
  <2>4. rows[i] = Gain(e.accounts, results[i].id, results[i].state.accounts)
    OBVIOUS
  <2>5. InFlight(results[i].transfers) \in Int
    BY <2>2, InFlightNat
  <2>6. InFlight(results[i].transfers)
          + Gain(e.accounts, results[i].id, results[i].state.accounts) <= 0
    BY DEF FairOutcomes, FairOutcome, Fair
  <2>7. /\ \A k \in Ids :
             Changes(e.accounts, results[i].id, results[i].state.accounts)[k] \in Int
        /\ Gain(e.accounts, results[i].id, results[i].state.accounts) \in Int
    BY <1>1, <2>2, ChangesInt
  <2>8. rows[i] = SumFunctionOnSet(table[i], Ids)
    <3>. HIDE DEF table, rows
    <3>. QED
      BY <2>3, <2>4 DEF Gain
  <2>. HIDE DEF table, rows
  <2>. QED
    BY <2>3, <2>4, <2>5, <2>6, <2>7, <2>8
<1>3. ASSUME NEW k \in Ids
      PROVE  cols[k] = SumFunctionOnSet(Column(table, D, k), D) /\ cols[k] \in Int
  <2>1. cols[k] = SumFunctionOnSet(ChangesOf(k), D)
    OBVIOUS
  <2>2. \A i \in D : ChangesOf(k)[i] \in Int
    BY ChangesOfIs
  <2>3. SumFunctionOnSet(ChangesOf(k), D) \in Int
    BY <1>1, <2>2, SumInt
  <2>. QED
    BY <2>1, <2>3 DEF ChangesOf
<1>. HIDE DEF table, rows
<1>4. SumFunctionOnSet(rows, D) = SumFunctionOnSet(cols, Ids)
  <2>1. Table(table, D, Ids) /\ RowSums(rows, table, D, Ids)
    BY <1>2 DEF Table, RowSums
  <2>2. ColumnSums(cols, table, D, Ids)
    BY <1>3 DEF ColumnSums
  <2>. HIDE DEF D
  <2>. QED
    BY <1>1, <2>1, <2>2, SumSwap
<1>5. SumFunctionOnSet(both, D) = SumFunctionOnSet(rows, D) + SumFunctionOnSet(fl, D)
  <2>. \A i \in D : rows[i] \in Int /\ fl[i] \in Int /\ both[i] = rows[i] + fl[i]
    BY <1>2
  <2>. HIDE DEF both
  <2>. QED
    BY <1>1, SumAdds
<1>6. SumFunctionOnSet(both, D) <= SumFunctionOnSet(zero, D)
  <2>. \A i \in D : both[i] \in Int /\ zero[i] \in Int /\ both[i] <= zero[i]
    BY <1>2
  <2>. HIDE DEF both, zero
  <2>. QED
    BY <1>1, SumMonotone
<1>7. SumFunctionOnSet(zero, D) = 0
  <2>. \A i \in D : zero[i] = 0
    OBVIOUS
  <2>. HIDE DEF zero
  <2>. QED
    BY <1>1, SumOfZeros
<1>8. /\ SumFunctionOnSet(rows, D) \in Int /\ SumFunctionOnSet(fl, D) \in Int
  BY <1>1, <1>2, SumInt
<1>. HIDE DEF both, zero
<1>. QED
  BY <1>3, <1>4, <1>5, <1>6, <1>7, <1>8

(* The merge of a round, with the transfers that are the next one's input, *)
(* is worth no more than the accounts of the round.                        *)
LEMMA MergedFunds ==
  ASSUME TypeInv, OrderInv, FairOutcomes
  PROVE  Total(MergedAccounts)
           + InFlight(FlattenSeq([i \in DOMAIN results |-> results[i].transfers]))
             <= Total(e.accounts)
<1>. DEFINE D == DOMAIN results
            ss == [i \in D |-> results[i].transfers]
            fl == [i \in D |-> InFlight(results[i].transfers)]
            cols == [k \in Ids |-> SumFunctionOnSet(ChangesOf(k), D)]
            old == Balances(e.accounts)
            new == Balances(MergedAccounts)
            most == [k \in Ids |-> old[k] + cols[k]]
<1>1. AccountsOK(e.accounts) /\ AccountsOK(MergedAccounts) /\ IsFiniteSet(Ids)
  BY IdsAreFinite, StateParts, MergedAccountsType DEF TypeInv, TypeOK
<1>2. InFlight(FlattenSeq(ss)) = SumFunctionOnSet(fl, D)
  <2>1. D = 1 .. Len(results) /\ Len(results) \in Nat
        /\ \A i \in D : results[i] \in AllOutcomes
    BY SeqParts DEF TypeInv, TypeOK
  <2>2. \A i \in D : ss[i] \in Seq(Deferred) /\ fl[i] = InFlight(ss[i])
    BY <2>1 DEF AllOutcomes
  <2>3. DOMAIN ss = 1 .. Len(results) /\ ss = [i \in 1 .. Len(results) |-> ss[i]]
    BY <2>1
  <2>. HIDE DEF ss, fl
  <2>4. ss \in Seq(Seq(Deferred)) /\ Len(ss) = Len(results)
    BY <2>1, <2>2, <2>3
  <2>5. \A i \in 1 .. Len(ss) : fl[i] = InFlight(ss[i])
    BY <2>1, <2>2, <2>4
  <2>6. InFlight(FlattenSeq(ss)) = SumFunctionOnSet(fl, 1 .. Len(ss))
    BY <2>4, <2>5, InFlightFlatten
  <2>. QED
    BY <2>1, <2>4, <2>6
<1>3. /\ \A k \in Ids : cols[k] = SumFunctionOnSet(ChangesOf(k), DOMAIN results)
      /\ \A i \in DOMAIN results : fl[i] = InFlight(results[i].transfers)
  OBVIOUS
<1>4. /\ \A k \in Ids : cols[k] \in Int
      /\ SumFunctionOnSet(cols, Ids) \in Int /\ SumFunctionOnSet(fl, D) \in Int
      /\ SumFunctionOnSet(cols, Ids) + SumFunctionOnSet(fl, D) <= 0
  <2>. HIDE DEF cols, fl
  <2>. QED
    BY <1>3, AllChanges
<1>5. /\ Total(e.accounts) = SumFunctionOnSet(old, Ids)
      /\ Total(MergedAccounts) = SumFunctionOnSet(new, Ids)
  BY <1>1, TotalIs
<1>6. ASSUME NEW k \in Ids
      PROVE  /\ old[k] \in Int /\ new[k] \in Int /\ most[k] \in Int
             /\ most[k] = old[k] + cols[k] /\ new[k] <= most[k]
  <2>1. /\ old[k] = Balance(e.accounts, k) /\ old[k] \in Nat
        /\ new[k] = Balance(MergedAccounts, k) /\ new[k] \in Nat
    BY <1>1, TotalIs
  <2>2. new[k] <= old[k] + cols[k]
    <3>1. Balance(MergedAccounts, k)
            <= Balance(e.accounts, k) + SumFunctionOnSet(ChangesOf(k), DOMAIN results)
      BY MergedBalance
    <3>. HIDE DEF cols, old, new
    <3>. QED
      BY <1>3, <2>1, <3>1
  <2>3. most[k] = old[k] + cols[k]
    OBVIOUS
  <2>. HIDE DEF cols, old, new, most
  <2>. QED
    BY <1>4, <2>1, <2>2, <2>3
<1>. HIDE DEF cols, fl, old, new, most, ss
<1>7. SumFunctionOnSet(new, Ids) <= SumFunctionOnSet(most, Ids)
  BY <1>1, <1>6, SumMonotone
<1>8. SumFunctionOnSet(most, Ids) = SumFunctionOnSet(old, Ids) + SumFunctionOnSet(cols, Ids)
  <2>. \A k \in Ids : old[k] \in Int /\ cols[k] \in Int /\ most[k] = old[k] + cols[k]
    BY <1>4, <1>6
  <2>. QED
    BY <1>1, SumAdds
<1>9. SumFunctionOnSet(old, Ids) \in Int /\ SumFunctionOnSet(new, Ids) \in Int
  BY <1>1, <1>6, SumInt
<1>10. Total(MergedAccounts) + InFlight(FlattenSeq(ss)) <= Total(e.accounts)
  BY <1>2, <1>4, <1>5, <1>7, <1>8, <1>9
<1>. QED
  BY <1>10 DEF ss

-----------------------------------------------------------------------------
(* Money: the course of a round.                                           *)

DueTo(ts) == [s \in Ids |-> AmountPart(s, ts)]

(* Unless an account was doubled in the block: between rounds the balances *)
(* and the transfers, in a round the balances and what is still to be      *)
(* credited are no more than the balances before the block; and what the   *)
(* services have made of their contexts is fair.                           *)
MoneyInv ==
  ~doubled =>
    /\ ~inRound => Total(e.accounts) + InFlight(transfers) <= before.funds
    /\ inRound => Total(e.accounts) + SumFunctionOnSet(DueTo(transfers), todo)
                    <= before.funds
    /\ FairOutcomes
    /\ running # None => /\ HasCode(e, running)
                         /\ FairContext(e.accounts, running, x)
                         /\ FairContext(e.accounts, running, y)

(* A credit adds what is due to the service, if it has an account.         *)
LEMMA CreditedTotal ==
  ASSUME e \in AllStates, transfers \in Seq(Deferred), NEW s \in Ids
  PROVE  /\ Total(Credited(s).accounts) \in Nat /\ Total(e.accounts) \in Nat
         /\ Total(Credited(s).accounts) <= Total(e.accounts) + AmountPart(s, transfers)
<1>. PICK b : b = e.accounts
  OBVIOUS
<1>. PICK c : c = Credited(s).accounts
  OBVIOUS
<1>. PICK n : n = AmountTo(s)
  OBVIOUS
<1>0. n \in Nat /\ AmountPart(s, transfers) = n
  <2>1. AmountTo(s) \in Nat
    BY AmountToNat
  <2>2. AmountPart(s, transfers) = AmountTo(s)
    BY DEF AmountTo, AmountPart
  <2>. QED
    BY <2>1, <2>2
<1>1. AccountsOK(b) /\ AccountsOK(c)
  BY StateParts, CreditedIs
<1>2. /\ DOMAIN c = DOMAIN b /\ \A i \in DOMAIN b : i # s => c[i] = b[i]
      /\ s \in DOMAIN b => c[s].balance = b[s].balance + n
  BY CreditedIs
<1>. DEFINE f == Balances(b)
            g == Balances(c)
<1>3. /\ \A i \in Ids : f[i] = Balance(b, i) /\ f[i] \in Nat
      /\ \A i \in Ids : g[i] = Balance(c, i) /\ g[i] \in Nat
      /\ Total(b) = SumFunctionOnSet(f, Ids) /\ Total(c) = SumFunctionOnSet(g, Ids)
  BY <1>1, TotalIs
<1>. HIDE DEF f, g
<1>4. \A i \in Ids : f[i] \in Int /\ g[i] \in Int
  BY <1>3
<1>5. /\ SumFunctionOnSet(f, Ids) = f[s] + SumFunctionOnSet(f, Ids \ {s})
      /\ SumFunctionOnSet(g, Ids) = g[s] + SumFunctionOnSet(g, Ids \ {s})
  BY <1>4, IdsAreFinite, SumRemove
<1>6. IsFiniteSet(Ids \ {s})
  BY IdsAreFinite, FS_RemoveElement
<1>7. /\ SumFunctionOnSet(f, Ids \ {s}) = SumFunctionOnSet(g, Ids \ {s})
      /\ SumFunctionOnSet(f, Ids \ {s}) \in Int
  <2>. \A i \in Ids \ {s} : f[i] \in Int /\ f[i] = g[i]
    BY <1>2, <1>3, <1>4 DEF Balance
  <2>. QED
    BY <1>6, SumSame, SumInt
<1>8. g[s] <= f[s] + n /\ f[s] \in Int /\ g[s] \in Int
  <2>1. CASE s \in DOMAIN b
    <3>. f[s] = b[s].balance /\ g[s] = c[s].balance
      BY <1>2, <1>3, <2>1 DEF Balance
    <3>. QED
      BY <1>0, <1>2, <1>4, <2>1
  <2>2. CASE s \notin DOMAIN b
    <3>. f[s] = 0 /\ g[s] = 0
      BY <1>2, <1>3, <2>2 DEF Balance
    <3>. QED
      BY <1>0
  <2>. QED
    BY <2>1, <2>2
<1>9. Total(c) <= Total(b) + n
  BY <1>0, <1>3, <1>5, <1>7, <1>8
<1>10. Total(c) \in Nat /\ Total(b) \in Nat
  BY <1>1, TotalNat
<1>. QED
  BY <1>0, <1>9, <1>10

(* Crediting a service moves what is due to it to its balance, and keeps   *)
(* the outcomes of others fair.                                            *)
LEMMA CreditStep ==
  ASSUME TypeInv, OrderInv, MoneyInv, ~doubled, inRound, running = None,
         NEW s \in todo, e' = Credited(s), todo' = todo \ {s}, UNCHANGED <<transfers, before>>
  PROVE  /\ Total(e'.accounts) + SumFunctionOnSet(DueTo(transfers'), todo')
              <= before'.funds
         /\ \A i \in DOMAIN results : FairOutcome(e'.accounts, results[i])
         /\ AccountsOK(e'.accounts)
<1>1. /\ e \in AllStates /\ transfers \in Seq(Deferred) /\ s \in Ids /\ todo \in SUBSET Ids
      /\ before.funds \in Nat /\ \A i \in DOMAIN results : results[i] \in AllOutcomes
  BY SeqParts DEF TypeInv, TypeOK
<1>2. Total(e.accounts) + SumFunctionOnSet(DueTo(transfers), todo) <= before.funds
  BY DEF MoneyInv
<1>. DEFINE h == DueTo(transfers)
<1>3. \A i \in todo : h[i] \in Int /\ h[i] = AmountPart(i, transfers)
  <2>1. \A i \in Ids : h[i] = AmountPart(i, transfers)
    BY DEF DueTo
  <2>. HIDE DEF h
  <2>2. \A i \in todo : h[i] = AmountPart(i, transfers)
    BY <1>1, <2>1
  <2>3. \A i \in todo : h[i] \in Nat
    BY <1>1, <2>2, AmountParts
  <2>. QED
    BY <2>2, <2>3
<1>4. IsFiniteSet(todo) /\ IsFiniteSet(todo \ {s})
  BY <1>1, IdsFinite, FS_RemoveElement
<1>5. Total(e.accounts) + SumFunctionOnSet(h, todo) <= before.funds
  BY <1>2
<1>. HIDE DEF h
<1>6. SumFunctionOnSet(h, todo) = h[s] + SumFunctionOnSet(h, todo \ {s})
  BY <1>3, <1>4, SumRemove
<1>7. SumFunctionOnSet(h, todo \ {s}) \in Int
  <2>. \A i \in todo \ {s} : h[i] \in Int
    BY <1>3
  <2>. QED
    BY <1>4, SumInt
<1>8. PICK F : F = Credited(s).accounts
  OBVIOUS
<1>9. /\ Total(F) \in Nat /\ Total(e.accounts) \in Nat
      /\ Total(F) <= Total(e.accounts) + h[s] /\ h[s] \in Int
  BY <1>1, <1>3, <1>8, CreditedTotal
<1>10. Total(F) + SumFunctionOnSet(h, todo \ {s}) <= before.funds
  BY <1>1, <1>5, <1>6, <1>7, <1>9
<1>11. AccountsOK(e.accounts) /\ AccountsOK(F)
  BY <1>1, <1>8, StateParts, CreditedIs
<1>12. ASSUME NEW i \in DOMAIN results PROVE FairOutcome(F, results[i])
  <2>1. results[i].id # s /\ results[i] \in AllOutcomes
    BY <1>1 DEF OrderInv, Busy, Absent
  <2>2. FairOutcome(e.accounts, results[i])
    BY DEF MoneyInv, FairOutcomes
  <2>3. /\ DOMAIN F = DOMAIN e.accounts
        /\ \A k \in DOMAIN e.accounts : F[k].code = e.accounts[k].code
        /\ \A k \in DOMAIN e.accounts : k # s => F[k] = e.accounts[k]
        /\ s \in DOMAIN e.accounts => F[s].balance = e.accounts[s].balance + AmountTo(s)
    BY <1>1, <1>8, CreditedIs
  <2>4. s \in DOMAIN e.accounts => F[s].balance >= e.accounts[s].balance
    <3>1. AmountTo(s) \in Nat
      BY <1>1, AmountToNat
    <3>2. s \in DOMAIN e.accounts => e.accounts[s].balance \in Nat
      BY <1>11, BalanceNat
    <3>. QED
      BY <2>3, <3>1, <3>2
  <2>. PICK E : E = e.accounts
    OBVIOUS
  <2>. QED
    BY <1>11, <2>1, <2>2, <2>3, <2>4, FairCredited
<1>13. e'.accounts = F
  BY <1>8
<1>14. Total(e'.accounts) + SumFunctionOnSet(DueTo(transfers'), todo') <= before'.funds
  BY <1>10, <1>13 DEF h
<1>. QED
  BY <1>11, <1>12, <1>13, <1>14

(* The money in the first state, and in every step.                        *)
LEMMA MoneyInvInit ==
  ASSUME Init
  PROVE  MoneyInv
<1>1. /\ ~inRound /\ results = << >> /\ running = None /\ transfers = << >>
      /\ before.funds = Total(e.accounts)
  BY DEF Init
<1>2. Total(e.accounts) \in Nat
  BY TypeInvInit, StateParts, TotalNat DEF TypeInv, TypeOK
<1>3. FairOutcomes
  BY <1>1 DEF FairOutcomes
<1>. QED
  BY <1>1, <1>2, <1>3, InFlightNone DEF MoneyInv

LEMMA BeginBlockMoney ==
  ASSUME TypeInv, OrderInv, BeginBlock
  PROVE  MoneyInv'
<1>1. /\ ~inRound /\ results = << >> /\ running = None
      /\ UNCHANGED <<e, inRound, results, running>>
      /\ transfers' = << >> /\ before'.funds = Total(e.accounts)
  BY DEF BeginBlock, OrderInv, round
<1>2. Total(e.accounts) \in Nat
  BY StateParts, TotalNat DEF TypeInv, TypeOK
<1>3. FairOutcomes'
  BY <1>1 DEF FairOutcomes
<1>4. InFlight(transfers') = 0
  BY <1>1, InFlightNone
<1>5. Total(e'.accounts) + InFlight(transfers') <= before'.funds
  BY <1>1, <1>2, <1>4
<1>. QED
  BY <1>1, <1>3, <1>5 DEF MoneyInv

LEMMA BeginRoundMoney ==
  ASSUME TypeInv, TypeInv', OrderInv, MoneyInv, BeginRound
  PROVE  MoneyInv'
<1>1. /\ ~inRound /\ inRound' /\ results = << >> /\ running = None
      /\ UNCHANGED <<e, results, running, transfers, before, doubled>>
  BY DEF BeginRound, Between, OrderInv
<1>2. FairOutcomes'
  BY <1>1 DEF FairOutcomes
<1>3. ASSUME ~doubled
      PROVE  Total(e'.accounts) + SumFunctionOnSet(DueTo(transfers'), todo')
               <= before'.funds
  <2>1. Total(e.accounts) + InFlight(transfers) <= before.funds
    BY <1>1, <1>3 DEF MoneyInv
  <2>2. /\ Total(e.accounts) \in Nat /\ transfers \in Seq(Deferred) /\ before.funds \in Nat
        /\ todo' \in SUBSET Ids
    BY StateParts, TotalNat DEF TypeInv, TypeOK
  <2>. PICK T \in SUBSET Ids : T = todo'
    BY <2>2
  <2>. DEFINE h == DueTo(transfers)
  <2>3. \A s \in T : h[s] = AmountPart(s, transfers)
    BY DEF DueTo
  <2>. HIDE DEF h
  <2>4. SumFunctionOnSet(h, T) <= InFlight(transfers) /\ SumFunctionOnSet(h, T) \in Nat
    <3>1. /\ \A s \in T : h[s] \in Nat
          /\ SumFunctionOnSet(h, T) <= InFlight(transfers)
      BY <2>2, <2>3, AmountParts
    <3>. QED
      BY <3>1, IdsFinite, SumNat
  <2>5. InFlight(transfers) \in Nat
    BY <2>2, InFlightNat
  <2>6. Total(e.accounts) + SumFunctionOnSet(h, T) <= before.funds
    BY <2>1, <2>2, <2>4, <2>5
  <2>. QED
    BY <1>1, <2>6 DEF h
<1>. QED
  BY <1>1, <1>2, <1>3 DEF MoneyInv

LEMMA WithoutCodeMoney ==
  ASSUME TypeInv, OrderInv, MoneyInv, NEW s \in todo, WithoutCode(s)
  PROVE  MoneyInv'
<1>. SUFFICES ASSUME ~doubled' PROVE MoneyInv'
  BY DEF MoneyInv
<1>1. /\ inRound /\ running = None /\ e' = Credited(s) /\ todo' = todo \ {s}
      /\ UNCHANGED <<transfers, before, doubled, inRound, running>>
      /\ results' = Append(results, Outcome(s, Credited(s), << >>, 0))
  BY DEF WithoutCode
<1>2. /\ Total(e'.accounts) + SumFunctionOnSet(DueTo(transfers'), todo') <= before'.funds
      /\ \A i \in DOMAIN results : FairOutcome(e'.accounts, results[i])
      /\ AccountsOK(e'.accounts)
  BY <1>1, CreditStep
<1>3. PICK r : r = Outcome(s, Credited(s), << >>, 0)
  OBVIOUS
<1>4. r \in AllOutcomes /\ r.id = s /\ r.state = Credited(s) /\ r.transfers = << >>
  <2>1. s \in Ids /\ Credited(s) \in AllStates
    BY CreditedIs DEF TypeInv, TypeOK
  <2>2. << >> \in Seq(Deferred)
    OBVIOUS
  <2>. QED
    BY <1>3, <2>1, <2>2 DEF Outcome, AllOutcomes
<1>5. FairOutcome(e'.accounts, r)
  <2>. PICK F : F = e'.accounts
    OBVIOUS
  <2>1. Fair(F, s, F, << >>) /\ Settled(F, s, F)
    BY <1>2, FairStart
  <2>2. r.state.accounts = F
    BY <1>1, <1>4
  <2>. QED
    BY <1>4, <2>1, <2>2 DEF FairOutcome
<1>6. FairOutcomes'
  <2>. PICK us : us = results'
    OBVIOUS
  <2>. PICK n : n = Len(results) + 1
    OBVIOUS
  <2>1. /\ DOMAIN us = DOMAIN results \cup {n} /\ us[n] = r
        /\ \A i \in DOMAIN results : us[i] = results[i]
    <3>. results \in Seq(AllOutcomes)
      BY DEF TypeInv, TypeOK
    <3>. QED
      BY <1>1, <1>3, <1>4, AppendParts
  <2>2. \A i \in DOMAIN us : FairOutcome(e'.accounts, us[i])
    BY <1>2, <1>5, <2>1
  <2>. QED
    BY <2>2 DEF FairOutcomes
<1>. QED
  BY <1>1, <1>2, <1>6 DEF MoneyInv

LEMMA InvokeMoney ==
  ASSUME TypeInv, OrderInv, MoneyInv, NEW s \in todo, Invoke(s)
  PROVE  MoneyInv'
<1>. SUFFICES ASSUME ~doubled' PROVE MoneyInv'
  BY DEF MoneyInv
<1>1. /\ inRound /\ running = None /\ e' = Credited(s) /\ todo' = todo \ {s}
      /\ UNCHANGED <<transfers, before, doubled, inRound, results>>
      /\ running' = s /\ y' = x' /\ HasCode(e, s)
      /\ \E from \in Hashed : x' = Context(s, Credited(s), from)
  BY DEF Invoke
<1>2. /\ Total(e'.accounts) + SumFunctionOnSet(DueTo(transfers'), todo') <= before'.funds
      /\ \A i \in DOMAIN results : FairOutcome(e'.accounts, results[i])
      /\ AccountsOK(e'.accounts)
  BY <1>1, CreditStep
<1>3. FairOutcomes'
  BY <1>1, <1>2 DEF FairOutcomes
<1>4. HasCode(e', s)
  <2>. /\ DOMAIN Credited(s).accounts = DOMAIN e.accounts
       /\ \A i \in DOMAIN e.accounts : Credited(s).accounts[i].code = e.accounts[i].code
    BY CreditedIs DEF TypeInv, TypeOK
  <2>. QED
    BY <1>1 DEF HasCode
<1>5. FairContext(e'.accounts, s, x')
  <2>. PICK F : F = e'.accounts
    OBVIOUS
  <2>1. Fair(F, s, F, << >>) /\ Keeps(F, s, F)
    BY <1>2, FairStart
  <2>2. x'.state.accounts = F /\ x'.transfers = << >>
    BY <1>1 DEF Context
  <2>. QED
    BY <2>1, <2>2 DEF FairContext
<1>6. FairContext(e'.accounts, running', x') /\ FairContext(e'.accounts, running', y')
  BY <1>1, <1>5
<1>. QED
  BY <1>1, <1>2, <1>3, <1>4, <1>6 DEF MoneyInv

LEMMA CallMoney ==
  ASSUME TypeInv, OrderInv, MoneyInv, NEW c, NEW cost, CallOK(c, cost)
  PROVE  MoneyInv'
<1>. SUFFICES ASSUME ~doubled' PROVE MoneyInv'
  BY DEF MoneyInv
<1>1. /\ running # None /\ x' = c /\ CtxOK(c, running)
      /\ UNCHANGED <<e, transfers, todo, results, running, y, inRound, before>>
      /\ ~doubled /\ Moves(x, c, running)
  BY DEF CallOK, Becoming
<1>2. /\ ~inRound => Total(e.accounts) + InFlight(transfers) <= before.funds
      /\ inRound => Total(e.accounts) + SumFunctionOnSet(DueTo(transfers), todo)
                      <= before.funds
      /\ FairOutcomes /\ HasCode(e, running)
      /\ FairContext(e.accounts, running, x) /\ FairContext(e.accounts, running, y)
  BY <1>1 DEF MoneyInv
<1>3. FairContext(e.accounts, running, c)
  <2>1. running \in DOMAIN e.accounts
    BY <1>2 DEF HasCode
  <2>2. x \in AllContexts /\ c \in AllContexts
    BY <1>1 DEF TypeInv, ContextsOK, CtxOK
  <2>. QED
    BY <1>1, <1>2, <2>1, <2>2, FairMoves
<1>4. FairOutcomes'
  BY <1>1, <1>2 DEF FairOutcomes
<1>. QED
  BY <1>1, <1>2, <1>3, <1>4 DEF MoneyInv

LEMMA CheckpointMoney ==
  ASSUME TypeInv, OrderInv, MoneyInv, Checkpoint
  PROVE  MoneyInv'
<1>. SUFFICES ASSUME ~doubled' PROVE MoneyInv'
  BY DEF MoneyInv
<1>1. /\ running # None /\ y' = x
      /\ UNCHANGED <<e, transfers, todo, results, running, x, inRound, before, doubled>>
  BY DEF Checkpoint, Calling
<1>2. /\ ~inRound => Total(e.accounts) + InFlight(transfers) <= before.funds
      /\ inRound => Total(e.accounts) + SumFunctionOnSet(DueTo(transfers), todo)
                      <= before.funds
      /\ FairOutcomes /\ HasCode(e, running)
      /\ FairContext(e.accounts, running, x)
  BY <1>1 DEF MoneyInv
<1>3. FairOutcomes'
  BY <1>1, <1>2 DEF FairOutcomes
<1>. QED
  BY <1>1, <1>2, <1>3 DEF MoneyInv

LEMMA EndInvocationMoney ==
  ASSUME TypeInv, OrderInv, MoneyInv, EndInvocation
  PROVE  MoneyInv'
<1>. SUFFICES ASSUME ~doubled' PROVE MoneyInv'
  BY DEF MoneyInv
<1>1. PICK end \in {x, y}, left \in Nat :
        /\ results' = Append(results, Outcome(running, end.state, end.transfers,
                                              GasFor(running) - left))
        /\ Outcome(running, end.state, end.transfers, GasFor(running) - left) \in AllOutcomes
  BY EndInvocationIs
<1>2. PICK r \in AllOutcomes :
        /\ r.id = running /\ r.state = end.state /\ r.transfers = end.transfers
        /\ results' = Append(results, r)
  BY <1>1 DEF Outcome
<1>3. /\ running # None /\ running' = None
      /\ UNCHANGED <<e, transfers, todo, inRound, before, doubled>>
  BY DEF EndInvocation
<1>4. /\ ~inRound => Total(e.accounts) + InFlight(transfers) <= before.funds
      /\ inRound => Total(e.accounts) + SumFunctionOnSet(DueTo(transfers), todo)
                      <= before.funds
      /\ FairOutcomes /\ HasCode(e, running)
      /\ FairContext(e.accounts, running, end)
  BY <1>3 DEF MoneyInv
<1>5. FairOutcome(e.accounts, r)
  <2>1. Fair(e.accounts, r.id, r.state.accounts, r.transfers)
    BY <1>2, <1>4 DEF FairContext
  <2>2. Settled(e.accounts, r.id, r.state.accounts)
    BY <1>2, <1>4 DEF Settled, HasCode
  <2>. QED
    BY <2>1, <2>2 DEF FairOutcome
<1>6. FairOutcomes'
  <2>. PICK us : us = results'
    OBVIOUS
  <2>. PICK n : n = Len(results) + 1
    OBVIOUS
  <2>1. /\ DOMAIN us = DOMAIN results \cup {n} /\ us[n] = r
        /\ \A i \in DOMAIN results : us[i] = results[i]
    <3>. results \in Seq(AllOutcomes)
      BY DEF TypeInv, TypeOK
    <3>. QED
      BY <1>2, AppendParts
  <2>2. \A i \in DOMAIN us : FairOutcome(e.accounts, us[i])
    BY <1>4, <1>5, <2>1 DEF FairOutcomes
  <2>. QED
    BY <1>3, <2>2 DEF FairOutcomes
<1>. QED
  BY <1>3, <1>4, <1>6 DEF MoneyInv

LEMMA EndRoundMoney ==
  ASSUME TypeInv, OrderInv, MoneyInv, EndRound
  PROVE  MoneyInv'
<1>. SUFFICES ASSUME ~doubled' PROVE MoneyInv'
  BY DEF MoneyInv
<1>1. /\ inRound /\ running = None /\ todo = {} /\ e' = Merged
      /\ transfers' = FlattenSeq([i \in DOMAIN results |-> results[i].transfers])
      /\ results' = << >> /\ inRound' = FALSE
      /\ UNCHANGED <<running, before, doubled>>
  BY DEF EndRound
<1>2. /\ Total(e.accounts) + SumFunctionOnSet(DueTo(transfers), todo) <= before.funds
      /\ FairOutcomes
  BY <1>1 DEF MoneyInv
<1>3. Total(e.accounts) \in Nat /\ before.funds \in Nat
  BY StateParts, TotalNat DEF TypeInv, TypeOK
<1>4. Total(e.accounts) <= before.funds
  <2>. SumFunctionOnSet(DueTo(transfers), todo) = 0
    BY <1>1, SumOfNone
  <2>. QED
    BY <1>2, <1>3
<1>5. e'.accounts = MergedAccounts
  BY <1>1 DEF Merged
<1>6. Total(MergedAccounts)
        + InFlight(FlattenSeq([i \in DOMAIN results |-> results[i].transfers]))
          <= Total(e.accounts)
  BY <1>2, MergedFunds
<1>7. Total(MergedAccounts) \in Nat
  BY MergedAccountsType, TotalNat DEF TypeInv, TypeOK
<1>8. transfers' \in Seq(Deferred)
  BY EndRoundType DEF TypeInv, TypeOK
<1>9. InFlight(transfers') \in Nat
  <2>. PICK ts \in Seq(Deferred) : ts = transfers'
    BY <1>8
  <2>. QED
    BY InFlightNat
<1>10. Total(e'.accounts) + InFlight(transfers') <= Total(e.accounts)
  BY <1>1, <1>5, <1>6
<1>11. Total(e'.accounts) + InFlight(transfers') <= before'.funds
  BY <1>1, <1>3, <1>4, <1>5, <1>7, <1>9, <1>10
<1>12. FairOutcomes'
  BY <1>1 DEF FairOutcomes
<1>. QED
  BY <1>1, <1>11, <1>12 DEF MoneyInv

LEMMA MoneyInvNext ==
  ASSUME TypeInv, TypeInv', OrderInv, MoneyInv, [Next]_vars
  PROVE  MoneyInv'
<1>1. CASE BeginBlock
  BY <1>1, BeginBlockMoney
<1>2. CASE BeginRound
  BY <1>2, BeginRoundMoney
<1>3. CASE EndRound
  BY <1>3, EndRoundMoney
<1>4. ASSUME UNCHANGED <<e, transfers, todo, results, running, x, y, inRound, before, doubled>>
      PROVE  MoneyInv'
  <2>. FairOutcomes' <=> FairOutcomes
    BY <1>4 DEF FairOutcomes
  <2>. QED
    BY <1>4 DEF MoneyInv
<1>5. CASE EndBlock
  BY <1>4, <1>5 DEF EndBlock, round
<1>6. ASSUME NEW s \in todo, WithoutCode(s)
      PROVE  MoneyInv'
  BY <1>6, WithoutCodeMoney
<1>7. ASSUME NEW s \in todo, Invoke(s)
      PROVE  MoneyInv'
  BY <1>7, InvokeMoney
<1>8. CASE HostCall
  BY <1>8, HostCallOK, CallMoney, CheckpointMoney
<1>9. CASE EndInvocation
  BY <1>9, EndInvocationMoney
<1>10. CASE UNCHANGED vars
  BY <1>4, <1>10 DEF vars
<1>. QED
  BY <1>1, <1>2, <1>3, <1>5, <1>6, <1>7, <1>8, <1>9, <1>10 DEF Next

(* Accumulation never makes money, whoever paid, panicked, was created     *)
(* twice or ejected (accumulate.ts:306-334), as long as nobody ejected     *)
(* itself or an account in whose place it created another.                 *)
THEOREM NoMoneyIsMade == Spec => []FundsNeverGrow
<1>1. Init => TypeInv /\ OrderInv /\ MoneyInv
  BY TypeInvInit, OrderInvInit, MoneyInvInit
<1>2. TypeInv /\ OrderInv /\ MoneyInv /\ [Next]_vars => (TypeInv /\ OrderInv /\ MoneyInv)'
  BY TypeInvNext, OrderInvNext, MoneyInvNext
<1>3. MoneyInv => FundsNeverGrow
  BY DEF MoneyInv, FundsNeverGrow
<1>. QED
  BY <1>1, <1>2, <1>3, PTL DEF Spec

=============================================================================
