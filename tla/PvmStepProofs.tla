---------------------------- MODULE PvmStepProofs ----------------------------
(***************************************************************************)
(* One turn of the TypeScript interpreter, for every width of bytes and    *)
(* words, every program and every machine, and what its words are: the     *)
(* lemmas on which PvmLockstepProofs rests.                                *)
(*                                                                         *)
(* From the arithmetic up: powers and quotients; sums of digits; every     *)
(* value an instruction computes is a register (Reg64Width and its like);  *)
(* operands of every layout fit (OperandsAre); jumps (EvaluateJumpIs),     *)
(* memory (FirstWithoutIs, EvaluateStoreIs) and sbrk (SbrkIs); and the     *)
(* turn itself (SingleStepMachine).  ImmediateStep and the "Same" lemmas   *)
(* compare values of two forms of an instruction, and of the two           *)
(* interpreters.                                                           *)
(*                                                                         *)
(* SegmentsNeverMeet is about the memory a program is loaded into.         *)
(***************************************************************************)
EXTENDS PvmLockstep, PvmLoading, FiniteSetTheorems, SequenceTheorems, TLAPS

-----------------------------------------------------------------------------
(***************************************************************************)
(* Powers, products and quotients.                                         *)
(***************************************************************************)

(* Powers of two count subsets; that is where their laws come from.        *)
LEMMA Doubling ==
  ASSUME NEW n \in Nat
  PROVE  2^n \in Nat \ {0} /\ 2^(n + 1) = 2 * 2^n
<1>. DEFINE S == SUBSET (1 .. n)
            With(s) == s \cup {n + 1}
            T == {With(s) : s \in S}
            f == [s \in S |-> With(s)]
<1>1. IsFiniteSet(1 .. n) /\ Cardinality(1 .. n) = n
  BY FS_Interval
<1>2. IsFiniteSet(1 .. n + 1) /\ Cardinality(1 .. n + 1) = n + 1
  BY FS_Interval
<1>3. IsFiniteSet(S) /\ Cardinality(S) = 2^n
  BY <1>1, FS_SUBSET
<1>4. Cardinality(SUBSET (1 .. n + 1)) = 2^(n + 1)
  BY <1>2, FS_SUBSET
<1>5. SUBSET (1 .. n + 1) = S \cup T
  <2>1. ASSUME NEW s \in SUBSET (1 .. n + 1), s \notin S PROVE s \in T
    <3>1. n + 1 \in s
      BY <2>1
    <3>2. s \ {n + 1} \in S /\ s = With(s \ {n + 1})
      BY <3>1
    <3>. QED
      BY <3>2
  <2>2. ASSUME NEW s \in S PROVE s \in SUBSET (1 .. n + 1) /\ With(s) \in SUBSET (1 .. n + 1)
    <3>1. 1 .. n \subseteq 1 .. n + 1 /\ n + 1 \in 1 .. n + 1
      OBVIOUS
    <3>. QED
      BY <3>1
  <2>3. S \subseteq SUBSET (1 .. n + 1)
    BY <2>2
  <2>4. T \subseteq SUBSET (1 .. n + 1)
    BY ZenonT(30), <2>2
  <2>. HIDE DEF S, T
  <2>. QED
    BY <2>1, <2>3, <2>4
<1>6. S \cap T = {}
  OBVIOUS
<1>7. f \in Bijection(S, T)
  <2>1. f \in [S -> T]
    OBVIOUS
  <2>2. ASSUME NEW a \in S, NEW b \in S, f[a] = f[b] PROVE a = b
    <3>1. a = With(a) \ {n + 1} /\ b = With(b) \ {n + 1}
      OBVIOUS
    <3>. QED
      BY <3>1, <2>2
  <2>3. \A t \in T : \E s \in S : f[s] = t
    OBVIOUS
  <2>. HIDE DEF f, S, T
  <2>. QED
    BY <2>1, <2>2, <2>3 DEF Bijection, Injection, Surjection, IsInjective
<1>8. IsFiniteSet(T) /\ Cardinality(T) = Cardinality(S)
  <2>. HIDE DEF f, S, T
  <2>. ExistsBijection(S, T)
    BY <1>7 DEF ExistsBijection
  <2>. QED
    BY <1>3, FS_Bijection
<1>. HIDE DEF S, T
<1>9. Cardinality(S \cup T) = Cardinality(S) + Cardinality(T) - 0
  BY <1>3, <1>6, <1>8, FS_Union, FS_EmptySet
<1>10. Cardinality(S) \in Nat
  BY <1>3, FS_CardinalityType
<1>11. Cardinality(S) # 0
  <2>. {} \in S
    BY DEF S
  <2>. QED
    BY <1>3, FS_EmptySet
<1>12. 2^n = Cardinality(S)
  BY <1>3
<1>13. 2^(n + 1) = Cardinality(S) + Cardinality(S)
  <2>. 2^(n + 1) = Cardinality(S \cup T)
    BY <1>4, <1>5
  <2>. QED
    BY ONLY <1>8, <1>9, <1>10, 2^(n + 1) = Cardinality(S \cup T)
<1>14. PICK c : c = Cardinality(S)
  OBVIOUS
<1>15. c \in Nat \ {0} /\ c + c = 2 * c
  BY <1>10, <1>11, <1>14
<1>. QED
  BY ONLY <1>12, <1>13, <1>14, <1>15

(* Induction without a predicate: a nonempty set of numbers has a least    *)
(* element, since the intervals up to its members are finite sets and      *)
(* strict inclusion of these is well founded.                              *)
LEMMA LeastElement ==
  ASSUME NEW S \in SUBSET Nat, S # {}
  PROVE  \E m \in S : \A n \in S : m <= n
<1>. DEFINE T == {0 .. n : n \in S}
<1>1. T \subseteq FiniteSubsetsOf(Nat)
  <2>1. ASSUME NEW n \in S PROVE 0 .. n \in SUBSET Nat /\ IsFiniteSet(0 .. n)
    BY FS_Interval
  <2>. QED
    BY <2>1 DEF FiniteSubsetsOf
<1>2. T # {}
  OBVIOUS
<1>3. \E t \in T : \A u \in T : <<u, t>> \notin StrictSubsetOrdering(Nat)
  <2>. HIDE DEF T
  <2>. QED
    BY <1>1, <1>2, FS_StrictSubsetOrderingWellFounded, WFMin
<1>4. PICK m \in S : \A u \in T : <<u, 0 .. m>> \notin StrictSubsetOrdering(Nat)
  BY <1>3
<1>5. ASSUME NEW n \in S, n < m PROVE FALSE
  <2>1. <<0 .. n, 0 .. m>> \notin StrictSubsetOrdering(Nat)
    BY <1>4
  <2>2. 0 .. n \in SUBSET Nat /\ 0 .. m \in SUBSET Nat /\ 0 .. n \subseteq 0 .. m
    BY <1>5
  <2>3. m \in 0 .. m /\ m \notin 0 .. n
    BY <1>5
  <2>. QED
    BY <2>1, <2>2, <2>3 DEF StrictSubsetOrdering
<1>. QED
  BY <1>5

(* Induction, on the members of a set up to a bound.                       *)
LEMMA Induction ==
  ASSUME NEW N \in Nat, NEW S, 0 \in S,
         \A n \in 0 .. N - 1 : n \in S => n + 1 \in S
  PROVE  \A n \in 0 .. N : n \in S
<1>. DEFINE Bad == {n \in 0 .. N : n \notin S}
<1>. SUFFICES ASSUME Bad # {} PROVE FALSE
  OBVIOUS
<1>1. PICK m \in Bad : \A n \in Bad : m <= n
  <2>. Bad \in SUBSET Nat
    OBVIOUS
  <2>. HIDE DEF Bad
  <2>. QED
    BY LeastElement
<1>2. m # 0 /\ m - 1 \in 0 .. N - 1 /\ (m - 1) + 1 = m
  BY <1>1
<1>3. m - 1 \in S
  BY <1>1, <1>2
<1>. QED
  BY <1>1, <1>2, <1>3

LEMMA Products ==
  ASSUME NEW a \in Nat, NEW b \in Nat
  PROVE  a * b \in Nat /\ a * b = b * a /\ (b # 0 => a <= a * b)
<1>1. a * b \in Nat /\ a * b = b * a
  BY SMT
<1>2. ASSUME b # 0 PROVE a <= a * b
  <2>1. b - 1 \in Nat /\ b = 1 + (b - 1)
    BY <1>2
  <2>2. PICK c \in Nat : b = 1 + c
    BY <2>1
  <2>3. a * (1 + c) = a + a * c /\ a * c \in Nat
    BY SMT
  <2>. QED
    BY <2>2, <2>3
<1>. QED
  BY <1>1, <1>2

LEMMA PowersAdd ==
  ASSUME NEW m \in Nat, NEW n \in Nat
  PROVE  2^(m + n) = 2^m * 2^n
<1>. DEFINE S == {k \in Nat : 2^(m + k) = 2^m * 2^k}
<1>1. 0 \in S
  <2>1. 2^0 = 1 /\ m + 0 = m
    BY SMT
  <2>2. 2^m \in Nat
    BY Doubling
  <2>3. PICK c : c = 2^m
    OBVIOUS
  <2>4. c * 1 = c
    BY <2>2, <2>3
  <2>. QED
    BY <2>1, <2>3, <2>4
<1>2. ASSUME NEW k \in 0 .. n - 1, k \in S PROVE k + 1 \in S
  <2>1. k \in Nat /\ m + k \in Nat /\ m + (k + 1) = (m + k) + 1 /\ k + 1 \in Nat
    OBVIOUS
  <2>2. 2^((m + k) + 1) = 2 * 2^(m + k) /\ 2^(k + 1) = 2 * 2^k /\ 2^k \in Nat /\ 2^m \in Nat
    BY <2>1, Doubling
  <2>3. PICK c \in Nat, d \in Nat : c = 2^m /\ d = 2^k
    BY <2>2
  <2>4. c * (2 * d) = 2 * (c * d)
    BY SMT
  <2>5. 2^(m + k) = c * d
    BY <1>2, <2>3
  <2>6. 2^(m + (k + 1)) = 2^m * 2^(k + 1)
    BY ONLY <2>1, <2>2, <2>3, <2>4, <2>5
  <2>. QED
    BY <2>1, <2>6
<1>3. \A k \in 0 .. n : k \in S
  <2>. HIDE DEF S
  <2>. QED
    BY <1>1, <1>2, Induction
<1>. QED
  BY <1>3

LEMMA PowersGrow ==
  ASSUME NEW m \in Nat, NEW n \in Nat, m <= n
  PROVE  2^m <= 2^n
<1>1. PICK d \in Nat : n = m + d
  <2>. n - m \in Nat /\ n = m + (n - m)
    OBVIOUS
  <2>. QED
    OBVIOUS
<1>2. 2^(m + d) = 2^m * 2^d /\ 2^m \in Nat /\ 2^d \in Nat \ {0}
  BY PowersAdd, Doubling
<1>3. 2^m <= 2^m * 2^d
  BY <1>2, Products
<1>. QED
  BY <1>1, <1>2, <1>3

LEMMA BelowItsPower ==
  ASSUME NEW n \in Nat
  PROVE  n < 2^n
<1>. DEFINE S == {k \in Nat : k < 2^k}
<1>1. 0 \in S
  <2>. 2^0 = 1
    BY SMT
  <2>. QED
    OBVIOUS
<1>2. ASSUME NEW k \in 0 .. n - 1, k \in S PROVE k + 1 \in S
  <2>1. 2^(k + 1) = 2 * 2^k /\ 2^k \in Nat
    BY Doubling
  <2>2. PICK c \in Nat : c = 2^k
    BY <2>1
  <2>3. k < c /\ k + 1 < 2 * c
    BY <1>2, <2>2
  <2>. QED
    BY <2>1, <2>2, <2>3
<1>3. \A k \in 0 .. n : k \in S
  <2>. HIDE DEF S
  <2>. QED
    BY <1>1, <1>2, Induction
<1>. QED
  BY <1>3

(* The number of values n bytes have.                                      *)
LEMMA PowIs ==
  ASSUME NEW n \in Nat
  PROVE  /\ Pow(n) \in Nat \ {0}
         /\ ByteBits * n \in Nat
         /\ n < Pow(n)
<1>1. ByteBits \in Nat \ {0}
  BY WordsAssumption
<1>2. ByteBits * n \in Nat /\ n <= ByteBits * n
  BY <1>1, Products
<1>3. ByteBits * n < 2^(ByteBits * n) /\ 2^(ByteBits * n) \in Nat \ {0}
  BY <1>2, BelowItsPower, Doubling
<1>. QED
  BY <1>2, <1>3 DEF Pow

LEMMA PowZero == Pow(0) = 1
<1>1. ByteBits * 0 = 0 /\ 2^0 = 1
  BY WordsAssumption, SMT
<1>. QED
  BY <1>1 DEF Pow

LEMMA PowAdds ==
  ASSUME NEW m \in Nat, NEW n \in Nat
  PROVE  Pow(m + n) = Pow(m) * Pow(n)
<1>1. ByteBits * m \in Nat /\ ByteBits * n \in Nat
  BY PowIs
<1>2. ByteBits * (m + n) = ByteBits * m + ByteBits * n
  BY WordsAssumption, SMT
<1>. QED
  BY <1>1, <1>2, PowersAdd DEF Pow

LEMMA PowGrows ==
  ASSUME NEW m \in Nat, NEW n \in Nat, m <= n
  PROVE  Pow(m) <= Pow(n)
<1>1. PICK d \in Nat : n = m + d
  <2>. n - m \in Nat /\ n = m + (n - m)
    OBVIOUS
  <2>. QED
    OBVIOUS
<1>2. Pow(m + d) = Pow(m) * Pow(d) /\ Pow(m) \in Nat /\ Pow(d) \in Nat \ {0}
  BY PowAdds, PowIs
<1>3. Pow(m) <= Pow(m) * Pow(d)
  BY <1>2, Products
<1>. QED
  BY <1>1, <1>2, <1>3

(* Half of the values of n bytes: where the sign begins.                   *)
LEMMA HalfOfPow ==
  ASSUME NEW n \in Nat \ {0}
  PROVE  Pow(n) \div 2 \in Nat \ {0} /\ Pow(n) = 2 * (Pow(n) \div 2)
<1>1. ByteBits * n \in Nat /\ ByteBits * n # 0
  BY PowIs, WordsAssumption, Products
<1>2. PICK k \in Nat : ByteBits * n = k + 1
  <2>. ByteBits * n - 1 \in Nat /\ ByteBits * n = (ByteBits * n - 1) + 1
    BY <1>1
  <2>. QED
    OBVIOUS
<1>3. Pow(n) = 2 * 2^k /\ 2^k \in Nat \ {0}
  BY <1>2, Doubling DEF Pow
<1>4. PICK c \in Nat \ {0} : c = 2^k
  BY <1>3
<1>5. (2 * c) \div 2 = c
  BY SMT
<1>. QED
  BY ONLY <1>3, <1>4, <1>5

(* Division of integers: a multiple and a rest, in one way only.           *)
LEMMA Rest ==
  ASSUME NEW a \in Int, NEW b \in Nat \ {0}
  PROVE  a \div b \in Int /\ a % b \in 0 .. b - 1 /\ a = b * (a \div b) + (a % b)
BY SMT

LEMMA ProductsApart ==
  ASSUME NEW b \in Nat, NEW q \in Int, NEW r \in Int, q < r
  PROVE  b * q \in Int /\ b * r \in Int /\ b * q + b <= b * r
<1>1. PICK d \in Nat : r = q + 1 + d
  <2>. r - q - 1 \in Nat /\ r = q + 1 + (r - q - 1)
    OBVIOUS
  <2>. QED
    OBVIOUS
<1>2. b * (q + 1 + d) = b * q + b + b * d
  BY SMT
<1>3. b * d \in Nat /\ b * q \in Int /\ b * r \in Int
  BY SMT
<1>. QED
  BY ONLY <1>1, <1>2, <1>3, b \in Nat

LEMMA OneRest ==
  ASSUME NEW b \in Nat \ {0}, NEW q \in Int, NEW c \in 0 .. b - 1, NEW a \in Int,
         a = b * q + c
  PROVE  a % b = c /\ a \div b = q
<1>1. PICK r \in Int, d \in 0 .. b - 1 : r = a \div b /\ d = a % b /\ a = b * r + d
  BY Rest
<1>2. b * q \in Int /\ b * r \in Int
  BY SMT
<1>3. CASE q < r
  <2>1. b * q + b <= b * r
    BY <1>3, ProductsApart
  <2>. QED
    BY ONLY <2>1, <1>1, <1>2, a = b * q + c, c \in 0 .. b - 1, b \in Nat
<1>4. CASE r < q
  <2>1. b * r + b <= b * q
    BY <1>4, ProductsApart
  <2>. QED
    BY ONLY <2>1, <1>1, <1>2, a = b * q + c, c \in 0 .. b - 1, b \in Nat
<1>5. CASE q = r
  BY <1>1, <1>2, <1>5
<1>. QED
  BY <1>3, <1>4, <1>5

LEMMA SmallRest ==
  ASSUME NEW b \in Nat \ {0}, NEW c \in 0 .. b - 1
  PROVE  c % b = c /\ c \div b = 0
<1>1. c = b * 0 + c
  BY SMT
<1>. QED
  BY <1>1, OneRest

(* A multiple of the divisor does not change the rest.                     *)
LEMMA RestOfSum ==
  ASSUME NEW b \in Nat \ {0}, NEW a \in Int, NEW k \in Int
  PROVE  (a + b * k) % b = a % b /\ (a + b * k) \div b = (a \div b) + k
<1>1. PICK r \in Int, d \in 0 .. b - 1 : r = a \div b /\ d = a % b /\ a = b * r + d
  BY Rest
<1>2. b * (r + k) = b * r + b * k /\ b * k \in Int /\ b * r \in Int
  BY SMT
<1>3. a + b * k = b * (r + k) + d /\ a + b * k \in Int /\ r + k \in Int
  BY <1>1, <1>2
<1>4. (a + b * k) % b = d /\ (a + b * k) \div b = r + k
  BY <1>3, OneRest
<1>. QED
  BY <1>1, <1>4

(* A rest may be taken before or after adding and subtracting.             *)
LEMMA RestInside ==
  ASSUME NEW b \in Nat \ {0}, NEW a \in Int, NEW c \in Int
  PROVE  /\ ((a % b) + c) % b = (a + c) % b
         /\ (c - (a % b)) % b = (c - a) % b
         /\ (a % b) % b = a % b
<1>1. PICK r \in Int, d \in 0 .. b - 1 : r = a \div b /\ d = a % b /\ a = b * r + d
  BY Rest
<1>2. b * r \in Int /\ b * (-r) = -(b * r) /\ -r \in Int
  BY SMT
<1>3. a + c = (d + c) + b * r /\ c - a = (c - d) + b * (-r)
  BY <1>1, <1>2
<1>4. ((d + c) + b * r) % b = (d + c) % b /\ ((c - d) + b * (-r)) % b = (c - d) % b
  <2>. d + c \in Int /\ c - d \in Int /\ -r \in Int
    OBVIOUS
  <2>1. ((d + c) + b * r) % b = (d + c) % b
    BY RestOfSum
  <2>2. ((c - d) + b * (-r)) % b = (c - d) % b
    BY RestOfSum
  <2>. QED
    BY <2>1, <2>2
<1>5. d % b = d
  BY SmallRest
<1>. QED
  BY <1>1, <1>3, <1>4, <1>5

(* A rest by b, then by a divisor of b.                                    *)
LEMMA RestByDivisor ==
  ASSUME NEW b \in Nat \ {0}, NEW c \in Nat \ {0}, NEW a \in Int, b % c = 0
  PROVE  (a % b) % c = a % c
<1>1. PICK r \in Int, d \in 0 .. b - 1 : r = a \div b /\ d = a % b /\ a = b * r + d
  BY Rest
<1>2. PICK e \in Int : b = c * e
  <2>. b \in Int
    OBVIOUS
  <2>1. b \div c \in Int /\ b = c * (b \div c) + 0
    BY Rest
  <2>2. PICK e : e = b \div c
    OBVIOUS
  <2>3. c * e \in Int
    BY <2>1, <2>2, SMT
  <2>. QED
    BY <2>1, <2>2, <2>3
<1>3. e * r \in Int /\ (c * e) * r = c * (e * r)
  BY SMT
<1>4. a = d + c * (e * r)
  BY <1>1, <1>2, <1>3
<1>5. PICK f \in Int : f = e * r
  BY <1>3
<1>6. (d + c * f) % c = d % c
  <2>. d \in Int
    OBVIOUS
  <2>. QED
    BY RestOfSum
<1>. QED
  BY <1>1, <1>4, <1>5, <1>6

(* The quotient by b is below k when the dividend is below b * k.          *)
LEMMA QuotientBelow ==
  ASSUME NEW a \in Nat, NEW b \in Nat \ {0}, NEW k \in Nat, a < b * k
  PROVE  a \div b \in 0 .. k - 1
<1>1. PICK r \in Int, d \in 0 .. b - 1 : r = a \div b /\ d = a % b /\ a = b * r + d
  BY Rest
<1>2. b * r \in Int /\ b * k \in Int /\ b * 0 = 0
  BY SMT
<1>3. ~(r < 0)
  <2>. SUFFICES ASSUME r < 0 PROVE FALSE
    BY <1>1
  <2>1. b * r + b <= b * 0
    BY ProductsApart
  <2>. QED
    BY ONLY <2>1, <1>1, <1>2, a \in Nat
<1>4. ~(k <= r)
  <2>. SUFFICES ASSUME k <= r PROVE FALSE
    BY <1>1
  <2>1. k = r \/ b * k + b <= b * r
    BY ProductsApart
  <2>. QED
    BY ONLY <2>1, <1>1, <1>2, a < b * k, b \in Nat, a \in Nat
<1>. QED
  BY <1>1, <1>3, <1>4

LEMMA QuotientAtMost ==
  ASSUME NEW a \in Nat, NEW b \in Nat \ {0}
  PROVE  a \div b \in 0 .. a
<1>1. a + 1 \in Nat /\ a + 1 <= (a + 1) * b /\ b * (a + 1) = (a + 1) * b
  BY Products
<1>2. a < b * (a + 1)
  BY <1>1
<1>3. a \div b \in 0 .. (a + 1) - 1
  BY <1>2, QuotientBelow
<1>. QED
  BY <1>3

-----------------------------------------------------------------------------
(***************************************************************************)
(* Sums by recursion, and the numbers that bytes and bits make.            *)
(***************************************************************************)

Recursion(g, N, V, c, step) ==
  /\ g \in [0 .. N -> V]
  /\ g[0] = c
  /\ \A n \in 1 .. N : g[n] = step[<<g[n - 1], n>>]

(* Steps define a function, by induction on how far it is defined.         *)
LEMMA RecursionExists ==
  ASSUME NEW N \in Nat, NEW V, NEW c \in V, NEW step \in [V \X (1 .. N) -> V]
  PROVE  \E g : Recursion(g, N, V, c, step)
<1>. DEFINE Good(g, n) == g[0] = c /\ \A k \in 1 .. n : g[k] = step[<<g[k - 1], k>>]
            S == {n \in 0 .. N : \E g \in [0 .. N -> V] : Good(g, n)}
<1>1. 0 \in S
  <2>. DEFINE g0 == [n \in 0 .. N |-> c]
  <2>1. g0 \in [0 .. N -> V] /\ Good(g0, 0)
    OBVIOUS
  <2>2. \E g \in [0 .. N -> V] : Good(g, 0)
    <3>. HIDE DEF g0, Good
    <3>. QED
      BY <2>1
  <2>. HIDE DEF Good
  <2>. QED
    BY <2>2
<1>2. ASSUME NEW n \in 0 .. N - 1, n \in S PROVE n + 1 \in S
  <2>1. PICK g \in [0 .. N -> V] : Good(g, n)
    BY <1>2
  <2>. DEFINE h == [g EXCEPT ![n + 1] = step[<<g[n], n + 1>>]]
  <2>2. n \in 0 .. N /\ n + 1 \in 1 .. N /\ (n + 1) - 1 = n
    OBVIOUS
  <2>3. step[<<g[n], n + 1>>] \in V
    BY <2>2
  <2>4. h \in [0 .. N -> V]
    BY <2>3
  <2>5. h[n + 1] = step[<<h[n], n + 1>>] /\ h[0] = g[0]
    BY <2>2
  <2>6. ASSUME NEW k \in 1 .. n PROVE h[k] = step[<<h[k - 1], k>>]
    <3>1. k \in 0 .. N /\ k - 1 \in 0 .. N /\ k # n + 1 /\ k - 1 # n + 1
      BY <2>2
    <3>2. h[k] = g[k] /\ h[k - 1] = g[k - 1]
      BY <3>1
    <3>. QED
      BY <2>1, <3>2
  <2>7. Good(h, n + 1)
    <3>. HIDE DEF h
    <3>. QED
      BY <2>1, <2>2, <2>5, <2>6
  <2>8. \E f \in [0 .. N -> V] : Good(f, n + 1)
    <3>. HIDE DEF h, Good
    <3>. QED
      BY <2>4, <2>7
  <2>. HIDE DEF Good
  <2>. QED
    BY <2>8, <2>2
<1>3. \A n \in 0 .. N : n \in S
  <2>. HIDE DEF S
  <2>. QED
    BY <1>1, <1>2, Induction
<1>4. PICK g \in [0 .. N -> V] : Good(g, N)
  <2>. N \in S
    <3>. HIDE DEF S
    <3>. QED
      BY <1>3
  <2>. HIDE DEF Good
  <2>. QED
    OBVIOUS
<1>. QED
  BY <1>4 DEF Recursion

(* The sums of the first terms.                                            *)
LEMMA SumsExist ==
  ASSUME NEW N \in Nat, NEW t \in [1 .. N -> Nat]
  PROVE  \E h \in [0 .. N -> Nat] : h[0] = 0 /\ \A i \in 1 .. N : h[i] = h[i - 1] + t[i]
<1>. DEFINE step == [x \in Nat \X (1 .. N) |-> x[1] + t[x[2]]]
<1>1. step \in [Nat \X (1 .. N) -> Nat]
  OBVIOUS
<1>2. \A s \in Nat, i \in 1 .. N : step[<<s, i>>] = s + t[i]
  OBVIOUS
<1>. HIDE DEF step
<1>3. PICK h : Recursion(h, N, Nat, 0, step)
  BY <1>1, RecursionExists
<1>4. \A i \in 1 .. N : h[i - 1] \in Nat
  <2>. \A i \in 1 .. N : i - 1 \in 0 .. N
    OBVIOUS
  <2>. QED
    BY <1>3 DEF Recursion
<1>. QED
  BY <1>2, <1>3, <1>4 DEF Recursion

(* SumOfFirst is such a sum.                                               *)
LEMMA SumIs ==
  ASSUME NEW N \in Nat, NEW t \in [1 .. N -> Nat]
  PROVE  \E g \in [0 .. N -> Nat] :
            SumOfFirst(N, t) = g[N] /\ g[0] = 0 /\ \A i \in 1 .. N : g[i] = g[i - 1] + t[i]
<1>. DEFINE Body(f) == [i \in 0 .. N |-> IF i = 0 THEN 0 ELSE f[i - 1] + t[i]]
            sum == CHOOSE f : f = Body(f)
<1>1. PICK h \in [0 .. N -> Nat] : h[0] = 0 /\ \A i \in 1 .. N : h[i] = h[i - 1] + t[i]
  BY SumsExist
<1>2. h = Body(h)
  <2>1. \A i \in 0 .. N : i # 0 => i \in 1 .. N
    OBVIOUS
  <2>2. \A i \in 0 .. N : h[i] = Body(h)[i]
    BY <1>1, <2>1, Zenon
  <2>. QED
    BY <1>1, <2>2
<1>3. sum = Body(sum)
  <2>. HIDE DEF Body
  <2>. QED
    BY <1>2
<1>4. SumOfFirst(N, t) = sum[N]
  BY DEF SumOfFirst
<1>. HIDE DEF sum
<1>5. \A i \in 0 .. N : sum[i] = IF i = 0 THEN 0 ELSE sum[i - 1] + t[i]
  BY <1>3
<1>6. sum[0] = 0 /\ \A i \in 1 .. N : sum[i] = sum[i - 1] + t[i]
  BY <1>5
<1>. DEFINE S == {i \in 0 .. N : sum[i] \in Nat}
<1>7. 0 \in S
  BY <1>6
<1>8. ASSUME NEW n \in 0 .. N - 1, n \in S PROVE n + 1 \in S
  <2>1. n + 1 \in 1 .. N /\ (n + 1) - 1 = n /\ n + 1 \in 0 .. N
    OBVIOUS
  <2>2. sum[n + 1] = sum[n] + t[n + 1] /\ sum[n] \in Nat /\ t[n + 1] \in Nat
    BY <1>6, <1>8, <2>1
  <2>. QED
    BY <2>1, <2>2
<1>9. \A n \in 0 .. N : n \in S
  <2>. HIDE DEF S
  <2>. QED
    BY <1>7, <1>8, Induction
<1>10. sum \in [0 .. N -> Nat]
  BY <1>3, <1>9
<1>. QED
  BY <1>4, <1>6, <1>10

(* A sum stays below a bound that grows with its terms.                    *)
GrowsWith(B, N, t) == B[0] = 1 /\ \A i \in 1 .. N : t[i] + B[i - 1] <= B[i]

LEMMA SumBelow ==
  ASSUME NEW N \in Nat, NEW t \in [1 .. N -> Nat], NEW B \in [0 .. N -> Nat],
         GrowsWith(B, N, t)
  PROVE  SumOfFirst(N, t) \in 0 .. B[N] - 1
<1>1. PICK g \in [0 .. N -> Nat] :
         SumOfFirst(N, t) = g[N] /\ g[0] = 0 /\ \A i \in 1 .. N : g[i] = g[i - 1] + t[i]
  BY SumIs
<1>. DEFINE S == {i \in 0 .. N : g[i] < B[i]}
<1>2. 0 \in S
  BY <1>1 DEF GrowsWith
<1>3. ASSUME NEW n \in 0 .. N - 1, n \in S PROVE n + 1 \in S
  <2>1. n + 1 \in 1 .. N /\ (n + 1) - 1 = n /\ n + 1 \in 0 .. N /\ n \in 0 .. N
    OBVIOUS
  <2>2. g[n + 1] = g[n] + t[n + 1]
    BY <1>1, <2>1
  <2>3. t[n + 1] + B[n] <= B[n + 1]
    BY <2>1 DEF GrowsWith
  <2>4. g[n + 1] \in Nat /\ g[n] \in Nat /\ t[n + 1] \in Nat /\ B[n] \in Nat /\ B[n + 1] \in Nat
    BY <2>1
  <2>5. g[n] < B[n]
    BY <1>3
  <2>6. g[n + 1] < B[n + 1]
    BY ONLY <2>2, <2>3, <2>4, <2>5
  <2>. QED
    BY <2>1, <2>6
<1>4. \A n \in 0 .. N : n \in S
  <2>. HIDE DEF S
  <2>. QED
    BY <1>2, <1>3, Induction
<1>. QED
  BY <1>1, <1>4

(* The width of what the words' operators compute.                         *)
LEMMA NextPow ==
  ASSUME NEW i \in Nat \ {0}
  PROVE  Pow(i) = Pow(1) * Pow(i - 1) /\ Pow(i - 1) \in Nat \ {0} /\ Pow(i) \in Nat \ {0}
<1>1. i - 1 \in Nat /\ 1 + (i - 1) = i
  OBVIOUS
<1>. QED
  BY <1>1, PowAdds, PowIs

LEMMA DigitBelow ==
  ASSUME NEW d \in Byte, NEW p \in Nat
  PROVE  d * p \in Nat /\ d * p + p <= Pow(1) * p
<1>1. Pow(1) \in Nat
  BY PowIs
<1>2. PICK e \in Nat : Pow(1) = d + 1 + e
  <2>. Pow(1) - 1 - d \in Nat /\ Pow(1) = d + 1 + (Pow(1) - 1 - d)
    BY <1>1 DEF Byte, Width
  <2>. QED
    OBVIOUS
<1>3. d \in Nat
  BY <1>1 DEF Byte, Width
<1>4. (d + 1 + e) * p = d * p + p + e * p /\ d * p \in Nat /\ e * p \in Nat
  BY <1>3, SMT
<1>. QED
  BY <1>2, <1>4

LEMMA ReadLEWidth ==
  ASSUME NEW b \in Seq(Byte)
  PROVE  ReadLE(b) \in Width(Len(b))
<1>. DEFINE N == Len(b)
            t == [i \in 1 .. N |-> b[i] * Pow(i - 1)]
            B == [i \in 0 .. N |-> Pow(i)]
<1>1. N \in Nat
  OBVIOUS
<1>2. ASSUME NEW i \in 1 .. N
      PROVE  b[i] * Pow(i - 1) \in Nat /\ b[i] * Pow(i - 1) + Pow(i - 1) <= Pow(i)
  <2>1. i \in Nat \ {0} /\ b[i] \in Byte
    OBVIOUS
  <2>2. Pow(i) = Pow(1) * Pow(i - 1) /\ Pow(i - 1) \in Nat
    BY <2>1, NextPow
  <2>. QED
    BY <2>1, <2>2, DigitBelow
<1>3. t \in [1 .. N -> Nat] /\ \A i \in 1 .. N : t[i] = b[i] * Pow(i - 1)
  BY <1>2
<1>4. B \in [0 .. N -> Nat] /\ B[0] = 1 /\ B[N] = Pow(N) /\ \A i \in 1 .. N : B[i] = Pow(i) /\ B[i - 1] = Pow(i - 1)
  <2>1. \A i \in 0 .. N : Pow(i) \in Nat
    BY PowIs
  <2>2. 0 \in 0 .. N /\ N \in 0 .. N /\ \A i \in 1 .. N : i \in 0 .. N /\ i - 1 \in 0 .. N
    BY <1>1
  <2>. HIDE DEF N
  <2>. QED
    BY <2>1, <2>2, PowZero
<1>5. GrowsWith(B, N, t)
  <2>. HIDE DEF B, N, t
  <2>. QED
    BY <1>2, <1>3, <1>4 DEF GrowsWith
<1>6. SumOfFirst(N, t) \in 0 .. B[N] - 1
  <2>. HIDE DEF B, N, t
  <2>. QED
    BY <1>1, <1>3, <1>4, <1>5, SumBelow
<1>. QED
  BY <1>4, <1>6 DEF ReadLE, Width

\* A number of n bits.
BitsWidth(n) == 0 .. 2^n - 1

LEMMA BitFoldWidth ==
  ASSUME NEW n \in Nat, NEW f, \A i \in 0 .. n - 1 : f[i] \in {0, 1}
  PROVE  BitFold(n, f) \in BitsWidth(n)
<1>. DEFINE t == [i \in 1 .. n |-> f[i - 1] * 2^(i - 1)]
            B == [i \in 0 .. n |-> 2^i]
<1>1. ASSUME NEW i \in 1 .. n
      PROVE  f[i - 1] * 2^(i - 1) \in Nat /\ f[i - 1] * 2^(i - 1) + 2^(i - 1) <= 2^i
  <2>1. i - 1 \in 0 .. n - 1 /\ i - 1 \in Nat /\ (i - 1) + 1 = i
    OBVIOUS
  <2>2. 2^((i - 1) + 1) = 2 * 2^(i - 1) /\ 2^(i - 1) \in Nat
    BY <2>1, Doubling
  <2>3. PICK c \in Nat, d \in {0, 1} : c = 2^(i - 1) /\ d = f[i - 1]
    BY <2>1, <2>2
  <2>4. d * c \in Nat /\ d * c + c <= 2 * c
    BY SMT
  <2>. QED
    BY ONLY <2>1, <2>2, <2>3, <2>4
<1>2. t \in [1 .. n -> Nat] /\ \A i \in 1 .. n : t[i] = f[i - 1] * 2^(i - 1)
  BY <1>1
<1>3. B \in [0 .. n -> Nat] /\ B[0] = 1 /\ B[n] = 2^n /\ \A i \in 1 .. n : B[i] = 2^i /\ B[i - 1] = 2^(i - 1)
  <2>1. \A i \in 0 .. n : 2^i \in Nat
    BY Doubling
  <2>2. 0 \in 0 .. n /\ n \in 0 .. n /\ \A i \in 1 .. n : i \in 0 .. n /\ i - 1 \in 0 .. n
    OBVIOUS
  <2>3. 2^0 = 1
    BY SMT
  <2>. QED
    BY <2>1, <2>2, <2>3
<1>4. GrowsWith(B, n, t)
  <2>. HIDE DEF B, t
  <2>. QED
    BY <1>1, <1>2, <1>3 DEF GrowsWith
<1>5. SumOfFirst(n, t) \in 0 .. B[n] - 1
  <2>. HIDE DEF B, t
  <2>. QED
    BY <1>2, <1>3, <1>4, SumBelow
<1>. QED
  BY <1>3, <1>5 DEF BitFold, BitsWidth

LEMMA BitIs ==
  ASSUME NEW x \in Nat, NEW i \in Nat
  PROVE  Bit(x, i) \in {0, 1}
<1>1. 2^i \in Nat \ {0}
  BY Doubling
<1>2. x \div 2^i \in Int
  BY <1>1, Rest
<1>3. PICK q \in Int : q = x \div 2^i
  BY <1>2
<1>4. q % 2 \in {0, 1}
  BY SMT
<1>. QED
  BY <1>3, <1>4 DEF Bit

LEMMA WordBits ==
  /\ Bits64 \in Nat \ {0} /\ Bits32 \in Nat \ {0}
  /\ 2^Bits64 = Pow(8) /\ 2^Bits32 = Pow(4)
  /\ Bits64 < Pow(8) /\ Bits32 < Pow(4) /\ Bits32 <= Bits64
  /\ Pow(4) \in Nat \ {0} /\ Pow(8) \in Nat \ {0} /\ Pow(4) <= Pow(8)
<1>1. ByteBits \in Nat \ {0}
  BY WordsAssumption
<1>2. ByteBits * 8 \in Nat \ {0} /\ ByteBits * 4 \in Nat \ {0} /\ ByteBits * 4 <= ByteBits * 8
  BY <1>1
<1>3. ByteBits * 8 < 2^(ByteBits * 8) /\ ByteBits * 4 < 2^(ByteBits * 4)
  BY <1>2, BelowItsPower
<1>4. Pow(4) \in Nat \ {0} /\ Pow(8) \in Nat \ {0} /\ Pow(4) <= Pow(8)
  BY PowIs, PowGrows
<1>. QED
  BY <1>2, <1>3, <1>4 DEF Bits64, Bits32, Pow

LEMMA LogicWidth ==
  ASSUME NEW x \in Nat, NEW y \in Nat
  PROVE  And(x, y) \in Register /\ Or(x, y) \in Register /\ Xor(x, y) \in Register
<1>1. \A i \in 0 .. Bits64 - 1 : Bit(x, i) \in {0, 1} /\ Bit(y, i) \in {0, 1}
  BY BitIs, WordBits
<1>. DEFINE a == [i \in 0 .. Bits64 - 1 |-> Bit(x, i) * Bit(y, i)]
            o == [i \in 0 .. Bits64 - 1 |-> IF Bit(x, i) + Bit(y, i) > 0 THEN 1 ELSE 0]
            d == [i \in 0 .. Bits64 - 1 |-> (Bit(x, i) + Bit(y, i)) % 2]
<1>2. \A i \in 0 .. Bits64 - 1 : a[i] \in {0, 1} /\ o[i] \in {0, 1} /\ d[i] \in {0, 1}
  <2>. SUFFICES ASSUME NEW i \in 0 .. Bits64 - 1
                PROVE  a[i] \in {0, 1} /\ o[i] \in {0, 1} /\ d[i] \in {0, 1}
    OBVIOUS
  <2>1. PICK b, c : b = Bit(x, i) /\ c = Bit(y, i)
    OBVIOUS
  <2>2. b * c \in {0, 1} /\ (b + c) % 2 \in {0, 1}
    BY <1>1, <2>1
  <2>. QED
    BY <2>1, <2>2
<1>3. BitFold(Bits64, a) \in BitsWidth(Bits64) /\ BitFold(Bits64, o) \in BitsWidth(Bits64)
      /\ BitFold(Bits64, d) \in BitsWidth(Bits64)
  <2>. HIDE DEF a, o, d
  <2>. QED
    BY <1>2, BitFoldWidth, WordBits
<1>. QED
  BY <1>3, WordBits DEF And, Or, Xor, BitsWidth, Register, Width

LEMMA NotWidth ==
  ASSUME NEW x \in Register
  PROVE  Not(x) \in Register
BY WordBits DEF Not, Register, Width

LEMMA CountWidth ==
  ASSUME NEW n \in Nat, NEW x \in Nat
  PROVE  CountBits(n, x) \in 0 .. n
<1>. DEFINE t == [i \in 1 .. n |-> Bit(x, i - 1)]
            B == [i \in 0 .. n |-> i + 1]
<1>1. t \in [1 .. n -> Nat] /\ \A i \in 1 .. n : t[i] <= 1
  <2>. \A i \in 1 .. n : Bit(x, i - 1) \in {0, 1}
    BY BitIs
  <2>. QED
    OBVIOUS
<1>2. B \in [0 .. n -> Nat] /\ B[n] = n + 1 /\ B[0] = 1 /\ \A i \in 1 .. n : B[i] = i + 1 /\ B[i - 1] = i
  OBVIOUS
<1>3. GrowsWith(B, n, t)
  <2>. HIDE DEF B, t
  <2>1. \A i \in 1 .. n : t[i] \in Nat
    BY <1>1
  <2>. QED
    BY <1>1, <1>2, <2>1 DEF GrowsWith
<1>4. SumOfFirst(n, t) \in 0 .. B[n] - 1
  <2>. HIDE DEF B, t
  <2>. QED
    BY <1>1, <1>2, <1>3, SumBelow
<1>. QED
  BY <1>2, <1>4 DEF CountBits

LEMMA ByteOfIs ==
  ASSUME NEW v \in Int, NEW i \in Nat
  PROVE  ByteOf(v, i) \in Byte
<1>1. Pow(i) \in Nat \ {0} /\ Pow(1) \in Nat \ {0}
  BY PowIs
<1>2. v \div Pow(i) \in Int
  BY <1>1, Rest
<1>3. (v \div Pow(i)) % Pow(1) \in 0 .. Pow(1) - 1
  BY <1>1, <1>2, Rest
<1>. QED
  BY <1>3 DEF ByteOf, Byte, Width

LEMMA ReverseBytesWidth ==
  ASSUME NEW x \in Nat
  PROVE  ReverseBytes(x) \in Register
<1>. DEFINE t == [i \in 1 .. 8 |-> ByteOf(x, i - 1) * Pow(8 - i)]
            B == [i \in 0 .. 8 |-> Pow(8) - Pow(8 - i) + 1]
<1>1. ASSUME NEW i \in 1 .. 8
      PROVE  /\ ByteOf(x, i - 1) * Pow(8 - i) \in Nat
             /\ ByteOf(x, i - 1) * Pow(8 - i) + Pow(8 - i) <= Pow(8 - (i - 1))
  <2>1. i - 1 \in Nat /\ 8 - (i - 1) \in Nat \ {0} /\ (8 - (i - 1)) - 1 = 8 - i
    OBVIOUS
  <2>2. ByteOf(x, i - 1) \in Byte
    BY <2>1, ByteOfIs
  <2>3. Pow(8 - (i - 1)) = Pow(1) * Pow(8 - i) /\ Pow(8 - i) \in Nat
    BY <2>1, NextPow
  <2>. QED
    BY <2>2, <2>3, DigitBelow
<1>2. t \in [1 .. 8 -> Nat] /\ \A i \in 1 .. 8 : t[i] = ByteOf(x, i - 1) * Pow(8 - i)
  BY <1>1
<1>3. \A i \in 0 .. 8 : Pow(8 - i) \in Nat \ {0} /\ Pow(8 - i) <= Pow(8)
  BY PowIs, PowGrows
<1>4. Pow(8) \in Nat /\ Pow(0) = 1
  BY PowIs, PowZero
<1>5. B \in [0 .. 8 -> Nat] /\ B[0] = 1 /\ B[8] = Pow(8)
      /\ \A i \in 1 .. 8 : B[i] = Pow(8) - Pow(8 - i) + 1 /\ B[i - 1] = Pow(8) - Pow(8 - (i - 1)) + 1
  <2>1. \A i \in 0 .. 8 : Pow(8) - Pow(8 - i) + 1 \in Nat
    BY <1>3, <1>4
  <2>2. B \in [0 .. 8 -> Nat]
    BY <2>1
  <2>3. 8 - 0 = 8 /\ 8 - 8 = 0
    OBVIOUS
  <2>4. B[0] = Pow(8) - Pow(8) + 1 /\ B[8] = Pow(8) - Pow(0) + 1
    BY <2>3
  <2>5. B[0] = 1 /\ B[8] = Pow(8)
    BY ONLY <1>4, <2>4
  <2>6. \A i \in 1 .. 8 : B[i] = Pow(8) - Pow(8 - i) + 1 /\ B[i - 1] = Pow(8) - Pow(8 - (i - 1)) + 1
    OBVIOUS
  <2>. QED
    BY <2>2, <2>5, <2>6
<1>6. GrowsWith(B, 8, t)
  <2>1. ASSUME NEW i \in 1 .. 8 PROVE t[i] + B[i - 1] <= B[i]
    <3>1. i \in 0 .. 8 /\ i - 1 \in 0 .. 8
      OBVIOUS
    <3>2. Pow(8 - i) \in Nat /\ Pow(8 - (i - 1)) \in Nat
      BY <1>3, <3>1
    <3>3. t[i] \in Nat /\ t[i] + Pow(8 - i) <= Pow(8 - (i - 1))
      BY <1>1, <1>2
    <3>. HIDE DEF t, B
    <3>4. B[i] = Pow(8) - Pow(8 - i) + 1 /\ B[i - 1] = Pow(8) - Pow(8 - (i - 1)) + 1
      BY <1>5
    <3>. QED
      BY ONLY <1>4, <3>2, <3>3, <3>4
  <2>. HIDE DEF t, B
  <2>. QED
    BY <1>5, <2>1 DEF GrowsWith
<1>7. SumOfFirst(8, t) \in 0 .. B[8] - 1
  <2>. HIDE DEF B, t
  <2>. QED
    BY <1>2, <1>5, <1>6, SumBelow
<1>. QED
  BY <1>5, <1>7 DEF ReverseBytes, Register, Width

LEMMA GreatestElement ==
  ASSUME NEW n \in Nat, NEW S \in SUBSET (0 .. n - 1), S # {}
  PROVE  \E m \in S : \A i \in S : i <= m
<1>. DEFINE T == {n - 1 - i : i \in S}
<1>1. T \in SUBSET Nat /\ T # {}
  OBVIOUS
<1>2. PICK k \in T : \A j \in T : k <= j
  <2>. HIDE DEF T
  <2>. QED
    BY <1>1, LeastElement
<1>3. PICK m \in S : k = n - 1 - m
  OBVIOUS
<1>4. \A i \in S : n - 1 - m <= n - 1 - i
  BY <1>2, <1>3
<1>. QED
  BY <1>4

LEMMA ZerosWidth ==
  ASSUME NEW n \in Nat, NEW x \in Nat
  PROVE  LeadingZeros(n, x) \in 0 .. n /\ TrailingZeros(n, x) \in 0 .. n
<1>. DEFINE S == {i \in 0 .. n - 1 : Bit(x, i) = 1}
<1>1. \A i \in 0 .. n - 1 : Bit(x, i) \in {0, 1}
  BY BitIs
<1>2. CASE \A i \in 0 .. n - 1 : Bit(x, i) = 0
  BY <1>2 DEF LeadingZeros, TrailingZeros
<1>3. CASE ~ \A i \in 0 .. n - 1 : Bit(x, i) = 0
  <2>1. S # {}
    BY <1>1, <1>3
  <2>2. \E i \in 0 .. n - 1 : Bit(x, i) = 1 /\ \A j \in i + 1 .. n - 1 : Bit(x, j) = 0
    <3>1. PICK m \in S : \A i \in S : i <= m
      <4>. S \in SUBSET (0 .. n - 1)
        OBVIOUS
      <4>. HIDE DEF S
      <4>. QED
        BY <2>1, GreatestElement
    <3>2. \A j \in m + 1 .. n - 1 : j \in 0 .. n - 1 /\ ~(j <= m)
      OBVIOUS
    <3>. QED
      BY <1>1, <3>1, <3>2
  <2>3. \E i \in 0 .. n - 1 : Bit(x, i) = 1 /\ \A j \in 0 .. i - 1 : Bit(x, j) = 0
    <3>1. PICK m \in S : \A i \in S : m <= i
      <4>. S \in SUBSET Nat
        OBVIOUS
      <4>. HIDE DEF S
      <4>. QED
        BY <2>1, LeastElement
    <3>2. \A j \in 0 .. m - 1 : j \in 0 .. n - 1 /\ ~(m <= j)
      OBVIOUS
    <3>. QED
      BY <1>1, <3>1, <3>2
  <2>. DEFINE high == CHOOSE i \in 0 .. n - 1 : Bit(x, i) = 1 /\ \A j \in i + 1 .. n - 1 : Bit(x, j) = 0
              low == CHOOSE i \in 0 .. n - 1 : Bit(x, i) = 1 /\ \A j \in 0 .. i - 1 : Bit(x, j) = 0
  <2>4. high \in 0 .. n - 1
    BY <2>2
  <2>5. low \in 0 .. n - 1
    BY <2>3
  <2>6. LeadingZeros(n, x) = n - 1 - high /\ TrailingZeros(n, x) = low
    BY <1>3 DEF LeadingZeros, TrailingZeros
  <2>. HIDE DEF high, low
  <2>. QED
    BY <2>4, <2>5, <2>6
<1>. QED
  BY <1>2, <1>3

(* Signed readings and their inverses.                                     *)
LEMMA ZIs ==
  ASSUME NEW n \in Nat, NEW a \in Int
  PROVE  Z(n, a) \in Int
BY PowIs DEF Z

LEMMA Z_invWidth ==
  ASSUME NEW a \in Int
  PROVE  Z_inv(8, a) \in Register
<1>1. Pow(8) \in Nat \ {0} /\ Pow(8) + a \in Int
  BY WordBits
<1>. QED
  BY <1>1, Rest DEF Z_inv, Register, Width

LEMMA FlooredWidth ==
  ASSUME NEW z \in Int, NEW n \in Nat
  PROVE  Floored(z, n) \in Register
<1>1. z \div 2^n \in Int
  BY Doubling, Rest
<1>. QED
  BY <1>1, Z_invWidth DEF Floored

LEMMA X_fnIs ==
  ASSUME NEW n \in 1 .. 8, NEW x \in Width(n)
  PROVE  /\ X_fn(n, x) \in Register
         /\ x < Pow(n) \div 2 => X_fn(n, x) = x
         /\ ~(x < Pow(n) \div 2) => X_fn(n, x) = x + (Pow(8) - Pow(n))
<1>1. PICK h \in Nat \ {0} : h = Pow(n) \div 2 /\ Pow(n) = 2 * h
  BY HalfOfPow
<1>2. Pow(n) <= Pow(8) /\ Pow(8) \in Nat /\ Pow(n) \in Nat
  BY PowGrows, PowIs
<1>3. x \in 0 .. (2 * h) - 1
  BY <1>1 DEF Width
<1>4. PICK q, d : q = x \div h /\ d = Pow(8) - Pow(n)
  OBVIOUS
<1>5. X_fn(n, x) = x + q * d /\ d \in Nat
  <2>1. X_fn(n, x) = x + (x \div (Pow(n) \div 2)) * (Pow(8) - Pow(n))
    BY Zenon DEF X_fn
  <2>2. x \div (Pow(n) \div 2) = q
    BY <1>1, <1>4
  <2>3. X_fn(n, x) = x + q * d
    BY <1>4, <2>1, <2>2
  <2>4. d \in Nat
    BY <1>2, <1>4
  <2>. QED
    BY <2>3, <2>4
<1>6. CASE x < h
  <2>1. q = 0
    BY <1>3, <1>4, <1>6, SmallRest
  <2>2. 0 * d = 0
    BY <1>5
  <2>3. X_fn(n, x) = x
    BY ONLY <1>3, <1>5, <2>1, <2>2
  <2>. QED
    BY ONLY <2>3, <1>1, <1>2, <1>3, <1>6 DEF Register, Width
<1>7. CASE ~(x < h)
  <2>1. x = h * 1 + (x - h) /\ x - h \in 0 .. h - 1
    BY <1>3, <1>7, SMT
  <2>2. q = 1
    <3>. x \in Int
      BY <1>3
    <3>. QED
      BY <1>4, <2>1, OneRest
  <2>3. 1 * d = d
    BY <1>5
  <2>4. X_fn(n, x) = x + (Pow(8) - Pow(n))
    BY <1>4, <1>5, <2>2, <2>3
  <2>. QED
    BY ONLY <2>4, <1>1, <1>2, <1>3, <1>7 DEF Register, Width
<1>. QED
  BY <1>6, <1>7

LEMMA VarintWidth ==
  ASSUME NEW b \in Seq(Byte), Len(b) <= 8
  PROVE  Varint(b) \in Register
<1>1. CASE b = <<>>
  BY <1>1, WordBits DEF Varint, Register, Width
<1>2. CASE b # <<>>
  <2>1. Len(b) \in 1 .. 8
    <3>1. Len(b) \in Nat /\ Len(b) # 0
      BY <1>2, EmptySeq, LenProperties
    <3>2. PICK k \in Nat : k = Len(b)
      BY <3>1
    <3>3. k <= 8 /\ k # 0
      BY <3>1, <3>2
    <3>4. k \in 1 .. 8
      BY ONLY <3>3, k \in Nat
    <3>. QED
      BY <3>2, <3>4
  <2>2. PICK n \in 1 .. 8 : n = Len(b)
    BY <2>1
  <2>3. ReadLE(b) \in Width(n)
    BY <2>2, ReadLEWidth
  <2>. QED
    BY <1>2, <2>2, <2>3, X_fnIs DEF Varint
<1>. QED
  BY <1>1, <1>2

-----------------------------------------------------------------------------
(***************************************************************************)
(* What an instruction computes is the value of a register.                *)
(***************************************************************************)

(* A rotation keeps the width.                                             *)
LEMMA RotateRightWidth ==
  ASSUME NEW n \in Nat, NEW s \in 0 .. n, NEW x \in BitsWidth(n)
  PROVE  RotateRight(n, x, s) \in BitsWidth(n)
<1>1. PICK hi \in Nat \ {0}, lo \in Nat \ {0} : hi = 2^(n - s) /\ lo = 2^s
  <2>. n - s \in Nat /\ s \in Nat
    OBVIOUS
  <2>. QED
    BY Doubling
<1>2. 2^n = lo * hi /\ 2^n \in Nat \ {0}
  <2>1. s \in Nat /\ n - s \in Nat /\ s + (n - s) = n
    OBVIOUS
  <2>2. 2^(s + (n - s)) = 2^s * 2^(n - s)
    BY <2>1, PowersAdd
  <2>. QED
    BY <1>1, <2>1, <2>2, Doubling
<1>3. x \in Nat /\ x < lo * hi
  BY <1>2 DEF BitsWidth
<1>4. PICK q, r : q = x \div lo /\ r = x % lo
  OBVIOUS
<1>5. q \in 0 .. hi - 1
  BY <1>3, <1>4, QuotientBelow
<1>6. q \in Int /\ r \in 0 .. lo - 1 /\ x = lo * q + r
  BY <1>3, <1>4, Rest
<1>7. x * hi = (lo * hi) * q + r * hi
  <2>. r \in Int
    BY <1>6
  <2>1. (lo * q + r) * hi = (lo * hi) * q + r * hi
    BY <1>6, SMT
  <2>. QED
    BY <1>6, <2>1
<1>8. r * hi \in Nat /\ r * hi + hi <= lo * hi
  <2>1. PICK e \in Nat : lo = r + 1 + e
    <3>. lo - 1 - r \in Nat /\ lo = r + 1 + (lo - 1 - r)
      BY <1>6
    <3>. QED
      OBVIOUS
  <2>2. (r + 1 + e) * hi = r * hi + hi + e * hi /\ e * hi \in Nat /\ r * hi \in Nat
    BY <1>6, SMT
  <2>. QED
    BY <2>1, <2>2
<1>9. PICK p, c : p = 2^n /\ c = r * hi
  OBVIOUS
<1>10. p \in Nat \ {0} /\ c \in 0 .. p - 1 /\ c + hi <= p
  BY ONLY <1>2, <1>8, <1>9, hi \in Nat \ {0}
<1>11. (x * hi) % p = c
  <2>1. x * hi \in Int
    BY <1>3, Products
  <2>2. x * hi = p * q + c
    BY <1>2, <1>7, <1>9
  <2>. QED
    BY <2>1, <2>2, <1>6, <1>10, OneRest
<1>12. RotateRight(n, x, s) = q + c
  BY <1>1, <1>4, <1>9, <1>11 DEF RotateRight
<1>13. q + c \in 0 .. p - 1
  BY ONLY <1>5, <1>10, hi \in Nat \ {0}
<1>. QED
  BY <1>9, <1>12, <1>13 DEF BitsWidth

LEMMA RotateLeftWidth ==
  ASSUME NEW n \in Nat \ {0}, NEW s \in Int, NEW x \in BitsWidth(n)
  PROVE  RotateLeft(n, x, s) \in BitsWidth(n)
<1>1. (n - s) % n \in 0 .. n - 1
  BY Rest
<1>2. (n - s) % n \in 0 .. n
  BY <1>1
<1>. QED
  BY <1>2, RotateRightWidth DEF RotateLeft

(* A JavaScript number: an integer, itself when it has few bits.           *)
LEMMA FloatIs ==
  ASSUME NEW x \in Register
  PROVE  /\ Float(x) \in Nat
         /\ x < 2^FloatBits => Float(x) = x
         /\ ~(x < 2^FloatBits) => 2^FloatBits <= Float(x)
<1>1. FloatBits \in Nat \ {0} /\ 2^FloatBits \in Nat \ {0}
  BY WordsAssumption, Doubling
<1>2. x \in Nat /\ x < Pow(8)
  BY WordBits DEF Register, Width
<1>3. CASE x < 2^FloatBits
  BY <1>2, <1>3 DEF Float
<1>4. CASE ~(x < 2^FloatBits)
  <2>. DEFINE S == {k \in Nat : x < 2^(FloatBits + k)}
  <2>1. Bits64 \in S
    <3>1. Bits64 \in Nat /\ FloatBits + Bits64 \in Nat /\ Bits64 <= FloatBits + Bits64
      BY <1>1, WordBits
    <3>2. 2^Bits64 <= 2^(FloatBits + Bits64) /\ 2^(FloatBits + Bits64) \in Nat
      BY <3>1, PowersGrow, Doubling
    <3>. QED
      BY <1>2, <3>1, <3>2, WordBits
  <2>2. PICK s \in S : \A k \in S : s <= k
    <3>. S \in SUBSET Nat /\ S # {}
      BY <2>1
    <3>. HIDE DEF S
    <3>. QED
      BY LeastElement
  <2>3. s # 0
    <3>. FloatBits + 0 = FloatBits
      BY <1>1
    <3>. QED
      BY <1>4
  <2>4. s <= Bits64 /\ s - 1 \in Nat /\ s - 1 \notin S
    <3>. HIDE DEF S
    <3>1. s <= Bits64 /\ Bits64 \in Nat /\ ~(s <= s - 1)
      BY <2>1, <2>2, WordBits DEF S
    <3>2. s - 1 \notin S
      BY <2>2, <3>1
    <3>. QED
      BY <2>3, <3>1, <3>2 DEF S
  <2>5. s \in 1 .. Bits64 /\ 2^(FloatBits + s - 1) <= x /\ x < 2^(FloatBits + s)
    <3>1. FloatBits + s - 1 = FloatBits + (s - 1) /\ FloatBits + (s - 1) \in Nat
      BY <1>1, <2>4
    <3>2. 2^(FloatBits + (s - 1)) \in Nat
      BY <3>1, Doubling
    <3>. QED
      BY <1>2, <2>3, <2>4, <3>1, <3>2, WordBits
  <2>. DEFINE drop == CHOOSE i \in 1 .. Bits64 : 2^(FloatBits + i - 1) <= x /\ x < 2^(FloatBits + i)
  <2>6. drop \in 1 .. Bits64 /\ 2^(FloatBits + drop - 1) <= x
    <3>. HIDE DEF S
    <3>. QED
      BY <2>5
  <2>. DEFINE q == x \div 2^drop
              r == x % 2^drop
              up == \/ r > 2^(drop - 1)
                    \/ r = 2^(drop - 1) /\ q % 2 = 1
  <2>7. Float(x) = (IF up THEN q + 1 ELSE q) * 2^drop
    BY <1>4 DEF Float
  <2>8. PICK d \in 1 .. Bits64 : d = drop
    BY <2>6
  <2>. HIDE DEF drop
  <2>9. PICK p \in Nat \ {0}, f \in Nat \ {0}, e \in Nat \ {0} :
           p = 2^d /\ f = 2^FloatBits /\ e = 2^(FloatBits - 1)
    <3>. d \in Nat /\ FloatBits - 1 \in Nat
      BY <1>1
    <3>. QED
      BY <1>1, Doubling
  <2>10. e * p <= x /\ f = 2 * e /\ 2 * e <= e * p
    <3>1. d \in Nat /\ d - 1 \in Nat /\ FloatBits - 1 \in Nat /\ (FloatBits - 1) + 1 = FloatBits
          /\ (d - 1) + 1 = d /\ FloatBits + d - 1 = (FloatBits - 1) + d
      BY <1>1
    <3>2. 2^((FloatBits - 1) + d) = 2^(FloatBits - 1) * 2^d
      BY <3>1, PowersAdd
    <3>3. 2^((FloatBits - 1) + 1) = 2 * 2^(FloatBits - 1)
      BY <3>1, Doubling
    <3>4. PICK g \in Nat \ {0} : g = 2^(d - 1) /\ p = 2 * g
      <4>. 2^((d - 1) + 1) = 2 * 2^(d - 1) /\ 2^(d - 1) \in Nat \ {0}
        BY <3>1, Doubling
      <4>. QED
        BY <2>9, <3>1
    <3>5. e * (2 * g) = 2 * (e * g) /\ e <= e * g /\ e * g \in Nat
      BY Products, SMT
    <3>6. 2 * e <= e * p
      BY <3>4, <3>5
    <3>. QED
      BY <2>6, <2>8, <2>9, <3>1, <3>2, <3>3, <3>6
  <2>11. PICK k : k = x \div p
    OBVIOUS
  <2>12. k \in Int /\ x % p \in 0 .. p - 1 /\ x = p * k + (x % p)
    <3>. x \in Int
      BY <1>2
    <3>. QED
      BY <2>11, Rest
  <2>13. ~(k < e)
    <3>. SUFFICES ASSUME k < e PROVE FALSE
      OBVIOUS
    <3>1. p * k + p <= p * e /\ p * k \in Int
      BY <2>12, ProductsApart
    <3>2. p * e = e * p /\ p * e \in Nat
      BY Products
    <3>. QED
      BY ONLY <1>2, <2>10, <2>12, <3>1, <3>2, p \in Nat
  <2>14. k \in Nat /\ e <= k
    BY <2>12, <2>13
  <2>15. \A l \in Nat : e <= l => l * p \in Nat /\ e * p <= l * p
    <3>. SUFFICES ASSUME NEW l \in Nat, e <= l PROVE l * p \in Nat /\ e * p <= l * p
      OBVIOUS
    <3>1. PICK m \in Nat : l = e + m
      <4>. l - e \in Nat /\ l = e + (l - e)
        OBVIOUS
      <4>. QED
        OBVIOUS
    <3>2. (e + m) * p = e * p + m * p /\ m * p \in Nat /\ e * p \in Nat
      BY SMT
    <3>. QED
      BY <3>1, <3>2
  <2>16. PICK l \in Nat : Float(x) = l * p /\ e <= l
    <3>1. k + 1 \in Nat /\ e <= k + 1
      BY <2>14
    <3>2. q = k
      BY <2>8, <2>9, <2>11
    <3>. HIDE DEF up, q
    <3>3. Float(x) = (IF up THEN k + 1 ELSE k) * p
      BY <2>7, <2>8, <2>9, <3>2
    <3>4. CASE up
      BY <3>1, <3>3, <3>4
    <3>5. CASE ~up
      BY <2>14, <3>3, <3>5
    <3>. QED
      BY <3>4, <3>5
  <2>17. l * p \in Nat /\ e * p <= l * p /\ e * p \in Nat
    BY <2>15, <2>16, Products
  <2>18. f <= l * p
    BY ONLY <2>10, <2>17, f \in Nat, e \in Nat
  <2>. QED
    BY <1>4, <2>9, <2>16, <2>17, <2>18
<1>. QED
  BY <1>3, <1>4

LEMMA TruncDivIs ==
  ASSUME NEW a \in Int, NEW b \in Int, b # 0
  PROVE  TruncDiv(a, b) \in Int
<1>1. Absolute(a) \in Int /\ Absolute(b) \in Nat \ {0}
  BY DEF Absolute
<1>2. Absolute(a) \div Absolute(b) \in Int
  BY <1>1, Rest
<1>. QED
  BY <1>2 DEF TruncDiv

LEMMA SmodIs ==
  ASSUME NEW a \in Int, NEW b \in Int
  PROVE  Smod(a, b) \in Int
<1>1. CASE b = 0
  BY <1>1 DEF Smod
<1>2. CASE b # 0
  <2>1. Absolute(a) \in Int /\ Absolute(b) \in Nat \ {0}
    BY <1>2 DEF Absolute
  <2>2. Absolute(a) % Absolute(b) \in Int
    BY <2>1, Rest
  <2>3. PICK r \in Int : r = Absolute(a) % Absolute(b)
    BY <2>2
  <2>4. Smod(a, b) = (IF a < 0 THEN -1 ELSE 1) * r
    BY <1>2, <2>3 DEF Smod
  <2>. QED
    BY <2>4
<1>. QED
  BY <1>1, <1>2

LEMMA ZeroOnly ==
  ASSUME NEW b \in Register, b # 0
  PROVE  Z(8, b) # 0
BY WordBits DEF Z, Register, Width

LEMMA RegisterIs ==
  ASSUME NEW a \in Register
  PROVE  a \in Nat /\ a \in Int /\ a \in BitsWidth(Bits64) /\ a < Pow(8)
BY WordBits DEF Register, Width, BitsWidth

(* Rests that fit a register.                                              *)
LEMMA RestWidth ==
  ASSUME NEW a \in Int
  PROVE  /\ a % Pow(8) \in Register
         /\ a % Pow(4) \in Width(4) /\ a % Pow(4) \in BitsWidth(Bits32) /\ a % Pow(4) \in Nat
         /\ a % Pow(4) \in Register
         /\ a % Pow(2) \in Register /\ a % Pow(2) \in Nat /\ a % Pow(1) \in Nat
<1>1. \A n \in {1, 2, 4, 8} : Pow(n) \in Nat \ {0} /\ Pow(n) <= Pow(8)
  BY PowIs, PowGrows
<1>2. \A n \in {1, 2, 4, 8} : a % Pow(n) \in 0 .. Pow(n) - 1
  BY <1>1, Rest
<1>3. \A n \in {1, 2, 4, 8} : a % Pow(n) \in Register /\ a % Pow(n) \in Nat /\ a % Pow(n) \in Width(n)
  <2>. SUFFICES ASSUME NEW n \in {1, 2, 4, 8}
                PROVE  a % Pow(n) \in Register /\ a % Pow(n) \in Nat /\ a % Pow(n) \in Width(n)
    OBVIOUS
  <2>1. PICK p, r, q : p = Pow(n) /\ r = a % Pow(n) /\ q = Pow(8)
    OBVIOUS
  <2>2. p \in Nat \ {0} /\ p <= q /\ q \in Nat /\ r \in 0 .. p - 1
    BY <1>1, <1>2, <2>1
  <2>3. r \in 0 .. q - 1 /\ r \in Nat /\ r \in 0 .. p - 1
    BY <2>2
  <2>. QED
    BY <2>1, <2>3 DEF Register, Width
<1>. QED
  BY <1>3, WordBits DEF BitsWidth, Width

LEMMA SmallRegister ==
  ASSUME NEW n \in 0 .. Bits64
  PROVE  n \in Register
BY WordBits DEF Register, Width

LEMMA OneIfIs ==
  ASSUME NEW c
  PROVE  OneIf(c) \in Register
<1>1. OneIf(c) \in {0, 1}
  BY DEF OneIf
<1>2. 0 \in 0 .. Bits64 /\ 1 \in 0 .. Bits64
  BY WordBits
<1>. QED
  BY <1>1, <1>2, SmallRegister

LEMMA ShiftsAre ==
  ASSUME NEW x \in Int
  PROVE  /\ ShiftBy(Bits32, x) \in 0 .. Bits32 /\ ShiftBy(Bits64, x) \in 0 .. Bits64
         /\ ShiftBy(Bits32, x) \in Nat /\ ShiftBy(Bits64, x) \in Nat
         /\ 2^ShiftBy(Bits32, x) \in Nat \ {0} /\ 2^ShiftBy(Bits64, x) \in Nat \ {0}
<1>1. x % Bits32 \in 0 .. Bits32 - 1 /\ x % Bits64 \in 0 .. Bits64 - 1
  BY WordBits, Rest
<1>2. PICK m \in Nat, n \in Nat : m = x % Bits32 /\ n = x % Bits64
  BY <1>1, WordBits
<1>3. m \in 0 .. Bits32 /\ n \in 0 .. Bits64
  BY <1>1, <1>2, WordBits
<1>4. 2^m \in Nat \ {0} /\ 2^n \in Nat \ {0}
  BY Doubling
<1>. QED
  BY <1>2, <1>3, <1>4 DEF ShiftBy

LEMMA TwoRegWidth ==
  ASSUME NEW op \in 100 .. 111 \ {101}, NEW a \in Register
  PROVE  TwoRegValue(op, a) \in Register
<1>1. a \in Nat /\ a \in Int /\ a % Pow(4) \in Nat /\ a % Pow(2) \in Int /\ a % Pow(1) \in Int
      /\ a % Pow(2) \in Register
  BY RegisterIs, RestWidth
<1>2. Bits64 \in Nat /\ Bits32 \in Nat /\ \A n \in 0 .. Bits32 : n \in 0 .. Bits64
  BY WordBits
<1>3. CASE op = 100
  BY <1>3 DEF TwoRegValue
<1>4. CASE op = 102
  <2>. CountBits(Bits64, a) \in 0 .. Bits64
    BY <1>1, <1>2, CountWidth
  <2>. QED
    BY <1>4, SmallRegister DEF TwoRegValue
<1>5. CASE op = 103
  <2>. CountBits(Bits32, a % Pow(4)) \in 0 .. Bits64
    BY <1>1, <1>2, CountWidth
  <2>. QED
    BY <1>5, SmallRegister DEF TwoRegValue
<1>6. CASE op \in {104, 106}
  <2>. LeadingZeros(Bits64, a) \in 0 .. Bits64 /\ TrailingZeros(Bits64, a) \in 0 .. Bits64
    BY <1>1, <1>2, ZerosWidth
  <2>. QED
    BY <1>6, SmallRegister DEF TwoRegValue
<1>7. CASE op \in {105, 107}
  <2>. LeadingZeros(Bits32, a % Pow(4)) \in 0 .. Bits64 /\ TrailingZeros(Bits32, a % Pow(4)) \in 0 .. Bits64
    BY <1>1, <1>2, ZerosWidth
  <2>. QED
    BY <1>7, SmallRegister DEF TwoRegValue
<1>8. CASE op \in {108, 109}
  <2>. Z(1, a % Pow(1)) \in Int /\ Z(2, a % Pow(2)) \in Int
    BY <1>1, ZIs
  <2>. QED
    BY <1>8, Z_invWidth DEF TwoRegValue
<1>9. CASE op = 110
  BY <1>1, <1>9 DEF TwoRegValue
<1>10. CASE op = 111
  BY <1>1, <1>10, ReverseBytesWidth DEF TwoRegValue
<1>. QED
  BY <1>3, <1>4, <1>5, <1>6, <1>7, <1>8, <1>9, <1>10

LEMMA ExtendedWidth ==
  ASSUME NEW x \in Width(4)
  PROVE  X_fn(4, x) \in Register
BY X_fnIs

LEMMA Imm32Width ==
  ASSUME NEW op \in 131 .. 146, NEW b \in Register, NEW x \in Register
  PROVE  Imm32Value(op, b, x) \in Register
<1>1. b \in Nat /\ b \in Int /\ x \in Nat /\ x \in Int
  BY RegisterIs
<1>2. Pow(4) \in Nat \ {0}
  BY WordBits
<1>3. PICK u, v : u = ShiftBy(Bits32, x) /\ v = ShiftBy(Bits32, b)
  OBVIOUS
<1>4. u \in Nat /\ v \in Nat /\ 2^u \in Nat \ {0} /\ 2^v \in Nat \ {0}
  BY <1>1, <1>3, ShiftsAre
<1>5. CASE op \in {131, 141}
  <2>. b + x \in Int /\ x + Pow(4) - b \in Int
    BY <1>1, <1>2
  <2>. (b + x) % Pow(4) \in Width(4) /\ (x + Pow(4) - b) % Pow(4) \in Width(4)
    BY RestWidth
  <2>. QED
    BY <1>5, ExtendedWidth DEF Imm32Value
<1>6. CASE op \in {132, 133, 134}
  BY <1>1, <1>6, LogicWidth DEF Imm32Value
<1>7. CASE op = 135
  <2>. b * x \in Int
    BY <1>1, Products
  <2>. (b * x) % Pow(4) \in Register
    BY RestWidth
  <2>. QED
    BY <1>7 DEF Imm32Value
<1>8. CASE op \in {136, 137, 142, 143}
  BY <1>8, OneIfIs DEF Imm32Value
<1>9. CASE op \in {138, 144}
  <2>. b * 2^u \in Int /\ x * 2^v \in Int
    BY <1>1, <1>4, Products
  <2>. (b * 2^u) % Pow(4) \in Width(4) /\ (x * 2^v) % Pow(4) \in Width(4)
    BY RestWidth
  <2>. QED
    BY <1>3, <1>9, ExtendedWidth DEF Imm32Value
<1>10. CASE op = 139
  <2>1. b % Pow(4) \in Width(4) /\ b % Pow(4) \in Nat
    BY <1>1, RestWidth
  <2>2. (b % Pow(4)) \div 2^u \in 0 .. b % Pow(4)
    BY <1>4, <2>1, QuotientAtMost
  <2>3. (b % Pow(4)) \div 2^u \in Width(4)
    BY <1>2, <2>1, <2>2 DEF Width
  <2>. QED
    BY <1>3, <1>10, <2>3, ExtendedWidth DEF Imm32Value
<1>11. CASE op \in {140, 146}
  <2>. Z(4, b % Pow(4)) \in Int /\ Z(4, x % Pow(4)) \in Int
    <3>. b % Pow(4) \in Int /\ x % Pow(4) \in Int
      BY <1>1, RestWidth
    <3>. QED
      BY ZIs
  <2>. Floored(Z(4, b % Pow(4)), u) \in Register /\ Floored(Z(4, x % Pow(4)), v) \in Register
    BY <1>4, FlooredWidth
  <2>. QED
    BY <1>3, <1>11 DEF Imm32Value
<1>12. CASE op = 145
  <2>1. Float(x) \in Int
    BY FloatIs
  <2>2. Float(x) % Pow(4) \in Register /\ Float(x) % Pow(4) \in Nat
    BY <2>1, RestWidth
  <2>3. (Float(x) % Pow(4)) \div 2^v \in 0 .. Float(x) % Pow(4)
    BY <1>4, <2>2, QuotientAtMost
  <2>4. (Float(x) % Pow(4)) \div 2^v \in Register
    BY <2>2, <2>3, WordBits DEF Register, Width
  <2>. QED
    BY <1>3, <1>12, <2>4 DEF Imm32Value
<1>. QED
  BY <1>5, <1>6, <1>7, <1>8, <1>9, <1>10, <1>11, <1>12

LEMMA QuotientWidth ==
  ASSUME NEW a \in Register, NEW b \in Nat \ {0}
  PROVE  a \div b \in Register
<1>1. a \in Nat
  BY RegisterIs
<1>2. a \div b \in 0 .. a
  BY <1>1, QuotientAtMost
<1>. QED
  BY <1>1, <1>2, WordBits DEF Register, Width

LEMMA RotationsWidth ==
  ASSUME NEW a \in Register, NEW x \in Int
  PROVE  /\ RotateRight(Bits64, a, ShiftBy(Bits64, x)) \in Register
         /\ RotateLeft(Bits64, a, ShiftBy(Bits64, x)) \in Register
         /\ RotateRight(Bits32, a % Pow(4), ShiftBy(Bits32, x)) \in Width(4)
         /\ RotateLeft(Bits32, a % Pow(4), ShiftBy(Bits32, x)) \in Width(4)
<1>1. a \in BitsWidth(Bits64) /\ a \in Int
  BY RegisterIs
<1>2. a % Pow(4) \in BitsWidth(Bits32)
  BY <1>1, RestWidth
<1>3. Bits64 \in Nat \ {0} /\ Bits32 \in Nat \ {0}
  BY WordBits
<1>4. /\ RotateRight(Bits64, a, ShiftBy(Bits64, x)) \in BitsWidth(Bits64)
      /\ RotateLeft(Bits64, a, ShiftBy(Bits64, x)) \in BitsWidth(Bits64)
      /\ RotateRight(Bits32, a % Pow(4), ShiftBy(Bits32, x)) \in BitsWidth(Bits32)
      /\ RotateLeft(Bits32, a % Pow(4), ShiftBy(Bits32, x)) \in BitsWidth(Bits32)
  <2>. ShiftBy(Bits64, x) \in 0 .. Bits64 /\ ShiftBy(Bits32, x) \in 0 .. Bits32
       /\ ShiftBy(Bits64, x) \in Int /\ ShiftBy(Bits32, x) \in Int
    BY ShiftsAre
  <2>. QED
    BY <1>1, <1>2, <1>3, RotateRightWidth, RotateLeftWidth
<1>. QED
  BY <1>4, WordBits DEF BitsWidth, Register, Width

LEMMA Imm64Width ==
  ASSUME NEW op \in 147 .. 161, NEW b \in Register, NEW x \in Register, NEW old \in Register
  PROVE  Imm64Value(op, b, x, old) \in Register
<1>1. b \in Nat /\ b \in Int /\ x \in Nat /\ x \in Int
  BY RegisterIs
<1>2. Pow(8) \in Nat \ {0}
  BY WordBits
<1>3. PICK u, v : u = ShiftBy(Bits64, x) /\ v = ShiftBy(Bits64, b)
  OBVIOUS
<1>4. u \in Nat /\ v \in Nat /\ 2^u \in Nat \ {0} /\ 2^v \in Nat \ {0}
  BY <1>1, <1>3, ShiftsAre
<1>5. CASE op \in {147, 148}
  BY <1>5 DEF Imm64Value
<1>6. CASE op \in {149, 150, 154}
  <2>. b + x \in Int /\ b * x \in Int /\ x + Pow(8) - b \in Int
    BY <1>1, <1>2, Products
  <2>. (b + x) % Pow(8) \in Register /\ (b * x) % Pow(8) \in Register
       /\ (x + Pow(8) - b) % Pow(8) \in Register
    BY RestWidth
  <2>. QED
    BY <1>6 DEF Imm64Value
<1>7. CASE op \in {151, 155}
  <2>. b * 2^u \in Int /\ x * 2^v \in Int
    BY <1>1, <1>4, Products
  <2>. (b * 2^u) % Pow(8) \in Register /\ (x * 2^v) % Pow(8) \in Register
    BY RestWidth
  <2>. QED
    BY <1>3, <1>7 DEF Imm64Value
<1>8. CASE op \in {152, 156}
  <2>. b \div 2^u \in Register /\ x \div 2^v \in Register
    BY <1>4, QuotientWidth
  <2>. QED
    BY <1>3, <1>8 DEF Imm64Value
<1>9. CASE op \in {153, 157}
  <2>. Z(8, b) \in Int /\ Z(8, x) \in Int
    BY <1>1, ZIs
  <2>. Floored(Z(8, b), u) \in Register /\ Floored(Z(8, x), v) \in Register
    BY <1>4, FlooredWidth
  <2>. QED
    BY <1>3, <1>9 DEF Imm64Value
<1>10. CASE op \in {158, 159}
  BY <1>1, <1>10, RotationsWidth DEF Imm64Value
<1>11. CASE op \in {160, 161}
  BY <1>1, <1>11, RotationsWidth, ExtendedWidth DEF Imm64Value
<1>. QED
  BY <1>5, <1>6, <1>7, <1>8, <1>9, <1>10, <1>11

LEMMA Reg32Width ==
  ASSUME NEW op \in 190 .. 199, NEW a \in Register, NEW b \in Register
  PROVE  Reg32Value(op, a, b) \in Register
<1>1. a \in Nat /\ a \in Int /\ b \in Nat /\ b \in Int
  BY RegisterIs
<1>2. Pow(4) \in Nat \ {0} /\ Pow(8) \in Nat \ {0}
  BY WordBits
<1>3. PICK a4 \in Nat, b4 \in Nat : a4 = a % Pow(4) /\ b4 = b % Pow(4)
  BY <1>1, RestWidth
<1>4. a4 \in Width(4) /\ b4 \in Width(4)
  BY <1>1, <1>3, RestWidth
<1>5. PICK za \in Int, zb \in Int : za = Z(4, a4) /\ zb = Z(4, b4)
  <2>. a4 \in Int /\ b4 \in Int
    OBVIOUS
  <2>. QED
    BY ZIs
<1>6. PICK u, v : u = b % Bits32 /\ v = b4 % Bits32
  OBVIOUS
<1>7. u \in Nat /\ v \in Nat /\ 2^u \in Nat \ {0} /\ 2^v \in Nat \ {0}
  <2>. b4 \in Int
    OBVIOUS
  <2>. QED
    BY <1>1, <1>6, ShiftsAre DEF ShiftBy
<1>8. Pow(8) - 1 \in Register
  BY <1>2 DEF Register, Width
<1>9. CASE op \in {190, 191, 192}
  <2>. a + b \in Int /\ a + Pow(4) - b4 \in Int /\ a * b \in Int
    BY <1>1, <1>2, Products
  <2>. (a + b) % Pow(4) \in Width(4) /\ (a + Pow(4) - b4) % Pow(4) \in Width(4)
       /\ (a * b) % Pow(4) \in Width(4)
    BY RestWidth
  <2>. QED
    BY <1>3, <1>9, ExtendedWidth DEF Reg32Value
<1>10. CASE op = 193
  <2>1. ASSUME b4 # 0 PROVE a \div b \in Register
    <3>. b # 0
      BY <1>2, <1>3, <2>1, SmallRest
    <3>. b \in Nat \ {0}
      BY <1>1
    <3>. QED
      BY QuotientWidth
  <2>. QED
    BY <1>3, <1>8, <1>10, <2>1 DEF Reg32Value
<1>11. CASE op = 194
  <2>1. zb # 0 => TruncDiv(za, zb) \in Int
    BY TruncDivIs
  <2>2. zb # 0 => Z_inv(8, TruncDiv(za, zb)) \in Register
    BY <2>1, Z_invWidth
  <2>3. Z_inv(8, za) \in Register
    BY Z_invWidth
  <2>. QED
    BY <1>3, <1>5, <1>8, <1>11, <2>2, <2>3 DEF Reg32Value
<1>12. CASE op = 195
  <2>1. b4 # 0 => a4 % b4 \in 0 .. b4 - 1
    BY Rest
  <2>2. b4 # 0 => a4 % b4 \in Width(4)
    BY <1>2, <1>4, <2>1 DEF Width
  <2>. QED
    BY <1>3, <1>4, <1>12, <2>2, ExtendedWidth DEF Reg32Value
<1>13. CASE op = 196
  <2>1. Z_inv(8, Smod(za, zb)) \in Register
    BY SmodIs, Z_invWidth
  <2>2. 0 \in Register
    BY <1>2 DEF Register, Width
  <2>. QED
    BY <1>3, <1>5, <1>13, <2>1, <2>2 DEF Reg32Value
<1>14. CASE op = 197
  <2>. a * 2^u \in Int
    BY <1>1, <1>7, Products
  <2>. (a * 2^u) % Pow(4) \in Width(4)
    BY RestWidth
  <2>. QED
    BY <1>6, <1>14, ExtendedWidth DEF Reg32Value
<1>15. CASE op = 198
  <2>1. a4 \div 2^v \in 0 .. a4
    BY <1>7, QuotientAtMost
  <2>2. a4 \div 2^v \in Width(4)
    BY <1>2, <1>4, <2>1 DEF Width
  <2>. QED
    BY <1>3, <1>6, <1>15, <2>2, ExtendedWidth DEF Reg32Value
<1>16. CASE op = 199
  <2>. Floored(za, u) \in Register
    BY <1>7, FlooredWidth
  <2>. QED
    BY <1>3, <1>5, <1>6, <1>16 DEF Reg32Value
<1>. QED
  BY <1>9, <1>10, <1>11, <1>12, <1>13, <1>14, <1>15, <1>16

LEMMA Reg64Width ==
  ASSUME NEW op \in 200 .. 215, NEW a \in Register, NEW b \in Register
  PROVE  Reg64Value(op, a, b) \in Register
<1>1. a \in Nat /\ a \in Int /\ b \in Nat /\ b \in Int /\ a < Pow(8) /\ b < Pow(8)
  BY RegisterIs
<1>2. Pow(8) \in Nat \ {0}
  BY WordBits
<1>3. PICK za \in Int, zb \in Int : za = Z(8, a) /\ zb = Z(8, b)
  BY <1>1, ZIs
<1>4. PICK u : u = b % Bits64
  OBVIOUS
<1>5. u \in Nat /\ 2^u \in Nat \ {0}
  BY <1>1, <1>4, ShiftsAre DEF ShiftBy
<1>6. Pow(8) - 1 \in Register /\ 0 \in Register
  BY <1>2 DEF Register, Width
<1>7. CASE op \in {200, 201, 202}
  <2>. a + b \in Int /\ a + Pow(8) - b \in Int /\ a * b \in Int
    BY <1>1, <1>2, Products
  <2>. (a + b) % Pow(8) \in Register /\ (a + Pow(8) - b) % Pow(8) \in Register
       /\ (a * b) % Pow(8) \in Register
    BY RestWidth
  <2>. QED
    BY <1>7 DEF Reg64Value
<1>8. CASE op = 203
  <2>. b # 0 => a \div b \in Register
    BY <1>1, QuotientWidth
  <2>. QED
    BY <1>6, <1>8 DEF Reg64Value
<1>9. CASE op = 204
  <2>1. b # 0 => zb # 0
    BY <1>3, ZeroOnly
  <2>2. b # 0 => TruncDiv(za, zb) \in Int
    BY <2>1, TruncDivIs
  <2>3. b # 0 => Z_inv(8, TruncDiv(za, zb)) \in Register
    BY <2>2, Z_invWidth
  <2>. QED
    BY <1>3, <1>6, <1>9, <2>3 DEF Reg64Value
<1>10. CASE op = 205
  <2>1. b # 0 => a % b \in 0 .. b - 1
    BY <1>1, Rest
  <2>2. b # 0 => a % b \in Register
    BY <1>1, <1>2, <2>1 DEF Register, Width
  <2>. QED
    BY <1>10, <2>2 DEF Reg64Value
<1>11. CASE op = 206
  <2>1. Z_inv(8, Smod(za, zb)) \in Register
    BY SmodIs, Z_invWidth
  <2>. QED
    BY <1>3, <1>6, <1>11, <2>1 DEF Reg64Value
<1>12. CASE op = 207
  <2>. a * 2^u \in Int
    BY <1>1, <1>5, Products
  <2>. (a * 2^u) % Pow(8) \in Register
    BY RestWidth
  <2>. QED
    BY <1>4, <1>12 DEF Reg64Value
<1>13. CASE op = 208
  <2>. a \div 2^u \in Register
    BY <1>5, QuotientWidth
  <2>. QED
    BY <1>4, <1>13 DEF Reg64Value
<1>14. CASE op = 209
  <2>. Floored(za, u) \in Register
    BY <1>5, FlooredWidth
  <2>. QED
    BY <1>3, <1>4, <1>14 DEF Reg64Value
<1>15. CASE op \in {210, 211, 212}
  BY <1>1, <1>15, LogicWidth DEF Reg64Value
<1>16. CASE op = 213
  <2>1. PICK c \in Int : c = za * zb
    BY SMT
  <2>2. TruncDiv(c, Pow(8)) \in Int
    BY <1>2, TruncDivIs
  <2>3. Z_inv(8, TruncDiv(c, Pow(8))) \in Register
    BY <2>2, Z_invWidth
  <2>. QED
    BY <1>3, <1>16, <2>1, <2>3 DEF Reg64Value
<1>17. CASE op = 214
  <2>1. a * b \in Nat
    BY <1>1, Products
  <2>2. CASE b = 0
    <3>1. a * b = 0
      BY <1>1, <2>2
    <3>2. 0 \div Pow(8) = 0
      BY <1>2, SmallRest
    <3>. QED
      BY <1>6, <1>17, <3>1, <3>2 DEF Reg64Value
  <2>3. CASE b # 0
    <3>1. b * a + b <= b * Pow(8) /\ b * a \in Int /\ b * Pow(8) \in Int
      BY <1>1, <1>2, ProductsApart
    <3>2. a * b = b * a
      BY <1>1, Products
    <3>3. b * Pow(8) <= Pow(8) * Pow(8) /\ Pow(8) * Pow(8) \in Nat
      <4>1. PICK p \in Nat : p = Pow(8)
        BY <1>2
      <4>2. p * b + p <= p * p /\ p * b \in Int /\ p * p \in Int
        BY <1>1, <4>1, ProductsApart
      <4>3. p * b = b * p /\ p * p \in Nat
        BY <1>1, Products
      <4>. QED
        BY ONLY <4>1, <4>2, <4>3, p \in Nat
    <3>4. a * b < Pow(8) * Pow(8)
      BY ONLY <1>1, <2>3, <3>1, <3>2, <3>3
    <3>5. (a * b) \div Pow(8) \in 0 .. Pow(8) - 1
      BY <1>2, <2>1, <3>4, QuotientBelow
    <3>. QED
      BY <1>17, <3>5 DEF Reg64Value, Register, Width
  <2>. QED
    BY <2>2, <2>3
<1>18. CASE op = 215
  <2>1. PICK c \in Int : c = za * b
    BY <1>1, SMT
  <2>2. c \div Pow(8) \in Int
    BY <1>2, Rest
  <2>3. Z_inv(8, c \div Pow(8)) \in Register
    BY <2>2, Z_invWidth
  <2>. QED
    BY <1>3, <1>18, <2>1, <2>3 DEF Reg64Value
<1>. QED
  BY <1>7, <1>8, <1>9, <1>10, <1>11, <1>12, <1>13, <1>14, <1>15, <1>16, <1>17, <1>18

LEMMA LogicValueWidth ==
  ASSUME NEW op \in 216 .. 230, NEW a \in Register, NEW b \in Register, NEW old \in Register
  PROVE  RegLogicValue(op, a, b, old) \in Register
<1>1. a \in Nat /\ a \in Int /\ b \in Nat /\ b \in Int
  BY RegisterIs
<1>2. CASE op \in {216, 217}
  BY <1>2, OneIfIs DEF RegLogicValue
<1>3. CASE op \in {218, 219, 227, 228, 229, 230}
  BY <1>3 DEF RegLogicValue
<1>4. CASE op \in {220, 222}
  BY <1>1, <1>4, RotationsWidth DEF RegLogicValue, ShiftBy
<1>5. CASE op \in {221, 223}
  BY <1>1, <1>5, RotationsWidth, ExtendedWidth DEF RegLogicValue, ShiftBy
<1>6. CASE op \in {224, 225, 226}
  <2>1. Not(b) \in Register /\ Not(b) \in Nat
    BY NotWidth, RegisterIs
  <2>2. And(a, Not(b)) \in Register /\ Or(a, Not(b)) \in Register /\ Xor(a, b) \in Register
    BY <1>1, <2>1, LogicWidth
  <2>3. Not(Xor(a, b)) \in Register
    BY <2>2, NotWidth
  <2>. QED
    BY <1>6, <2>2, <2>3 DEF RegLogicValue
<1>. QED
  BY <1>2, <1>3, <1>4, <1>5, <1>6

-----------------------------------------------------------------------------
(***************************************************************************)
(* Operands: what a program says, each decoder reads.                      *)
(***************************************************************************)

RegisterNumbers == 0 .. NRegs - 1

\* The arguments of an instruction: their bytes from number `from` on are an immediate.
IsArguments(args, from) ==
  /\ args \in Seq(Nat)
  /\ \A i \in 1 .. Len(args) : i >= from => args[i] \in Byte

LEMMA SubIs ==
  ASSUME NEW from \in Nat, NEW to \in Nat, NEW n \in Nat, NEW args, n <= from + 1, IsArguments(args, n)
  PROVE  /\ Sub(args, from, to) \in Seq(Byte)
         /\ Len(Sub(args, from, to)) <= (IF from <= to THEN to - from ELSE 0)
<1>1. PICK l \in Nat : l = Len(args)
  BY DEF IsArguments
<1>2. PICK e \in Nat : e = IF to < l THEN to ELSE l
  OBVIOUS
<1>3. e <= l /\ e <= to
  BY <1>2
<1>4. Sub(args, from, to) = SubSeq(args, from + 1, e)
  BY <1>1, <1>2 DEF Sub
<1>5. \A i \in from + 1 .. e : args[i] \in Byte
  BY <1>1, <1>3 DEF IsArguments
<1>6. /\ SubSeq(args, from + 1, e) \in Seq(Byte)
      /\ Len(SubSeq(args, from + 1, e)) = IF from + 1 <= e THEN e - (from + 1) + 1 ELSE 0
  BY <1>5, SubSeqProperties
<1>7. (IF from + 1 <= e THEN e - (from + 1) + 1 ELSE 0) <= (IF from <= to THEN to - from ELSE 0)
  BY <1>3
<1>. QED
  BY <1>4, <1>6, <1>7

LEMMA LeastIs ==
  ASSUME NEW a \in Nat, NEW b \in Nat
  PROVE  Least(a, b) \in 0 .. a /\ Least(a, b) \in 0 .. b
BY DEF Least

LEMMA NibblesAre ==
  ASSUME NEW byte \in Nat
  PROVE  /\ Low(byte) \in RegisterNumbers /\ High(byte) \in RegisterNumbers
         /\ Least(NRegs - 1, byte) \in RegisterNumbers
         /\ LowLength(byte) \in 0 .. 4 /\ HighLength(byte) \in 0 .. 4
<1>1. NRegs - 1 \in Nat
  BY RegistersAssumption
<1>2. byte % 16 \in Nat /\ byte \div 16 \in Nat /\ byte % 8 \in Nat /\ (byte \div 16) % 8 \in Nat
  <2>1. byte % 16 \in Nat /\ byte % 8 \in Nat
    BY SMT
  <2>2. PICK q \in Nat : q = byte \div 16
    BY SMT
  <2>3. q % 8 \in Nat
    BY SMT
  <2>. QED
    BY <2>1, <2>2, <2>3
<1>3. 4 \in Nat
  OBVIOUS
<1>. QED
  BY <1>1, <1>2, <1>3, LeastIs DEF Low, High, LowLength, HighLength, RegisterNumbers

LEMMA RoomIs ==
  ASSUME NEW args \in Seq(Nat), NEW used \in Nat
  PROVE  Room(args, used) \in 0 .. 4
<1>1. PICK l \in Nat : l = Len(args)
  OBVIOUS
<1>2. (IF l > used THEN l - used ELSE 0) \in Nat
  OBVIOUS
<1>. QED
  BY <1>1, <1>2, LeastIs DEF Room

LEMMA ImmediateIs ==
  ASSUME NEW from \in Nat, NEW l \in 0 .. 8, NEW n \in Nat, NEW args, n <= from + 1, IsArguments(args, n)
  PROVE  /\ Varint(Sub(args, from, from + l)) \in Register
         /\ ReadLE(Sub(args, from, from + l)) \in Register
<1>. DEFINE s == Sub(args, from, from + l)
<1>1. s \in Seq(Byte) /\ Len(s) <= l
  <2>. from + l \in Nat /\ from <= from + l /\ (from + l) - from = l
    OBVIOUS
  <2>. QED
    BY SMTT(20), SubIs
<1>. HIDE DEF s
<1>2. PICK k \in 0 .. 8 : k = Len(s)
  <2>1. PICK k \in Nat : k = Len(s)
    BY <1>1
  <2>2. k <= l
    BY <1>1, <2>1
  <2>3. k \in 0 .. 8
    BY <2>2
  <2>. QED
    BY <2>1, <2>3
<1>3. Varint(s) \in Register
  BY <1>1, <1>2, VarintWidth
<1>4. ReadLE(s) \in Width(k)
  BY <1>1, <1>2, ReadLEWidth
<1>5. Pow(k) <= Pow(8) /\ Pow(k) \in Nat /\ Pow(8) \in Nat
  BY PowIs, PowGrows
<1>6. ReadLE(s) \in Register
  BY <1>4, <1>5 DEF Width, Register
<1>. QED
  BY <1>3, <1>6 DEF s

\* Half of the addresses, where a sign begins, and the offsets of a jump.
Half32 == Pow(4) \div 2
Offsets == -Half32 .. Half32

LEMMA HalfIs ==
  /\ Half32 \in Nat \ {0} /\ Half32 = Pow(4) \div 2 /\ Pow(4) = 2 * Half32
  /\ 0 \in Offsets /\ Offsets \subseteq Int
<1>1. Half32 \in Nat \ {0} /\ Half32 = Pow(4) \div 2 /\ Pow(4) = 2 * Half32
  <2>. 4 \in Nat \ {0}
    OBVIOUS
  <2>. QED
    BY HalfOfPow DEF Half32
<1>. QED
  BY <1>1 DEF Offsets

LEMMA SignedOffsetIs ==
  ASSUME NEW p \in Nat, NEW n \in Nat, NEW args, n <= p + 1, IsArguments(args, n)
  PROVE  SignedOffset(args, p) \in Offsets
<1>1. PICK l \in 0 .. 4 : l = Room(args, p)
  BY RoomIs DEF IsArguments
<1>2. PICK s : s = Sub(args, p, p + l)
  OBVIOUS
<1>3. SignedOffset(args, p) = Z(l, ReadLE(s))
  BY <1>1, <1>2 DEF SignedOffset
<1>4. s \in Seq(Byte) /\ Len(s) <= l
  <2>. p + l \in Nat /\ p <= p + l /\ (p + l) - p = l
    OBVIOUS
  <2>. QED
    BY <1>2, SubIs
<1>5. PICK k \in 0 .. 4 : k = Len(s) /\ k <= l
  <2>1. PICK k \in Nat : k = Len(s)
    BY <1>4
  <2>2. k <= l /\ k \in 0 .. 4
    BY <1>4, <2>1
  <2>. QED
    BY <2>1, <2>2
<1>6. PICK x \in Nat : x = ReadLE(s) /\ x < Pow(l)
  <2>1. ReadLE(s) \in Width(k)
    BY <1>4, <1>5, ReadLEWidth
  <2>2. Pow(k) <= Pow(l) /\ Pow(k) \in Nat /\ Pow(l) \in Nat
    BY <1>5, PowIs, PowGrows
  <2>. QED
    BY <2>1, <2>2 DEF Width
<1>7. CASE l = 0
  BY <1>3, <1>7, HalfIs DEF Z
<1>8. CASE l # 0
  <2>1. PICK h \in Nat \ {0} : h = Pow(l) \div 2 /\ Pow(l) = 2 * h
    <3>. l \in Nat \ {0}
      BY <1>8
    <3>. QED
      BY HalfOfPow
  <2>2. PICK g \in Nat \ {0} : g = Half32 /\ Pow(4) = 2 * g
    BY HalfIs
  <2>3. Pow(l) <= Pow(4)
    BY PowGrows
  <2>4. h <= g
    BY <2>1, <2>2, <2>3
  <2>5. Z(l, x) = IF x >= h THEN x - 2 * h ELSE x
    BY <1>8, <2>1 DEF Z
  <2>6. Z(l, x) \in -g .. g
    <3>1. PICK z \in Int : z = (IF x >= h THEN x - 2 * h ELSE x) /\ -h <= z /\ z <= h
      BY <1>6, <2>1
    <3>. QED
      BY <2>4, <2>5, <3>1
  <2>. QED
    BY <1>3, <1>6, <2>2, <2>6 DEF Offsets
<1>. QED
  BY <1>7, <1>8

\* Registers that exist, immediates that a register holds.
OperandsFit(o) ==
  /\ o = [rA |-> o.rA, rB |-> o.rB, rD |-> o.rD, vX |-> o.vX, vY |-> o.vY, offset |-> o.offset]
  /\ o.rA \in RegisterNumbers /\ o.rB \in RegisterNumbers /\ o.rD \in RegisterNumbers
  /\ o.vX \in Register /\ o.vY \in Register
  /\ o.offset \in Offsets

Decoders ==
  {"none", "imm", "regExt", "twoImm", "offset", "regImm", "regTwoImm", "regImmOffset",
   "twoReg", "twoRegImm", "twoRegOffset", "twoRegTwoImm", "threeReg"}

\* The bytes that name registers and lengths are there.
Readable(decoder, args) ==
  /\ decoder \notin {"none", "unknown", "imm", "offset"} => Len(args) >= 1
  /\ decoder \in {"twoRegTwoImm", "threeReg"} => Len(args) >= 2

LEMMA NoOperandsFit == OperandsFit(NoOperands)
<1>1. 0 \in RegisterNumbers
  BY RegistersAssumption DEF RegisterNumbers
<1>2. 0 \in Register
  BY PowIs DEF Register, Width
<1>. QED
  BY <1>1, <1>2, HalfIs DEF OperandsFit, NoOperands

LEMMA WithOperand ==
  ASSUME NEW o, OperandsFit(o)
  PROVE  /\ \A r \in RegisterNumbers : /\ OperandsFit([o EXCEPT !.rA = r])
                                       /\ OperandsFit([o EXCEPT !.rB = r])
                                       /\ OperandsFit([o EXCEPT !.rD = r])
         /\ \A x \in Register : OperandsFit([o EXCEPT !.vX = x]) /\ OperandsFit([o EXCEPT !.vY = x])
         /\ \A z \in Offsets : OperandsFit([o EXCEPT !.offset = z])
<1>1. ASSUME NEW r \in RegisterNumbers
      PROVE  OperandsFit([o EXCEPT !.rA = r]) /\ OperandsFit([o EXCEPT !.rB = r]) /\ OperandsFit([o EXCEPT !.rD = r])
  BY DEF OperandsFit
<1>2. ASSUME NEW x \in Register
      PROVE  OperandsFit([o EXCEPT !.vX = x]) /\ OperandsFit([o EXCEPT !.vY = x])
  BY DEF OperandsFit
<1>3. ASSUME NEW z \in Offsets
      PROVE  OperandsFit([o EXCEPT !.offset = z])
  BY DEF OperandsFit
<1>. QED
  BY <1>1, <1>2, <1>3

LEMMA ImmediatesFit ==
  ASSUME NEW o, OperandsFit(o), NEW p \in Nat, NEW l \in 0 .. 4, NEW n \in Nat, NEW args,
         n <= p + 1, IsArguments(args, n)
  PROVE  OperandsFit(Immediates(o, args, p, l))
<1>1. Varint(Sub(args, p, p + l)) \in Register
  BY SMTT(20), ImmediateIs
<1>2. PICK q \in Nat : q = p + l
  OBVIOUS
<1>3. PICK k \in 0 .. 4 : k = Room(args, q)
  BY RoomIs DEF IsArguments
<1>4. n <= q + 1
  BY <1>2
<1>5. Varint(Sub(args, q, q + k)) \in Register
  BY <1>4, ImmediateIs
<1>6. PICK x \in Register, y \in Register : x = Varint(Sub(args, p, p + l)) /\ y = Varint(Sub(args, q, q + k))
  BY <1>1, <1>5
<1>7. Immediates(o, args, p, l) = [o EXCEPT !.vX = x, !.vY = y]
  BY <1>2, <1>3, <1>6 DEF Immediates
<1>8. [o EXCEPT !.vX = x, !.vY = y] = [[o EXCEPT !.vX = x] EXCEPT !.vY = y]
  OBVIOUS
<1>9. PICK o1 : o1 = [o EXCEPT !.vX = x]
  OBVIOUS
<1>10. OperandsFit(o1)
  BY <1>9, WithOperand
<1>11. OperandsFit([o1 EXCEPT !.vY = y])
  BY <1>10, WithOperand
<1>. QED
  BY <1>7, <1>8, <1>9, <1>11

LEMMA TwoRegistersFit ==
  ASSUME NEW args, ByteAt(args, 0) \in Nat
  PROVE  OperandsFit(TwoRegisters(args))
<1>1. PICK a \in RegisterNumbers, b \in RegisterNumbers : a = Low(ByteAt(args, 0)) /\ b = High(ByteAt(args, 0))
  BY NibblesAre
<1>2. TwoRegisters(args) = [[NoOperands EXCEPT !.rA = a] EXCEPT !.rB = b]
  BY <1>1 DEF TwoRegisters
<1>3. PICK o : o = [NoOperands EXCEPT !.rA = a]
  OBVIOUS
<1>4. OperandsFit(o)
  BY <1>3, WithOperand, NoOperandsFit
<1>. QED
  BY ZenonT(30), <1>2, <1>3, <1>4, WithOperand

LEMMA OperandsMade ==
  ASSUME NEW a \in RegisterNumbers, NEW b \in RegisterNumbers, NEW d \in RegisterNumbers,
         NEW x \in Register, NEW y \in Register, NEW z \in Offsets
  PROVE  OperandsFit([rA |-> a, rB |-> b, rD |-> d, vX |-> x, vY |-> y, offset |-> z])
BY DEF OperandsFit

LEMMA OperandsAre ==
  ASSUME NEW decoder, NEW args, decoder \in Decoders, Readable(decoder, args),
         IsArguments(args, FirstImmediate(decoder))
  PROVE  OperandsFit(Operands(decoder, args))
<1>. DEFINE n == FirstImmediate(decoder)
            first == ByteAt(args, 0)
            second == ByteAt(args, 1)
<1>1. args \in Seq(Nat)
  BY DEF IsArguments
<1>2. Len(args) >= 1 => first \in Nat
  BY <1>1 DEF ByteAt
<1>3. Len(args) >= 2 => second \in Nat
  BY <1>1 DEF ByteAt
<1>0. 0 \in RegisterNumbers /\ 0 \in Register /\ 0 \in Offsets
  BY NoOperandsFit DEF OperandsFit, NoOperands
<1>4. CASE decoder = "none"
  BY <1>4, NoOperandsFit DEF Operands
<1>5. CASE decoder = "imm"
  <2>1. n = 1
    BY <1>5 DEF FirstImmediate, Readable
  <2>2. PICK x \in Register : x = Varint(Sub(args, 0, Room(args, 0)))
    <3>1. PICK k \in 0 .. 4 : k = Room(args, 0)
      BY <1>1, RoomIs
    <3>2. k \in 0 .. 8 /\ IsArguments(args, 0 + 1) /\ 0 \in Nat
      BY <2>1
    <3>3. Varint(Sub(args, 0, 0 + k)) \in Register
      BY ONLY <3>2, 0 + 1 <= 0 + 1, 0 + 1 \in Nat, ImmediateIs
    <3>. QED
      BY <3>1, <3>3
  <2>3. Operands(decoder, args) = [rA |-> 0, rB |-> 0, rD |-> 0, vX |-> x, vY |-> 0, offset |-> 0]
    BY <1>5, <2>2 DEF Operands, FirstOperands, NoOperands
  <2>. QED
    BY <1>0, <2>2, <2>3, OperandsMade
<1>6. CASE decoder = "regExt"
  <2>1. n = 2 /\ Len(args) >= 1
    BY <1>6 DEF FirstImmediate, Readable
  <2>2. PICK a \in RegisterNumbers : a = Low(first)
    BY <1>2, <2>1, NibblesAre
  <2>3. PICK x \in Register : x = ReadLE(Sub(args, 1, 9))
    <3>. ReadLE(Sub(args, 1, 1 + 8)) \in Register
      BY <2>1, ImmediateIs
    <3>. QED
      OBVIOUS
  <2>4. Operands(decoder, args) = [rA |-> a, rB |-> 0, rD |-> 0, vX |-> x, vY |-> 0, offset |-> 0]
    BY <1>6, <2>2, <2>3 DEF Operands, FirstOperands, NoOperands
  <2>. QED
    BY <1>0, <2>2, <2>3, <2>4, OperandsMade
<1>7. CASE decoder = "offset"
  <2>1. n = 1
    BY <1>7 DEF FirstImmediate, Readable
  <2>2. PICK z \in Offsets : z = SignedOffset(args, 0)
    BY <2>1, SignedOffsetIs
  <2>3. Operands(decoder, args) = [rA |-> 0, rB |-> 0, rD |-> 0, vX |-> 0, vY |-> 0, offset |-> z]
    BY <1>7, <2>2 DEF Operands, FirstOperands, NoOperands
  <2>. QED
    BY <1>0, <2>2, <2>3, OperandsMade
<1>8. CASE decoder = "regImm"
  <2>1. n = 2 /\ Len(args) >= 1
    BY <1>8 DEF FirstImmediate, Readable
  <2>2. PICK a \in RegisterNumbers : a = Low(first)
    BY <1>2, <2>1, NibblesAre
  <2>3. PICK x \in Register : x = Varint(Sub(args, 1, 1 + Room(args, 1)))
    <3>1. PICK k \in 0 .. 4 : k = Room(args, 1)
      BY <1>1, RoomIs
    <3>2. k \in 0 .. 8 /\ IsArguments(args, 1 + 1) /\ 1 \in Nat
      BY <2>1
    <3>3. Varint(Sub(args, 1, 1 + k)) \in Register
      BY ONLY <3>2, 1 + 1 <= 1 + 1, 1 + 1 \in Nat, ImmediateIs
    <3>. QED
      BY <3>1, <3>3
  <2>4. Operands(decoder, args) = [rA |-> a, rB |-> 0, rD |-> 0, vX |-> x, vY |-> 0, offset |-> 0]
    BY <1>8, <2>2, <2>3 DEF Operands, FirstOperands, NoOperands
  <2>. QED
    BY <1>0, <2>2, <2>3, <2>4, OperandsMade
<1>9. CASE decoder = "regImmOffset"
  <2>1. n = 2 /\ Len(args) >= 1
    BY <1>9 DEF FirstImmediate, Readable
  <2>2. PICK a \in RegisterNumbers : a = Low(first)
    BY <1>2, <2>1, NibblesAre
  <2>3. PICK l \in 0 .. 4 : l = HighLength(first)
    BY <1>2, <2>1, NibblesAre
  <2>4. PICK x \in Register : x = Varint(Sub(args, 1, 1 + l))
    <3>1. l \in 0 .. 8 /\ IsArguments(args, 1 + 1) /\ 1 \in Nat
      BY <2>1
    <3>2. Varint(Sub(args, 1, 1 + l)) \in Register
      BY ONLY <3>1, 1 + 1 <= 1 + 1, 1 + 1 \in Nat, ImmediateIs
    <3>. QED
      BY <3>2
  <2>5. PICK z \in Offsets : z = SignedOffset(args, 1 + l)
    <3>. 1 + l \in Nat /\ 2 <= (1 + l) + 1
      OBVIOUS
    <3>. QED
      BY <2>1, SignedOffsetIs
  <2>6. Operands(decoder, args) = [rA |-> a, rB |-> 0, rD |-> 0, vX |-> x, vY |-> 0, offset |-> z]
    BY <1>9, <2>2, <2>3, <2>4, <2>5 DEF Operands, FirstOperands, NoOperands
  <2>. QED
    BY <1>0, <2>2, <2>3, <2>4, <2>5, <2>6, OperandsMade
<1>10. CASE decoder = "twoReg"
  <2>1. n = 2 /\ Len(args) >= 1
    BY <1>10 DEF FirstImmediate, Readable
  <2>2. PICK d \in RegisterNumbers : d = Low(first)
    BY <1>2, <2>1, NibblesAre
  <2>3. PICK a \in RegisterNumbers : a = High(first)
    BY <1>2, <2>1, NibblesAre
  <2>4. Operands(decoder, args) = [rA |-> a, rB |-> 0, rD |-> d, vX |-> 0, vY |-> 0, offset |-> 0]
    BY <1>10, <2>2, <2>3 DEF Operands, MoreOperands, TwoRegisters, NoOperands
  <2>. QED
    BY <1>0, <2>2, <2>3, <2>4, OperandsMade
<1>11. CASE decoder = "twoRegImm"
  <2>1. n = 2 /\ Len(args) >= 1
    BY <1>11 DEF FirstImmediate, Readable
  <2>2. PICK a \in RegisterNumbers : a = Low(first)
    BY <1>2, <2>1, NibblesAre
  <2>3. PICK b \in RegisterNumbers : b = High(first)
    BY <1>2, <2>1, NibblesAre
  <2>4. PICK x \in Register : x = Varint(Sub(args, 1, 1 + Room(args, 1)))
    <3>1. PICK k \in 0 .. 4 : k = Room(args, 1)
      BY <1>1, RoomIs
    <3>2. k \in 0 .. 8 /\ IsArguments(args, 1 + 1) /\ 1 \in Nat
      BY <2>1
    <3>3. Varint(Sub(args, 1, 1 + k)) \in Register
      BY ONLY <3>2, 1 + 1 <= 1 + 1, 1 + 1 \in Nat, ImmediateIs
    <3>. QED
      BY <3>1, <3>3
  <2>5. Operands(decoder, args) = [rA |-> a, rB |-> b, rD |-> 0, vX |-> x, vY |-> 0, offset |-> 0]
    BY <1>11, <2>2, <2>3, <2>4 DEF Operands, MoreOperands, TwoRegisters, NoOperands
  <2>. QED
    BY <1>0, <2>2, <2>3, <2>4, <2>5, OperandsMade
<1>12. CASE decoder = "twoRegOffset"
  <2>1. n = 2 /\ Len(args) >= 1
    BY <1>12 DEF FirstImmediate, Readable
  <2>2. PICK a \in RegisterNumbers : a = Low(first)
    BY <1>2, <2>1, NibblesAre
  <2>3. PICK b \in RegisterNumbers : b = High(first)
    BY <1>2, <2>1, NibblesAre
  <2>4. PICK z \in Offsets : z = SignedOffset(args, 1)
    BY <2>1, SignedOffsetIs
  <2>5. Operands(decoder, args) = [rA |-> a, rB |-> b, rD |-> 0, vX |-> 0, vY |-> 0, offset |-> z]
    BY <1>12, <2>2, <2>3, <2>4 DEF Operands, MoreOperands, TwoRegisters, NoOperands
  <2>. QED
    BY <1>0, <2>2, <2>3, <2>4, <2>5, OperandsMade
<1>13. CASE decoder = "threeReg"
  <2>1. n = 3 /\ Len(args) >= 2
    BY <1>13 DEF FirstImmediate, Readable
  <2>2. PICK a \in RegisterNumbers : a = Low(first)
    BY <1>2, <2>1, NibblesAre
  <2>3. PICK b \in RegisterNumbers : b = High(first)
    BY <1>2, <2>1, NibblesAre
  <2>4. PICK d \in RegisterNumbers : d = Least(NRegs - 1, second)
    BY <1>3, <2>1, NibblesAre
  <2>5. Operands(decoder, args) = [rA |-> a, rB |-> b, rD |-> d, vX |-> 0, vY |-> 0, offset |-> 0]
    BY <1>13, <2>2, <2>3, <2>4 DEF Operands, MoreOperands, TwoRegisters, NoOperands
  <2>. QED
    BY <1>0, <2>2, <2>3, <2>4, <2>5, OperandsMade
<1>14. CASE decoder = "twoImm"
  <2>1. n = 2 /\ Len(args) >= 1
    BY <1>14 DEF FirstImmediate, Readable
  <2>2. PICK l \in 0 .. 4 : l = LowLength(first)
    BY <1>2, <1>3, <2>1, NibblesAre
  <2>3. PICK o : o = NoOperands
    OBVIOUS
  <2>4. OperandsFit(o)
    BY <2>3, NoOperandsFit
  <2>5. OperandsFit(Immediates(o, args, 1, l))
    BY <2>1, <2>4, ImmediatesFit
  <2>. QED
    BY <1>14, <2>2, <2>3, <2>5 DEF Operands, FirstOperands
<1>15. CASE decoder = "regTwoImm"
  <2>1. n = 2 /\ Len(args) >= 1
    BY <1>15 DEF FirstImmediate, Readable
  <2>2. PICK l \in 0 .. 4 : l = HighLength(first)
    BY <1>2, <1>3, <2>1, NibblesAre
  <2>3. PICK o : o = [NoOperands EXCEPT !.rA = Low(first)]
    OBVIOUS
  <2>4. OperandsFit(o)
    <3>. Low(first) \in RegisterNumbers
      BY <1>2, <2>1, NibblesAre
    <3>. QED
      BY <2>3, WithOperand, NoOperandsFit
  <2>5. OperandsFit(Immediates(o, args, 1, l))
    BY <2>1, <2>4, ImmediatesFit
  <2>. QED
    BY <1>15, <2>2, <2>3, <2>5 DEF Operands, FirstOperands
<1>16. CASE decoder = "twoRegTwoImm"
  <2>1. n = 3 /\ Len(args) >= 2
    BY <1>16 DEF FirstImmediate, Readable
  <2>2. PICK l \in 0 .. 4 : l = LowLength(second)
    BY <1>2, <1>3, <2>1, NibblesAre
  <2>3. PICK o : o = TwoRegisters(args)
    OBVIOUS
  <2>4. OperandsFit(o)
    BY <1>2, <2>1, <2>3, TwoRegistersFit
  <2>5. OperandsFit(Immediates(o, args, 2, l))
    BY <2>1, <2>4, ImmediatesFit
  <2>. QED
    BY <1>16, <2>2, <2>3, <2>5 DEF Operands, MoreOperands
<1>. QED
  BY <1>4, <1>5, <1>6, <1>7, <1>8, <1>9, <1>10, <1>11, <1>12, <1>13, <1>14, <1>15, <1>16 DEF Decoders

LEMMA SameOperands ==
  ASSUME NEW decoder, NEW args, decoder \in Decoders
  PROVE  WasmOperands(decoder, args) = Operands(decoder, args)
<1>1. CASE decoder = "none"
  BY <1>1 DEF Operands, WasmOperands
<1>2. CASE decoder = "imm"
  BY <1>2 DEF Operands, FirstOperands, WasmOperands
<1>3. CASE decoder = "regExt"
  BY <1>3 DEF Operands, FirstOperands, WasmOperands
<1>4. CASE decoder = "twoImm"
  BY <1>4 DEF Operands, FirstOperands, WasmOperands
<1>5. CASE decoder = "offset"
  BY <1>5 DEF Operands, FirstOperands, WasmOperands
<1>6. CASE decoder = "regImm"
  BY <1>6 DEF Operands, FirstOperands, WasmOperands
<1>7. CASE decoder = "regTwoImm"
  BY <1>7 DEF Operands, FirstOperands, WasmOperands
<1>8. CASE decoder = "regImmOffset"
  BY <1>8 DEF Operands, FirstOperands, WasmOperands
<1>9. CASE decoder = "twoReg"
  BY <1>9 DEF Operands, MoreOperands, WasmOperands
<1>10. CASE decoder = "twoRegImm"
  BY <1>10 DEF Operands, MoreOperands, WasmOperands
<1>11. CASE decoder = "twoRegOffset"
  BY <1>11 DEF Operands, MoreOperands, WasmOperands
<1>12. CASE decoder = "twoRegTwoImm"
  BY <1>12 DEF Operands, MoreOperands, WasmOperands
<1>13. CASE decoder = "threeReg"
  BY <1>13 DEF Operands, MoreOperands, WasmOperands
<1>. QED
  BY <1>1, <1>2, <1>3, <1>4, <1>5, <1>6, <1>7, <1>8, <1>9, <1>10, <1>11, <1>12, <1>13 DEF Decoders

Positions(p) == 0 .. p.len - 1

LEMMA ProgramIs ==
  ASSUME NEW p, IsProgram(p)
  PROVE  /\ p.len \in Nat \ {0} /\ p.len < Pow(4)
         /\ \A i \in Positions(p) : p.c[i] \in Nat /\ p.k[i] \in {0, 1}
         /\ 0 \in Positions(p) /\ p.k[0] = 1
         /\ \A i \in 1 .. Len(p.j) : p.j[i] \in Nat
         /\ Len(p.j) \in Nat
<1>1. Pow(4) \in Nat
  BY PowIs
<1>2. p.len \in Nat \ {0} /\ p.len < Pow(4)
  BY <1>1 DEF IsProgram
<1>3. \A i \in Positions(p) : p.c[i] \in Nat /\ p.k[i] \in {0, 1}
  BY DEF IsProgram, Positions
<1>4. 0 \in Positions(p) /\ p.k[0] = 1
  BY <1>2 DEF IsProgram, Positions
<1>5. PICK j \in Seq(Nat) : j = p.j
  BY DEF IsProgram
<1>6. Len(j) \in Nat /\ \A i \in 1 .. Len(j) : j[i] \in Nat
  OBVIOUS
<1>. QED
  BY <1>2, <1>3, <1>4, <1>5, <1>6

LEMMA NextOpcodeIs ==
  ASSUME NEW p, IsProgram(p), NEW pc \in Positions(p)
  PROVE  /\ NextOpcode(p, pc) \in pc + 1 .. p.len
         /\ \A i \in pc + 1 .. NextOpcode(p, pc) - 1 : p.k[i] = 0
         /\ NextOpcode(p, pc) < p.len => p.k[NextOpcode(p, pc)] = 1
<1>. DEFINE later == {n \in pc + 1 .. p.len - 1 : p.k[n] = 1}
<1>1. p.len \in Nat /\ pc \in Nat /\ pc < p.len /\ \A i \in Positions(p) : p.k[i] \in {0, 1}
  BY ProgramIs DEF Positions
<1>2. CASE later = {}
  <2>1. NextOpcode(p, pc) = p.len
    BY <1>2 DEF NextOpcode
  <2>2. \A i \in pc + 1 .. p.len - 1 : p.k[i] = 0
    BY <1>1, <1>2 DEF Positions
  <2>. QED
    BY <1>1, <2>1, <2>2
<1>3. CASE later # {}
  <2>1. later \in SUBSET Nat
    BY <1>1
  <2>2. \E n \in later : \A o \in later : n <= o
    <3>. HIDE DEF later
    <3>. QED
      BY <1>3, <2>1, LeastElement
  <2>3. PICK n \in later : n = NextOpcode(p, pc) /\ \A o \in later : n <= o
    <3>1. NextOpcode(p, pc) = CHOOSE n \in later : \A o \in later : n <= o
      BY <1>3 DEF NextOpcode
    <3>. HIDE DEF later
    <3>. QED
      BY <2>2, <3>1
  <2>4. \A i \in pc + 1 .. n - 1 : p.k[i] = 0
    <3>. SUFFICES ASSUME NEW i \in pc + 1 .. n - 1 PROVE p.k[i] = 0
      OBVIOUS
    <3>1. i \in pc + 1 .. p.len - 1 /\ i < n /\ i \in Positions(p)
      BY <1>1, <2>3 DEF Positions
    <3>2. i \notin later
      BY <1>1, <2>3, <3>1
    <3>. QED
      BY <1>1, <3>1, <3>2
  <2>. QED
    BY <1>1, <2>3, <2>4
<1>. QED
  BY <1>2, <1>3

(* The next instruction is the only one with none before it.               *)
LEMMA NextOpcodeOnly ==
  ASSUME NEW p, IsProgram(p), NEW pc \in Positions(p), NEW n \in pc + 1 .. p.len,
         \A i \in pc + 1 .. n - 1 : p.k[i] = 0,
         n < p.len => p.k[n] = 1
  PROVE  n = NextOpcode(p, pc)
<1>1. PICK m : m = NextOpcode(p, pc)
  OBVIOUS
<1>2. /\ m \in pc + 1 .. p.len
      /\ \A i \in pc + 1 .. m - 1 : p.k[i] = 0
      /\ m < p.len => p.k[m] = 1
  BY <1>1, NextOpcodeIs
<1>3. p.len \in Nat /\ pc \in Nat
  BY ProgramIs DEF Positions
<1>4. ~(m < n)
  BY <1>2, <1>3
<1>5. ~(n < m)
  BY <1>2, <1>3
<1>. QED
  BY <1>1, <1>2, <1>3, <1>4, <1>5

LEMMA DecodersAre ==
  ASSUME NEW op \in Nat
  PROVE  DecoderOf(op) \in Decoders \cup {"unknown"}
BY DEF DecoderOf, Decoders

LEMMA ArgumentsAre ==
  ASSUME NEW p, IsProgram(p), NEW pc \in Positions(p), NEW args,
         args = ArgsAt(p, pc, NextOpcode(p, pc) - pc)
  PROVE  /\ args \in Seq(Nat)
         /\ Len(args) = NextOpcode(p, pc) - pc - 1
         /\ DecoderOf(p.c[pc]) \notin {"none", "unknown"} =>
              IsArguments(args, FirstImmediate(DecoderOf(p.c[pc])))
<1>1. PICK n \in Nat : n = NextOpcode(p, pc) - pc - 1 /\ pc + n < p.len /\ p.len \in Nat /\ pc \in Nat
                       /\ NextOpcode(p, pc) = pc + n + 1
  <2>1. p.len \in Nat /\ pc \in Nat /\ NextOpcode(p, pc) \in pc + 1 .. p.len
    BY ProgramIs, NextOpcodeIs DEF Positions
  <2>2. NextOpcode(p, pc) - pc - 1 \in Nat
    BY <2>1
  <2>. QED
    BY <2>1, <2>2
<1>2. args = [i \in 1 .. n |-> p.c[pc + i]]
  <2>1. (NextOpcode(p, pc) - pc) - 1 = n
    BY <1>1
  <2>. QED
    BY <2>1 DEF ArgsAt
<1>3. \A i \in 1 .. n : p.c[pc + i] \in Nat
  BY <1>1, ProgramIs DEF Positions
<1>4. args \in [1 .. n -> Nat]
  BY <1>2, <1>3
<1>5. args \in Seq(Nat)
  BY <1>4, SeqDef
<1>6. Len(args) = n
  <2>1. DOMAIN args = 1 .. n /\ DOMAIN args = 1 .. Len(args) /\ Len(args) \in Nat
    BY ONLY <1>4, <1>5, LenProperties
  <2>2. PICK l \in Nat : l = Len(args)
    BY <2>1
  <2>3. l = n
    BY ONLY <2>1, <2>2, n \in Nat, l \in Nat
  <2>. QED
    BY <2>2, <2>3
<1>7. ASSUME DecoderOf(p.c[pc]) \notin {"none", "unknown"}
      PROVE  IsArguments(args, FirstImmediate(DecoderOf(p.c[pc])))
  <2>1. PICK f \in Nat : f = FirstImmediate(DecoderOf(p.c[pc]))
    BY DEF FirstImmediate
  <2>2. \A i \in pc + f .. NextOpcode(p, pc) - 1 : p.c[i] \in Byte
    BY <1>7, <2>1 DEF IsProgram, Positions
  <2>3. \A i \in 1 .. n : i >= f => args[i] \in Byte
    <3>. SUFFICES ASSUME NEW i \in 1 .. n, i >= f PROVE args[i] \in Byte
      OBVIOUS
    <3>1. pc + i \in pc + f .. NextOpcode(p, pc) - 1
      BY <1>1
    <3>. QED
      BY <1>2, <2>2, <3>1
  <2>. QED
    BY <1>5, <1>6, <2>1, <2>3 DEF IsArguments
<1>. QED
  BY <1>1, <1>5, <1>6, <1>7

LEMMA ReadableJs ==
  ASSUME NEW decoder, NEW args \in Seq(Nat), decoder \in Decoders,
         ~Undecodable(decoder, args), ~Crashes(decoder, args)
  PROVE  Readable(decoder, args)
<1>1. Len(args) \in Nat /\ (Len(args) = 0 => args = << >>)
  BY EmptySeq
<1>2. decoder \in {"regExt", "regImm", "twoReg", "twoImm", "regTwoImm", "regImmOffset", "twoRegImm", "twoRegOffset"}
        => args # << >>
  BY DEF Undecodable, Crashes
<1>3. decoder \in {"twoRegTwoImm", "threeReg"} => ~(Len(args) < 2)
  BY DEF Undecodable
<1>4. decoder \in {"none", "imm", "offset"} => Readable(decoder, args)
  BY DEF Readable
<1>. QED
  BY <1>1, <1>2, <1>3, <1>4 DEF Readable, Decoders

LEMMA ReadableWasm ==
  ASSUME NEW decoder, NEW args \in Seq(Nat), decoder \in Decoders,
         ~AbortsDecoding(decoder, args), ~NotDecodable(decoder, args)
  PROVE  Readable(decoder, args)
<1>1. Len(args) \in Nat /\ (Len(args) = 0 => args = << >>) /\ (args = << >> => Len(args) = 0)
  BY EmptySeq
<1>2. decoder \in {"regImm", "twoReg", "twoImm", "regTwoImm", "regImmOffset", "twoRegImm", "twoRegOffset"}
        => args # << >>
  BY DEF NotDecodable, AbortsDecoding
<1>3. decoder \in {"twoRegTwoImm", "threeReg"} => ~(Len(args) < 2)
  BY DEF NotDecodable
<1>4. decoder \in {"none", "imm", "offset"} => Readable(decoder, args)
  BY DEF Readable
<1>5. decoder = "regExt" => ~(Len(args) < 9)
  BY DEF NotDecodable
<1>. QED
  BY <1>1, <1>2, <1>3, <1>4, <1>5 DEF Readable, Decoders

(* What both interpreters read of an instruction they can decode.          *)
LEMMA DecodedOperands ==
  ASSUME NEW p, IsProgram(p), NEW pc \in Positions(p), NEW args,
         args = ArgsAt(p, pc, NextOpcode(p, pc) - pc),
         DecoderOf(p.c[pc]) # "unknown",
         Readable(DecoderOf(p.c[pc]), args)
  PROVE  /\ OperandsFit(Operands(DecoderOf(p.c[pc]), args))
         /\ WasmOperands(DecoderOf(p.c[pc]), args) = Operands(DecoderOf(p.c[pc]), args)
<1>1. PICK decoder : decoder = DecoderOf(p.c[pc])
  OBVIOUS
<1>2. decoder \in Decoders
  <2>. p.c[pc] \in Nat
    BY ProgramIs
  <2>. QED
    BY <1>1, DecodersAre
<1>3. CASE decoder = "none"
  BY <1>1, <1>2, <1>3, NoOperandsFit, SameOperands DEF Operands
<1>4. CASE decoder # "none"
  <2>1. IsArguments(args, FirstImmediate(decoder))
    BY <1>1, <1>4, ArgumentsAre
  <2>. QED
    BY <1>1, <1>2, <2>1, OperandsAre, SameOperands
<1>. QED
  BY <1>3, <1>4

LEMMA BlockBeginnings ==
  ASSUME NEW p, IsProgram(p), NEW pc \in Positions(p), p.k[pc] = 1,
         NEW last \in 0 .. pc - 1, last = 0 \/ p.k[last] = 1,
         \A q \in last + 1 .. pc - 1 : p.k[q] = 0,
         p.c[last] \in BlockTerminators
  PROVE  pc \in BlockStarts(p)
<1>1. last \in Positions(p) /\ p.k[last] = 1 /\ pc \in Nat /\ pc < p.len /\ p.len \in Nat /\ last < pc
  BY ProgramIs DEF Positions
<1>2. NextOpcode(p, last) = pc
  <2>. pc \in last + 1 .. p.len
    BY <1>1
  <2>. QED
    BY <1>1, NextOpcodeOnly
<1>. QED
  BY <1>1, <1>2 DEF BlockStarts, Positions

LEMMA FirstBlock ==
  ASSUME NEW p, IsProgram(p)
  PROVE  0 \in BlockStarts(p)
BY ProgramIs DEF BlockStarts, Positions

(* There is a last instruction before every position but the first.        *)
LEMMA EarlierOpcode ==
  ASSUME NEW p, IsProgram(p), NEW pc \in Positions(p), pc # 0
  PROVE  \E last \in 0 .. pc - 1 : (last = 0 \/ p.k[last] = 1) /\ \A q \in last + 1 .. pc - 1 : p.k[q] = 0
<1>. DEFINE S == {q \in 0 .. pc - 1 : q = 0 \/ p.k[q] = 1}
<1>1. pc \in Nat \ {0} /\ pc < p.len /\ p.len \in Nat /\ \A i \in Positions(p) : p.k[i] \in {0, 1}
  BY ProgramIs DEF Positions
<1>2. S \in SUBSET (0 .. pc - 1) /\ 0 \in S
  BY <1>1
<1>3. PICK last \in S : \A i \in S : i <= last
  <2>. HIDE DEF S
  <2>. QED
    BY <1>1, <1>2, GreatestElement
<1>4. \A q \in last + 1 .. pc - 1 : p.k[q] = 0
  <2>. SUFFICES ASSUME NEW q \in last + 1 .. pc - 1 PROVE p.k[q] = 0
    OBVIOUS
  <2>1. q \in 0 .. pc - 1 /\ q \in Positions(p) /\ q > last
    BY <1>1, <1>3 DEF Positions
  <2>2. q \notin S
    BY <1>1, <1>3, <2>1
  <2>. QED
    BY <1>1, <2>1, <2>2
<1>. QED
  BY <1>3, <1>4

(* What the constructor of the first interpreter knows of every opcode.    *)
LEMMA CacheIs ==
  ASSUME NEW p, IsProgram(p)
  PROVE  /\ DOMAIN IxPointerCache(p) = {i \in Positions(p) : p.k[i] = 1}
         /\ \A i \in DOMAIN IxPointerCache(p) :
              /\ IxPointerCache(p)[i].opCode = p.c[i]
              /\ IxPointerCache(p)[i].skip + 1 = NextOpcode(p, i) - i
              /\ IsBlockBeginning(IxPointerCache(p), i) => i \in BlockStarts(p)
<1>. DEFINE opcodes == {i \in 0 .. p.len - 1 : p.k[i] = 1}
            Before(i) == CHOOSE q \in 0 .. i - 1 : (q = 0 \/ p.k[q] = 1) /\ \A r \in q + 1 .. i - 1 : p.k[r] = 0
            terminated == [i \in 0 .. p.len - 1 |-> IF i = 0 THEN TRUE ELSE p.c[Before(i)] \in BlockTerminators]
            cache == [i \in opcodes |-> [opCode |-> p.c[i], skip |-> NextOpcode(p, i) - i - 1,
                                         isBlockBeginning |-> terminated[i]]]
<1>1. IxPointerCache(p) = cache
  BY Zenon DEF IxPointerCache
<1>2. ASSUME NEW i \in opcodes
      PROVE  /\ cache[i].opCode = p.c[i]
             /\ cache[i].skip + 1 = NextOpcode(p, i) - i
             /\ cache[i].isBlockBeginning = terminated[i]
  <2>1. i \in Positions(p) /\ i \in Nat
    BY ProgramIs DEF Positions
  <2>2. NextOpcode(p, i) \in Int
    BY <2>1, ProgramIs, NextOpcodeIs
  <2>. HIDE DEF terminated
  <2>. QED
    BY <2>1, <2>2
<1>3. ASSUME NEW i \in opcodes, terminated[i]
      PROVE  i \in BlockStarts(p)
  <2>1. i \in Positions(p) /\ p.k[i] = 1
    BY DEF Positions
  <2>2. CASE i = 0
    BY <2>2, FirstBlock
  <2>3. CASE i # 0
    <3>1. p.c[Before(i)] \in BlockTerminators
      BY <1>3, <2>3
    <3>2. /\ Before(i) \in 0 .. i - 1
          /\ Before(i) = 0 \/ p.k[Before(i)] = 1
          /\ \A r \in Before(i) + 1 .. i - 1 : p.k[r] = 0
      BY <2>1, <2>3, EarlierOpcode
    <3>. HIDE DEF Before
    <3>. QED
      BY <2>1, <3>1, <3>2, BlockBeginnings
  <2>. QED
    BY <2>2, <2>3
<1>4. DOMAIN cache = opcodes
  OBVIOUS
<1>5. opcodes = {i \in Positions(p) : p.k[i] = 1}
  BY DEF Positions
<1>. HIDE DEF cache, terminated
<1>6. \A i \in opcodes : IsBlockBeginning(cache, i) => i \in BlockStarts(p)
  BY <1>2, <1>3 DEF IsBlockBeginning
<1>. HIDE DEF opcodes
<1>. QED
  BY <1>1, <1>2, <1>4, <1>5, <1>6

-----------------------------------------------------------------------------
(***************************************************************************)
(* Machines, and jumps.                                                    *)
(***************************************************************************)

Parts == {"pc", "gas", "w", "acl", "mem", "heap", "exit"}

(* A machine of either interpreter.                                        *)
IsMachine(m) ==
  /\ m = [f \in DOMAIN m |-> m[f]]
  /\ Parts \subseteq DOMAIN m
  /\ m.w = [r \in RegisterNumbers |-> m.w[r]]

(* n is m but for these parts.                                             *)
But(n, m, changed) ==
  /\ IsMachine(n)
  /\ DOMAIN n = DOMAIN m
  /\ \A f \in DOMAIN m \ changed : n[f] = m[f]

LEMMA ButSelf ==
  ASSUME NEW m, IsMachine(m)
  PROVE  But(m, m, {})
BY DEF But

LEMMA ButThen ==
  ASSUME NEW m, NEW n, NEW o, NEW s, NEW t, But(n, m, s), But(o, n, t)
  PROVE  But(o, m, s \cup t)
BY DEF But

LEMMA ButPc ==
  ASSUME NEW m, IsMachine(m), NEW v
  PROVE  But([m EXCEPT !.pc = v], m, {"pc"}) /\ [m EXCEPT !.pc = v].pc = v
BY DEF But, IsMachine, Parts

LEMMA ButGas ==
  ASSUME NEW m, IsMachine(m), NEW v
  PROVE  But([m EXCEPT !.gas = v], m, {"gas"}) /\ [m EXCEPT !.gas = v].gas = v
BY DEF But, IsMachine, Parts

LEMMA ButMem ==
  ASSUME NEW m, IsMachine(m), NEW v
  PROVE  But([m EXCEPT !.mem = v], m, {"mem"}) /\ [m EXCEPT !.mem = v].mem = v
BY DEF But, IsMachine, Parts

LEMMA LeaveIs ==
  ASSUME NEW m, IsMachine(m), NEW exit
  PROVE  But(Leave(m, exit), m, {"exit"}) /\ Leave(m, exit).exit = exit
BY DEF But, IsMachine, Parts, Leave

LEMMA ButRegister ==
  ASSUME NEW m, IsMachine(m), NEW r \in RegisterNumbers, NEW v
  PROVE  LET n == [m EXCEPT !.w[r] = v]
         IN  But(n, m, {"w"}) /\ n.w = [m.w EXCEPT ![r] = v]
BY DEF But, IsMachine, Parts

LEMMA ButParts ==
  ASSUME NEW m, NEW n, NEW s, But(n, m, s), IsMachine(m)
  PROVE  /\ "pc" \notin s => n.pc = m.pc
         /\ "gas" \notin s => n.gas = m.gas
         /\ "w" \notin s => n.w = m.w
         /\ "acl" \notin s => n.acl = m.acl
         /\ "mem" \notin s => n.mem = m.mem
         /\ "heap" \notin s => n.heap = m.heap
         /\ "exit" \notin s => n.exit = m.exit
BY DEF But, IsMachine, Parts

(* A jump or a branch changes the pointer, to a block or past itself, or   *)
(* ends the run.                                                           *)
Jumped(n, m, p, skip) ==
  /\ n.pc \in {m.pc, m.pc + 1, m.pc + skip} \cup BlockStarts(p)
  /\ n.exit = m.exit \/ n.exit.why \in {"panic", "halt", "hostCall"}

LEMMA Beginnings ==
  ASSUME NEW p, IsProgram(p), NEW a, IsBlockBeginning(IxPointerCache(p), a)
  PROVE  a \in BlockStarts(p)
BY CacheIs DEF IsBlockBeginning

LEMMA BranchIs ==
  ASSUME NEW p, IsProgram(p), NEW m, IsMachine(m), NEW address, NEW condition \in BOOLEAN, NEW skip,
         NEW n, n = Branch(m, IxPointerCache(p), address, condition, skip)
  PROVE  But(n, m, {"pc", "exit"}) /\ Jumped(n, m, p, skip)
<1>1. CASE condition /\ IsBlockBeginning(IxPointerCache(p), address)
  <2>1. n = [m EXCEPT !.pc = address]
    BY <1>1 DEF Branch
  <2>2. But(n, m, {"pc"}) /\ n.pc = address
    BY <2>1, ButPc
  <2>3. address \in BlockStarts(p)
    BY <1>1, Beginnings
  <2>4. n.exit = m.exit /\ But(n, m, {"pc", "exit"})
    BY <2>2, ButParts DEF But
  <2>. QED
    BY <2>2, <2>3, <2>4 DEF Jumped
<1>2. CASE condition /\ ~IsBlockBeginning(IxPointerCache(p), address)
  <2>1. n = Leave(m, Panic)
    BY <1>2 DEF Branch
  <2>2. But(n, m, {"exit"}) /\ n.exit = Panic
    BY <2>1, LeaveIs
  <2>3. Panic.why = "panic"
    BY DEF Panic, Exit
  <2>4. n.pc = m.pc /\ But(n, m, {"pc", "exit"})
    BY <2>2, ButParts DEF But
  <2>. QED
    BY <2>2, <2>3, <2>4 DEF Jumped
<1>3. CASE ~condition
  <2>1. n = [m EXCEPT !.pc = @ + skip]
    BY <1>3 DEF Branch
  <2>2. But(n, m, {"pc"}) /\ n.pc = m.pc + skip
    BY <2>1, ButPc
  <2>4. n.exit = m.exit /\ But(n, m, {"pc", "exit"})
    BY <2>2, ButParts DEF But
  <2>. QED
    BY <2>2, <2>4 DEF Jumped
<1>. QED
  BY <1>1, <1>2, <1>3

LEMMA DjumpIs ==
  ASSUME NEW p, IsProgram(p), NEW m, IsMachine(m), NEW a, NEW skip,
         NEW n, n = Djump(m, p, IxPointerCache(p), a)
  PROVE  But(n, m, {"pc", "exit"}) /\ Jumped(n, m, p, skip)
<1>. DEFINE target == p.j[a \div ZA]
            lands == /\ a # HaltAddress /\ a \in 1 .. Len(p.j) * ZA
                     /\ a % ZA = 0
                     /\ IsBlockBeginning(IxPointerCache(p), target)
<1>1. CASE a = HaltAddress
  <2>1. n = Leave(m, Exit("halt", 0))
    BY <1>1 DEF Djump
  <2>2. But(n, m, {"exit"}) /\ n.exit = Exit("halt", 0)
    BY <2>1, LeaveIs
  <2>3. n.pc = m.pc /\ But(n, m, {"pc", "exit"}) /\ n.exit.why = "halt"
    BY <2>2, ButParts DEF But, Exit
  <2>. QED
    BY <2>3 DEF Jumped
<1>2. CASE lands
  <2>1. n = [m EXCEPT !.pc = target]
    BY <1>2 DEF Djump
  <2>2. But(n, m, {"pc"}) /\ n.pc = target
    BY <2>1, ButPc
  <2>3. target \in BlockStarts(p)
    BY <1>2, Beginnings
  <2>. HIDE DEF target
  <2>4. n.exit = m.exit /\ But(n, m, {"pc", "exit"})
    BY <2>2, ButParts DEF But
  <2>. QED
    BY <2>2, <2>3, <2>4 DEF Jumped
<1>3. CASE a # HaltAddress /\ ~lands
  <2>1. n = Leave(m, Panic)
    BY <1>3 DEF Djump
  <2>2. But(n, m, {"exit"}) /\ n.exit = Panic
    BY <2>1, LeaveIs
  <2>3. n.pc = m.pc /\ But(n, m, {"pc", "exit"}) /\ n.exit.why = "panic"
    BY <2>2, ButParts DEF But, Panic, Exit
  <2>. QED
    BY <2>3 DEF Jumped
<1>. QED
  BY <1>1, <1>2, <1>3

LEMMA ConditionsAre ==
  ASSUME NEW op, NEW a, NEW b
  PROVE  /\ op \in 81 .. 90 => ImmCondition(op, a, b) \in BOOLEAN
         /\ op \in 170 .. 175 => RegCondition(op, a, b) \in BOOLEAN
<1>1. ASSUME op \in 81 .. 90 PROVE ImmCondition(op, a, b) \in BOOLEAN
  <2>1. CASE op = 81
    BY <2>1 DEF ImmCondition
  <2>2. CASE op = 82
    BY <2>2 DEF ImmCondition
  <2>3. CASE op = 83
    BY <2>3 DEF ImmCondition
  <2>4. CASE op = 84
    BY <2>4 DEF ImmCondition
  <2>5. CASE op = 85
    BY <2>5 DEF ImmCondition
  <2>6. CASE op = 86
    BY <2>6 DEF ImmCondition
  <2>7. CASE op = 87
    BY <2>7 DEF ImmCondition
  <2>8. CASE op = 88
    BY <2>8 DEF ImmCondition
  <2>9. CASE op = 89
    BY <2>9 DEF ImmCondition
  <2>10. CASE op = 90
    BY <2>10 DEF ImmCondition
  <2>. QED
    BY <1>1, <2>1, <2>2, <2>3, <2>4, <2>5, <2>6, <2>7, <2>8, <2>9, <2>10
<1>2. ASSUME op \in 170 .. 175 PROVE RegCondition(op, a, b) \in BOOLEAN
  <2>1. CASE op = 170
    BY <2>1 DEF RegCondition
  <2>2. CASE op = 171
    BY <2>2 DEF RegCondition
  <2>3. CASE op = 172
    BY <2>3 DEF RegCondition
  <2>4. CASE op = 173
    BY <2>4 DEF RegCondition
  <2>5. CASE op = 174
    BY <2>5 DEF RegCondition
  <2>6. CASE op = 175
    BY <2>6 DEF RegCondition
  <2>. QED
    BY <1>2, <2>1, <2>2, <2>3, <2>4, <2>5, <2>6
<1>. QED
  BY <1>1, <1>2

KnownJumps == {0, 1, 10, 40, 50, 80, 180} \cup (81 .. 90) \cup (170 .. 175)

LEMMA JumpsKnown ==
  ASSUME NEW op \in JumpOpcodes, DecoderOf(op) # "unknown"
  PROVE  op \in KnownJumps
BY DEF JumpOpcodes, DecoderOf, KnownJumps

LEMMA EvaluateJumpIs ==
  ASSUME NEW p, IsProgram(p), NEW m, IsMachine(m), NEW o, OperandsFit(o), NEW skip,
         NEW op \in KnownJumps,
         NEW n, n = EvaluateJump(op, m, o, p, IxPointerCache(p), skip)
  PROVE  /\ But(n, m, {"pc", "w", "exit"})
         /\ Jumped(n, m, p, skip)
         /\ n.w = m.w \/ n.w = [m.w EXCEPT ![o.rA] = o.vX]
<1>. DEFINE cache == IxPointerCache(p)
            target == m.pc + o.offset
<1>. SUFFICES /\ \E s \in SUBSET {"pc", "w", "exit"} : But(n, m, s)
              /\ Jumped(n, m, p, skip)
              /\ n.w = m.w \/ n.w = [m.w EXCEPT ![o.rA] = o.vX]
  BY DEF But
<1>0. But(n, m, {"pc", "exit"}) => n.w = m.w
  BY ButParts
<1>1. CASE op = 0
  <2>1. n = Leave(m, Panic)
    BY <1>1 DEF EvaluateJump
  <2>2. But(n, m, {"exit"}) /\ n.exit.why = "panic"
    BY <2>1, LeaveIs DEF Panic, Exit
  <2>3. n.pc = m.pc /\ n.w = m.w
    BY <2>2, ButParts
  <2>. QED
    BY <2>2, <2>3 DEF Jumped
<1>2. CASE op = 1
  <2>1. n = [m EXCEPT !.pc = @ + 1]
    BY <1>2 DEF EvaluateJump
  <2>2. But(n, m, {"pc"}) /\ n.pc = m.pc + 1
    BY <2>1, ButPc
  <2>3. n.exit = m.exit /\ n.w = m.w
    BY <2>2, ButParts
  <2>. QED
    BY <2>2, <2>3 DEF Jumped
<1>3. CASE op = 10
  <2>1. n = Leave(m, Exit("hostCall", o.vX))
    BY <1>3 DEF EvaluateJump
  <2>2. But(n, m, {"exit"}) /\ n.exit.why = "hostCall"
    BY <2>1, LeaveIs DEF Exit
  <2>3. n.pc = m.pc /\ n.w = m.w
    BY <2>2, ButParts
  <2>. QED
    BY <2>2, <2>3 DEF Jumped
<1>4. CASE op = 40
  <2>1. n = Branch(m, cache, target, TRUE, skip)
    BY <1>4 DEF EvaluateJump
  <2>. HIDE DEF target
  <2>2. But(n, m, {"pc", "exit"}) /\ Jumped(n, m, p, skip)
    BY <2>1, BranchIs
  <2>. QED
    BY <1>0, <2>2
<1>5. CASE op = 50
  <2>1. PICK a : a = (m.w[o.rA] + o.vX) % Pow(4)
    OBVIOUS
  <2>2. n = Djump(m, p, cache, a)
    BY <1>5, <2>1 DEF EvaluateJump
  <2>3. But(n, m, {"pc", "exit"}) /\ Jumped(n, m, p, skip)
    BY <2>2, DjumpIs
  <2>. QED
    BY <1>0, <2>3
<1>6. CASE op = 80
  <2>1. PICK m1 : m1 = [m EXCEPT !.w[o.rA] = o.vX]
    OBVIOUS
  <2>2. n = Branch(m1, cache, target, TRUE, skip)
    BY <1>6, <2>1 DEF EvaluateJump
  <2>3. But(m1, m, {"w"}) /\ m1.w = [m.w EXCEPT ![o.rA] = o.vX] /\ IsMachine(m1)
    BY <2>1, ButRegister DEF OperandsFit, But
  <2>. HIDE DEF target
  <2>4. But(n, m1, {"pc", "exit"}) /\ Jumped(n, m1, p, skip)
    BY <2>2, <2>3, BranchIs
  <2>5. But(n, m, {"w"} \cup {"pc", "exit"}) /\ n.w = m1.w /\ m1.pc = m.pc /\ m1.exit = m.exit
    BY <2>3, <2>4, ButThen, ButParts
  <2>. QED
    BY <2>3, <2>4, <2>5 DEF Jumped
<1>7. CASE op \in 81 .. 90
  <2>1. PICK c \in BOOLEAN : c = ImmCondition(op, m.w[o.rA], o.vX)
    BY <1>7, ConditionsAre
  <2>2. n = Branch(m, cache, target, c, skip)
    BY <1>7, <2>1 DEF EvaluateJump
  <2>. HIDE DEF target
  <2>3. But(n, m, {"pc", "exit"}) /\ Jumped(n, m, p, skip)
    BY <2>2, BranchIs
  <2>. QED
    BY <1>0, <2>3
<1>8. CASE op \in 170 .. 175
  <2>1. PICK c \in BOOLEAN : c = RegCondition(op, m.w[o.rA], m.w[o.rB])
    BY <1>8, ConditionsAre
  <2>2. n = Branch(m, cache, target, c, skip)
    BY <1>8, <2>1 DEF EvaluateJump
  <2>. HIDE DEF target
  <2>3. But(n, m, {"pc", "exit"}) /\ Jumped(n, m, p, skip)
    BY <2>2, BranchIs
  <2>. QED
    BY <1>0, <2>3
<1>9. CASE op = 180
  <2>1. PICK a : a = (m.w[o.rB] + o.vY) % Pow(4)
    OBVIOUS
  <2>2. PICK m1 : m1 = Djump(m, p, cache, a)
    OBVIOUS
  <2>3. n = [m1 EXCEPT !.w[o.rA] = o.vX]
    BY <1>9, <2>1, <2>2 DEF EvaluateJump
  <2>4. But(m1, m, {"pc", "exit"}) /\ Jumped(m1, m, p, skip) /\ IsMachine(m1)
    BY <2>2, DjumpIs DEF But
  <2>5. But(n, m1, {"w"}) /\ n.w = [m1.w EXCEPT ![o.rA] = o.vX]
    BY <2>3, <2>4, ButRegister DEF OperandsFit
  <2>6. But(n, m, {"pc", "exit"} \cup {"w"}) /\ m1.w = m.w /\ n.pc = m1.pc /\ n.exit = m1.exit
    BY <2>4, <2>5, ButThen, ButParts
  <2>. QED
    BY <2>4, <2>5, <2>6 DEF Jumped
<1>. QED
  BY <1>1, <1>2, <1>3, <1>4, <1>5, <1>6, <1>7, <1>8, <1>9 DEF KnownJumps

-----------------------------------------------------------------------------
(***************************************************************************)
(* Pages and rights, loads, stores and sbrk.                               *)
(***************************************************************************)

LEMMA PagesDivide ==
  /\ Zp \in Nat \ {0} /\ NPages \in Nat \ {0}
  /\ Pow(4) = Zp * NPages /\ Pow(4) \in Nat \ {0}
<1>1. Zp \in Nat \ {0} /\ Pow(4) % Zp = 0 /\ Pow(4) \in Nat \ {0}
  BY PagesAssumption, WordBits
<1>2. PICK q \in Int, w \in Nat \ {0}, z \in Nat \ {0} :
         q = Pow(4) \div Zp /\ w = Pow(4) /\ z = Zp /\ w = z * q
  <2>1. PICK w \in Nat \ {0}, z \in Nat \ {0} : w = Pow(4) /\ z = Zp
    BY <1>1
  <2>2. w \in Int /\ w % z = 0
    BY <1>1, <2>1
  <2>3. w \div z \in Int /\ w = z * (w \div z) + (w % z)
    BY <2>2, Rest
  <2>4. PICK q \in Int : q = w \div z /\ w = z * q + 0
    BY <2>2, <2>3
  <2>5. z * q \in Int
    BY SMT
  <2>6. w = z * q
    BY ONLY <2>4, <2>5, w \in Nat
  <2>. QED
    BY <2>1, <2>4, <2>6
<1>3. ~(q <= 0)
  <2>. SUFFICES ASSUME q <= 0 PROVE FALSE
    OBVIOUS
  <2>1. CASE q = 0
    BY <1>2, <2>1
  <2>2. CASE q < 0
    <3>1. z * q + z <= z * 0 /\ z * q \in Int
      BY <1>2, <2>2, ProductsApart
    <3>. QED
      BY ONLY <1>2, <3>1, w \in Nat \ {0}, z \in Nat \ {0}
  <2>. QED
    BY <2>1, <2>2
<1>. QED
  BY <1>1, <1>2, <1>3 DEF NPages

LEMMA PageNumber ==
  ASSUME NEW j \in Nat, NEW c \in 0 .. Zp - 1
  PROVE  /\ ((Zp * j + c) % Pow(4)) \div Zp = j % NPages
         /\ j % NPages \in Pages
         /\ j < NPages => j % NPages = j
<1>1. Zp \in Nat \ {0} /\ NPages \in Nat \ {0} /\ Pow(4) = Zp * NPages /\ Pow(4) \in Nat \ {0} /\ j \in Int
  BY PagesDivide
<1>2. PICK q \in Int, d \in 0 .. NPages - 1 : d = j % NPages /\ j = NPages * q + d
  BY <1>1, Rest
<1>3. PICK z \in Nat \ {0}, n \in Nat \ {0}, w \in Nat \ {0} : z = Zp /\ n = NPages /\ w = Pow(4) /\ w = z * n
  BY <1>1
<1>4. d \in Nat /\ d < n /\ c \in Nat /\ c < z /\ j = n * q + d
  BY <1>1, <1>2, <1>3
<1>5. z * j + c = w * q + (z * d + c)
  <2>1. z * (n * q + d) = (z * n) * q + z * d
    BY SMT
  <2>2. z * j = w * q + z * d
    BY <1>3, <1>4, <2>1
  <2>3. z * j \in Int /\ w * q \in Int /\ z * d \in Int
    BY SMT
  <2>. QED
    BY <1>4, <2>2, <2>3
<1>6. z * d + c \in 0 .. w - 1
  <2>1. z * d + z <= z * n /\ z * d \in Int
    BY <1>4, ProductsApart
  <2>2. z * d \in Nat
    BY <1>4, Products
  <2>. QED
    BY ONLY <1>3, <1>4, <2>1, <2>2
<1>7. (z * j + c) % w = z * d + c
  <2>1. PICK e \in 0 .. w - 1 : e = z * d + c
    BY <1>6
  <2>2. PICK a \in Int : a = z * j + c
    <3>. z * j \in Int
      BY SMT
    <3>. QED
      BY <1>4
  <2>3. a = w * q + e
    BY <1>5, <2>1, <2>2
  <2>4. w \in Nat \ {0} /\ q \in Int
    BY <1>2, <1>3
  <2>5. a % w = e
    BY ONLY <2>3, <2>4, a \in Int, e \in 0 .. w - 1, OneRest
  <2>. QED
    BY ONLY <2>1, <2>2, <2>5, Zenon
<1>8. (z * d + c) \div z = d
  <2>1. PICK a \in Int : a = z * d + c
    BY <1>6
  <2>2. c \in 0 .. z - 1 /\ d \in Int
    BY <1>4
  <2>. QED
    BY <2>1, <2>2, OneRest
<1>9. j < NPages => j % NPages = j
  <2>. SUFFICES ASSUME j < NPages PROVE j % NPages = j
    OBVIOUS
  <2>. j \in 0 .. NPages - 1
    BY <1>1
  <2>. QED
    BY <1>1, SmallRest
<1>. QED
  BY <1>2, <1>3, <1>7, <1>8, <1>9 DEF Pages

(* The page of the byte number k of an access.                             *)
PageOf(address, k) == ((address + k) % Pow(4)) \div Zp

LEMMA AddressParts ==
  ASSUME NEW address \in Addresses
  PROVE  \E q \in Nat : \E r \in 0 .. Zp - 1 :
            /\ address = Zp * q + r /\ q = address \div Zp /\ r = address % Zp
            /\ q < NPages
<1>1. Zp \in Nat \ {0} /\ NPages \in Nat \ {0} /\ Pow(4) = Zp * NPages /\ Pow(4) \in Nat
  BY PagesDivide
<1>2. address \in Nat /\ address \in Int /\ address < Zp * NPages
  BY <1>1 DEF Addresses
<1>3. address \div Zp \in 0 .. NPages - 1
  BY <1>1, <1>2, QuotientBelow
<1>4. address % Zp \in 0 .. Zp - 1 /\ address = Zp * (address \div Zp) + (address % Zp)
  BY <1>1, <1>2, Rest
<1>. QED
  BY <1>1, <1>3, <1>4

LEMMA PagesAre ==
  ASSUME NEW address \in Addresses, NEW length \in Nat \ {0}, NEW q \in Nat, NEW r \in 0 .. Zp - 1,
         q = address \div Zp, r = address % Zp, q < NPages,
         NEW more, more = (length + r - 1) \div Zp
  PROVE  /\ more \in Nat
         /\ DOMAIN PagesInRange(address, length) = 1 .. 1 + more
         /\ \A i \in 1 .. 1 + more : PagesInRange(address, length)[i] = (q + i - 1) % NPages
<1>1. Zp \in Nat \ {0} /\ NPages \in Nat \ {0} /\ NPages = Pow(4) \div Zp
  BY PagesDivide DEF NPages
<1>2. length - (Zp - r) + Zp - 1 = length + r - 1 /\ length + r - 1 \in Nat
  BY <1>1
<1>3. more \in Nat
  <2>1. PICK l \in Nat : l = length + r - 1
    BY <1>2
  <2>2. l \div Zp \in 0 .. l
    BY <1>1, QuotientAtMost
  <2>. QED
    BY <2>1, <2>2
<1>4. (IF more > 0 THEN more ELSE 0) = more
  BY <1>3
<1>5. PagesInRange(address, length) = [i \in 1 .. 1 + more |-> IF i = 1 THEN q ELSE (q + i - 1) % NPages]
  BY <1>1, <1>2, <1>3, <1>4 DEF PagesInRange
<1>6. q % NPages = q /\ q + 1 - 1 = q
  <2>. 0 \in 0 .. Zp - 1
    BY <1>1
  <2>. QED
    BY PageNumber
<1>7. \A i \in 1 .. 1 + more : PagesInRange(address, length)[i] = (q + i - 1) % NPages
  BY <1>5, <1>6
<1>. QED
  BY <1>3, <1>5, <1>7

(* The page of byte k is the page number e from the first on, where byte k *)
(* is e pages after the beginning of the first.                            *)
LEMMA PageOfIs ==
  ASSUME NEW q \in Nat, NEW r \in 0 .. Zp - 1, NEW address, address = Zp * q + r,
         NEW k \in Nat, NEW e \in Nat, NEW c \in 0 .. Zp - 1, r + k = Zp * e + c
  PROVE  PageOf(address, k) = (q + e) % NPages
<1>1. PICK z \in Nat \ {0} : z = Zp
  BY PagesDivide
<1>2. z * (q + e) = z * q + z * e /\ z * q \in Nat /\ z * e \in Nat
  BY SMT
<1>3. address + k = z * (q + e) + c
  BY <1>1, <1>2
<1>4. q + e \in Nat
  OBVIOUS
<1>5. ((Zp * (q + e) + c) % Pow(4)) \div Zp = (q + e) % NPages
  BY <1>4, PageNumber
<1>. QED
  BY <1>1, <1>3, <1>5 DEF PageOf

(* The pages in a range are those of its bytes.                            *)
LEMMA PagesTouched ==
  ASSUME NEW address \in Addresses, NEW length \in Nat \ {0}
  PROVE  /\ DOMAIN PagesInRange(address, length) \in SUBSET Nat
         /\ 1 \in DOMAIN PagesInRange(address, length)
         /\ \A i \in DOMAIN PagesInRange(address, length) :
              /\ PagesInRange(address, length)[i] \in Pages
              /\ \E k \in 0 .. length - 1 : PagesInRange(address, length)[i] = PageOf(address, k)
         /\ \A k \in 0 .. length - 1 : \E i \in DOMAIN PagesInRange(address, length) :
              PagesInRange(address, length)[i] = PageOf(address, k)
<1>1. PICK q \in Nat, r \in 0 .. Zp - 1 :
         address = Zp * q + r /\ q = address \div Zp /\ r = address % Zp /\ q < NPages
  BY AddressParts
<1>2. PICK pages, more : pages = PagesInRange(address, length) /\ more = (length + r - 1) \div Zp
  OBVIOUS
<1>3. /\ more \in Nat /\ DOMAIN pages = 1 .. 1 + more
      /\ \A i \in 1 .. 1 + more : pages[i] = (q + i - 1) % NPages
  <2>1. more = (length + r - 1) \div Zp /\ q = address \div Zp /\ r = address % Zp /\ q < NPages
    BY <1>1, <1>2
  <2>2. /\ more \in Nat /\ DOMAIN PagesInRange(address, length) = 1 .. 1 + more
        /\ \A i \in 1 .. 1 + more : PagesInRange(address, length)[i] = (q + i - 1) % NPages
    BY ONLY <2>1, PagesAre, address \in Addresses, length \in Nat \ {0}, q \in Nat, r \in 0 .. Zp - 1
  <2>. QED
    BY <1>2, <2>2
<1>4. PICK z \in Nat \ {0} : z = Zp
  BY PagesDivide
<1>5. r \in Nat /\ r < z /\ length + r - 1 \in Nat /\ 0 \in 0 .. z - 1
  BY <1>4
<1>6. z * more <= length + r - 1 /\ z * more \in Nat
  <2>1. PICK l \in Nat : l = length + r - 1
    BY <1>5
  <2>2. l \div z \in Int /\ l % z \in 0 .. z - 1 /\ l = z * (l \div z) + (l % z)
    BY Rest
  <2>3. PICK s \in Nat : s = l % z /\ l = z * more + s
    BY <1>2, <1>4, <2>1, <2>2
  <2>4. z * more \in Nat
    BY <1>3, Products
  <2>. QED
    BY ONLY <2>1, <2>3, <2>4, l \in Nat, s \in Nat
<1>7. ASSUME NEW i \in DOMAIN pages
      PROVE  pages[i] \in Pages /\ \E k \in 0 .. length - 1 : pages[i] = PageOf(address, k)
  <2>1. PICK e \in Nat : e = i - 1 /\ e <= more /\ q + i - 1 = q + e
    BY <1>3
  <2>2. pages[i] = (q + e) % NPages
    BY <1>3, <2>1
  <2>3. pages[i] \in Pages
    <3>. q + e \in Nat /\ 0 \in 0 .. Zp - 1
      BY <1>4, <1>5
    <3>. QED
      BY <2>2, PageNumber
  <2>4. CASE e = 0
    <3>1. 0 \in 0 .. length - 1 /\ r + 0 = Zp * 0 + r /\ q + 0 = q
      BY <1>4, <1>5
    <3>2. PageOf(address, 0) = (q + 0) % NPages
      BY <1>1, <3>1, PageOfIs
    <3>. QED
      BY <2>2, <2>3, <2>4, <3>1, <3>2
  <2>5. CASE e # 0
    <3>1. PICK t \in Nat : t = z * e /\ z <= t /\ t <= length + r - 1
      <4>1. z * e <= z * more /\ z * e \in Nat /\ z <= z * e
        <5>1. z * e \in Nat /\ z <= z * e
          BY <2>5, Products
        <5>2. CASE e = more
          BY <1>6, <5>1, <5>2
        <5>3. CASE e < more
          <6>. z * e + z <= z * more
            BY <1>3, <5>3, ProductsApart
          <6>. QED
            BY <1>6, <5>1
        <5>. QED
          BY <1>3, <2>1, <5>2, <5>3
      <4>. QED
        BY ONLY <1>5, <1>6, <4>1, length \in Nat
    <3>2. PICK k \in 0 .. length - 1 : k = t - r
      BY <1>5, <3>1
    <3>3. r + k = Zp * e + 0 /\ k \in Nat /\ 0 \in 0 .. Zp - 1
      <4>. PICK u \in Nat : u = Zp * e /\ u = t
        BY <1>4, <3>1
      <4>. QED
        BY <1>4, <1>5, <3>1, <3>2
    <3>4. PageOf(address, k) = (q + e) % NPages
      BY <1>1, <3>3, PageOfIs
    <3>. QED
      BY <2>2, <2>3, <3>4
  <2>. QED
    BY <2>4, <2>5
<1>8. ASSUME NEW k \in 0 .. length - 1
      PROVE  \E i \in DOMAIN pages : pages[i] = PageOf(address, k)
  <2>1. PICK l \in Nat : l = r + k
    BY <1>5
  <2>2. PICK e \in Nat, c \in 0 .. z - 1 : e = l \div z /\ l = z * e + c
    <3>1. l \div z \in 0 .. l
      BY QuotientAtMost
    <3>2. l % z \in 0 .. z - 1 /\ l = z * (l \div z) + (l % z)
      BY Rest
    <3>. QED
      BY <3>1, <3>2
  <2>3. PageOf(address, k) = (q + e) % NPages
    <3>. c \in 0 .. Zp - 1 /\ r + k = Zp * e + c /\ k \in Nat
      BY <1>4, <2>1, <2>2
    <3>. QED
      BY <1>1, PageOfIs
  <2>4. ~(more < e)
    <3>. SUFFICES ASSUME more < e PROVE FALSE
      OBVIOUS
    <3>1. z * more + z <= z * e /\ z * e \in Int
      BY <1>3, ProductsApart
    <3>2. PICK s \in Nat : length + r - 1 = z * more + s /\ s < z
      <4>1. PICK g \in Nat : g = length + r - 1
        BY <1>5
      <4>2. g \div z \in Int /\ g % z \in 0 .. z - 1 /\ g = z * (g \div z) + (g % z)
        BY Rest
      <4>. QED
        BY <1>2, <1>4, <4>1, <4>2
    <3>. QED
      BY ONLY <1>5, <1>6, <2>1, <2>2, <3>1, <3>2, k \in 0 .. length - 1, length \in Nat, l \in Nat,
              c \in 0 .. z - 1, z \in Nat, s \in Nat
  <2>5. e + 1 \in DOMAIN pages /\ q + (e + 1) - 1 = q + e
    BY <1>3, <2>4
  <2>6. pages[e + 1] = (q + e) % NPages
    BY <1>3, <2>5
  <2>. QED
    BY <2>3, <2>5, <2>6
<1>. QED
  BY SMTT(20), <1>2, <1>3, <1>7, <1>8

(* An access of length bytes and the pages it touches.                     *)
Allowed(rights, acl, address, length) ==
  \A k \in 0 .. length - 1 : acl[PageOf(address, k)] \in rights
Forbidden(rights, acl, address, length, v) ==
  \E k \in 0 .. length - 1 : v = Zp * PageOf(address, k) /\ acl[PageOf(address, k)] \notin rights

Wrong(rights, acl, address, length) ==
  {i \in DOMAIN PagesInRange(address, length) : Right(acl, PagesInRange(address, length)[i]) \notin rights}

LEMMA WrongPages ==
  ASSUME NEW address \in Addresses, NEW length \in Nat \ {0}, NEW acl, DOMAIN acl = Pages, NEW rights,
         NEW wrong, wrong = Wrong(rights, acl, address, length)
  PROVE  /\ wrong = {} => Allowed(rights, acl, address, length)
         /\ wrong # {} =>
              \A i : i = (CHOOSE g \in wrong : \A j \in wrong : g <= j) =>
                /\ Zp * PagesInRange(address, length)[i] \in Nat
                /\ Forbidden(rights, acl, address, length, Zp * PagesInRange(address, length)[i])
<1>. DEFINE pages == PagesInRange(address, length)
<1>1. /\ DOMAIN pages \in SUBSET Nat
      /\ \A i \in DOMAIN pages : pages[i] \in Pages /\ \E k \in 0 .. length - 1 : pages[i] = PageOf(address, k)
      /\ \A k \in 0 .. length - 1 : \E i \in DOMAIN pages : pages[i] = PageOf(address, k)
  BY PagesTouched
<1>2. wrong = {i \in DOMAIN pages : Right(acl, pages[i]) \notin rights}
  BY DEF Wrong
<1>. HIDE DEF pages
<1>3. \A i \in DOMAIN pages : Right(acl, pages[i]) = acl[pages[i]]
  BY <1>1 DEF Right
<1>4. ASSUME wrong = {} PROVE Allowed(rights, acl, address, length)
  <2>. SUFFICES ASSUME NEW k \in 0 .. length - 1 PROVE acl[PageOf(address, k)] \in rights
    BY DEF Allowed
  <2>1. PICK i \in DOMAIN pages : pages[i] = PageOf(address, k)
    BY <1>1
  <2>2. i \notin wrong
    BY <1>4
  <2>. QED
    BY <1>2, <1>3, <2>1, <2>2
<1>5. ASSUME wrong # {}
      PROVE  \A i : i = (CHOOSE g \in wrong : \A j \in wrong : g <= j) =>
               Zp * pages[i] \in Nat /\ Forbidden(rights, acl, address, length, Zp * pages[i])
  <2>1. wrong \in SUBSET Nat
    BY <1>1, <1>2
  <2>2. \E i \in wrong : \A j \in wrong : i <= j
    BY <1>5, <2>1, LeastElement
  <2>3. PICK i : i = CHOOSE g \in wrong : \A j \in wrong : g <= j
    OBVIOUS
  <2>4. i \in wrong
    BY <2>2, <2>3
  <2>5. i \in DOMAIN pages /\ acl[pages[i]] \notin rights
    BY <1>2, <1>3, <2>4
  <2>6. PICK k \in 0 .. length - 1 : pages[i] = PageOf(address, k)
    BY <1>1, <2>5
  <2>7. Forbidden(rights, acl, address, length, Zp * pages[i])
    BY <2>5, <2>6 DEF Forbidden
  <2>8. Zp * pages[i] \in Nat
    <3>1. PICK x \in Nat : x = pages[i]
      BY <1>1, <2>5, PagesDivide DEF Pages
    <3>2. PICK z \in Nat : z = Zp
      BY PagesDivide
    <3>3. z * x \in Nat
      BY Products
    <3>. QED
      BY <3>1, <3>2, <3>3
  <2>. QED
    BY <2>3, <2>7, <2>8
<1>. QED
  BY <1>4, <1>5 DEF pages

LEMMA FirstWithoutIs ==
  ASSUME NEW address \in Addresses, NEW length \in Nat \ {0}, NEW acl, DOMAIN acl = Pages, NEW rights,
         NEW v, v = FirstWithout(rights, acl, address, length)
  PROVE  \/ v = None /\ Allowed(rights, acl, address, length)
         \/ v # None /\ v \in Nat /\ Forbidden(rights, acl, address, length, v)
<1>1. PICK wrong : wrong = Wrong(rights, acl, address, length)
  OBVIOUS
<1>2. CASE wrong = {}
  <2>1. v = None
    BY <1>1, <1>2 DEF FirstWithout, Wrong
  <2>. QED
    BY <1>1, <1>2, <2>1, WrongPages
<1>3. CASE wrong # {}
  <2>1. PICK i : i = CHOOSE g \in wrong : \A j \in wrong : g <= j
    OBVIOUS
  <2>2. v = Zp * PagesInRange(address, length)[i]
    BY <1>1, <1>3, <2>1 DEF FirstWithout, Wrong
  <2>3. v \in Nat /\ Forbidden(rights, acl, address, length, v)
    BY <1>1, <1>3, <2>1, <2>2, WrongPages
  <2>. QED
    BY <2>3 DEF None
<1>. QED
  BY <1>2, <1>3

LEMMA FirstAbsentIs ==
  ASSUME NEW address \in Addresses, NEW length \in Nat \ {0}, NEW acl, DOMAIN acl = Pages, NEW rights,
         NEW v, v = FirstAbsent(acl, address, length, rights)
  PROVE  \/ v = u32(address + length) /\ Allowed(rights, acl, address, length)
         \/ v \in Nat /\ Forbidden(rights, acl, address, length, v)
<1>1. PICK wrong : wrong = Wrong(rights, acl, address, length)
  OBVIOUS
<1>2. CASE wrong = {}
  <2>1. v = u32(address + length)
    BY <1>1, <1>2 DEF FirstAbsent, Wrong
  <2>. QED
    BY <1>1, <1>2, <2>1, WrongPages
<1>3. CASE wrong # {}
  <2>1. PICK i : i = CHOOSE g \in wrong : \A j \in wrong : g <= j
    OBVIOUS
  <2>2. v = Zp * PagesInRange(address, length)[i]
    BY <1>1, <1>3, <2>1 DEF FirstAbsent, Wrong
  <2>3. v \in Nat /\ Forbidden(rights, acl, address, length, v)
    BY <1>1, <1>3, <2>1, <2>2, WrongPages
  <2>. QED
    BY <2>3
<1>. QED
  BY <1>2, <1>3

(* No store goes beyond the last address.                                  *)
LEMMA NothingBeyond ==
  ASSUME NEW address \in Nat, address >= Pow(4), NEW length \in Nat \ {0}, NEW acl, DOMAIN acl = Pages
  PROVE  ~CanWrite(acl, address, length)
<1>. DEFINE pages == PagesInRange(address, length)
<1>1. PICK z \in Nat \ {0}, n \in Nat \ {0}, w \in Nat \ {0} : z = Zp /\ n = NPages /\ w = Pow(4) /\ w = z * n
  BY PagesDivide
<1>2. PICK q \in Nat : q = address \div z /\ ~(q < n)
  <2>1. address \div z \in 0 .. address
    BY <1>1, QuotientAtMost
  <2>2. PICK q \in Nat : q = address \div z
    BY <2>1
  <2>3. q \in Int /\ address % z \in 0 .. z - 1 /\ address = z * q + (address % z)
    <3>. address \in Int
      OBVIOUS
    <3>. QED
      BY <2>2, Rest
  <2>4. ~(q < n)
    <3>. SUFFICES ASSUME q < n PROVE FALSE
      OBVIOUS
    <3>1. z * q + z <= z * n /\ z * q \in Int
      BY ProductsApart
    <3>2. PICK s \in Nat : s = address % z /\ s < z /\ address = z * q + s
      BY <2>3
    <3>. QED
      BY ONLY <1>1, <3>1, <3>2, address >= Pow(4), address \in Nat, z \in Nat, w \in Nat, s \in Nat
  <2>. QED
    BY <2>2, <2>4
<1>3. q \notin Pages
  BY <1>1, <1>2 DEF Pages
<1>4. PICK f \in Int : f = (length - (Zp - (address % Zp)) + Zp - 1) \div Zp
  <2>1. address % z \in 0 .. z - 1
    <3>. address \in Int
      OBVIOUS
    <3>. QED
      BY Rest
  <2>2. PICK l \in Int : l = length - (z - (address % z)) + z - 1
    BY <2>1
  <2>3. l \div z \in Int
    BY Rest
  <2>. QED
    BY <1>1, <2>2, <2>3
<1>5. PICK more \in Nat : more = IF f > 0 THEN f ELSE 0
  OBVIOUS
<1>6. pages = [i \in 1 .. 1 + more |-> IF i = 1 THEN q ELSE (q + i - 1) % NPages]
  BY <1>1, <1>2, <1>4, <1>5 DEF PagesInRange, NPages
<1>7. DOMAIN pages = 1 .. 1 + more /\ 1 \in DOMAIN pages /\ pages[1] = q
  BY <1>6
<1>8. \A i \in DOMAIN pages : pages[i] \in Nat
  <2>. SUFFICES ASSUME NEW i \in 1 .. 1 + more PROVE (IF i = 1 THEN q ELSE (q + i - 1) % NPages) \in Nat
    BY <1>6
  <2>1. q + i - 1 \in Int
    OBVIOUS
  <2>2. (q + i - 1) % n \in 0 .. n - 1
    BY <2>1, Rest
  <2>. QED
    BY <1>1, <2>2
<1>. HIDE DEF pages
<1>9. PICK wrong : wrong = {i \in DOMAIN pages : Right(acl, pages[i]) \notin {"write"}}
  OBVIOUS
<1>10. 1 \in wrong /\ wrong \in SUBSET Nat /\ wrong # {}
  BY <1>3, <1>7, <1>9 DEF Right
<1>11. PICK i \in wrong : i = CHOOSE g \in wrong : \A j \in wrong : g <= j
  <2>. \E g \in wrong : \A j \in wrong : g <= j
    BY <1>10, LeastElement
  <2>. QED
    OBVIOUS
<1>12. FirstUnwriteable(acl, address, length) = Zp * pages[i]
  BY <1>9, <1>10, <1>11 DEF FirstUnwriteable, FirstWithout, pages
<1>13. PICK x \in Nat : x = pages[i]
  <2>1. i \in DOMAIN pages
    BY <1>9
  <2>2. pages[i] \in Nat
    BY <1>8, <2>1
  <2>. QED
    BY <2>2
<1>14. z * x \in Nat
  BY Products
<1>. QED
  BY <1>1, <1>12, <1>13, <1>14 DEF CanWrite, None

(* A memory that a program may start with or have reached.                 *)
MemoryIsSound(m) ==
  /\ DOMAIN m.acl = Pages
  /\ m.mem \in [Addresses -> Byte]

LEMMA BytesMovedAre ==
  ASSUME NEW op \in Loads \cup Stores
  PROVE  BytesMoved(op) \in {1, 2, 4, 8}
BY DEF BytesMoved, Loads, Stores

LEMMA AddressIs ==
  ASSUME NEW a \in Int
  PROVE  a % Pow(4) \in Addresses
BY WordBits, Rest DEF Addresses

LEMMA ReadIntoWidth ==
  ASSUME NEW mem \in [Addresses -> Byte], NEW address \in Int, NEW n \in {1, 2, 4, 8}
  PROVE  ReadInto(mem, address, n) \in Width(n) /\ ReadInto(mem, address, n) \in Register
<1>. DEFINE b == [i \in 1 .. n |-> mem[(address + i - 1) % Pow(4)]]
<1>1. n \in Nat /\ n <= 8
  OBVIOUS
<1>2. b \in [1 .. n -> Byte]
  <2>. SUFFICES ASSUME NEW i \in 1 .. n PROVE mem[(address + i - 1) % Pow(4)] \in Byte
    OBVIOUS
  <2>. address + i - 1 \in Int
    OBVIOUS
  <2>. (address + i - 1) % Pow(4) \in Addresses
    BY AddressIs
  <2>. QED
    OBVIOUS
<1>. HIDE DEF b
<1>3. b \in Seq(Byte)
  BY <1>1, <1>2, SeqDef
<1>4. Len(b) = n
  <2>1. DOMAIN b = 1 .. n /\ DOMAIN b = 1 .. Len(b) /\ Len(b) \in Nat
    BY ONLY <1>2, <1>3, LenProperties
  <2>2. PICK l \in Nat : l = Len(b)
    BY <2>1
  <2>3. l = n
    BY ONLY <2>1, <2>2, n \in Nat, l \in Nat
  <2>. QED
    BY <2>2, <2>3
<1>5. ReadInto(mem, address, n) \in Width(n)
  BY <1>3, <1>4, ReadLEWidth DEF ReadInto, b
<1>6. Pow(n) <= Pow(8) /\ Pow(n) \in Nat /\ Pow(8) \in Nat
  BY <1>1, PowIs, PowGrows
<1>. QED
  BY <1>5, <1>6 DEF Width, Register

LEMMA WrittenBytes ==
  ASSUME NEW mem \in [Addresses -> Byte], NEW address \in Int, NEW n, NEW value \in Int, NEW x \in Addresses
  PROVE  /\ WriteAt(mem, address, n, value) \in [Addresses -> Byte]
         /\ WriteAt(mem, address, n, value)[x] # mem[x] => (x - address) % Pow(4) < n
<1>1. ASSUME NEW a \in Addresses
      PROVE  ByteOf(value, (a - address) % Pow(4)) \in Byte
  <2>1. a - address \in Int
    BY WordBits DEF Addresses
  <2>2. (a - address) % Pow(4) \in Addresses
    BY <2>1, AddressIs
  <2>3. PICK i \in Nat : i = (a - address) % Pow(4)
    BY <2>2, WordBits DEF Addresses
  <2>. QED
    BY <2>3, ByteOfIs
<1>. QED
  BY <1>1 DEF WriteAt

(* A load: what it reads goes to its register, or the run ends.            *)
LEMMA LoadAtIs ==
  ASSUME NEW m, IsMachine(m), NEW address, NEW length, NEW r \in RegisterNumbers, NEW value,
         NEW n, n = LoadAt(m, address, length, r, value)
  PROVE  \/ /\ But(n, m, {"w"})
            /\ n.w = [m.w EXCEPT ![r] = value]
         \/ But(n, m, {"exit"}) /\ n.exit.why \in {"panic", "pageFault"}
<1>1. CASE CanRead(m.acl, address, length)
  <2>1. n = [m EXCEPT !.w[r] = value]
    BY <1>1 DEF LoadAt
  <2>. QED
    BY <2>1, ButRegister
<1>2. CASE ~CanRead(m.acl, address, length)
  <2>1. PICK location : n = HandleMemoryFault(m, location)
    BY <1>2 DEF LoadAt
  <2>2. PICK exit : n = Leave(m, exit) /\ exit.why \in {"panic", "pageFault"}
    <3>1. CASE location < Pow(2)
      BY <2>1, <3>1 DEF HandleMemoryFault, Panic, Exit
    <3>2. CASE ~(location < Pow(2))
      BY <2>1, <3>2 DEF HandleMemoryFault, Exit
    <3>. QED
      BY <3>1, <3>2
  <2>. QED
    BY <2>2, LeaveIs
<1>. QED
  BY <1>1, <1>2

LEMMA StoreSafeIs ==
  ASSUME NEW m, IsMachine(m), NEW address, NEW length, NEW value,
         NEW n, n = StoreSafe(m, address, length, value)
  PROVE  \/ /\ But(n, m, {"mem"}) /\ CanWrite(m.acl, address, length)
            /\ n.mem = WriteAt(m.mem, address, length, value)
         \/ /\ But(n, m, {"exit"}) /\ ~CanWrite(m.acl, address, length)
            /\ n.exit = Exit("pageFault", FirstUnwriteable(m.acl, address, length))
<1>1. CASE CanWrite(m.acl, address, length)
  <2>1. n = [m EXCEPT !.mem = WriteAt(@, address, length, value)]
    BY <1>1 DEF StoreSafe
  <2>2. n = [m EXCEPT !.mem = WriteAt(m.mem, address, length, value)]
    BY <2>1
  <2>. QED
    BY <1>1, <2>2, ButMem
<1>2. CASE ~CanWrite(m.acl, address, length)
  <2>1. n = Leave(m, Exit("pageFault", FirstUnwriteable(m.acl, address, length)))
    BY <1>2 DEF StoreSafe
  <2>. QED
    BY <1>2, <2>1, LeaveIs
<1>. QED
  BY <1>1, <1>2

(* Registers hold words, and memory bytes.                                 *)
WordsAreSound(m) ==
  /\ \A r \in RegisterNumbers : m.w[r] \in Register
  /\ MemoryIsSound(m)

LEMMA SignedRead ==
  ASSUME NEW k \in {1, 2, 4}, NEW x \in Width(k)
  PROVE  X_fn(k, x) \in Register /\ Z_inv(8, Z(k, x)) \in Register
<1>1. k \in 1 .. 8 /\ k \in Nat
  OBVIOUS
<1>2. X_fn(k, x) \in Register
  BY <1>1, X_fnIs
<1>3. x \in Int
  BY <1>1, PowIs DEF Width
<1>4. Z(k, x) \in Int
  BY <1>1, <1>3, ZIs
<1>. QED
  BY <1>2, <1>4, Z_invWidth

LEMMA EvaluateLoadIs ==
  ASSUME NEW m, IsMachine(m), NEW o, OperandsFit(o), NEW op \in Loads, NEW n, n = EvaluateMemory(op, m, o)
  PROVE  \/ /\ But(n, m, {"w"})
            /\ \E value : /\ n.w = [m.w EXCEPT ![o.rA] = value]
                          /\ WordsAreSound(m) => value \in Register
         \/ But(n, m, {"exit"}) /\ n.exit.why \in {"panic", "pageFault"}
<1>1. o.rA \in RegisterNumbers /\ o.rB \in RegisterNumbers /\ o.vX \in Int
  BY RegisterIs DEF OperandsFit
<1>2. PICK k \in {1, 2, 4, 8} : k = BytesMoved(op)
  BY BytesMovedAre
<1>3. CASE op \in 52 .. 58
  <2>1. PICK address : address = o.vX % Pow(4)
    OBVIOUS
  <2>2. PICK value : value = IF op \in {53, 55, 57} THEN X_fn(k, ReadInto(m.mem, address, k))
                             ELSE ReadInto(m.mem, address, k)
    OBVIOUS
  <2>3. n = LoadAt(m, address, k, o.rA, value)
    <3>1. n = LoadImm(op, m, o)
      BY <1>3 DEF EvaluateMemory
    <3>. QED
      BY <1>2, <2>1, <2>2, <3>1 DEF LoadImm
  <2>4. ASSUME WordsAreSound(m) PROVE value \in Register
    <3>1. address \in Int
      BY <1>1, <2>1, RestWidth
    <3>2. ReadInto(m.mem, address, k) \in Width(k) /\ ReadInto(m.mem, address, k) \in Register
      BY <2>4, <3>1, ReadIntoWidth DEF WordsAreSound, MemoryIsSound
    <3>3. op \in {53, 55, 57} => k \in {1, 2, 4}
      BY <1>2 DEF BytesMoved
    <3>. QED
      BY <2>2, <3>2, <3>3, SignedRead
  <2>5. \/ But(n, m, {"w"}) /\ n.w = [m.w EXCEPT ![o.rA] = value]
        \/ But(n, m, {"exit"}) /\ n.exit.why \in {"panic", "pageFault"}
    BY <1>1, <2>3, LoadAtIs
  <2>. QED
    BY <2>4, <2>5
<1>4. CASE op \in 124 .. 130
  <2>1. PICK address : address = (m.w[o.rB] + o.vX) % Pow(4)
    OBVIOUS
  <2>2. PICK value : value = IF op \in {125, 127, 129} THEN Z_inv(8, Z(k, ReadInto(m.mem, address, k)))
                             ELSE ReadInto(m.mem, address, k)
    OBVIOUS
  <2>3. n = LoadAt(m, address, k, o.rA, value)
    <3>1. n = LoadInd(op, m, o)
      BY <1>4 DEF EvaluateMemory
    <3>. QED
      BY <1>2, <2>1, <2>2, <3>1 DEF LoadInd
  <2>4. ASSUME WordsAreSound(m) PROVE value \in Register
    <3>1. address \in Int
      <4>1. m.w[o.rB] \in Int
        BY <1>1, <2>4, RegisterIs DEF WordsAreSound
      <4>2. m.w[o.rB] + o.vX \in Int
        BY <1>1, <4>1
      <4>. QED
        BY <2>1, <4>2, RestWidth
    <3>2. ReadInto(m.mem, address, k) \in Width(k) /\ ReadInto(m.mem, address, k) \in Register
      BY <2>4, <3>1, ReadIntoWidth DEF WordsAreSound, MemoryIsSound
    <3>3. op \in {125, 127, 129} => k \in {1, 2, 4}
      BY <1>2 DEF BytesMoved
    <3>. QED
      BY <2>2, <3>2, <3>3, SignedRead
  <2>5. \/ But(n, m, {"w"}) /\ n.w = [m.w EXCEPT ![o.rA] = value]
        \/ But(n, m, {"exit"}) /\ n.exit.why \in {"panic", "pageFault"}
    BY <1>1, <2>3, LoadAtIs
  <2>. QED
    BY <2>4, <2>5
<1>. QED
  BY <1>3, <1>4 DEF Loads

(* Where a store writes: at the sum of a register and an immediate, but    *)
(* for the stores of an immediate at a fixed address.                      *)
Base(op, m, o) ==
  CASE op \in 70 .. 73 -> m.w[o.rA]
    [] op \in 120 .. 130 -> m.w[o.rB]
    [] OTHER -> 0

LEMMA EvaluateStoreIs ==
  ASSUME NEW m, IsMachine(m), NEW o, OperandsFit(o), NEW op \in Stores, NEW n, n = EvaluateMemory(op, m, o)
  PROVE  \E location, value :
            /\ n = StoreSafe(m, location, BytesMoved(op), value)
            /\ op \in 30 .. 33 => location = Float(o.vX)
            /\ op \notin 30 .. 33 => location = (Base(op, m, o) + o.vX) % Pow(4)
            /\ WordsAreSound(m) => value \in Int
<1>1. o.rA \in RegisterNumbers /\ o.rB \in RegisterNumbers /\ o.vX \in Int /\ o.vY \in Int /\ 0 + o.vX = o.vX
  BY RegisterIs DEF OperandsFit
<1>2. PICK k \in {1, 2, 4, 8} : k = BytesMoved(op)
  BY BytesMovedAre
<1>3. Pow(k) \in Nat \ {0} /\ Pow(1) - 1 \in Nat \ {0}
  <2>1. k \in Nat /\ 1 \in Nat
    OBVIOUS
  <2>2. Pow(k) \in Nat \ {0} /\ Pow(1) \in Nat \ {0} /\ 1 < Pow(1)
    BY <2>1, PowIs
  <2>. QED
    BY <2>2
<1>4. WordsAreSound(m) => m.w[o.rA] \in Int
  BY <1>1, RegisterIs DEF WordsAreSound
<1>5. ASSUME NEW a \in Int, NEW b \in Nat \ {0} PROVE a % b \in Int
  <2>. a % b \in 0 .. b - 1
    BY Rest
  <2>. QED
    OBVIOUS
<1>6. CASE op \in 30 .. 33
  <2>1. n = StoreSafe(m, Float(o.vX), BytesMoved(op), o.vY % Pow(BytesMoved(op)))
    BY <1>6 DEF EvaluateMemory, StoreImm
  <2>. QED
    BY <1>1, <1>2, <1>3, <1>5, <1>6, <2>1
<1>7. CASE op \in 59 .. 62
  <2>1. n = StoreSafe(m, o.vX % Pow(4), BytesMoved(op), m.w[o.rA] % Pow(BytesMoved(op)))
    BY <1>7 DEF EvaluateMemory, StoreReg
  <2>2. (Base(op, m, o) + o.vX) % Pow(4) = o.vX % Pow(4)
    BY <1>1, <1>7 DEF Base
  <2>. QED
    BY <1>2, <1>4, <1>3, <1>5, <1>7, <2>1, <2>2
<1>8. CASE op \in 70 .. 73
  <2>1. PICK value : value = o.vY % (IF op = 70 THEN Pow(1) - 1 ELSE Pow(BytesMoved(op)))
    OBVIOUS
  <2>2. n = StoreSafe(m, (m.w[o.rA] + o.vX) % Pow(4), BytesMoved(op), value)
    BY <1>8, <2>1 DEF EvaluateMemory, StoreImmInd
  <2>3. Base(op, m, o) = m.w[o.rA]
    BY <1>8 DEF Base
  <2>4. value \in Int
    BY <1>1, <1>2, <1>3, <1>5, <2>1
  <2>. QED
    BY <1>8, <2>2, <2>3, <2>4
<1>9. CASE op \in 120 .. 123
  <2>1. n = StoreSafe(m, (m.w[o.rB] + o.vX) % Pow(4), BytesMoved(op), m.w[o.rA] % Pow(BytesMoved(op)))
    BY <1>9 DEF EvaluateMemory, StoreInd
  <2>3. Base(op, m, o) = m.w[o.rB]
    BY <1>9 DEF Base
  <2>. QED
    BY <1>2, <1>4, <1>3, <1>5, <1>9, <2>1, <2>3
<1>. QED
  BY <1>6, <1>7, <1>8, <1>9 DEF Stores

\* The pages a size takes from a heap.
PagesTaken(pointer, end, size) == IF pointer + size >= end THEN (size + Zp - 1) \div Zp ELSE 0

(* The pages sbrk takes for cnt more.                                      *)
TakenPages(m, cnt) == {page \in Pages : page \in m.heap.end \div Zp .. (m.heap.end \div Zp) + cnt - 1}

Taken(n, m, new) ==
  /\ n.acl = [page \in Pages |-> IF page \in new THEN "write" ELSE m.acl[page]]
  /\ n.mem = [a \in Addresses |-> IF a \div Zp \in new THEN 0 ELSE m.mem[a]]

(* sbrk takes pages at the end of the heap, and the old pointer goes to a  *)
(* register.                                                               *)
LEMMA SbrkIs ==
  ASSUME NEW m, IsMachine(m), NEW size, NEW n, n = Sbrk(m, size)
  PROVE  /\ But(n, m, {"acl", "mem", "heap"})
         /\ Taken(n, m, TakenPages(m, PagesTaken(m.heap.pointer, m.heap.end, size)))
         /\ n.heap = [end |-> m.heap.end + PagesTaken(m.heap.pointer, m.heap.end, size) * Zp,
                      pointer |-> m.heap.pointer + size]
<1>1. PICK cnt : cnt = PagesTaken(m.heap.pointer, m.heap.end, size)
  OBVIOUS
<1>2. PICK new : new = TakenPages(m, cnt)
  OBVIOUS
<1>3. PICK acl : acl = [p \in Pages |-> IF p \in new THEN "write" ELSE m.acl[p]]
  OBVIOUS
<1>4. PICK mem : mem = [a \in Addresses |-> IF a \div Zp \in new THEN 0 ELSE m.mem[a]]
  OBVIOUS
<1>5. PICK heap : heap = [end |-> m.heap.end + cnt * Zp, pointer |-> m.heap.pointer + size]
  OBVIOUS
<1>6. n = [m EXCEPT !.acl = acl, !.mem = mem, !.heap = heap]
  BY <1>1, <1>2, <1>3, <1>4, <1>5, Zenon DEF Sbrk, PagesTaken, TakenPages
<1>7. But(n, m, {"acl", "mem", "heap"}) /\ n.acl = acl /\ n.mem = mem /\ n.heap = heap
  BY ONLY <1>6, IsMachine(m) DEF But, IsMachine, Parts
<1>8. Taken(n, m, new)
  BY <1>3, <1>4, <1>7 DEF Taken
<1>. QED
  BY <1>1, <1>2, <1>5, <1>7, <1>8

LEMMA SbrkJsIs ==
  ASSUME NEW m, IsMachine(m), NEW o, OperandsFit(o), NEW n, n = EvaluateMemory(101, m, o)
  PROVE  \E s :
            /\ s = m \/ s = Sbrk(m, Float(m.w[o.rA]))
            /\ But(s, m, {"acl", "mem", "heap"})
            /\ But(n, s, {"w"})
            /\ n.w = [m.w EXCEPT ![o.rD] = m.heap.pointer]
<1>1. PICK size : size = Float(m.w[o.rA])
  OBVIOUS
<1>2. PICK s : s = IF size = 0 THEN m ELSE Sbrk(m, size)
  OBVIOUS
<1>3. n = SbrkJs(m, o)
  BY DEF EvaluateMemory
<1>4. n = [s EXCEPT !.w[o.rD] = m.heap.pointer]
  BY <1>1, <1>2, <1>3 DEF SbrkJs
<1>5. (s = m \/ s = Sbrk(m, Float(m.w[o.rA]))) /\ But(s, m, {"acl", "mem", "heap"})
  <2>1. But(m, m, {"acl", "mem", "heap"})
    BY DEF But
  <2>2. But(Sbrk(m, size), m, {"acl", "mem", "heap"})
    BY SbrkIs
  <2>. QED
    BY <1>1, <1>2, <2>1, <2>2
<1>6. IsMachine(s) /\ s.w = m.w
  BY <1>5, ButParts DEF But
<1>7. But(n, s, {"w"}) /\ n.w = [s.w EXCEPT ![o.rD] = m.heap.pointer]
  <2>1. o.rD \in RegisterNumbers
    BY DEF OperandsFit
  <2>2. PICK p : p = m.heap.pointer
    OBVIOUS
  <2>3. n = [s EXCEPT !.w[o.rD] = p]
    BY <1>4, <2>2
  <2>4. But(n, s, {"w"}) /\ n.w = [s.w EXCEPT ![o.rD] = p]
    BY ONLY <1>6, <2>1, <2>3, ButRegister
  <2>. QED
    BY <2>2, <2>4
<1>. QED
  BY <1>5, <1>6, <1>7

-----------------------------------------------------------------------------
(***************************************************************************)
(* A turn of the first interpreter.                                        *)
(***************************************************************************)

(* The operands and the length of the instruction at the pointer of m.     *)
Decoded(m, p, o, skip) ==
  /\ m.pc \in Positions(p)
  /\ p.k[m.pc] = 1
  /\ DecoderOf(p.c[m.pc]) # "unknown"
  /\ skip = NextOpcode(p, m.pc) - m.pc
  /\ o = Operands(DecoderOf(p.c[m.pc]), ArgsAt(p, m.pc, skip))
  /\ OperandsFit(o)

(* The machine ends the run before it executes anything.                   *)
Stopped(n, m, p) ==
  /\ But(n, m, {"pc", "gas", "exit"})
  /\ n.pc \in {m.pc, NextOpcode(p, m.pc)}
  /\ n.exit.why \in {"outOfGas", "panic", "crash", "abort"}

LEMMA Skipped ==
  ASSUME NEW p, IsProgram(p), NEW pc \in Positions(p), NEW skip, skip = NextOpcode(p, pc) - pc
  PROVE  pc + skip = NextOpcode(p, pc) /\ skip \in Nat \ {0} /\ pc \in Nat
<1>1. p.len \in Nat /\ pc \in Nat /\ NextOpcode(p, pc) \in pc + 1 .. p.len
  BY ProgramIs, NextOpcodeIs DEF Positions
<1>2. PICK next \in Nat : next = NextOpcode(p, pc) /\ next > pc
  BY <1>1
<1>. QED
  BY <1>1, <1>2

LEMMA LeaveThen ==
  ASSUME NEW m, IsMachine(m), NEW exit, NEW pc, NEW gas,
         NEW n, n = [Leave(m, exit) EXCEPT !.pc = pc, !.gas = gas]
  PROVE  But(n, m, {"pc", "gas", "exit"}) /\ n.pc = pc /\ n.gas = gas /\ n.exit = exit
BY DEF But, IsMachine, Parts, Leave

\* An instruction begins at pc.
AtInstruction(p, pc) == pc \in Positions(p) /\ p.k[pc] = 1 /\ DecoderOf(p.c[pc]) # "unknown"

\* The bytes that belong to the instruction at pc.
ArgumentsOf(p, pc) == ArgsAt(p, pc, NextOpcode(p, pc) - pc)

(* The four outcomes of a turn of the loop.                                *)
StepCases(n, m, p) ==
  \/ m.gas <= 0 /\ n = Leave(m, Exit("outOfGas", 0))
  \/ /\ ~(m.gas <= 0) /\ ~AtInstruction(p, m.pc)
     /\ n = [Leave(m, Panic) EXCEPT !.gas = @ - 1]
  \/ /\ ~(m.gas <= 0) /\ AtInstruction(p, m.pc)
     /\ \/ /\ Undecodable(DecoderOf(p.c[m.pc]), ArgumentsOf(p, m.pc))
           /\ n = [Leave(m, Panic) EXCEPT !.pc = @ + (NextOpcode(p, m.pc) - m.pc), !.gas = @ - 2]
        \/ /\ Crashes(DecoderOf(p.c[m.pc]), ArgumentsOf(p, m.pc))
           /\ n = Leave(m, Exit("crash", 0))
  \/ /\ ~(m.gas <= 0)
     /\ \E o, skip :
          /\ Decoded(m, p, o, skip)
          /\ n = HydratedEvaluate(p.c[m.pc], m, o, p, IxPointerCache(p), skip)

LEMMA SingleStepCases ==
  ASSUME NEW p, IsProgram(p), NEW m, IsMachine(m), NEW n, n = SingleStep(m, p, IxPointerCache(p))
  PROVE  StepCases(n, m, p)
<1>. DEFINE cache == IxPointerCache(p)
<1>1. CASE m.gas <= 0
  <2>1. n = Leave(m, Exit("outOfGas", 0))
    BY <1>1 DEF SingleStep
  <2>. QED
    BY <1>1, <2>1 DEF StepCases
<1>2. CASE ~(m.gas <= 0) /\ (m.pc \notin DOMAIN cache \/ DecoderOf(p.c[m.pc]) = "unknown")
  <2>1. n = [Leave(m, Panic) EXCEPT !.gas = @ - 1]
    BY <1>2 DEF SingleStep
  <2>2. ~AtInstruction(p, m.pc)
    BY <1>2, CacheIs DEF AtInstruction
  <2>. QED
    BY <1>2, <2>1, <2>2 DEF StepCases
<1>3. CASE ~(m.gas <= 0) /\ m.pc \in DOMAIN cache /\ DecoderOf(p.c[m.pc]) # "unknown"
  <2>1. PICK skip, op, decoder, args :
            /\ skip = cache[m.pc].skip + 1 /\ op = cache[m.pc].opCode
            /\ decoder = DecoderOf(op) /\ args = ArgsAt(p, m.pc, skip)
    OBVIOUS
  <2>2. n = IF Undecodable(decoder, args)
             THEN [Leave(m, Panic) EXCEPT !.pc = @ + skip, !.gas = @ - 2]
             ELSE IF Crashes(decoder, args) THEN Leave(m, Exit("crash", 0))
             ELSE HydratedEvaluate(op, m, Operands(decoder, args), p, cache, skip)
    <3>. HIDE DEF cache
    <3>1. ~(m.pc \notin DOMAIN cache \/ DecoderOf(p.c[m.pc]) = "unknown")
      BY <1>3
    <3>2. n = SingleStep(m, p, cache)
      BY DEF cache
    <3>. QED
      BY <1>3, <2>1, <3>1, <3>2, Zenon DEF SingleStep
  <2>3. /\ m.pc \in Positions(p) /\ p.k[m.pc] = 1
        /\ op = p.c[m.pc] /\ skip = NextOpcode(p, m.pc) - m.pc
    <3>1. PICK pc \in DOMAIN IxPointerCache(p) : pc = m.pc
      BY <1>3
    <3>2. pc \in Positions(p) /\ p.k[pc] = 1
      BY CacheIs
    <3>3. IxPointerCache(p)[pc].opCode = p.c[pc] /\ IxPointerCache(p)[pc].skip + 1 = NextOpcode(p, pc) - pc
      BY CacheIs
    <3>. QED
      BY <2>1, <3>1, <3>2, <3>3
  <2>4. AtInstruction(p, m.pc) /\ decoder = DecoderOf(p.c[m.pc]) /\ args = ArgumentsOf(p, m.pc)
    BY <1>3, <2>1, <2>3 DEF AtInstruction, ArgumentsOf
  <2>. HIDE DEF cache
  <2>5. CASE Undecodable(decoder, args)
    <3>1. n = [Leave(m, Panic) EXCEPT !.pc = @ + skip, !.gas = @ - 2]
      BY <2>2, <2>5
    <3>. QED
      BY <1>3, <2>3, <2>4, <2>5, <3>1 DEF StepCases
  <2>6. CASE ~Undecodable(decoder, args) /\ Crashes(decoder, args)
    <3>1. n = Leave(m, Exit("crash", 0))
      BY <2>2, <2>6
    <3>. QED
      BY <1>3, <2>4, <2>6, <3>1 DEF StepCases
  <2>7. CASE ~Undecodable(decoder, args) /\ ~Crashes(decoder, args)
    <3>1. PICK o : o = Operands(decoder, args)
      OBVIOUS
    <3>2. n = HydratedEvaluate(op, m, o, p, cache, skip)
      BY <2>2, <2>7, <3>1
    <3>3. OperandsFit(o)
      <4>1. args = ArgsAt(p, m.pc, NextOpcode(p, m.pc) - m.pc)
        BY <2>1, <2>3
      <4>2. args \in Seq(Nat)
        BY <2>3, <4>1, ArgumentsAre
      <4>3. decoder \in Decoders
        <5>1. p.c[m.pc] \in Nat
          BY <2>3, ProgramIs
        <5>. QED
          BY <1>3, <2>1, <2>3, <5>1, DecodersAre
      <4>4. Readable(decoder, args)
        BY <2>7, <4>2, <4>3, ReadableJs
      <4>. QED
        BY <1>3, <2>1, <2>3, <3>1, <4>1, <4>4, DecodedOperands
    <3>4. Decoded(m, p, o, skip)
      BY <1>3, <2>1, <2>3, <3>1, <3>3 DEF Decoded
    <3>5. n = HydratedEvaluate(p.c[m.pc], m, o, p, IxPointerCache(p), skip)
      BY <2>3, <3>2 DEF cache
    <3>. QED
      BY <1>3, <3>4, <3>5 DEF StepCases
  <2>. QED
    BY <2>5, <2>6, <2>7
<1>. QED
  BY <1>1, <1>2, <1>3

LEMMA SingleStepIs ==
  ASSUME NEW p, IsProgram(p), NEW m, IsMachine(m), NEW n, n = SingleStep(m, p, IxPointerCache(p))
  PROVE  \/ Stopped(n, m, p)
         \/ \E o, skip :
              /\ Decoded(m, p, o, skip)
              /\ n = HydratedEvaluate(p.c[m.pc], m, o, p, IxPointerCache(p), skip)
<1>1. Panic.why = "panic" /\ Exit("outOfGas", 0).why = "outOfGas" /\ Exit("crash", 0).why = "crash"
  BY DEF Panic, Exit
<1>2. ASSUME NEW exit, n = Leave(m, exit), exit.why \in {"outOfGas", "crash"} PROVE Stopped(n, m, p)
  <2>1. But(n, m, {"exit"}) /\ n.exit = exit
    BY <1>2, LeaveIs
  <2>2. n.pc = m.pc /\ But(n, m, {"pc", "gas", "exit"})
    BY <2>1, ButParts DEF But
  <2>. QED
    BY <1>2, <2>1, <2>2 DEF Stopped
<1>3. CASE n = [Leave(m, Panic) EXCEPT !.gas = @ - 1]
  <2>1. But(n, m, {"pc", "gas", "exit"}) /\ n.pc = m.pc /\ n.exit = Panic
    BY <1>3 DEF But, IsMachine, Parts, Leave
  <2>. QED
    BY <1>1, <2>1 DEF Stopped
<1>4. CASE /\ AtInstruction(p, m.pc)
           /\ n = [Leave(m, Panic) EXCEPT !.pc = @ + (NextOpcode(p, m.pc) - m.pc), !.gas = @ - 2]
  <2>1. m.pc + (NextOpcode(p, m.pc) - m.pc) = NextOpcode(p, m.pc)
    BY <1>4, Skipped DEF AtInstruction
  <2>2. n = [Leave(m, Panic) EXCEPT !.pc = NextOpcode(p, m.pc), !.gas = @ - 2]
    BY <1>4, <2>1 DEF Leave, IsMachine, Parts
  <2>3. But(n, m, {"pc", "gas", "exit"}) /\ n.pc = NextOpcode(p, m.pc) /\ n.exit = Panic
    BY <2>2 DEF But, IsMachine, Parts, Leave
  <2>. QED
    BY <1>1, <2>3 DEF Stopped
<1>5. StepCases(n, m, p)
  BY SingleStepCases
<1>6. CASE m.gas <= 0 /\ n = Leave(m, Exit("outOfGas", 0))
  <2>1. PICK exit : exit = Exit("outOfGas", 0)
    OBVIOUS
  <2>. QED
    BY <1>1, <1>2, <1>6, <2>1
<1>7. CASE /\ ~(m.gas <= 0) /\ AtInstruction(p, m.pc)
           /\ n = Leave(m, Exit("crash", 0))
  <2>1. PICK exit : exit = Exit("crash", 0)
    OBVIOUS
  <2>. QED
    BY <1>1, <1>2, <1>7, <2>1
<1>8. CASE \E o, skip :
             /\ Decoded(m, p, o, skip)
             /\ n = HydratedEvaluate(p.c[m.pc], m, o, p, IxPointerCache(p), skip)
  BY <1>8
<1>. QED
  BY <1>3, <1>4, <1>5, <1>6, <1>7, <1>8, Zenon DEF StepCases

MemoryOpcodes == Loads \cup Stores \cup {101}

LEMMA PlainIs ==
  ASSUME NEW p, NEW m, IsMachine(m), NEW o, OperandsFit(o), NEW skip, NEW cache,
         NEW op, op \notin JumpOpcodes, op \notin MemoryOpcodes,
         NEW n, n = Evaluate(op, m, o, p, cache, skip)
  PROVE  But(n, m, {"w"}) /\ n.w = [m.w EXCEPT ![Written(op, o)] = WrittenValue(op, m, o)]
<1>1. PICK r \in RegisterNumbers : r = Written(op, o)
  BY DEF Written, OperandsFit
<1>2. PICK v : v = WrittenValue(op, m, o)
  OBVIOUS
<1>3. n = [m EXCEPT !.w[r] = v]
  BY <1>1, <1>2, Zenon DEF Evaluate, MemoryOpcodes
<1>. QED
  BY <1>1, <1>2, <1>3, ButRegister

LEMMA MemoryIs ==
  ASSUME NEW p, NEW m, NEW o, NEW skip, NEW cache,
         NEW op \in MemoryOpcodes,
         NEW n, n = Evaluate(op, m, o, p, cache, skip)
  PROVE  n = EvaluateMemory(op, m, o) /\ op \notin JumpOpcodes
<1>1. op \notin JumpOpcodes
  BY DEF MemoryOpcodes, Loads, Stores, JumpOpcodes
<1>. QED
  BY <1>1, Zenon DEF Evaluate, MemoryOpcodes

(* Loads and stores change registers or memory, or end the run.            *)
LEMMA EvaluateMemoryIs ==
  ASSUME NEW m, IsMachine(m), NEW o, OperandsFit(o), NEW op \in MemoryOpcodes,
         NEW n, n = EvaluateMemory(op, m, o)
  PROVE  But(n, m, {"w", "acl", "mem", "heap", "exit"})
<1>. SUFFICES \E s \in SUBSET {"w", "acl", "mem", "heap", "exit"} : But(n, m, s)
  BY DEF But
<1>1. CASE op \in Loads
  BY <1>1, EvaluateLoadIs
<1>2. CASE op \in Stores
  <2>1. PICK location, value : n = StoreSafe(m, location, BytesMoved(op), value)
    BY <1>2, EvaluateStoreIs
  <2>. QED
    BY <2>1, StoreSafeIs
<1>3. CASE op = 101
  <2>1. PICK s : But(s, m, {"acl", "mem", "heap"}) /\ But(n, s, {"w"})
    BY <1>3, SbrkJsIs
  <2>2. But(n, m, {"acl", "mem", "heap"} \cup {"w"})
    BY <2>1, ButThen
  <2>. QED
    BY <2>2
<1>. QED
  BY <1>1, <1>2, <1>3 DEF MemoryOpcodes

LEMMA EcalliIs ==
  ASSUME NEW p, NEW m, IsMachine(m), NEW o, NEW skip, NEW cache,
         NEW n, n = Evaluate(10, m, o, p, cache, skip)
  PROVE  But(n, m, {"exit"}) /\ n.exit.why = "hostCall"
<1>1. n = EvaluateJump(10, m, o, p, cache, skip)
  BY DEF Evaluate, JumpOpcodes
<1>2. n = Leave(m, Exit("hostCall", o.vX))
  BY <1>1 DEF EvaluateJump
<1>. QED
  BY <1>2, LeaveIs DEF Exit

(* What an instruction may change, and where the pointer is afterwards.    *)
LEMMA EvaluateIs ==
  ASSUME NEW p, IsProgram(p), NEW m, IsMachine(m), NEW o, OperandsFit(o), NEW skip,
         NEW op, DecoderOf(op) # "unknown",
         NEW n, n = Evaluate(op, m, o, p, IxPointerCache(p), skip)
  PROVE  /\ But(n, m, {"pc", "w", "acl", "mem", "heap", "exit"})
         /\ IF HandlesPointer(op) THEN n.pc \in {m.pc, m.pc + 1, m.pc + skip} \cup BlockStarts(p)
            ELSE n.pc = m.pc
<1>1. CASE op \in JumpOpcodes
  <2>1. op \in KnownJumps
    BY <1>1, JumpsKnown
  <2>2. n = EvaluateJump(op, m, o, p, IxPointerCache(p), skip)
    BY <1>1 DEF Evaluate
  <2>3. But(n, m, {"pc", "w", "exit"}) /\ n.pc \in {m.pc, m.pc + 1, m.pc + skip} \cup BlockStarts(p)
    <3>1. But(n, m, {"pc", "w", "exit"}) /\ Jumped(n, m, p, skip)
      BY <2>1, <2>2, EvaluateJumpIs
    <3>. QED
      BY <3>1 DEF Jumped
  <2>4. But(n, m, {"pc", "w", "acl", "mem", "heap", "exit"})
    BY <2>3 DEF But
  <2>5. op # 10 => HandlesPointer(op)
    BY <2>1 DEF HandlesPointer, KnownJumps
  <2>6. op = 10 => n.pc = m.pc
    BY EcalliIs, ButParts
  <2>7. op = 10 => ~HandlesPointer(op)
    BY DEF HandlesPointer
  <2>. QED
    BY <2>3, <2>4, <2>5, <2>6, <2>7
<1>2. CASE op \notin JumpOpcodes
  <2>1. ~HandlesPointer(op)
    BY <1>2 DEF HandlesPointer, JumpOpcodes
  <2>2. \E s \in SUBSET {"w", "acl", "mem", "heap", "exit"} : But(n, m, s)
    <3>1. CASE op \in MemoryOpcodes
      BY <3>1, MemoryIs, EvaluateMemoryIs
    <3>2. CASE op \notin MemoryOpcodes
      BY <1>2, <3>2, PlainIs
    <3>. QED
      BY <3>1, <3>2
  <2>3. n.pc = m.pc /\ But(n, m, {"pc", "w", "acl", "mem", "heap", "exit"})
    BY <2>2, ButParts DEF But
  <2>. QED
    BY <2>1, <2>3
<1>. QED
  BY <1>1, <1>2

LEMMA HydratedIs ==
  ASSUME NEW p, IsProgram(p), NEW m, IsMachine(m), NEW o, OperandsFit(o), NEW skip,
         NEW op, DecoderOf(op) # "unknown",
         NEW n, n = HydratedEvaluate(op, m, o, p, IxPointerCache(p), skip)
  PROVE  \E done :
            /\ done = Evaluate(op, m, o, p, IxPointerCache(p), skip)
            /\ But(n, done, {"gas", "pc"})
            /\ n.gas = m.gas - 1
            /\ n.pc = IF HandlesPointer(op) \/ done.exit.why = "pageFault" THEN done.pc ELSE done.pc + skip
<1>1. PICK done : done = Evaluate(op, m, o, p, IxPointerCache(p), skip)
  OBVIOUS
<1>2. IsMachine(done) /\ done.gas = m.gas
  <2>1. But(done, m, {"pc", "w", "acl", "mem", "heap", "exit"})
    BY <1>1, EvaluateIs
  <2>2. IsMachine(done)
    BY ONLY <2>1 DEF But
  <2>3. done.gas = m.gas
    BY <2>1, ButParts
  <2>. QED
    BY <2>2, <2>3
<1>3. PICK pc : pc = IF HandlesPointer(op) \/ done.exit.why = "pageFault" THEN done.pc ELSE done.pc + skip
  OBVIOUS
<1>4. n = [done EXCEPT !.gas = done.gas - 1, !.pc = pc]
  BY <1>1, <1>3, Zenon DEF HydratedEvaluate
<1>5. But(n, done, {"gas", "pc"}) /\ n.gas = done.gas - 1 /\ n.pc = pc
  BY ONLY <1>4, <1>2 DEF But, IsMachine, Parts
<1>. QED
  BY <1>1, <1>2, <1>3, <1>5

LEMMA SingleStepMachine ==
  ASSUME NEW p, IsProgram(p), NEW m, IsMachine(m), NEW n, n = SingleStep(m, p, IxPointerCache(p))
  PROVE  /\ IsMachine(n)
         /\ n.pc \in {m.pc, m.pc + 1, NextOpcode(p, m.pc)} \cup BlockStarts(p)
<1>1. CASE Stopped(n, m, p)
  BY <1>1 DEF Stopped, But
<1>2. ASSUME NEW o, NEW skip, Decoded(m, p, o, skip),
             n = HydratedEvaluate(p.c[m.pc], m, o, p, IxPointerCache(p), skip)
      PROVE  /\ IsMachine(n)
             /\ n.pc \in {m.pc, m.pc + 1, NextOpcode(p, m.pc)} \cup BlockStarts(p)
  <2>1. PICK op : op = p.c[m.pc]
    OBVIOUS
  <2>2. DecoderOf(op) # "unknown" /\ OperandsFit(o) /\ m.pc + skip = NextOpcode(p, m.pc)
    BY <1>2, <2>1, Skipped DEF Decoded
  <2>3. PICK done :
            /\ done = Evaluate(op, m, o, p, IxPointerCache(p), skip)
            /\ But(n, done, {"gas", "pc"})
            /\ n.pc = IF HandlesPointer(op) \/ done.exit.why = "pageFault" THEN done.pc ELSE done.pc + skip
    BY <1>2, <2>1, <2>2, HydratedIs
  <2>4. IF HandlesPointer(op) THEN done.pc \in {m.pc, m.pc + 1, m.pc + skip} \cup BlockStarts(p)
        ELSE done.pc = m.pc
    BY <2>2, <2>3, EvaluateIs
  <2>. QED
    BY <2>2, <2>3, <2>4 DEF But
<1>. QED
  BY <1>1, <1>2, SingleStepIs

ImmediateOpcodes == (131 .. 134) \cup (136 .. 140) \cup (149 .. 153) \cup {158, 160}

LEMMA ShortRest ==
  ASSUME NEW x \in Int
  PROVE  (x % Pow(4)) % Bits32 = x % Bits32
BY WidthsAssumption, WordBits, RestByDivisor

(* The form with an immediate and the form with registers, 32 bits.        *)
LEMMA SameForm32 ==
  ASSUME NEW b, NEW x \in Int, NEW op \in (131 .. 134) \cup (136 .. 140)
  PROVE  Imm32Value(op, b, x) = ThreeRegisterValue(RegisterForm[op], b, x)
<1>0. op \in DOMAIN RegisterForm
  BY DEF RegisterForm
<1>1. CASE op = 131
  <2>1. RegisterForm[op] = 190
    BY <1>1 DEF RegisterForm
  <2>2. ThreeRegisterValue(190, b, x) = Reg32Value(190, b, x)
    BY DEF ThreeRegisterValue
  <2>3. Reg32Value(190, b, x) = X_fn(4, (b + x) % Pow(4))
    BY DEF Reg32Value
  <2>. QED
    BY <1>1, <2>1, <2>2, <2>3 DEF Imm32Value
<1>2. CASE op \in 132 .. 134
  <2>1. RegisterForm[op] = op + 78
    BY <1>2 DEF RegisterForm
  <2>. QED
    BY <1>2, <2>1 DEF Imm32Value, ThreeRegisterValue, Reg64Value
<1>3. CASE op \in 136 .. 137
  <2>1. RegisterForm[op] = op + 80
    BY <1>3 DEF RegisterForm
  <2>. QED
    BY <1>3, <2>1 DEF Imm32Value, ThreeRegisterValue, RegLogicValue
<1>4. CASE op = 138
  <2>1. RegisterForm[op] = 197
    BY <1>4 DEF RegisterForm
  <2>. QED
    BY <1>4, <2>1 DEF Imm32Value, ThreeRegisterValue, Reg32Value, ShiftBy
<1>5. CASE op = 139
  <2>1. RegisterForm[op] = 198
    BY <1>5 DEF RegisterForm
  <2>2. ThreeRegisterValue(198, b, x) = X_fn(4, (b % Pow(4)) \div 2^((x % Pow(4)) % Bits32))
    BY DEF ThreeRegisterValue, Reg32Value
  <2>. QED
    BY <1>5, <2>1, <2>2, ShortRest DEF Imm32Value, ShiftBy
<1>6. CASE op = 140
  <2>1. RegisterForm[op] = 199
    BY <1>6 DEF RegisterForm
  <2>. QED
    BY <1>6, <2>1 DEF Imm32Value, ThreeRegisterValue, Reg32Value, ShiftBy
<1>. QED
  BY <1>1, <1>2, <1>3, <1>4, <1>5, <1>6

(* The same, 64 bits and rotations.                                        *)
LEMMA SameForm64 ==
  ASSUME NEW b, NEW x, NEW old, NEW op \in (149 .. 153) \cup {158, 160}
  PROVE  Imm64Value(op, b, x, old) = ThreeRegisterValue(RegisterForm[op], b, x)
<1>1. CASE op \in {149, 150, 151, 152, 153}
  <2>1. RegisterForm[op] = CASE op = 149 -> 200 [] op = 150 -> 202 [] op = 151 -> 207 [] op = 152 -> 208
                             [] op = 153 -> 209
    BY <1>1 DEF RegisterForm
  <2>. QED
    BY <1>1, <2>1 DEF Imm64Value, ThreeRegisterValue, Reg64Value, ShiftBy
<1>2. CASE op = 158
  <2>1. RegisterForm[op] = 222
    BY <1>2 DEF RegisterForm
  <2>. QED
    BY <1>2, <2>1 DEF Imm64Value, ThreeRegisterValue, RegLogicValue, ShiftBy
<1>3. CASE op = 160
  <2>1. RegisterForm[op] = 223
    BY <1>3 DEF RegisterForm
  <2>. QED
    BY <1>3, <2>1 DEF Imm64Value, ThreeRegisterValue, RegLogicValue, ShiftBy
<1>. QED
  BY <1>1, <1>2, <1>3

LEMMA ImmediateStep ==
  ASSUME NEW p, IsProgram(p), NEW m, IsMachine(m), NEW n, n = SingleStep(m, p, IxPointerCache(p)),
         n.exit = Running, NEW op, op = p.c[m.pc], op \in ImmediateOpcodes,
         NEW o, o = Operands("twoRegImm", ArgsAt(p, m.pc, NextOpcode(p, m.pc) - m.pc))
  PROVE  n.w[o.rA] = ThreeRegisterValue(RegisterForm[op], m.w[o.rB], o.vX)
<1>1. ~Stopped(n, m, p)
  BY DEF Stopped, Running, Exit
<1>2. DecoderOf(op) = "twoRegImm"
  <2>1. op \in 120..161
    BY DEF ImmediateOpcodes
  <2>. QED
    BY ONLY <2>1, SMTT(20) DEF DecoderOf
<1>3. PICK skip : Decoded(m, p, o, skip) /\ n = HydratedEvaluate(op, m, o, p, IxPointerCache(p), skip)
  <2>1. PICK o1, skip :
            Decoded(m, p, o1, skip) /\ n = HydratedEvaluate(op, m, o1, p, IxPointerCache(p), skip)
    BY <1>1, SingleStepIs
  <2>2. o1 = o
    BY <1>2, <2>1 DEF Decoded
  <2>. QED
    BY <2>1, <2>2
<1>4. OperandsFit(o)
  BY <1>3 DEF Decoded
<1>5. PICK done : done = Evaluate(op, m, o, p, IxPointerCache(p), skip) /\ But(n, done, {"gas", "pc"})
  BY <1>2, <1>3, <1>4, HydratedIs
<1>6. op \notin JumpOpcodes /\ op \notin MemoryOpcodes
  BY DEF ImmediateOpcodes, JumpOpcodes, MemoryOpcodes, Loads, Stores
<1>7. But(done, m, {"w"}) /\ done.w = [m.w EXCEPT ![Written(op, o)] = WrittenValue(op, m, o)]
  BY <1>4, <1>5, <1>6, PlainIs
<1>8. n.w = done.w
  <2>1. IsMachine(done)
    BY <1>7 DEF But
  <2>. QED
    BY <1>5, <2>1, ButParts
<1>9. Written(op, o) = o.rA /\ o.rA \in DOMAIN m.w
  BY <1>4 DEF Written, ImmediateOpcodes, OperandsFit, IsMachine
<1>10. n.w[o.rA] = WrittenValue(op, m, o)
  BY <1>7, <1>8, <1>9
<1>11. PICK x \in Int : x = o.vX
  BY <1>4, RegisterIs DEF OperandsFit
<1>12. CASE op \in (131 .. 134) \cup (136 .. 140)
  <2>1. WrittenValue(op, m, o) = Imm32Value(op, m.w[o.rB], o.vX)
    BY SMTT(20), <1>12 DEF WrittenValue
  <2>. QED
    BY <1>10, <1>11, <1>12, <2>1, SameForm32
<1>13. CASE op \in (149 .. 153) \cup {158, 160}
  <2>1. PICK old : WrittenValue(op, m, o) = Imm64Value(op, m.w[o.rB], o.vX, old)
    BY SMTT(20), <1>13 DEF WrittenValue
  <2>. QED
    BY <1>10, <1>13, <2>1, SameForm64
<1>. QED
  BY <1>12, <1>13 DEF ImmediateOpcodes

-----------------------------------------------------------------------------
(***************************************************************************)
(* What the two interpreters compute, where KnownDifference allows none.   *)
(***************************************************************************)

(* Words that wrap around, and the words of the first interpreter.         *)
LEMMA OneMore ==
  ASSUME NEW z \in Int, NEW w \in Nat \ {0}
  PROVE  (z + w) % w = z % w /\ (z - w) % w = z % w
<1>1. ASSUME NEW k \in Int PROVE (z + w * k) % w = z % w
  BY RestOfSum
<1>2. ASSUME NEW k \in Int, NEW y, y = z + w * k PROVE y % w = z % w
  BY <1>1, <1>2
<1>3. PICK k \in Int : z + w = z + w * k
  <2>. 1 \in Int /\ z + w = z + w * 1
    OBVIOUS
  <2>. QED
    OBVIOUS
<1>4. PICK l \in Int : z - w = z + w * l
  <2>. -1 \in Int /\ z - w = z + w * (-1)
    OBVIOUS
  <2>. QED
    OBVIOUS
<1>5. (z + w) % w = z % w
  <2>. PICK y : y = z + w
    OBVIOUS
  <2>. QED
    BY <1>2, <1>3
<1>6. (z - w) % w = z % w
  <2>. PICK y : y = z - w
    OBVIOUS
  <2>. QED
    BY <1>2, <1>4
<1>. QED
  BY <1>5, <1>6

LEMMA WrapIs ==
  ASSUME NEW z \in Int
  PROVE  u64(z) = Z_inv(8, z) /\ u64(z) \in Register /\ u32(z) = z % Pow(4)
<1>1. PICK w \in Nat \ {0} : w = Pow(8)
  BY WordBits
<1>2. (z + w) % w = z % w
  BY OneMore
<1>3. (w + z) % w = z % w
  <2>. w + z = z + w
    OBVIOUS
  <2>. QED
    BY <1>2
<1>. QED
  BY <1>1, <1>3, RestWidth DEF u64, u32, Z_inv

LEMMA WordIs ==
  ASSUME NEW a \in Register
  PROVE  u64(a) = a /\ i64(a) = Z(8, a)
<1>1. a % Pow(8) = a
  BY WordBits, SmallRest DEF Register, Width
<1>. QED
  BY <1>1 DEF u64, i64

LEMMA ExtendIs ==
  ASSUME NEW n \in 1 .. 8, NEW x \in Width(n)
  PROVE  Extend(n, x) = X_fn(n, x)
<1>1. X_fn(n, x) \in Register
  BY X_fnIs
<1>2. u64(X_fn(n, x)) = X_fn(n, x)
  BY <1>1, WordIs
<1>. QED
  BY <1>2 DEF Extend, X_fn

LEMMA ExtendedRest ==
  ASSUME NEW z \in Int
  PROVE  Extend(4, u32(z)) = X_fn(4, z % Pow(4)) /\ u32(z) \in Width(4)
<1>1. z % Pow(4) \in Width(4) /\ 4 \in 1 .. 8
  BY RestWidth
<1>. QED
  BY <1>1, ExtendIs DEF u32

(* The sign survives a word.                                               *)
LEMMA SignedBack ==
  ASSUME NEW a \in Register
  PROVE  u64(i64(a)) = a
<1>1. PICK w \in Nat \ {0} : w = Pow(8)
  BY WordBits
<1>2. a \in Int /\ a % w = a
  BY <1>1, SmallRest DEF Register, Width
<1>4. (a - w) % w = a
  BY <1>2, OneMore
<1>5. Z(8, a) = a \/ Z(8, a) = a - w
  BY <1>1 DEF Z
<1>. QED
  BY <1>1, <1>2, <1>4, <1>5, WordIs DEF u64

LEMMA DifferenceIs ==
  ASSUME NEW a \in Int, NEW b \in Int
  PROVE  /\ u64(a - b) = (a + Pow(8) - b) % Pow(8)
         /\ u32(a - b) = (a + Pow(4) - b) % Pow(4)
<1>1. ASSUME NEW w \in Nat \ {0} PROVE (a - b) % w = (a + w - b) % w
  <2>1. ((a - b) + w) % w = (a - b) % w
    <3>. PICK c \in Int : c = a - b
      OBVIOUS
    <3>. QED
      BY OneMore
  <2>2. (a - b) + w = a + w - b
    OBVIOUS
  <2>. QED
    BY <2>1, <2>2
<1>. QED
  BY <1>1, WordBits DEF u64, u32

LEMMA SameTwoReg ==
  ASSUME NEW op \in 100 .. 111 \ {101}, NEW a \in Register
  PROVE  WasmTwoReg(op, a) = TwoRegValue(op, a)
<1>1. a \in Int
  BY RegisterIs
<1>2. CASE op \in {100, 102, 103, 104, 105, 106, 107, 110, 111}
  BY <1>2 DEF WasmTwoReg, TwoRegValue, u32, u16
<1>3. CASE op = 108
  <2>1. Z(1, a % Pow(1)) \in Int
    BY <1>1, RestWidth, ZIs
  <2>2. WasmTwoReg(op, a) = u64(Z(1, a % Pow(1)))
    BY <1>3 DEF WasmTwoReg, i8, u8
  <2>3. TwoRegValue(op, a) = Z_inv(8, Z(1, a % Pow(1)))
    BY <1>3 DEF TwoRegValue
  <2>. QED
    BY <2>1, <2>2, <2>3, WrapIs
<1>4. CASE op = 109
  <2>1. Z(2, a % Pow(2)) \in Int
    BY <1>1, RestWidth, ZIs
  <2>2. WasmTwoReg(op, a) = u64(Z(2, a % Pow(2)))
    BY <1>4 DEF WasmTwoReg, i16, u16
  <2>3. TwoRegValue(op, a) = Z_inv(8, Z(2, a % Pow(2)))
    BY <1>4 DEF TwoRegValue
  <2>. QED
    BY <2>1, <2>2, <2>3, WrapIs
<1>. QED
  BY <1>2, <1>3, <1>4

(* Shifts to the right of a signed reading.                                *)
LEMMA SignedShift ==
  ASSUME NEW a \in Int, NEW x \in Int, NEW n \in {Bits32, Bits64}
  PROVE  /\ u64(i32(a) \div 2^(x % n)) = Floored(Z(4, a % Pow(4)), ShiftBy(n, x))
         /\ a \in Register => u64(i64(a) \div 2^(x % n)) = Floored(Z(8, a), ShiftBy(n, x))
<1>1. PICK d \in Nat \ {0} : d = 2^(x % n) /\ d = 2^ShiftBy(n, x)
  <2>1. 2^ShiftBy(n, x) \in Nat \ {0}
    BY ShiftsAre
  <2>. QED
    BY <2>1 DEF ShiftBy
<1>2. Z(4, a % Pow(4)) \in Int /\ Z(8, a) \in Int
  BY RestWidth, ZIs
<1>3. Z(4, a % Pow(4)) \div d \in Int /\ Z(8, a) \div d \in Int
  BY <1>2, Rest
<1>4. i32(a) = Z(4, a % Pow(4))
  BY DEF i32, u32
<1>5. a \in Register => i64(a) = Z(8, a)
  BY WordIs
<1>. QED
  BY <1>1, <1>3, <1>4, <1>5, WrapIs DEF Floored

LEMMA SameImm32 ==
  ASSUME NEW op \in 131 .. 146, NEW b \in Register, NEW x \in Register
  PROVE  /\ op # 145 => WasmImm32(op, b, x) = Imm32Value(op, b, x)
         /\ WasmImm32(op, b, x) \in Register
<1>1. b \in Nat /\ b \in Int /\ x \in Nat /\ x \in Int
  BY RegisterIs
<1>2. PICK u \in Nat \ {0}, v \in Nat \ {0} :
        u = 2^ShiftBy(Bits32, x) /\ v = 2^ShiftBy(Bits32, b) /\ u = 2^(x % Bits32) /\ v = 2^(b % Bits32)
  BY <1>1, ShiftsAre DEF ShiftBy
<1>. SUFFICES ASSUME op # 145 \/ op = 145
              PROVE  /\ op # 145 => WasmImm32(op, b, x) = Imm32Value(op, b, x)
                     /\ op = 145 => WasmImm32(op, b, x) \in Register
  BY Imm32Width
<1>3. CASE op = 131
  <2>1. PICK z \in Int : z = b + x
    BY <1>1
  <2>2. WasmImm32(op, b, x) = Extend(4, u32(z))
    BY <1>3, <2>1 DEF WasmImm32
  <2>. QED
    BY <1>3, <2>1, <2>2, ExtendedRest DEF Imm32Value
<1>4. CASE op \in {132, 133, 134, 136, 142}
  BY <1>4 DEF WasmImm32, Imm32Value
<1>5. CASE op = 135
  BY <1>5 DEF WasmImm32, Imm32Value, u32
<1>6. CASE op \in {137, 143}
  BY <1>6, WordIs DEF WasmImm32, Imm32Value
<1>7. CASE op = 138
  <2>1. PICK z \in Int : z = b * u
    BY <1>1, Products
  <2>2. WasmImm32(op, b, x) = Extend(4, u32(z))
    BY <1>2, <1>7, <2>1 DEF WasmImm32
  <2>3. Imm32Value(op, b, x) = X_fn(4, z % Pow(4))
    BY <1>2, <1>7, <2>1 DEF Imm32Value
  <2>. QED
    BY <1>7, <2>2, <2>3, ExtendedRest
<1>8. CASE op = 139
  <2>1. PICK c \in Nat : c = b % Pow(4) /\ c \in Width(4)
    BY <1>1, RestWidth
  <2>2. c \div u \in 0 .. c
    BY QuotientAtMost
  <2>3. c \div u \in Width(4)
    BY <2>1, <2>2, WordBits DEF Width
  <2>4. WasmImm32(op, b, x) = Extend(4, c \div u)
    BY <1>2, <1>8, <2>1 DEF WasmImm32, u32
  <2>5. Imm32Value(op, b, x) = X_fn(4, c \div u)
    BY <1>2, <1>8, <2>1 DEF Imm32Value
  <2>. QED
    BY <1>8, <2>3, <2>4, <2>5, ExtendIs
<1>9. CASE op = 140
  BY <1>1, <1>9, SignedShift DEF WasmImm32, Imm32Value
<1>10. CASE op = 141
  <2>1. PICK z \in Int : z = x - b
    BY <1>1
  <2>2. WasmImm32(op, b, x) = Extend(4, u32(z))
    BY <1>10, <2>1 DEF WasmImm32
  <2>3. Imm32Value(op, b, x) = X_fn(4, u32(z))
    BY <1>1, <1>10, <2>1, DifferenceIs DEF Imm32Value
  <2>. QED
    BY <1>10, <2>2, <2>3, ExtendedRest, WrapIs
<1>11. CASE op = 144
  <2>1. PICK z \in Int : z = x * v
    BY <1>1, Products
  <2>2. WasmImm32(op, b, x) = Extend(4, u32(z))
    BY <1>2, <1>11, <2>1 DEF WasmImm32
  <2>3. Imm32Value(op, b, x) = X_fn(4, z % Pow(4))
    BY <1>2, <1>11, <2>1 DEF Imm32Value
  <2>. QED
    BY <1>11, <2>2, <2>3, ExtendedRest
<1>12. CASE op = 145
  <2>1. PICK c \in Nat : c = x % Pow(4) /\ c \in Width(4)
    BY <1>1, RestWidth
  <2>2. c \div v \in 0 .. c
    BY QuotientAtMost
  <2>3. c \div v \in Width(4)
    BY <2>1, <2>2, WordBits DEF Width
  <2>4. WasmImm32(op, b, x) = Extend(4, c \div v)
    BY <1>2, <1>12, <2>1 DEF WasmImm32, u32
  <2>. QED
    BY <1>12, <2>3, <2>4, ExtendIs, ExtendedWidth
<1>13. CASE op = 146
  BY <1>1, <1>13, SignedShift DEF WasmImm32, Imm32Value
<1>. QED
  BY <1>3, <1>4, <1>5, <1>6, <1>7, <1>8, <1>9, <1>10, <1>11, <1>12, <1>13

LEMMA SameImm64 ==
  ASSUME NEW op \in 147 .. 161, NEW b \in Register, NEW x \in Register, NEW old \in Register
  PROVE  WasmImm64(op, b, x, old) = Imm64Value(op, b, x, old)
<1>1. b \in Nat /\ b \in Int /\ x \in Nat /\ x \in Int
  BY RegisterIs
<1>2. PICK u \in Nat \ {0}, v \in Nat \ {0} :
        u = 2^ShiftBy(Bits64, x) /\ v = 2^ShiftBy(Bits64, b) /\ u = 2^(x % Bits64) /\ v = 2^(b % Bits64)
  BY <1>1, ShiftsAre DEF ShiftBy
<1>3. CASE op \in {147, 148, 158, 159}
  BY <1>3 DEF WasmImm64, Imm64Value, ShiftBy
<1>4. CASE op \in {149, 150}
  BY <1>4 DEF WasmImm64, Imm64Value, u64
<1>5. CASE op \in {151, 152}
  BY <1>2, <1>5 DEF WasmImm64, Imm64Value, u64
<1>6. CASE op \in {155, 156}
  BY <1>2, <1>6 DEF WasmImm64, Imm64Value, u64
<1>7. CASE op = 153
  BY <1>1, <1>7, SignedShift DEF WasmImm64, Imm64Value
<1>8. CASE op = 157
  BY <1>1, <1>8, SignedShift DEF WasmImm64, Imm64Value
<1>9. CASE op = 154
  BY <1>1, <1>9, DifferenceIs DEF WasmImm64, Imm64Value
<1>10. ASSUME NEW y \in Register, NEW z \in Int
       PROVE  Extend(4, RotateRight(Bits32, u32(y), z % Bits32))
                = X_fn(4, RotateRight(Bits32, y % Pow(4), ShiftBy(Bits32, z)))
  <2>1. RotateRight(Bits32, y % Pow(4), ShiftBy(Bits32, z)) \in Width(4)
    BY RotationsWidth
  <2>. QED
    BY <2>1, ExtendIs DEF u32, ShiftBy
<1>11. CASE op = 160
  BY <1>1, <1>10, <1>11 DEF WasmImm64, Imm64Value
<1>12. CASE op = 161
  BY <1>1, <1>10, <1>12 DEF WasmImm64, Imm64Value
<1>. QED
  BY <1>3, <1>4, <1>5, <1>6, <1>7, <1>8, <1>9, <1>11, <1>12

LEMMA LastWord == u64(-1) = Pow(8) - 1 /\ Pow(8) - 1 \in Register
<1>1. PICK w \in Nat \ {0} : w = Pow(8)
  BY WordBits
<1>2. -1 = w * (-1) + (w - 1) /\ w - 1 \in 0 .. w - 1 /\ -1 \in Int
  OBVIOUS
<1>3. (-1) % w = w - 1
  BY <1>2, OneRest
<1>. QED
  BY <1>1, <1>2, <1>3 DEF u64, Register, Width

(* The remainder whose least integer is taken apart.                       *)
LEMMA WasmSmodIs ==
  ASSUME NEW n \in 1 .. 8, NEW a \in Int, NEW b \in Int
  PROVE  /\ WasmSmod(n, a, b) \in Register
         /\ a # -(Pow(n) \div 2) => WasmSmod(n, a, b) = Z_inv(8, Smod(a, b))
<1>1. PICK h \in Nat \ {0} : h = Pow(n) \div 2
  BY HalfOfPow
<1>2. CASE b = 0
  <2>1. WasmSmod(n, a, b) = u64(a) /\ Smod(a, b) = a
    BY <1>2 DEF WasmSmod, Smod
  <2>. QED
    BY <2>1, WrapIs
<1>3. CASE b # 0
  <2>1. PICK d \in Nat \ {0} : d = Absolute(b)
    BY <1>3 DEF Absolute
  <2>2. Absolute(IF b = -h THEN -h ELSE Absolute(b)) = d
    BY <1>1, <1>3, <2>1 DEF Absolute
  <2>3. PICK e \in Nat : e = Absolute(a)
    BY DEF Absolute
  <2>4. PICK r \in Nat, t \in Nat : r = e % d /\ t = h % d
    BY Rest
  <2>5. PICK s \in {1, -1} : s = IF a < 0 THEN -1 ELSE 1
    OBVIOUS
  <2>6. WasmSmod(n, a, b) = u64((IF a = -h THEN -t ELSE r) * s)
    BY <1>1, <1>3, <2>2, <2>3, <2>4, <2>5, Zenon DEF WasmSmod
  <2>7. Smod(a, b) = s * r
    BY <1>3, <2>1, <2>3, <2>4, <2>5, Zenon DEF Smod
  <2>8. r * s = s * r /\ r * s \in Int /\ (-t) * s \in Int
    BY <2>5
  <2>9. a # -h => WasmSmod(n, a, b) = u64(s * r)
    BY <2>6, <2>8
  <2>10. \E y \in Int : WasmSmod(n, a, b) = u64(y)
    BY <2>6, <2>8
  <2>. QED
    BY <1>1, <2>7, <2>8, <2>9, <2>10, WrapIs
<1>. QED
  BY <1>2, <1>3

LEMMA SignsAre ==
  ASSUME NEW a \in Int
  PROVE  /\ i32(a) = Z(4, a % Pow(4)) /\ i32(a) \in Int
         /\ i32(Pow(4) \div 2) = -(Pow(4) \div 2)
<1>1. i32(a) = Z(4, a % Pow(4))
  BY DEF i32, u32
<1>2. Z(4, a % Pow(4)) \in Int
  BY RestWidth, ZIs
<1>3. PICK h \in Nat \ {0}, w \in Nat \ {0} : w = Pow(4) /\ h = w \div 2 /\ w = 2 * h
  <2>. 4 \in Nat \ {0}
    OBVIOUS
  <2>. QED
    BY WordBits, HalfOfPow
<1>4. h % w = h
  BY <1>3, SmallRest
<1>5. Z(4, h) = -h
  BY <1>3 DEF Z
<1>6. i32(h) = -h
  BY <1>3, <1>4, <1>5 DEF i32, u32
<1>. QED
  BY <1>1, <1>2, <1>3, <1>6

\* Half of the words, where a sign begins.
Half64 == Pow(8) \div 2

LEMMA SameReg32 ==
  ASSUME NEW op \in 190 .. 199, NEW a \in Register, NEW b \in Register
  PROVE  /\ \/ op = 193 /\ (a >= Half32 \/ b >= Half32)
            \/ op = 196 /\ Z(4, a % Pow(4)) = -Half32
            \/ WasmReg32(op, a, b) = Reg32Value(op, a, b)
         /\ WasmReg32(op, a, b) \in Register
<1>1. a \in Nat /\ a \in Int /\ b \in Nat /\ b \in Int
  BY RegisterIs
<1>2. PICK a4 \in Nat, b4 \in Nat : /\ a4 = a % Pow(4) /\ b4 = b % Pow(4)
                                    /\ a4 = u32(a) /\ b4 = u32(b)
                                    /\ a4 \in Width(4) /\ b4 \in Width(4)
  BY <1>1, RestWidth DEF u32
<1>3. PICK za \in Int, zb \in Int : za = Z(4, a4) /\ zb = Z(4, b4) /\ za = i32(a) /\ zb = i32(b)
  BY <1>1, <1>2, SignsAre
<1>4. PICK u \in Nat \ {0} : u = 2^(b % Bits32)
  BY <1>1, ShiftsAre DEF ShiftBy
<1>5. PICK h \in Nat \ {0} : h = Half32 /\ h = Pow(4) \div 2
  <2>. 4 \in Nat \ {0}
    OBVIOUS
  <2>. QED
    BY HalfOfPow DEF Half32
<1>6. Reg32Value(op, a, b) \in Register
  BY Reg32Width
<1>7. CASE op = 190
  <2>1. PICK z \in Int : z = a + b
    BY <1>1
  <2>2. WasmReg32(op, a, b) = Extend(4, u32(z))
    BY <1>7, <2>1 DEF WasmReg32
  <2>3. Reg32Value(op, a, b) = X_fn(4, z % Pow(4))
    BY <1>7, <2>1 DEF Reg32Value
  <2>. QED
    BY <1>6, <2>2, <2>3, ExtendedRest
<1>8. CASE op = 191
  <2>1. PICK z \in Int : z = a - b4
    BY <1>1
  <2>2. WasmReg32(op, a, b) = Extend(4, u32(z))
    BY <1>2, <1>8, <2>1 DEF WasmReg32
  <2>3. Reg32Value(op, a, b) = X_fn(4, (a + Pow(4) - b4) % Pow(4))
    BY <1>2, <1>8 DEF Reg32Value
  <2>4. u32(z) = (a + Pow(4) - b4) % Pow(4)
    <3>. b4 \in Int
      OBVIOUS
    <3>. QED
      BY <1>1, <2>1, DifferenceIs
  <2>. QED
    BY <1>6, <2>2, <2>3, <2>4, ExtendedRest, WrapIs
<1>9. CASE op = 192
  <2>1. PICK z \in Int : z = a * b
    BY <1>1, Products
  <2>2. WasmReg32(op, a, b) = Extend(4, u32(z))
    BY <1>9, <2>1 DEF WasmReg32
  <2>3. Reg32Value(op, a, b) = X_fn(4, z % Pow(4))
    BY <1>9, <2>1 DEF Reg32Value
  <2>. QED
    BY <1>6, <2>2, <2>3, ExtendedRest
<1>10. CASE op = 193
  <2>1. WasmReg32(op, a, b) = IF b4 = 0 THEN u64(-1) ELSE Extend(4, a4 \div b4)
    BY <1>2, <1>10 DEF WasmReg32
  <2>2. b4 # 0 => a4 \div b4 \in 0 .. a4
    BY QuotientAtMost
  <2>3. b4 # 0 => a4 \div b4 \in Width(4)
    BY <1>2, <2>2, WordBits DEF Width
  <2>4. b4 # 0 => Extend(4, a4 \div b4) = X_fn(4, a4 \div b4)
    BY <2>3, ExtendIs
  <2>5. WasmReg32(op, a, b) \in Register
    BY <2>1, <2>3, <2>4, LastWord, ExtendedWidth
  <2>6. ASSUME a < h, b < h PROVE WasmReg32(op, a, b) = Reg32Value(op, a, b)
    <3>1. a4 = a /\ b4 = b
      <4>1. PICK w \in Nat \ {0} : w = Pow(4) /\ w = 2 * h
        <5>. 4 \in Nat \ {0}
          OBVIOUS
        <5>. QED
          BY <1>5, WordBits, HalfOfPow
      <4>2. a \in 0 .. w - 1 /\ b \in 0 .. w - 1
        BY <1>1, <2>6, <4>1
      <4>. QED
        BY <1>2, <4>1, <4>2, SmallRest
    <3>2. Reg32Value(op, a, b) = IF b4 = 0 THEN Pow(8) - 1 ELSE a \div b
      BY <1>2, <1>10 DEF Reg32Value
    <3>3. ASSUME b4 # 0 PROVE X_fn(4, a4 \div b4) = a4 \div b4
      <4>1. PICK q \in Nat : q = a4 \div b4 /\ q < h /\ q \in Width(4)
        BY <2>2, <2>3, <2>6, <3>1, <3>3
      <4>. QED
        BY <1>5, <4>1, X_fnIs
    <3>. QED
      BY <2>1, <2>4, <3>1, <3>2, <3>3, LastWord
  <2>. QED
    BY <1>1, <1>5, <1>10, <2>5, <2>6
<1>11. CASE op = 194
  <2>1. PICK least \in Int : least = -(Pow(4) \div 2) /\ least = i32(Pow(4) \div 2)
    BY <1>1, <1>5, SignsAre
  <2>2. WasmReg32(op, a, b) = IF zb = 0 THEN u64(-1)
                              ELSE IF za = least /\ zb = -1 THEN u64(za) ELSE u64(TruncDiv(za, zb))
    BY <1>3, <1>11, <2>1 DEF WasmReg32
  <2>3. Reg32Value(op, a, b) = IF zb = 0 THEN Pow(8) - 1
                               ELSE IF za = least /\ zb = -1 THEN Z_inv(8, za)
                               ELSE Z_inv(8, TruncDiv(za, zb))
    BY <1>2, <1>3, <1>11, <2>1 DEF Reg32Value
  <2>4. zb # 0 => TruncDiv(za, zb) \in Int
    BY TruncDivIs
  <2>5. zb # 0 => u64(TruncDiv(za, zb)) = Z_inv(8, TruncDiv(za, zb))
    BY <2>4, WrapIs
  <2>6. u64(za) = Z_inv(8, za)
    BY WrapIs
  <2>. QED
    BY <1>6, <2>2, <2>3, <2>5, <2>6, LastWord
<1>12. CASE op = 195
  <2>1. WasmReg32(op, a, b) = IF b4 = 0 THEN Extend(4, a4) ELSE Extend(4, a4 % b4)
    BY <1>2, <1>12 DEF WasmReg32
  <2>2. Reg32Value(op, a, b) = X_fn(4, IF b4 = 0 THEN a4 ELSE a4 % b4)
    BY <1>2, <1>12 DEF Reg32Value
  <2>3. b4 # 0 => a4 % b4 \in 0 .. b4 - 1
    BY Rest
  <2>4. b4 # 0 => a4 % b4 \in Width(4)
    BY <1>2, <2>3, WordBits DEF Width
  <2>5. Extend(4, a4) = X_fn(4, a4) /\ (b4 # 0 => Extend(4, a4 % b4) = X_fn(4, a4 % b4))
    BY <1>2, <2>4, ExtendIs
  <2>. QED
    BY <1>6, <2>1, <2>2, <2>5
<1>13. CASE op = 196
  <2>1. WasmReg32(op, a, b) = IF za = -h /\ zb = -1 THEN 0 ELSE WasmSmod(4, za, zb)
    BY <1>3, <1>5, <1>13 DEF WasmReg32
  <2>2. Reg32Value(op, a, b) = IF za = -h /\ zb = -1 THEN 0 ELSE Z_inv(8, Smod(za, zb))
    BY <1>2, <1>3, <1>5, <1>13 DEF Reg32Value
  <2>3. 4 \in 1 .. 8
    OBVIOUS
  <2>4. WasmSmod(4, za, zb) \in Register /\ (za # -h => WasmSmod(4, za, zb) = Z_inv(8, Smod(za, zb)))
    BY <1>5, <2>3, WasmSmodIs
  <2>5. 0 \in Register
    BY SmallRegister, WordBits
  <2>6. Z(4, a % Pow(4)) = za
    BY <1>2, <1>3
  <2>. QED
    BY <1>5, <1>13, <2>1, <2>2, <2>4, <2>5, <2>6
<1>14. CASE op = 197
  <2>1. PICK z \in Int : z = a * u
    BY <1>1, Products
  <2>2. WasmReg32(op, a, b) = Extend(4, u32(z))
    BY <1>4, <1>14, <2>1 DEF WasmReg32
  <2>3. Reg32Value(op, a, b) = X_fn(4, z % Pow(4))
    BY <1>4, <1>14, <2>1 DEF Reg32Value
  <2>. QED
    BY <1>6, <2>2, <2>3, ExtendedRest
<1>15. CASE op = 198
  <2>1. a4 \div u \in 0 .. a4
    BY QuotientAtMost
  <2>2. a4 \div u \in Width(4)
    BY <1>2, <2>1, WordBits DEF Width
  <2>3. WasmReg32(op, a, b) = Extend(4, a4 \div u)
    BY <1>2, <1>4, <1>15 DEF WasmReg32
  <2>4. Reg32Value(op, a, b) = X_fn(4, a4 \div u)
    <3>1. (b % Pow(4)) % Bits32 = b % Bits32
      BY <1>1, ShortRest
    <3>. QED
      BY <1>2, <1>4, <1>15, <3>1 DEF Reg32Value
  <2>. QED
    BY <1>6, <2>2, <2>3, <2>4, ExtendIs
<1>16. CASE op = 199
  <2>1. WasmReg32(op, a, b) = u64(i32(a) \div 2^(b % Bits32))
    BY <1>16 DEF WasmReg32
  <2>2. Reg32Value(op, a, b) = Floored(Z(4, a % Pow(4)), ShiftBy(Bits32, b))
    BY <1>16 DEF Reg32Value, ShiftBy
  <2>. QED
    BY <1>1, <1>6, <2>1, <2>2, SignedShift
<1>. QED
  BY <1>7, <1>8, <1>9, <1>10, <1>11, <1>12, <1>13, <1>14, <1>15, <1>16

\* A product that the two interpreters shift in different ways when a sign is in it.
Signed(op, a, b) == op \in {213, 215} /\ (Z(8, a) < 0 \/ Z(8, b) < 0)

LEMMA ShiftedIs ==
  ASSUME NEW z \in Int
  PROVE  /\ BigIntShifted(z) \in Int
         /\ z >= 0 => BigIntShifted(z) = z \div Pow(8)
<1>1. PICK w \in Nat \ {0} : w = Pow(8) /\ Absolute(w) = w
  BY WordBits DEF Absolute
<1>2. TruncDiv(z, w) \in Int
  BY TruncDivIs
<1>3. z >= 0 => TruncDiv(z, w) = z \div w
  <2>1. z >= 0 => Absolute(z) = z
    BY DEF Absolute
  <2>2. ~(w < 0)
    OBVIOUS
  <2>. QED
    BY <1>1, <2>1, <2>2 DEF TruncDiv
<1>. QED
  BY <1>1, <1>2, <1>3 DEF BigIntShifted

LEMMA SameReg64 ==
  ASSUME NEW op \in 200 .. 215, NEW a \in Register, NEW b \in Register
  PROVE  /\ \/ op = 206 /\ Z(8, a) = -Half64
            \/ Signed(op, a, b)
            \/ WasmReg64(op, a, b) = Reg64Value(op, a, b)
         /\ WasmReg64(op, a, b) \in Register
<1>1. a \in Nat /\ a \in Int /\ b \in Nat /\ b \in Int
  BY RegisterIs
<1>2. PICK za \in Int, zb \in Int : za = Z(8, a) /\ zb = Z(8, b) /\ za = i64(a) /\ zb = i64(b)
  BY <1>1, ZIs, WordIs
<1>3. PICK u \in Nat \ {0} : u = 2^(b % Bits64)
  BY <1>1, ShiftsAre DEF ShiftBy
<1>4. PICK h \in Nat \ {0} : h = Half64 /\ h = Pow(8) \div 2
  <2>. 8 \in Nat \ {0}
    OBVIOUS
  <2>. QED
    BY HalfOfPow DEF Half64
<1>5. Reg64Value(op, a, b) \in Register
  BY Reg64Width
<1>6. CASE op \in {200, 202, 205, 210, 211, 212}
  BY <1>5, <1>6 DEF WasmReg64, Reg64Value, u64
<1>7. CASE op = 201
  BY <1>1, <1>5, <1>7, DifferenceIs DEF WasmReg64, Reg64Value
<1>8. CASE op = 203
  BY <1>5, <1>8, LastWord DEF WasmReg64, Reg64Value
<1>9. CASE op = 204
  <2>1. WasmReg64(op, a, b) = IF b = 0 THEN u64(-1)
                              ELSE IF za = -h /\ zb = -1 THEN a ELSE u64(TruncDiv(za, zb))
    BY <1>2, <1>4, <1>9 DEF WasmReg64
  <2>2. Reg64Value(op, a, b) = IF b = 0 THEN Pow(8) - 1
                               ELSE IF za = -h /\ zb = -1 THEN a ELSE Z_inv(8, TruncDiv(za, zb))
    BY <1>2, <1>4, <1>9 DEF Reg64Value
  <2>3. b # 0 => zb # 0
    BY <1>2, ZeroOnly
  <2>4. b # 0 => u64(TruncDiv(za, zb)) = Z_inv(8, TruncDiv(za, zb))
    BY <2>3, TruncDivIs, WrapIs
  <2>. QED
    BY <1>5, <2>1, <2>2, <2>4, LastWord
<1>10. CASE op = 206
  <2>1. WasmReg64(op, a, b) = IF za = -h /\ zb = -1 THEN 0 ELSE WasmSmod(8, za, zb)
    BY <1>2, <1>4, <1>10 DEF WasmReg64
  <2>2. Reg64Value(op, a, b) = IF za = -h /\ zb = -1 THEN 0 ELSE Z_inv(8, Smod(za, zb))
    BY <1>2, <1>4, <1>10 DEF Reg64Value
  <2>3. 8 \in 1 .. 8
    OBVIOUS
  <2>4. WasmSmod(8, za, zb) \in Register /\ (za # -h => WasmSmod(8, za, zb) = Z_inv(8, Smod(za, zb)))
    BY <1>4, <2>3, WasmSmodIs
  <2>5. 0 \in Register
    BY SmallRegister, WordBits
  <2>. QED
    BY <1>2, <1>4, <1>10, <2>1, <2>2, <2>4, <2>5
<1>11. CASE op \in {207, 208}
  BY <1>3, <1>5, <1>11 DEF WasmReg64, Reg64Value, u64
<1>12. CASE op = 209
  <2>1. WasmReg64(op, a, b) = u64(i64(a) \div 2^(b % Bits64))
    BY <1>12 DEF WasmReg64
  <2>2. Reg64Value(op, a, b) = Floored(Z(8, a), ShiftBy(Bits64, b))
    BY <1>12 DEF Reg64Value, ShiftBy
  <2>. QED
    BY <1>1, <1>5, <2>1, <2>2, SignedShift
<1>13. CASE op = 213
  <2>1. PICK z \in Int : z = za * zb
    BY Products
  <2>2. WasmReg64(op, a, b) = u64(BigIntShifted(z))
    BY <1>2, <1>13, <2>1 DEF WasmReg64
  <2>3. Reg64Value(op, a, b) = Z_inv(8, BigIntShifted(z))
    BY <1>2, <1>13, <2>1 DEF Reg64Value, BigIntShifted
  <2>. QED
    BY <1>5, <2>2, <2>3, ShiftedIs, WrapIs
<1>14. CASE op = 214
  <2>1. PICK z \in Int : z = a * b /\ z >= 0
    BY <1>1, Products
  <2>2. WasmReg64(op, a, b) = u64(BigIntShifted(z))
    BY <1>14, <2>1 DEF WasmReg64
  <2>3. Reg64Value(op, a, b) = z \div Pow(8)
    BY <1>14, <2>1 DEF Reg64Value
  <2>4. WasmReg64(op, a, b) = u64(Reg64Value(op, a, b))
    BY <2>1, <2>2, <2>3, ShiftedIs
  <2>. QED
    BY <1>5, <2>4, WordIs
<1>15. CASE op = 215
  <2>1. PICK z \in Int : z = za * b
    BY <1>1, Products
  <2>2. WasmReg64(op, a, b) = u64(BigIntShifted(z))
    BY <1>2, <1>15, <2>1 DEF WasmReg64
  <2>3. Reg64Value(op, a, b) = Z_inv(8, z \div Pow(8))
    BY <1>2, <1>15, <2>1 DEF Reg64Value
  <2>4. ~(za < 0) => z >= 0
    <3>. ~(za < 0) => za \in Nat
      OBVIOUS
    <3>. QED
      BY <1>1, <2>1, Products
  <2>5. ~(za < 0) => WasmReg64(op, a, b) = Reg64Value(op, a, b)
    <3>1. BigIntShifted(z) \in Int /\ (~(za < 0) => BigIntShifted(z) = z \div Pow(8))
      BY <2>4, ShiftedIs
    <3>. QED
      BY <2>2, <2>3, <3>1, WrapIs
  <2>6. WasmReg64(op, a, b) \in Register
    BY <2>2, ShiftedIs, WrapIs
  <2>. QED
    BY <1>2, <1>15, <2>5, <2>6 DEF Signed
<1>. QED
  BY <1>6, <1>7, <1>8, <1>9, <1>10, <1>11, <1>12, <1>13, <1>14, <1>15

LEMMA NotIs ==
  ASSUME NEW x \in Register
  PROVE  u64(-1 - x) = Not(x) /\ Not(x) \in Register
<1>1. PICK w \in Nat \ {0} : w = Pow(8)
  BY WordBits
<1>2. x \in Nat /\ x < w
  BY <1>1, RegisterIs
<1>3. PICK y \in Int : y = -1 - x /\ y + w \in 0 .. w - 1 /\ y + w = w - 1 - x
  BY <1>2
<1>4. (y + w) % w = y % w
  BY OneMore
<1>5. PICK v \in 0 .. w - 1 : v = y + w
  BY <1>3
<1>6. v % w = v
  BY SmallRest
<1>7. y % w = w - 1 - x
  BY <1>3, <1>4, <1>5, <1>6
<1>. QED
  BY <1>1, <1>3, <1>5, <1>7 DEF u64, Not, Register, Width

LEMMA SameLogic ==
  ASSUME NEW op \in 216 .. 230, NEW a \in Register, NEW b \in Register, NEW old \in Register
  PROVE  WasmLogic(op, a, b, old) = RegLogicValue(op, a, b, old)
<1>1. a \in Nat /\ a \in Int /\ b \in Nat /\ b \in Int
  BY RegisterIs
<1>2. CASE op \in {216, 218, 219, 220, 222, 228, 230}
  BY <1>2 DEF WasmLogic, RegLogicValue
<1>3. CASE op = 217
  BY <1>3, WordIs DEF WasmLogic, RegLogicValue
<1>4. CASE op = 221
  <2>1. RotateLeft(Bits32, a % Pow(4), b % Bits32) \in Width(4)
    BY <1>1, RotationsWidth DEF ShiftBy
  <2>. QED
    BY <1>4, <2>1, ExtendIs DEF WasmLogic, RegLogicValue, u32
<1>5. CASE op = 223
  <2>1. RotateRight(Bits32, a % Pow(4), b % Bits32) \in Width(4)
    BY <1>1, RotationsWidth DEF ShiftBy
  <2>. QED
    BY <1>5, <2>1, ExtendIs DEF WasmLogic, RegLogicValue, u32
<1>6. CASE op \in {224, 225}
  BY <1>6, NotIs DEF WasmLogic, RegLogicValue
<1>7. CASE op = 226
  <2>1. Xor(a, b) \in Register
    BY <1>1, LogicWidth
  <2>. QED
    BY <1>7, <2>1, NotIs DEF WasmLogic, RegLogicValue
<1>8. CASE op = 227
  <2>1. WasmLogic(op, a, b, old) = IF i64(a) > i64(b) THEN u64(i64(a)) ELSE u64(i64(b))
    BY <1>8 DEF WasmLogic
  <2>. QED
    BY <1>8, <2>1, SignedBack, WordIs DEF RegLogicValue
<1>9. CASE op = 229
  <2>1. WasmLogic(op, a, b, old) = IF i64(a) < i64(b) THEN u64(i64(a)) ELSE u64(i64(b))
    BY <1>9 DEF WasmLogic
  <2>. QED
    BY <1>9, <2>1, SignedBack, WordIs DEF RegLogicValue
<1>. QED
  BY <1>2, <1>3, <1>4, <1>5, <1>6, <1>7, <1>8, <1>9

LEMMA SameConditions ==
  ASSUME NEW op, NEW a \in Register, NEW b \in Register
  PROVE  /\ op \in 81 .. 90 => WasmImmCondition(op, a, b) = ImmCondition(op, a, b)
         /\ op \in 170 .. 175 =>
              \/ op = 174 /\ (a >= 2^FloatBits \/ b >= 2^FloatBits)
              \/ WasmRegCondition(op, a, b) = RegCondition(op, a, b)
<1>1. i64(a) = Z(8, a) /\ i64(b) = Z(8, b)
  BY WordIs
<1>2. op \in 81 .. 90 => WasmImmCondition(op, a, b) = ImmCondition(op, a, b)
  BY <1>1 DEF WasmImmCondition, ImmCondition
<1>3. op \in {170, 171, 172, 173, 175} => WasmRegCondition(op, a, b) = RegCondition(op, a, b)
  BY <1>1 DEF WasmRegCondition, RegCondition
<1>4. ASSUME op = 174, ~(a >= 2^FloatBits \/ b >= 2^FloatBits)
      PROVE  WasmRegCondition(op, a, b) = RegCondition(op, a, b)
  <2>1. PICK f \in Nat : f = 2^FloatBits
    BY WordsAssumption, Doubling
  <2>2. a < f /\ b < f
    BY <1>4, <2>1, RegisterIs
  <2>3. Float(a) = a /\ Float(b) = b
    BY <2>1, <2>2, FloatIs
  <2>. QED
    BY <1>4, <2>3 DEF WasmRegCondition, RegCondition
<1>. QED
  BY <1>2, <1>3, <1>4

-----------------------------------------------------------------------------
(***************************************************************************)
(* The layout of memory, by the one test of programInitialization.         *)
(***************************************************************************)

LEMMA Division ==
  ASSUME NEW a \in Nat, NEW b \in Nat \ {0}
  PROVE  /\ a \div b \in Nat
         /\ b * (a \div b) <= a
         /\ a < b * (a \div b) + b
  BY SMT

LEMMA ProductIsMonotone ==
  ASSUME NEW b \in Nat \ {0}, NEW m \in Nat, NEW n \in Nat, m < n
  PROVE  b * m + b <= b * n
  <1>1. PICK d \in Nat : n = m + 1 + d
    <2>1. n - m - 1 \in Nat /\ n = m + 1 + (n - m - 1)
      OBVIOUS
    <2> QED BY <2>1
  <1>2. b * n = b * m + b + b * d
    BY <1>1, SMT
  <1>3. b * d \in Nat /\ b * m \in Nat
    BY SMT
  <1> QED
    BY <1>2, <1>3, SMT

\* A size rounded up: a multiple, not smaller, and the smallest of these.
LEMMA RoundUpIsMultiple ==
  ASSUME NEW x \in Nat, NEW unit \in Nat \ {0}
  PROVE  /\ RoundUp(x, unit) \in Nat
         /\ \E k \in Nat : RoundUp(x, unit) = unit * k
         /\ RoundUp(x, unit) >= x
  <1> DEFINE q == (x + unit - 1) \div unit
  <1>1. x + unit - 1 \in Nat
    OBVIOUS
  <1>2. q \in Nat /\ x + unit - 1 < unit * q + unit
    BY <1>1, Division
  <1>3. RoundUp(x, unit) = unit * q
    BY DEF RoundUp
  <1> HIDE DEF q
  <1>4. unit * q \in Nat
    BY <1>2, SMT
  <1> QED
    BY <1>2, <1>3, <1>4

LEMMA RoundUpIsSmallest ==
  ASSUME NEW x \in Nat, NEW unit \in Nat \ {0}, NEW k \in Nat, x <= unit * k
  PROVE  RoundUp(x, unit) <= unit * k
  <1> DEFINE q == (x + unit - 1) \div unit
  <1>1. x + unit - 1 \in Nat
    OBVIOUS
  <1>2. q \in Nat /\ unit * q <= x + unit - 1
    BY <1>1, Division
  <1>3. RoundUp(x, unit) = unit * q
    BY DEF RoundUp
  <1> HIDE DEF q
  <1>4. unit * q \in Nat /\ unit * k \in Nat
    BY <1>2, SMT
  <1>5. CASE k < q
    <2>1. unit * k + unit <= unit * q
      BY <1>2, <1>5, ProductIsMonotone
    <2> QED BY <1>2, <1>4, <2>1
  <1>6. CASE q = k
    BY <1>3, <1>6
  <1>7. CASE q < k
    <2>1. unit * q + unit <= unit * k
      BY <1>2, <1>7, ProductIsMonotone
    <2> QED BY <1>3, <1>4, <2>1
  <1> QED
    BY <1>2, <1>5, <1>6, <1>7

\* A number of pages more is a number of pages more.
LEMMA RoundUpShifts ==
  ASSUME NEW x \in Nat, NEW unit \in Nat \ {0}, NEW n \in Nat
  PROVE  RoundUp(x, unit) + n * unit <= RoundUp(x + n * unit, unit)
  <1>1. n * unit \in Nat /\ n * unit = unit * n /\ x + n * unit \in Nat
    BY SMT
  <1>2. PICK k \in Nat : RoundUp(x + n * unit, unit) = unit * k
    BY <1>1, RoundUpIsMultiple
  <1>3. x + n * unit <= unit * k
    BY <1>1, <1>2, RoundUpIsMultiple
  <1>4. n <= k
    <2>1. SUFFICES ASSUME k < n PROVE FALSE
      OBVIOUS
    <2>2. unit * k + unit <= unit * n
      BY <2>1, ProductIsMonotone
    <2>3. unit * k \in Nat
      BY SMT
    <2> QED BY <1>1, <1>3, <2>2, <2>3
  <1>5. k - n \in Nat /\ unit * (k - n) = unit * k - unit * n
    BY <1>4, SMT
  <1>6. unit * k \in Nat
    BY SMT
  <1>7. x <= unit * (k - n)
    BY <1>1, <1>3, <1>5, <1>6
  <1>8. RoundUp(x, unit) <= unit * (k - n)
    BY <1>5, <1>7, RoundUpIsSmallest
  <1>9. RoundUp(x, unit) \in Nat
    BY RoundUpIsMultiple
  <1> QED
    BY <1>1, <1>2, <1>5, <1>6, <1>8, <1>9

\* What fits in whole pages fits in whole zones.
LEMMA PagesWithinZones ==
  ASSUME NEW x \in Nat
  PROVE  P_Fn(x) <= Z_Fn(x)
  <1>1. PICK k \in Nat : RoundUp(x, Zz) = Zz * k
    BY RoundUpIsMultiple, ZonesAssumption
  <1>2. PICK n \in Nat : Zz = Zp * n
    <2>1. Zz = Zp * (Zz \div Zp) /\ Zz \div Zp \in Nat
      BY ZonesAssumption, PagesAssumption, SMT
    <2> QED BY <2>1
  <1>3. Zz * k = Zp * (n * k) /\ n * k \in Nat
    BY <1>2, PagesAssumption, SMT
  <1>4. x <= Zp * (n * k)
    BY <1>1, <1>3, RoundUpIsMultiple, ZonesAssumption
  <1>5. RoundUp(x, Zp) <= Zp * (n * k)
    BY <1>3, <1>4, PagesAssumption, RoundUpIsSmallest
  <1> QED
    BY <1>1, <1>3, <1>5 DEF P_Fn, Z_Fn

(* In the memory of a program that fits, with an argument no longer than   *)
(* the room kept for it, no two segments meet, and a whole zone without    *)
(* access lies between any two of them, below the first and above the last *)
(* (program.ts:87-96, for the segments of program.ts:149-198).              *)
THEOREM SegmentsNeverMeet ==
  ASSUME NEW h, h.o \in Nat, h.w \in Nat, h.z \in Nat, h.s \in Nat,
         NEW argument \in Seq(Nat), P_Fn(Len(argument)) <= Zi, Fits(h)
  PROVE  SegmentsApart(h, argument)
  <1> DEFINE L == Pow(4)
             o == P_Fn(h.o)
             O == Z_Fn(h.o)
             w == P_Fn(h.w)
             pages == h.z * Zp
             W == Z_Fn(h.w + h.z * Zp)
             s == P_Fn(h.s)
             S == Z_Fn(h.s)
             a == P_Fn(Len(argument))
  <1>1. L \in Nat /\ Zz \in Nat /\ Zi \in Nat /\ Zp \in Nat \ {0} /\ Zz \in Nat \ {0}
    BY ZonesAssumption, PagesAssumption
  <1>2. pages \in Nat /\ h.w + pages \in Nat
    <2>1. \A m \in Nat, n \in Nat : m * n \in Nat
      BY SMT
    <2>2. h.z \in Nat /\ Zp \in Nat
      BY <1>1
    <2>3. pages \in Nat
      BY <2>1, <2>2, Zenon
    <2> HIDE DEF pages
    <2> QED BY <2>3
  <1>3. o \in Nat /\ w \in Nat /\ s \in Nat /\ a \in Nat
    <2>1. Len(argument) \in Nat
      OBVIOUS
    <2> QED BY <1>1, <2>1, RoundUpIsMultiple DEF P_Fn
  <1>4. O \in Nat /\ W \in Nat /\ S \in Nat
    BY <1>1, <1>2, RoundUpIsMultiple DEF Z_Fn
  <1>5. o <= O /\ s <= S
    BY PagesWithinZones
  <1>6. w + pages <= W
    <2>1. w + pages <= P_Fn(h.w + pages)
      BY <1>1, RoundUpShifts DEF P_Fn
    <2>2. P_Fn(h.w + pages) <= W
      BY <1>2, PagesWithinZones
    <2>3. P_Fn(h.w + pages) \in Nat
      BY <1>1, <1>2, RoundUpIsMultiple DEF P_Fn
    <2> QED BY <1>2, <1>3, <1>4, <2>1, <2>2, <2>3
  <1>7. 5 * Zz + O + W + S + Zi <= L
    BY DEF Fits
  <1>8. a <= Zi
    OBVIOUS
  <1>9. SegmentsApart(h, argument) <=>
          /\ Zz >= Zz
          /\ Zz + o + Zz <= 2 * Zz + O
          /\ 2 * Zz + O + w + pages + Zz <= L - 2 * Zz - Zi - s
          /\ L - 2 * Zz - Zi + Zz <= L - Zz - Zi
          /\ L - Zz - Zi + a + Zz <= L
    BY DEF SegmentsApart, Segments, RwSectionEnd, RwStart
  <1> HIDE DEF L, o, O, w, pages, W, s, S, a
  <1> QED
    BY <1>1, <1>2, <1>3, <1>4, <1>5, <1>6, <1>7, <1>8, <1>9
=============================================================================
