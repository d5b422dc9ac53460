------------------------ MODULE ServiceAccountProofs ------------------------
(***************************************************************************)
(* Proofs about ServiceAccount for any keys, hashes, lengths, prices and   *)
(* amounts, any number of calls and any slots: that accounts are well      *)
(* typed and solvent, that lookups are truthful, that the counters are     *)
(* exact, and that an ejection therefore loses nothing.                    *)
(***************************************************************************)
EXTENDS ServiceAccount, FiniteSetTheorems, WellFoundedInduction, TLAPS

Stores == UNION {[K -> ValueLengths] : K \in SUBSET Keys}
Times(s) == {q \in Seq(0 .. s) : Len(q) <= 3}
RequestMaps(s) == UNION {[R -> Times(s)] : R \in SUBSET Requestable}

(* Accounts and contexts as of slot s.                                     *)
AccountType(s) ==
  [code : Hashes \cup {Ejector}, gratis : Nat, balance : Nat, items : Int, octets : Int,
   storage : Stores, requests : RequestMaps(s), preimages : SUBSET Hashes]

Requested(a) == \A h \in a.preimages : <<h, PreimageLength[h]>> \in DOMAIN a.requests

Sound(a, s) == a \in AccountType(s) /\ Requested(a) /\ MayAfford(a)

SoundContext(c, s) ==
  /\ c \in [account : AccountType(s), provisions : SUBSET Hashes]
  /\ Sound(c.account, s)

(* The inductive invariant: every account around is well typed, holds only *)
(* what is requested and can pay for it.                                   *)
AccountInv ==
  /\ slot \in 0 .. MaxSlot /\ inBlock \in BOOLEAN /\ ep \subseteq Hashes
  /\ acct = Nothing \/ Sound(acct, slot)
  /\ \/ x = Nothing /\ y = Nothing
     \/ SoundContext(x, slot) /\ SoundContext(y, slot)

LEMMA Lengths ==
  /\ \A h \in Hashes : PreimageLength[h] \in Nat
  /\ \A k \in Keys : KeyLength[k] \in Nat
  /\ \A v \in ValueLengths : v \in Nat
<1>1. PreimageLength \in [Hashes -> Nat] /\ KeyLength \in [Keys -> Nat]
      /\ ValueLengths \subseteq Nat \ {0}
  BY ConstantsAssumption
<1> QED
  BY <1>1

LEMMA RequestLengths ==
  ASSUME NEW r \in Requestable
  PROVE  r[2] \in Nat /\ r[1] \in Hashes
<1>1. OtherLengths \subseteq Nat
  BY ConstantsAssumption
<1>2. CASE \E h \in Hashes : r = <<h, PreimageLength[h]>>
  BY <1>2, Lengths
<1>3. CASE r \in Hashes \X OtherLengths
  BY <1>3, <1>1
<1> QED
  BY <1>2, <1>3 DEF Requestable

LEMMA Prices == MinBalance \in Nat /\ PerItem \in Nat /\ PerOctet \in Nat
BY ConstantsAssumption

LEMMA SomethingIsNotNothing ==
  ASSUME NEW s, NEW a, a \in AccountType(s)
  PROVE  a # Nothing
<1>1. DOMAIN a = {"code", "gratis", "balance", "items", "octets", "storage", "requests", "preimages"}
  BY DEF AccountType
<1>2. DOMAIN Nothing = {"none"}
  BY DEF Nothing
<1> QED
  BY <1>1, <1>2

LEMMA ContextIsNotNothing ==
  ASSUME NEW s, NEW c, SoundContext(c, s)
  PROVE  c # Nothing
<1>1. DOMAIN c = {"account", "provisions"}
  BY DEF SoundContext
<1>2. DOMAIN Nothing = {"none"}
  BY DEF Nothing
<1> QED
  BY <1>1, <1>2

-----------------------------------------------------------------------------
(* Less costs less.                                                        *)
LEMMA ThresholdFalls ==
  ASSUME NEW p \in Nat, NEW i \in Int, NEW j \in Int, i <= j
  PROVE  p * i <= p * j
<1>1. p * j - p * i = p * (j - i)
  OBVIOUS
<1>2. p * (j - i) >= 0
  OBVIOUS
<1> QED
  BY <1>1, <1>2

LEMMA ThresholdIsMonotone ==
  ASSUME NEW a, NEW b,
         a.items \in Int, a.octets \in Int, a.gratis \in Nat,
         b.items \in Int, b.octets \in Int, b.gratis = a.gratis,
         a.items <= b.items, a.octets <= b.octets
  PROVE  Threshold(a) <= Threshold(b) /\ Threshold(a) \in Nat
<1>1. PerItem * a.items <= PerItem * b.items /\ PerOctet * a.octets <= PerOctet * b.octets
  BY Prices, ThresholdFalls
<1>2. PerItem * a.items \in Int /\ PerItem * b.items \in Int
      /\ PerOctet * a.octets \in Int /\ PerOctet * b.octets \in Int
  BY Prices
<1> DEFINE pa == PerItem * a.items  pb == PerItem * b.items
           oa == PerOctet * a.octets  ob == PerOctet * b.octets
<1>3. pa \in Int /\ pb \in Int /\ oa \in Int /\ ob \in Int /\ pa <= pb /\ oa <= ob
  BY <1>1, <1>2
<1>4. /\ Threshold(a) = AtLeastZero(MinBalance + pa + oa - a.gratis)
      /\ Threshold(b) = AtLeastZero(MinBalance + pb + ob - a.gratis)
  BY DEF Threshold
<1> HIDE DEF pa, pb, oa, ob
<1> QED
  BY <1>3, <1>4, Prices DEF AtLeastZero

-----------------------------------------------------------------------------
(* The operations on an account keep its type, and these say what each     *)
(* leaves alone.                                                           *)
LEMMA StorePut ==
  ASSUME NEW f \in Stores, NEW k \in Keys, NEW v \in ValueLengths
  PROVE  Put(f, k, v) \in Stores
<1>1. PICK K \in SUBSET Keys : f \in [K -> ValueLengths]
  BY DEF Stores
<1>2. Put(f, k, v) \in [K \cup {k} -> ValueLengths]
  BY <1>1 DEF Put
<1> QED
  BY <1>2 DEF Stores

LEMMA StoreWithout ==
  ASSUME NEW f \in Stores, NEW k
  PROVE  /\ Without(f, k) \in Stores
         /\ k \in DOMAIN f => f[k] \in Nat
<1>1. PICK K \in SUBSET Keys : f \in [K -> ValueLengths]
  BY DEF Stores
<1>2. Without(f, k) \in [K \ {k} -> ValueLengths]
  BY <1>1 DEF Without
<1>3. k \in DOMAIN f => f[k] \in Nat
  BY <1>1, Lengths
<1> QED
  BY <1>2, <1>3 DEF Stores

LEMMA RequestPut ==
  ASSUME NEW s, NEW f \in RequestMaps(s), NEW r \in Requestable, NEW q \in Times(s)
  PROVE  Put(f, r, q) \in RequestMaps(s) /\ DOMAIN Put(f, r, q) = DOMAIN f \cup {r}
<1>1. PICK R \in SUBSET Requestable : f \in [R -> Times(s)]
  BY DEF RequestMaps
<1>2. Put(f, r, q) \in [R \cup {r} -> Times(s)]
  BY <1>1 DEF Put
<1> QED
  BY <1>1, <1>2 DEF RequestMaps

LEMMA RequestWithout ==
  ASSUME NEW s, NEW f \in RequestMaps(s), NEW r
  PROVE  Without(f, r) \in RequestMaps(s) /\ DOMAIN Without(f, r) = DOMAIN f \ {r}
<1>1. PICK R \in SUBSET Requestable : f \in [R -> Times(s)]
  BY DEF RequestMaps
<1>2. Without(f, r) \in [R \ {r} -> Times(s)]
  BY <1>1 DEF Without
<1> QED
  BY <1>1, <1>2 DEF RequestMaps

LEMMA StorageDeleted ==
  ASSUME NEW s, NEW a \in AccountType(s), NEW k \in Keys
  PROVE  LET d == DeleteStorage(a, k)
         IN /\ d \in AccountType(s)
            /\ d.requests = a.requests /\ d.preimages = a.preimages
            /\ d.balance = a.balance /\ d.gratis = a.gratis
            /\ d.items <= a.items /\ d.octets <= a.octets
<1>1. CASE k \notin DOMAIN a.storage
  BY <1>1 DEF DeleteStorage, AccountType
<1>2. CASE k \in DOMAIN a.storage
  <2>1. a.storage \in Stores /\ a.items \in Int /\ a.octets \in Int
    BY DEF AccountType
  <2>2. Without(a.storage, k) \in Stores /\ a.storage[k] \in Nat /\ KeyLength[k] \in Nat
    BY <1>2, <2>1, StoreWithout, Lengths
  <2> DEFINE n == a.items - 1  o == a.octets - 34 - a.storage[k] - KeyLength[k]
  <2>3. n \in Int /\ o \in Int /\ n <= a.items /\ o <= a.octets
    BY <2>1, <2>2
  <2>4. DeleteStorage(a, k) = [a EXCEPT !.storage = Without(a.storage, k), !.items = n, !.octets = o]
    BY <1>2 DEF DeleteStorage
  <2> HIDE DEF n, o
  <2> QED
    BY <2>2, <2>3, <2>4 DEF AccountType
<1> QED
  BY <1>1, <1>2

LEMMA StorageSet ==
  ASSUME NEW s, NEW a \in AccountType(s), NEW k \in Keys, NEW v \in ValueLengths
  PROVE  LET d == SetStorage(a, k, v)
         IN /\ d \in AccountType(s)
            /\ d.requests = a.requests /\ d.preimages = a.preimages
<1> DEFINE d == DeleteStorage(a, k)
<1>1. /\ d \in AccountType(s)
      /\ d.requests = a.requests /\ d.preimages = a.preimages
  BY StorageDeleted
<1> DEFINE n == d.items + 1  o == d.octets + 34 + v + KeyLength[k]
<1>2. SetStorage(a, k, v) = [d EXCEPT !.storage = Put(d.storage, k, v), !.items = n, !.octets = o]
  BY DEF SetStorage
<1> HIDE DEF d
<1>3. d.storage \in Stores /\ d.items \in Int /\ d.octets \in Int
  BY <1>1 DEF AccountType
<1>4. Put(d.storage, k, v) \in Stores
  BY <1>3, StorePut
<1>5. v \in Nat /\ KeyLength[k] \in Nat
  BY Lengths
<1>6. n \in Int /\ o \in Int
  BY <1>3, <1>5
<1> HIDE DEF n, o
<1> QED
  BY <1>1, <1>2, <1>4, <1>6 DEF AccountType

LEMMA RequestDeleted ==
  ASSUME NEW s, NEW a \in AccountType(s), NEW r \in Requestable
  PROVE  LET d == DeleteRequest(a, r)
         IN /\ d \in AccountType(s)
            /\ DOMAIN d.requests = DOMAIN a.requests \ {r}
            /\ d.preimages = a.preimages
            /\ d.balance = a.balance /\ d.gratis = a.gratis
            /\ d.items <= a.items /\ d.octets <= a.octets
<1>0. a.requests \in RequestMaps(s) /\ a.items \in Int /\ a.octets \in Int
  BY DEF AccountType
<1>1. CASE r \notin DOMAIN a.requests
  BY <1>0, <1>1 DEF DeleteRequest
<1>2. CASE r \in DOMAIN a.requests
  <2>2. /\ Without(a.requests, r) \in RequestMaps(s)
        /\ DOMAIN Without(a.requests, r) = DOMAIN a.requests \ {r}
        /\ r[2] \in Nat
    BY <1>0, RequestWithout, RequestLengths
  <2> DEFINE n == a.items - 2  o == a.octets - (81 + r[2])
  <2>3. n \in Int /\ o \in Int /\ n <= a.items /\ o <= a.octets
    BY <1>0, <2>2
  <2>4. DeleteRequest(a, r) = [a EXCEPT !.requests = Without(a.requests, r), !.items = n, !.octets = o]
    BY <1>2 DEF DeleteRequest
  <2> HIDE DEF n, o
  <2> QED
    BY <2>2, <2>3, <2>4 DEF AccountType
<1> QED
  BY <1>1, <1>2

(* A request set anew occupies what it did before.                         *)
LEMMA RequestSet ==
  ASSUME NEW s, NEW a \in AccountType(s), NEW r \in Requestable, NEW q \in Times(s)
  PROVE  LET d == SetRequest(a, r, q)
         IN /\ d \in AccountType(s)
            /\ DOMAIN d.requests = DOMAIN a.requests \cup {r}
            /\ d.preimages = a.preimages
            /\ d.balance = a.balance /\ d.gratis = a.gratis
            /\ r \in DOMAIN a.requests => d.items = a.items /\ d.octets = a.octets
<1> DEFINE d == DeleteRequest(a, r)
<1>1. /\ d \in AccountType(s)
      /\ DOMAIN d.requests = DOMAIN a.requests \ {r}
      /\ d.preimages = a.preimages
      /\ d.balance = a.balance /\ d.gratis = a.gratis
  BY RequestDeleted
<1>2. a.items \in Int /\ a.octets \in Int /\ r[2] \in Nat
  BY RequestLengths DEF AccountType
<1>3. r \in DOMAIN a.requests => d.items = a.items - 2 /\ d.octets = a.octets - (81 + r[2])
  BY DEF DeleteRequest, AccountType
<1> DEFINE n == d.items + 2  o == d.octets + 81 + r[2]
<1>4. SetRequest(a, r, q) = [d EXCEPT !.requests = Put(d.requests, r, q), !.items = n, !.octets = o]
  BY DEF SetRequest
<1> HIDE DEF d
<1>5. d.requests \in RequestMaps(s) /\ d.items \in Int /\ d.octets \in Int
  BY <1>1 DEF AccountType
<1>6. /\ Put(d.requests, r, q) \in RequestMaps(s)
      /\ DOMAIN Put(d.requests, r, q) = DOMAIN d.requests \cup {r}
  <2> DEFINE f == d.requests
  <2>1. f \in RequestMaps(s)
    BY <1>5
  <2> HIDE DEF f
  <2>2. Put(f, r, q) \in RequestMaps(s) /\ DOMAIN Put(f, r, q) = DOMAIN f \cup {r}
    BY SMTT(20), <2>1, r \in Requestable, q \in Times(s), RequestPut
  <2> QED
    BY <2>2 DEF f
<1>7. n \in Int /\ o \in Int
  BY <1>5, <1>2
<1>8. r \in DOMAIN a.requests => n = a.items /\ o = a.octets
  BY <1>2, <1>3, <1>5
<1> HIDE DEF n, o
<1> QED
  BY <1>1, <1>4, <1>6, <1>7, <1>8 DEF AccountType

LEMMA Integrated ==
  ASSUME slot \in Nat, NEW a \in AccountType(slot), NEW hs \in SUBSET Hashes, Requested(a)
  PROVE  LET d == Integrate(a, hs)
         IN /\ d \in AccountType(slot) /\ Requested(d)
            /\ d.balance = a.balance /\ d.gratis = a.gratis
            /\ d.items = a.items /\ d.octets = a.octets
<1> DEFINE taken == {h \in hs : Solicited(a, h)}
           m == [r \in DOMAIN a.requests |-> IF r[1] \in taken /\ a.requests[r] = << >>
                                                   /\ r[2] = PreimageLength[r[1]]
                                            THEN <<slot>> ELSE a.requests[r]]
<1>1. Integrate(a, hs) = [a EXCEPT !.requests = m, !.preimages = a.preimages \cup taken]
  BY DEF Integrate
<1>2. PICK R \in SUBSET Requestable : a.requests \in [R -> Times(slot)]
  BY DEF AccountType, RequestMaps
<1>3. <<slot>> \in Times(slot)
  BY DEF Times
<1>4. m \in [R -> Times(slot)]
  BY <1>2, <1>3
<1>5. m \in RequestMaps(slot) /\ DOMAIN m = DOMAIN a.requests
  BY <1>4 DEF RequestMaps
<1>6. taken \subseteq Hashes /\ \A h \in taken : <<h, PreimageLength[h]>> \in DOMAIN a.requests
  BY DEF Solicited
<1> HIDE DEF m, taken
<1> QED
  BY <1>1, <1>5, <1>6 DEF AccountType, Requested

-----------------------------------------------------------------------------
(* What keeps an account sound.                                            *)
LEMMA LaterType ==
  ASSUME NEW s \in Nat, NEW t \in Nat, s <= t
  PROVE  AccountType(s) \subseteq AccountType(t)
<1>1. Times(s) \subseteq Times(t)
  <2> SUFFICES ASSUME NEW q \in Times(s)
               PROVE  q \in Times(t)
    OBVIOUS
  <2>1. q \in Seq(0 .. s) /\ Len(q) <= 3
    BY DEF Times
  <2>2. 0 .. s \subseteq 0 .. t
    OBVIOUS
  <2>3. q \in Seq(0 .. t)
    BY <2>1, <2>2
  <2> QED
    BY <2>1, <2>3 DEF Times
<1>2. RequestMaps(s) \subseteq RequestMaps(t)
  <2> SUFFICES ASSUME NEW f \in RequestMaps(s)
               PROVE  f \in RequestMaps(t)
    OBVIOUS
  <2>1. PICK R \in SUBSET Requestable : f \in [R -> Times(s)]
    BY DEF RequestMaps
  <2>2. f \in [R -> Times(t)]
    BY <2>1, <1>1
  <2> QED
    BY <2>2 DEF RequestMaps
<1> QED
  BY <1>2 DEF AccountType

LEMMA StillAfforded ==
  ASSUME NEW s, NEW a \in AccountType(s), NEW b \in AccountType(s), MayAfford(a),
         b.items <= a.items, b.octets <= a.octets, b.gratis = a.gratis, b.balance >= a.balance
  PROVE  MayAfford(b)
<1>1. /\ a.items \in Int /\ a.octets \in Int /\ a.gratis \in Nat /\ a.balance \in Nat
      /\ b.items \in Int /\ b.octets \in Int /\ b.gratis \in Nat /\ b.balance \in Nat
  BY DEF AccountType
<1>2. Threshold(b) <= Threshold(a) /\ Threshold(b) \in Nat
  BY <1>1, ThresholdIsMonotone
<1>3. Threshold(a) \in Nat
  BY <1>1, ThresholdIsMonotone
<1>4. a.balance >= Threshold(a)
  BY DEF MayAfford
<1>5. b.balance >= Threshold(b)
  BY <1>1, <1>2, <1>3, <1>4
<1> QED
  BY <1>5 DEF MayAfford

LEMMA Empty == << >> \in Stores /\ \A s : << >> \in RequestMaps(s)
<1>1. << >> \in [{} -> ValueLengths] /\ \A s : << >> \in [{} -> Times(s)]
  OBVIOUS
<1> QED
  BY <1>1 DEF Stores, RequestMaps

LEMMA NewIsSound ==
  ASSUME NEW r \in Requestable, NEW g \in Nat
  PROVE  Sound(NewAccount(r[1], r[2], g), 0)
<1> DEFINE bare == [code |-> r[1], gratis |-> g, balance |-> 0, items |-> 0, octets |-> 0,
                    storage |-> << >>, requests |-> << >>, preimages |-> {}]
           a == SetRequest(bare, r, << >>)
<1>1. bare \in AccountType(0)
  BY Empty, RequestLengths DEF AccountType
<1>2. << >> \in Times(0)
  BY DEF Times
<1>3. a \in AccountType(0) /\ a.preimages = {}
  <2> HIDE DEF bare
  <2>1. a.preimages = bare.preimages /\ a \in AccountType(0)
    BY <1>1, <1>2, RequestSet
  <2> QED
    BY <2>1 DEF bare
<1>4. r = <<r[1], r[2]>>
  BY DEF Requestable
<1>5. NewAccount(r[1], r[2], g) = [a EXCEPT !.balance = Threshold(a)]
  BY <1>4 DEF NewAccount
<1> DEFINE n == [a EXCEPT !.balance = Threshold(a)]
<1> HIDE DEF a, bare
<1>6. a.items \in Int /\ a.octets \in Int /\ a.gratis \in Nat
  BY <1>3 DEF AccountType
<1>7. Threshold(a) \in Nat
  BY <1>6, ThresholdIsMonotone
<1>8. n \in AccountType(0) /\ n.preimages = {} /\ n.balance = Threshold(a)
  BY <1>3, <1>7 DEF AccountType
<1>9. n.items = a.items /\ n.octets = a.octets /\ n.gratis = a.gratis
  BY <1>3 DEF AccountType
<1>10. Threshold(n) = Threshold(a)
  BY <1>9 DEF Threshold
<1> HIDE DEF n
<1>11. MayAfford(n)
  BY <1>7, <1>8, <1>10 DEF MayAfford
<1>12. Requested(n)
  BY <1>8 DEF Requested
<1> QED
  BY <1>5, <1>8, <1>11, <1>12 DEF Sound, n

-----------------------------------------------------------------------------
(* What host calls make of a sound account.                                *)
LEMMA WriteSound ==
  ASSUME NEW s, NEW a, Sound(a, s), NEW k \in Keys, NEW v \in ValueLengths \cup {0},
         MayAfford(IF v = 0 THEN DeleteStorage(a, k) ELSE SetStorage(a, k, v))
  PROVE  Sound(IF v = 0 THEN DeleteStorage(a, k) ELSE SetStorage(a, k, v), s)
<1>1. a \in AccountType(s) /\ Requested(a)
  BY DEF Sound
<1>2. CASE v = 0
  <2> DEFINE d == DeleteStorage(a, k)
  <2>1. d \in AccountType(s) /\ d.requests = a.requests /\ d.preimages = a.preimages
    BY <1>1, StorageDeleted
  <2> HIDE DEF d
  <2>2. Requested(d)
    BY <1>1, <2>1 DEF Requested
  <2> QED
    BY <1>2, <2>1, <2>2 DEF Sound, d
<1>3. CASE v # 0
  <2> DEFINE d == SetStorage(a, k, v)
  <2>1. d \in AccountType(s) /\ d.requests = a.requests /\ d.preimages = a.preimages
    BY <1>1, <1>3, StorageSet
  <2> HIDE DEF d
  <2>2. Requested(d)
    BY <1>1, <2>1 DEF Requested
  <2> QED
    BY <1>3, <2>1, <2>2 DEF Sound, d
<1> QED
  BY <1>2, <1>3

LEMMA RequestSetSound ==
  ASSUME NEW s, NEW a, Sound(a, s), NEW r \in Requestable, NEW q \in Times(s),
         r \in DOMAIN a.requests \/ MayAfford(SetRequest(a, r, q))
  PROVE  Sound(SetRequest(a, r, q), s)
<1> DEFINE d == SetRequest(a, r, q)
<1>1. a \in AccountType(s) /\ Requested(a) /\ MayAfford(a)
  BY DEF Sound
<1>2. /\ d \in AccountType(s)
      /\ DOMAIN d.requests = DOMAIN a.requests \cup {r}
      /\ d.preimages = a.preimages
      /\ d.balance = a.balance /\ d.gratis = a.gratis
      /\ r \in DOMAIN a.requests => d.items = a.items /\ d.octets = a.octets
  BY <1>1, RequestSet
<1>3. r \in DOMAIN a.requests \/ MayAfford(d)
  OBVIOUS
<1> HIDE DEF d
<1>4. Requested(d)
  BY <1>1, <1>2 DEF Requested
<1>5. MayAfford(d)
  <2>1. CASE r \in DOMAIN a.requests
    <3>1. a.items \in Int /\ a.octets \in Int /\ a.balance \in Nat
      BY <1>1 DEF AccountType
    <3>2. d.items <= a.items /\ d.octets <= a.octets /\ d.balance >= a.balance
      BY <1>2, <2>1, <3>1
    <3> QED
      BY <1>1, <1>2, <3>2, StillAfforded
  <2> QED
    BY <2>1, <1>3
<1> QED
  BY <1>2, <1>4, <1>5 DEF Sound, d

(* Dropping a request takes the preimage along.                            *)
LEMMA DropSound ==
  ASSUME NEW s, NEW a, Sound(a, s), NEW r \in Requestable
  PROVE  Sound(DropRequest(a, r), s)
<1> DEFINE d == DeleteRequest(a, r)
           e == [d EXCEPT !.preimages = d.preimages \ {r[1]}]
<1>1. a \in AccountType(s) /\ Requested(a) /\ MayAfford(a)
  BY DEF Sound
<1>2. /\ d \in AccountType(s)
      /\ DOMAIN d.requests = DOMAIN a.requests \ {r}
      /\ d.preimages = a.preimages
      /\ d.balance = a.balance /\ d.gratis = a.gratis
      /\ d.items <= a.items /\ d.octets <= a.octets
  BY <1>1, RequestDeleted
<1>3. DropRequest(a, r) = e
  BY DEF DropRequest
<1> HIDE DEF d
<1>4. e \in AccountType(s) /\ e.preimages = a.preimages \ {r[1]} /\ e.requests = d.requests
      /\ e.balance = a.balance /\ e.gratis = a.gratis /\ e.items = d.items /\ e.octets = d.octets
  BY <1>2 DEF AccountType
<1> HIDE DEF e
<1>5. Requested(e)
  BY <1>1, <1>2, <1>4 DEF Requested
<1>6. a.balance \in Nat
  BY <1>1 DEF AccountType
<1>7. MayAfford(e)
  BY <1>1, <1>2, <1>4, <1>6, StillAfforded
<1> QED
  BY <1>3, <1>4, <1>5, <1>7 DEF Sound

LEMMA CreditSound ==
  ASSUME NEW s, NEW a, Sound(a, s), NEW n \in Nat
  PROVE  Sound([a EXCEPT !.balance = a.balance + n], s)
<1> DEFINE b == [a EXCEPT !.balance = a.balance + n]
<1>1. a \in AccountType(s) /\ Requested(a) /\ MayAfford(a)
  BY DEF Sound
<1>2. a.balance \in Nat /\ a.items \in Int /\ a.octets \in Int
  BY <1>1 DEF AccountType
<1>3. b \in AccountType(s) /\ b.items = a.items /\ b.octets = a.octets /\ b.gratis = a.gratis
      /\ b.balance = a.balance + n /\ b.requests = a.requests /\ b.preimages = a.preimages
  BY <1>1, <1>2 DEF AccountType
<1> HIDE DEF b
<1>4. b.items <= a.items /\ b.octets <= a.octets /\ b.balance >= a.balance
  BY <1>2, <1>3
<1>5. MayAfford(b)
  BY <1>1, <1>3, <1>4, StillAfforded
<1>6. Requested(b)
  BY <1>1, <1>3 DEF Requested
<1> QED
  BY <1>3, <1>5, <1>6 DEF Sound, b

LEMMA PaidSound ==
  ASSUME NEW s, NEW a, Sound(a, s), NEW n \in Nat,
         MayAfford([a EXCEPT !.balance = a.balance - n])
  PROVE  Sound([a EXCEPT !.balance = a.balance - n], s)
<1> DEFINE b == [a EXCEPT !.balance = a.balance - n]
<1>1. a \in AccountType(s) /\ Requested(a)
  BY DEF Sound
<1>2. a.balance \in Nat /\ a.items \in Int /\ a.octets \in Int /\ a.gratis \in Nat
  BY <1>1 DEF AccountType
<1>3. b.items = a.items /\ b.octets = a.octets /\ b.gratis = a.gratis
      /\ b.balance = a.balance - n /\ b.requests = a.requests /\ b.preimages = a.preimages
  BY <1>1 DEF AccountType
<1>4. MayAfford(b)
  OBVIOUS
<1>5. Threshold(b) \in Nat
  <2> HIDE DEF b
  <2> QED
    BY <1>2, <1>3, ThresholdIsMonotone
<1>6. b.balance \in Nat
  <2> HIDE DEF b
  <2> QED
    BY <1>2, <1>3, <1>4, <1>5 DEF MayAfford
<1>7. b \in AccountType(s)
  BY <1>1, <1>3, <1>6 DEF AccountType
<1>8. Requested(b)
  <2> HIDE DEF b
  <2> QED
    BY <1>1, <1>3 DEF Requested
<1> QED
  BY <1>4, <1>7, <1>8 DEF Sound

LEMMA IntegrateSound ==
  ASSUME slot \in Nat, NEW a, Sound(a, slot), NEW hs \in SUBSET Hashes
  PROVE  Sound(Integrate(a, hs), slot)
<1> DEFINE d == Integrate(a, hs)
<1>1. a \in AccountType(slot) /\ Requested(a) /\ MayAfford(a)
  BY DEF Sound
<1>2. /\ d \in AccountType(slot) /\ Requested(d)
      /\ d.balance = a.balance /\ d.gratis = a.gratis
      /\ d.items = a.items /\ d.octets = a.octets
  BY <1>1, Integrated
<1> HIDE DEF d
<1>3. a.items \in Int /\ a.octets \in Int /\ a.balance \in Nat
  BY <1>1 DEF AccountType
<1>4. d.items <= a.items /\ d.octets <= a.octets /\ d.balance >= a.balance
  BY <1>2, <1>3
<1>5. MayAfford(d)
  BY <1>1, <1>2, <1>4, StillAfforded
<1> QED
  BY <1>2, <1>5 DEF Sound, d

-----------------------------------------------------------------------------
LEMMA SequenceFacts ==
  ASSUME NEW S, NEW q \in Seq(S)
  PROVE  /\ \A i \in 1 .. Len(q) : q[i] \in S
         /\ \A v \in S : Append(q, v) \in Seq(S) /\ Len(Append(q, v)) = Len(q) + 1
OBVIOUS

LEMMA InitSound == Init => AccountInv
<1> SUFFICES ASSUME Init
             PROVE  AccountInv
  OBVIOUS
<1>1. PICK r \in Requestable, g \in {0, MinBalance} : acct = NewAccount(r[1], r[2], g)
  BY DEF Init
<1>2. Sound(acct, 0)
  BY <1>1, NewIsSound, Prices
<1>3. MaxSlot \in Nat
  BY ConstantsAssumption
<1>4. slot = 0 /\ slot \in 0 .. MaxSlot
  BY <1>3 DEF Init
<1>5. inBlock \in BOOLEAN /\ ep \subseteq Hashes /\ x = Nothing /\ y = Nothing
  BY DEF Init
<1>6. Sound(acct, slot)
  BY <1>2, <1>4
<1> QED
  BY <1>4, <1>5, <1>6 DEF AccountInv

(* A host call that leaves the context with a sound account.               *)
LEMMA BecomesSound ==
  ASSUME AccountInv, x # Nothing, NEW a, Sound(a, slot), Becomes(a)
  PROVE  AccountInv'
<1>1. SoundContext(x, slot) /\ SoundContext(y, slot)
  BY DEF AccountInv
<1>2. a \in AccountType(slot)
  BY DEF Sound
<1>3. x' = [x EXCEPT !.account = a]
  BY DEF Becomes
<1>4. SoundContext(x', slot)
  BY <1>1, <1>2, <1>3 DEF SoundContext
<1> QED
  BY <1>1, <1>4 DEF AccountInv, Becomes

LEMMA CallSound ==
  ASSUME AccountInv, HostCall
  PROVE  AccountInv'
<1> DEFINE a == x.account
<1>1. x # Nothing
  BY DEF HostCall, Write, Solicit, Forget, Provide, Upgrade, Pay, Checkpoint, Running
<1>2. SoundContext(x, slot) /\ SoundContext(y, slot) /\ slot \in Nat
  BY <1>1, ConstantsAssumption DEF AccountInv
<1>3. Sound(a, slot) /\ a \in AccountType(slot)
  BY <1>2 DEF SoundContext
<1>4. ASSUME NEW k \in Keys, NEW v \in ValueLengths \cup {0}, Write(k, v)
      PROVE  AccountInv'
  <2> DEFINE b == IF v = 0 THEN DeleteStorage(a, k) ELSE SetStorage(a, k, v)
  <2>1. MayAfford(b) /\ Becomes(b)
    BY <1>4 DEF Write
  <2>2. Sound(b, slot)
    BY <1>3, <2>1, WriteSound
  <2> QED
    BY <1>1, <2>1, <2>2, BecomesSound
<1>5. ASSUME NEW r \in Requestable, r \in DOMAIN a.requests
      PROVE  a.requests[r] \in Seq(0 .. slot) /\ Len(a.requests[r]) <= 3
  BY <1>3, <1>5 DEF AccountType, RequestMaps, Times
<1>6. ASSUME NEW r \in Requestable, Solicit(r)
      PROVE  AccountInv'
  <2> DEFINE past == IF r \in DOMAIN a.requests THEN Append(a.requests[r], slot) ELSE << >>
             b == SetRequest(a, r, past)
  <2>1. MayAfford(b) /\ Becomes(b) /\ (r \in DOMAIN a.requests => Len(a.requests[r]) = 2)
    BY <1>6 DEF Solicit
  <2>2. past \in Times(slot)
    <3>1. CASE r \in DOMAIN a.requests
      <4> DEFINE q == a.requests[r]
      <4>1. q \in Seq(0 .. slot) /\ Len(q) = 2 /\ slot \in 0 .. slot
        BY <1>2, <1>5, <2>1, <3>1
      <4> HIDE DEF q
      <4> DEFINE T == 0 .. slot
      <4> HIDE DEF T
      <4>2. Append(q, slot) \in Seq(T) /\ Len(Append(q, slot)) = Len(q) + 1
        BY <4>1, SequenceFacts DEF T
      <4> QED
        BY <3>1, <4>1, <4>2 DEF Times, q, T
    <3>2. CASE r \notin DOMAIN a.requests
      BY <3>2 DEF Times
    <3> QED
      BY <3>1, <3>2
  <2> HIDE DEF past
  <2>3. Sound(b, slot)
    BY <1>3, <2>1, <2>2, RequestSetSound
  <2> QED
    BY <1>1, <2>1, <2>3, BecomesSound
<1>7. ASSUME NEW r \in Requestable, Forget(r)
      PROVE  AccountInv'
  <2> DEFINE q == a.requests[r]
  <2>1. r \in DOMAIN a.requests /\ q \in Seq(0 .. slot) /\ slot \in 0 .. slot
    BY <1>2, <1>5, <1>7 DEF Forget
  <2>2. \/ Becomes(DropRequest(a, r))
        \/ Len(q) = 1 /\ Becomes(SetRequest(a, r, <<q[1], slot>>))
        \/ Len(q) = 3 /\ Becomes(SetRequest(a, r, <<q[3], slot>>))
    BY <1>7 DEF Forget
  <2> HIDE DEF q
  <2>3. ASSUME NEW t \in 0 .. slot, Becomes(SetRequest(a, r, <<t, slot>>))
        PROVE  AccountInv'
    <3>1. <<t, slot>> \in Times(slot)
      BY <2>1 DEF Times
    <3> DEFINE p == <<t, slot>>
    <3> HIDE DEF p
    <3>2. p \in Times(slot)
      BY <3>1 DEF p
    <3>3. Sound(SetRequest(a, r, p), slot)
      BY <1>3, <2>1, <3>2, RequestSetSound
    <3> QED
      BY <1>1, <2>3, <3>3, BecomesSound DEF p
  <2>4. CASE Becomes(DropRequest(a, r))
    <3>1. Sound(DropRequest(a, r), slot)
      BY <1>3, DropSound
    <3> QED
      BY <1>1, <2>4, <3>1, BecomesSound
  <2>5. CASE Len(q) = 1 /\ Becomes(SetRequest(a, r, <<q[1], slot>>))
    <3>1. q[1] \in 0 .. slot
      BY SMTT(20), <2>1, <2>5, SequenceFacts
    <3> QED
      BY <2>3, <2>5, <3>1
  <2>6. CASE Len(q) = 3 /\ Becomes(SetRequest(a, r, <<q[3], slot>>))
    <3>1. q[3] \in 0 .. slot
      <4>1. 3 \in 1 .. Len(q)
        BY <2>6
      <4> QED
        BY <2>1, <4>1, SequenceFacts
    <3> QED
      BY <2>3, <2>6, <3>1
  <2> QED
    BY <2>2, <2>4, <2>5, <2>6
<1>8. ASSUME NEW h \in Hashes, Provide(h)
      PROVE  AccountInv'
  <2>1. x' = [x EXCEPT !.provisions = x.provisions \cup {h}]
    BY <1>8 DEF Provide
  <2>2. SoundContext(x', slot)
    BY <1>2, <2>1 DEF SoundContext
  <2> QED
    BY <1>2, <1>8, <2>2 DEF AccountInv, Provide
<1>9. ASSUME NEW c \in Hashes \cup {Ejector}, Upgrade(c)
      PROVE  AccountInv'
  <2> DEFINE b == [a EXCEPT !.code = c]
  <2>1. Becomes(b)
    BY <1>9 DEF Upgrade
  <2>2. b \in AccountType(slot) /\ b.items = a.items /\ b.octets = a.octets /\ b.gratis = a.gratis
        /\ b.balance = a.balance /\ b.requests = a.requests /\ b.preimages = a.preimages
    BY <1>3 DEF AccountType
  <2>3. Sound(b, slot)
    <3> HIDE DEF b
    <3> QED
      BY <1>3, <2>2 DEF Sound, Requested, MayAfford, Threshold
  <2> QED
    BY <1>1, <2>1, <2>3, BecomesSound
<1>10. ASSUME NEW n \in Amounts, Pay(n)
       PROVE  AccountInv'
  <2> DEFINE b == [a EXCEPT !.balance = a.balance - n]
  <2>1. MayAfford(b) /\ Becomes(b)
    BY <1>10 DEF Pay
  <2>2. n \in Nat
    BY ConstantsAssumption
  <2>3. Sound(b, slot)
    BY <1>3, <2>1, <2>2, PaidSound
  <2> QED
    BY <1>1, <2>1, <2>3, BecomesSound
<1>11. CASE Checkpoint
  BY <1>2, <1>11 DEF AccountInv, Checkpoint
<1> QED
  BY <1>4, <1>6, <1>7, <1>8, <1>9, <1>10, <1>11 DEF HostCall

LEMMA StepSound == AccountInv /\ [Next]_vars => AccountInv'
<1> SUFFICES ASSUME AccountInv, [Next]_vars
             PROVE  AccountInv'
  OBVIOUS
<1>1. slot \in Nat /\ MaxSlot \in Nat
  BY ConstantsAssumption DEF AccountInv
<1>2. CASE BeginBlock
  <2>1. slot' \in 0 .. MaxSlot /\ slot <= slot' /\ slot' \in Nat
    BY <1>1, <1>2 DEF BeginBlock
  <2>2. ASSUME NEW a, Sound(a, slot)
        PROVE  Sound(a, slot')
    BY <1>1, <2>1, <2>2, LaterType DEF Sound
  <2>3. ASSUME NEW c, SoundContext(c, slot)
        PROVE  SoundContext(c, slot')
    <3>1. AccountType(slot) \subseteq AccountType(slot')
      BY <1>1, <2>1, LaterType
    <3>2. Sound(c.account, slot')
      BY <2>2, <2>3 DEF SoundContext
    <3> QED
      BY <2>3, <3>1, <3>2 DEF SoundContext
  <2>4. acct' = acct /\ x' = x /\ y' = y /\ inBlock' = TRUE /\ ep' \subseteq Hashes
    BY <1>2 DEF BeginBlock
  <2>5. acct' = Nothing \/ Sound(acct', slot')
    BY <2>2, <2>4 DEF AccountInv
  <2>6. (x' = Nothing /\ y' = Nothing) \/ (SoundContext(x', slot') /\ SoundContext(y', slot'))
    BY <2>3, <2>4 DEF AccountInv
  <2>7. inBlock' \in BOOLEAN
    BY <2>4
  <2> QED
    BY <2>1, <2>4, <2>5, <2>6, <2>7 DEF AccountInv
<1>3. ASSUME Idle
      PROVE  Sound(acct, slot) /\ x = Nothing /\ y = Nothing
  <2>1. acct # Nothing /\ x = Nothing
    BY <1>3 DEF Idle
  <2> QED
    BY <2>1, ContextIsNotNothing DEF AccountInv
<1>4. ASSUME Idle, NEW n \in Amounts \cup {0}
      PROVE  Sound(Credit(n), slot)
  <2>1. n \in Nat
    BY ConstantsAssumption
  <2> QED
    BY <1>3, <1>4, <2>1, CreditSound DEF Credit
<1>5. CASE Invoke
  <2>1. PICK n \in Amounts \cup {0} :
          x' = [account |-> Credit(n), provisions |-> {}] /\ y' = x'
    BY <1>5 DEF Invoke
  <2>2. Sound(Credit(n), slot)
    BY <1>4, <1>5 DEF Invoke
  <2> DEFINE a == Credit(n)
  <2>3. a \in AccountType(slot)
    BY <2>2 DEF Sound
  <2> HIDE DEF a
  <2>4. SoundContext([account |-> a, provisions |-> {}], slot)
    BY <2>2, <2>3 DEF SoundContext, a
  <2>5. SoundContext(x', slot) /\ SoundContext(y', slot)
    BY <2>1, <2>4 DEF a
  <2> QED
    BY <1>5, <2>5 DEF AccountInv, Invoke
<1>6. CASE ReceiveWithoutCode
  <2>1. PICK n \in Amounts : acct' = Credit(n)
    BY <1>6 DEF ReceiveWithoutCode
  <2>2. Sound(acct', slot) /\ x = Nothing /\ y = Nothing
    BY <1>3, <1>4, <1>6, <2>1 DEF ReceiveWithoutCode
  <2> QED
    BY <1>6, <2>2 DEF AccountInv, ReceiveWithoutCode
<1>7. CASE HostCall
  BY <1>7, CallSound
<1>8. CASE EndInvocation
  <2>1. SoundContext(x, slot) /\ SoundContext(y, slot)
    BY <1>8 DEF AccountInv, EndInvocation
  <2>2. PICK end \in {x, y}, others \in SUBSET Hashes :
          acct' = Integrate(end.account, end.provisions \cup others)
    BY <1>8 DEF EndInvocation
  <2>3. Sound(end.account, slot) /\ end.provisions \subseteq Hashes
    BY <2>1 DEF SoundContext
  <2>4. Sound(acct', slot)
    BY <1>1, <2>2, <2>3, IntegrateSound
  <2> QED
    BY <1>8, <2>4 DEF AccountInv, EndInvocation
<1>9. CASE ProvidedByOthers
  <2>1. PICK others \in SUBSET Hashes : acct' = Integrate(acct, others)
    BY <1>9 DEF ProvidedByOthers
  <2>2. Sound(acct, slot) /\ x = Nothing /\ y = Nothing
    BY <1>3, <1>9 DEF ProvidedByOthers
  <2>3. Sound(acct', slot)
    BY <1>1, <2>1, <2>2, IntegrateSound
  <2> QED
    BY <1>9, <2>2, <2>3 DEF AccountInv, ProvidedByOthers
<1>10. CASE Eject
  BY <1>10 DEF AccountInv, Eject
<1>11. CASE EndBlock
  <2>1. acct' = IF acct = Nothing THEN Nothing ELSE Integrate(acct, ep)
    BY <1>11 DEF EndBlock
  <2>2. acct' = Nothing \/ Sound(acct', slot)
    <3>1. CASE acct = Nothing
      BY <2>1, <3>1
    <3>2. CASE acct # Nothing
      <4>1. Sound(acct, slot) /\ ep \subseteq Hashes
        BY <3>2 DEF AccountInv
      <4>2. Sound(Integrate(acct, ep), slot)
        BY <1>1, <4>1, IntegrateSound
      <4> QED
        BY <2>1, <3>2, <4>2
    <3> QED
      BY <3>1, <3>2
  <2>3. slot' = slot /\ x' = x /\ y' = y /\ inBlock' = FALSE /\ ep' = {}
    BY <1>11 DEF EndBlock
  <2>4. acct' = Nothing \/ Sound(acct', slot')
    BY <2>2, <2>3
  <2>5. inBlock' \in BOOLEAN /\ ep' \subseteq Hashes /\ slot' \in 0 .. MaxSlot
    BY <2>3 DEF AccountInv
  <2>6. (x' = Nothing /\ y' = Nothing) \/ (SoundContext(x', slot') /\ SoundContext(y', slot'))
    BY <2>3 DEF AccountInv
  <2> QED
    BY <2>4, <2>5, <2>6 DEF AccountInv
<1>12. CASE UNCHANGED vars
  BY <1>12 DEF AccountInv, vars
<1> QED
  BY <1>2, <1>5, <1>6, <1>7, <1>8, <1>9, <1>10, <1>11, <1>12 DEF Next

(* Every version of the account there is, in the state or in a context,    *)
(* is well typed, holds only what is requested and can pay for it.         *)
THEOREM AccountsSound == Spec => []AccountInv
BY InitSound, StepSound, PTL DEF Spec

LEMMA VersionsSound ==
  ASSUME AccountInv
  PROVE  \A a \in Versions : Sound(a, slot)
<1> SUFFICES ASSUME NEW a \in Versions
             PROVE  Sound(a, slot)
  OBVIOUS
<1>1. CASE a \in {acct} \ {Nothing}
  BY <1>1 DEF AccountInv
<1>2. CASE \E c \in Contexts : a = c.account
  <2>1. PICK c \in Contexts : a = c.account
    BY <1>2
  <2>2. SoundContext(c, slot)
    BY <2>1 DEF Contexts, AccountInv
  <2> QED
    BY <2>1, <2>2 DEF SoundContext
<1> QED
  BY <1>1, <1>2 DEF Versions

(* Every version of the account can pay for what it occupies               *)
(* (functions.ts:497, 1221, 1333, 1496).                                   *)
THEOREM AlwaysSolvent == Spec => []Solvent
<1>1. AccountInv => Solvent
  BY VersionsSound DEF Solvent, Sound
<1> QED
  BY <1>1, AccountsSound, PTL

(* A preimage held is requested with its length, so that historicalLookup  *)
(* finds the request that it takes for granted                             *)
(* (service-account-impl.ts:227).                                          *)
THEOREM PreimagesRequested == Spec => []PreimageIsRequested
<1>1. AccountInv => PreimageIsRequested
  BY VersionsSound DEF PreimageIsRequested, Sound, Requested
<1> QED
  BY <1>1, AccountsSound, PTL

(* The types of slot, accounts and contexts.                               *)
THEOREM TypeCorrect == Spec => []TypeOK
<1>1. AccountInv => TypeOK
  <2> SUFFICES ASSUME AccountInv
               PROVE  TypeOK
    OBVIOUS
  <2>1. slot \in 0 .. MaxSlot /\ inBlock \in BOOLEAN /\ ep \subseteq Hashes
    BY DEF AccountInv
  <2>2. x = Nothing <=> y = Nothing
    BY ContextIsNotNothing DEF AccountInv
  <2>3. \A c \in Contexts : c.provisions \subseteq Hashes
    BY DEF Contexts, AccountInv, SoundContext
  <2>4. ASSUME NEW a \in Versions
        PROVE  /\ a.code \in Hashes \cup {Ejector}
               /\ a.balance \in Nat
               /\ DOMAIN a.storage \subseteq Keys
               /\ \A k \in DOMAIN a.storage : a.storage[k] \in ValueLengths
               /\ DOMAIN a.requests \subseteq Requestable
               /\ \A r \in DOMAIN a.requests :
                    /\ Len(a.requests[r]) <= 3
                    /\ \A i \in DOMAIN a.requests[r] : a.requests[r][i] \in 0 .. slot
               /\ a.preimages \subseteq Hashes
    <3>1. a \in AccountType(slot)
      BY <2>4, VersionsSound DEF Sound
    <3>2. PICK K \in SUBSET Keys : a.storage \in [K -> ValueLengths]
      BY <3>1 DEF AccountType, Stores
    <3>3. PICK R \in SUBSET Requestable : a.requests \in [R -> Times(slot)]
      BY <3>1 DEF AccountType, RequestMaps
    <3>4. ASSUME NEW r \in DOMAIN a.requests
          PROVE  /\ Len(a.requests[r]) <= 3
                 /\ \A i \in DOMAIN a.requests[r] : a.requests[r][i] \in 0 .. slot
      <4> DEFINE q == a.requests[r]  T == 0 .. slot
      <4>1. q \in Seq(T) /\ Len(q) <= 3
        BY <3>3, <3>4 DEF Times
      <4> HIDE DEF q, T
      <4>2. DOMAIN q = 1 .. Len(q) /\ \A i \in 1 .. Len(q) : q[i] \in T
        BY <4>1, SequenceFacts
      <4> QED
        BY <4>1, <4>2 DEF q, T
    <3>5. a.code \in Hashes \cup {Ejector} /\ a.balance \in Nat /\ a.preimages \subseteq Hashes
      BY <3>1 DEF AccountType
    <3>6. DOMAIN a.storage \subseteq Keys /\ DOMAIN a.requests \subseteq Requestable
          /\ \A k \in DOMAIN a.storage : a.storage[k] \in ValueLengths
      BY <3>2, <3>3
    <3> QED
      BY <3>4, <3>5, <3>6
  <2> QED
    BY <2>1, <2>2, <2>3, <2>4 DEF TypeOK
<1> QED
  BY <1>1, AccountsSound, PTL

-----------------------------------------------------------------------------
(* Lookups.  A request's times q, as a lookup at t reads them, and as they *)
(* were at t.                                                              *)
Own(h) == <<h, PreimageLength[h]>>

Found(q, t) ==
  \/ Len(q) = 1 /\ q[1] <= t
  \/ Len(q) = 2 /\ q[1] <= t /\ t < q[2]
  \/ Len(q) = 3 /\ q[3] <= t

Was(q, t) ==
  \/ Len(q) = 1 /\ q[1] <= t
  \/ Len(q) = 2 /\ q[1] <= t /\ t < q[2]
  \/ Len(q) = 3 /\ (q[3] <= t \/ t < q[2])

(* Account a against what was seen, at slot s: what is found, or would be  *)
(* once a request of three times is forgotten, had been available; and     *)
(* what was available not long ago still has a request that tells so.      *)
Truthful(a, z, s) ==
  \A t \in DOMAIN z, h \in Hashes :
    /\ h \in a.preimages /\ Found(a.requests[Own(h)], t) => h \in z[t]
    /\ h \in z[t] /\ t >= s - Expiration =>
         Own(h) \in DOMAIN a.requests /\ Was(a.requests[Own(h)], t)

LookupInv ==
  /\ DOMAIN seen \subseteq 0 .. slot
  /\ \A t \in DOMAIN seen : seen[t] \subseteq Hashes
  /\ inBlock => slot \notin DOMAIN seen
  /\ x # Nothing => inBlock
  /\ acct # Nothing => Truthful(acct, seen, slot)
  /\ x # Nothing => Truthful(x.account, seen, slot) /\ Truthful(y.account, seen, slot)

(* A third time after two.                                                 *)
LEMMA Appended ==
  ASSUME NEW T, NEW q \in Seq(T), NEW u \in T
  PROVE  /\ DOMAIN Append(q, u) = DOMAIN q \cup {Len(q) + 1}
         /\ Append(q, u)[Len(q) + 1] = u /\ Len(Append(q, u)) = Len(q) + 1
         /\ \A i \in DOMAIN q : Append(q, u)[i] = q[i]
         /\ DOMAIN q = 1 .. Len(q)
OBVIOUS

LEMMA AppendedTimes ==
  ASSUME NEW T, NEW q \in Seq(T), Len(q) = 2, NEW u \in T
  PROVE  /\ Len(Append(q, u)) = 3 /\ Append(q, u)[1] = q[1] /\ Append(q, u)[2] = q[2]
         /\ Append(q, u)[3] = u
<1>1. 1 \in DOMAIN q /\ 2 \in DOMAIN q
  BY Appended
<1>. QED
  BY <1>1, Appended

(* Times that are read at a slot t before the present one, s.              *)
LEMMA TimesAgain ==
  ASSUME NEW s \in Nat, NEW t \in Nat, t < s, NEW q \in Seq(0 .. s), Len(q) = 2
  PROVE  ~Found(Append(q, s), t) /\ (Was(q, t) => Was(Append(q, s), t))
<1>1. /\ Len(Append(q, s)) = 3 /\ Append(q, s)[1] = q[1] /\ Append(q, s)[2] = q[2]
      /\ Append(q, s)[3] = s
  <2>. DEFINE T == 0 .. s
  <2>1. q \in Seq(T) /\ s \in T
    OBVIOUS
  <2>. HIDE DEF T
  <2>. QED
    BY <2>1, AppendedTimes
<1>. QED
  BY <1>1 DEF Found, Was

LEMMA TimesForgotten ==
  ASSUME NEW s \in Nat, NEW t \in Nat, t < s, NEW q \in Seq(0 .. s), Len(q) = 1
  PROVE  /\ Found(<<q[1], s>>, t) => Found(q, t)
         /\ Was(q, t) => Was(<<q[1], s>>, t)
BY DEF Found, Was

LEMMA TimesForgottenAgain ==
  ASSUME NEW s \in Nat, NEW t \in Nat, t < s, NEW q \in Seq(0 .. s), Len(q) = 3
  PROVE  /\ Found(<<q[3], s>>, t) => Found(q, t)
         /\ t >= s - Expiration /\ q[2] < s - Expiration /\ Was(q, t)
              => Was(<<q[3], s>>, t)
<1>1. Expiration \in Nat
  BY ConstantsAssumption
<1>2. q[2] \in Nat /\ q[3] \in Nat
  BY SMTT(20)
<1>. QED
  BY <1>1, <1>2 DEF Found, Was

LEMMA TimesExpired ==
  ASSUME NEW s \in Nat, NEW t \in Nat, t < s, t >= s - Expiration, NEW q \in Seq(0 .. s),
         Len(q) = 0 \/ (Len(q) = 2 /\ q[2] < s - Expiration)
  PROVE  ~Was(q, t)
<1>1. Expiration \in Nat
  BY ConstantsAssumption
<1>2. Len(q) = 2 => q[2] \in Nat
  <2>1. Len(q) = 2 => 2 \in 1 .. Len(q)
    OBVIOUS
  <2>. QED
    BY SMTT(20), <2>1, SequenceFacts
<1>. QED
  BY <1>1, <1>2 DEF Was

LEMMA TimesOfOne ==
  ASSUME NEW s \in Nat, NEW t \in Nat, t < s
  PROVE  ~Found(<<s>>, t) /\ ~Found(<< >>, t) /\ ~Was(<< >>, t)
BY DEF Found, Was

(* A version with the same requests and preimages.                         *)
LEMMA SameLookups ==
  ASSUME NEW a, NEW b, NEW z, NEW s, Truthful(a, z, s),
         b.requests = a.requests, b.preimages = a.preimages
  PROVE  Truthful(b, z, s)
BY DEF Truthful

(* A version that differs in one request: it is enough to look at that     *)
(* one, if it is that of a preimage.                                       *)
LEMMA OtherLookups ==
  ASSUME NEW a, NEW b, NEW z, NEW s, Requested(a), Truthful(a, z, s), NEW r,
         b.preimages \subseteq a.preimages,
         \A i \in DOMAIN a.requests \ {r} :
            i \in DOMAIN b.requests /\ b.requests[i] = a.requests[i],
         \A t \in DOMAIN z, h \in Hashes : Own(h) = r =>
            /\ h \in b.preimages /\ Found(b.requests[r], t) => h \in z[t]
            /\ h \in z[t] /\ t >= s - Expiration =>
                 r \in DOMAIN b.requests /\ Was(b.requests[r], t)
  PROVE  Truthful(b, z, s)
<1>. SUFFICES ASSUME NEW t \in DOMAIN z, NEW h \in Hashes
              PROVE  /\ h \in b.preimages /\ Found(b.requests[Own(h)], t) => h \in z[t]
                     /\ h \in z[t] /\ t >= s - Expiration =>
                          Own(h) \in DOMAIN b.requests /\ Was(b.requests[Own(h)], t)
  BY DEF Truthful
<1>1. /\ h \in a.preimages /\ Found(a.requests[Own(h)], t) => h \in z[t]
      /\ h \in z[t] /\ t >= s - Expiration =>
           Own(h) \in DOMAIN a.requests /\ Was(a.requests[Own(h)], t)
  BY DEF Truthful
<1>2. CASE Own(h) = r
  BY <1>2
<1>3. CASE Own(h) # r
  <2>1. Own(h) \in DOMAIN a.requests =>
          Own(h) \in DOMAIN b.requests /\ b.requests[Own(h)] = a.requests[Own(h)]
    BY <1>3
  <2>2. h \in a.preimages => Own(h) \in DOMAIN a.requests
    BY DEF Requested, Own
  <2>3. h \in b.preimages => h \in a.preimages
    OBVIOUS
  <2>. QED
    BY <1>1, <2>1, <2>2, <2>3
<1>. QED
  BY <1>2, <1>3

-----------------------------------------------------------------------------
(* What the operations do to the lookups.  Times are in the past.          *)
Past(z, s) == s \in Nat /\ DOMAIN z \subseteq Nat /\ \A t \in DOMAIN z : t < s

LEMMA TimesOf ==
  ASSUME NEW s, NEW a \in AccountType(s), NEW r \in DOMAIN a.requests
  PROVE  a.requests[r] \in Seq(0 .. s)
BY DEF AccountType, RequestMaps, Times

(* Setting a request leaves the others as they are.                        *)
LEMMA OthersStay ==
  ASSUME NEW s, NEW a \in AccountType(s), NEW r \in Requestable
  PROVE  /\ \A i \in DOMAIN a.requests \ {r} :
              /\ i \in DOMAIN DeleteRequest(a, r).requests
              /\ DeleteRequest(a, r).requests[i] = a.requests[i]
         /\ \A q \in Times(s) :
              /\ SetRequest(a, r, q).requests[r] = q
              /\ \A i \in DOMAIN a.requests \ {r} :
                   /\ i \in DOMAIN SetRequest(a, r, q).requests
                   /\ SetRequest(a, r, q).requests[i] = a.requests[i]
<1>. DEFINE d == DeleteRequest(a, r)
<1>1. /\ d.requests = IF r \in DOMAIN a.requests THEN Without(a.requests, r) ELSE a.requests
      /\ d \in AccountType(s) /\ DOMAIN d.requests = DOMAIN a.requests \ {r}
  <2>1. d \in AccountType(s) /\ DOMAIN d.requests = DOMAIN a.requests \ {r}
    BY RequestDeleted
  <2>2. CASE r \notin DOMAIN a.requests
    BY <2>1, <2>2 DEF DeleteRequest
  <2>3. CASE r \in DOMAIN a.requests
    <3>. DEFINE n == a.items - 2  o == a.octets - (81 + r[2])
    <3>1. d = [a EXCEPT !.requests = Without(a.requests, r), !.items = n, !.octets = o]
      BY <2>3 DEF DeleteRequest
    <3>. HIDE DEF d, n, o
    <3>2. d.requests = Without(a.requests, r)
      BY <3>1 DEF AccountType
    <3>. QED
      BY <2>1, <2>3, <3>2
  <2>. QED
    BY <2>1, <2>2, <2>3
<1>2. ASSUME NEW i \in DOMAIN a.requests \ {r}
      PROVE  i \in DOMAIN d.requests /\ d.requests[i] = a.requests[i]
  BY <1>1 DEF Without
<1>3. ASSUME NEW q \in Times(s)
      PROVE  SetRequest(a, r, q).requests = Put(d.requests, r, q)
  <2>. DEFINE n == d.items + 2  o == d.octets + 81 + r[2]
  <2>1. SetRequest(a, r, q)
          = [d EXCEPT !.requests = Put(d.requests, r, q), !.items = n, !.octets = o]
    BY DEF SetRequest
  <2>. HIDE DEF d, n, o
  <2>. QED
    BY <1>1, <2>1 DEF AccountType
<1>. HIDE DEF d
<1>4. ASSUME NEW q \in Times(s)
      PROVE  /\ SetRequest(a, r, q).requests[r] = q
             /\ \A i \in DOMAIN a.requests \ {r} :
                  /\ i \in DOMAIN SetRequest(a, r, q).requests
                  /\ SetRequest(a, r, q).requests[i] = a.requests[i]
  BY <1>2, <1>3 DEF Put
<1>. QED
  BY <1>2, <1>4 DEF d

LEMMA SolicitTruthful ==
  ASSUME NEW s, NEW a \in AccountType(s), NEW z, Past(z, s), Requested(a), Truthful(a, z, s),
         NEW r \in Requestable, r \notin DOMAIN a.requests
  PROVE  Truthful(SetRequest(a, r, << >>), z, s)
<1>. DEFINE b == SetRequest(a, r, << >>)
<1>1. << >> \in Times(s)
  BY DEF Times
<1>2. /\ b.requests[r] = << >> /\ r \in DOMAIN b.requests /\ b.preimages = a.preimages
      /\ \A i \in DOMAIN a.requests \ {r} :
           i \in DOMAIN b.requests /\ b.requests[i] = a.requests[i]
  BY <1>1, OthersStay, RequestSet
<1>. HIDE DEF b
<1>3. ASSUME NEW t \in DOMAIN z, NEW h \in Hashes, Own(h) = r
      PROVE  /\ h \in b.preimages /\ Found(b.requests[r], t) => h \in z[t]
             /\ h \in z[t] /\ t >= s - Expiration =>
                  r \in DOMAIN b.requests /\ Was(b.requests[r], t)
  <2>1. ~Found(<< >>, t)
    BY DEF Found
  <2>2. ~(h \in z[t] /\ t >= s - Expiration)
    BY <1>3 DEF Truthful
  <2>. QED
    BY <1>2, <2>1, <2>2
<1>. QED
  BY <1>2, <1>3, OtherLookups DEF b

(* Requests set to times that say no more and no less about the past.      *)
LEMMA SetTruthful ==
  ASSUME NEW s, NEW a \in AccountType(s), NEW z, Past(z, s), Requested(a), Truthful(a, z, s),
         NEW r \in Requestable, r \in DOMAIN a.requests, NEW q \in Times(s),
         \A t \in DOMAIN z :
            /\ Found(q, t) => Found(a.requests[r], t)
            /\ t >= s - Expiration /\ Was(a.requests[r], t) => Was(q, t)
  PROVE  Truthful(SetRequest(a, r, q), z, s)
<1>. DEFINE b == SetRequest(a, r, q)
<1>2. /\ b.requests[r] = q /\ r \in DOMAIN b.requests /\ b.preimages = a.preimages
      /\ \A i \in DOMAIN a.requests \ {r} :
           i \in DOMAIN b.requests /\ b.requests[i] = a.requests[i]
  BY OthersStay, RequestSet
<1>. HIDE DEF b
<1>3. ASSUME NEW t \in DOMAIN z, NEW h \in Hashes, Own(h) = r
      PROVE  /\ h \in b.preimages /\ Found(b.requests[r], t) => h \in z[t]
             /\ h \in z[t] /\ t >= s - Expiration =>
                  r \in DOMAIN b.requests /\ Was(b.requests[r], t)
  <2>1. /\ h \in a.preimages /\ Found(a.requests[r], t) => h \in z[t]
        /\ h \in z[t] /\ t >= s - Expiration => Was(a.requests[r], t)
    BY <1>3 DEF Truthful
  <2>. QED
    BY <1>2, <2>1
<1>. QED
  BY <1>2, <1>3, OtherLookups DEF b

LEMMA DropTruthful ==
  ASSUME NEW s, NEW a \in AccountType(s), NEW z, Past(z, s), Requested(a), Truthful(a, z, s),
         NEW r \in Requestable, r \in DOMAIN a.requests,
         \/ Len(a.requests[r]) = 0
         \/ Len(a.requests[r]) = 2 /\ a.requests[r][2] < s - Expiration
  PROVE  Truthful(DropRequest(a, r), z, s)
<1>. DEFINE b == DropRequest(a, r)
            d == DeleteRequest(a, r)
<1>1. /\ d \in AccountType(s) /\ DOMAIN d.requests = DOMAIN a.requests \ {r}
      /\ d.preimages = a.preimages
      /\ \A i \in DOMAIN a.requests \ {r} :
           i \in DOMAIN d.requests /\ d.requests[i] = a.requests[i]
  BY OthersStay, RequestDeleted
<1>2. b = [d EXCEPT !.preimages = d.preimages \ {r[1]}]
  BY DEF DropRequest
<1>. HIDE DEF b, d
<1>3. b.requests = d.requests /\ b.preimages = a.preimages \ {r[1]}
  BY <1>1, <1>2 DEF AccountType
<1>4. ASSUME NEW t \in DOMAIN z, NEW h \in Hashes, Own(h) = r
      PROVE  /\ h \in b.preimages /\ Found(b.requests[r], t) => h \in z[t]
             /\ h \in z[t] /\ t >= s - Expiration =>
                  r \in DOMAIN b.requests /\ Was(b.requests[r], t)
  <2>1. h \notin b.preimages
    BY <1>3, <1>4 DEF Own
  <2>2. h \in z[t] /\ t >= s - Expiration => Was(a.requests[r], t)
    BY <1>4 DEF Truthful
  <2>3. t >= s - Expiration => ~Was(a.requests[r], t)
    <3>. PICK q \in Seq(0 .. s) : q = a.requests[r]
      BY TimesOf
    <3>. s \in Nat /\ t \in Nat /\ t < s
      BY DEF Past
    <3>. QED
      BY TimesExpired
  <2>. QED
    BY <2>1, <2>2, <2>3
<1>. QED
  BY <1>1, <1>3, <1>4, OtherLookups DEF b

LEMMA IntegrateTruthful ==
  ASSUME slot \in Nat, NEW a \in AccountType(slot), NEW z, Past(z, slot), Requested(a),
         Truthful(a, z, slot), NEW hs \in SUBSET Hashes
  PROVE  Truthful(Integrate(a, hs), z, slot)
<1>. DEFINE taken == {h \in hs : Solicited(a, h)}
            m == [r \in DOMAIN a.requests |-> IF r[1] \in taken /\ a.requests[r] = << >>
                                                    /\ r[2] = PreimageLength[r[1]]
                                             THEN <<slot>> ELSE a.requests[r]]
            b == Integrate(a, hs)
<1>1. b = [a EXCEPT !.requests = m, !.preimages = a.preimages \cup taken]
  BY DEF Integrate
<1>2. b.requests = m /\ b.preimages = a.preimages \cup taken
  BY <1>1 DEF AccountType
<1>3. \A h \in taken : Own(h) \in DOMAIN a.requests /\ a.requests[Own(h)] = << >>
  BY DEF Solicited, Own
<1>. SUFFICES ASSUME NEW t \in DOMAIN z, NEW h \in Hashes
              PROVE  /\ h \in b.preimages /\ Found(b.requests[Own(h)], t) => h \in z[t]
                     /\ h \in z[t] /\ t >= slot - Expiration =>
                          Own(h) \in DOMAIN b.requests /\ Was(b.requests[Own(h)], t)
  BY DEF Truthful
<1>4. /\ h \in a.preimages /\ Found(a.requests[Own(h)], t) => h \in z[t]
      /\ h \in z[t] /\ t >= slot - Expiration =>
           Own(h) \in DOMAIN a.requests /\ Was(a.requests[Own(h)], t)
  BY DEF Truthful
<1>5. t \in Nat /\ t < slot
  BY DEF Past
<1>6. ~Found(<<slot>>, t) /\ ~Found(<< >>, t) /\ ~Was(<< >>, t)
  BY <1>5, TimesOfOne
<1>7. CASE h \in taken
  <2>1. b.requests[Own(h)] = <<slot>>
    BY <1>2, <1>3, <1>7 DEF Own
  <2>. QED
    BY <1>3, <1>4, <1>6, <1>7, <2>1
<1>8. CASE h \notin taken
  <2>1. Own(h) \in DOMAIN a.requests =>
          Own(h) \in DOMAIN b.requests /\ b.requests[Own(h)] = a.requests[Own(h)]
    BY <1>2, <1>8 DEF Own
  <2>2. h \in b.preimages => h \in a.preimages /\ Own(h) \in DOMAIN a.requests
    BY <1>2, <1>8 DEF Requested, Own
  <2>. HIDE DEF b
  <2>. QED
    BY <1>4, <2>1, <2>2
<1>. QED
  BY <1>7, <1>8

-----------------------------------------------------------------------------
(* Lookups in every step.                                                  *)
LEMMA SeenIsPast ==
  ASSUME AccountInv, LookupInv, inBlock
  PROVE  Past(seen, slot)
<1>1. slot \in Nat
  BY ConstantsAssumption DEF AccountInv
<1>2. \A t \in DOMAIN seen : t \in 0 .. slot /\ t # slot
  BY DEF LookupInv
<1>. QED
  BY <1>1, <1>2 DEF Past

LEMMA InitLookup == Init => LookupInv
<1>. SUFFICES ASSUME Init
              PROVE  LookupInv
  OBVIOUS
<1>1. seen = << >> /\ DOMAIN seen = {} /\ x = Nothing /\ inBlock = FALSE
  BY DEF Init
<1>2. \A a : Truthful(a, seen, slot)
  BY <1>1 DEF Truthful
<1>. QED
  BY <1>1, <1>2 DEF LookupInv

LEMMA BecomesLookup ==
  ASSUME AccountInv, LookupInv, x # Nothing, NEW a, Truthful(a, seen, slot), Becomes(a)
  PROVE  LookupInv'
<1>1. SoundContext(x, slot)
  BY DEF AccountInv
<1>2. x' = [x EXCEPT !.account = a] /\ UNCHANGED <<slot, inBlock, acct, y, seen>>
  BY DEF Becomes
<1>3. x'.account = a
  BY <1>1, <1>2 DEF SoundContext
<1>. QED
  BY <1>2, <1>3 DEF LookupInv

LEMMA CallLookup ==
  ASSUME AccountInv, LookupInv, HostCall
  PROVE  LookupInv'
<1>. DEFINE a == x.account
<1>1. x # Nothing
  BY DEF HostCall, Write, Solicit, Forget, Provide, Upgrade, Pay, Checkpoint, Running
<1>2. SoundContext(x, slot) /\ SoundContext(y, slot) /\ slot \in Nat
  BY <1>1, ConstantsAssumption DEF AccountInv
<1>3. a \in AccountType(slot) /\ Requested(a)
  BY <1>2 DEF SoundContext, Sound
<1>4. Past(seen, slot) /\ Truthful(a, seen, slot)
  BY <1>1, SeenIsPast DEF LookupInv
<1>5. ASSUME NEW k \in Keys, NEW v \in ValueLengths \cup {0}, Write(k, v)
      PROVE  LookupInv'
  <2>. DEFINE b == IF v = 0 THEN DeleteStorage(a, k) ELSE SetStorage(a, k, v)
  <2>1. Becomes(b)
    BY <1>5 DEF Write
  <2>2. b.requests = a.requests /\ b.preimages = a.preimages
    <3>1. CASE v = 0
      BY <1>3, <3>1, StorageDeleted
    <3>2. CASE v # 0
      BY <1>3, <3>2, StorageSet
    <3>. QED
      BY <3>1, <3>2
  <2>. HIDE DEF b
  <2>3. Truthful(b, seen, slot)
    BY <1>4, <2>2, SameLookups
  <2>. QED
    BY <1>1, <2>1, <2>3, BecomesLookup
<1>6. ASSUME NEW r \in Requestable, Solicit(r)
      PROVE  LookupInv'
  <2>1. CASE r \notin DOMAIN a.requests
    <3>1. Becomes(SetRequest(a, r, << >>))
      BY <1>6, <2>1 DEF Solicit
    <3>2. Truthful(SetRequest(a, r, << >>), seen, slot)
      BY <1>3, <1>4, <2>1, SolicitTruthful
    <3>. QED
      BY <1>1, <3>1, <3>2, BecomesLookup
  <2>2. CASE r \in DOMAIN a.requests
    <3>. PICK q : q = a.requests[r]
      OBVIOUS
    <3>1. Len(q) = 2 /\ Becomes(SetRequest(a, r, Append(q, slot))) /\ q \in Seq(0 .. slot)
      BY <1>3, <1>6, <2>2, TimesOf DEF Solicit
    <3>2. Append(q, slot) \in Times(slot)
      <4>. DEFINE T == 0 .. slot
      <4>1. q \in Seq(T) /\ slot \in T
        BY <1>2, <3>1
      <4>. HIDE DEF T
      <4>2. Append(q, slot) \in Seq(T) /\ Len(Append(q, slot)) = Len(q) + 1
        BY <4>1, SequenceFacts
      <4>. QED
        BY <3>1, <4>2 DEF Times, T
    <3>3. \A t \in DOMAIN seen :
            ~Found(Append(q, slot), t) /\ (Was(q, t) => Was(Append(q, slot), t))
      BY <1>4, <3>1, TimesAgain DEF Past
    <3>. PICK p : p = Append(q, slot)
      OBVIOUS
    <3>4. Truthful(SetRequest(a, r, p), seen, slot)
      BY <1>3, <1>4, <2>2, <3>2, <3>3, SetTruthful
    <3>. QED
      BY <1>1, <3>1, <3>4, BecomesLookup
  <2>. QED
    BY <2>1, <2>2
<1>7. ASSUME NEW r \in Requestable, Forget(r)
      PROVE  LookupInv'
  <2>. PICK q : q = a.requests[r]
    OBVIOUS
  <2>1. r \in DOMAIN a.requests /\ q \in Seq(0 .. slot) /\ slot \in 0 .. slot
    BY <1>2, <1>3, <1>7, TimesOf DEF Forget
  <2>2. \/ (Len(q) = 0 \/ (Len(q) = 2 /\ q[2] < slot - Expiration)) /\ Becomes(DropRequest(a, r))
        \/ Len(q) = 1 /\ Becomes(SetRequest(a, r, <<q[1], slot>>))
        \/ /\ Len(q) = 3 /\ q[2] < slot - Expiration
           /\ Becomes(SetRequest(a, r, <<q[3], slot>>))
    BY <1>7 DEF Forget, Expired
  <2>3. CASE (Len(q) = 0 \/ (Len(q) = 2 /\ q[2] < slot - Expiration)) /\ Becomes(DropRequest(a, r))
    <3>1. Truthful(DropRequest(a, r), seen, slot)
      BY <1>3, <1>4, <2>1, <2>3, DropTruthful
    <3>. QED
      BY <1>1, <2>3, <3>1, BecomesLookup
  <2>4. ASSUME NEW u \in 0 .. slot, Becomes(SetRequest(a, r, <<u, slot>>)),
               \A t \in DOMAIN seen :
                  /\ Found(<<u, slot>>, t) => Found(q, t)
                  /\ t >= slot - Expiration /\ Was(q, t) => Was(<<u, slot>>, t)
        PROVE  LookupInv'
    <3>1. <<u, slot>> \in Times(slot)
      BY <2>1 DEF Times
    <3>. PICK p : p = <<u, slot>>
      OBVIOUS
    <3>2. Truthful(SetRequest(a, r, p), seen, slot)
      BY <1>3, <1>4, <2>1, <2>4, <3>1, SetTruthful
    <3>. QED
      BY <1>1, <2>4, <3>2, BecomesLookup
  <2>5. CASE Len(q) = 1 /\ Becomes(SetRequest(a, r, <<q[1], slot>>))
    <3>1. q[1] \in 0 .. slot
      BY <2>1, <2>5, SequenceFacts
    <3>2. \A t \in DOMAIN seen :
            /\ Found(<<q[1], slot>>, t) => Found(q, t)
            /\ Was(q, t) => Was(<<q[1], slot>>, t)
      BY <1>4, <2>1, <2>5, TimesForgotten DEF Past
    <3>. QED
      BY <2>4, <2>5, <3>1, <3>2
  <2>6. CASE /\ Len(q) = 3 /\ q[2] < slot - Expiration
             /\ Becomes(SetRequest(a, r, <<q[3], slot>>))
    <3>1. q[3] \in 0 .. slot
      <4>1. 3 \in 1 .. Len(q)
        BY <2>6
      <4>. QED
        BY <2>1, <4>1, SequenceFacts
    <3>2. \A t \in DOMAIN seen :
            /\ Found(<<q[3], slot>>, t) => Found(q, t)
            /\ t >= slot - Expiration /\ Was(q, t) => Was(<<q[3], slot>>, t)
      BY <1>4, <2>1, <2>6, TimesForgottenAgain DEF Past
    <3>. QED
      BY <2>4, <2>6, <3>1, <3>2
  <2>. QED
    BY <2>2, <2>3, <2>5, <2>6
<1>8. ASSUME NEW h \in Hashes, Provide(h)
      PROVE  LookupInv'
  <2>1. x' = [x EXCEPT !.provisions = x.provisions \cup {h}]
        /\ UNCHANGED <<slot, inBlock, acct, y, seen>>
    BY <1>8 DEF Provide
  <2>2. x'.account = x.account
    BY <1>2, <2>1 DEF SoundContext
  <2>. QED
    BY <1>1, <2>1, <2>2 DEF LookupInv
<1>9. ASSUME NEW c \in Hashes \cup {Ejector}, Upgrade(c)
      PROVE  LookupInv'
  <2>. DEFINE b == [a EXCEPT !.code = c]
  <2>1. Becomes(b)
    BY <1>9 DEF Upgrade
  <2>2. b.requests = a.requests /\ b.preimages = a.preimages
    BY <1>3 DEF AccountType
  <2>. HIDE DEF b
  <2>3. Truthful(b, seen, slot)
    BY <1>4, <2>2, SameLookups
  <2>. QED
    BY <1>1, <2>1, <2>3, BecomesLookup
<1>10. ASSUME NEW n \in Amounts, Pay(n)
       PROVE  LookupInv'
  <2>. DEFINE b == [a EXCEPT !.balance = a.balance - n]
  <2>1. Becomes(b)
    BY <1>10 DEF Pay
  <2>2. b.requests = a.requests /\ b.preimages = a.preimages
    BY <1>3 DEF AccountType
  <2>. HIDE DEF b
  <2>3. Truthful(b, seen, slot)
    BY <1>4, <2>2, SameLookups
  <2>. QED
    BY <1>1, <2>1, <2>3, BecomesLookup
<1>11. CASE Checkpoint
  BY <1>1, <1>11 DEF LookupInv, Checkpoint
<1>. QED
  BY <1>5, <1>6, <1>7, <1>8, <1>9, <1>10, <1>11 DEF HostCall

(* A block later less is recent.                                           *)
LEMMA LaterTruthful ==
  ASSUME NEW a, NEW z, NEW s \in Nat, NEW t \in Nat, s <= t, DOMAIN z \subseteq Nat,
         Truthful(a, z, s)
  PROVE  Truthful(a, z, t)
<1>1. Expiration \in Nat
  BY ConstantsAssumption
<1>2. \A u \in DOMAIN z : u >= t - Expiration => u >= s - Expiration
  BY <1>1
<1>. QED
  BY <1>2 DEF Truthful

(* What is there when a block ends had been available from then on.        *)
LEMMA EndBlockTruthful ==
  ASSUME AccountInv, LookupInv, EndBlock, acct' # Nothing
  PROVE  Truthful(acct', seen', slot)
<1>. PICK b : b = acct'
  OBVIOUS
<1>1. acct # Nothing /\ b = Integrate(acct, ep) /\ inBlock
  BY DEF EndBlock
<1>2. /\ Sound(acct, slot) /\ ep \in SUBSET Hashes /\ slot \in Nat
      /\ Past(seen, slot) /\ Truthful(acct, seen, slot)
  BY <1>1, SeenIsPast, ConstantsAssumption DEF AccountInv, LookupInv
<1>3. Truthful(b, seen, slot)
  BY <1>1, <1>2, IntegrateTruthful DEF Sound
<1>4. b \in AccountType(slot) /\ Requested(b)
  BY <1>1, <1>2, IntegrateSound DEF Sound
<1>5. /\ DOMAIN seen' = {s \in DOMAIN seen : s >= slot - Expiration} \cup {slot}
      /\ \A t \in DOMAIN seen' : t # slot => seen'[t] = seen[t]
      /\ seen'[slot] = {h \in Hashes : SaysAvailable(b, h)}
  BY DEF EndBlock
<1>. SUFFICES ASSUME NEW t \in DOMAIN seen', NEW h \in Hashes
              PROVE  /\ h \in b.preimages /\ Found(b.requests[Own(h)], t) => h \in seen'[t]
                     /\ h \in seen'[t] /\ t >= slot - Expiration =>
                          Own(h) \in DOMAIN b.requests /\ Was(b.requests[Own(h)], t)
  BY DEF Truthful
<1>6. CASE t # slot
  <2>1. t \in DOMAIN seen /\ seen'[t] = seen[t]
    BY <1>5, <1>6
  <2>. QED
    BY <1>3, <2>1 DEF Truthful
<1>7. CASE t = slot
  <2>. PICK q : q = b.requests[Own(h)]
    OBVIOUS
  <2>1. h \in seen'[t] <=> h \in b.preimages /\ Own(h) \in DOMAIN b.requests /\ Len(q) \in {1, 3}
    BY <1>5, <1>7 DEF SaysAvailable, Own
  <2>2. Own(h) \in DOMAIN b.requests => q \in Seq(0 .. slot)
    BY <1>4, TimesOf
  <2>3. h \in b.preimages => Own(h) \in DOMAIN b.requests
    BY <1>4 DEF Requested, Own
  <2>4. ASSUME Own(h) \in DOMAIN b.requests
        PROVE  /\ Found(q, slot) => Len(q) \in {1, 3}
               /\ Len(q) \in {1, 3} => Was(q, slot)
    <3>1. /\ Len(q) = 1 => q[1] \in 0 .. slot
          /\ Len(q) = 2 => q[2] \in 0 .. slot
          /\ Len(q) = 3 => q[3] \in 0 .. slot
      <4>1. \A i \in 1 .. Len(q) : q[i] \in 0 .. slot
        BY <2>2, <2>4, SequenceFacts
      <4>2. 1 \in 1 .. 1 /\ 2 \in 1 .. 2 /\ 3 \in 1 .. 3
        OBVIOUS
      <4>. QED
        BY <4>1, <4>2
    <3>. QED
      BY <1>2, <3>1 DEF Found, Was
  <2>. QED
    BY <1>7, <2>1, <2>3, <2>4
<1>. QED
  BY <1>6, <1>7

LEMMA StepLookup ==
  ASSUME AccountInv, AccountInv', LookupInv, [Next]_vars
  PROVE  LookupInv'
<1>1. slot \in Nat /\ slot' \in Nat
  BY ConstantsAssumption DEF AccountInv
<1>2. CASE BeginBlock
  <2>1. /\ slot' > slot /\ inBlock' /\ x = Nothing /\ UNCHANGED <<acct, x, y, seen>>
    <3>1. slot' \in slot + 1 .. MaxSlot /\ ~inBlock
      BY <1>2 DEF BeginBlock
    <3>2. MaxSlot \in Nat
      BY ConstantsAssumption
    <3>. QED
      BY <1>1, <1>2, <3>1, <3>2 DEF BeginBlock, LookupInv
  <2>2. DOMAIN seen \subseteq 0 .. slot
    BY DEF LookupInv
  <2>3. DOMAIN seen \subseteq 0 .. slot' /\ slot' \notin DOMAIN seen /\ DOMAIN seen \subseteq Nat
    BY <1>1, <2>1, <2>2
  <2>4. acct # Nothing => Truthful(acct, seen, slot')
    BY <1>1, <2>1, <2>3, LaterTruthful DEF LookupInv
  <2>. QED
    BY <2>1, <2>3, <2>4 DEF LookupInv
<1>3. ASSUME Idle
      PROVE  /\ acct \in AccountType(slot) /\ Requested(acct) /\ inBlock
             /\ Past(seen, slot) /\ Truthful(acct, seen, slot) /\ x = Nothing
  BY <1>3, SeenIsPast DEF Idle, AccountInv, LookupInv, Sound
<1>4. ASSUME Idle, NEW n
      PROVE  Truthful(Credit(n), seen, slot)
  <2>. DEFINE b == Credit(n)
  <2>1. b.requests = acct.requests /\ b.preimages = acct.preimages
    BY <1>3, <1>4 DEF Credit, AccountType
  <2>. HIDE DEF b
  <2>2. Truthful(b, seen, slot)
    BY <1>3, <1>4, <2>1, SameLookups
  <2>. QED
    BY <2>2 DEF b
<1>5. CASE Invoke
  <2>1. /\ Idle /\ UNCHANGED <<slot, inBlock, acct, seen>>
        /\ \E n \in Amounts \cup {0} :
             x' = [account |-> Credit(n), provisions |-> {}] /\ y' = x'
    BY <1>5 DEF Invoke
  <2>2. PICK n \in Amounts \cup {0} :
          x' = [account |-> Credit(n), provisions |-> {}] /\ y' = x'
    BY <2>1
  <2>3. x'.account = Credit(n) /\ y'.account = Credit(n)
    BY <2>2
  <2>4. Truthful(Credit(n), seen, slot)
    BY <1>4, <2>1
  <2>. QED
    BY <1>3, <2>1, <2>3, <2>4 DEF LookupInv
<1>6. CASE ReceiveWithoutCode
  <2>1. /\ Idle /\ UNCHANGED <<slot, inBlock, x, y, seen>>
        /\ \E n \in Amounts : acct' = Credit(n)
    BY <1>6 DEF ReceiveWithoutCode
  <2>2. Truthful(acct', seen, slot)
    BY <1>4, <2>1
  <2>. QED
    BY <1>3, <2>1, <2>2 DEF LookupInv
<1>7. CASE HostCall
  BY <1>7, CallLookup
<1>8. CASE EndInvocation
  <2>1. /\ x # Nothing /\ SoundContext(x, slot) /\ SoundContext(y, slot)
        /\ x' = Nothing /\ UNCHANGED <<slot, inBlock, seen>>
    BY <1>8 DEF AccountInv, EndInvocation
  <2>2. PICK end \in {x, y}, others \in SUBSET Hashes :
          acct' = Integrate(end.account, end.provisions \cup others)
    BY <1>8 DEF EndInvocation
  <2>3. /\ end.account \in AccountType(slot) /\ Requested(end.account)
        /\ end.provisions \subseteq Hashes
    BY <2>1 DEF SoundContext, Sound
  <2>4. Past(seen, slot) /\ Truthful(end.account, seen, slot)
    BY <2>1, SeenIsPast DEF LookupInv
  <2>5. Truthful(acct', seen, slot)
    BY <1>1, <2>2, <2>3, <2>4, IntegrateTruthful
  <2>. QED
    BY <2>1, <2>5 DEF LookupInv
<1>9. CASE ProvidedByOthers
  <2>1. /\ Idle /\ UNCHANGED <<slot, inBlock, x, y, seen>>
        /\ \E others \in SUBSET Hashes : acct' = Integrate(acct, others)
    BY <1>9 DEF ProvidedByOthers
  <2>2. Truthful(acct', seen, slot)
    BY <1>1, <1>3, <2>1, IntegrateTruthful
  <2>. QED
    BY <1>3, <2>1, <2>2 DEF LookupInv
<1>10. CASE Eject
  BY <1>3, <1>10 DEF Eject, LookupInv
<1>11. CASE EndBlock
  <2>1. x = Nothing /\ x' = Nothing /\ slot' = slot /\ inBlock' = FALSE
    BY <1>11 DEF EndBlock
  <2>2. DOMAIN seen' = {s \in DOMAIN seen : s >= slot - Expiration} \cup {slot}
    BY <1>11 DEF EndBlock
  <2>3. DOMAIN seen' \subseteq 0 .. slot'
    BY <1>1, <2>1, <2>2 DEF LookupInv
  <2>4. ASSUME NEW t \in DOMAIN seen'
        PROVE  seen'[t] \subseteq Hashes
    <3>1. /\ t # slot => seen'[t] = seen[t] /\ t \in DOMAIN seen
          /\ t = slot => seen'[t] = {h \in Hashes : SaysAvailable(acct', h) /\ acct' # Nothing}
      BY <1>11, <2>2 DEF EndBlock
    <3>. QED
      BY <3>1 DEF LookupInv
  <2>5. acct' # Nothing => Truthful(acct', seen', slot')
    BY <1>11, <2>1, EndBlockTruthful
  <2>. QED
    BY <2>1, <2>3, <2>4, <2>5 DEF LookupInv
<1>12. CASE UNCHANGED vars
  BY <1>12 DEF LookupInv, vars
<1>. QED
  BY <1>2, <1>5, <1>6, <1>7, <1>8, <1>9, <1>10, <1>11, <1>12 DEF Next

(* Between blocks these say what LookupIsTruthful asks for.                *)
LEMMA TruthfulLookups ==
  ASSUME AccountInv, LookupInv
  PROVE  LookupIsTruthful
<1>. SUFFICES ASSUME Settled
              PROVE  LookupIsTruthful
  BY DEF LookupIsTruthful, LookupFindsOnlyAvailable, LookupFindsForgotten
<1>1. acct # Nothing /\ Sound(acct, slot) /\ Truthful(acct, seen, slot)
  BY DEF Settled, AccountInv, LookupInv
<1>2. ASSUME NEW t \in DOMAIN seen, NEW h \in Hashes
      PROVE  /\ HistoricalLookup(acct, t, h) => h \in seen[t]
             /\ h \in seen[t] /\ Recent(t) =>
                  \/ HistoricalLookup(acct, t, h)
                  \/ /\ Own(h) \in DOMAIN acct.requests
                     /\ Len(acct.requests[Own(h)]) = 3 \/ h \notin acct.preimages
  <2>. PICK q : q = acct.requests[Own(h)]
    OBVIOUS
  <2>1. /\ h \in acct.preimages /\ Found(q, t) => h \in seen[t]
        /\ h \in seen[t] /\ t >= slot - Expiration =>
             Own(h) \in DOMAIN acct.requests /\ Was(q, t)
    BY <1>1 DEF Truthful
  <2>2. HistoricalLookup(acct, t, h) <=> h \in acct.preimages /\ AvailableAt(q, t)
    BY DEF HistoricalLookup, Own
  <2>3. h \in acct.preimages => Own(h) \in DOMAIN acct.requests
    BY <1>1 DEF Sound, Requested, Own
  <2>4. Own(h) \in DOMAIN acct.requests => q \in Seq(0 .. slot)
    BY <1>1, TimesOf DEF Sound
  <2>5. t \in Nat
    BY DEF LookupInv
  <2>6. ASSUME Own(h) \in DOMAIN acct.requests
        PROVE  /\ AvailableAt(q, t) => Found(q, t)
               /\ Was(q, t) => AvailableAt(q, t) \/ Len(q) = 3
    <3>1. Len(q) = 2 => q[2] \in Nat
      <4>1. Len(q) = 2 => 2 \in 1 .. Len(q)
        OBVIOUS
      <4>2. \A i \in 1 .. Len(q) : q[i] \in 0 .. slot
        BY <2>4, <2>6, SequenceFacts
      <4>. QED
        BY <4>1, <4>2
    <3>. QED
      BY <2>5, <3>1 DEF Found, Was, AvailableAt
  <2>. QED
    BY <2>1, <2>2, <2>3, <2>6 DEF Recent
<1>3. \A t \in DOMAIN seen : seen[t] \subseteq Hashes
  BY DEF LookupInv
<1>4. LookupFindsOnlyAvailable
  BY <1>2 DEF LookupFindsOnlyAvailable
<1>5. LookupFindsForgotten
  <2>. SUFFICES ASSUME NEW t \in DOMAIN seen, NEW h \in seen[t], Recent(t)
                PROVE  \/ HistoricalLookup(acct, t, h)
                       \/ LET r == <<h, PreimageLength[h]>>
                          IN /\ r \in DOMAIN acct.requests
                             /\ Len(acct.requests[r]) = 3 \/ h \notin acct.preimages
    BY DEF LookupFindsForgotten
  <2>1. h \in Hashes
    BY <1>3
  <2>. QED
    BY <1>2, <2>1 DEF Own
<1>. QED
  BY <1>4, <1>5 DEF LookupIsTruthful

(* A historical lookup finds a preimage at the slot of a past block only   *)
(* if it had been available then, and still finds those forgotten lately,  *)
(* for any number of slots, of requests and of invocations                 *)
(* (service-account-impl.ts:220-270, functions.ts:1548-1575).              *)
THEOREM LookupsTruthful == Spec => []LookupIsTruthful
<1>1. Init => AccountInv /\ LookupInv
  BY InitSound, InitLookup
<1>2. AccountInv /\ LookupInv /\ [Next]_vars => (AccountInv /\ LookupInv)'
  BY StepSound, StepLookup
<1>3. AccountInv /\ LookupInv => LookupIsTruthful
  BY TruthfulLookups
<1>. QED
  BY <1>1, <1>2, <1>3, PTL DEF Spec

-----------------------------------------------------------------------------
(* Sums, of functions over finite sets of indices.                         *)

(* Induction over the subsets of a finite set: strict inclusion is well    *)
(* founded.                                                                *)
LEMMA SubsetInduction ==
  ASSUME NEW S, IsFiniteSet(S), NEW G,
         \A T \in SUBSET S : (\A U \in SUBSET T : U # T => U \in G) => T \in G
  PROVE  \A T \in SUBSET S : T \in G
<1>. DEFINE Bad == {T \in SUBSET S : T \notin G}
<1>. SUFFICES ASSUME Bad # {} PROVE FALSE
  OBVIOUS
<1>1. Bad \subseteq FiniteSubsetsOf(S)
  BY FS_Subset DEF FiniteSubsetsOf
<1>2. PICK T \in Bad : \A U \in Bad : <<U, T>> \notin StrictSubsetOrdering(S)
  <2>. HIDE DEF Bad
  <2>. QED
    BY <1>1, FS_StrictSubsetOrderingWellFounded, WFMin
<1>3. ASSUME NEW U \in SUBSET T, U # T PROVE U \in G
  <2>. SUFFICES ASSUME U \notin G PROVE FALSE
    OBVIOUS
  <2>1. U \in Bad /\ U \in SUBSET S /\ T \in SUBSET S
    OBVIOUS
  <2>2. <<U, T>> \in StrictSubsetOrdering(S)
    BY <2>1, <1>3 DEF StrictSubsetOrdering
  <2>. QED
    BY <1>2, <2>1, <2>2
<1>. QED
  BY <1>2, <1>3

(* How SumFunctionOnSet recurs on the subsets of its indices.              *)
Picked(s) == CHOOSE i \in s : TRUE
Summing(g, f, S) ==
  /\ DOMAIN g = SUBSET S
  /\ \A T \in SUBSET S : g[T] = IF T = {} THEN 0 ELSE f[Picked(T)] + g[T \ {Picked(T)}]

LEMMA PickedIn ==
  ASSUME NEW S, S # {}
  PROVE  Picked(S) \in S
BY DEF Picked

(* Recursions over a set and over a subset agree on the latter.            *)
LEMMA SummingAgrees ==
  ASSUME NEW S, IsFiniteSet(S), NEW T \in SUBSET S, NEW f, NEW g, NEW h,
         Summing(g, f, S), Summing(h, f, T)
  PROVE  h[T] = g[T]
<1>. DEFINE G == {U \in SUBSET T : h[U] = g[U]}
<1>1. IsFiniteSet(T)
  BY FS_Subset
<1>2. ASSUME NEW U \in SUBSET T, \A W \in SUBSET U : W # U => W \in G
      PROVE  U \in G
  <2>1. CASE U = {}
    BY <2>1 DEF Summing
  <2>2. CASE U # {}
    <3>1. Picked(U) \in U
      BY <2>2, PickedIn
    <3>2. U \ {Picked(U)} \in G
      BY <3>1, <1>2
    <3>3. h[U] = f[Picked(U)] + h[U \ {Picked(U)}]
      BY <2>2 DEF Summing
    <3>4. g[U] = f[Picked(U)] + g[U \ {Picked(U)}]
      BY <2>2 DEF Summing
    <3>. QED
      BY <3>2, <3>3, <3>4
  <2>. QED
    BY <2>1, <2>2
<1>3. \A U \in SUBSET T : U \in G
  <2>. HIDE DEF G
  <2>. QED
    BY <1>1, <1>2, SubsetInduction
<1>. QED
  BY <1>3

(* The recursion has a value: on a set that of any recursion over it, and  *)
(* these agree.                                                            *)
LEMMA SummingExists ==
  ASSUME NEW S, IsFiniteSet(S), NEW f
  PROVE  \E g : Summing(g, f, S)
<1>. DEFINE G == {T \in SUBSET S : \E g : Summing(g, f, T)}
<1>1. ASSUME NEW T \in SUBSET S, \A U \in SUBSET T : U # T => U \in G
      PROVE  T \in G
  <2>. DEFINE Any(U) == CHOOSE h : Summing(h, f, U)
              rest(U) == U \ {Picked(U)}
              g == [U \in SUBSET T |-> IF U = {} THEN 0
                                       ELSE f[Picked(U)] + Any(rest(U))[rest(U)]]
  <2>1. IsFiniteSet(T)
    BY FS_Subset
  <2>2. ASSUME NEW U \in SUBSET T, U # T
        PROVE  Summing(Any(U), f, U)
    <3>. \E h : Summing(h, f, U)
      BY <1>1, <2>2
    <3>. QED
      OBVIOUS
  <2>. HIDE DEF Any
  <2>3. ASSUME NEW U \in SUBSET T, U # {}
        PROVE  rest(U) \in SUBSET T /\ rest(U) # T /\ rest(U) # U /\ rest(U) \in SUBSET U
    BY <2>3, PickedIn
  <2>4. ASSUME NEW U \in SUBSET T, U # T
        PROVE  Any(U)[U] = g[U]
    <3>1. CASE U = {}
      BY <2>2, <2>4, <3>1 DEF Summing
    <3>2. CASE U # {}
      <4>. DEFINE R == rest(U)
      <4>1. R \in SUBSET T /\ R # T /\ R \in SUBSET U /\ IsFiniteSet(U)
        BY <2>1, <2>3, <3>2, FS_Subset
      <4>2. Any(U)[U] = f[Picked(U)] + Any(U)[R] /\ g[U] = f[Picked(U)] + Any(R)[R]
        BY <2>2, <2>4, <3>2 DEF Summing
      <4>3. Any(R)[R] = Any(U)[R]
        <5>. Summing(Any(U), f, U) /\ Summing(Any(R), f, R)
          BY <2>2, <2>4, <4>1
        <5>. HIDE DEF R
        <5>. QED
          BY <4>1, SummingAgrees
      <4>. QED
        BY <4>2, <4>3
    <3>. QED
      BY <3>1, <3>2
  <2>5. ASSUME NEW U \in SUBSET T
        PROVE  g[U] = IF U = {} THEN 0 ELSE f[Picked(U)] + g[rest(U)]
    <3>1. U # {} => Any(rest(U))[rest(U)] = g[rest(U)]
      BY <2>3, <2>4
    <3>. QED
      BY <3>1
  <2>6. DOMAIN g = SUBSET T
    OBVIOUS
  <2>. HIDE DEF g
  <2>7. Summing(g, f, T)
    BY <2>5, <2>6 DEF Summing
  <2>. QED
    BY <2>7
<1>2. \A T \in SUBSET S : T \in G
  <2>. HIDE DEF G
  <2>. QED
    BY <1>1, SubsetInduction
<1>. QED
  BY <1>2

(* SumFunctionOnSet is the value of the recursion.                         *)
LEMMA SumIsSumming ==
  ASSUME NEW S, IsFiniteSet(S), NEW f, \A i \in S : f[i] \in Int
  PROVE  \E g : Summing(g, f, S) /\ SumFunctionOnSet(f, S) = g[S]
<1>. DEFINE Body(g) == [T \in SUBSET S |->
                          IF T = {} THEN 0
                          ELSE f[CHOOSE i \in T : TRUE] + g[T \ {CHOOSE i \in T : TRUE}]]
            iter == CHOOSE g : g = Body(g)
<1>1. SumFunctionOnSet(f, S) = iter[S]
  BY DEF SumFunctionOnSet, FoldFunctionOnSet, MapThenFoldSet
<1>2. PICK h : Summing(h, f, S)
  BY SummingExists
<1>3. PICK g : g = Body(g) /\ g = iter
  <2>. DEFINE k == [T \in SUBSET S |-> h[T]]
  <2>1. k = Body(k)
    BY <1>2 DEF Summing, Picked
  <2>. HIDE DEF k, Body
  <2>. QED
    BY <2>1
<1>4. Summing(g, f, S)
  BY <1>3 DEF Summing, Picked
<1>. QED
  BY <1>1, <1>3, <1>4

LEMMA SumOfNone ==
  ASSUME NEW f
  PROVE  SumFunctionOnSet(f, {}) = 0
<1>1. PICK g : Summing(g, f, {}) /\ SumFunctionOnSet(f, {}) = g[{}]
  BY FS_EmptySet, SumIsSumming
<1>. QED
  BY <1>1 DEF Summing

(* A sum is that of the rest and of the element picked first.              *)
LEMMA SumPick ==
  ASSUME NEW S, IsFiniteSet(S), S # {}, NEW f, \A i \in S : f[i] \in Int
  PROVE  SumFunctionOnSet(f, S)
           = f[Picked(S)] + SumFunctionOnSet(f, S \ {Picked(S)})
<1>. DEFINE T == S \ {Picked(S)}
<1>1. T \in SUBSET S /\ IsFiniteSet(T) /\ \A i \in T : f[i] \in Int
  BY FS_RemoveElement
<1>. HIDE DEF T
<1>2. PICK g : Summing(g, f, S) /\ SumFunctionOnSet(f, S) = g[S]
  BY SumIsSumming
<1>3. PICK h : Summing(h, f, T) /\ SumFunctionOnSet(f, T) = h[T]
  BY <1>1, SumIsSumming
<1>4. h[T] = g[T]
  BY <1>1, <1>2, <1>3, SummingAgrees
<1>5. g[S] = f[Picked(S)] + g[T]
  BY <1>2 DEF Summing, T
<1>. QED
  BY <1>2, <1>3, <1>4, <1>5 DEF T

LEMMA SumInt ==
  ASSUME NEW S, IsFiniteSet(S), NEW f, \A i \in S : f[i] \in Int
  PROVE  SumFunctionOnSet(f, S) \in Int
<1>. DEFINE G == {T \in SUBSET S : SumFunctionOnSet(f, T) \in Int}
<1>1. ASSUME NEW T \in SUBSET S, \A U \in SUBSET T : U # T => U \in G
      PROVE  T \in G
  <2>1. CASE T = {}
    BY <2>1, SumOfNone
  <2>2. CASE T # {}
    <3>1. Picked(T) \in T /\ IsFiniteSet(T)
      BY <2>2, PickedIn, FS_Subset
    <3>2. SumFunctionOnSet(f, T) = f[Picked(T)] + SumFunctionOnSet(f, T \ {Picked(T)})
      BY <2>2, <3>1, SumPick
    <3>3. SumFunctionOnSet(f, T \ {Picked(T)}) \in Int /\ f[Picked(T)] \in Int
      BY <1>1, <3>1
    <3>. QED
      BY <3>2, <3>3
  <2>. QED
    BY <2>1, <2>2
<1>2. \A T \in SUBSET S : T \in G
  <2>. HIDE DEF G
  <2>. QED
    BY <1>1, SubsetInduction
<1>. QED
  BY <1>2

(* The order does not matter: any element may be taken first.              *)
LEMMA SumRemove ==
  ASSUME NEW S, IsFiniteSet(S), NEW f, \A i \in S : f[i] \in Int, NEW k \in S
  PROVE  SumFunctionOnSet(f, S) = f[k] + SumFunctionOnSet(f, S \ {k})
<1>. DEFINE G == {T \in SUBSET S : \A i \in T :
                    SumFunctionOnSet(f, T) = f[i] + SumFunctionOnSet(f, T \ {i})}
<1>1. ASSUME NEW T \in SUBSET S, \A U \in SUBSET T : U # T => U \in G
      PROVE  T \in G
  <2>. SUFFICES ASSUME NEW i \in T
                PROVE  SumFunctionOnSet(f, T) = f[i] + SumFunctionOnSet(f, T \ {i})
    OBVIOUS
  <2>. DEFINE p == Picked(T)
  <2>1. p \in T /\ IsFiniteSet(T)
    BY PickedIn, FS_Subset
  <2>2. SumFunctionOnSet(f, T) = f[p] + SumFunctionOnSet(f, T \ {p})
    BY <2>1, SumPick
  <2>. HIDE DEF p
  <2>3. CASE i = p
    BY <2>2, <2>3
  <2>4. CASE i # p
    <3>1. T \ {p} \in G /\ T \ {i} \in G /\ i \in T \ {p} /\ p \in T \ {i}
      <4>. T \ {p} # T /\ T \ {i} # T
        BY <2>1
      <4>. QED
        BY <1>1, <2>1, <2>4
    <3>2. /\ SumFunctionOnSet(f, T \ {p}) = f[i] + SumFunctionOnSet(f, (T \ {p}) \ {i})
          /\ SumFunctionOnSet(f, T \ {i}) = f[p] + SumFunctionOnSet(f, (T \ {i}) \ {p})
      BY <3>1
    <3>. DEFINE rest == SumFunctionOnSet(f, (T \ {p}) \ {i})
    <3>3. (T \ {p}) \ {i} = (T \ {i}) \ {p}
      OBVIOUS
    <3>4. rest \in Int /\ f[i] \in Int /\ f[p] \in Int
      <4>. IsFiniteSet((T \ {p}) \ {i}) /\ \A j \in (T \ {p}) \ {i} : f[j] \in Int
        BY <2>1, FS_RemoveElement
      <4>. QED
        BY <2>1, SumInt
    <3>. HIDE DEF rest
    <3>5. SumFunctionOnSet(f, T) = f[p] + (f[i] + rest)
      BY <2>2, <3>2 DEF rest
    <3>6. SumFunctionOnSet(f, T \ {i}) = f[p] + rest
      BY <3>2, <3>3 DEF rest
    <3>. QED
      BY <3>4, <3>5, <3>6
  <2>. QED
    BY <2>3, <2>4
<1>2. \A T \in SUBSET S : T \in G
  <2>. HIDE DEF G
  <2>. QED
    BY <1>1, SubsetInduction
<1>. QED
  BY <1>2

(* Equal terms make equal sums.                                            *)
LEMMA SumSame ==
  ASSUME NEW S, IsFiniteSet(S), NEW f, NEW g,
         \A i \in S : f[i] \in Int /\ f[i] = g[i]
  PROVE  SumFunctionOnSet(f, S) = SumFunctionOnSet(g, S)
<1>. DEFINE G == {T \in SUBSET S : SumFunctionOnSet(f, T) = SumFunctionOnSet(g, T)}
<1>1. ASSUME NEW T \in SUBSET S, \A U \in SUBSET T : U # T => U \in G
      PROVE  T \in G
  <2>1. CASE T = {}
    BY <2>1, SumOfNone
  <2>2. CASE T # {}
    <3>1. Picked(T) \in T /\ IsFiniteSet(T)
      BY <2>2, PickedIn, FS_Subset
    <3>2. \A i \in T : f[i] \in Int /\ g[i] \in Int
      OBVIOUS
    <3>3. SumFunctionOnSet(f, T) = f[Picked(T)] + SumFunctionOnSet(f, T \ {Picked(T)})
      BY <2>2, <3>1, <3>2, SumPick
    <3>4. SumFunctionOnSet(g, T) = g[Picked(T)] + SumFunctionOnSet(g, T \ {Picked(T)})
      BY <2>2, <3>1, <3>2, SumPick
    <3>. QED
      BY <1>1, <3>1, <3>3, <3>4
  <2>. QED
    BY <2>1, <2>2
<1>2. \A T \in SUBSET S : T \in G
  <2>. HIDE DEF G
  <2>. QED
    BY <1>1, SubsetInduction
<1>. QED
  BY <1>2

-----------------------------------------------------------------------------
(* Counters: what is counted, and what a put and a removal change of it.   *)
Exact(a) ==
  /\ IsFiniteSet(DOMAIN a.storage) /\ IsFiniteSet(DOMAIN a.requests)
  /\ a.items = Cardinality(DOMAIN a.storage) + 2 * Cardinality(DOMAIN a.requests)
  /\ a.octets = StoredOctets(a.storage) + RequestedOctets(a.requests)

CountInv ==
  /\ acct # Nothing => Exact(acct)
  /\ x # Nothing => Exact(x.account) /\ Exact(y.account)

(* Sums over a set and over all of it but one.                             *)
LEMMA SumsDiffer ==
  ASSUME NEW D, IsFiniteSet(D), NEW f, \A i \in D : f[i] \in Int, NEW k \in D,
         NEW g, \A i \in D \ {k} : g[i] = f[i]
  PROVE  /\ SumFunctionOnSet(f, D) = f[k] + SumFunctionOnSet(g, D \ {k})
         /\ SumFunctionOnSet(g, D \ {k}) \in Int
<1>1. IsFiniteSet(D \ {k}) /\ \A i \in D \ {k} : g[i] \in Int /\ g[i] = f[i]
  BY FS_RemoveElement
<1>2. /\ SumFunctionOnSet(g, D \ {k}) = SumFunctionOnSet(f, D \ {k})
      /\ SumFunctionOnSet(g, D \ {k}) \in Int
  BY <1>1, SumSame, SumInt
<1>. QED
  BY <1>2, SumRemove

LEMMA StoreParts ==
  ASSUME NEW f \in Stores
  PROVE  /\ DOMAIN f \subseteq Keys
         /\ \A k \in DOMAIN f : f[k] \in Nat /\ KeyLength[k] \in Nat
<1>1. PICK K \in SUBSET Keys : f \in [K -> ValueLengths]
  BY DEF Stores
<1>. QED
  BY <1>1, Lengths

LEMMA StoredWithout ==
  ASSUME NEW f \in Stores, IsFiniteSet(DOMAIN f), NEW k \in DOMAIN f
  PROVE  /\ StoredOctets(f) = 34 + KeyLength[k] + f[k] + StoredOctets(Without(f, k))
         /\ StoredOctets(Without(f, k)) \in Int
         /\ DOMAIN Without(f, k) = DOMAIN f \ {k}
<1>. DEFINE D == DOMAIN f
            p == [i \in D |-> 34 + KeyLength[i] + f[i]]
            q == [i \in D \ {k} |-> 34 + KeyLength[i] + Without(f, k)[i]]
<1>1. \A i \in D : p[i] \in Int /\ p[i] = 34 + KeyLength[i] + f[i]
  BY StoreParts
<1>2. \A i \in D \ {k} : q[i] = p[i]
  BY DEF Without
<1>3. DOMAIN Without(f, k) = D \ {k}
  BY DEF Without
<1>4. /\ StoredOctets(f) = SumFunctionOnSet(p, D)
      /\ StoredOctets(Without(f, k)) = SumFunctionOnSet(q, D \ {k})
  BY <1>3 DEF StoredOctets, SumFunction
<1>. HIDE DEF p, q
<1>5. /\ SumFunctionOnSet(p, D) = p[k] + SumFunctionOnSet(q, D \ {k})
      /\ SumFunctionOnSet(q, D \ {k}) \in Int
  BY <1>1, <1>2, SumsDiffer
<1>. QED
  BY <1>1, <1>3, <1>4, <1>5

LEMMA StoredPut ==
  ASSUME NEW f \in Stores, IsFiniteSet(DOMAIN f), NEW k \in Keys, k \notin DOMAIN f,
         NEW v \in ValueLengths
  PROVE  /\ StoredOctets(Put(f, k, v)) = 34 + KeyLength[k] + v + StoredOctets(f)
         /\ StoredOctets(f) \in Int
         /\ DOMAIN Put(f, k, v) = DOMAIN f \cup {k}
<1>1. Put(f, k, v) \in Stores
  BY StorePut
<1>2. DOMAIN Put(f, k, v) = DOMAIN f \cup {k} /\ Put(f, k, v)[k] = v
  BY DEF Put
<1>3. Without(Put(f, k, v), k) = f
  <2>1. DOMAIN f = (DOMAIN f \cup {k}) \ {k}
    OBVIOUS
  <2>2. f = [i \in DOMAIN f |-> f[i]]
    BY DEF Stores
  <2>. QED
    BY <1>2, <2>1, <2>2 DEF Without, Put
<1>4. IsFiniteSet(DOMAIN f \cup {k})
  BY FS_AddElement
<1>. PICK p \in Stores : p = Put(f, k, v)
  BY <1>1
<1>. QED
  BY <1>2, <1>3, <1>4, StoredWithout

LEMMA RequestParts ==
  ASSUME NEW s, NEW f \in RequestMaps(s)
  PROVE  DOMAIN f \subseteq Requestable /\ \A r \in DOMAIN f : r[2] \in Nat
<1>1. PICK R \in SUBSET Requestable : f \in [R -> Times(s)]
  BY DEF RequestMaps
<1>. QED
  BY <1>1, RequestLengths

LEMMA RequestedWithout ==
  ASSUME NEW s, NEW f \in RequestMaps(s), IsFiniteSet(DOMAIN f), NEW r \in DOMAIN f,
         NEW g, DOMAIN g = DOMAIN f \ {r}
  PROVE  /\ RequestedOctets(f) = 81 + r[2] + RequestedOctets(g)
         /\ RequestedOctets(g) \in Int
<1>. DEFINE D == DOMAIN f
            p == [i \in D |-> 81 + i[2]]
            q == [i \in D \ {r} |-> 81 + i[2]]
<1>1. \A i \in D : p[i] \in Int /\ p[i] = 81 + i[2]
  BY RequestParts
<1>2. \A i \in D \ {r} : q[i] = p[i]
  OBVIOUS
<1>3. /\ RequestedOctets(f) = SumFunctionOnSet(p, D)
      /\ RequestedOctets(g) = SumFunctionOnSet(q, D \ {r})
  BY DEF RequestedOctets, SumFunction
<1>. HIDE DEF p, q
<1>4. /\ SumFunctionOnSet(p, D) = p[r] + SumFunctionOnSet(q, D \ {r})
      /\ SumFunctionOnSet(q, D \ {r}) \in Int
  BY <1>1, <1>2, SumsDiffer
<1>. QED
  BY <1>1, <1>3, <1>4

LEMMA OctetsInt ==
  ASSUME NEW s, NEW a \in AccountType(s), IsFiniteSet(DOMAIN a.storage),
         IsFiniteSet(DOMAIN a.requests)
  PROVE  /\ StoredOctets(a.storage) \in Int /\ RequestedOctets(a.requests) \in Int
         /\ Cardinality(DOMAIN a.storage) \in Nat /\ Cardinality(DOMAIN a.requests) \in Nat
<1>1. StoredOctets(a.storage) \in Int
  <2>. PICK f \in Stores : f = a.storage
    BY DEF AccountType
  <2>. DEFINE p == [i \in DOMAIN f |-> 34 + KeyLength[i] + f[i]]
  <2>1. \A i \in DOMAIN f : p[i] \in Int
    BY StoreParts
  <2>2. StoredOctets(f) = SumFunctionOnSet(p, DOMAIN f)
    BY DEF StoredOctets, SumFunction
  <2>. HIDE DEF p
  <2>. QED
    BY <2>1, <2>2, SumInt
<1>2. RequestedOctets(a.requests) \in Int
  <2>. PICK f \in RequestMaps(s) : f = a.requests
    BY DEF AccountType
  <2>. DEFINE p == [i \in DOMAIN f |-> 81 + i[2]]
  <2>1. \A i \in DOMAIN f : p[i] \in Int
    BY RequestParts
  <2>2. RequestedOctets(f) = SumFunctionOnSet(p, DOMAIN f)
    BY DEF RequestedOctets, SumFunction
  <2>. HIDE DEF p
  <2>. QED
    BY <2>1, <2>2, SumInt
<1>. QED
  BY <1>1, <1>2, FS_CardinalityType

(* The operations keep the counters exact.                                 *)
LEMMA SameExact ==
  ASSUME NEW a, NEW b, Exact(a), b.storage = a.storage, DOMAIN b.requests = DOMAIN a.requests,
         b.items = a.items, b.octets = a.octets
  PROVE  Exact(b)
<1>1. RequestedOctets(b.requests) = RequestedOctets(a.requests)
  BY DEF RequestedOctets
<1>. QED
  BY <1>1 DEF Exact

LEMMA DeleteStorageExact ==
  ASSUME NEW s, NEW a \in AccountType(s), NEW k \in Keys, Exact(a)
  PROVE  LET d == DeleteStorage(a, k)
         IN Exact(d) /\ d \in AccountType(s) /\ k \notin DOMAIN d.storage
<1>. DEFINE d == DeleteStorage(a, k)
<1>1. d \in AccountType(s)
  BY StorageDeleted
<1>2. CASE k \notin DOMAIN a.storage
  BY <1>1, <1>2 DEF DeleteStorage
<1>3. CASE k \in DOMAIN a.storage
  <2>. PICK f \in Stores : f = a.storage
    BY DEF AccountType
  <2>. DEFINE n == a.items - 1  o == a.octets - 34 - f[k] - KeyLength[k]
  <2>1. d = [a EXCEPT !.storage = Without(f, k), !.items = n, !.octets = o]
    BY <1>3 DEF DeleteStorage
  <2>2. f[k] \in Nat /\ KeyLength[k] \in Nat
    BY <1>3, StoreParts
  <2>3. a.items \in Int /\ a.octets \in Int
    BY DEF AccountType
  <2>4. /\ IsFiniteSet(DOMAIN f) /\ IsFiniteSet(DOMAIN a.requests)
        /\ a.items = Cardinality(DOMAIN f) + 2 * Cardinality(DOMAIN a.requests)
        /\ a.octets = StoredOctets(f) + RequestedOctets(a.requests)
    BY DEF Exact
  <2>5. /\ Cardinality(DOMAIN f) \in Nat /\ Cardinality(DOMAIN a.requests) \in Nat
        /\ RequestedOctets(a.requests) \in Int
    BY <2>4, OctetsInt
  <2>6. /\ StoredOctets(f) = 34 + KeyLength[k] + f[k] + StoredOctets(Without(f, k))
        /\ StoredOctets(Without(f, k)) \in Int
        /\ DOMAIN Without(f, k) = DOMAIN f \ {k}
    BY <1>3, <2>4, StoredWithout
  <2>7. /\ IsFiniteSet(DOMAIN f \ {k})
        /\ Cardinality(DOMAIN f \ {k}) = Cardinality(DOMAIN f) - 1
    BY <1>3, <2>4, FS_RemoveElement
  <2>8. n = Cardinality(DOMAIN f \ {k}) + 2 * Cardinality(DOMAIN a.requests)
    BY <2>4, <2>5, <2>7
  <2>9. o = StoredOctets(Without(f, k)) + RequestedOctets(a.requests)
    BY <2>2, <2>4, <2>5, <2>6
  <2>. HIDE DEF d, n, o
  <2>10. /\ d.storage = Without(f, k) /\ d.items = n /\ d.octets = o
         /\ d.requests = a.requests
    BY <2>1 DEF AccountType
  <2>11. Exact(d)
    BY <2>4, <2>6, <2>7, <2>8, <2>9, <2>10 DEF Exact
  <2>. QED
    BY <1>1, <2>6, <2>10, <2>11 DEF d
<1>. QED
  BY <1>2, <1>3

LEMMA SetStorageExact ==
  ASSUME NEW s, NEW a \in AccountType(s), NEW k \in Keys, NEW v \in ValueLengths, Exact(a)
  PROVE  Exact(SetStorage(a, k, v))
<1>. DEFINE d == DeleteStorage(a, k)
            b == SetStorage(a, k, v)
<1>1. d \in AccountType(s) /\ k \notin DOMAIN d.storage /\ Exact(d)
  BY DeleteStorageExact
<1>. DEFINE n == d.items + 1  o == d.octets + 34 + v + KeyLength[k]
<1>2. b = [d EXCEPT !.storage = Put(d.storage, k, v), !.items = n, !.octets = o]
  BY DEF SetStorage
<1>. HIDE DEF d, b
<1>. PICK f \in Stores : f = d.storage
  BY <1>1 DEF AccountType
<1>3. v \in Nat /\ KeyLength[k] \in Nat
  BY Lengths
<1>4. /\ IsFiniteSet(DOMAIN f) /\ IsFiniteSet(DOMAIN d.requests)
      /\ d.items = Cardinality(DOMAIN f) + 2 * Cardinality(DOMAIN d.requests)
      /\ d.octets = StoredOctets(f) + RequestedOctets(d.requests)
  BY <1>1 DEF Exact
<1>5. /\ Cardinality(DOMAIN f) \in Nat /\ Cardinality(DOMAIN d.requests) \in Nat
      /\ RequestedOctets(d.requests) \in Int
  BY <1>1, <1>4, OctetsInt
<1>6. /\ StoredOctets(Put(f, k, v)) = 34 + KeyLength[k] + v + StoredOctets(f)
      /\ StoredOctets(f) \in Int
      /\ DOMAIN Put(f, k, v) = DOMAIN f \cup {k}
  BY <1>1, <1>4, StoredPut
<1>7. /\ IsFiniteSet(DOMAIN f \cup {k})
      /\ Cardinality(DOMAIN f \cup {k}) = Cardinality(DOMAIN f) + 1
  BY <1>1, <1>4, FS_AddElement
<1>8. n = Cardinality(DOMAIN f \cup {k}) + 2 * Cardinality(DOMAIN d.requests)
  BY <1>4, <1>5, <1>7
<1>9. o = StoredOctets(Put(f, k, v)) + RequestedOctets(d.requests)
  BY <1>3, <1>4, <1>5, <1>6
<1>. HIDE DEF n, o
<1>10. /\ b.storage = Put(f, k, v) /\ b.items = n /\ b.octets = o
       /\ b.requests = d.requests
  BY <1>1, <1>2 DEF AccountType
<1>11. Exact(b)
  BY <1>4, <1>6, <1>7, <1>8, <1>9, <1>10 DEF Exact
<1>. QED
  BY <1>11 DEF b

LEMMA DeleteRequestExact ==
  ASSUME NEW s, NEW a \in AccountType(s), NEW r \in Requestable, Exact(a)
  PROVE  Exact(DeleteRequest(a, r))
<1>. DEFINE d == DeleteRequest(a, r)
<1>1. d \in AccountType(s) /\ DOMAIN d.requests = DOMAIN a.requests \ {r}
  BY RequestDeleted
<1>2. CASE r \notin DOMAIN a.requests
  BY <1>2 DEF DeleteRequest
<1>3. CASE r \in DOMAIN a.requests
  <2>. PICK f \in RequestMaps(s) : f = a.requests
    BY DEF AccountType
  <2>. DEFINE n == a.items - 2  o == a.octets - (81 + r[2])
  <2>1. d = [a EXCEPT !.requests = Without(f, r), !.items = n, !.octets = o]
    BY <1>3 DEF DeleteRequest
  <2>2. r[2] \in Nat
    BY RequestLengths
  <2>4. /\ IsFiniteSet(DOMAIN f) /\ IsFiniteSet(DOMAIN a.storage)
        /\ a.items = Cardinality(DOMAIN a.storage) + 2 * Cardinality(DOMAIN f)
        /\ a.octets = StoredOctets(a.storage) + RequestedOctets(f)
    BY DEF Exact
  <2>5. /\ Cardinality(DOMAIN f) \in Nat /\ Cardinality(DOMAIN a.storage) \in Nat
        /\ StoredOctets(a.storage) \in Int
    BY <2>4, OctetsInt
  <2>. PICK g : g = d.requests
    OBVIOUS
  <2>6. /\ RequestedOctets(f) = 81 + r[2] + RequestedOctets(g)
        /\ RequestedOctets(g) \in Int
    <3>1. DOMAIN g = DOMAIN f \ {r} /\ r \in DOMAIN f /\ IsFiniteSet(DOMAIN f)
      BY <1>1, <1>3, <2>4
    <3>. HIDE DEF d, n, o
    <3>. QED
      BY ONLY f \in RequestMaps(s), <3>1, RequestedWithout
  <2>7. /\ IsFiniteSet(DOMAIN f \ {r})
        /\ Cardinality(DOMAIN f \ {r}) = Cardinality(DOMAIN f) - 1
    BY <1>3, <2>4, FS_RemoveElement
  <2>8. n = Cardinality(DOMAIN a.storage) + 2 * Cardinality(DOMAIN f \ {r})
    BY <2>4, <2>5, <2>7
  <2>9. o = StoredOctets(a.storage) + RequestedOctets(g)
    BY <2>2, <2>4, <2>5, <2>6
  <2>. HIDE DEF d, n, o
  <2>10. d.storage = a.storage /\ d.items = n /\ d.octets = o /\ DOMAIN g = DOMAIN f \ {r}
    BY <1>1, <2>1 DEF AccountType
  <2>11. Exact(d)
    BY <2>4, <2>7, <2>8, <2>9, <2>10 DEF Exact
  <2>. QED
    BY <2>11 DEF d
<1>. QED
  BY <1>2, <1>3

LEMMA SetRequestExact ==
  ASSUME NEW s, NEW a \in AccountType(s), NEW r \in Requestable, NEW q \in Times(s), Exact(a)
  PROVE  Exact(SetRequest(a, r, q))
<1>. DEFINE d == DeleteRequest(a, r)
            b == SetRequest(a, r, q)
<1>1. d \in AccountType(s) /\ DOMAIN d.requests = DOMAIN a.requests \ {r} /\ Exact(d)
  BY RequestDeleted, DeleteRequestExact
<1>2. b \in AccountType(s) /\ DOMAIN b.requests = DOMAIN a.requests \cup {r}
  BY RequestSet
<1>. DEFINE n == d.items + 2  o == d.octets + 81 + r[2]
<1>3. b = [d EXCEPT !.requests = Put(d.requests, r, q), !.items = n, !.octets = o]
  BY DEF SetRequest
<1>. HIDE DEF d, b
<1>. PICK g : g = d.requests
  OBVIOUS
<1>. PICK f \in RequestMaps(s) : f = b.requests
  BY <1>2 DEF AccountType
<1>4. r[2] \in Nat /\ r \in DOMAIN f /\ r \notin DOMAIN g /\ DOMAIN g = DOMAIN f \ {r}
      /\ DOMAIN f = DOMAIN g \cup {r}
  BY <1>1, <1>2, RequestLengths
<1>5. /\ IsFiniteSet(DOMAIN g) /\ IsFiniteSet(DOMAIN d.storage)
      /\ d.items = Cardinality(DOMAIN d.storage) + 2 * Cardinality(DOMAIN g)
      /\ d.octets = StoredOctets(d.storage) + RequestedOctets(g)
  BY <1>1 DEF Exact
<1>6. /\ Cardinality(DOMAIN g) \in Nat /\ Cardinality(DOMAIN d.storage) \in Nat
      /\ StoredOctets(d.storage) \in Int
  BY <1>1, <1>5, OctetsInt
<1>7. /\ IsFiniteSet(DOMAIN f) /\ Cardinality(DOMAIN f) = Cardinality(DOMAIN g) + 1
  BY <1>4, <1>5, FS_AddElement
<1>8. /\ RequestedOctets(f) = 81 + r[2] + RequestedOctets(g)
      /\ RequestedOctets(g) \in Int
  <2>1. DOMAIN g = DOMAIN f \ {r} /\ r \in DOMAIN f /\ IsFiniteSet(DOMAIN f)
    BY <1>4, <1>7
  <2>. QED
    BY ONLY ZenonT(30), f \in RequestMaps(s), <2>1, RequestedWithout
<1>9. n = Cardinality(DOMAIN d.storage) + 2 * Cardinality(DOMAIN f)
  BY <1>5, <1>6, <1>7
<1>10. o = StoredOctets(d.storage) + RequestedOctets(f)
  BY <1>4, <1>5, <1>6, <1>8
<1>. HIDE DEF n, o
<1>11. b.storage = d.storage /\ b.items = n /\ b.octets = o
  BY <1>1, <1>3 DEF AccountType
<1>12. Exact(b)
  BY <1>5, <1>7, <1>9, <1>10, <1>11 DEF Exact
<1>. QED
  BY <1>12 DEF b

LEMMA IntegrateExact ==
  ASSUME slot \in Nat, NEW a \in AccountType(slot), NEW hs, Exact(a)
  PROVE  Exact(Integrate(a, hs))
<1>. DEFINE taken == {h \in hs : Solicited(a, h)}
            m == [r \in DOMAIN a.requests |-> IF r[1] \in taken /\ a.requests[r] = << >>
                                                    /\ r[2] = PreimageLength[r[1]]
                                             THEN <<slot>> ELSE a.requests[r]]
            b == Integrate(a, hs)
<1>1. b = [a EXCEPT !.requests = m, !.preimages = a.preimages \cup taken]
  BY DEF Integrate
<1>2. b.requests = m /\ b.storage = a.storage /\ b.items = a.items /\ b.octets = a.octets
  BY <1>1 DEF AccountType
<1>3. DOMAIN b.requests = DOMAIN a.requests
  BY <1>2
<1>. HIDE DEF b
<1>4. Exact(b)
  BY <1>2, <1>3, SameExact
<1>. QED
  BY <1>4 DEF b

LEMMA NewExact ==
  ASSUME NEW r \in Requestable, NEW g \in Nat
  PROVE  Exact(NewAccount(r[1], r[2], g))
<1>. DEFINE bare == [code |-> r[1], gratis |-> g, balance |-> 0, items |-> 0, octets |-> 0,
                     storage |-> << >>, requests |-> << >>, preimages |-> {}]
            a == SetRequest(bare, r, << >>)
<1>1. bare \in AccountType(0) /\ << >> \in Times(0)
  BY Empty, RequestLengths DEF AccountType, Times
<1>2. Exact(bare)
  <2>1. DOMAIN << >> = {} /\ IsFiniteSet({}) /\ Cardinality({}) = 0
    BY FS_EmptySet
  <2>2. StoredOctets(<< >>) = 0 /\ RequestedOctets(<< >>) = 0
    <3>1. \A f : SumFunctionOnSet(f, {}) = 0
      BY SumOfNone
    <3>2. /\ StoredOctets(<< >>) = SumFunctionOnSet([k \in {} |-> 34 + KeyLength[k] + (<< >>)[k]], {})
          /\ RequestedOctets(<< >>) = SumFunctionOnSet([i \in {} |-> 81 + i[2]], {})
      BY <2>1 DEF StoredOctets, RequestedOctets, SumFunction
    <3>. QED
      BY <3>1, <3>2
  <2>. QED
    BY <2>1, <2>2 DEF Exact
<1>3. Exact(a) /\ a \in AccountType(0)
  <2>. HIDE DEF bare
  <2>. QED
    BY <1>1, <1>2, SetRequestExact, RequestSet
<1>4. r = <<r[1], r[2]>>
  BY DEF Requestable
<1>5. NewAccount(r[1], r[2], g) = [a EXCEPT !.balance = Threshold(a)]
  BY <1>4 DEF NewAccount
<1>. HIDE DEF a
<1>. DEFINE b == [a EXCEPT !.balance = Threshold(a)]
<1>6. b.storage = a.storage /\ b.requests = a.requests /\ b.items = a.items /\ b.octets = a.octets
  BY <1>3 DEF AccountType
<1>. HIDE DEF b
<1>7. Exact(b)
  BY <1>3, <1>6, SameExact
<1>. QED
  BY <1>5, <1>7 DEF b

-----------------------------------------------------------------------------
(* Counters in every step.                                                 *)
LEMMA InitCounts == Init => CountInv
<1>. SUFFICES ASSUME Init
              PROVE  CountInv
  OBVIOUS
<1>1. PICK r \in Requestable, g \in {0, MinBalance} : acct = NewAccount(r[1], r[2], g)
  BY DEF Init
<1>2. Exact(acct)
  BY <1>1, NewExact, Prices
<1>. QED
  BY <1>2 DEF CountInv, Init

LEMMA BecomesCounts ==
  ASSUME AccountInv, CountInv, x # Nothing, NEW a, Exact(a), Becomes(a)
  PROVE  CountInv'
<1>1. SoundContext(x, slot)
  BY DEF AccountInv
<1>2. x' = [x EXCEPT !.account = a] /\ UNCHANGED <<acct, y>>
  BY DEF Becomes
<1>3. x'.account = a
  BY <1>1, <1>2 DEF SoundContext
<1>. QED
  BY <1>2, <1>3 DEF CountInv

LEMMA CallCounts ==
  ASSUME AccountInv, CountInv, HostCall
  PROVE  CountInv'
<1>. DEFINE a == x.account
<1>1. x # Nothing
  BY DEF HostCall, Write, Solicit, Forget, Provide, Upgrade, Pay, Checkpoint, Running
<1>2. SoundContext(x, slot) /\ SoundContext(y, slot) /\ slot \in Nat
  BY <1>1, ConstantsAssumption DEF AccountInv
<1>3. a \in AccountType(slot) /\ Exact(a)
  BY <1>1, <1>2 DEF SoundContext, Sound, CountInv
<1>4. ASSUME NEW k \in Keys, NEW v \in ValueLengths \cup {0}, Write(k, v)
      PROVE  CountInv'
  <2>1. CASE v = 0
    <3>1. Becomes(DeleteStorage(a, k))
      BY <1>4, <2>1 DEF Write
    <3>2. Exact(DeleteStorage(a, k))
      BY <1>3, DeleteStorageExact
    <3>. QED
      BY <1>1, <3>1, <3>2, BecomesCounts
  <2>2. CASE v # 0
    <3>1. Becomes(SetStorage(a, k, v))
      BY <1>4, <2>2 DEF Write
    <3>2. Exact(SetStorage(a, k, v))
      BY <1>3, <2>2, SetStorageExact
    <3>. QED
      BY <1>1, <3>1, <3>2, BecomesCounts
  <2>. QED
    BY <2>1, <2>2
<1>5. ASSUME NEW r \in Requestable, NEW q \in Times(slot), Becomes(SetRequest(a, r, q))
      PROVE  CountInv'
  <2>. PICK b : b = SetRequest(a, r, q)
    OBVIOUS
  <2>1. Exact(b)
    BY <1>3, SetRequestExact
  <2>. QED
    BY <1>1, <1>5, <2>1, BecomesCounts
<1>6. ASSUME NEW r \in Requestable, Solicit(r)
      PROVE  CountInv'
  <2>1. CASE r \notin DOMAIN a.requests
    <3>1. Becomes(SetRequest(a, r, << >>)) /\ << >> \in Times(slot)
      BY <1>6, <2>1 DEF Solicit, Times
    <3>. QED
      BY <1>5, <3>1
  <2>2. CASE r \in DOMAIN a.requests
    <3>. PICK q : q = a.requests[r]
      OBVIOUS
    <3>1. Len(q) = 2 /\ Becomes(SetRequest(a, r, Append(q, slot))) /\ q \in Seq(0 .. slot)
      BY <1>3, <1>6, <2>2, TimesOf DEF Solicit
    <3>2. Append(q, slot) \in Times(slot)
      <4>. DEFINE T == 0 .. slot
      <4>1. q \in Seq(T) /\ slot \in T
        BY <1>2, <3>1
      <4>. HIDE DEF T
      <4>2. Append(q, slot) \in Seq(T) /\ Len(Append(q, slot)) = Len(q) + 1
        BY <4>1, SequenceFacts
      <4>. QED
        BY <3>1, <4>2 DEF Times, T
    <3>. QED
      BY <1>5, <3>1, <3>2
  <2>. QED
    BY <2>1, <2>2
<1>7. ASSUME NEW r \in Requestable, Forget(r)
      PROVE  CountInv'
  <2>. PICK q : q = a.requests[r]
    OBVIOUS
  <2>1. r \in DOMAIN a.requests /\ q \in Seq(0 .. slot) /\ slot \in 0 .. slot
    BY <1>2, <1>3, <1>7, TimesOf DEF Forget
  <2>2. \/ Becomes(DropRequest(a, r))
        \/ Len(q) = 1 /\ Becomes(SetRequest(a, r, <<q[1], slot>>))
        \/ Len(q) = 3 /\ Becomes(SetRequest(a, r, <<q[3], slot>>))
    BY <1>7 DEF Forget
  <2>3. CASE Becomes(DropRequest(a, r))
    <3>. DEFINE d == DeleteRequest(a, r)
                b == DropRequest(a, r)
    <3>1. b = [d EXCEPT !.preimages = d.preimages \ {r[1]}]
      BY DEF DropRequest
    <3>2. d \in AccountType(slot) /\ Exact(d)
      BY <1>3, RequestDeleted, DeleteRequestExact
    <3>. HIDE DEF d, b
    <3>3. b.storage = d.storage /\ b.requests = d.requests /\ b.items = d.items
          /\ b.octets = d.octets
      BY <3>1, <3>2 DEF AccountType
    <3>4. Exact(b)
      BY <3>2, <3>3, SameExact
    <3>. QED
      BY <1>1, <2>3, <3>4, BecomesCounts DEF b
  <2>4. \A u \in 0 .. slot : <<u, slot>> \in Times(slot)
    BY <2>1 DEF Times
  <2>5. CASE Len(q) = 1 /\ Becomes(SetRequest(a, r, <<q[1], slot>>))
    <3>1. q[1] \in 0 .. slot
      BY <2>1, <2>5, SequenceFacts
    <3>. QED
      BY <1>5, <2>4, <2>5, <3>1
  <2>6. CASE Len(q) = 3 /\ Becomes(SetRequest(a, r, <<q[3], slot>>))
    <3>1. q[3] \in 0 .. slot
      <4>1. 3 \in 1 .. Len(q)
        BY <2>6
      <4>. QED
        BY <2>1, <4>1, SequenceFacts
    <3>. QED
      BY <1>5, <2>4, <2>6, <3>1
  <2>. QED
    BY <2>2, <2>3, <2>5, <2>6
<1>8. ASSUME NEW h \in Hashes, Provide(h)
      PROVE  CountInv'
  <2>1. x' = [x EXCEPT !.provisions = x.provisions \cup {h}] /\ UNCHANGED <<acct, y>>
    BY <1>8 DEF Provide
  <2>2. x'.account = x.account
    BY <1>2, <2>1 DEF SoundContext
  <2>. QED
    BY <1>1, <2>1, <2>2 DEF CountInv
<1>9. ASSUME NEW c \in Hashes \cup {Ejector}, Upgrade(c)
      PROVE  CountInv'
  <2>. DEFINE b == [a EXCEPT !.code = c]
  <2>1. Becomes(b)
    BY <1>9 DEF Upgrade
  <2>2. b.storage = a.storage /\ b.requests = a.requests /\ b.items = a.items
        /\ b.octets = a.octets
    BY <1>3 DEF AccountType
  <2>. HIDE DEF b
  <2>3. Exact(b)
    BY <1>3, <2>2, SameExact
  <2>. QED
    BY <1>1, <2>1, <2>3, BecomesCounts
<1>10. ASSUME NEW n \in Amounts, Pay(n)
       PROVE  CountInv'
  <2>. DEFINE b == [a EXCEPT !.balance = a.balance - n]
  <2>1. Becomes(b)
    BY <1>10 DEF Pay
  <2>2. b.storage = a.storage /\ b.requests = a.requests /\ b.items = a.items
        /\ b.octets = a.octets
    BY <1>3 DEF AccountType
  <2>. HIDE DEF b
  <2>3. Exact(b)
    BY <1>3, <2>2, SameExact
  <2>. QED
    BY <1>1, <2>1, <2>3, BecomesCounts
<1>11. CASE Checkpoint
  BY <1>1, <1>11 DEF CountInv, Checkpoint
<1>. QED
  BY <1>4, <1>6, <1>7, <1>8, <1>9, <1>10, <1>11 DEF HostCall

LEMMA StepCounts ==
  ASSUME AccountInv, CountInv, [Next]_vars
  PROVE  CountInv'
<1>1. slot \in Nat
  BY ConstantsAssumption DEF AccountInv
<1>2. CASE BeginBlock
  BY <1>2 DEF BeginBlock, CountInv
<1>3. ASSUME Idle
      PROVE  acct \in AccountType(slot) /\ Exact(acct) /\ x = Nothing
  BY <1>3 DEF Idle, AccountInv, CountInv, Sound
<1>4. ASSUME Idle, NEW n
      PROVE  Exact(Credit(n))
  <2>. DEFINE b == Credit(n)
  <2>1. b.storage = acct.storage /\ b.requests = acct.requests /\ b.items = acct.items
        /\ b.octets = acct.octets
    BY <1>3, <1>4 DEF Credit, AccountType
  <2>. HIDE DEF b
  <2>2. Exact(b)
    BY <1>3, <1>4, <2>1, SameExact
  <2>. QED
    BY <2>2 DEF b
<1>5. CASE Invoke
  <2>1. Idle /\ acct' = acct
        /\ \E n \in Amounts \cup {0} :
             x' = [account |-> Credit(n), provisions |-> {}] /\ y' = x'
    BY <1>5 DEF Invoke
  <2>2. PICK n \in Amounts \cup {0} :
          x' = [account |-> Credit(n), provisions |-> {}] /\ y' = x'
    BY <2>1
  <2>3. x'.account = Credit(n) /\ y'.account = Credit(n)
    BY <2>2
  <2>. QED
    BY <1>3, <1>4, <2>1, <2>3 DEF CountInv
<1>6. CASE ReceiveWithoutCode
  <2>1. Idle /\ UNCHANGED <<x, y>> /\ \E n \in Amounts : acct' = Credit(n)
    BY <1>6 DEF ReceiveWithoutCode
  <2>. QED
    BY <1>3, <1>4, <2>1 DEF CountInv
<1>7. CASE HostCall
  BY <1>7, CallCounts
<1>8. CASE EndInvocation
  <2>1. x # Nothing /\ SoundContext(x, slot) /\ SoundContext(y, slot) /\ x' = Nothing
    BY <1>8 DEF AccountInv, EndInvocation
  <2>2. PICK end \in {x, y}, others \in SUBSET Hashes :
          acct' = Integrate(end.account, end.provisions \cup others)
    BY <1>8 DEF EndInvocation
  <2>3. end.account \in AccountType(slot) /\ Exact(end.account)
    BY <2>1 DEF SoundContext, CountInv
  <2>4. Exact(acct')
    BY <1>1, <2>2, <2>3, IntegrateExact
  <2>. QED
    BY <2>1, <2>4 DEF CountInv
<1>9. CASE ProvidedByOthers
  <2>1. Idle /\ UNCHANGED <<x, y>> /\ \E others \in SUBSET Hashes : acct' = Integrate(acct, others)
    BY <1>9 DEF ProvidedByOthers
  <2>2. Exact(acct')
    BY <1>1, <1>3, <2>1, IntegrateExact
  <2>. QED
    BY <1>3, <2>1, <2>2 DEF CountInv
<1>10. CASE Eject
  BY <1>10 DEF Eject, CountInv
<1>11. CASE EndBlock
  <2>1. x' = x /\ y' = y
        /\ acct' = IF acct = Nothing THEN Nothing ELSE Integrate(acct, ep)
    BY <1>11 DEF EndBlock
  <2>2. acct # Nothing => Exact(Integrate(acct, ep))
    BY <1>1, IntegrateExact DEF AccountInv, CountInv, Sound
  <2>. QED
    BY <2>1, <2>2 DEF CountInv
<1>12. CASE UNCHANGED vars
  BY <1>12 DEF CountInv, vars
<1>. QED
  BY <1>2, <1>5, <1>6, <1>7, <1>8, <1>9, <1>10, <1>11, <1>12 DEF Next

LEMMA CountersCorrect == Spec => [](AccountInv /\ CountInv)
<1>1. Init => AccountInv /\ CountInv
  BY InitSound, InitCounts
<1>2. AccountInv /\ CountInv /\ [Next]_vars => (AccountInv /\ CountInv)'
  BY StepSound, StepCounts
<1>. QED
  BY <1>1, <1>2, PTL DEF Spec

(* The counters kept beside storage and requests are what counting them    *)
(* would give, after any calls, for any keys, lengths and numbers of       *)
(* entries (merkle-account-data-storage-impl.ts:102-166).                  *)
THEOREM CountersAreExact == Spec => []CountersExact
<1>1. AccountInv /\ CountInv => CountersExact
  <2>. SUFFICES ASSUME AccountInv, CountInv, NEW a \in Versions
                PROVE  Exact(a)
    BY DEF CountersExact, Exact
  <2>1. CASE a \in {acct} \ {Nothing}
    BY <2>1 DEF CountInv
  <2>2. CASE \E c \in Contexts : a = c.account
    <3>1. PICK c \in {x, y} : c # Nothing /\ a = c.account
      BY <2>2 DEF Contexts
    <3>2. x # Nothing
      BY <3>1, ContextIsNotNothing DEF AccountInv
    <3>. QED
      BY <3>1, <3>2 DEF CountInv
  <2>. QED
    BY <2>1, <2>2 DEF Versions
<1>. QED
  BY <1>1, CountersCorrect, PTL

-----------------------------------------------------------------------------
(* Ejection.  The counters say that there is one entry only, and it is a   *)
(* request of two times, of which the second is too long ago.              *)
LEMMA EjectLeaves ==
  ASSUME AccountInv, LookupInv, CountInv, Eject
  PROVE  /\ DOMAIN acct.storage = {} /\ Cardinality(DOMAIN acct.requests) = 1
         /\ \A t \in {s \in DOMAIN seen : Recent(s)}, h \in Hashes : ~HistoricalLookup(acct, t, h)
<1>1. Sound(acct, slot) /\ Exact(acct) /\ slot \in Nat
  BY ConstantsAssumption DEF Eject, Idle, AccountInv, CountInv
<1>2. PICK g \in Hashes : MayEject(acct, g)
  BY DEF Eject
<1>3. PICK r \in DOMAIN acct.requests :
        /\ acct.items = 2 /\ Len(acct.requests[r]) = 2 /\ acct.requests[r][2] < slot - Expiration
  BY <1>2 DEF MayEject, Expired
<1>. DEFINE m == Cardinality(DOMAIN acct.storage)
            n == Cardinality(DOMAIN acct.requests)
<1>4. /\ IsFiniteSet(DOMAIN acct.storage) /\ IsFiniteSet(DOMAIN acct.requests)
      /\ m \in Nat /\ n \in Nat /\ m + 2 * n = 2
  BY <1>1, <1>3, FS_CardinalityType DEF Exact
<1>5. n # 0
  BY <1>4, FS_EmptySet
<1>. HIDE DEF m, n
<1>6. m = 0 /\ n = 1
  BY <1>4, <1>5
<1>7. DOMAIN acct.storage = {} /\ Cardinality(DOMAIN acct.requests) = 1
  BY <1>4, <1>6, FS_EmptySet DEF m, n
<1>8. \E e : DOMAIN acct.requests = {e}
  <2>. PICK D : D = DOMAIN acct.requests
    OBVIOUS
  <2>1. IsFiniteSet(D) /\ Cardinality(D) = 1
    BY <1>4, <1>7
  <2>2. \E e : D = {e}
    BY ONLY <2>1, FS_Singleton
  <2>. QED
    BY <2>2
<1>9. DOMAIN acct.requests = {r}
  BY <1>8
<1>10. acct.requests[r][2] \in Nat
  <2>. PICK q : q = acct.requests[r]
    OBVIOUS
  <2>1. q \in Seq(0 .. slot) /\ Len(q) = 2
    BY <1>1, <1>3, TimesOf DEF Sound
  <2>2. 2 \in 1 .. 2
    OBVIOUS
  <2>3. q[2] \in 0 .. slot
    BY ONLY <2>1, <2>2, SequenceFacts
  <2>. QED
    BY <1>1, <2>3
<1>11. ASSUME NEW t \in DOMAIN seen, Recent(t), NEW h \in Hashes
       PROVE  ~HistoricalLookup(acct, t, h)
  <2>. SUFFICES ASSUME HistoricalLookup(acct, t, h)
                PROVE  FALSE
    OBVIOUS
  <2>1. <<h, PreimageLength[h]>> = r
    BY <1>1, <1>9 DEF HistoricalLookup, Sound, Requested
  <2>2. acct.requests[r][2] > t
    BY <1>3, <2>1 DEF HistoricalLookup, AvailableAt
  <2>3. t \in Nat /\ t >= slot - Expiration
    BY <1>11 DEF LookupInv, Recent
  <2>. QED
    BY <1>1, <1>3, <1>10, <2>2, <2>3, ConstantsAssumption
<1>. QED
  BY <1>7, <1>11

(* No other step leaves nothing where there was an account.                *)
LEMMA OnlyEjected ==
  ASSUME AccountInv, [Next]_vars, acct # Nothing, acct' = Nothing
  PROVE  Eject
<1>1. Sound(acct, slot) /\ slot \in Nat
  BY ConstantsAssumption DEF AccountInv
<1>2. ASSUME NEW a, Sound(a, slot)
      PROVE  a # Nothing
  BY <1>2, SomethingIsNotNothing DEF Sound
<1>3. CASE UNCHANGED acct
  BY <1>3
<1>4. CASE ReceiveWithoutCode
  <2>1. PICK n \in Amounts : acct' = Credit(n)
    BY <1>4 DEF ReceiveWithoutCode
  <2>2. n \in Nat
    BY ConstantsAssumption
  <2>3. Sound(Credit(n), slot)
    BY <1>1, <2>2, CreditSound DEF Credit
  <2>. QED
    BY <1>2, <2>1, <2>3
<1>5. CASE EndInvocation
  <2>1. PICK end \in {x, y}, others \in SUBSET Hashes :
          acct' = Integrate(end.account, end.provisions \cup others)
    BY <1>5 DEF EndInvocation
  <2>2. SoundContext(x, slot) /\ SoundContext(y, slot)
    BY <1>5 DEF AccountInv, EndInvocation
  <2>3. Sound(end.account, slot) /\ end.provisions \subseteq Hashes
    BY <2>2 DEF SoundContext
  <2>4. Sound(acct', slot)
    BY <1>1, <2>1, <2>3, IntegrateSound
  <2>. QED
    BY <1>2, <2>4
<1>6. CASE ProvidedByOthers
  <2>1. PICK others \in SUBSET Hashes : acct' = Integrate(acct, others)
    BY <1>6 DEF ProvidedByOthers
  <2>. QED
    BY <1>1, <1>2, <2>1, IntegrateSound
<1>7. CASE EndBlock
  <2>1. acct' = Integrate(acct, ep) /\ ep \subseteq Hashes
    BY <1>7 DEF EndBlock, AccountInv
  <2>. QED
    BY <1>1, <1>2, <2>1, IntegrateSound
<1>8. CASE HostCall
  BY <1>3, <1>8 DEF HostCall, Write, Solicit, Forget, Provide, Upgrade, Pay, Checkpoint, Becomes
<1>. QED
  BY <1>3, <1>4, <1>5, <1>6, <1>7, <1>8 DEF Next, vars, BeginBlock, Invoke

(* An account is ejected only when it stores nothing and nothing it held   *)
(* can be looked up any more (functions.ts, eject): one request is left,   *)
(* and MayEject finds it expired, as the counters are exact.               *)
THEOREM EjectionLosesNothing == Spec => EjectLosesNothing
<1>1. Init => AccountInv /\ LookupInv /\ CountInv
  BY InitSound, InitLookup, InitCounts
<1>2. AccountInv /\ LookupInv /\ CountInv /\ [Next]_vars
        => (AccountInv /\ LookupInv /\ CountInv)'
  BY StepSound, StepLookup, StepCounts
<1>3. AccountInv /\ LookupInv /\ CountInv /\ [Next]_vars =>
        [acct # Nothing /\ acct' = Nothing =>
           /\ DOMAIN acct.storage = {}
           /\ \A t \in {s \in DOMAIN seen : Recent(s)}, h \in Hashes :
                ~HistoricalLookup(acct, t, h)
           /\ Cardinality(DOMAIN acct.requests) = 1]_vars
  BY OnlyEjected, EjectLeaves
<1>. QED
  BY <1>1, <1>2, <1>3, PTL DEF Spec, EjectLosesNothing
=============================================================================
