--------------------------- MODULE MCServiceAccount ---------------------------
(* Instances of ServiceAccount.  A balance that covers either a stored     *)
(* value or a second request, and, with what it receives, both.  After a   *)
(* block the account is written into the map of a state, beside another.   *)
EXTENDS ServiceAccount, SequencesExt, TLC

CONSTANTS k1, code, data, ejector, Index

KeyLengths == [k \in Keys |-> 1]
Preimages == [h \in Hashes |-> IF h = code THEN 5 ELSE 3]

Chapters == <<1, 2>>
Bootstrap == 0

\* The keys there are, and their bits: their numbers among the keys.
AllItems ==
  {<<"storage", k>> : k \in Keys} \cup {<<"request", r[1], r[2]>> : r \in Requestable}
  \cup {<<"preimage", h>> : h \in Hashes}
AllKeys ==
  FoldSet(LAMBDA k, seq : Append(seq, k), << >>,
          {[n |-> i, h |-> <<"zeros">>] : i \in DOMAIN Chapters}
          \cup {[n |-> 255, h |-> <<"index", s>>] : s \in {Index, Bootstrap}}
          \cup {[n |-> s, h |-> item] : s \in {Index, Bootstrap}, item \in AllItems})
BitsOf ==
  [k \in Range(AllKeys) |->
     LET number == CHOOSE i \in DOMAIN AllKeys : AllKeys[i] = k
     IN  [b \in 1..6 |-> (number \div (2 ^ (b - 1))) % 2]]
MCBits(k) == BitsOf[k]

States == INSTANCE StateMap WITH Bits <- MCBits

\* The account as the map sees it: one storage for values and requests.
Stored(s, a) ==
  [data |-> [code |-> a.code, balance |-> a.balance, gratis |-> a.gratis,
             totalOctets |-> a.octets, itemInStorage |-> a.items],
   preimages |-> a.preimages,
   merkleStorage |->
     [k \in {States!computeStorageKey(s, key) : key \in DOMAIN a.storage}
              \cup {States!computeRequestKey(s, r[1], r[2]) : r \in DOMAIN a.requests} |->
        IF k.h[1] = "storage" THEN <<"value", a.storage[k.h[2]]>>
        ELSE <<"slots", a.requests[<<k.h[2], k.h[3]>>]>>]]

(* Between two blocks the state can be written to a map and read back,     *)
(* whatever the account holds, unless its index is one that keys of        *)
(* chapters or accounts begin with (fuzzer-target cli.ts:91).              *)
StateReadsBack ==
  Settled =>
    States!ReadsBack([chapters |-> Chapters,
                      accounts |-> (Index :> Stored(Index, acct))
                                   @@ (Bootstrap :> Stored(Bootstrap, NewAccount(code, 5, 0)))])
=============================================================================
