--------------------------- MODULE ServiceAccount ---------------------------
(***************************************************************************)
(* One service account: its storage, the preimages it holds, the requests  *)
(* by which it solicits and forgets them, the two counters from which its  *)
(* threshold balance is computed, and the host calls that change it.       *)
(*                                                                         *)
(* A block accumulates the service in any number of invocations, each on a *)
(* working context x with a checkpoint y (accumulate.ts, C_fn: y survives  *)
(* a panic and running out of gas), and then integrates the preimages its  *)
(* extrinsic carries.  Sizes are numbers of octets; what is stored is left *)
(* out.  A hash determines its preimage, so also that preimage's length.   *)
(* A host call that is refused leaves x alone: it is no step.              *)
(***************************************************************************)
EXTENDS Integers, Sequences, FiniteSets, FiniteSetsExt

CONSTANTS
  Keys, KeyLength,             \* storage keys and their lengths
  ValueLengths,                \* lengths of the values written
  Hashes, PreimageLength,      \* hashes that have preimages, and these one's lengths
  OtherLengths,                \* lengths solicited that no preimage has
  Ejector,                     \* E_32 of another service's index: no hash of a code
  MinBalance, PerItem, PerOctet,  \* SERVICE_MIN_BALANCE and what items and octets add
  Expiration,                  \* PREIMAGE_EXPIRATION
  Amounts,                     \* amounts received and paid
  MaxSlot, MaxCalls, MaxBalance   \* bounds of the runs

ASSUME ConstantsAssumption ==
  /\ KeyLength \in [Keys -> Nat]
  /\ ValueLengths \subseteq Nat \ {0}
  /\ PreimageLength \in [Hashes -> Nat]
  /\ OtherLengths \subseteq Nat
  /\ Ejector \notin Hashes
  /\ MinBalance \in Nat /\ PerItem \in Nat /\ PerOctet \in Nat
  /\ Expiration \in Nat
  /\ Amounts \subseteq Nat
  /\ MaxSlot \in Nat

Nothing == [none |-> TRUE]   \* no such account or invocation

VARIABLES
  slot,    \* tau of the last block, or of the block in progress
  inBlock, \* whether a block is in progress
  ep,      \* hashes of the preimages it carries
  acct,    \* the account in delta, Nothing once ejected
  x, y,    \* the contexts of the invocation in progress, or Nothing
  calls,   \* host calls the invocation may still make
  seen     \* ghost: the hashes available after each block, as far as Expiration back

vars == <<slot, inBlock, ep, acct, x, y, calls, seen>>

-----------------------------------------------------------------------------
(* Storage, requests and their counters.                                   *)
Requestable == {<<h, PreimageLength[h]>> : h \in Hashes} \cup (Hashes \X OtherLengths)

Put(f, k, v) == [i \in DOMAIN f \cup {k} |-> IF i = k THEN v ELSE f[i]]
Without(f, k) == [i \in DOMAIN f \ {k} |-> f[i]]

DeleteStorage(a, k) ==
  IF k \notin DOMAIN a.storage THEN a
  ELSE [a EXCEPT !.storage = Without(@, k),
                 !.items = @ - 1,
                 !.octets = @ - 34 - a.storage[k] - KeyLength[k]]

(* A faulty variant: what was stored under the key is not taken off.       *)
AddStorage(a, k, v) ==
  [a EXCEPT !.storage = Put(@, k, v), !.items = @ + 1, !.octets = @ + 34 + v + KeyLength[k]]

(* A value is its length.                                                  *)
SetStorage(a, k, v) ==
  LET d == DeleteStorage(a, k)
  IN [d EXCEPT !.storage = Put(@, k, v),
               !.items = @ + 1,
               !.octets = @ + 34 + v + KeyLength[k]]

DeleteRequest(a, r) ==
  IF r \notin DOMAIN a.requests THEN a
  ELSE [a EXCEPT !.requests = Without(@, r), !.items = @ - 2, !.octets = @ - (81 + r[2])]

SetRequest(a, r, times) ==
  LET d == DeleteRequest(a, r)
  IN [d EXCEPT !.requests = Put(@, r, times), !.items = @ + 2, !.octets = @ + 81 + r[2]]

AtLeastZero(n) == IF n < 0 THEN 0 ELSE n

(* gasThreshold, `a_t`: what the balance may not fall below.               *)
Threshold(a) == AtLeastZero(MinBalance + PerItem * a.items + PerOctet * a.octets - a.gratis)

Solicited(a, h) ==
  LET r == <<h, PreimageLength[h]>>
  IN r \in DOMAIN a.requests /\ a.requests[r] = << >>

(* preimageIntegration: those solicited and not yet provided are taken in. *)
Integrate(a, hs) ==
  LET taken == {h \in hs : Solicited(a, h)}
  IN [a EXCEPT !.requests = [r \in DOMAIN @ |-> IF r[1] \in taken /\ @[r] = << >>
                                                   /\ r[2] = PreimageLength[r[1]]
                                                THEN <<slot>> ELSE @[r]],
               !.preimages = @ \cup taken]

(* I_Fn: whether a request with these times says available at time t.      *)
AvailableAt(times, t) ==
  \/ Len(times) = 1 /\ times[1] <= t
  \/ Len(times) = 2 /\ times[1] <= t /\ times[2] > t
  \/ Len(times) = 3 /\ times[1] <= t /\ times[2] > t /\ times[3] <= t

(* `Lambda`: what a refinement whose lookup anchor has slot t finds.       *)
HistoricalLookup(a, t, h) ==
  h \in a.preimages /\ AvailableAt(a.requests[<<h, PreimageLength[h]>>], t)

-----------------------------------------------------------------------------
(* An account as host call new leaves it: one request, for its code, and   *)
(* exactly its threshold as balance.                                       *)
NewAccount(code, length, gratis) ==
  LET bare == [code |-> code, gratis |-> gratis, balance |-> 0, items |-> 0, octets |-> 0,
               storage |-> << >>, requests |-> << >>, preimages |-> {}]
      a == SetRequest(bare, <<code, length>>, << >>)
  IN [a EXCEPT !.balance = Threshold(a)]

Init ==
  /\ \E r \in Requestable, g \in {0, MinBalance} : acct = NewAccount(r[1], r[2], g)
  /\ slot = 0 /\ calls = 0 /\ seen = << >>
  /\ inBlock = FALSE /\ ep = {} /\ x = Nothing /\ y = Nothing

(* A block begins; its preimages are checked against the account as the    *)
(* block before left it (PreimagesExtrinsicImpl.checkValidity).            *)
BeginBlock ==
  /\ ~inBlock /\ acct # Nothing
  /\ inBlock' = TRUE
  /\ slot' \in slot + 1 .. MaxSlot
  /\ ep' \in SUBSET {h \in Hashes : Solicited(acct, h)}
  /\ UNCHANGED <<acct, x, y, calls, seen>>

Idle == inBlock /\ acct # Nothing /\ x = Nothing

(* accumulateInvocation credits incoming transfers first, and starts the   *)
(* code if the account holds it.                                           *)
Credit(amount) == [acct EXCEPT !.balance = @ + amount]

Invoke ==
  /\ Idle /\ acct.code \in acct.preimages
  /\ \E amount \in Amounts \cup {0} :
       /\ Credit(amount).balance <= MaxBalance
       /\ x' = [account |-> Credit(amount), provisions |-> {}]
       /\ y' = x'
  /\ calls' = MaxCalls
  /\ UNCHANGED <<slot, inBlock, ep, acct, seen>>

ReceiveWithoutCode ==
  /\ Idle /\ acct.code \notin acct.preimages
  /\ \E amount \in Amounts :
       /\ Credit(amount).balance <= MaxBalance
       /\ acct' = Credit(amount)
  /\ UNCHANGED <<slot, inBlock, ep, x, y, calls, seen>>

-----------------------------------------------------------------------------
(* Host calls.                                                             *)
Running == x # Nothing /\ calls > 0
MayAfford(a) == a.balance >= Threshold(a)

Becomes(a) ==
  /\ x' = [x EXCEPT !.account = a]
  /\ calls' = calls - 1
  /\ UNCHANGED <<slot, inBlock, ep, acct, y, seen>>

(* write, with a value or, of length 0, a deletion; both are refused when  *)
(* the outcome is not affordable.                                          *)
Write(k, v) ==
  /\ Running
  /\ LET a == IF v = 0 THEN DeleteStorage(x.account, k) ELSE SetStorage(x.account, k, v)
     IN MayAfford(a) /\ Becomes(a)

(* A faulty variant: the threshold that counts is the one before.          *)
SolicitOnCredit(r) ==
  /\ Running /\ r \notin DOMAIN x.account.requests
  /\ MayAfford(x.account)
  /\ Becomes(SetRequest(x.account, r, << >>))

Solicit(r) ==
  /\ Running
  /\ r \in DOMAIN x.account.requests => Len(x.account.requests[r]) = 2
  /\ LET past == IF r \in DOMAIN x.account.requests
                 THEN Append(x.account.requests[r], slot) ELSE << >>
         a == SetRequest(x.account, r, past)
     IN MayAfford(a) /\ Becomes(a)

(* Faulty variants: at once; and only what is stored is dropped, not what  *)
(* is held.                                                                *)
ExpiredAtOnce(times) == times[2] <= slot

DropOnlyRequest(a, r) == DeleteRequest(a, r)

Expired(times) == times[2] < slot - Expiration

DropRequest(a, r) == [DeleteRequest(a, r) EXCEPT !.preimages = @ \ {r[1]}]

Forget(r) ==
  /\ Running /\ r \in DOMAIN x.account.requests
  /\ LET a == x.account
         times == a.requests[r]
     IN \/ /\ Len(times) = 0 \/ (Len(times) = 2 /\ Expired(times))
           /\ Becomes(DropRequest(a, r))
        \/ /\ Len(times) = 1
           /\ Becomes(SetRequest(a, r, <<times[1], slot>>))
        \/ /\ Len(times) = 3 /\ Expired(times)
           /\ Becomes(SetRequest(a, r, <<times[3], slot>>))

(* provide, for this service itself.                                       *)
Provide(h) ==
  /\ Running /\ Solicited(x.account, h) /\ h \notin x.provisions
  /\ x' = [x EXCEPT !.provisions = @ \cup {h}]
  /\ calls' = calls - 1
  /\ UNCHANGED <<slot, inBlock, ep, acct, y, seen>>

Upgrade(code) == Running /\ Becomes([x.account EXCEPT !.code = code])

(* transfer and new: the balance paid must leave the threshold.            *)
Pay(amount) ==
  /\ Running
  /\ LET a == [x.account EXCEPT !.balance = @ - amount]
     IN MayAfford(a) /\ Becomes(a)

Checkpoint ==
  /\ Running
  /\ y' = x /\ calls' = calls - 1
  /\ UNCHANGED <<slot, inBlock, ep, acct, x, seen>>

HostCall ==
  \/ \E k \in Keys, v \in ValueLengths \cup {0} : Write(k, v)
  \/ \E r \in Requestable : Solicit(r) \/ Forget(r)
  \/ \E h \in Hashes : Provide(h)
  \/ \E c \in Hashes \cup {Ejector} : Upgrade(c)
  \/ \E amount \in Amounts : Pay(amount)
  \/ Checkpoint

(* The invocation halts, and x is kept, or panics or runs out of gas, and  *)
(* y is.  What other services provided in this round is integrated with    *)
(* what this one did.                                                      *)
EndInvocation ==
  /\ x # Nothing
  /\ \E end \in {x, y}, others \in SUBSET Hashes :
       acct' = Integrate(end.account, end.provisions \cup others)
  /\ x' = Nothing /\ y' = Nothing /\ calls' = 0
  /\ UNCHANGED <<slot, inBlock, ep, seen>>

ProvidedByOthers ==
  /\ Idle
  /\ \E others \in SUBSET Hashes \ {{}} : acct' = Integrate(acct, others)
  /\ UNCHANGED <<slot, inBlock, ep, x, y, calls, seen>>

(* A faulty variant: items are not counted.                                *)
MayEjectAnyway(a, h) ==
  LET r == <<h, PreimageLength[h]>>
  IN /\ a.code = Ejector
     /\ r \in DOMAIN a.requests
     /\ Len(a.requests[r]) = 2 /\ Expired(a.requests[r])

(* eject by the service whose index the code hash spells: nothing may be   *)
(* left but one request, forgotten long enough ago.                        *)
MayEject(a, h) ==
  LET r == <<h, (IF a.octets > 81 THEN a.octets ELSE 81) - 81>>
  IN /\ a.code = Ejector /\ a.items = 2
     /\ r \in DOMAIN a.requests
     /\ Len(a.requests[r]) = 2 /\ Expired(a.requests[r])

Eject ==
  /\ Idle /\ \E h \in Hashes : MayEject(acct, h)
  /\ acct' = Nothing
  /\ UNCHANGED <<slot, inBlock, ep, x, y, calls, seen>>

(* What the requests say is available: "avalaible since l[0]" and          *)
(* "re-avaialble from l[2]" (service-account-impl.ts:262, 266).            *)
SaysAvailable(a, h) ==
  LET r == <<h, PreimageLength[h]>>
  IN h \in a.preimages /\ r \in DOMAIN a.requests /\ Len(a.requests[r]) \in {1, 3}

(* The block's preimages are integrated last, for the account as           *)
(* accumulation left it.                                                   *)
EndBlock ==
  /\ inBlock /\ x = Nothing
  /\ acct' = IF acct = Nothing THEN Nothing ELSE Integrate(acct, ep)
  /\ seen' = [t \in {s \in DOMAIN seen : s >= slot - Expiration} \cup {slot} |->
               IF t # slot THEN seen[t]
               ELSE {h \in Hashes : acct' # Nothing /\ SaysAvailable(acct', h)}]
  /\ inBlock' = FALSE /\ ep' = {}
  /\ UNCHANGED <<slot, x, y, calls>>

Next ==
  \/ BeginBlock \/ Invoke \/ ReceiveWithoutCode
  \/ HostCall \/ EndInvocation \/ ProvidedByOthers \/ Eject \/ EndBlock

Spec == Init /\ [][Next]_vars

-----------------------------------------------------------------------------
Contexts == {c \in {x, y} : c # Nothing}
Versions == {c.account : c \in Contexts} \cup ({acct} \ {Nothing})

TypeOK ==
  /\ slot \in 0 .. MaxSlot
  /\ inBlock \in BOOLEAN
  /\ ep \subseteq Hashes
  /\ x = Nothing <=> y = Nothing
  /\ \A c \in Contexts : c.provisions \subseteq Hashes
  /\ \A a \in Versions :
       /\ a.code \in Hashes \cup {Ejector}
       /\ a.balance \in Nat
       /\ DOMAIN a.storage \subseteq Keys
       /\ \A k \in DOMAIN a.storage : a.storage[k] \in ValueLengths
       /\ DOMAIN a.requests \subseteq Requestable
       /\ \A r \in DOMAIN a.requests :
            Len(a.requests[r]) <= 3 /\ \A i \in DOMAIN a.requests[r] : a.requests[r][i] \in 0 .. slot
       /\ a.preimages \subseteq Hashes

(* What storage and requests take up.                                      *)
StoredOctets(storage) == SumFunction([k \in DOMAIN storage |-> 34 + KeyLength[k] + storage[k]])
RequestedOctets(requests) == SumFunction([r \in DOMAIN requests |-> 81 + r[2]])

(* The counters kept beside storage and requests are what counting them    *)
(* would give, after any history of writes, deletions, solicitations and   *)
(* integrations (merkle-account-data-storage-impl.ts:102-166): the         *)
(* threshold balance and eject rest on them.                               *)
CountersExact ==
  \A a \in Versions :
    /\ a.items = Cardinality(DOMAIN a.storage) + 2 * Cardinality(DOMAIN a.requests)
    /\ a.octets = StoredOctets(a.storage) + RequestedOctets(a.requests)

(* No version of the account that can become the account falls below its   *)
(* threshold: what it occupies is always paid for, whichever of its        *)
(* contexts survives (functions.ts:497, 1221, 1333, 1496).                 *)
Solvent == \A a \in Versions : MayAfford(a)

(* A preimage held is one requested with its length: historicalLookup      *)
(* takes the request for granted (service-account-impl.ts:227).            *)
PreimageIsRequested ==
  \A a \in Versions : \A h \in a.preimages : <<h, PreimageLength[h]>> \in DOMAIN a.requests

Settled == ~inBlock /\ acct # Nothing
Recent(t) == t >= slot - Expiration

(* What a refinement finds at the slot of a past block had been available  *)
(* after it: who looks later does not find more than who looked then.      *)
LookupFindsOnlyAvailable ==
  Settled => \A t \in DOMAIN seen, h \in Hashes : HistoricalLookup(acct, t, h) => h \in seen[t]

(* What was available at most Expiration slots ago a refinement still      *)
(* finds, though forgotten since: forget and its expiry keep it for as     *)
(* long as a lookup anchor may be old (functions.ts:1548-1575).  Two cases *)
(* are excepted: it was solicited again, or it went with a request of      *)
(* another length, while its own still stands.                             *)
LookupFindsForgotten ==
  Settled => \A t \in DOMAIN seen : \A h \in seen[t] :
    Recent(t) => \/ HistoricalLookup(acct, t, h)
                 \/ LET r == <<h, PreimageLength[h]>>
                    IN /\ r \in DOMAIN acct.requests
                       /\ Len(acct.requests[r]) = 3 \/ h \notin acct.preimages

(* A historical lookup finds what was available then, and nothing else.    *)
LookupIsTruthful == LookupFindsOnlyAvailable /\ LookupFindsForgotten

(* An account is ejected only when it stores nothing and nothing it held   *)
(* can be looked up any more, so that what it paid for may be taken over.  *)
EjectLosesNothing ==
  [][acct # Nothing /\ acct' = Nothing =>
       /\ DOMAIN acct.storage = {}
       /\ \A t \in {s \in DOMAIN seen : Recent(s)}, h \in Hashes : ~HistoricalLookup(acct, t, h)
       /\ Cardinality(DOMAIN acct.requests) = 1]_vars

(* As the comments on I_Fn have it, a request is "re-avaialble from l[2]"  *)
(* (service-account-impl.ts:266).                                          *)
ReavailableIsFound ==
  Settled => \A h \in acct.preimages :
    LET times == acct.requests[<<h, PreimageLength[h]>>]
    IN Len(times) = 3 => HistoricalLookup(acct, slot, h)
=============================================================================
