---------------------------- MODULE Accumulation ----------------------------
(***************************************************************************)
(* The accumulation of a block's reports (accumulate.ts): rounds in which  *)
(* every service with work, transfers or free gas is accumulated on its    *)
(* own copy of the round's state, whose outcomes are then merged; the      *)
(* transfers of a round are the input of the next.                         *)
(*                                                                         *)
(* Of an account only its balance, its code and whether it may be ejected  *)
(* are kept, and its threshold is Floor: ServiceAccount has the rest.  A   *)
(* host call costs one unit of gas; one that is refused changes nothing    *)
(* and is no step, nor is what the code computes in between.  A privileged *)
(* service that is not among a round's services is accumulated without     *)
(* gas, which leaves the round's state as it was.  The order in which the  *)
(* services of a round come up is left open.                               *)
(***************************************************************************)
EXTENDS Integers, Sequences, FiniteSets, FiniteSetsExt, SequencesExt

CONSTANTS
  Reserved, LastId,      \* indices below Reserved are the registrar's, up to LastId public
  Floor,               \* the threshold balance of an account
  Cores,
  Values,              \* values of the staging set and of a core's authorizer queue
  TotalGas, CoresGas,  \* TOTAL_GAS_ACCUMULATION_ALL_CORES, .._LOGIC times the cores
  Calls,               \* the host calls that the code of each service makes
  Amounts, Gases,      \* what a transfer carries
  Holders,             \* the services that bless and assign name
  Codes,               \* the codes of upgraded and new accounts, see Runs
  Hashed,              \* the public indices that hashing yields to look from
  Blocks,              \* the sequences of work, [service, gas], blocks may bring
  Genesis,             \* the states accumulation may start from
  MaxBlocks            \* bound of the runs

Ids == 0 .. LastId
Public == Reserved .. LastId
None == -1             \* no service

ASSUME ConstantsAssumption ==
  /\ Reserved \in Nat /\ LastId \in Nat /\ Reserved < LastId
  /\ Floor \in Nat
  /\ TotalGas \in Nat /\ CoresGas \in Nat
  /\ Amounts \subseteq Nat /\ Gases \subseteq Nat
  /\ Hashed \subseteq Reserved .. LastId
  /\ Holders \subseteq 0 .. LastId
  /\ Blocks \subseteq Seq([service : Ids, gas : Nat])

(* The code of an account runs, or it is missing and the code hash spells  *)
(* the index of the service that may eject the account.                    *)
Runs == -1

Accounts == [balance : Nat, code : Ids \cup {Runs}, bare : BOOLEAN]

(* PVMAccumulationStateImpl, in the part that is kept.                     *)
States(ids, freeIds) ==
  [accounts  : [ids -> Accounts],
   manager   : Ids,
   assigners : [Cores -> Ids],
   delegator : Ids,
   registrar : Ids,
   always    : [freeIds -> Nat],
   staging   : Values,
   queue     : [Cores -> Values]]

IsState(st) == \E ids, freeIds \in SUBSET Ids : st \in States(ids, freeIds)

ASSUME GenesisAssumption ==
  /\ \A st \in Genesis : IsState(st)
  /\ Codes \subseteq Ids \cup {Runs}

VARIABLES
  e,          \* PVMAccumulationState between invocations
  inBlock, height,
  reports,    \* work of the block not yet accumulated
  limit,      \* gas left, `g`
  free,       \* gas of the services accumulated in every block, `f`
  transfers,  \* deferred transfers that are the input of the round
  works,      \* the work of the round, empty between rounds
  todo,       \* its services still to be accumulated
  results,    \* the outcomes of the others, in the order they came up
  running,    \* the service whose code runs, or None
  gas,        \* its gas left
  x, y,       \* its contexts
  inRound,
  before,     \* ghost: balances and free gas in all before the block
  doubled     \* ghost: in the block an account was ejected that is there after all

vars == <<e, inBlock, height, reports, limit, free, transfers, works, todo, results,
          running, gas, x, y, inRound, before, doubled>>
round == <<works, todo, results, running, gas, x, y, inRound>>

SumOver(s, f(_)) == SumFunction([i \in DOMAIN s |-> f(s[i])])

Total(accounts) == SumOver(accounts, LAMBDA a : a.balance)
InFlight(ts) == SumOver(ts, LAMBDA t : t.amount)
GasOf(ts) == SumOver(ts, LAMBDA t : t.gas)
AmountTo(s) == SumOver(transfers, LAMBDA t : IF t.to = s THEN t.amount ELSE 0)
GasTo(s) == SumOver(transfers, LAMBDA t : IF t.to = s THEN t.gas ELSE 0)

AlwaysGas(st) == SumOver(st.always, LAMBDA g : g)

Greater(a, b) == IF a > b THEN a ELSE b

Idle == [accounts |-> << >>]   \* no context

Init ==
  /\ e \in Genesis
  /\ inBlock = FALSE /\ height = 0 /\ inRound = FALSE
  /\ reports = << >> /\ transfers = << >> /\ works = << >> /\ results = << >>
  /\ free = << >> /\ todo = {} /\ running = None /\ gas = 0
  /\ limit = 0 /\ x = Idle /\ y = Idle
  /\ before = [funds |-> Total(e.accounts), free |-> AlwaysGas(e)]
  /\ doubled = FALSE

-----------------------------------------------------------------------------
(* accumulateReports: `g` leaves room for the free gas.                    *)
BeginBlock ==
  /\ ~inBlock /\ height < MaxBlocks
  /\ inBlock' = TRUE /\ height' = height + 1
  /\ reports' \in Blocks
  /\ limit' = Greater(TotalGas, CoresGas + AlwaysGas(e))
  /\ free' = e.always
  /\ transfers' = << >>
  /\ before' = [funds |-> Total(e.accounts), free |-> AlwaysGas(e)]
  /\ doubled' = FALSE
  /\ UNCHANGED <<e, round>>

(* A faulty variant: the report that goes beyond the limit is taken too.   *)
FitsBefore(i) == SumOver(SubSeq(reports, 1, i - 1), LAMBDA w : w.gas) <= limit

(* The longest prefix of the reports whose gas is within the limit.        *)
Fits(i) == SumOver(SubSeq(reports, 1, i), LAMBDA w : w.gas) <= limit
Prefix == CHOOSE i \in 0 .. Len(reports) :
  /\ \A j \in 1 .. i : Fits(j)
  /\ i < Len(reports) => ~Fits(i + 1)

Between == inBlock /\ ~inRound

BeginRound ==
  /\ Between
  /\ Prefix + Len(transfers) + Cardinality(DOMAIN free) > 0
  /\ works' = SubSeq(reports, 1, Prefix)
  /\ reports' = SubSeq(reports, Prefix + 1, Len(reports))
  /\ todo' = {works'[i].service : i \in DOMAIN works'} \cup DOMAIN free
               \cup {transfers[i].to : i \in DOMAIN transfers}
  /\ inRound' = TRUE
  /\ UNCHANGED <<e, inBlock, height, limit, free, transfers, results, running, gas, x, y,
                 before, doubled>>

EndBlock ==
  /\ Between
  /\ Prefix + Len(transfers) + Cardinality(DOMAIN free) = 0
  /\ inBlock' = FALSE
  /\ UNCHANGED <<e, height, reports, limit, free, transfers, before, doubled, round>>

-----------------------------------------------------------------------------
(* singleServiceAccumulation and accumulateInvocation.                     *)
GasFor(s) ==
  (IF s \in DOMAIN free THEN free[s] ELSE 0) + GasTo(s)
    + SumOver(works, LAMBDA w : IF w.service = s THEN w.gas ELSE 0)

(* The incoming transfers are added in place, in the state that the other  *)
(* services of the round will be given too.                                *)
Credited(s) ==
  IF s \notin DOMAIN e.accounts THEN e
  ELSE [e EXCEPT !.accounts[s].balance = @ + AmountTo(s)]

(* check_fn: the first index from i on, going round, that is not taken.    *)
Offset(i, n) == Reserved + ((i - Reserved + n) % (LastId - Reserved + 1))
CheckFn(i, accounts) ==
  LET n == CHOOSE k \in 0 .. LastId - Reserved :
             /\ Offset(i, k) \notin DOMAIN accounts
             /\ \A j \in 0 .. k - 1 : Offset(i, j) \in DOMAIN accounts
  IN Offset(i, n)

RoomFor(accounts) == Public \ DOMAIN accounts # {}   \* of 2^32 indices one is always free

(* I_fn; the index to look from is a hash.                                 *)
Context(s, st, from) ==
  [state |-> st, next |-> CheckFn(from, st.accounts), transfers |-> << >>]

Outcome(s, st, ts, used) ==
  [id |-> s, state |-> st, transfers |-> ts, used |-> used]

HasCode(st, s) == s \in DOMAIN st.accounts /\ st.accounts[s].code = Runs

WithoutCode(s) ==
  /\ inRound /\ running = None /\ s \in todo
  /\ ~HasCode(e, s)
  /\ e' = Credited(s)
  /\ results' = Append(results, Outcome(s, Credited(s), << >>, 0))
  /\ todo' = todo \ {s}
  /\ UNCHANGED <<inBlock, height, reports, limit, free, transfers, works, running, gas, x, y,
                 inRound, before, doubled>>

Invoke(s) ==
  /\ inRound /\ running = None /\ s \in todo
  /\ HasCode(e, s) /\ RoomFor(e.accounts)
  /\ e' = Credited(s)
  /\ \E from \in Hashed : x' = Context(s, Credited(s), from)
  /\ y' = x'
  /\ running' = s /\ gas' = GasFor(s)
  /\ todo' = todo \ {s}
  /\ UNCHANGED <<inBlock, height, reports, limit, free, transfers, works, results,
                 inRound, before, doubled>>

-----------------------------------------------------------------------------
(* Host calls of the running service.                                      *)
Calling(name) == running # None /\ name \in Calls[running] /\ gas >= 1

Own == x.state.accounts[running]

Becoming(ctx, cost) ==
  /\ x' = ctx
  /\ gas' = gas - cost
  /\ UNCHANGED <<e, inBlock, height, reports, limit, free, transfers, works, todo, results,
                 running, y, inRound, before>>

Becomes(ctx, cost) == Becoming(ctx, cost) /\ UNCHANGED doubled

Paid(accounts, amount) == [accounts EXCEPT ![running].balance = @ - amount]

(* The transfer's own gas is taken after the call: it may be more than is  *)
(* left, and then the invocation has run out of gas.                       *)
Transfer(to, amount, l) ==
  /\ Calling("transfer") /\ to \in DOMAIN x.state.accounts
  /\ Own.balance - amount >= Floor
  /\ Becomes([x EXCEPT !.state.accounts = Paid(@, amount),
                       !.transfers = Append(@, [from |-> running, to |-> to,
                                                amount |-> amount, gas |-> l])], 1 + l)

NewAccount(code) == [balance |-> Floor, code |-> code, bare |-> FALSE]

Put(f, k, v) == [i \in DOMAIN f \cup {k} |-> IF i = k THEN v ELSE f[i]]
Without(f, k) == [i \in DOMAIN f \ {k} |-> f[i]]

(* A faulty variant: the next free index is looked for from the old one.   *)
NewFromSame(i, code) ==
  /\ Calling("new") /\ Own.balance - Floor >= Floor
  /\ Becomes([x EXCEPT !.state.accounts = Put(Paid(@, Floor), x.next, NewAccount(code)),
                       !.next = CheckFn(x.next, x.state.accounts)], 1)

(* The registrar names a reserved index, which must be free; everyone else *)
(* gets the next free one, and another is looked for; 42 further on, for   *)
(* which 1 stands where indices are few.  The index of an account that was *)
(* ejected in this context is free, but the round's merge will keep the    *)
(* account of the round's state then, as no outcome lacks one.             *)
New(i, code) ==
  /\ Calling("new") /\ Own.balance - Floor >= Floor
  /\ LET created(id) == Put(Paid(x.state.accounts, Floor), id, NewAccount(code))
     IN \/ /\ running = x.state.registrar /\ i < Reserved
           /\ i \notin DOMAIN x.state.accounts
           /\ Becoming([x EXCEPT !.state.accounts = created(i)], 1)
           /\ doubled' = (doubled \/ i \in DOMAIN e.accounts)
        \/ /\ ~(running = x.state.registrar /\ i < Reserved)
           /\ RoomFor(created(x.next))
           /\ Becoming([x EXCEPT !.state.accounts = created(x.next),
                                 !.next = CheckFn(Offset(x.next, 1), x.state.accounts)], 1)
           /\ doubled' = (doubled \/ x.next \in DOMAIN e.accounts)

(* To a code that runs, or to a hash that names another as its ejector.    *)
Upgrade(code) ==
  /\ Calling("upgrade")
  /\ Becomes([x EXCEPT !.state.accounts[running].code = code], 1)

(* The service's own account is no exception: if its code hash names      *)
(* itself, it is put back with twice the balance.                          *)
Eject(d) ==
  /\ Calling("eject") /\ d \in DOMAIN x.state.accounts
  /\ x.state.accounts[d].code = running /\ x.state.accounts[d].bare
  /\ LET richer == Paid(x.state.accounts, -x.state.accounts[d].balance)
     IN Becoming([x EXCEPT !.state.accounts =
                    Put(Without(richer, d), running, richer[running])], 1)
  /\ doubled' = (doubled \/ d = running)

(* bless: by anyone, of its own context.                                   *)
Bless ==
  /\ Calling("bless")
  /\ \E m, v, r \in Holders, a \in [Cores -> Holders], z \in {e.always, << >>} :
       Becomes([x EXCEPT !.state.manager = m, !.state.assigners = a, !.state.delegator = v,
                         !.state.registrar = r, !.state.always = z], 1)

Assign(c, q, a) ==
  /\ Calling("assign") /\ x.state.assigners[c] = running
  /\ Becomes([x EXCEPT !.state.queue[c] = q, !.state.assigners[c] = a], 1)

Designate(v) ==
  /\ Calling("designate") /\ x.state.delegator = running
  /\ Becomes([x EXCEPT !.state.staging = v], 1)

Checkpoint ==
  /\ Calling("checkpoint")
  /\ y' = x /\ gas' = gas - 1
  /\ UNCHANGED <<e, inBlock, height, reports, limit, free, transfers, works, todo, results,
                 running, x, inRound, before, doubled>>

HostCall ==
  \/ \E to \in Ids, amount \in Amounts, l \in Gases : Transfer(to, amount, l)
  \/ \E i \in 0 .. Reserved, code \in Codes : New(i, code)
  \/ \E code \in Codes : Upgrade(code)
  \/ \E d \in Ids : Eject(d)
  \/ Bless
  \/ \E c \in Cores, q \in Values, a \in Holders : Assign(c, q, a)
  \/ \E v \in Values : Designate(v)
  \/ Checkpoint

(* C_fn: x after a halt, y after a panic or when gas ran out.  The gas     *)
(* used is what the calls took, or all there was.                          *)
EndInvocation ==
  /\ running # None
  /\ \E halted \in BOOLEAN, left \in {0, Greater(gas, 0)} :
       LET end == IF halted THEN x ELSE y
       IN /\ halted => gas >= 0
          /\ results' = Append(results, Outcome(running, end.state, end.transfers,
                                                GasFor(running) - left))
  /\ running' = None /\ gas' = 0 /\ x' = Idle /\ y' = Idle
  /\ UNCHANGED <<e, inBlock, height, reports, limit, free, transfers, works, todo,
                 inRound, before, doubled>>

-----------------------------------------------------------------------------
(* parallelizedAccumulation: the merge of a round's outcomes.  The         *)
(* accumulated service's own account and accounts that are new are taken   *)
(* from an outcome, a later one prevailing; who is missing in one is gone. *)
Writers(k) == {i \in DOMAIN results :
  /\ k \in DOMAIN results[i].state.accounts
  /\ k \notin DOMAIN e.accounts \/ k = results[i].id}

Removed == {k \in DOMAIN e.accounts :
  \E i \in DOMAIN results : k \notin DOMAIN results[i].state.accounts}

(* A faulty variant: what outcomes hold is added after others are removed. *)
MergedAfterRemoval ==
  [k \in {i \in Ids : (i \in DOMAIN e.accounts /\ i \notin Removed) \/ Writers(i) # {}} |->
     IF Writers(k) = {} THEN e.accounts[k]
     ELSE results[Max(Writers(k))].state.accounts[k]]

MergedAccounts ==
  [k \in {i \in Ids : i \in DOMAIN e.accounts \/ Writers(i) # {}} \ Removed |->
     IF Writers(k) = {} THEN e.accounts[k]
     ELSE results[Max(Writers(k))].state.accounts[k]]

(* A faulty variant: the state of the round is the last service's.         *)
AfterLast(s) == IF results = << >> THEN e ELSE results[Len(results)].state

(* The state in which the accumulation of s ended.                         *)
After(s) ==
  LET own == {i \in DOMAIN results : results[i].id = s}
  IN IF own = {} THEN e ELSE results[Max(own)].state

(* The manager decides; where it leaves things, the holder does.           *)
Decided(old, managers, holders) == IF managers = old THEN holders ELSE managers

Merged ==
  LET m == After(e.manager)
  IN [accounts  |-> MergedAccounts,
      manager   |-> m.manager,
      always    |-> m.always,
      delegator |-> Decided(e.delegator, m.delegator, After(e.delegator).delegator),
      registrar |-> Decided(e.registrar, m.registrar, After(e.registrar).registrar),
      assigners |-> [c \in Cores |-> Decided(e.assigners[c], m.assigners[c],
                                             After(e.assigners[c]).assigners[c])],
      staging   |-> After(e.delegator).staging,
      queue     |-> [c \in Cores |-> After(e.assigners[c]).queue[c]]]

(* A faulty variant: the free services are accumulated in every round.     *)
EndRoundKeepsFree ==
  /\ inRound /\ running = None /\ todo = {}
  /\ e' = Merged
  /\ transfers' = FlattenSeq([i \in DOMAIN results |-> results[i].transfers])
  /\ limit' = limit + GasOf(transfers) - SumOver(results, LAMBDA r : r.used)
  /\ works' = << >> /\ results' = << >>
  /\ inRound' = FALSE
  /\ UNCHANGED <<inBlock, height, reports, free, todo, running, gas, x, y, before, doubled>>

EndRound ==
  /\ inRound /\ running = None /\ todo = {}
  /\ e' = Merged
  /\ transfers' = FlattenSeq([i \in DOMAIN results |-> results[i].transfers])
  /\ limit' = limit + GasOf(transfers) - SumOver(results, LAMBDA r : r.used)
  /\ free' = << >> /\ works' = << >> /\ results' = << >>
  /\ inRound' = FALSE
  /\ UNCHANGED <<inBlock, height, reports, todo, running, gas, x, y, before, doubled>>

Next ==
  \/ BeginBlock \/ BeginRound \/ EndRound \/ EndBlock
  \/ \E s \in todo : WithoutCode(s) \/ Invoke(s)
  \/ HostCall \/ EndInvocation

Spec == Init /\ [][Next]_vars

(* The code accumulates in one synchronous call.                           *)
LiveSpec == Spec /\ WF_vars(Next)

-----------------------------------------------------------------------------
(* Accumulation never makes money: after every round the balances and the  *)
(* transfers still to come are together no more than the balances before   *)
(* the block, whoever paid, panicked, was created twice or ejected in the  *)
(* round (accumulate.ts:306-334), as long as nobody ejected itself or an   *)
(* account in whose place it created another.                              *)
FundsNeverGrow ==
  ~inRound /\ ~doubled => Total(e.accounts) + InFlight(transfers) <= before.funds

(* An index that a context would give to a new account is free in it, also *)
(* after a checkpoint and beside the registrar's choices: no account is    *)
(* overwritten (functions.ts:1184, 1266).                                  *)
IsFree(c) == c.next \in Public \ DOMAIN c.state.accounts
NextIsFree == running # None => IsFree(x) /\ IsFree(y)

(* The gas used, that of transfers counted once, is within the limit and   *)
(* the free gas, whatever the rounds pass on (accumulate.ts:180-218).      *)
GasBounded == inBlock => limit + before.free >= 0

(* A service alters the queue of a core, the staging set or a privilege in *)
(* the round's outcome only if it held the right to before the round:      *)
(* privileges that a service grants itself in its own context come to      *)
(* nothing (privileged-services.ts:14-23, accumulate.ts:335-364).          *)
Ran(s) == \E i \in DOMAIN results : results[i].id = s

PrivilegesByHolders ==
  [][inRound /\ ~inRound' =>
       /\ (e'.manager # e.manager \/ e'.always # e.always) => Ran(e.manager)
       /\ e'.staging # e.staging => Ran(e.delegator)
       /\ e'.delegator # e.delegator => Ran(e.manager) \/ Ran(e.delegator)
       /\ e'.registrar # e.registrar => Ran(e.manager) \/ Ran(e.registrar)
       /\ \A c \in Cores :
            /\ e'.queue[c] # e.queue[c] => Ran(e.assigners[c])
            /\ e'.assigners[c] # e.assigners[c] => Ran(e.manager) \/ Ran(e.assigners[c])]_vars

(* However transfers call for more rounds, the block's accumulation ends.  *)
Terminates == inBlock ~> ~inBlock

=============================================================================
