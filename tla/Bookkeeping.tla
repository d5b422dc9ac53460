---------------------------- MODULE Bookkeeping ----------------------------
(***************************************************************************)
(* What a block leaves behind for the blocks after it: the assignment of   *)
(* guarantors, the pools of authorizations, the recent history with its    *)
(* mountain range, the headers that reports may look up, and the           *)
(* statistics.  A report is guaranteed off the chain by validators who     *)
(* know some block of it, and arrives in a later block, when all of these  *)
(* books have moved on.                                                    *)
(*                                                                         *)
(* One action, ApplyBlock.  A block is known by its number, which stands   *)
(* for the hash of its header and for the root of the state after it; a    *)
(* signature is the key that made it.  Seals, tickets, verdicts and the    *)
(* outcome of accumulation are inputs (modules Safrole, Disputes and       *)
(* Accumulation); packages and dependencies are in ReportPipeline.         *)
(***************************************************************************)
EXTENDS Assignments, MountainRange, Functions, FiniteSetsExt

CONSTANTS
  ValidatorSets,  \* the validators iota may name
  Culprits,       \* keys that may be found to offend
  Mix(_, _),      \* the entropy that a block of some slot leaves
  Works,          \* the digests a report may have: sequences of [service, gasLimit, used]
  MinGas,         \* for each service that exists the least gas it takes
  Queues,         \* the queues of authorizers a service may assign
  Loads,          \* what else a block carries: [author, tickets, preimages]
  Turnouts,       \* bound: the validators that assure when a report waits
  Gaps,           \* slots from one block to the next
  TOTAL_GAS_ACCUMULATION_LOGIC, AUTHPOOL_SIZE, AUTHQUEUE_MAX_SIZE,
  RECENT_HISTORY_LENGTH, MAXIMUM_AGE_LOOKUP_ANCHOR, WORK_TIMEOUT,
  Empty,          \* no report
  MaxBlocks,      \* bound: blocks
  MaxReports      \* bound: reports in all of them

Digests == [service : DOMAIN MinGas, gasLimit : Nat, used : Nat]

ASSUME BooksAssumption ==
  /\ Gaps \subseteq Nat \ {0}
  /\ \A d \in Works : d \in Seq(Digests) /\ Len(d) >= 1
  /\ \A l \in Loads : l.preimages \in Seq(DOMAIN MinGas)
  /\ AUTHPOOL_SIZE \in Nat
  /\ RECENT_HISTORY_LENGTH \in Nat \ {0}
  /\ MAXIMUM_AGE_LOOKUP_ANCHOR \in Nat

VARIABLES
  slot, kappa, lambda, gammaP, eta, offenders,
  rho,            \* for each core the report that waits for assurances
  authPool, authQueue,
  beefyBelt, recent, lookups,
  validatorStats, \* [accumulator, previous]
  coreStats, serviceStats,
  past,           \* ghost: the blocks applied, [slot, assigned, author, signers, log]
  entered, spent  \* ghost: for each core what came into the pool, and what reports used

booksVars == <<slot, kappa, lambda, gammaP, eta, offenders, rho, authPool, authQueue, beefyBelt,
               recent, lookups, validatorStats, coreStats, serviceStats, past, entered, spent>>

NoCredit == [blocks |-> 0, tickets |-> 0, preimages |-> 0, guarantees |-> 0, assurances |-> 0]
NoCredits == [v \in Validators |-> NoCredit]
NoWork == [gasUsed |-> 0, popularity |-> 0, daLoad |-> 0]

BooksInit ==
  /\ slot = 0
  /\ kappa \in ValidatorSets /\ lambda = kappa /\ gammaP = kappa
  /\ eta = [n \in 0..3 |-> CHOOSE e \in DOMAIN Draws : TRUE]
  /\ offenders = {}
  /\ rho = [c \in Cores |-> Empty]
  /\ authPool = [c \in Cores |-> <<>>]
  /\ authQueue = CHOOSE q \in Queues : TRUE
  /\ beefyBelt = <<>> /\ recent = <<>>
  /\ lookups = [t \in {} |-> 0]
  /\ validatorStats = [accumulator |-> NoCredits, previous |-> NoCredits]
  /\ coreStats = [c \in Cores |-> NoWork]
  /\ serviceStats = [s \in {} |-> 0]
  /\ past = <<>>
  /\ entered = [c \in Cores |-> <<>>] /\ spent = [c \in Cores |-> <<>>]

SumOf(f) == SumFunctionOnSet(f, DOMAIN f)

-----------------------------------------------------------------------------
(* The state a guarantee of a block of slot t is checked against.          *)

isNewerEra(t) == Epoch(t) > Epoch(slot)

\* kappa, lambda, entropy and offenders after the block, and the assignments
\* that follow from them.
Posterior(t, offence) ==
  LET s == [slot |-> t,
            kappa |-> IF isNewerEra(t) THEN gammaP ELSE kappa,
            lambda |-> IF isNewerEra(t) THEN kappa ELSE lambda,
            eta |-> [n \in 0..3 |-> IF n = 0 THEN Mix(eta[0], t)
                                    ELSE IF isNewerEra(t) THEN eta[n - 1] ELSE eta[n]],
            offenders |-> offenders \cup offence]
  IN  [slot |-> s.slot, kappa |-> s.kappa, lambda |-> s.lambda, eta |-> s.eta,
       offenders |-> s.offenders, cur |-> curRotation(s), prev |-> prevRotation(s)]

(* The assurances: each assures every report that waits.  A report leaves  *)
(* its core when more than two thirds assure it, or when it is too old.    *)
Engaged == {c \in Cores : rho[c] # Empty}
nPositiveVotes(c, assurers) == IF c \in Engaged THEN Cardinality(assurers) ELSE 0
NewlyAvailable(assurers) ==
  {c \in Cores : 3 * nPositiveVotes(c, assurers) > 2 * NUMBER_OF_VALIDATORS}
RhoWithout(t, assurers) ==
  [c \in Cores |-> IF c \in NewlyAvailable(assurers)
                      \/ (c \in Engaged /\ t >= rho[c].reportSlot + WORK_TIMEOUT)
                   THEN Empty ELSE rho[c]]

\* The newest block of the history learns its state root from its child.
RecentWithRoot ==
  [i \in DOMAIN recent |-> IF i = Len(recent) THEN [recent[i] EXCEPT !.stateRoot = Len(past)]
                           ELSE recent[i]]

-----------------------------------------------------------------------------
(* checkValidity of a guarantee, of its credentials and of the extrinsic.  *)

CredentialValid(s, g, credential) ==
  LET assigned == AssignmentFor(s, g.slot)
  IN  /\ credential.validatorIndex \in Validators
      /\ credential.signedBy = assigned.key[credential.validatorIndex]
      /\ assigned.core[credential.validatorIndex] = g.core

GuaranteeValid(s, g) ==
  /\ Len(g.signatures) \in 2..3
  /\ \A i \in 2..Len(g.signatures) :
        g.signatures[i - 1].validatorIndex < g.signatures[i].validatorIndex
  /\ VALIDATOR_CORE_ROTATION * (Rotation(s.slot) - 1) <= g.slot
  /\ g.slot <= s.slot
  /\ \A i \in DOMAIN g.signatures : CredentialValid(s, g, g.signatures[i])
  /\ Len(g.digests) >= 1 /\ g.core \in Cores

ReportPayable(g) ==
  /\ SumOf([i \in DOMAIN g.digests |-> g.digests[i].gasLimit]) <= TOTAL_GAS_ACCUMULATION_LOGIC
  /\ \A i \in DOMAIN g.digests :
        /\ g.digests[i].service \in DOMAIN MinGas
        /\ g.digests[i].gasLimit >= MinGas[g.digests[i].service]

ContextKnown(s, g) ==
  /\ \E i \in DOMAIN RecentWithRoot :
        /\ RecentWithRoot[i].headerHash = g.anchor.hash
        /\ RecentWithRoot[i].stateRoot = g.anchor.postState
        /\ RecentWithRoot[i].log = g.anchor.accOutLog
  /\ g.lookup.slot >= s.slot - MAXIMUM_AGE_LOOKUP_ANCHOR
  /\ g.lookup.slot \in DOMAIN lookups
  /\ lookups[g.lookup.slot] = g.lookup.hash

FreelyAuthorized(without, g) == without[g.core] = Empty
Authorized(without, g) ==
  without[g.core] = Empty /\ \E i \in DOMAIN authPool[g.core] : authPool[g.core][i] = g.authorizer

Accepts(s, without, eg) ==
  /\ Len(eg) <= CORES
  /\ \A i \in 2..Len(eg) : eg[i - 1].core < eg[i].core
  /\ \A i \in DOMAIN eg :
        /\ Authorized(without, eg[i])
        /\ GuaranteeValid(s, eg[i])
        /\ ReportPayable(eg[i])
        /\ ContextKnown(s, eg[i])

-----------------------------------------------------------------------------
(* What the block writes into the books.                                   *)

elementForCore(eg, c) == {i \in DOMAIN eg : eg[i].core = c}
TheElement(eg, c) == eg[CHOOSE i \in elementForCore(eg, c) : TRUE]

(* A report uses up the leftmost place of its authorization, then the      *)
(* queue adds one and the newest are kept.  The index is -1 when the pool  *)
(* has no such authorization, and counts from the end.                     *)
Newest(n, seq) == SubSeq(seq, (IF Len(seq) > n THEN Len(seq) - n ELSE 0) + 1, Len(seq))
FromQueue(queue, t, c) == queue[c][(t % AUTHQUEUE_MAX_SIZE) + 1]
WithoutAuthorization(pool, h) ==
  IF \E i \in DOMAIN pool : pool[i] = h
  THEN LET index == CHOOSE i \in DOMAIN pool : pool[i] = h /\ \A j \in 1..i - 1 : pool[j] # h
       IN  RemoveAt(pool, index)
  ELSE (IF pool = <<>> THEN <<>> ELSE Front(pool)) \o pool
NextPool(t, queue, eg) ==
  [c \in Cores |->
     Newest(AUTHPOOL_SIZE,
            Append(IF elementForCore(eg, c) = {} THEN authPool[c]
                   ELSE WithoutAuthorization(authPool[c], TheElement(eg, c).authorizer),
                   FromQueue(queue, t, c)))]

\* One header more, and the oldest of those before it gone when they are too many.
NextLookups(t, n) ==
  LET oldest == CHOOSE k \in DOMAIN lookups : \A j \in DOMAIN lookups : k <= j
      dropped == IF Cardinality(DOMAIN lookups) > MAXIMUM_AGE_LOOKUP_ANCHOR THEN {oldest} ELSE {}
  IN  [k \in (DOMAIN lookups \cup {t}) \ dropped |-> IF k = t THEN n ELSE lookups[k]]

NextRecent(n, belt) ==
  Newest(RECENT_HISTORY_LENGTH,
         Append(RecentWithRoot, [headerHash |-> n, stateRoot |-> 0, log |-> MMRSuperPeak(belt)]))

\* reporters: the keys whose credentials the extrinsic holds.
reporters(s, eg) ==
  UNION {{AssignmentFor(s, eg[i].slot).key[eg[i].signatures[j].validatorIndex] :
             j \in DOMAIN eg[i].signatures} : i \in DOMAIN eg}

NextValidatorStats(s, eg, load, assurers) ==
  LET base == IF isNewerEra(s.slot) THEN NoCredits ELSE validatorStats.accumulator
      OneIf(b) == IF b THEN 1 ELSE 0
      ByAuthor(v, n) == IF v = load.author THEN n ELSE 0
  IN  [accumulator |->
         [v \in Validators |->
            [blocks |-> base[v].blocks + ByAuthor(v, 1),
             tickets |-> base[v].tickets + ByAuthor(v, load.tickets),
             preimages |-> base[v].preimages + ByAuthor(v, Len(load.preimages)),
             guarantees |-> base[v].guarantees + OneIf(s.kappa[v] \in reporters(s, eg)),
             assurances |-> base[v].assurances + OneIf(v \in assurers)]],
       previous |-> IF isNewerEra(s.slot) THEN validatorStats.accumulator
                    ELSE validatorStats.previous]

UsedBy(digests) == SumOf([i \in DOMAIN digests |-> digests[i].used])
Of(service, digests) == {i \in DOMAIN digests : digests[i].service = service}
DigestsOf(eg) == FlattenSeq([i \in DOMAIN eg |-> eg[i].digests])

NextCoreStats(eg, assurers) ==
  [c \in Cores |->
     [gasUsed |-> SumOf([i \in elementForCore(eg, c) |-> UsedBy(eg[i].digests)]),
      popularity |-> nPositiveVotes(c, assurers),
      daLoad |-> IF c \in NewlyAvailable(assurers) THEN 1 ELSE 0]]

\* The services the block has to do with: reports, preimages and accumulation.
NextServiceStats(eg, load, accumulated) ==
  LET refined == {DigestsOf(eg)[i].service : i \in DOMAIN DigestsOf(eg)}
      provided == {load.preimages[i] : i \in DOMAIN load.preimages}
      given == FlattenSeq([i \in DOMAIN accumulated |-> accumulated[i]])
      accumulating == {given[i].service : i \in DOMAIN given}
  IN  [s \in refined \cup provided \cup accumulating |->
         [refinementCount |-> Cardinality(Of(s, DigestsOf(eg))),
          refinementGasUsed |-> SumOf([i \in Of(s, DigestsOf(eg)) |-> DigestsOf(eg)[i].used]),
          providedCount |-> Len(SelectSeq(load.preimages, LAMBDA p : p = s)),
          accumulateCount |-> Cardinality(Of(s, given))]]

-----------------------------------------------------------------------------
(* A guarantee that someone may offer: any two validators may have signed  *)
(* it, with keys of the current or the previous set, for the slot of the   *)
(* block or of one before.  Its context is that of the parent.             *)

ParentBlock == Len(past)
ParentContext ==
  [anchor |-> [hash |-> ParentBlock, postState |-> ParentBlock, accOutLog |-> past[ParentBlock].log],
   lookup |-> [slot |-> past[ParentBlock].slot, hash |-> ParentBlock]]

AllAuthorizers == UNION {{q[c][i] : c \in Cores, i \in 1..AUTHQUEUE_MAX_SIZE} : q \in Queues}

Report(core, authorizer, digests, context, t, signatures) ==
  [core |-> core, authorizer |-> authorizer, digests |-> digests, anchor |-> context.anchor,
   lookup |-> context.lookup, slot |-> t, signatures |-> signatures]

Credentials(pair, keys) ==
  [i \in 1..2 |-> [validatorIndex |-> pair[i], signedBy |-> keys[pair[i]]]]

Offered(s) ==
  IF past = <<>> THEN {}
  ELSE UNION {{Report(c, h, d, ParentContext, t, Credentials(pair, keys)) :
                 c \in Cores, h \in AllAuthorizers, d \in Works, t \in {s.slot, past[ParentBlock].slot},
                 pair \in {p \in Validators \X Validators :
                             p[1] < p[2] /\ Nobody \notin {keys[p[1]], keys[p[2]]}}} :
              keys \in {s.kappa, s.lambda}}

\* The extrinsics made of at most two of the guarantees offered.
Extrinsics(s, without) ==
  SeqOf({g \in Offered(s) : Accepts(s, without, <<g>>)}, 2)

-----------------------------------------------------------------------------
(* applyBlock, in its order; a block whose guarantees are not accepted     *)
(* leaves nothing behind.                                                  *)
ApplyBlock(t, offence, iota, assurers, queue, load) ==
  LET s == Posterior(t, offence)
      without == RhoWithout(t, assurers)
      n == Len(past) + 1
      belt == appendMMR(beefyBelt, <<n>>)
      available == SetToSeq(NewlyAvailable(assurers))
  IN  \E eg \in Extrinsics(s, without) :
        /\ Len(eg) + SumOf([c \in Cores |-> Len(spent[c])]) <= MaxReports
        /\ Accepts(s, without, eg)
        /\ slot' = t
        /\ kappa' = s.kappa /\ lambda' = s.lambda /\ eta' = s.eta /\ offenders' = s.offenders
        /\ gammaP' = IF isNewerEra(t) THEN Phi(iota, s.offenders) ELSE gammaP
        /\ rho' = [c \in Cores |->
                     IF elementForCore(eg, c) = {} THEN without[c]
                     ELSE [digests |-> TheElement(eg, c).digests, reportSlot |-> t]]
        /\ authQueue' = queue
        /\ authPool' = NextPool(t, queue, eg)
        /\ beefyBelt' = belt
        /\ recent' = NextRecent(n, belt)
        /\ lookups' = NextLookups(t, n)
        /\ validatorStats' = NextValidatorStats(s, eg, load, assurers)
        /\ coreStats' = NextCoreStats(eg, assurers)
        /\ serviceStats' = NextServiceStats(eg, load, [i \in DOMAIN available |->
                                                          rho[available[i]].digests])
        /\ past' = Append(past, [slot |-> t, assigned |-> s.cur, author |-> load.author,
                                 signers |-> reporters(s, eg), log |-> MMRSuperPeak(belt)])
        /\ entered' = [c \in Cores |-> Append(entered[c], FromQueue(queue, t, c))]
        /\ spent' = [c \in Cores |-> IF elementForCore(eg, c) = {} THEN spent[c]
                                     ELSE Append(spent[c], TheElement(eg, c).authorizer)]

BooksNext ==
  /\ Len(past) < MaxBlocks
  /\ \E gap \in Gaps, offence \in {{}, Culprits \ offenders}, load \in Loads,
        assurers \in IF Engaged = {} THEN {{}} ELSE Turnouts :
       \E iota \in IF isNewerEra(slot + gap) THEN ValidatorSets ELSE {gammaP},
          queue \in IF NewlyAvailable(assurers) = {} THEN {authQueue} ELSE Queues :
         ApplyBlock(slot + gap, offence, iota, assurers, queue, load)

Books == BooksInit /\ [][BooksNext]_booksVars

-----------------------------------------------------------------------------
(* Properties.                                                             *)

(* The guarantees that validators make honestly when they know block b,    *)
(* and that may still arrive in a block of slot t: two of those whom block *)
(* b assigned to the core, neither of them found to offend since, sign     *)
(* with their keys, in its rotation or the next; the anchor is b or an     *)
(* ancestor that is still recent, the header to look up b or an ancestor   *)
(* that is not too old.                                                    *)
Recent(a) == a > Len(past) - RECENT_HISTORY_LENGTH
Assigned(b, c) == {v \in Validators : past[b].assigned.core[v] = c
                                      /\ past[b].assigned.key[v] \notin offenders \cup {Nobody}}
Honest(b, t, c) ==
  {Report(c, h, d,
          [anchor |-> [hash |-> a, postState |-> a, accOutLog |-> past[a].log],
           lookup |-> [slot |-> past[l].slot, hash |-> l]],
          past[b].slot, Credentials(pair, past[b].assigned.key)) :
     a \in {a \in 1..b : Recent(a)},
     l \in {l \in 1..b : past[l].slot >= t - MAXIMUM_AGE_LOOKUP_ANCHOR},
     h \in Range(authPool[c]),
     d \in Works,
     pair \in {p \in Assigned(b, c) \X Assigned(b, c) : p[1] < p[2]}}

(* A guarantee made honestly is accepted by every block of its rotation    *)
(* and of the next that finds the core free and the authorization in the   *)
(* pool: across rotations and epochs, whatever blocks and slots come in    *)
(* between, the block that checks it computes the same assignment, finds   *)
(* the anchor with its state root and its log, and the header to look up   *)
(* (guarantees.ts:155-215, 289-450; guarantors-assignment-impl.ts:76-169;  *)
(* header-lookup-history-impl.ts:22-34).                                   *)
HonestGuaranteeAccepted ==
  \A gap \in Gaps :
    LET s == Posterior(slot + gap, {})
        without == RhoWithout(slot + gap, {})
    IN  \A b \in DOMAIN past, c \in {c \in Cores : without[c] = Empty} :
          Rotation(past[b].slot) >= Rotation(s.slot) - 1 =>
            \A g \in Honest(b, s.slot, c) : ReportPayable(g) => Accepts(s, without, <<g>>)

\* Of a validator, what the blocks of epoch e say it did.
BlocksOf(e) == {n \in DOMAIN past : Epoch(past[n].slot) = e}
CreditsMatch(credits, e, keys) ==
  \A v \in Validators :
    /\ credits[v].blocks = Cardinality({n \in BlocksOf(e) : past[n].author = v})
    /\ credits[v].guarantees = Cardinality({n \in BlocksOf(e) : keys[v] \in past[n].signers})
EpochBefore(e) == CHOOSE d \in {Epoch(past[n].slot) : n \in DOMAIN past} :
                     d < e /\ \A n \in DOMAIN past : Epoch(past[n].slot) \in 0..d \cup {e}

\* What the validators did in this epoch and in the last one that had a block.
ValidatorsCredited ==
  /\ CreditsMatch(validatorStats.accumulator, Epoch(slot), kappa)
  /\ (\E n \in DOMAIN past : Epoch(past[n].slot) < Epoch(slot)) =>
        CreditsMatch(validatorStats.previous, EpochBefore(Epoch(slot)), lambda)

\* The gas refinement took, by core and by service.
CoresMatchServices ==
  SumOf([c \in Cores |-> coreStats[c].gasUsed])
    = SumOf([s \in DOMAIN serviceStats |-> serviceStats[s].refinementGasUsed])

\* No authorization is used more often than it came into the pool.
Count(seq, h) == Cardinality({i \in DOMAIN seq : seq[i] = h})
AuthorizationsSpentOnce ==
  \A c \in Cores, h \in AllAuthorizers :
    Count(authPool[c], h) + Count(spent[c], h) <= Count(entered[c], h)

\* The trees of the range, from the highest to the lowest, hold every block once and in order.
RangeHoldsEveryBlock == FlattenSeq(Reverse(beefyBelt)) = [n \in DOMAIN past |-> n]

(* The books agree with what the blocks of the chain contained, and with   *)
(* each other, over epochs that change, epochs without a block, pools that *)
(* overflow and reports that arrive an epoch late                          *)
(* (validator-statistics-impl.ts:46-115, core- and services-statistics,    *)
(* authorizer-pool-impl.ts:58-90, mmr.ts:11-46).                           *)
BooksBalance ==
  ValidatorsCredited /\ CoresMatchServices /\ AuthorizationsSpentOnce /\ RangeHoldsEveryBlock
=============================================================================
