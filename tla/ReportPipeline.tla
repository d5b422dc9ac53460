--------------------------- MODULE ReportPipeline ---------------------------
(***************************************************************************)
(* The way of a work report through the state: guaranteed onto a core,     *)
(* made available by assurances, queued until the packages it needs are    *)
(* accumulated, accumulated.  Block is what applyBlock does with rho, the  *)
(* accumulation queue and history and the recent history, in its order.    *)
(*                                                                         *)
(* A package hash commits to the package's anchor block, prerequisites and *)
(* imports, so these are functions of the package; two reports may be of   *)
(* the same package.  A block's header hash is its height, on one chain.   *)
(* Signatures, authorisations, service codes and segment roots are left    *)
(* out: every report of Reports passes those checks.                       *)
(***************************************************************************)
EXTENDS Naturals, Sequences, FiniteSets

CONSTANTS
  Reports, Packages,
  NoReport,            \* an empty core
  PackageOf,           \* avSpec.packageHash of a report
  CoreOf,              \* core of a report
  Needs,               \* prerequisites and srLookup keys of a package
  Anchor,              \* height of a package's anchor block
  C,                   \* CORES
  E,                   \* EPOCH_LENGTH
  H,                   \* RECENT_HISTORY_LENGTH
  U,                   \* WORK_TIMEOUT
  MaxSlot, MaxCondemned    \* bounds of the runs

Cores == 1 .. C
Phases == 0 .. E - 1

ASSUME ConstantsAssumption ==
  /\ NoReport \notin Reports
  /\ PackageOf \in [Reports -> Packages]
  /\ CoreOf \in [Reports -> Cores]
  /\ Needs \in [Packages -> SUBSET Packages]
  /\ Anchor \in [Packages -> Nat]
  /\ C \in Nat \ {0} /\ E \in Nat \ {0} /\ H \in Nat \ {0} /\ U \in Nat \ {0}
  /\ MaxSlot \in Nat /\ MaxCondemned \in Nat

(* The accumulation history must outlive the longest way from a package's  *)
(* report to the availability of a report that needs it (12 and 8 + 5 - 1  *)
(* in the tiny variant).                                                   *)
ASSUME HistoryIsLongEnough == H + U - 1 <= E

VARIABLES
  slot,          \* tau
  height,        \* number of blocks imported
  condemned,     \* bad and wonky reports of the disputes state
  rho,           \* rho: report of each core
  reportSlot,    \* rho: slot at which it was reported
  queue,         \* accumulationQueue: ready reports, by slot phase
  history,       \* accumulationHistory: accumulated packages, newest at E
  recent,        \* beta.recentHistory: the last H blocks and their packages
  reported,      \* ghost: packages ever reported
  accumulated,   \* ghost: reports accumulated so far, in order
  readySlot      \* ghost: slot at which a report entered the queue

vars == <<slot, height, condemned, rho, reportSlot, queue, history, recent,
          reported, accumulated, readySlot>>

Items == [report : Reports, needs : SUBSET Packages]

(* What the variables hold.                                                *)
TypeOK ==
  /\ slot \in Nat /\ height \in Nat
  /\ condemned \subseteq Reports
  /\ rho \in [Cores -> Reports \cup {NoReport}]
  /\ reportSlot \in [Cores -> Nat]
  /\ queue \in [Phases -> Seq(Items)]
  /\ history \in [1 .. E -> SUBSET Packages]
  /\ recent \in Seq([block : Nat, packages : SUBSET Packages]) /\ Len(recent) <= H
  /\ reported \subseteq Packages
  /\ accumulated \in Seq(Reports)
  /\ readySlot \in [Reports -> Nat]

(* After the genesis, block 0 of the recent history.                       *)
Init ==
  /\ slot = 0 /\ height = 0
  /\ condemned = {}
  /\ rho = [c \in Cores |-> NoReport]
  /\ reportSlot = [c \in Cores |-> 0]
  /\ queue = [i \in Phases |-> <<>>]
  /\ history = [i \in 1 .. E |-> {}]
  /\ recent = << [block |-> 0, packages |-> {}] >>
  /\ reported = {}
  /\ accumulated = <<>>
  /\ readySlot = [r \in Reports |-> 0]

-----------------------------------------------------------------------------
PackagesOf(reports) == {PackageOf[r] : r \in reports}
PackagesIn(seq) == {PackageOf[seq[k]] : k \in DOMAIN seq}

(* What is at the positions of a sequence, in its order.                   *)
Select(seq, positions) ==
  LET upTo[i \in 0 .. Len(seq)] ==
        IF i = 0 THEN <<>>
        ELSE IF i \in positions THEN Append(upTo[i - 1], seq[i]) ELSE upTo[i - 1]
  IN  upTo[Len(seq)]

(* A faulty variant: an accumulated report is kept in the queue.           *)
EditKeeps(items, done) ==
  [k \in DOMAIN items |-> [items[k] EXCEPT !.needs = @ \ done]]

(* E_Fn: drop the items of done packages and the needs they satisfied.     *)
Edit(items, done) ==
  LET kept == Select(items, {k \in DOMAIN items : PackageOf[items[k].report] \notin done})
  IN  [k \in DOMAIN kept |-> [kept[k] EXCEPT !.needs = @ \ done]]

(* A faulty variant: the needs are not looked at.                          *)
PriorityOfAll(items) == [k \in DOMAIN items |-> items[k].report]

\* The items without needs are done, and edited out of the others.
NextRound(r) ==
  LET free == Select(r.todo, {k \in DOMAIN r.todo : r.todo[k].needs = {}})
      now == [k \in DOMAIN free |-> free[k].report]
  IN  [todo |-> Edit(r.todo, PackagesIn(now)), done |-> r.done \o now]

(* computeAccumulationPriority: again and again; every round before the    *)
(* last removes an item.                                                   *)
Priority(items) ==
  LET round[n \in 0 .. Len(items)] ==
        IF n = 0 THEN [todo |-> items, done |-> <<>>] ELSE NextRound(round[n - 1])
  IN  round[Len(items)].done

(* The queue from phase m on, round the epoch.                             *)
QueueFrom(m) ==
  LET upTo[n \in 0 .. E] ==
        IF n = 0 THEN <<>> ELSE upTo[n - 1] \o queue[(m + n - 1) % E]
  IN  upTo[E]

(* NewWorkReportsImpl.queueable.                                           *)
Queueable(new) ==
  LET dependent == Select(new, {k \in DOMAIN new : Needs[PackageOf[new[k]]] # {}})
  IN  Edit([k \in DOMAIN dependent |->
              [report |-> dependent[k], needs |-> Needs[PackageOf[dependent[k]]]]],
           UNION {history[i] : i \in 1 .. E})

Immediate(new) == Select(new, {k \in DOMAIN new : Needs[PackageOf[new[k]]] = {}})

(* NewWorkReportsImpl.accumulatableReports.                                *)
Accumulatable(new, newSlot) ==
  LET first == Immediate(new)
  IN  first \o Priority(Edit(QueueFrom(newSlot % E) \o Queueable(new), PackagesIn(first)))

(* outerAccumulation takes the longest prefix the gas allows.  A guarantee *)
(* has at most TOTAL_GAS_ACCUMULATION_LOGIC gas and a block C times that,  *)
(* so C reports always fit; what else fits is left open.                   *)
AccumulatedCounts(reports) ==
  (IF Len(reports) < C THEN Len(reports) ELSE C) .. Len(reports)

(* A faulty variant: the oldest two sets are forgotten.                    *)
NextHistoryShort(done) ==
  [i \in 1 .. E |-> IF i = E THEN PackagesIn(done)
                    ELSE IF i = 1 THEN {} ELSE history[i + 1]]

(* AccumulationHistoryImpl.toPosterior: one set per block.                 *)
NextHistory(done) ==
  [i \in 1 .. E |-> IF i = E THEN PackagesIn(done) ELSE history[i + 1]]

(* A faulty variant: the queue is cut one slot early.                      *)
NextQueueEarly(new, done, newSlot) ==
  [p \in Phases |->
     LET i == ((newSlot % E) + E - p) % E
     IN  IF i = 0 THEN Edit(Queueable(new), PackagesIn(done))
         ELSE IF i <= newSlot - slot THEN <<>>
         ELSE Edit(queue[p], PackagesIn(done))]

(* AccumulationQueueImpl.toPosterior: the new items at the slot's phase,   *)
(* nothing at the phases of the slots skipped, the others edited.          *)
NextQueue(new, done, newSlot) ==
  [p \in Phases |->
     LET i == ((newSlot % E) + E - p) % E
     IN  IF i = 0 THEN Edit(Queueable(new), PackagesIn(done))
         ELSE IF i < newSlot - slot THEN <<>>
         ELSE Edit(queue[p], PackagesIn(done))]

(* A faulty variant: reports judged in this very block stay.               *)
RhoDaggerPrior(judged) ==
  [c \in Cores |-> IF rho[c] \in condemned THEN NoReport ELSE rho[c]]

(* RHOImpl.toDagger: reports judged bad or wonky are cleared.              *)
RhoDagger(judged) ==
  [c \in Cores |-> IF rho[c] \in judged THEN NoReport ELSE rho[c]]

(* AssurancesExtrinsicImpl.newlyAvailableReports: in the order of the      *)
(* cores, those with more than two thirds of assurances.                   *)
NewlyAvailable(dRho, assured) ==
  Select(dRho, {c \in Cores : dRho[c] # NoReport /\ CoreOf[dRho[c]] \in assured})

(* RHOImpl.toDoubleDagger: available and timed out reports are cleared.    *)
RhoDoubleDagger(dRho, assured, newSlot) ==
  [c \in Cores |-> IF c \in assured \/ newSlot >= reportSlot[c] + U
                   THEN NoReport ELSE dRho[c]]

RecentPackages == UNION {recent[i].packages : i \in DOMAIN recent}
RecentBlocks == {recent[i].block : i \in DOMAIN recent}

QueuedItems == UNION {{queue[p][k] : k \in DOMAIN queue[p]} : p \in Phases}
QueuedReports == {item.report : item \in QueuedItems}
Pending == {rho[c] : c \in Cores} \ {NoReport}
HistoricPackages == UNION {history[i] : i \in 1 .. E}

(* A faulty variant: the packages of recent blocks are not looked at.      *)
InPipelineNotRecent ==
  PackagesOf(QueuedReports) \cup PackagesOf(Pending) \cup HistoricPackages

(* Packages the prior state knows on their way, or past it.                *)
InPipeline ==
  PackagesOf(QueuedReports) \cup PackagesOf(Pending)
    \cup RecentPackages \cup HistoricPackages

(* GuaranteesExtrinsicImpl.checkValidity: one report per core and package, *)
(* on a free core, anchored in a recent block, of a package not known yet, *)
(* needing only packages of recent blocks or of this one.                  *)
GuaranteesValid(guaranteed, ddRho) ==
  /\ \A r, s \in guaranteed :
       r # s => CoreOf[r] # CoreOf[s] /\ PackageOf[r] # PackageOf[s]
  /\ \A r \in guaranteed :
       /\ ddRho[CoreOf[r]] = NoReport
       /\ Anchor[PackageOf[r]] \in RecentBlocks
       /\ PackageOf[r] \notin InPipeline
       /\ Needs[PackageOf[r]] \subseteq PackagesOf(guaranteed) \cup RecentPackages

GuaranteeFor(c, guaranteed) == {r \in guaranteed : CoreOf[r] = c}

(* RHOImpl.toPosterior.                                                    *)
ReportOnCores(guaranteed, ddRho, newSlot) ==
  /\ rho' = [c \in Cores |-> IF GuaranteeFor(c, guaranteed) = {} THEN ddRho[c]
                             ELSE CHOOSE r \in guaranteed : CoreOf[r] = c]
  /\ reportSlot' =
       [c \in Cores |-> IF GuaranteeFor(c, guaranteed) # {} THEN newSlot
                        ELSE IF ddRho[c] = NoReport THEN 0 ELSE reportSlot[c]]

LastBlocks(blocks) ==
  IF Len(blocks) > H THEN SubSeq(blocks, Len(blocks) - H + 1, Len(blocks)) ELSE blocks

(* RecentHistoryImpl.toPosterior.                                          *)
Remember(guaranteed) ==
  recent' = LastBlocks(Append(recent, [block |-> height + 1,
                                       packages |-> PackagesOf(guaranteed)]))

(* accumulateReports: of the accumulatable reports the first n.            *)
Accumulate(new, newSlot) ==
  LET reports == Accumulatable(new, newSlot)
  IN  \E n \in AccumulatedCounts(reports) :
        LET done == SubSeq(reports, 1, n)
        IN  /\ history' = NextHistory(done)
            /\ queue' = NextQueue(new, done, newSlot)
            /\ accumulated' = accumulated \o done

NoteReady(newSlot) ==
  readySlot' = [r \in Reports |->
    IF r \in QueuedReports' \ QueuedReports THEN newSlot ELSE readySlot[r]]

(* A valid block: its slot, the reports it judges bad or wonky, the cores  *)
(* a supermajority assures, the reports it guarantees.                     *)
Block(newSlot, judged, assured, guaranteed) ==
  LET dRho == RhoDagger(condemned')
      ddRho == RhoDoubleDagger(dRho, assured, newSlot)
  IN  /\ newSlot > slot
      /\ condemned' = condemned \cup judged
      /\ \A c \in assured : dRho[c] # NoReport
      /\ GuaranteesValid(guaranteed, ddRho)
      /\ Accumulate(NewlyAvailable(dRho, assured), newSlot)
      /\ ReportOnCores(guaranteed, ddRho, newSlot)
      /\ Remember(guaranteed)
      /\ NoteReady(newSlot)
      /\ reported' = reported \cup PackagesOf(guaranteed)
      /\ slot' = newSlot
      /\ height' = height + 1

Next ==
  \E newSlot \in 1 .. MaxSlot, judged \in SUBSET (Reports \ condemned) :
    /\ Cardinality(condemned \cup judged) <= MaxCondemned
    /\ \E assured \in SUBSET Cores, guaranteed \in SUBSET Reports :
         Block(newSlot, judged, assured, guaranteed)

Spec == Init /\ [][Next]_vars

-----------------------------------------------------------------------------
Positions(seq, p) == {k \in DOMAIN seq : PackageOf[seq[k]] = p}
QueuePlaces(p) ==
  UNION {{<<i, k>> : k \in {k \in DOMAIN queue[i] : PackageOf[queue[i][k].report] = p}} :
           i \in Phases}
CoresOf(p) == {c \in Cores : rho[c] # NoReport /\ PackageOf[rho[c]] = p}

(* A package is in one place: on one core, once in the queue, or once      *)
(* among the accumulated, whatever history has already forgotten           *)
(* (guarantees.ts:476, new-work-reports-impl.ts:98).                       *)
PackageOnce ==
  \A p \in Packages :
    Cardinality(CoresOf(p)) + Cardinality(QueuePlaces(p))
      + Cardinality(Positions(accumulated, p)) <= 1

(* A queued report waits for exactly the packages it needs that are not    *)
(* accumulated yet: none it will wait for in vain because the history      *)
(* forgot it, none it would overtake (new-work-reports-impl.ts:54, 101).   *)
WaitsExactly ==
  \A item \in QueuedItems :
    item.needs = Needs[PackageOf[item.report]] \ PackagesIn(accumulated)

(* No package is reported again, not even after its report timed out or    *)
(* was judged bad: its anchor is too old by the time the recent history    *)
(* forgets it (guarantees.ts:414 and 477).                                 *)
ReportedOnce ==
  [][\A p \in Packages :
       p \in reported => ~ \E c \in Cores :
         /\ rho'[c] # NoReport /\ rho'[c] # rho[c]
         /\ PackageOf[rho'[c]] = p]_vars

Settled == {accumulated[k] : k \in DOMAIN accumulated}

(* A report leaves its core only condemned, timed out, accumulated or      *)
(* queued: an available one is not lost for want of gas (accumulate.ts:176,*)
(* rho-impl.ts:141-150).  It leaves the queue only by accumulation, or by  *)
(* age: E slots after it entered, also when slots were skipped             *)
(* (accumulation-queue-impl.ts:68).                                        *)
NoReportLost ==
  [][/\ \A c \in Cores :
          rho[c] # NoReport /\ rho'[c] # rho[c] =>
            \/ rho[c] \in condemned'
            \/ slot' >= reportSlot[c] + U
            \/ rho[c] \in QueuedReports'
            \/ rho[c] \in Settled'
     /\ \A r \in QueuedReports \ QueuedReports' :
          r \in Settled' \/ slot' - readySlot[r] >= E]_vars

(* A report that is judged bad or wonky before it is available, in the     *)
(* same block at the latest, is never queued or accumulated (rho-impl.ts:  *)
(* 107, and jam-state-impl.ts:281 before 293).                             *)
CondemnedInTime ==
  [][\A r \in condemned' :
       r \notin QueuedReports \cup Settled =>
       r \notin QueuedReports' \cup Settled']_vars

Stage(p) ==
  IF p \in PackagesIn(accumulated) THEN "accumulated"
  ELSE IF p \in PackagesOf(QueuedReports) THEN "waiting"
  ELSE IF p \in PackagesOf(Pending) THEN "reported"
  ELSE IF p \in reported THEN "dropped" ELSE "unseen"

Lifecycle == INSTANCE PackageLifecycle WITH stage <- [p \in Packages |-> Stage(p)]

(* The life of a package: no way back, and nothing accumulated before the  *)
(* packages it needs.                                                      *)
ImplementsLifecycle == Lifecycle!Spec
=============================================================================
