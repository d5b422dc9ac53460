# TLA+ verification of tsjam

tsjam is a TypeScript implementation of a JAM node: it imports blocks, applies
the JAM state transition to them and answers a conformance fuzzer over a
socket.  This directory holds TLA+ models of its core logic, the TLC
configurations that check them on small instances, and proofs about them for
the TLA+ proof system.  Paths below are relative to `packages/` unless they
start with `impls/`, which stands for `packages/jam-core/src/impls/`.

## The system

One block at a time goes through `JamStateImpl.applyBlock`
(`impls/jam-state-impl.ts:165`), a function from a state, a parent header and a
block to a new state or an error.  It never changes the old state: every part
of the state is an immutable component with a method `toPosterior` (and often
`toDagger`, `toDoubleDagger` for intermediate values), and an error anywhere
discards everything.  So the hard behaviour of the transition is not
interleaving but order: which component is read before and which after the
block, in which order extrinsics take effect, and what long sequences of legal
blocks can do.  Interleaving comes back one level higher, where the chain
manager awaits its database and the fuzzer target its socket.

| Component | Code | State | Operations |
| --- | --- | --- | --- |
| Chain manager | `impls/chain-manager.ts`, `impls/jam-blocks-db.ts` | best and finalized block, unfinalized blocks, database of finalized ones | `handleIncomingBlock`, `build`, `save` |
| Disputes | `impls/extrinsics/disputes*`, `impls/disputes-state-impl.ts` | good, bad, wonky reports; offenders | verdicts, culprits, faults of a block |
| Validator sets | `impls/{kappa,lambda,gamma-p,validators}-impl.ts` | next, current, previous validators | rotation at an epoch change, removal of offenders |
| Report pipeline | `impls/rho-impl.ts`, `impls/extrinsics/{guarantees,assurances}.ts`, `impls/new-work-reports-impl.ts`, `impls/accumulation-{queue,history}-impl.ts`, `impls/recent-history-impl.ts` | report on each core, queue of ready reports, history of accumulated packages, recent blocks | guarantee, assure, time out, queue, accumulate |
| Safrole | `impls/gamma-*-impl.ts`, `impls/extrinsics/tickets.ts`, `impls/jam-entropy-impl.ts` | ticket accumulator, sealing keys, entropy | submit tickets, seal, change epoch |
| Headers | `impls/jam-signed-header-impl.ts` | none | validation, sealing, building |
| Accumulation | `jam-core/src/accumulate.ts`, `jam-core/src/pvm/invocations/accumulate.ts` | privileges, transfers, gas | parallel accumulation by service, merge |
| Accounts | `impls/delta-impl.ts`, `impls/service-account-impl.ts`, `impls/merkle-account-data-storage-impl.ts` | storage, preimages, requests, counters | host calls, preimage integration |
| Host calls | `jam-core/src/pvm/functions/` | the context of an accumulation | read, write, transfer, new, upgrade, eject, solicit, forget, ... |
| Authorizers | `impls/authorizer-{pool,queue}-impl.ts` | pool of eight per core | consume, refill |
| Lookup history | `impls/header-lookup-history-impl.ts` | slot to header hash | append, expire |
| Statistics | `impls/*statistics*.ts` | counters of two epochs | count, rotate |
| Guarantor assignment | `impls/guarantors-assignment-impl.ts`, `jam-core/src/fisher-yates.ts` | none | shuffle, rotate |
| PVM | `jam-pvm-base`, `jam-pvm-js`, and a second one in `jam-pvm-wasm/asm` | pointer, registers, memory, heap, gas | decode, step, fault, host call |
| Refinement | `jam-core/src/compute-work-report.ts`, `jam-core/src/pvm/invocations/refine.ts`, `impls/work-*-impl.ts` | exported segments, inner machines | authorize, refine, export, start and run inner machines |
| State map | `jam-core/src/merklization/`, `impls/jam-state-impl.ts:427` | none | state to map and trie, map to state, mountain range |
| Program loading | `jam-pvm-base/src/program.ts`, `pvm-program-codec.ts` | none | lay out memory and registers, take code apart |
| Codec | `jam-codec` | none | encode, decode |
| Fuzzer target | `jam-fuzzer-target/src/cli.ts` | read buffer, chain manager of a socket | frame messages, answer them |

`PROJECT.json` lists every component with its status, and the hazards: the
places where the code can go wrong in a way a test would hardly reach, each
with the properties that watch over it.

### What is hard, and what makes each component correct

- **Chain manager.** `handleIncomingBlock` reads the database, suspends, and
  uses the answer later; it assigns the finalized block before an await and the
  best block after it.  Correct when of the blocks that compete for a slot
  only one is ever extended, the finalized block can always be found, and the
  best block can always be extended.
- **Disputes.** Verdicts about one report may arrive in many blocks, judged by
  two different validator sets, while the same block rotates the sets.  Correct
  when a report has one verdict, verdicts are truthful while dishonest seats
  are few, no honest key is punished, and an offender leaves every set in time.
- **Report pipeline.** Five structures with different lifetimes (cores, queue,
  history, recent blocks, disputes) decide together whether a package may be
  reported, must wait or is dropped; slots may be skipped, gas may run out.
  Correct when a package is reported and accumulated at most once, never before
  what it needs, and is lost only for a reason the protocol names.
- **Safrole.** Five files rotate at an epoch change, each from prior or
  posterior values of the others; epochs may pass without a block.  Correct
  when every slot has somebody entitled to seal it, and when whoever follows
  the headers knows who.
- **Accumulation, accounts and host calls.** Services run one by one on copies
  of the accounts, their results are merged, and a panic falls back to a
  checkpoint.  Correct when no balance is made from nothing, a panic leaves the
  checkpointed state, storage counters agree with what is stored, and a
  preimage request goes through its life in order.
- **Guarantor assignment, authorizers, lookup history, statistics.** A
  guarantee is made with one block's books and checked with those of a later
  one: the assignment is computed anew from validators and entropy that have
  rotated since, the pool has lost and taken authorizations, headers have been
  dropped from the history.  Correct when a guarantee made honestly is accepted
  as long as its slot allows, and counters say what the blocks contained.
- **Refinement.** A program is told where its segment will stand before the
  items ahead of it are known to have succeeded, and an inner machine is put
  together from the context and its owner's memory at every invocation.
- **PVM.** 135 instructions on words of several widths, written twice, in
  languages whose integers differ; positions to jump to are computed ahead in
  one and on demand in the other.  Correct when both do the same, jumps land on
  blocks, a fault can be repaired and memory changes only where it may.
- **Program loading.** The sizes that a blob names are believed and what is
  missing reads as zeros.  Correct when a blob that was cut never runs, and the
  segments of one that fits stay a zone apart with the registers where they say.
- **Codec.** Correct when what was written is read back whatever follows it, as
  messages, blocks and states are read one part after the other.
- **State map.** Reading a state back must tell services, preimages and storage
  apart by keys that do not say what they stand for.
- **Fuzzer target.** A read loop over a stream, with handlers that suspend.
  Correct when every request is answered, by the answer to that request.

## Modules

| Module | Models | Runs and proofs |
| --- | --- | --- |
| `ChainManager` | the chain manager and the blocks database | `chain_overlap`; `ChainAndBooksProofs` |
| `ForkHistory` | the same, with a history of which forks were extended | `chain_forks`, `chain_overlap`; `ChainAndBooksProofs` |
| `Disputes` | the disputes extrinsic, the disputes state, the validator sets | `disputes`; `ComputationAndVerdictProofs` |
| `PackageLifecycle` | abstract: the life of a work package | implemented by `ReportPipeline` |
| `ReportPipeline` | cores, availability, queue, history, recent blocks | `report_pipeline`; `ReportPipelineProofs` |
| `HeaderFollower` | abstract: who may seal, known from header marks alone | implemented by `Safrole` |
| `Safrole` | tickets, accumulator, sealing series, entropy, ring, marks, seal | `safrole`; `SealsAndTargetProofs` |
| `ServiceAccount` | one account: storage, requests, preimages, counters, threshold, the calls that change it | `account`, `account_doc`; `ServiceAccountProofs` |
| `Accumulation` | rounds of accumulation, gas, deferred transfers, contexts, privileges, the merge | `accumulation`; `AccumulationProofs` |
| `FuzzerTarget` | the target's read loop and handlers over an instance of `ChainManager`, with the client of `jam-fuzzer` | `fuzzer_target`; `SealsAndTargetProofs` |
| `Assignments` | the shuffle, the rotation of guarantors and the one before | extended by `Bookkeeping` |
| `MountainRange` | the accumulator of `mmr.ts` and its super peak | extended by `Bookkeeping` |
| `Bookkeeping` | what a block leaves for later ones: assignment, pools, recent history, lookups, statistics, and the guarantees checked against them | `bookkeeping`; `ChainAndBooksProofs` |
| `StateMap` | a state as a map and a trie, and back | `account` |
| `PvmWords`, `PvmMemory`, `PvmProgram` | words and floats of JavaScript; pages, access and heap; operands, blocks and jump tables | extended by the interpreters |
| `PvmJs`, `PvmWasm` | the instructions of the two interpreters | run by `PvmLockstep` |
| `PvmLockstep` | both on one program, with what invokes them | `pvm`; `PvmStepProofs`, `PvmLockstepProofs` |
| `PvmLoading` | a blob's memory, registers, code, mask and jump table | `pvm`; `PvmStepProofs` |
| `Codec`, `Schemas` | integers and bits as bytes; the combinators over them | extended by `PvmLoading`; `pvm` |
| `Refinement` | the computation of a work report, over machines of `PvmJs` | `refinement`; `ComputationAndVerdictProofs` |

A module `MCx` gives `x` the constants that a `.cfg` cannot write.  Operators
introduced by "A faulty variant" are plausible mistakes in the code they stand
beside; no specification uses them.  They are substituted one at a time
(`PROJECT.json`, `mutants`) to show that each property notices such a mistake.

### How state and actions correspond to the code

`ChainManager`. The variables are the fields of the class and the keys of the
two maps; a header hash is injective, so a block stands for its hash.
`handleIncomingBlock` is cut at its two awaits: `CallOnUnfinalized` and
`CallLookup` run to the first one reached, `ResumeLookup`, `Reject` and
`ResumeSave` continue.  The promises awaited are already resolved, so the
continuations run in the order in which they were suspended: `pending` is a
queue.  Whether `append` accepts a block is left open, but for the slot rule.

`Disputes`, `ReportPipeline` and `Safrole` have one action, `Block`: a block is
applied by one synchronous function and an invalid block changes nothing
(`JamStateImpl.applyBlock`).  The action is the conjunction of the validity
checks and of the `toPosterior` (`toDagger`, `toDoubleDagger`) methods in the
order in which `applyBlock` calls them; primed variables are posterior values,
and which of the two each check reads is the point of many properties.  Lists
that the code requires to be strictly ordered by a field are functions of that
field.  What other components contribute is an existentially chosen input: in
`Disputes` the contents of iota, in `ReportPipeline` the reports judged, in
`Safrole` the validators left by phi.

In `ReportPipeline` the priority rounds and the queue round the epoch are
recursive functions; gas is abstracted to the length of the prefix it allows,
at least one report a core, since a guarantee may ask for at most a C-th of a
block's gas.  Package hashes commit to the anchor and to the packages needed.

In `Safrole` a hash of the entropy is the slot of the block that produced it,
which makes staleness visible; a ticket is the triple its VRF output depends
on, and its identifier a number, in any order but the same for everybody.

`ForkHistory` adds two variables to `ChainManager` that no guard reads: the
blocks that were extended, and whether a call ever went on with a parent that
was given up after the database had answered for it.

`FuzzerTarget` instantiates `ChainManager` over the session's own variables.
Messages travel as units, so that the socket may cut them anywhere; `Data` is
the `data` event, the actions of `Handle` are the parts of `onMessage` between
its awaits and the continuation that resets the buffer, `Ask` and `Hear` are
`sendStuff` of the client.

`ServiceAccount` is one account; other services appear as what they do to it:
transfers, preimages they provide, an ejection.  `items` and `octets` are kept
as the code keeps them, beside what they count.  A value is its length, a
preimage its hash, a request a hash and a length with its times.  An invocation
has two contexts, `x` and `y`; host calls change `x` only, a call that the code
refuses changes nothing and is not a step, and `EndInvocation` keeps either.
`provide` by the service itself collects in the context and is integrated at
the end of the round, what others provided with it, the block's extrinsic last.
Invocations may end with any prefix of their calls, so a bound on calls bounds
what happens between two integrations and not what may happen in a block.

`Accumulation` is a block's accumulation: `BeginBlock` is `accumulateReports`,
`BeginRound` and `EndRound` are one level of the recursion of
`outerAccumulation` with the merge of `parallelizedAccumulation`, and in
between each service is credited, runs its host calls and ends.  The round's
state `e` is shared and changed in place by the credit, as in the code; contexts
are copies.  An account is its balance, its code and whether it is bare enough
to be ejected; all thresholds are one constant, since `ServiceAccount` has what
makes them differ.  Code that `New` or `Upgrade` names as running stands for
code whose preimage is there when the account is next accumulated.  A report
has one digest; privileged services that the merge accumulates without gas
leave the state as it was.

`PvmLockstep`. The state is a program and two machines.  `Turn` is one
`ixStep` of each interpreter, `AnswerHostCall` and `EndInHostCall` are
`hostCallInvocation`, `RepairAndResume` is what the caller of `invoke` does
after a page fault, `Finish` is `argumentInvocation`.  `PvmJs` has one operator
for each group of instructions that share a decoder, with a case for each
instruction; `PvmWasm` is translated from the AssemblyScript in the same way
and shares nothing with it but the names.  Every width is a multiple of
`ByteBits`, so that with one bit a byte a register of eight "bytes" has eight
bits: sign, overflow and rounding occur at the same places and every boundary
can be enumerated.  `FloatBits` is the precision of a JavaScript number, where
the code computes with one.  `KnownDifference` lists where the two interpreters
differ; `WasmAgrees` says that the list is complete.  Once they have differed
only the first goes on.

`PvmLoading`, `Codec`, `Schemas`. Functions, on bytes of `ByteBits` bits.
`ReadBlob`, `Fits`, `Segments`, `Memory` and `Registers13` are the parts of
`programInitialization` in its order, `DeblobProgram` is
`PVMProgramCodec.decode`, and `Start` says what `argumentInvocation` makes of a
blob.  In `Schemas` a codec is a record with a constructor for each factory of
the code, and `Encode` and `Decode` do what the factory's methods do.  The run
`pvm` starts some machines from the memory and the registers of a blob, so that
programs use the stack, the heap and the argument where the layout puts them.

`Refinement`. `computeWorkReport` is a sequence of actions: authorization, one
item after the other, the report.  Within an item the program makes the host
calls of refinement in any order, on a context of exported segments and inner
machines that are machines of `PvmJs`.  Costs are counted in host calls, each
of which takes as much gas as all steps of an inner machine that matter here.
Parts of the code that are not implemented are modelled as what they do:
`poke` and `pages` throw, and erasure coding throws, so that no report of a
successful package leaves `Encode`.  Nothing in the repository calls
`computeWorkReport` yet.

`Bookkeeping` has one action, `ApplyBlock`, like the modules of the other
extrinsics; it keeps for each part the order in which `applyBlock` computes it.
The number of a block stands for the hash of its header and for the root of
the state after it.  Seals, verdicts and what accumulation does to the queues
of authorizers are inputs.  A zero key signs nothing.

`StateMap` has no variables: `fromState`, `fromMerkleMap` and the trie are
operators, and the account run applies them to the account of every state
between two blocks, beside another account.  A key is its first four octets
as a number and a constructor of the rest, since that is what reading looks at.

## Runs

| Run | Bounds | Shows |
| --- | --- | --- |
| `chain_forks` | eight blocks and the genesis in four generations, siblings of the same and of different slots, one import at a time | after one fork was extended one of another slot is extended too, against the comment on the class (a finding) |
| `chain_overlap` | the same tree, three overlapping imports | the finalized block is stored at every moment, and the best block extends it when no call is suspended; of the forks for one slot only one is ever extended |
| `disputes` | four seats, two dishonest keys in each set, two reports, four epochs, two verdicts, two culprits and a fault a block | verdicts are single and truthful, the honest are safe, offenders leave |
| `report_pipeline` | two cores, five reports of four packages that need one another, epochs of four slots, seven slots | the life of a package, waiting, loss and condemnation |
| `safrole` | three seats, four keys, two validator sets of which one has an emptied seat, epochs of four slots with three for tickets, two tickets a block, eleven slots | sealers, shares, accumulator, entropy, and the header follower |
| `account` | one key, one preimage, a request of another length, three calls an invocation, five slots, expiry after one, a balance that with one transfer pays a value or a second request and with two both | counters, solvency, requests, ejection; a lookup finds what was available, and all of it; the state reads back from its map |
| `account_doc` | two preimages, one call an invocation, six slots | a preimage solicited again is found at no slot, against the comment on the lookup (a finding) |
| `accumulation` | states with two services that run and one to be ejected, and states with two services holding the privileges; five blocks with work over, at and under the gas limit, transfers of one with gas of none or one, indices up to six of which three are public | funds, free indices, gas, privileges, termination |
| `fuzzer_target` | nine blocks, two of them undecodable, messages of two and three units | every request is answered, rightly, and both sides agree |
| `pvm` | one bit a byte, three registers, pages of two bytes; every instruction on up to eleven boundary values, with operands of any length, small programs of jumps, tables, faults, heap and host calls, two resumptions; machines from four blobs; blobs and layouts also on bytes of two bits with pages of 4, zones of 16 and a memory of 256, codecs of every kind one, two and three deep on bytes of three bits | both interpreters agree but for known differences; jumps, faults, stores, immediate forms; blobs load whole or not at all, values read back |
| `refinement` | packages of up to two items, authorizers good, missing, empty and oversized, outputs of two, three exports, two inner machines, gas of 0, 2 and 5 | segments stand where they were announced; inner machines resume where they were |
| `bookkeeping` | four blocks one or five slots apart, two reports, rotations of two slots, epochs of four, two blocks of history and of lookups | honest guarantees are accepted later; pools, statistics and mountain range agree with the blocks |

Why the bounds are enough.  The tree has a fork on the genesis, a fork deeper,
and branches long enough for finality to pass the forks and for an abandoned
branch to be picked up; three calls are needed for one to be suspended at each
await while a third starts.  Four seats are the fewest for which a third, two
thirds and two thirds plus one differ and a minority of two cannot decide
alone; four epochs take an offender through all three sets.  In the pipeline
the history spans `H + U - 1` slots exactly, so that a report can come as late
as it may; with one slot fewer a report waits for a package already forgotten
(`HistoryIsLongEnough`; the tiny constants of `jam-constants` are tight, 8 + 5 -
1 = 12).  Seven slots let a package go round the queue and be skipped over.  In
Safrole the accumulator can overflow by two blocks, the contest of one epoch
can seal the next and another can follow it, and an epoch can be passed over;
all of these states were seen to be reached.  For an account, two calls between integrations
suffice for each pair of calls and three let a service forget, solicit and
provide its own code at once; with expiry after one slot five slots see a
preimage provided, forgotten and gone, or solicited again, and a lookup behind
each of these; balances are chosen so that every affordability test is
met and failed.  In `accumulation` transfers of the first round start a
second and those a third, an account is ejected while others pay into it, two
services create the same index, and a report waits for the next round because
of gas; with three public indices, of which at least one is free, a service
creates accounts until it can afford or is given no more (`RoomFor`: of 2^32
indices one is always free).
In the fuzzer session every cut
of every message occurs, twice in the longer ones.  For the interpreters the
values are zero, one and the bounds of signed and unsigned numbers of four and
eight bytes with their neighbours, and numbers that a JavaScript number rounds;
the image has pages that are readable, writable and absent next to each other,
and a heap that can grow into the stack; each has been seen to be reached.  A
refinement meets items that export more and fewer segments than announced and
fail before or after it, and machines that stop in each way.  Blocks one slot
apart see a guarantee within its rotation and after it, five slots pass over a
whole epoch; with two blocks of history an anchor is dropped while a report
that names it still waits.

Deadlock is checked in the chain and disputes runs.  The other models may
really stop: an account may be ejected, the one block of `Accumulation` ends, a
machine halts, a package is reported; a chain may get no further block (and slots are bounded), and
the client of the fuzzer may ask nothing more, or wait for an answer to an
undecodable block that never comes.

Fairness is assumed in `FuzzerTarget` and `Accumulation` only.  The latter is
one synchronous call, so weak fairness of the next-state relation says no more
than that it goes on; that it ends follows from gas.  In the former: what was written to the socket is
delivered, and the event loop runs what can run.  A client need not ask.  The
chain models have no fairness: when the next block comes, and what it brings,
is up to others, so that nothing there must happen eventually; what must not
be lost is stated as an action property (`NoReportLost`).

## Proofs

Each theorem holds for every value of the constants that satisfies the named
assumptions.

- `ChainAndBooksProofs`, of the chain manager: types, and `ChainIsWhole` (the finalized block is
  stored; with no call suspended the best block is its child, or Genesis, and can
  be extended) from `SaveOrder`: while a save is suspended the newest
  one holds an unfinalized child of the finalized block, and while none is the
  best block is such a child itself, or Genesis, finalized.  `RivalsAreSettled`,
  for forks of any slots and any number of calls that overlap, from
  `ForksInOrder`: a block that was extended is unfinalized no more and its
  parent cannot be extended again, extended blocks and the parents of
  unfinalized ones are connected up to Genesis, and siblings among the extended
  blocks, or one of them and an unfinalized one, have different slots.  It is
  inductive because a block's competitors go in the very step that extends it;
  by itself the property says nothing of the unfinalized blocks that may be
  extended next.
  Of the books:
  `HonestGuaranteeAccepted`, for any number of validators and cores, any length
  of rotations, epochs and histories and any distance between blocks, from
  `BooksInv`, which TLC found to hold on the instance of `bookkeeping` first.
  The property asks the next block for the assignment that a block of the past
  computed; the invariant says what the state keeps of it: current entropy and
  validators tell whom the blocks of this epoch assigned, the previous ones
  whom those of the epoch before did, but for keys that offended since, whose
  place is empty; when an epoch ends the one becomes the other, and an epoch
  without a block leaves nothing to tell of.  It is enough because the slot one
  rotation before is in the same epoch or in the one before
  (`EpochBeforeByRotation`), and because assignments are the same all through a
  rotation (`SameRotation`).  The invariant also says that the recent history
  is that of the newest blocks, all but the last with their roots, and that as
  many headers can be looked up as slots are allowed to pass, and one more: a
  block takes at least a slot, so that none is dropped that may still be named.
  `BooksBalance`, from `BalanceInv`.  The slot is that of the last block, so
  that credits start anew exactly when no block of the epoch has been counted
  yet, and the previous ones are those of the last epoch that had a block
  (`BeforeIs`).  Gas by core and gas by service are one sum over digests,
  grouped in two ways (`SumGrouped`); reports in cores are made of digests,
  which keeps the services a block touches finite in number.  An authorization
  leaves its pool by one place (`CountWithout`) because the guarantee was found
  authorized, and overflow only takes away (`CountNewest`).  The tree a block
  adds to the range comes after all that was there, whatever peaks it meets on
  its way (`AppendsLast`), since joining trees is associative.
- `ComputationAndVerdictProofs`: how a report is computed, and how one is
  judged.  Of Disputes: types; `VerdictsDisjoint`; `VerdictsTruthful` and
  `HonestNeverPunished` from `HonestInv`, which adds that no validator set of
  the state has as many dishonest seats as a verdict needs, so that an honest
  judge is among the signers (`HonestJudge`); `OffendersExpelled`, inductive
  with the counters of keys that did not offend at zero.  Of Refinement, for any
  programs, packages and grants of gas: `InvocationsCompose` from `GuestsInv`,
  which says of every machine and its trail (`Sound`) that one machine run
  alone, with all the gas that was used, ends where this one is.  That rests on
  gas being seen by nothing but the test for its end, so that machines that
  differ only in gas take the same turns (`RunsAlike`), and on invocations adding
  up: a run that stops at a host call and one that goes on behind it are one run
  (`InvocationsAdd`).  `ExportsInPlace` from `ExportsInv`: the exports so far are
  as many as the items so far announced, whatever became of those items, and a
  segment that a program was told a place for is in that place, or among the
  segments of the item at work where that place will be.  The announced numbers
  are a fold in the code's order, unrolled by `Totals`.
- `ReportPipelineProofs`: all safety of the pipeline and its refinement of
  `PackageLifecycle`, from `PipelineInv`.  For `ReportedOnce` (part `RecentInv`):
  no recent block, and no anchor of a reported package, is later than the last
  block, and as long as the anchor of a reported package is in the recent
  history so is, after it, the block that reported the package.  Hence a package
  that timed out or was condemned cannot come back.  For `WaitsExactly`,
  `PackageOnce` and the order of accumulation: every queued item waits for at
  least what is not accumulated, cores, queue and past have no package in
  common, and what a recent block reported and was accumulated is still in the
  history, not further back than that block; what a report on a core needs
  stays there until the report times out (`NeedsHistoric`, where
  `HistoryIsLongEnough` is used).  Editing the queue, a round of priorities and
  the rounds together are lemmas about sequences of any length: the recursion
  of the priority queue is one over an index, so that its claims are proved for
  the least index at which they would fail.
- `AccumulationProofs`: `NextIsFree`, `PrivilegesByHolders`, `GasBounded` and
  `FundsNeverGrow`, for any number of services and any genesis.  They are about
  sums, so the module begins with a theory of sums over finite sets: that a sum
  is the value of a recursion, that any term may be taken first, that two of
  them may be exchanged.  Four invariants are inductive together.  `TypeInv`;
  `OrderInv`: no service has two outcomes in a round; `GasInv`: what the
  services of a round used and what those to come may use are at most the gas
  of the round, because the shares of free gas, transfers and work add up to no
  more; `MoneyInv`: a context gains no more than its service brought in, so
  that the merge, which takes each account from the outcome that changed it,
  gains at most the sum of all gains.  That sum is taken by outcome and by
  account, which is where two sums are exchanged.
- `SealsAndTargetProofs`, of Safrole: types, `SlotsHaveSealers`, `FairShare`, `BestTicketsKept`,
  `EntropySettled`, and the refinement of `HeaderFollower`, from `SafroleInv`:
  besides the checked properties, the ring is that of gammaP, accumulated
  tickets were proved in it over the contest's entropy and with an allowed
  attempt, and the marks of the headers say what the state holds.  The lemmas
  before it are about sorting by counting (`PositionOnto`, `SortedIsSorted`),
  about keeping the E lowest (`AccumulateKeepsBest`), that a full accumulator
  cannot take a ticket without losing one (`FullDisplaces`), so that what the
  winning-tickets mark announced stays true when later blocks bring none, and
  that the outside-in series is a permutation (`OutsideInIsPermutation`).
  Of the fuzzer's target: `AnswersAreRight`, and that the target stays alive,
  from `SessionInv`: both sides are at one of four points of one conversation,
  between two requests, with one on its way, with one being handled, or with an
  answer on its way; what has arrived and what is still in transit are the
  units of that one message; and the chain stands where the client last heard
  it to be.  However messages are cut, a whole one is handled once.
- `ServiceAccountProofs`: types, `Solvent` and `PreimageIsRequested`, from
  `AccountInv`: the account and both contexts are well typed, request what they
  hold and can pay for what they occupy.  No call needs the counters to be
  exact for that: setting a request anew leaves them as they were, deleting
  lowers them, and the threshold is monotone in both (`ThresholdIsMonotone`,
  `StillAfforded`); every other call is refused unless the outcome is afforded.
  `LookupIsTruthful` from `LookupInv`: in the account and in both contexts, what
  a request's times say of a past slot, if all three are read, agrees with what
  was seen then (`Was`), and what is found, or would be once a request of three
  times is forgotten, had been seen (`Found`); the property speaks of the state
  between blocks and two of the three times, and neither alone is inductive.
  `CountersExact` from `CountInv`: each operation changes the sums over storage
  and requests, by one term, as it changes the counters.  `EjectLosesNothing`
  from all three: the counters say that only one request is left, its second
  time is too long ago for a recent slot, and no other step takes an account
  away.
- `PvmStepProofs` and `PvmLockstepProofs`: all that `pvm` checks of the two
  interpreters, for every width of words, every program, every machine they may
  start from and every answer to a host call.  The first module is one turn of
  the TypeScript interpreter, from the arithmetic up.  Powers of two count
  subsets, which is where their laws come from; a sum by recursion is what the
  recursion says (`SumIs`), and digits make a number below their power
  (`ReadLEWidth`); so every decoder yields registers that exist and immediates
  that fit (`OperandsAre`), and every instruction computes the value of a
  register (`Reg64Width` and its like).  Pages an access touches are those of
  its bytes (`PagesTouched`), and the page a fault names is the first it may not
  use.  `ImmediateFormsAgree` compares the two computations, form by form
  (`SameImm32` and its like, where a word of four bytes must fit a JavaScript
  number).  The second module has the invariant, `BothInv`.  Both are machines;
  the second is sound: its registers fit, the heap ends with a page, and what
  its caches say of lengths and blocks is what a scan of the mask would say;
  and while both have done the same they have the same and the heap's pointer is
  inside the heap.  `WasmAgrees` is then one lemma about a turn (`StepsAgree`),
  taken apart as the turn is: both refuse the same, jumps land alike
  (`JumpsAgree`), loads and stores find the same page
  although one interpreter asks pages and the other bytes, stores write the
  same unless they begin again with bytes that differ (`WritesAgree`), and
  values are the same or their instruction is in `KnownDifference`.  `JumpsLandOnBlocks`
  follows from the caches being right.  `FaultIsResumable` and
  `StoresStayInside` speak of the first interpreter also when it goes on alone,
  after a difference, where its heap may outgrow the memory: they are proved for
  runs in which the heap's pointer fits a register (`HeapFits`), since `sbrk`
  adds to it without a test.  `WasmAgrees` is proved for programs not longer
  than half of the addresses (`ProgramIsShort`): in a longer one a jump to below
  zero comes out inside the code again where pointers are words, and nowhere
  where they are numbers.
  `SegmentsNeverMeet`, for every size of pages and zones
  and every head and argument: a blob that fits has a zone without access below,
  between and above its segments.  It rests on rounding to a multiple of the
  larger unit being no less than rounding to the smaller one, and assumes that
  the argument is not longer than the room kept for it, which the code does not
  test.

Assumptions, besides the types of the constants.  `TreeAssumption`: headers
form a tree, as hashes are injective.  `GenesisAssumption`: the states that
`Accumulation` begins with are well formed.  `SessionAssumption`: genesis can be
decoded, and every message has at least one unit.  `BooksAssumption`: a block
comes at least one slot after its parent, reports are sequences of at least one
digest, whose gas is a natural number and whose service is one there may be, as
are those preimages are for; and the recent history has room for one block.
`GrantsAssumption`, `PackagesAssumption`: gas is a natural number, and a package
is a sequence of items that announce natural numbers of segments.
`HonestJudges`: dishonest seats of a set are fewer than a verdict needs
judgements.  `HistoryIsLongEnough` as above.  In Safrole: epochs of even
length, distinct tickets have distinct identifiers, ring proofs are sound.
Signatures verify only for what their owner signed, everywhere.
`WidthsAssumption`: what the interpreters need of 32, 53 and 4096: that a
JavaScript number holds an address, that as many addresses as a word of four
bytes has are a multiple of its bits, and that an access does not reach round
the memory to the page it began on.  `FamiliesAssumption` and
`AnswersAssumption`: a program begins with an instruction, as `buildPVM` asserts,
its immediates are bytes, registers and answers fit, and a heap begins as
`programInitialization` lays it out.  `ProgramIsShort` and `HeapFits` are
hypotheses about the run, of the theorems that need them: code has at most
4000000 bytes (`SERVICECODE_MAX_SIZE`, tested before it is run), and a heap that
passes 2^64 would need pages nobody has.  The run `pvm` checks the properties
without them.

Only model-checked.  `Terminates` and `EveryRequestAnswered`, for liveness under
fairness is beyond the prover, as is ENABLED.  `StateReadsBack`, whose trie is
defined by RECURSIVE operators, and `Schemas`, whose codecs nest: a module that
reaches one cannot be proved about.  `ProgramsLoadWhole`, with all that `pvm`
checks of blobs and codecs.  That a program of any length comes to an end is not checked
either: gas bounds it by the guard of every step.  Induction over data is not
out of reach as such, although the library's theorems about it cannot be
used: a nonempty set of finite sets has a least member by the well-foundedness
of strict inclusion, which is stated without an operator parameter; the sums of
accumulation, of the counters and of the books, and the rounds of the queue, are
proved that way (`LeastElement`, `SubsetInduction`).

## Findings

- `account_doc`: the comment on the lookup's last case says that a preimage is
  available again from its third time; the condition beneath it, `l[0] <= t`,
  `l[1] > t` and `l[2] <= t`, holds for no `t`.
- `chain_forks`: the class comment of `impls/chain-manager.ts` says that as soon
  as one of several forks gets a new block the others are discarded
  (`chain-manager.ts:15`).  The code discards those of the extended block's slot
  (`chain-manager.ts:98`).  One for another slot stays, and a block that extends
  it later is accepted and takes back that the first was finalized.  What holds
  instead is `RivalsAreSettled`.

Other behaviours of the code are in the models, and properties are stated
around them.

- An import that went on with a parent which another one gave up between the
  database's answer and its use can extend a competitor of a block that is
  extended already.  `RivalsAreSettled` speaks of histories without one
  (`stale`).
- A block that cannot be decoded is answered with a state root of zero, or not
  at all: the test in `jam-fuzzer-target/src/cli.ts` looks at the first byte of
  the length.  `AnswersAreRight` speaks of decodable requests.
- `eject` accepts the calling service itself when its code hash names it, and
  then doubles its balance (`functions.ts:1378`).  A service may also create an account
  under the index of one that it has just ejected: then it has the balance, and
  the merge keeps the account ejected, since no outcome lacks it.  `FundsNeverGrow` excepts blocks in which either
  happened (`doubled`); the second case was found when the proof of
  `FundsNeverGrow` failed at it.
- `forget` deletes the preimage of a hash whatever length the request had
  (`functions.ts:1557`; the part `LookupFindsForgotten` of `LookupIsTruthful`
  excepts it).
- Transfers are credited in the state that all services of a round share
  (`invocations/accumulate.ts:73`), so that those accumulated later read the
  new balances of those accumulated earlier.
- A service of index 1 to 16 or 255 would read the chapters, or all accounts,
  as its own storage when a state is taken over from a map, and write them back
  as they were (`impls/jam-state-impl.ts:511`).  `StateReadsBack` is checked for
  an index that no such key begins with, which is what `new` gives to everybody but
  the registrar.
- A load that faults names page 0 whatever it touched, because the code takes a
  remainder for a quotient (`jam-pvm-js/src/instructions/instructions.ts`); so
  `FaultIsResumable` asks for the page of stores only in this interpreter.
  `sbrk` takes pages that are in use; `mul_imm_32` does not extend the sign;
  `store_imm_ind_u8`
  reduces its value modulo 255 in the first interpreter; a store over a page
  boundary writes the bytes that the value begins with again on the second page
  in the second interpreter, whose `writeAt` never moves on in its source
  (`jam-pvm-wasm/asm/pvm-memory.ts:122`).  The
  list is `KnownDifference`.
- A blob shorter than the four sizes at its head is an exception that nobody
  between `programInitialization` and the import of the block catches; any other
  cut is a panic (`BlobsReadWhole`).  A byte string at the very end of a record is
  read as a shorter one when it was cut, and only records refuse what is
  missing, so `ReadsBackAlone` asks for refusal where no byte string comes last.
  `PVMProgramCodec.encode`, used in tests only, writes the entries of the jump
  table in the variable encoding, which `decode` reads in the fixed one.
- The size test of a work report is inverted (`compute-work-report.ts:191`), so
  that outputs that fit are refused; and after a host call of an inner machine
  one is added to a pointer that has already moved (`functions.ts:905`).
- The history of headers keeps as many blocks as the protocol allows slots, so
  that it is longer than it need be when slots are skipped.  The rotation before
  the first has a negative number, which does no harm.  When the pool of a core
  lacks the authorization that a report used, removing it doubles the pool
  (`impls/authorizer-pool-impl.ts:78`); the check of the guarantee keeps this
  out.

## Not modelled

Encodings, hashing and signatures appear as what they guarantee (injectivity,
unforgeability), and erasure coding as the exception it throws.  Of the codec,
the integers, bits and combinators are modelled, not the JSON forms nor the
classes whose decorators only collect fields.  Not modelled at all are the native libraries, the messages of the network, the
building of headers (`buildNext`), the generation of blocks by the fuzzer and
its trace files, and `merklization/binary.ts`, whose trees are hashing over
encodings; of refinement only its limits and their failures depend on lengths.
Most machines of `pvm` are given an image of memory, and four blobs the image
of their layout.  Invoking a machine with a negative amount of gas,
which the registers could say, is left out.

## Plan

Done: `ChainManager` with `ForkHistory`, `Disputes`, `ReportPipeline` over
`PackageLifecycle`, `Safrole` over `HeaderFollower`, `FuzzerTarget` over
`ChainManager`, `ServiceAccount`, `Accumulation`, `Bookkeeping` with
`Assignments` and `MountainRange`, `StateMap`, the two interpreters in
`PvmLockstep`, `PvmLoading` over `Codec`, `Schemas`, and `Refinement` over one
of the interpreters.  Left:

1. An abstract preimage life (requested, available, unavailable) that
   `ServiceAccount` implements, and the atomic accumulation of `ReportPipeline`
   as an abstraction of `Accumulation`'s prefixes.
2. A refinement that starts from blobs, with `PvmLoading` in `Refinement`.
