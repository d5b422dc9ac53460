----------------------------- MODULE Refinement -----------------------------
(***************************************************************************)
(* The computation of a work report off the chain: computeWorkReport asks  *)
(* the authorizer, refines the items of the package one after the other    *)
(* and lines up the segments they export.  A refinement is a program whose *)
(* host calls fill a context: the segments exported so far, and the inner  *)
(* machines it has started.  Inner machines are machines of PvmJs, the     *)
(* interpreter they run under.                                             *)
(*                                                                         *)
(* The program of an item may make the host calls its record names, in any *)
(* order and with any arguments, and end in any way.  Its own memory is    *)
(* not modelled, nor its registers, but for w7, which holds the answer of  *)
(* the last host call, and for the registers it gives to inner machines:   *)
(* those it was handed after the last invocation, or new ones.  A host     *)
(* call costs 10 gas, counted here as one unit; the program's own          *)
(* instructions may use up what is left at any time.                       *)
(***************************************************************************)
EXTENDS PvmJs, SequencesExt

CONSTANTS
  Packages,    \* work packages: [auth, items], see PackagesAssumption
  AuthLengths, \* how long the authorizer's output may be
  Lengths,     \* how long the result of an item may be
  MaxOutput,   \* MAX_WORKREPORT_OUTPUT_SIZE
  MaxExports,  \* MAX_EXPORTED_ITEMS
  Contents,    \* what a segment may contain
  Zero,        \* the segment of zeros
  Codes,       \* the programs an item may start a machine with
  StartPcs,    \* where it may start them
  Inputs,      \* registers it may give them
  Grants,      \* gas it may give them
  Probes,      \* addresses and lengths it may look at or write: <<address, length>>
  MaxGuests    \* bound: machines at a time

CallNames == {"gas", "fetch", "lookup", "export", "machine", "peek", "poke", "pages",
              "invoke", "expunge", "other"}

Tasks ==
  [code : {"good", "unstartable", "broken", "missing", "oversized"},
   exportCount : Nat, limit : Nat, imports : {"none", "byRoot", "byPackage"},
   extrinsics : BOOLEAN, calls : SUBSET CallNames]

ASSUME PackagesAssumption ==
  \A p \in Packages :
    p.auth \in {"good", "missing", "empty", "oversized"} /\ p.items \in Seq(Tasks)

ASSUME GrantsAssumption == Grants \subseteq Nat

VARIABLES
  package,     \* the package
  stage,       \* where computeWorkReport is
  authLength,  \* the length of the authorizer's output
  gas,         \* host calls the program of the item can still pay
  answer,      \* w7 of that program
  segments,    \* the segments of its context
  guests,      \* its inner machines: [prog, pc, ram]
  digests,     \* the digests of the items refined
  exports,     \* overline_e
  told,        \* ghost: what export answered, [item, index, content]
  trails       \* ghost: for each inner machine the state its trail began in, with
               \* all the gas granted since, the registers it handed back, and
               \* whether the next invocation begins a new trail

context == <<segments, guests, trails>>
refineVars == <<package, stage, authLength, gas, answer, segments, guests, digests, exports,
                told, trails>>

Items == package.items
item == Len(digests) + 1           \* the item being refined
Empty == [n \in {} |-> 0]
Nothing == <<"nothing">>

RefineInit ==
  /\ package \in Packages
  /\ stage = "authorize"
  /\ authLength = 0
  /\ gas = 0
  /\ answer = Nothing
  /\ segments = <<>> /\ guests = Empty /\ trails = Empty
  /\ digests = <<>>
  /\ exports = <<>>
  /\ told = {}

-----------------------------------------------------------------------------
(* Between the items.                                                      *)

\* L_fn: nobody looks up the segment roots of packages, the dictionary is empty.
RootsKnown == \A i \in DOMAIN Items : Items[i].imports # "byPackage"

(* isAuthorized and what follows it.  Code that is not there is an         *)
(* exception; an error, or an output that is too long, fails the report.   *)
Authorize ==
  /\ stage = "authorize"
  /\ \/ package.auth = "missing" /\ stage' = "thrown" /\ UNCHANGED authLength
     \/ package.auth # "missing" /\ stage' = "failed" /\ UNCHANGED authLength
     \/ /\ package.auth = "good"
        /\ authLength' \in {n \in AuthLengths : n <= MaxOutput}
        /\ stage' = IF RootsKnown THEN "between" ELSE "thrown"
  /\ UNCHANGED <<package, gas, answer, digests, exports, told, context>>

Ok(length) == [why |-> "ok", length |-> length]
Error(why) == [why |-> why, length |-> 0]

OffsetOf(i) == FoldLeft(LAMBDA sum, it : sum + it.exportCount, 0, SubSeq(Items, 1, i - 1))
ResultsLength == FoldLeft(LAMBDA sum, d : sum + d.length, 0, digests)
Zeros == [n \in 1..Items[item].exportCount |-> Zero]

(* I_fn and buildDigest, once the program of the item has returned res and *)
(* the segments out, with gasLeft.  The size test counts the segments.     *)
UncheckedOutcome(res, out) ==
  IF Len(out) + authLength + ResultsLength < MaxOutput THEN [res |-> Error("big"), out |-> Zeros]
  ELSE IF res.why # "ok" THEN [res |-> res, out |-> Zeros]
  ELSE [res |-> res, out |-> out]
Outcome(res, out) ==
  IF Len(out) + authLength + ResultsLength < MaxOutput THEN [res |-> Error("big"), out |-> Zeros]
  ELSE IF Len(out) # Items[item].exportCount THEN [res |-> Error("badExports"), out |-> Zeros]
  ELSE IF res.why # "ok" THEN [res |-> res, out |-> Zeros]
  ELSE [res |-> res, out |-> out]

EndWith(res, out, used) ==
  LET done == Outcome(res, out)
  IN  /\ digests' = Append(digests, [why |-> done.res.why, length |-> done.res.length,
                                     used |-> used])
      /\ exports' = exports \o done.out
      /\ stage' = "between"
      /\ gas' = 0 /\ answer' = Nothing
      /\ segments' = <<>> /\ guests' = Empty /\ trails' = Empty
      /\ UNCHANGED <<package, authLength, told>>

(* refineInvocation up to the first instruction.  A program that cannot be *)
(* taken apart is a panic, one whose first instruction is unknown fails an *)
(* assertion of buildPVM.                                                  *)
StartItem ==
  /\ stage = "between" /\ item <= Len(Items)
  /\ LET it == Items[item]
     IN  \/ it.code = "missing" /\ EndWith(Error("bad"), <<>>, 0)
         \/ it.code = "oversized" /\ EndWith(Error("big"), <<>>, 0)
         \/ it.code = "broken" /\ EndWith(Error("panic"), <<>>, 0)
         \/ /\ it.code \in {"good", "unstartable"}
            /\ stage' = IF it.code = "good" THEN "running" ELSE "thrown"
            /\ gas' = it.limit
            /\ UNCHANGED <<package, authLength, answer, digests, exports, told, context>>

(* Once every item has its digest the package is encoded, with the original*)
(* blobs of the extrinsics and the paths of the imports, and the segments  *)
(* are erasure coded.                                                      *)
Throw(why) ==
  /\ stage' = why
  /\ UNCHANGED <<package, authLength, gas, answer, digests, exports, told, context>>

Assemble ==
  /\ stage = "between" /\ item > Len(Items)
  /\ Throw(IF \E i \in DOMAIN Items : Items[i].extrinsics \/ Items[i].imports # "none"
           THEN "thrown" ELSE "encoding")

\* erasureCoding is not implemented.
Encode == stage = "encoding" /\ Throw("thrown")

-----------------------------------------------------------------------------
(* The end of the program of an item, R_fn and refineInvocation: a panic   *)
(* and the end of the gas lose the segments.                               *)

Left == IF gas > 0 THEN gas ELSE 0
Used == Items[item].limit - Left
Return == \E n \in Lengths : EndWith(Ok(n), segments, Used)
Panics == EndWith(Error("panic"), <<>>, Used)
RunsDry == EndWith(Error("outOfGas"), <<>>, Items[item].limit)

End == stage = "running" /\ (Return \/ Panics \/ RunsDry)

-----------------------------------------------------------------------------
(* Host calls.  Each is paid before it runs; when the gas does not do, the *)
(* program ends.                                                           *)

Calls(name) == stage = "running" /\ name \in Items[item].calls
Pay == gas > 0 /\ gas' = gas - 1

\* What a call leaves alone when it only answers, and when it changes the context.
Answers(value) ==
  /\ Pay /\ answer' = value
  /\ UNCHANGED <<package, stage, authLength, digests, exports, told, context>>
Changes == UNCHANGED <<package, stage, authLength, digests, exports>>

TooPoor == stage = "running" /\ gas = 0 /\ Items[item].calls # {} /\ RunsDry

\* The memory the call names is not the program's to read or write.
BadArguments ==
  /\ stage = "running" /\ gas > 0
  /\ Items[item].calls \ {"gas", "pages", "expunge", "other"} # {}
  /\ EndWith(Error("panic"), <<>>, Used + 1)

Gas == Calls("gas") /\ Answers(<<"gas", gas - 1>>)

(* fetch, of one of 16 kinds: first the blobs of all extrinsics are        *)
(* gathered.  No kind finds an import or an extrinsic.                     *)
Found(kind, index) ==
  \/ kind \in {0, 1, 2} \cup 7..11
  \/ kind \in {12, 13} /\ index < Len(Items)

Fetch ==
  /\ Calls("fetch")
  /\ \/ (\E i \in DOMAIN Items : Items[i].extrinsics) /\ Throw("thrown")
     \/ /\ \A i \in DOMAIN Items : ~Items[i].extrinsics
        /\ \E kind \in 0..15, index \in 0..Len(Items) :
             Answers(IF Found(kind, index) THEN <<"length", kind>> ELSE <<"NONE">>)

Lookup == Calls("lookup") /\ (Answers(<<"NONE">>) \/ Answers(<<"length">>))

Export ==
  /\ Calls("export")
  /\ LET index == OffsetOf(item) + Len(segments)
     IN  IF index >= MaxExports THEN Answers(<<"FULL">>)
         ELSE \E content \in Contents :
                /\ Pay
                /\ answer' = <<"index", index>>
                /\ segments' = Append(segments, content)
                /\ told' = told \cup {[item |-> item, index |-> index, content |-> content]}
                /\ Changes /\ UNCHANGED <<guests, trails>>

\* log asserts that its arguments are addresses; then, as for a call that
\* does not exist, the program pays and is told so.
Other == Calls("other") /\ (Answers(<<"WHAT">>) \/ Throw("thrown"))

-----------------------------------------------------------------------------
(* Inner machines.                                                         *)

NewRam == [acl |-> [p \in Pages |-> "none"], mem |-> [a \in Addresses |-> 0],
           heap |-> [end |-> 0, pointer |-> 0]]
NoRegisters == [r \in 0..NRegs - 1 |-> 0]

\* The machine a guest is when it runs with the registers w and gas.
Machine(g, w, g8) ==
  [pc |-> g.pc, gas |-> g8, w |-> w, acl |-> g.ram.acl, mem |-> g.ram.mem,
   heap |-> g.ram.heap, exit |-> Running]
RamOf(m) == [acl |-> m.acl, mem |-> m.mem, heap |-> m.heap]

FreeIndex == CHOOSE n \in 0..Cardinality(DOMAIN guests) :
                n \notin DOMAIN guests /\ \A k \in 0..n - 1 : k \in DOMAIN guests

SetGuest(n, g, trail) ==
  /\ guests' = [k \in DOMAIN guests \cup {n} |-> IF k = n THEN g ELSE guests[k]]
  /\ trails' = [k \in DOMAIN guests \cup {n} |-> IF k = n THEN trail ELSE trails[k]]

StartMachine ==
  /\ Calls("machine")
  /\ \/ Answers(<<"HUH">>)                 \* not the encoding of a program
     \/ /\ Cardinality(DOMAIN guests) < MaxGuests
        /\ \E prog \in Codes, pc \in StartPcs :
             LET g == [prog |-> prog, pc |-> pc, ram |-> NewRam]
             IN  SetGuest(FreeIndex, g, [start |-> Machine(g, NoRegisters, 0),
                                         w |-> NoRegisters, over |-> TRUE])
        /\ Pay /\ answer' = <<"machine", FreeIndex>>
        /\ Changes /\ UNCHANGED <<told, segments>>

Someone == 0..MaxGuests                    \* a machine a call may name
Unknown(n) == n \notin DOMAIN guests

Peek ==
  /\ Calls("peek")
  /\ \E n \in Someone, p \in Probes :
       Answers(IF Unknown(n) THEN <<"WHO">>
               ELSE IF ~CanRead(guests[n].ram.acl, p[1], p[2]) THEN <<"OOB">> ELSE <<"OK">>)

\* poke and pages write to a clone of the memory, which cannot be made.
Poke ==
  /\ Calls("poke")
  /\ \E n \in Someone, p \in Probes :
       IF Unknown(n) THEN Answers(<<"WHO">>)
       ELSE IF ~CanWrite(guests[n].ram.acl, p[1], p[2]) THEN Answers(<<"OOB">>)
       ELSE gas > 0 /\ Throw("thrown")

ChangePages ==
  /\ Calls("pages")
  /\ \E n \in Someone :
       IF Unknown(n) THEN Answers(<<"WHO">>) ELSE gas > 0 /\ Throw("thrown")

(* run() of a machine, until it exits: every turn but the last costs gas.  *)
RunToExit(prog, m) ==
  LET cache == IxPointerCache(prog)
      turns[n \in 0..m.gas + 1] ==
        IF n = 0 THEN m
        ELSE IF turns[n - 1].exit = Running THEN SingleStep(turns[n - 1], prog, cache)
        ELSE turns[n - 1]
  IN  turns[m.gas + 1]

\* buildPVM asserts that the first byte is an instruction it knows.
Startable(prog) == prog.k[0] = 1 /\ DecoderOf(prog.c[0]) # "unknown"

\* Where the guest goes on: after a host call one byte further.
ForgetfulNextPc(g, done) == IF done.exit.why = "outOfGas" THEN g.pc ELSE done.pc
NextPc(g, done) == IF done.exit.why = "hostCall" THEN done.pc + 1 ELSE done.pc

Trail(n, w, grant, done) ==
  LET t == trails[n]
      fresh == t.over \/ w # t.w
  IN  [start |-> IF fresh THEN Machine(guests[n], w, grant)
                 ELSE [t.start EXCEPT !.gas = @ + grant],
       w |-> done.w, over |-> done.exit.why # "outOfGas"]

Invoke ==
  /\ Calls("invoke")
  /\ \E n \in Someone :
       \/ Unknown(n) /\ Answers(<<"WHO">>)
       \/ /\ n \in DOMAIN guests /\ gas > 0
          /\ \E grant \in Grants, w \in Inputs \cup {trails[n].w} :
               LET g == guests[n]
                   done == RunToExit(g.prog, Machine(g, w, grant))
               IN  IF ~Startable(g.prog) \/ done.exit.why = "crash" THEN Throw("thrown")
                   ELSE /\ Pay /\ answer' = <<"exit", done.exit.why, done.exit.what>>
                        /\ SetGuest(n, [g EXCEPT !.pc = NextPc(g, done), !.ram = RamOf(done)],
                                    Trail(n, w, grant, done))
                        /\ Changes /\ UNCHANGED <<told, segments>>

Expunge ==
  /\ Calls("expunge")
  /\ \E n \in Someone :
       \/ Unknown(n) /\ Answers(<<"WHO">>)
       \/ /\ n \in DOMAIN guests
          /\ Pay /\ answer' = <<"pc", guests[n].pc>>
          /\ guests' = [k \in DOMAIN guests \ {n} |-> guests[k]]
          /\ trails' = [k \in DOMAIN guests \ {n} |-> trails[k]]
          /\ Changes /\ UNCHANGED <<told, segments>>

RefineNext ==
  \/ Authorize \/ StartItem \/ End \/ Assemble \/ Encode
  \/ TooPoor \/ BadArguments
  \/ Gas \/ Fetch \/ Lookup \/ Export \/ Other
  \/ StartMachine \/ Peek \/ Poke \/ ChangePages \/ Invoke \/ Expunge

Refining == RefineInit /\ [][RefineNext]_refineVars

-----------------------------------------------------------------------------
(* Properties.                                                             *)

(* A program that exports is told the index its segment will have among    *)
(* all segments of the package, before the items that come earlier are     *)
(* known to have succeeded.  Whatever becomes of them, of their exports    *)
(* and of the limit on all exports, a segment whose item succeeds stands   *)
(* where its program was told (compute-work-report.ts:177-226 against      *)
(* functions.ts:627-641).                                                  *)
ExportsInPlace ==
  /\ Len(exports) = OffsetOf(item)
  /\ \A t \in told :
       t.item < item /\ digests[t.item].why = "ok" => exports[t.index + 1] = t.content

(* An inner machine that runs out of gas and is invoked again with the     *)
(* registers it handed back does what one invocation with all the gas      *)
(* would have done: its pointer, its memory, its heap and its registers    *)
(* travel through the context and the program's memory without loss        *)
(* (functions.ts:833-943).                                                 *)
InvocationsCompose ==
  \A n \in DOMAIN guests :
    LET g == guests[n]
        alone == RunToExit(g.prog, trails[n].start)
    IN  /\ g.pc = IF alone.exit.why = "hostCall" THEN alone.pc + 1 ELSE alone.pc
        /\ g.ram = RamOf(alone)
        /\ trails[n].w = alone.w
=============================================================================
