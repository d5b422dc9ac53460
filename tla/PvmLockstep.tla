---------------------------- MODULE PvmLockstep ----------------------------
(***************************************************************************)
(* A program run by the two interpreters of the repository side by side,   *)
(* each starting from the same machine: PvmJs, which the node uses, and    *)
(* PvmWasm, the exploration that is to replace it.  The module also has    *)
(* what calls an interpreter: hostCallInvocation, which answers host calls *)
(* and goes on, the host call "invoke", whose caller repairs a page fault  *)
(* and runs the machine again, and argumentInvocation, which turns the     *)
(* last exit into a result.                                                *)
(***************************************************************************)
EXTENDS PvmWasm

CONSTANTS
    Families,       \* the initial machines, as records of sets: a family has every
                    \* combination of its programs, registers, images, pcs and gas
    Answers,        \* what a host call may leave in a register
    MaxResumes      \* bound: host calls answered and faults repaired in a run

-----------------------------------------------------------------------------
\* Where the bytes of the immediates begin, after those that name registers and lengths.
FirstImmediate(decoder) ==
    CASE decoder \in {"imm", "offset"} -> 1
      [] decoder \in {"twoRegTwoImm", "threeReg"} -> 3
      [] OTHER -> 2

\* A program as buildPVM accepts it: the first position holds an instruction.
IsProgram(p) ==
    /\ p.len \in 1..Pow(4) - 1
    /\ p.c \in [0..p.len - 1 -> Nat]
    /\ p.k \in [0..p.len - 1 -> {0, 1}]
    /\ p.k[0] = 1
    /\ p.j \in Seq(Nat)
    /\ \A pc \in 0..p.len - 1 :
          DecoderOf(p.c[pc]) \notin {"none", "unknown"} =>
            \A i \in pc + FirstImmediate(DecoderOf(p.c[pc]))..NextOpcode(p, pc) - 1 : p.c[i] \in Byte

\* The memory a machine starts with: a heap that ends with a page, and is not beyond it.
IsImage(i) ==
    /\ i.acl \in [Pages -> {"none", "read", "write"}]
    /\ i.mem \in [Addresses -> Byte]
    /\ i.heap \in [end : 0..Pow(4), pointer : Addresses]
    /\ i.heap.end % Zp = 0
    /\ i.heap.pointer <= i.heap.end

\* An address is an exact JavaScript number, the width of a word of 4 bytes
\* divides how many of them there are, and no access reaches around the memory
\* to the page it began on: 32 and 53, 2 ** 32 and 4096 in the code.
ASSUME WidthsAssumption ==
    /\ Bits32 <= FloatBits
    /\ Pow(4) % Bits32 = 0
    /\ Zp + 8 <= Pow(4)

ASSUME FamiliesAssumption ==
    \A f \in Families :
        /\ \A p \in f.programs : IsProgram(p)
        /\ f.registers \subseteq [0..NRegs - 1 -> Register]
        /\ \A i \in f.images : IsImage(i)
        /\ f.pcs \subseteq Nat
        /\ f.gas \subseteq Nat

ASSUME AnswersAssumption == Answers \subseteq Register

VARIABLES
    prog,           \* the program
    js,             \* the machine of the TypeScript interpreter
    wasm,           \* the machine of the AssemblyScript interpreter
    together,       \* both have done the same so far
    resumes,        \* how often the run was resumed
    result          \* what argumentInvocation returned: [why, gasUsed, limit]

lockstepVars == <<prog, js, wasm, together, resumes, result>>

\* The fields both machines have.
Common(m) == [pc |-> m.pc, gas |-> m.gas, w |-> m.w, acl |-> m.acl, mem |-> m.mem,
              heap |-> m.heap, exit |-> m.exit]

WasmMachine(m, p) ==
    [pc |-> m.pc, gas |-> m.gas, w |-> m.w, acl |-> m.acl, mem |-> m.mem,
     heap |-> m.heap, exit |-> m.exit, hostCall |-> 0,
     skips |-> [i \in 0..p.len - 1 |-> 0],
     blockBeginnings |-> [i \in 0..p.len - 1 |-> IF i = 0 THEN 1 ELSE 0]]

LockstepInit ==
    /\ \E f \in Families : \E p \in f.programs, w \in f.registers, i \in f.images, pc \in f.pcs, gas \in f.gas :
          LET m == [pc |-> pc, gas |-> gas, w |-> w, acl |-> i.acl, mem |-> i.mem,
                    heap |-> i.heap, exit |-> Running]
          IN  /\ prog = p
              /\ js = m
              /\ wasm = WasmMachine(m, p)
              /\ result = [why |-> "none", gasUsed |-> 0, limit |-> gas]
    /\ together = TRUE
    /\ resumes = 0

-----------------------------------------------------------------------------

\* One instruction.  Once the two differ only the TypeScript machine goes on.
Turn ==
    /\ js.exit = Running
    /\ result.why = "none"
    /\ js' = SingleStep(js, prog, IxPointerCache(prog))
    /\ wasm' = IF together THEN WasmStep(wasm, prog) ELSE wasm
    /\ together' = (together /\ Common(js') = Common(wasm'))
    /\ UNCHANGED <<prog, resumes, result>>

\* hostCallInvocation: the handler may change registers and take gas; the
\* pointer is the one the interpreter left.
AnswerHostCall ==
    /\ js.exit.why = "hostCall"
    /\ result.why = "none"
    /\ resumes < MaxResumes
    /\ \E v \in Answers, cost \in {0, 1} :
          js' = [js EXCEPT !.w[0] = v, !.gas = @ - cost, !.exit = Running]
    /\ resumes' = resumes + 1
    /\ UNCHANGED <<prog, wasm, together, result>>

\* A handler that ends the run itself.
EndInHostCall ==
    /\ js.exit.why = "hostCall"
    /\ result.why = "none"
    /\ \E why \in {"panic", "outOfGas"} : js' = [js EXCEPT !.exit = Exit(why, 0)]
    /\ UNCHANGED <<prog, wasm, together, resumes, result>>

\* The caller of "invoke" makes the faulting page writable and invokes again.
RepairAndResume ==
    /\ js.exit.why = "pageFault"
    /\ result.why = "none"
    /\ resumes < MaxResumes
    /\ LET page == js.exit.what \div Zp
           Repaired(m) == [m EXCEPT !.acl = [p \in Pages |-> IF p = page THEN "write" ELSE @[p]],
                                     !.exit = Running]
       IN  /\ js' = Repaired(js)
           /\ wasm' = IF together THEN Repaired(wasm) ELSE wasm
    /\ resumes' = resumes + 1
    /\ UNCHANGED <<prog, together, result>>

\* R_fn: the gas used counts a negative rest as nothing.
Finish ==
    /\ js.exit.why \in {"halt", "panic", "outOfGas", "pageFault"}
    /\ result.why = "none"
    /\ result' = [result EXCEPT
                    !.why = IF js.exit.why = "pageFault" THEN "panic" ELSE js.exit.why,
                    !.gasUsed = @ + result.limit - (IF js.gas > 0 THEN js.gas ELSE 0)]
    /\ UNCHANGED <<prog, js, wasm, together, resumes>>

LockstepNext == Turn \/ AnswerHostCall \/ EndInHostCall \/ RepairAndResume \/ Finish

Lockstep == LockstepInit /\ [][LockstepNext]_lockstepVars

-----------------------------------------------------------------------------
Instruction(m) == [op |-> prog.c[m.pc], args |-> ArgsAt(prog, m.pc, NextOpcode(prog, m.pc) - m.pc)]

\* The first address that a load or a store touches.
AddressOf(m) ==
    LET op == Instruction(m).op
        o == Operands(DecoderOf(op), Instruction(m).args)
        base == CASE op \in 70..73 -> m.w[o.rA]
                  [] op \in 120..130 -> m.w[o.rB]
                  [] OTHER -> 0
    IN  (base + o.vX) % Pow(4)

\* store_imm with an address that the TypeScript interpreter does not reduce.
TooFar(m) ==
    /\ Instruction(m).op \in 30..33
    /\ Operands("twoImm", Instruction(m).args).vX >= Pow(4)

\* What a store has to write.
StoredValue(op, m, o) ==
    (IF op \in (30..33) \cup (70..73) THEN o.vY ELSE m.w[o.rA]) % Pow(BytesMoved(op))

\* A store over a page boundary of a value whose bytes behind the boundary are
\* not those it begins with: the second interpreter writes the latter.
StoresFirstBytesAgain(op, m, o) ==
    /\ op \in Stores
    /\ \E i \in 0..BytesMoved(op) - 1 :
          ByteOf(StoredValue(op, m, o), SourceIndex(AddressOf(m), i)) # ByteOf(StoredValue(op, m, o), i)

(* Where the two interpreters are known to differ, at an instruction that  *)
(* the machine m is about to execute and leaves as w2 in PvmWasm.          *)

KnownDifference(m, w2) ==
    LET op == prog.c[m.pc]
        decoder == DecoderOf(op)
        skip == NextOpcode(prog, m.pc) - m.pc
        args == ArgsAt(prog, m.pc, skip)
        o == Operands(decoder, args)
        a == m.w[o.rA]
        b == m.w[o.rB]
    IN  \/ prog.k[m.pc] = 0                     \* executed by the second only
        \/ op = 10                              \* the second does not return
        \/ op = 1 /\ args # <<>>                \* the first goes on inside the arguments
        \/ Undecodable(decoder, args) \/ NotDecodable(decoder, args)
        \/ Crashes(decoder, args)
        \/ w2.exit = Abort                      \* a jump beyond the end of the code
        \/ op \in Loads /\ w2.exit.why = "pageFault"
        \/ TooFar(m)
        \/ w2.exit = Running /\ StoresFirstBytesAgain(op, m, o)
        \/ op = 70                              \* modulo 255 and not 256
        \/ op = 101 /\ Sbrk(m, a).heap.end >= Pow(4)  \* the heap passes the last address
        \/ op = 145                             \* no sign extension
        \/ op = 174 /\ (a >= 2^FloatBits \/ b >= 2^FloatBits)
        \/ op = 193 /\ (a >= Pow(4) \div 2 \/ b >= Pow(4) \div 2)
        \/ op = 196 /\ Z(4, a % Pow(4)) = -(Pow(4) \div 2)
        \/ op = 206 /\ Z(8, a) = -(Pow(8) \div 2)
        \/ op \in {213, 215} /\ (Z(8, a) < 0 \/ Z(8, b) < 0)

(***************************************************************************)
(* Started from the same machine the two interpreters do the same at every *)
(* instruction: same registers, memory, heap, gas, pointer and exit,       *)
(* except at the instructions of KnownDifference.                          *)
(***************************************************************************)
WasmAgrees ==
    [][together /\ js.exit = Running /\ ~together' => KnownDifference(js, wasm')]_lockstepVars

(***************************************************************************)
(* A jump lands on the beginning of a basic block, in both interpreters:   *)
(* whatever the offset, register or jump table says, the pointer is the    *)
(* position of an instruction a block begins with, or the run has ended.   *)
(* One of them builds its table of blocks ahead, the other on demand; the  *)
(* property compares both with what a block is by definition.              *)
(***************************************************************************)
JumpsLandOnBlocks ==
    [][/\ js'.pc \notin {js.pc, js.pc + 1, NextOpcode(prog, js.pc)}
            => js'.pc \in BlockStarts(prog)
       /\ wasm'.pc \notin {wasm.pc, NextOpcode(prog, wasm.pc)}
            => wasm'.pc \in BlockStarts(prog)]_lockstepVars

\* m2 is m after an attempt that cost one gas.
Untouched(m, m2) ==
    /\ m2.gas = m.gas - 1
    /\ <<m2.pc, m2.w, m2.mem, m2.acl, m2.heap>> = <<m.pc, m.w, m.mem, m.acl, m.heap>>

\* The fault of m2 names a page that the instruction of m touches and may not use.
NamesItsPage(m, m2) ==
    LET op == Instruction(m).op
        address == AddressOf(m)
        needed == IF op \in Loads THEN {"read", "write"} ELSE {"write"}
    IN  \E i \in 0..BytesMoved(op) - 1 :
            LET page == ((address + i) % Pow(4)) \div Zp
            IN  page * Zp = m2.exit.what /\ m.acl[page] \notin needed

(***************************************************************************)
(* After a page fault the instruction can be executed again: the fault has *)
(* cost one gas and changed neither registers nor memory nor the pointer.  *)
(* A store names a page it touches and cannot write, so that who makes the *)
(* page writable gets further at the next attempt; a load names its page   *)
(* in the second interpreter only (the first takes a remainder, which is   *)
(* always zero), and so does store_imm to the upper half of the memory.    *)
(***************************************************************************)
FaultIsResumable ==
    [][/\ js.exit = Running /\ js'.exit.why = "pageFault" =>
            /\ Untouched(js, js')
            /\ Instruction(js).op \in Stores => NamesItsPage(js, js') \/ TooFar(js)
       /\ wasm.exit = Running /\ wasm'.exit.why = "pageFault" =>
            Untouched(wasm, wasm') /\ NamesItsPage(wasm, wasm')]_lockstepVars

(***************************************************************************)
(* Memory changes only where a store may write: a byte that changes is one *)
(* of the bytes the instruction addresses and on a writable page, or on a  *)
(* page the heap has just taken.  sbrk does not look at what it takes: a   *)
(* page that was in use is lost when the heap reaches it, and only then.   *)
(***************************************************************************)
StoresStayInside ==
    [][\A x \in Addresses :
          js'.mem[x] # js.mem[x] =>
            LET op == Instruction(js).op
            IN  \/ /\ op \in Stores
                   /\ (x - AddressOf(js)) % Pow(4) < BytesMoved(op)
                   /\ js.acl[x \div Zp] = "write"
                \/ /\ op = 101
                   /\ x \in js.heap.end..js'.heap.end - 1]_lockstepVars

(***************************************************************************)
(* An instruction with an immediate computes what its form with three      *)
(* registers computes when the second register holds the immediate, so     *)
(* that a compiler may choose either.  mul_imm_32 is the exception of the  *)
(* code: it does not extend the sign of its result.                        *)
(***************************************************************************)
RegisterForm ==
    [op \in (131..134) \cup (136..140) \cup (149..153) \cup {158, 160} |->
        CASE op = 131 -> 190 [] op = 132 -> 210 [] op = 133 -> 211 [] op = 134 -> 212
          [] op = 136 -> 216 [] op = 137 -> 217 [] op = 138 -> 197 [] op = 139 -> 198
          [] op = 140 -> 199 [] op = 149 -> 200 [] op = 150 -> 202 [] op = 151 -> 207
          [] op = 152 -> 208 [] op = 153 -> 209 [] op = 158 -> 222 [] op = 160 -> 223]

\* What the instruction with three registers computes, of any group.
ThreeRegisterValue(op, a, b) ==
    CASE op \in 190..199 -> Reg32Value(op, a, b)
      [] op \in 200..215 -> Reg64Value(op, a, b)
      [] op \in 216..230 -> RegLogicValue(op, a, b, 0)

ImmediateFormsAgree ==
    [][js.exit = Running /\ js'.exit = Running /\ prog.c[js.pc] \in DOMAIN RegisterForm =>
          LET o == Operands("twoRegImm", Instruction(js).args)
          IN  js'.w[o.rA] = ThreeRegisterValue(RegisterForm[prog.c[js.pc]], js.w[o.rB], o.vX)]_lockstepVars
=============================================================================
