------------------------------- MODULE PvmJs --------------------------------
(***************************************************************************)
(* The TypeScript interpreter, jam-pvm-js: one turn of the loop of run()   *)
(* as an operator from a machine to a machine.                             *)
(*                                                                         *)
(* A machine is a record [pc, gas, w, acl, mem, heap, exit]; exit says how *)
(* the last run ended: [why, what], where why is "running" while it has    *)
(* not.  "crash" is an exception that run() does not catch.                *)
(***************************************************************************)
EXTENDS PvmProgram

Exit(why, what) == [why |-> why, what |-> what]
Running == Exit("running", 0)
Panic == Exit("panic", 0)
Leave(m, exit) == [m EXCEPT !.exit = exit]

-----------------------------------------------------------------------------
(* The constructor: skips and block beginnings of every opcode position.   *)

IxPointerCache(prog) ==
    LET opcodes == {i \in 0..prog.len - 1 : prog.k[i] = 1}
        \* the loop visits the opcodes in order and remembers the last one
        terminated[i \in 0..prog.len - 1] ==
            IF i = 0 THEN TRUE
            ELSE LET last == CHOOSE p \in 0..i - 1 :
                                (p = 0 \/ prog.k[p] = 1) /\ \A q \in p + 1..i - 1 : prog.k[q] = 0
                 IN  prog.c[last] \in BlockTerminators
    IN  [i \in opcodes |->
            [opCode |-> prog.c[i],
             skip |-> NextOpcode(prog, i) - i - 1,
             isBlockBeginning |-> terminated[i]]]

IsBlockBeginning(cache, pointer) ==
    pointer \in DOMAIN cache /\ cache[pointer].isBlockBeginning

-----------------------------------------------------------------------------
(* decoders.ts.  Undecodable: an assertion of the decoder fails, which the *)
(* loop catches.  Crashes: register numbers read from no byte are NaN, and *)
(* the evaluation of the instruction throws.                               *)

Undecodable(decoder, args) ==
    CASE decoder = "imm" -> Varint(Sub(args, 0, Room(args, 0))) > Pow(1) - 1
      [] decoder \in {"regExt", "regImm", "twoReg"} -> args = <<>>
      [] decoder = "twoImm" ->
            \/ args = <<>>
            \/ Len(args) < 1 + (IF LowLength(ByteAt(args, 0)) = 0 THEN 1 ELSE LowLength(ByteAt(args, 0)))
      [] decoder \in {"regTwoImm", "regImmOffset"} ->
            args = <<>> \/ Len(args) < HighLength(ByteAt(args, 0)) + 1
      [] decoder = "twoRegTwoImm" ->
            Len(args) < 2 \/ Len(args) < 2 + LowLength(ByteAt(args, 1))
      [] decoder = "threeReg" -> Len(args) < 2
      [] OTHER -> FALSE

Crashes(decoder, args) == decoder \in {"twoRegImm", "twoRegOffset"} /\ args = <<>>

\* Operands whose first byte holds the registers A and B.
TwoRegisters(args) ==
    [NoOperands EXCEPT !.rA = Low(ByteAt(args, 0)), !.rB = High(ByteAt(args, 0))]

\* An immediate of lX bytes from position p, then one of what is left of the arguments.
Immediates(o, args, p, lX) ==
    [o EXCEPT !.vX = Varint(Sub(args, p, p + lX)),
              !.vY = Varint(Sub(args, p + lX, p + lX + Room(args, p + lX)))]

SignedOffset(args, p) ==
    LET l == Room(args, p) IN Z(l, ReadLE(Sub(args, p, p + l)))

\* The decoders that read at most one register, then those that read two or three.
FirstOperands(decoder, args) ==
    CASE decoder = "imm" -> [NoOperands EXCEPT !.vX = Varint(Sub(args, 0, Room(args, 0)))]
      [] decoder = "regExt" ->
            [NoOperands EXCEPT !.rA = Low(ByteAt(args, 0)), !.vX = ReadLE(Sub(args, 1, 9))]
      [] decoder = "twoImm" -> Immediates(NoOperands, args, 1, LowLength(ByteAt(args, 0)))
      [] decoder = "offset" -> [NoOperands EXCEPT !.offset = SignedOffset(args, 0)]
      [] decoder = "regImm" ->
            [NoOperands EXCEPT !.rA = Low(ByteAt(args, 0)),
                               !.vX = Varint(Sub(args, 1, 1 + Room(args, 1)))]
      [] decoder = "regTwoImm" ->
            Immediates([NoOperands EXCEPT !.rA = Low(ByteAt(args, 0))],
                       args, 1, HighLength(ByteAt(args, 0)))
      [] decoder = "regImmOffset" ->
            LET lX == HighLength(ByteAt(args, 0))
            IN  [NoOperands EXCEPT !.rA = Low(ByteAt(args, 0)),
                                   !.vX = Varint(Sub(args, 1, 1 + lX)),
                                   !.offset = SignedOffset(args, 1 + lX)]

MoreOperands(decoder, args) ==
    CASE decoder = "twoReg" ->
            [NoOperands EXCEPT !.rD = Low(ByteAt(args, 0)), !.rA = High(ByteAt(args, 0))]
      [] decoder = "twoRegImm" ->
            [TwoRegisters(args) EXCEPT !.vX = Varint(Sub(args, 1, 1 + Room(args, 1)))]
      [] decoder = "twoRegOffset" ->
            [TwoRegisters(args) EXCEPT !.offset = SignedOffset(args, 1)]
      [] decoder = "twoRegTwoImm" ->
            Immediates(TwoRegisters(args), args, 2, LowLength(ByteAt(args, 1)))
      [] decoder = "threeReg" ->
            [TwoRegisters(args) EXCEPT !.rD = Least(NRegs - 1, ByteAt(args, 1))]

Operands(decoder, args) ==
    CASE decoder \in {"none", "unknown"} -> NoOperands
      [] decoder \in {"imm", "regExt", "twoImm", "offset", "regImm", "regTwoImm", "regImmOffset"} ->
            FirstOperands(decoder, args)
      [] OTHER -> MoreOperands(decoder, args)

-----------------------------------------------------------------------------
(* Jumps, branch.ts and djump.ts.                                          *)

MutBranch(m, cache, address, condition, skip) ==
    [m EXCEPT !.pc = IF condition THEN address ELSE @ + skip]
Branch(m, cache, address, condition, skip) ==
    CASE condition /\ IsBlockBeginning(cache, address) -> [m EXCEPT !.pc = address]
      [] condition /\ ~IsBlockBeginning(cache, address) -> Leave(m, Panic)
      [] OTHER -> [m EXCEPT !.pc = @ + skip]

HaltAddress == Pow(4) - Pow(2)
ZA == 2

Djump(m, prog, cache, a) ==
    CASE a = HaltAddress -> Leave(m, Exit("halt", 0))
      [] /\ a # HaltAddress /\ a \in 1..Len(prog.j) * ZA
         /\ a % ZA = 0
         /\ IsBlockBeginning(cache, prog.j[a \div ZA]) -> [m EXCEPT !.pc = prog.j[a \div ZA]]
      [] OTHER -> Leave(m, Panic)

\* The conditions of the jumps, on a register and an immediate or on two
\* registers.  branch_ge_u compares the register objects, that is numbers.
ImmCondition(op, a, x) ==
    CASE op = 81 -> a = x
      [] op = 82 -> a # x
      [] op = 83 -> a < x
      [] op = 84 -> a <= x
      [] op = 85 -> a >= x
      [] op = 86 -> a > x
      [] op = 87 -> Z(8, a) < Z(8, x)
      [] op = 88 -> Z(8, a) <= Z(8, x)
      [] op = 89 -> Z(8, a) >= Z(8, x)
      [] op = 90 -> Z(8, a) > Z(8, x)

RegCondition(op, a, b) ==
    CASE op = 170 -> a = b
      [] op = 171 -> a # b
      [] op = 172 -> a < b
      [] op = 173 -> Z(8, a) < Z(8, b)
      [] op = 174 -> Float(a) >= Float(b)
      [] op = 175 -> Z(8, a) >= Z(8, b)

-----------------------------------------------------------------------------
(* Memory: a load that faults below 2 ** 16 is a panic, a store never is;  *)
(* the page of a faulting load is computed with a remainder, the address   *)
(* of a faulting store is taken as it is.                                  *)

HandleMemoryFault(m, location) ==
    Leave(m, IF location < Pow(2) THEN Panic
             ELSE Exit("pageFault", Zp * (location % Zp)))

\* A load of n bytes, extended by the operator that the instruction names.
LoadAt(m, address, n, rA, value) ==
    IF CanRead(m.acl, address, n) THEN [m EXCEPT !.w[rA] = value]
    ELSE HandleMemoryFault(m, FirstUnreadable(m.acl, address, n))

\* 52 .. 58: from the immediate.
LoadImm(op, m, o) ==
    LET address == o.vX % Pow(4)
        n == BytesMoved(op)
        read == ReadInto(m.mem, address, n)
    IN  LoadAt(m, address, n, o.rA, IF op \in {53, 55, 57} THEN X_fn(n, read) ELSE read)

\* 124 .. 130: from the sum of a register and the immediate.
LoadInd(op, m, o) ==
    LET address == (m.w[o.rB] + o.vX) % Pow(4)
        n == BytesMoved(op)
        read == ReadInto(m.mem, address, n)
    IN  LoadAt(m, address, n, o.rA,
               IF op \in {125, 127, 129} THEN Z_inv(8, Z(n, read)) ELSE read)

StoreSafe(m, location, n, value) ==
    IF CanWrite(m.acl, location, n)
    THEN [m EXCEPT !.mem = WriteAt(@, location, n, value)]
    ELSE Leave(m, Exit("pageFault", FirstUnwriteable(m.acl, location, n)))

\* 30 .. 33: an immediate to an address that is a number, whatever its size.
StoreImm(op, m, o) ==
    StoreSafe(m, Float(o.vX), BytesMoved(op), o.vY % Pow(BytesMoved(op)))

\* 59 .. 62: a register to a fixed address.
StoreReg(op, m, o) ==
    StoreSafe(m, o.vX % Pow(4), BytesMoved(op), m.w[o.rA] % Pow(BytesMoved(op)))

\* 70 .. 73: an immediate, through a register; one byte is taken modulo 255.
StoreImmInd(op, m, o) ==
    StoreSafe(m, (m.w[o.rA] + o.vX) % Pow(4), BytesMoved(op),
              o.vY % (IF op = 70 THEN Pow(1) - 1 ELSE Pow(BytesMoved(op))))

\* 120 .. 123: a register, through another.
StoreInd(op, m, o) ==
    StoreSafe(m, (m.w[o.rB] + o.vX) % Pow(4), BytesMoved(op), m.w[o.rA] % Pow(BytesMoved(op)))

\* sbrk of a register: nothing grows for a size of zero.
SbrkJs(m, o) ==
    LET size == Float(m.w[o.rA])
        location == m.heap.pointer
    IN  [(IF size = 0 THEN m ELSE Sbrk(m, size)) EXCEPT !.w[o.rD] = location]

-----------------------------------------------------------------------------
(* Arithmetic.  a and b are the registers A and B, x the immediate; the    *)
(* result is what the instruction writes, old what the register held.      *)

OneIf(condition) == IF condition THEN 1 ELSE 0
Floored(z, n) == Z_inv(8, z \div 2^n)      \* an arithmetic shift to the right

\* 100, 102 .. 111: two registers.
TwoRegValue(op, a) ==
    CASE op = 100 -> a
      [] op = 102 -> CountBits(Bits64, a)
      [] op = 103 -> CountBits(Bits32, a % Pow(4))
      [] op = 104 -> LeadingZeros(Bits64, a)
      [] op = 105 -> LeadingZeros(Bits32, a % Pow(4))
      [] op = 106 -> TrailingZeros(Bits64, a)
      [] op = 107 -> TrailingZeros(Bits32, a % Pow(4))
      [] op = 108 -> Z_inv(8, Z(1, a % Pow(1)))
      [] op = 109 -> Z_inv(8, Z(2, a % Pow(2)))
      [] op = 110 -> a % Pow(2)
      [] op = 111 -> ReverseBytes(a)

\* How far a shift or a rotation of n bits goes, in the immediate forms.
MutShiftBy(n, x) == Least(x, n - 1)
ShiftBy(n, x) == x % n

\* 131 .. 146: an immediate and 32 bits.
Imm32Value(op, b, x) ==
    CASE op = 131 -> X_fn(4, (b + x) % Pow(4))
      [] op = 132 -> And(b, x)
      [] op = 133 -> Xor(b, x)
      [] op = 134 -> Or(b, x)
      [] op = 135 -> (b * x) % Pow(4)
      [] op = 136 -> OneIf(b < x)
      [] op = 137 -> OneIf(Z(8, b) < Z(8, x))
      [] op = 138 -> X_fn(4, (b * 2^ShiftBy(Bits32, x)) % Pow(4))
      [] op = 139 -> X_fn(4, (b % Pow(4)) \div 2^ShiftBy(Bits32, x))
      [] op = 140 -> Floored(Z(4, b % Pow(4)), ShiftBy(Bits32, x))
      [] op = 141 -> X_fn(4, (x + Pow(4) - b) % Pow(4))
      [] op = 142 -> OneIf(b > x)
      [] op = 143 -> OneIf(Z(8, b) > Z(8, x))
      [] op = 144 -> X_fn(4, (x * 2^ShiftBy(Bits32, b)) % Pow(4))
      [] op = 145 -> (Float(x) % Pow(4)) \div 2^ShiftBy(Bits32, b)
      [] op = 146 -> Floored(Z(4, x % Pow(4)), ShiftBy(Bits32, b))

\* 147 .. 161: an immediate and 64 bits, rotations.
Imm64Value(op, b, x, old) ==
    CASE op = 147 -> IF b = 0 THEN x ELSE old
      [] op = 148 -> IF b # 0 THEN x ELSE old
      [] op = 149 -> (b + x) % Pow(8)
      [] op = 150 -> (b * x) % Pow(8)
      [] op = 151 -> (b * 2^ShiftBy(Bits64, x)) % Pow(8)
      [] op = 152 -> b \div 2^ShiftBy(Bits64, x)
      [] op = 153 -> Floored(Z(8, b), ShiftBy(Bits64, x))
      [] op = 154 -> (x + Pow(8) - b) % Pow(8)
      [] op = 155 -> (x * 2^ShiftBy(Bits64, b)) % Pow(8)
      [] op = 156 -> x \div 2^ShiftBy(Bits64, b)
      [] op = 157 -> Floored(Z(8, x), ShiftBy(Bits64, b))
      [] op = 158 -> RotateRight(Bits64, b, ShiftBy(Bits64, x))
      [] op = 159 -> RotateRight(Bits64, x, ShiftBy(Bits64, b))
      [] op = 160 -> X_fn(4, RotateRight(Bits32, b % Pow(4), ShiftBy(Bits32, x)))
      [] op = 161 -> X_fn(4, RotateRight(Bits32, x % Pow(4), ShiftBy(Bits32, b)))

\* 190 .. 199: 32 bits.
Reg32Value(op, a, b) ==
    LET a4 == a % Pow(4)
        b4 == b % Pow(4)
        z4a == Z(4, a4)
        z4b == Z(4, b4)
        least == -(Pow(4) \div 2)
    IN  CASE op = 190 -> X_fn(4, (a + b) % Pow(4))
          [] op = 191 -> X_fn(4, (a + Pow(4) - b4) % Pow(4))
          [] op = 192 -> X_fn(4, (a * b) % Pow(4))
          [] op = 193 -> IF b4 = 0 THEN Pow(8) - 1 ELSE a \div b
          [] op = 194 -> IF z4b = 0 THEN Pow(8) - 1
                         ELSE IF z4a = least /\ z4b = -1 THEN Z_inv(8, z4a)
                         ELSE Z_inv(8, TruncDiv(z4a, z4b))
          [] op = 195 -> X_fn(4, IF b4 = 0 THEN a4 ELSE a4 % b4)
          [] op = 196 -> IF z4a = least /\ z4b = -1 THEN 0 ELSE Z_inv(8, Smod(z4a, z4b))
          [] op = 197 -> X_fn(4, (a * 2^(b % Bits32)) % Pow(4))
          [] op = 198 -> X_fn(4, a4 \div 2^(b4 % Bits32))
          [] op = 199 -> Floored(z4a, b % Bits32)

\* 200 .. 215: 64 bits.
Reg64Value(op, a, b) ==
    LET z8a == Z(8, a)
        z8b == Z(8, b)
        least == -(Pow(8) \div 2)
    IN  CASE op = 200 -> (a + b) % Pow(8)
          [] op = 201 -> (a + Pow(8) - b) % Pow(8)
          [] op = 202 -> (a * b) % Pow(8)
          [] op = 203 -> IF b = 0 THEN Pow(8) - 1 ELSE a \div b
          [] op = 204 -> IF b = 0 THEN Pow(8) - 1
                         ELSE IF z8a = least /\ z8b = -1 THEN a
                         ELSE Z_inv(8, TruncDiv(z8a, z8b))
          [] op = 205 -> IF b = 0 THEN a ELSE a % b
          [] op = 206 -> IF z8a = least /\ z8b = -1 THEN 0 ELSE Z_inv(8, Smod(z8a, z8b))
          [] op = 207 -> (a * 2^(b % Bits64)) % Pow(8)
          [] op = 208 -> a \div 2^(b % Bits64)
          [] op = 209 -> Floored(z8a, b % Bits64)
          [] op = 210 -> And(a, b)
          [] op = 211 -> Xor(a, b)
          [] op = 212 -> Or(a, b)
          [] op = 213 -> Z_inv(8, TruncDiv(z8a * z8b, Pow(8)))
          [] op = 214 -> (a * b) \div Pow(8)
          [] op = 215 -> Z_inv(8, (z8a * b) \div Pow(8))

\* 216 .. 230: comparisons, moves, rotations, inverted bits, extremes.
RegLogicValue(op, a, b, old) ==
    CASE op = 216 -> OneIf(a < b)
      [] op = 217 -> OneIf(Z(8, a) < Z(8, b))
      [] op = 218 -> IF b = 0 THEN a ELSE old
      [] op = 219 -> IF b # 0 THEN a ELSE old
      [] op = 220 -> RotateLeft(Bits64, a, b % Bits64)
      [] op = 221 -> X_fn(4, RotateLeft(Bits32, a % Pow(4), b % Bits32))
      [] op = 222 -> RotateRight(Bits64, a, b % Bits64)
      [] op = 223 -> X_fn(4, RotateRight(Bits32, a % Pow(4), b % Bits32))
      [] op = 224 -> And(a, Not(b))
      [] op = 225 -> Or(a, Not(b))
      [] op = 226 -> Not(Xor(a, b))
      [] op = 227 -> IF Z(8, a) > Z(8, b) THEN a ELSE b
      [] op = 228 -> IF a > b THEN a ELSE b
      [] op = 229 -> IF Z(8, a) < Z(8, b) THEN a ELSE b
      [] op = 230 -> IF a < b THEN a ELSE b

-----------------------------------------------------------------------------
(* evaluate: what an instruction does to the machine, before its gas and   *)
(* the advance of the pointer.                                             *)

\* Ends, jumps and branches.
EvaluateJump(op, m, o, prog, cache, skip) ==
    LET a == m.w[o.rA]
        b == m.w[o.rB]
        target == m.pc + o.offset
    IN  CASE op = 0 -> Leave(m, Panic)
          [] op = 1 -> [m EXCEPT !.pc = @ + 1]
          [] op = 10 -> Leave(m, Exit("hostCall", o.vX))
          [] op = 40 -> Branch(m, cache, target, TRUE, skip)
          [] op = 50 -> Djump(m, prog, cache, (a + o.vX) % Pow(4))
          [] op = 80 -> Branch([m EXCEPT !.w[o.rA] = o.vX], cache, target, TRUE, skip)
          [] op \in 81..90 -> Branch(m, cache, target, ImmCondition(op, a, o.vX), skip)
          [] op \in 170..175 -> Branch(m, cache, target, RegCondition(op, a, b), skip)
          [] op = 180 -> [Djump(m, prog, cache, (b + o.vY) % Pow(4)) EXCEPT !.w[o.rA] = o.vX]

\* Loads, stores and sbrk.
EvaluateMemory(op, m, o) ==
    CASE op \in 52..58 -> LoadImm(op, m, o)
      [] op \in 124..130 -> LoadInd(op, m, o)
      [] op \in 30..33 -> StoreImm(op, m, o)
      [] op \in 59..62 -> StoreReg(op, m, o)
      [] op \in 70..73 -> StoreImmInd(op, m, o)
      [] op \in 120..123 -> StoreInd(op, m, o)
      [] op = 101 -> SbrkJs(m, o)

\* The register an instruction writes, and what, when that is all it does.
Written(op, o) == IF op \in {20, 51} \cup 131..161 THEN o.rA ELSE o.rD
WrittenValue(op, m, o) ==
    LET a == m.w[o.rA]
        b == m.w[o.rB]
        old == m.w[Written(op, o)]
    IN  CASE op \in {20, 51} -> o.vX
          [] op \in 100..111 -> TwoRegValue(op, a)
          [] op \in 131..146 -> Imm32Value(op, b, o.vX)
          [] op \in 147..161 -> Imm64Value(op, b, o.vX, old)
          [] op \in 190..199 -> Reg32Value(op, a, b)
          [] op \in 200..215 -> Reg64Value(op, a, b)
          [] op \in 216..230 -> RegLogicValue(op, a, b, old)

JumpOpcodes == {0, 1, 10, 40, 50} \cup 80..90 \cup 170..180
Evaluate(op, m, o, prog, cache, skip) ==
    IF op \in JumpOpcodes THEN EvaluateJump(op, m, o, prog, cache, skip)
    ELSE IF op \in Loads \cup Stores \cup {101} THEN EvaluateMemory(op, m, o)
    ELSE [m EXCEPT !.w[Written(op, o)] = WrittenValue(op, m, o)]

\* The wrapper Ix puts around it: one gas, and the next instruction unless
\* this one set the pointer or faulted.
MutHydratedEvaluate(op, m, o, prog, cache, skip) ==
    LET done == Evaluate(op, m, o, prog, cache, skip)
    IN  [done EXCEPT !.gas = @ - 1, !.pc = IF HandlesPointer(op) THEN @ ELSE @ + skip]
HydratedEvaluate(op, m, o, prog, cache, skip) ==
    LET done == Evaluate(op, m, o, prog, cache, skip)
        stays == HandlesPointer(op) \/ done.exit.why = "pageFault"
    IN  [done EXCEPT !.gas = @ - 1, !.pc = IF stays THEN @ ELSE @ + skip]

\* One turn of the loop of run().
SingleStep(m, prog, cache) ==
    IF m.gas <= 0 THEN Leave(m, Exit("outOfGas", 0))
    ELSE IF m.pc \notin DOMAIN cache \/ DecoderOf(prog.c[m.pc]) = "unknown"
         THEN [Leave(m, Panic) EXCEPT !.gas = @ - 1]
    ELSE LET op == cache[m.pc].opCode
             decoder == DecoderOf(op)
             skip == cache[m.pc].skip + 1
             args == ArgsAt(prog, m.pc, skip)
         IN  IF Undecodable(decoder, args)
             THEN [Leave(m, Panic) EXCEPT !.pc = @ + skip, !.gas = @ - 2]
             ELSE IF Crashes(decoder, args) THEN Leave(m, Exit("crash", 0))
             ELSE HydratedEvaluate(op, m, Operands(decoder, args), prog, cache, skip)
=============================================================================
