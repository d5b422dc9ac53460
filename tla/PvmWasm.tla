------------------------------ MODULE PvmWasm -------------------------------
(***************************************************************************)
(* The AssemblyScript interpreter, jam-pvm-wasm: one turn of its loop, on  *)
(* machines that also hold its two caches: skips and blockBeginnings, both *)
(* filled when a position is first asked for (0 is "not asked yet").       *)
(* Arithmetic wraps around at the width of its type; "abort" is the trap   *)
(* of an index that is out of bounds.                                      *)
(***************************************************************************)
EXTENDS PvmJs

u8(x) == x % Pow(1)
u16(x) == x % Pow(2)
u32(x) == x % Pow(4)
u64(x) == x % Pow(8)
i8(x) == Z(1, u8(x))
i16(x) == Z(2, u16(x))
i32(x) == Z(4, u32(x))
i64(x) == Z(8, u64(x))

Abort == Exit("abort", 0)

-----------------------------------------------------------------------------
(* The caches.  Both return the machine with the cache filled.             *)

WithSkip(m, prog, pc) ==
    IF m.skips[pc] # 0 THEN m
    ELSE [m EXCEPT !.skips[pc] =
            LET ends == {n \in pc + 1..prog.len : n = prog.len \/ prog.k[n] # 0}
            IN  (CHOOSE n \in ends : \A e \in ends : n <= e) - pc]

WithBlockBeginning(m, prog, pc) ==
    IF m.blockBeginnings[pc] # 0 \/ prog.k[pc] = 0 THEN m
    ELSE LET prevPC == CHOOSE p \in 0..pc - 1 :
                           /\ p = 0 \/ prog.k[p] # 0
                           /\ \A q \in p + 1..pc - 1 : prog.k[q] = 0
         IN  [m EXCEPT !.blockBeginnings[pc] =
                 IF prog.c[prevPC] \in BlockTerminators THEN 1 ELSE 2]

-----------------------------------------------------------------------------
(* ix-decoders.ts.  Reading a byte that is not there aborts; the failed    *)
(* check of a decoder is a panic that costs one more gas.                  *)

AbortsDecoding(decoder, args) ==
    args = <<>> /\ decoder \in {"twoImm", "regTwoImm", "twoRegImm", "twoRegOffset", "twoRegTwoImm"}

NotDecodable(decoder, args) ==
    CASE decoder = "imm" -> Varint(Sub(args, 0, Room(args, 0))) > Pow(1) - 1
      [] decoder = "regExt" -> Len(args) < 9
      [] decoder \in {"regImm", "twoReg"} -> args = <<>>
      [] decoder = "twoImm" ->
            LET lX == LowLength(ByteAt(args, 0)) IN Len(args) < 1 + lX + OneIf(lX = 0)
      [] decoder \in {"regTwoImm", "regImmOffset"} ->
            args = <<>> \/ Len(args) < HighLength(ByteAt(args, 0)) + 1
      [] decoder = "twoRegTwoImm" -> Len(args) < 2 \/ Len(args) < 2 + LowLength(ByteAt(args, 1))
      [] decoder = "threeReg" -> Len(args) < 2
      [] OTHER -> FALSE

WasmOperands(decoder, args) ==
    LET first == ByteAt(args, 0)
        lX == IF decoder = "twoImm" THEN LowLength(first)
              ELSE IF decoder = "twoRegTwoImm" THEN LowLength(ByteAt(args, 1))
              ELSE HighLength(first)
    IN  CASE decoder = "imm" -> [NoOperands EXCEPT !.vX = Varint(Sub(args, 0, Room(args, 0)))]
          [] decoder = "regExt" -> [NoOperands EXCEPT !.rA = Low(first), !.vX = ReadLE(Sub(args, 1, 9))]
          [] decoder = "twoImm" -> Immediates(NoOperands, args, 1, lX)
          [] decoder = "offset" -> [NoOperands EXCEPT !.offset = SignedOffset(args, 0)]
          [] decoder = "regImm" ->
                [NoOperands EXCEPT !.rA = Low(first), !.vX = Varint(Sub(args, 1, 1 + Room(args, 1)))]
          [] decoder = "regTwoImm" -> Immediates([NoOperands EXCEPT !.rA = Low(first)], args, 1, lX)
          [] decoder = "regImmOffset" ->
                [NoOperands EXCEPT !.rA = Low(first), !.vX = Varint(Sub(args, 1, 1 + lX)),
                                   !.offset = SignedOffset(args, 1 + lX)]
          [] decoder = "twoReg" -> [NoOperands EXCEPT !.rD = Low(first), !.rA = High(first)]
          [] decoder = "twoRegImm" ->
                [TwoRegisters(args) EXCEPT !.vX = Varint(Sub(args, 1, 1 + Room(args, 1)))]
          [] decoder = "twoRegOffset" -> [TwoRegisters(args) EXCEPT !.offset = SignedOffset(args, 1)]
          [] decoder = "twoRegTwoImm" -> Immediates(TwoRegisters(args), args, 2, lX)
          [] decoder = "threeReg" ->
                [TwoRegisters(args) EXCEPT !.rD = Least(NRegs - 1, ByteAt(args, 1))]
          [] OTHER -> NoOperands
-----------------------------------------------------------------------------
(* varint.ts and pvm-memory.ts, on words that wrap around.  A page is      *)
(* readable when it is in the map.                                         *)

Extend(n, x) == u64(x + (x \div (Pow(n) \div 2)) * (Pow(8) - Pow(n)))

FirstAbsent(acl, address, length, rights) ==
    LET pages == PagesInRange(address, length)
        wrong == {i \in DOMAIN pages : Right(acl, pages[i]) \notin rights}
    IN  IF wrong = {} THEN u32(address + length)
        ELSE Zp * pages[CHOOSE i \in wrong : \A j \in wrong : i <= j]

ReadSafe(m, address, n, rA, value) ==
    LET bad == FirstAbsent(m.acl, address, n, {"read", "write"})
    IN  IF bad # u32(address + n) THEN Leave(m, Exit("pageFault", bad))
        ELSE [m EXCEPT !.w[rA] = value]

\* writeAt copies from the start of its source on every page: what lies past
\* the first page boundary gets the first bytes of the value again.
SourceIndex(address, i) ==
    LET room == Zp - (address % Zp)
    IN  IF i < room THEN i ELSE (i - room) % Zp

WasmWriteAt(mem, address, length, value) ==
    [a \in Addresses |->
        LET i == (a - address) % Pow(4)
        IN  IF i < length THEN ByteOf(value, SourceIndex(address, i)) ELSE mem[a]]

WriteSafe(m, address, n, value) ==
    LET bad == FirstAbsent(m.acl, address, n, {"write"})
    IN  IF bad # u32(address + n) THEN Leave(m, Exit("pageFault", bad))
        ELSE [m EXCEPT !.mem = WasmWriteAt(@, address, n, value)]

\* A signed load of a fixed address goes through x_fn, one through a register
\* through i8, i16 and i32.
WasmLoadImm(op, m, o) ==
    LET n == BytesMoved(op)
        read == ReadInto(m.mem, u32(o.vX), n)
    IN  ReadSafe(m, u32(o.vX), n, o.rA, IF op \in {53, 55, 57} THEN Extend(n, read) ELSE read)

WasmLoadInd(op, m, o) ==
    LET n == BytesMoved(op)
        address == u32(m.w[o.rB] + o.vX)
        read == ReadInto(m.mem, address, n)
    IN  ReadSafe(m, address, n, o.rA,
                 CASE op = 125 -> u64(i8(read))
                   [] op = 127 -> u64(i16(read))
                   [] op = 129 -> u64(i32(read))
                   [] OTHER -> read)

WasmStoreImm(op, m, o) == WriteSafe(m, u32(o.vX), BytesMoved(op), o.vY % Pow(BytesMoved(op)))

WasmStoreReg(op, m, o) ==
    WriteSafe(m, u32(o.vX), BytesMoved(op), m.w[o.rA] % Pow(BytesMoved(op)))

WasmStoreImmInd(op, m, o) ==
    WriteSafe(m, u32(m.w[o.rA] + o.vX), BytesMoved(op), o.vY % Pow(BytesMoved(op)))

WasmStoreInd(op, m, o) ==
    WriteSafe(m, u32(m.w[o.rB] + o.vX), BytesMoved(op), m.w[o.rA] % Pow(BytesMoved(op)))

WasmSbrk(m, o) ==
    LET size == u32(m.w[o.rA])
        grows == u32(m.heap.pointer + size) >= m.heap.end
        cnt == IF grows THEN (size + Zp - 1) \div Zp ELSE 0
        new == {page \in Pages : page \in m.heap.end \div Zp..(m.heap.end \div Zp) + cnt - 1}
    IN  [m EXCEPT !.acl = [p \in Pages |-> IF p \in new THEN "write" ELSE @[p]],
                  !.mem = [a \in Addresses |-> IF a \div Zp \in new THEN 0 ELSE @[a]],
                  !.heap = [end |-> u32(@.end + cnt * Zp), pointer |-> u32(@.pointer + size)],
                  !.w[o.rD] = m.heap.pointer]

-----------------------------------------------------------------------------
(* Jumps.  A position beyond the end of the code is beyond the end of the  *)
(* cache: asking for it aborts, before the position itself is compared.    *)

Land(m, prog, newPC) ==
    IF newPC >= prog.len THEN Leave(m, Abort)
    ELSE LET known == WithBlockBeginning(m, prog, newPC)
         IN  IF known.blockBeginnings[newPC] = 1 THEN [known EXCEPT !.pc = newPC]
             ELSE Leave(known, Panic)

WasmBranch(m, prog, newPC, condition, skip) ==
    IF condition THEN Land(m, prog, newPC) ELSE [m EXCEPT !.pc = u32(@ + skip)]

WasmDjump(m, prog, a) ==
    CASE a = Pow(4) - Pow(2) -> Leave(m, Exit("halt", 0))
      [] a # Pow(4) - Pow(2) /\ (a = 0 \/ a > Len(prog.j) * 2 \/ a % 2 # 0) -> Leave(m, Panic)
      [] OTHER -> Land(m, prog, prog.j[a \div 2])

WasmImmCondition(op, a, x) ==
    CASE op = 81 -> a = x
      [] op = 82 -> a # x
      [] op = 83 -> a < x
      [] op = 84 -> a <= x
      [] op = 85 -> a >= x
      [] op = 86 -> a > x
      [] op = 87 -> i64(a) < i64(x)
      [] op = 88 -> i64(a) <= i64(x)
      [] op = 89 -> i64(a) >= i64(x)
      [] op = 90 -> i64(a) > i64(x)

WasmRegCondition(op, a, b) ==
    CASE op = 170 -> a = b
      [] op = 171 -> a # b
      [] op = 172 -> a < b
      [] op = 173 -> i64(a) < i64(b)
      [] op = 174 -> a >= b
      [] op = 175 -> i64(a) >= i64(b)

-----------------------------------------------------------------------------
(* Arithmetic: what the loop writes in the destination register.           *)

\* $smod: abs of the least integer of n bytes is that integer itself.
WasmSmod(n, a, b) ==
    LET least == -(Pow(n) \div 2)
        over == IF b = least THEN least ELSE Absolute(b)
        rest == IF a = least THEN -(Pow(n) \div 2 % Absolute(over))
                ELSE Absolute(a) % Absolute(over)
    IN  IF b = 0 THEN u64(a) ELSE u64(rest * (IF a < 0 THEN -1 ELSE 1))

\* BigInt of as-bigint, multiplied and shifted right by a register.
BigIntShifted(x) == TruncDiv(x, Pow(8))

WasmTwoReg(op, a) ==
    CASE op = 100 -> a
      [] op = 102 -> CountBits(Bits64, a)
      [] op = 103 -> CountBits(Bits32, u32(a))
      [] op = 104 -> LeadingZeros(Bits64, a)
      [] op = 105 -> LeadingZeros(Bits32, u32(a))
      [] op = 106 -> TrailingZeros(Bits64, a)
      [] op = 107 -> TrailingZeros(Bits32, u32(a))
      [] op = 108 -> u64(i8(a))
      [] op = 109 -> u64(i16(a))
      [] op = 110 -> u16(a)
      [] op = 111 -> ReverseBytes(a)

WasmImm32(op, b, x) ==
    LET byX == x % Bits32
        byB == b % Bits32
    IN  CASE op = 131 -> Extend(4, u32(b + x))
          [] op = 132 -> And(b, x)
          [] op = 133 -> Xor(b, x)
          [] op = 134 -> Or(b, x)
          [] op = 135 -> u32(b * x)
          [] op = 136 -> OneIf(b < x)
          [] op = 137 -> OneIf(i64(b) < i64(x))
          [] op = 138 -> Extend(4, u32(b * 2^byX))
          [] op = 139 -> Extend(4, u32(b) \div 2^byX)
          [] op = 140 -> u64(i32(b) \div 2^byX)
          [] op = 141 -> Extend(4, u32(x - b))
          [] op = 142 -> OneIf(b > x)
          [] op = 143 -> OneIf(i64(b) > i64(x))
          [] op = 144 -> Extend(4, u32(x * 2^byB))
          [] op = 145 -> Extend(4, u32(x) \div 2^byB)
          [] op = 146 -> u64(i32(x) \div 2^byB)

WasmImm64(op, b, x, old) ==
    LET byX == x % Bits64
        byB == b % Bits64
    IN  CASE op = 147 -> IF b = 0 THEN x ELSE old
          [] op = 148 -> IF b # 0 THEN x ELSE old
          [] op = 149 -> u64(b + x)
          [] op = 150 -> u64(b * x)
          [] op = 151 -> u64(b * 2^byX)
          [] op = 152 -> b \div 2^byX
          [] op = 153 -> u64(i64(b) \div 2^byX)
          [] op = 154 -> u64(x - b)
          [] op = 155 -> u64(x * 2^byB)
          [] op = 156 -> x \div 2^byB
          [] op = 157 -> u64(i64(x) \div 2^byB)
          [] op = 158 -> RotateRight(Bits64, b, byX)
          [] op = 159 -> RotateRight(Bits64, x, byB)
          [] op = 160 -> Extend(4, RotateRight(Bits32, u32(b), x % Bits32))
          [] op = 161 -> Extend(4, RotateRight(Bits32, u32(x), b % Bits32))

WasmReg32(op, a, b) ==
    CASE op = 190 -> Extend(4, u32(a + b))
      [] op = 191 -> Extend(4, u32(a - u32(b)))
      [] op = 192 -> Extend(4, u32(a * b))
      [] op = 193 -> IF u32(b) = 0 THEN u64(-1) ELSE Extend(4, u32(a) \div u32(b))
      [] op = 194 -> IF i32(b) = 0 THEN u64(-1)
                     ELSE IF i32(a) = i32(Pow(4) \div 2) /\ i32(b) = -1 THEN u64(i32(a))
                     ELSE u64(TruncDiv(i32(a), i32(b)))
      [] op = 195 -> IF u32(b) = 0 THEN Extend(4, u32(a)) ELSE Extend(4, u32(a) % u32(b))
      [] op = 196 -> IF i32(a) = -(Pow(4) \div 2) /\ i32(b) = -1 THEN 0
                     ELSE WasmSmod(4, i32(a), i32(b))
      [] op = 197 -> Extend(4, u32(a * 2^(b % Bits32)))
      [] op = 198 -> Extend(4, u32(a) \div 2^(b % Bits32))
      [] op = 199 -> u64(i32(a) \div 2^(b % Bits32))

WasmReg64(op, a, b) ==
    CASE op = 200 -> u64(a + b)
      [] op = 201 -> u64(a - b)
      [] op = 202 -> u64(a * b)
      [] op = 203 -> IF b = 0 THEN u64(-1) ELSE a \div b
      [] op = 204 -> IF b = 0 THEN u64(-1)
                     ELSE IF i64(a) = -(Pow(8) \div 2) /\ i64(b) = -1 THEN a
                     ELSE u64(TruncDiv(i64(a), i64(b)))
      [] op = 205 -> IF b = 0 THEN a ELSE a % b
      [] op = 206 -> IF i64(a) = -(Pow(8) \div 2) /\ i64(b) = -1 THEN 0
                     ELSE WasmSmod(8, i64(a), i64(b))
      [] op = 207 -> u64(a * 2^(b % Bits64))
      [] op = 208 -> a \div 2^(b % Bits64)
      [] op = 209 -> u64(i64(a) \div 2^(b % Bits64))
      [] op = 210 -> And(a, b)
      [] op = 211 -> Xor(a, b)
      [] op = 212 -> Or(a, b)
      [] op = 213 -> u64(BigIntShifted(i64(a) * i64(b)))
      [] op = 214 -> u64(BigIntShifted(a * b))
      [] op = 215 -> u64(BigIntShifted(i64(a) * b))

WasmLogic(op, a, b, old) ==
    CASE op = 216 -> OneIf(a < b)
      [] op = 217 -> OneIf(i64(a) < i64(b))
      [] op = 218 -> IF b = 0 THEN a ELSE old
      [] op = 219 -> IF b # 0 THEN a ELSE old
      [] op = 220 -> RotateLeft(Bits64, a, b % Bits64)
      [] op = 221 -> Extend(4, RotateLeft(Bits32, u32(a), b % Bits32))
      [] op = 222 -> RotateRight(Bits64, a, b % Bits64)
      [] op = 223 -> Extend(4, RotateRight(Bits32, u32(a), b % Bits32))
      [] op = 224 -> And(a, u64(-1 - b))
      [] op = 225 -> Or(a, u64(-1 - b))
      [] op = 226 -> u64(-1 - Xor(a, b))
      [] op = 227 -> u64(IF i64(a) > i64(b) THEN i64(a) ELSE i64(b))
      [] op = 228 -> IF a > b THEN a ELSE b
      [] op = 229 -> u64(IF i64(a) < i64(b) THEN i64(a) ELSE i64(b))
      [] op = 230 -> IF a < b THEN a ELSE b

-----------------------------------------------------------------------------
(* The switch.  ecalli notes the call and goes on; the loop adds skip to   *)
(* the pointer unless the instruction set it or returned.                  *)

WasmJumps == {40, 50, 80, 180} \cup (81..90) \cup (170..175)

WasmJump(op, m, o, prog, skip) ==
    LET a == m.w[o.rA]
        b == m.w[o.rB]
        target == u32(m.pc + o.offset)
    IN  CASE op = 40 -> WasmBranch(m, prog, target, TRUE, skip)
          [] op = 50 -> WasmDjump(m, prog, u32(a + o.vX))
          [] op = 80 -> WasmBranch([m EXCEPT !.w[o.rA] = o.vX], prog, target, TRUE, skip)
          [] op \in 81..90 -> WasmBranch(m, prog, target, WasmImmCondition(op, a, o.vX), skip)
          [] op \in 170..175 -> WasmBranch(m, prog, target, WasmRegCondition(op, a, b), skip)
          [] op = 180 -> WasmDjump([m EXCEPT !.w[o.rA] = o.vX], prog, u32(b + o.vY))

\* Loads, stores and sbrk.
WasmMemory(op, m, o) ==
    CASE op \in 52..58 -> WasmLoadImm(op, m, o)
      [] op \in 124..130 -> WasmLoadInd(op, m, o)
      [] op \in 30..33 -> WasmStoreImm(op, m, o)
      [] op \in 59..62 -> WasmStoreReg(op, m, o)
      [] op \in 70..73 -> WasmStoreImmInd(op, m, o)
      [] op \in 120..123 -> WasmStoreInd(op, m, o)
      [] op = 101 -> WasmSbrk(m, o)

\* What all others write in their register.
WasmWritten(op, m, o) ==
    LET a == m.w[o.rA]
        b == m.w[o.rB]
        old == m.w[Written(op, o)]
    IN  CASE op \in {20, 51} -> o.vX
          [] op \in 100..111 -> WasmTwoReg(op, a)
          [] op \in 131..146 -> WasmImm32(op, b, o.vX)
          [] op \in 147..161 -> WasmImm64(op, b, o.vX, old)
          [] op \in 190..199 -> WasmReg32(op, a, b)
          [] op \in 200..215 -> WasmReg64(op, a, b)
          [] op \in 216..230 -> WasmLogic(op, a, b, old)

WasmExecute(op, m, o, prog, skip) ==
    IF op \in WasmJumps THEN WasmJump(op, m, o, prog, skip)
    ELSE LET done == IF op = 1 THEN m
                     ELSE IF op = 10 THEN [m EXCEPT !.hostCall = u8(o.vX)]
                     ELSE IF op \in Loads \cup Stores \cup {101} THEN WasmMemory(op, m, o)
                     ELSE [m EXCEPT !.w[Written(op, o)] = WasmWritten(op, m, o)]
         IN  IF done.exit = Running THEN [done EXCEPT !.pc = u32(@ + skip)] ELSE done

\* One turn of the loop: the gas is paid before anything is looked at.
WasmStep(m, prog) ==
    LET paid == [m EXCEPT !.gas = @ - 1]
    IN  CASE m.gas = 0 -> Leave(m, Exit("outOfGas", 0))
          [] m.gas > 0 /\ m.pc >= prog.len -> Leave(paid, Panic)
          [] OTHER ->
                LET known == WithSkip(paid, prog, m.pc)
                    skip == known.skips[m.pc]
                    args == ArgsAt(prog, m.pc, skip)
                    op == prog.c[m.pc]
                    decoder == DecoderOf(op)
                IN  CASE decoder = "unknown" \/ op = 0 -> Leave(known, Panic)
                      [] AbortsDecoding(decoder, args) -> Leave(known, Abort)
                      [] ~AbortsDecoding(decoder, args) /\ NotDecodable(decoder, args) ->
                            Leave([known EXCEPT !.gas = u64(@ - 1)], Panic)
                      [] OTHER -> WasmExecute(op, known, WasmOperands(decoder, args), prog, skip)
=============================================================================
