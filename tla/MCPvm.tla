------------------------------- MODULE MCPvm -------------------------------
(***************************************************************************)
(* The instructions of the virtual machine on bytes of one bit: a register *)
(* has 8 bits, an address 4, a page 2 bytes, and a JavaScript number keeps *)
(* 6 bits of an integer.  Every instruction runs on every combination of   *)
(* the boundary values below, alone or in the small programs at the end.   *)
(***************************************************************************)
EXTENDS PvmLockstep, PvmLoading

\* Zero, one, the bounds of signed and unsigned numbers of 4 and of 8 bits,
\* and numbers that a JavaScript number rounds.
Values == {0, 1, 2, 7, 8, 15, 16, 65, 127, 128, 255}
FewValues == {0, 1, 127, 128, 255}

Registers(a, b) == [r \in 0..NRegs - 1 |-> CASE r = 0 -> a [] r = 1 -> b [] OTHER -> 6]

\* Page 2 is read only, 3 and 4 are writable, the heap ends with page 4 and
\* 6 is the stack; in the other image the pages in between are there too.
Image(full) ==
    [acl |-> [p \in Pages |-> CASE p = 2 -> "read"
                                [] p \in {3, 4, 6} -> "write"
                                [] p = 5 -> IF full THEN "write" ELSE "none"
                                [] OTHER -> "none"],
     mem |-> [x \in Addresses |-> IF x % 3 = 0 THEN 1 ELSE 0],
     heap |-> [end |-> IF full THEN 12 ELSE 10, pointer |-> 8]]

\* A program: its code, the positions of its instructions, its jump table.
Program(code, opcodes, j) ==
    [len |-> Len(code), c |-> [i \in 0..Len(code) - 1 |-> code[i + 1]],
     k |-> [i \in 0..Len(code) - 1 |-> IF i \in opcodes THEN 1 ELSE 0], j |-> j]

Family(programs, registers, images, pcs, gas) ==
    [programs |-> programs, registers |-> registers, images |-> images, pcs |-> pcs, gas |-> gas]

Plain == {Image(FALSE)}
Both == {Image(FALSE), Image(TRUE)}
Over(A, B) == {Registers(a, b) : a \in A, b \in B}

\* One instruction, and a trap after it.
Alone(op, args) == Program(<<op>> \o args \o <<0>>, {0, Len(args) + 1}, <<>>)

Bits(v) == [i \in 1..4 |-> Bit(v, i - 1)]
Immediate == {<<>>, <<1>>, <<0, 1>>, <<1, 1, 0>>, <<1, 0, 1, 1>>, <<1, 0, 1, 0, 1>>}

Arithmetic ==
    { Family({Alone(op, <<16, 2>>) : op \in 190..230}, Over(Values, Values), Plain, {0}, {2}),
      Family({Alone(op, <<16>> \o imm) : op \in 131..161, imm \in Immediate},
             Over({9}, Values), Plain, {0}, {2}),
      Family({Alone(op, <<2>>) : op \in 100..111}, Over(Values, {0}), Both, {0}, {2}),
      Family({Alone(op, <<0>> \o imm) : op \in {20, 51}, imm \in Immediate
                    \cup {<<1, 0, 1, 1, 0, 0, 1, 1>>, <<0, 1, 0, 0, 1, 0, 1, 0, 1>>}},
             Over({3}, {0}), Plain, {0}, {2}) }

MemoryAccesses ==
    { Family({Alone(op, <<0>> \o Bits(x)) : op \in 52..62, x \in Addresses},
             Over({150}, {0}), Both, {0}, {3}),
      Family({Alone(op, <<16>> \o Bits(x)) : op \in 120..130, x \in Addresses},
             Over({150}, {0, 255}), Both, {0}, {3}),
      Family({Alone(op, <<4>> \o Bits(x) \o v) : op \in 30..33, x \in Addresses, v \in {<<>>, <<1>>}},
             Over({0}, {0}), Both, {0}, {3}),
      Family({Alone(op, <<64>> \o Bits(x) \o v) : op \in 70..73, x \in Addresses, v \in {<<1>>, <<0, 1>>}},
             Over({0, 2}, {0}), Both, {0}, {3}) }

\* A fallthrough, the jump at 1, a move, a trap, a move that ends the code.
JumpProgram(jump) ==
    LET at == 1 + Len(jump)
    IN  Program(<<1>> \o jump \o <<100, 2, 0, 100, 2>>, {0, 1, at, at + 2, at + 3},
                <<1, 0, at, at + 3, 15>>)

Offsets == {<<>>, <<1>>, <<0, 1>>, <<1, 0, 1>>, <<0, 0, 1, 0>>, <<1, 0, 1, 0>>, <<0, 1, 1, 0>>, <<1, 1, 1, 0>>}

Jumps ==
    { Family({JumpProgram(<<40>> \o off) : off \in Offsets}, Over({0}, {0}), Plain, {0}, {4}),
      Family({JumpProgram(<<op, 16, 1>> \o off) : op \in 80..90, off \in Offsets},
             Over(FewValues, {0}), Plain, {1}, {3}),
      Family({JumpProgram(<<op, 16>> \o off) : op \in 170..175, off \in Offsets},
             Over(FewValues, FewValues \cup {65}), Plain, {1}, {3}),
      Family({JumpProgram(<<50, 0>> \o imm) : imm \in Immediate},
             Over(Addresses \cup {240, 255}, {0}), Plain, {1}, {3}),
      Family({JumpProgram(<<180, 16, 1, 1>> \o imm) : imm \in Immediate},
             Over({9}, Addresses), Plain, {1}, {3}) }

\* Arguments that are too short, for every decoder, with and without gas for it.
Malformed ==
    { Family({Alone(op, args) : op \in {1, 2, 10, 40}, args \in {<<>>, <<1>>, <<1, 0>>}},
             Over({1}, {2}), Plain, {0}, {0, 1, 3}),
      Family({Alone(op, args) : op \in {20, 30, 50, 70, 81, 100, 131, 170, 180, 200},
                    args \in {<<>>, <<1>>, <<1, 0>>, <<64, 1>>, <<16, 1, 1>>}},
             Over({1}, {2}), Plain, {0}, {0, 1, 3}) }

Mixed ==
    { Family({ \* a countdown: add -1 to register 0 and go back until it is 0
               Program(<<149, 0, 1, 82, 0, 1, 0, 1, 1, 0>>, {0, 3, 9}, <<>>),
               \* the heap grows until it has reached the stack and the end of memory
               Program(<<101, 2, 40, 0, 1>>, {0, 2}, <<>>),
               \* a host call, a store to the page of its answer, a load from it
               Program(<<10, 1, 0, 120, 1, 124, 2, 0>>, {0, 3, 5, 7}, <<>>),
               \* a store that needs the heap to have grown
               Program(<<101, 2, 123, 16, 0, 1, 1, 0, 1>>, {0, 2, 8}, <<>>) },
             Over({2, 3}, {0, 7}), Both, {0, 1}, {3, 9}) }

\* Sizes as the head of a blob says them, with data to tell apart.
HeadOf(o, w, z, s) ==
    [o |-> o, w |-> w, z |-> z, s |-> s, roData |-> [i \in 1..o |-> 1],
     rwData |-> [i \in 1..w |-> i % 2], code |-> <<>>]

\* Programs that start with the memory and the registers of their blob, and
\* use the stack, the heap and the argument.
FirstRegisters(w) == [r \in 0..NRegs - 1 |-> w[r]]
FromBlobs ==
    { LET m == Loaded(h, <<1, 1>>)
      IN  Family({ Program(<<120, 16, 1, 124, 18, 1, 101, 2, 120, 18, 1, 0>>, {0, 3, 6, 8, 11}, <<>>),
                   Program(<<124, 2, 1, 101, 16, 40, 0, 1>>, {0, 3, 5}, <<>>) },
                 {FirstRegisters(m.w)}, {[acl |-> m.acl, mem |-> m.mem, heap |-> m.heap]}, {0}, {9})
      : h \in {h \in {HeadOf(2, 1, 0, 0), HeadOf(0, 1, 0, 2), HeadOf(0, 1, 1, 0), HeadOf(0, 0, 0, 1)} : Fits(h)} }

MCFamilies == Arithmetic \cup MemoryAccesses \cup Jumps \cup Malformed \cup Mixed \cup FromBlobs

-----------------------------------------------------------------------------
\* Blobs on bytes of two bits: pages of 4 bytes, zones of 16, memory of 256.
\* What an instance of another scale uses takes parameters: TLC gives a
\* definition without any one value for all instances.
Wide == INSTANCE PvmLoading WITH ByteBits <- 2, FloatBits <- 12, Zp <- 4, Zz <- 16, Zi <- 32
Layouts == INSTANCE Schemas WITH ByteBits <- 3, FloatBits <- 18

Sizes == {0, 1, 4, 5, 16, 17, 33}
Heads == {HeadOf(o, w, z, s) : o \in Sizes, w \in Sizes, z \in {0, 1, 4, 9}, s \in Sizes}
Arguments == {<<>>, <<3>>, [i \in 1..5 |-> i % 4], [i \in 1..32 |-> i % 4]}
LayoutIsSound ==
    \A h \in {h \in Heads : Wide!Fits(h)}, a \in Arguments :
        Wide!SegmentsApart(h, a) /\ Wide!RegistersPointRight(h, a)

(* Codecs and values of every kind, one inside the other; in sequences,    *)
(* since TLC cannot tell values of different kinds apart in a set.         *)
Plainest == << [of |-> Layouts!IntOf(2), v |-> 9],
               [of |-> Layouts!Number, v |-> 5], [of |-> Layouts!Number, v |-> 100],
               [of |-> Layouts!BitsOf(4), v |-> <<1, 0, 0, 1>>],
               [of |-> Layouts!FixedBytes(2), v |-> <<7, 0>>],
               [of |-> Layouts!Bytes, v |-> <<>>], [of |-> Layouts!Bytes, v |-> <<0, 7, 1>>] >>
Around(x) ==
    << [of |-> Layouts!Optional(x.of), v |-> <<>>],
       [of |-> Layouts!Optional(x.of), v |-> <<x.v>>],
       [of |-> Layouts!SequenceOf(2, x.of), v |-> <<x.v, x.v>>],
       [of |-> Layouts!ArrayOf(x.of), v |-> <<>>],
       [of |-> Layouts!ArrayOf(x.of), v |-> <<x.v, x.v, x.v>>],
       [of |-> Layouts!Dictionary(Layouts!IntOf(1), x.of), v |-> [k \in {2, 5} |-> x.v]],
       [of |-> Layouts!OneOf(<<3, 0>>, <<Layouts!Number, x.of>>),
        v |-> [which |-> 2, value |-> x.v]] >>
Record(x, y) == [of |-> Layouts!RecordOf(<<x.of, y.of>>), v |-> <<x.v, y.v>>]
ReadsBack(x) == Layouts!ReadsBackAlone(x.of, x.v)
EachReadsBack(samples) == \A i \in DOMAIN samples : ReadsBack(samples[i])
ValuesReadBack ==
    /\ EachReadsBack(Plainest)
    /\ \A i \in DOMAIN Plainest, j \in DOMAIN Plainest :
          LET x == Plainest[i]
              y == Around(Plainest[j])
          IN  /\ EachReadsBack(y)
              /\ \A k \in DOMAIN y :
                    /\ ReadsBack(Record(x, y[k])) /\ ReadsBack(Record(y[k], x))
                    /\ EachReadsBack(Around(Record(x, y[k])))
                    /\ EachReadsBack(Around(Record(y[k], x)))
                    /\ ReadsBack(Record(x, Record(y[k], x)))

\* The program of a state, its jump table in entries of z bytes.
ProgramAsWritten(z) ==
    [z |-> z, j |-> prog.j, c |-> [i \in 1..prog.len |-> prog.c[i - 1]],
     k |-> [i \in 1..prog.len |-> prog.k[i - 1]]]

(* What the codec writes is read back, whatever follows it; a program that *)
(* runs is read whole from its blob, or not at all, and its memory is laid *)
(* out as its registers say (program.ts:36-184, pvm-program-codec.ts:41-81,*)
(* e.ts:13-86, utils.ts:28-74).                                            *)
ProgramsLoadWhole ==
    /\ Layouts!IntegersReadBack
    /\ LayoutIsSound
    /\ ValuesReadBack
    /\ js.pc = 0 /\ js.exit = Running =>
          \A h \in {HeadOf(0, 0, 0, 0), HeadOf(5, 1, 1, 17)}, z \in {2, 3} :
              Wide!BlobsReadWhole(h, ProgramAsWritten(z))
=============================================================================
