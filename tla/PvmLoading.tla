----------------------------- MODULE PvmLoading -----------------------------
(***************************************************************************)
(* How a blob becomes a machine.  programInitialization reads from it the  *)
(* sizes of the data, the stack and the code, and lays out the memory;     *)
(* deblobProgram takes the code apart.  Whether the blob is as long as it  *)
(* says is asked for the sizes at its head, and in the last test of the    *)
(* second.                                                                 *)
(***************************************************************************)
EXTENDS Codec, PvmMemory, FiniteSets

CONSTANTS
    Zz,     \* bytes of a zone: segments begin with one
    Zi      \* bytes kept for the argument

ASSUME ZonesAssumption ==
    /\ Zi \in Nat
    /\ Zz \in Nat \ {0}
    /\ Zz % Zp = 0
    /\ Pow(4) \in Nat      \* true of every power; stated for the prover

\* P_Fn and Z_Fn: a size in whole pages and in whole zones.
RoundUp(x, unit) == unit * ((x + unit - 1) \div unit)
P_Fn(x) == RoundUp(x, Zp)
Z_Fn(x) == RoundUp(x, Zz)

\* The bytes of the four sizes at the head.
HeadBytes == 11

(* What the head of a blob says, and where the parts are that it announces.*)
ReadBlob(blob) ==
    LET At(offset, n) == E_subDecode(n, Subarray(blob, offset, n)).value
        o == At(0, 3)
        w == At(3, 3)
        c == At(HeadBytes + o + w, 4)
    IN  [o |-> o, w |-> w, z |-> At(6, 2), s |-> At(8, 3),
         roData |-> Subarray(blob, HeadBytes, o),
         rwData |-> Subarray(blob, HeadBytes + o, w),
         code |-> Subarray(blob, HeadBytes + o + w + 4, c)]

(* A faulty variant: the stack takes no room.                              *)
FitsWithoutStack(h) ==
    5 * Zz + Z_Fn(h.o) + Z_Fn(h.w + h.z * Zp) + Zi <= Pow(4)

(* The test of programInitialization: every segment in whole zones, and    *)
(* one more below, above and between them.                                 *)
Fits(h) ==
    5 * Zz + Z_Fn(h.o) + Z_Fn(h.w + h.z * Zp) + Z_Fn(h.s) + Zi <= Pow(4)

RwStart(h) == 2 * Zz + Z_Fn(h.o)
RwSectionEnd(h) == RwStart(h) + P_Fn(h.w) + h.z * Zp

\* The four segments, from the lowest.
Segments(h, argument) ==
    LET stackTop == Pow(4) - 2 * Zz - Zi
        argumentStart == Pow(4) - Zz - Zi
    IN  << [from |-> Zz, to |-> Zz + P_Fn(h.o), data |-> h.roData, kind |-> "read"],
           [from |-> RwStart(h), to |-> RwSectionEnd(h), data |-> h.rwData, kind |-> "write"],
           [from |-> stackTop - P_Fn(h.s), to |-> stackTop, data |-> <<>>, kind |-> "write"],
           [from |-> argumentStart, to |-> argumentStart + P_Fn(Len(argument)),
            data |-> argument, kind |-> "read"] >>

\* createMemEntry for each: the last segment that has a page decides.
Owner(segments, address) ==
    LET owners == {i \in DOMAIN segments : address \in segments[i].from..segments[i].to - 1}
    IN  IF owners = {} THEN [kind |-> "none", from |-> 0, data |-> <<>>]
        ELSE segments[CHOOSE i \in owners : \A j \in owners : j <= i]

Memory(segments) ==
    [acl |-> [p \in 0..(Pow(4) \div Zp) - 1 |-> Owner(segments, p * Zp).kind],
     mem |-> [x \in 0..Pow(4) - 1 |->
                LET s == Owner(segments, x)
                IN  IF x - s.from < Len(s.data) THEN s.data[x - s.from + 1] ELSE 0]]

Registers13(argument) ==
    [r \in 0..12 |-> CASE r = 0 -> Pow(4) - Zz
                       [] r = 1 -> Pow(4) - 2 * Zz - Zi
                       [] r = 7 -> Pow(4) - Zz - Zi
                       [] r = 8 -> Len(argument)
                       [] OTHER -> 0]

\* programInitialization for a head h; the caller has seen that it fits.
Loaded(h, argument) ==
    LET memory == Memory(Segments(h, argument))
    IN  [acl |-> memory.acl, mem |-> memory.mem, w |-> Registers13(argument),
         heap |-> [end |-> RwSectionEnd(h), pointer |-> RwSectionEnd(h)]]

-----------------------------------------------------------------------------
(* PVMProgramCodec: jump table, code and mask, each behind its length.     *)

DeblobProgram(bytes) ==
    LET jCard == EDecode(bytes)
        z == E_subDecode(1, Subarray(bytes, jCard.readBytes, 1)).value
        afterZ == jCard.readBytes + 1
        cCard == EDecode(Subarray(bytes, afterZ, Len(bytes)))
        table == afterZ + cCard.readBytes
        code == table + z * jCard.value
        mask == code + cCard.value
    IN  IF mask + BytesFor(cCard.value) > Len(bytes) THEN [ok |-> FALSE]
        ELSE [ok |-> TRUE,
              j |-> [i \in 1..jCard.value |->
                       E_subDecode(z, Subarray(bytes, table + z * (i - 1), z)).value],
              c |-> Subarray(bytes, code, cCard.value),
              k |-> BitSequenceDecode(cCard.value,
                                      Subarray(bytes, mask, BytesFor(cCard.value)))]

(* The beginning of argumentInvocation: a program that does not fit or     *)
(* cannot be taken apart is a panic, a head that was cut is an exception.  *)
Start(blob) ==
    LET h == ReadBlob(blob)
    IN  CASE Len(blob) < HeadBytes -> "exception"
          [] Len(blob) >= HeadBytes /\ Fits(h) /\ DeblobProgram(h.code).ok -> "runs"
          [] OTHER -> "panic"

-----------------------------------------------------------------------------
\* A program and its sizes, written as the readers expect it.
CodeOf(p) ==
    E(Len(p.j)) \o <<p.z>> \o E(Len(p.c))
    \o FlattenSeq([i \in DOMAIN p.j |-> E_sub(p.z, p.j[i])]) \o p.c \o BitSequence(p.k)
BlobOf(h, p) ==
    E_sub(3, h.o) \o E_sub(3, h.w) \o E_sub(2, h.z) \o E_sub(3, h.s)
    \o h.roData \o h.rwData \o E_sub(4, Len(CodeOf(p))) \o CodeOf(p)

(* In the memory of a program that fits, a zone without access lies below, *)
(* between and above the segments, whatever their sizes.                   *)
SegmentsApart(h, argument) ==
    LET segments == Segments(h, argument)
    IN  /\ segments[1].from >= Zz
        /\ \A i \in 1..3 : segments[i].to + Zz <= segments[i + 1].from
        /\ segments[4].to + Zz <= Pow(4)

(* The registers lead to what they announce: below w1 is the stack, from   *)
(* w7 on the argument can be read, and the heap continues the data of the  *)
(* program, behind as many free pages as it asked for, on pages nobody has.*)
RegistersPointRight(h, argument) ==
    LET m == Loaded(h, argument)
    IN  /\ h.s > 0 => CanWrite(m.acl, m.w[1] - h.s, h.s)
        /\ CanWrite(m.acl, RwStart(h) + h.w, h.z * Zp)
        /\ m.acl[m.w[1] \div Zp] = "none"
        /\ CanRead(m.acl, m.w[7], m.w[8])
        /\ \A i \in DOMAIN argument : m.mem[m.w[7] + i - 1] = argument[i]
        /\ \A i \in DOMAIN h.rwData : m.mem[RwStart(h) + i - 1] = h.rwData[i]
        /\ m.heap.end % Zp = 0
        /\ m.acl[m.heap.end \div Zp] = "none"
        /\ h.w > 0 => m.acl[(m.heap.end \div Zp) - 1] = "write"

(* A blob is read as it was written, also when something follows it, and   *)
(* one that was cut anywhere does not run.  Behind the head what is missing*)
(* reads as zeros until the last test of deblobProgram, which no cut       *)
(* passes.                                                                 *)
BlobsReadWhole(h, p) ==
    LET blob == BlobOf(h, p)
        read == ReadBlob(blob \o <<1>>)
    IN  /\ read = [h EXCEPT !.code = CodeOf(p)]
        /\ DeblobProgram(read.code) = [ok |-> TRUE, j |-> p.j, c |-> p.c, k |-> p.k]
        /\ \A n \in 0..Len(blob) - 1 :
              Start(SubSeq(blob, 1, n)) = IF n < HeadBytes THEN "exception" ELSE "panic"
=============================================================================
