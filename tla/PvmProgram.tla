----------------------------- MODULE PvmProgram -----------------------------
(***************************************************************************)
(* Programs of the virtual machine and what both interpreters know of      *)
(* them: the kinds of instructions, which of them end a basic block, where *)
(* the next instruction is.                                                *)
(*                                                                         *)
(* A program is a record [len, c, k, j] as in PVMProgram: the code, the mask of *)
(* the positions where an instruction begins, the jump table.  Positions   *)
(* count from 0; c and k are functions of the position.  The first one or  *)
(* two bytes of the arguments, which hold register numbers and lengths,    *)
(* are numbers up to 255; the bytes of an immediate are below Pow(1).      *)
(***************************************************************************)
EXTENDS PvmMemory

CONSTANT NRegs      \* 13 in the code: the highest register a nibble can name

ASSUME RegistersAssumption == NRegs \in Nat \ {0}

\* The decoder of each opcode, as the table of Ix(...) registers them.
DecoderOf(op) ==
    CASE op \in {0, 1} -> "none"
      [] op = 10 -> "imm"
      [] op = 20 -> "regExt"
      [] op \in 30..33 -> "twoImm"
      [] op = 40 -> "offset"
      [] op \in 50..62 -> "regImm"
      [] op \in 70..73 -> "regTwoImm"
      [] op \in 80..90 -> "regImmOffset"
      [] op \in 100..111 -> "twoReg"
      [] op \in 120..161 -> "twoRegImm"
      [] op \in 170..175 -> "twoRegOffset"
      [] op = 180 -> "twoRegTwoImm"
      [] op \in 190..230 -> "threeReg"
      [] OTHER -> "unknown"

\* Ixdb.blockTerminators: the opcodes marked BlockTermination.
BlockTerminators ==
    {0, 1, 20, 40, 50, 180} \cup (80..90) \cup (170..175)

\* Instructions that set the pointer themselves.
HandlesPointer(op) == op \in {0, 1, 40, 50, 180} \cup (80..90) \cup (170..175)

\* How many bytes a load or a store moves.
BytesMoved(op) ==
    CASE op \in {30, 52, 53, 59, 70, 120, 124, 125} -> 1
      [] op \in {31, 54, 55, 60, 71, 121, 126, 127} -> 2
      [] op \in {32, 56, 57, 61, 72, 122, 128, 129} -> 4
      [] op \in {33, 58, 62, 73, 123, 130} -> 8

Loads == (52..58) \cup (124..130)
Stores == (30..33) \cup (59..62) \cup (70..73) \cup (120..123)

-----------------------------------------------------------------------------
(* Arguments of an instruction: the bytes between two opcodes.             *)

Sub(args, from, to) == SubSeq(args, from + 1, IF to < Len(args) THEN to ELSE Len(args))
ByteAt(args, i) == args[i + 1]
Low(byte) == Least(NRegs - 1, byte % 16)
High(byte) == Least(NRegs - 1, byte \div 16)
LowLength(byte) == Least(4, byte % 8)
HighLength(byte) == Least(4, (byte \div 16) % 8)
Room(args, used) == Least(4, IF Len(args) > used THEN Len(args) - used ELSE 0)

ArgsAt(prog, pc, skip) == [i \in 1..skip - 1 |-> prog.c[pc + i]]

NoOperands == [rA |-> 0, rB |-> 0, rD |-> 0, vX |-> 0, vY |-> 0, offset |-> 0]
-----------------------------------------------------------------------------
(* What a program's basic blocks are, by definition: one begins at the     *)
(* start of the program and one after every terminator.                    *)

NextOpcode(prog, pc) ==
    LET later == {n \in pc + 1..prog.len - 1 : prog.k[n] = 1}
    IN  IF later = {} THEN prog.len ELSE CHOOSE n \in later : \A o \in later : n <= o

BlockStarts(prog) ==
    {pc \in 0..prog.len - 1 :
        /\ prog.k[pc] = 1
        /\ \/ pc = 0
           \/ \E t \in 0..pc - 1 : /\ prog.k[t] = 1
                                   /\ prog.c[t] \in BlockTerminators
                                   /\ NextOpcode(prog, t) = pc}
=============================================================================
