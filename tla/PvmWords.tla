------------------------------ MODULE PvmWords ------------------------------
(***************************************************************************)
(* The machine words of the virtual machine: the integers the two          *)
(* interpreters compute with.  A register holds 8 bytes, an address 4; a   *)
(* byte has ByteBits bits (8 in the code), so that every width, mask and   *)
(* limit of the code is written with its own number of bytes and a small   *)
(* ByteBits makes the whole range of a register enumerable.  A JavaScript  *)
(* number keeps FloatBits bits of an integer (53 in the code).             *)
(***************************************************************************)
EXTENDS Integers, Sequences

CONSTANTS ByteBits, FloatBits

ASSUME WordsAssumption ==
    /\ ByteBits \in Nat \ {0}
    /\ FloatBits \in Nat \ {0}

\* How many values n bytes have: 2 ** (8 * n) of the code.
Pow(n) == 2^(ByteBits * n)

\* The numbers of n bytes.
Width(n) == 0..Pow(n) - 1
Byte == Width(1)
Register == Width(8)

Bits64 == ByteBits * 8
Bits32 == ByteBits * 4

Absolute(a) == IF a < 0 THEN -a ELSE a
Least(a, b) == IF a < b THEN a ELSE b

-----------------------------------------------------------------------------
(* Signed readings, zed.ts: Z reads n bytes as a signed number, Z_inv is   *)
(* its inverse; X_fn extends the sign of n bytes over a register.          *)

Z(n, a) == IF n = 0 THEN 0 ELSE IF a >= Pow(n) \div 2 THEN a - Pow(n) ELSE a

Z_inv(n, a) == (Pow(n) + a) % Pow(n)

X_fn(n, x) == x + (x \div (Pow(n) \div 2)) * (Pow(8) - Pow(n))

\* The sum of the first n of the terms t[1], t[2], ...
SumOfFirst(n, t) ==
    LET sum[i \in 0..n] == IF i = 0 THEN 0 ELSE sum[i - 1] + t[i]
    IN  sum[n]

\* readLE and E_sub: the value of a little-endian sequence of bytes.
ReadLE(b) == SumOfFirst(Len(b), [i \in 1..Len(b) |-> b[i] * Pow(i - 1)])

\* readVarIntFromBuffer: the immediate that the bytes b encode.
Varint(b) == IF b = <<>> THEN 0 ELSE X_fn(Len(b), ReadLE(b))

\* The byte number i, counted from 0, of the value v.
ByteOf(v, i) == (v \div Pow(i)) % Pow(1)

-----------------------------------------------------------------------------
(* Division that truncates, and the remainder that has the sign of a.      *)

TruncDiv(a, b) ==
    LET q == Absolute(a) \div Absolute(b)
    IN  IF (a < 0) = (b < 0) THEN q ELSE -q

MutSmod(a, b) == IF b = 0 THEN a ELSE a % Absolute(b)
Smod(a, b) ==
    IF b = 0 THEN a
    ELSE (IF a < 0 THEN -1 ELSE 1) * (Absolute(a) % Absolute(b))

-----------------------------------------------------------------------------
(* Bitwise operations on words of n bits.                                  *)

Bit(x, i) == (x \div 2^i) % 2

BitFold(n, f) == SumOfFirst(n, [i \in 1..n |-> f[i - 1] * 2^(i - 1)])

And(x, y) == BitFold(Bits64, [i \in 0..Bits64 - 1 |-> Bit(x, i) * Bit(y, i)])
Or(x, y)  == BitFold(Bits64, [i \in 0..Bits64 - 1 |->
                                 IF Bit(x, i) + Bit(y, i) > 0 THEN 1 ELSE 0])
Xor(x, y) == BitFold(Bits64, [i \in 0..Bits64 - 1 |-> (Bit(x, i) + Bit(y, i)) % 2])
Not(x)    == Pow(8) - 1 - x

CountBits(n, x) == SumOfFirst(n, [i \in 1..n |-> Bit(x, i - 1)])

\* How many bits of x are zero above its highest set bit, and below its lowest.
LeadingZeros(n, x) ==
    IF \A i \in 0..n - 1 : Bit(x, i) = 0 THEN n
    ELSE n - 1 - (CHOOSE i \in 0..n - 1 : Bit(x, i) = 1 /\ \A j \in i + 1..n - 1 : Bit(x, j) = 0)

TrailingZeros(n, x) ==
    IF \A i \in 0..n - 1 : Bit(x, i) = 0 THEN n
    ELSE CHOOSE i \in 0..n - 1 : Bit(x, i) = 1 /\ \A j \in 0..i - 1 : Bit(x, j) = 0

\* x, a word of n bits, rotated to the right by s bits.
RotateRight(n, x, s) == (x \div 2^s) + ((x * 2^(n - s)) % 2^n)
RotateLeft(n, x, s) == RotateRight(n, x, (n - s) % n)

ReverseBytes(x) == SumOfFirst(8, [i \in 1..8 |-> ByteOf(x, i - 1) * Pow(8 - i)])

-----------------------------------------------------------------------------
(* Number(x): the JavaScript number nearest to the integer x.              *)

Float(x) ==
    IF x < 2^FloatBits THEN x
    ELSE LET drop == CHOOSE s \in 1..Bits64 : 2^(FloatBits + s - 1) <= x /\ x < 2^(FloatBits + s)
             q == x \div 2^drop
             r == x % 2^drop
             up == \/ r > 2^(drop - 1)
                   \/ r = 2^(drop - 1) /\ q % 2 = 1
         IN  (IF up THEN q + 1 ELSE q) * 2^drop
=============================================================================
