-------------------------------- MODULE Codec --------------------------------
(***************************************************************************)
(* Integers and bits as bytes: the fixed encoding E_sub, the variable one  *)
(* E, and sequences of bits.  A byte has ByteBits bits, and E uses up to   *)
(* ByteBits bytes after the first, as the code has eight of both.  Reading *)
(* past the end finds nothing, since a subarray is cut to its buffer: none *)
(* of these readers refuses, but each says how many bytes it should have   *)
(* had.                                                                    *)
(***************************************************************************)
EXTENDS PvmWords, SequencesExt

\* subarray: the n bytes after the first `offset`, or what there is of them.
Subarray(bytes, offset, n) == SubSeq(bytes, offset + 1, Least(offset + n, Len(bytes)))

E_sub(n, value) == [i \in 1..n |-> ByteOf(value, i - 1)]
E_subDecode(n, bytes) == [value |-> ReadLE(Subarray(bytes, 0, n)), readBytes |-> n]

\* A first byte that begins with l ones and a zero.
Ones(l) == Pow(1) - 2^(ByteBits - l)

\* How many bytes follow the first: one for each boundary the value has passed.
Following(value) ==
  Cardinality({i \in 1..ByteBits - 1 : value >= 2^((ByteBits - 1) * i)})

E(value) ==
  IF value < 2^((ByteBits - 1) * ByteBits)
  THEN LET l == Following(value)
       IN  <<Ones(l) + value \div Pow(l)>> \o E_sub(l, value % Pow(l))
  ELSE <<Pow(1) - 1>> \o E_sub(ByteBits, value)

EncodedSize(value) ==
  IF value < 2^((ByteBits - 1) * ByteBits) THEN 1 + Following(value) ELSE 1 + ByteBits

EDecode(bytes) ==
  IF bytes = <<>> \/ bytes[1] = Pow(1) - 1
  THEN [value |-> E_subDecode(ByteBits, Subarray(bytes, 1, ByteBits)).value,
        readBytes |-> 1 + ByteBits]
  ELSE LET l == Cardinality({i \in 1..ByteBits - 1 : bytes[1] >= Ones(i)})
       IN  [value |-> E_subDecode(l, Subarray(bytes, 1, l)).value
                        + Pow(l) * (bytes[1] - Ones(l)),
            readBytes |-> 1 + l]

-----------------------------------------------------------------------------
(* BitSequenceCodec: the lowest bit of a byte comes first.                 *)

BytesFor(n) == (n + ByteBits - 1) \div ByteBits

BitSequence(bits) ==
  [i \in 1..BytesFor(Len(bits)) |->
     BitFold(ByteBits, [j \in 0..ByteBits - 1 |->
                          IF (i - 1) * ByteBits + j < Len(bits)
                          THEN bits[(i - 1) * ByteBits + j + 1] ELSE 0])]

BitSequenceDecode(n, bytes) ==
  [i \in 1..n |->
     LET byte == (i - 1) \div ByteBits
     IN  IF byte < Len(bytes) THEN Bit(bytes[byte + 1], (i - 1) % ByteBits) ELSE 0]

-----------------------------------------------------------------------------
(* Whatever follows it, a number is read back with its size, so that the   *)
(* encodings are prefix free and what comes next is found (e.ts:13-86).    *)
IntegersReadBack ==
  \A value \in 0..Pow(ByteBits) - 1, next \in {<<>>} \cup {<<b>> : b \in 0..Pow(1) - 1} :
    EDecode(E(value) \o next) = [value |-> value, readBytes |-> EncodedSize(value)]
=============================================================================
