------------------------------- MODULE Schemas -------------------------------
(***************************************************************************)
(* The combinators of the codec.  A codec is a record: its kind, and the   *)
(* codecs it is made of.  Decoding gives the value and the number of bytes *)
(* read, or an exception; what is missing at the end of the bytes is found *)
(* by records only, which compare what was read with what was there.       *)
(*                                                                         *)
(* Values: numbers; sequences; <<>> or <<v>> for what is optional;         *)
(* functions for dictionaries; [which, value] for one of several.          *)
(***************************************************************************)
EXTENDS Codec

\* One constructor for each factory of the code; what the codec it makes does
\* is the case of its kind in Encode and in Decode.
IntOf(size) == [kind |-> "int", size |-> size]
Number == [kind |-> "number"]
BitsOf(n) == [kind |-> "bits", n |-> n]
FixedBytes(size) == [kind |-> "bytes", size |-> size]
Bytes == [kind |-> "blob"]
Optional(codec) == [kind |-> "optional", of |-> codec]
SequenceOf(n, codec) == [kind |-> "sequence", n |-> n, of |-> codec]
ArrayOf(codec) == [kind |-> "array", of |-> codec]
Dictionary(key, of) == [kind |-> "dictionary", key |-> key, of |-> of]
RecordOf(fields) == [kind |-> "record", fields |-> fields]
OneOf(bytes, codecs) == [kind |-> "oneOf", bytes |-> bytes, of |-> codecs]

SortedKeys(value) == SetToSortSeq(DOMAIN value, LAMBDA a, b : a < b)

RECURSIVE Encode(_, _)
Encode(codec, value) ==
  LET Each(of, values) == FlattenSeq([i \in DOMAIN values |-> Encode(of, values[i])])
  IN  CASE codec.kind = "int" -> E_sub(codec.size, value)
        [] codec.kind = "number" -> E(value)
        [] codec.kind = "bits" -> BitSequence(value)
        [] codec.kind = "bytes" -> value
        [] codec.kind = "blob" -> E(Len(value)) \o value
        [] codec.kind = "optional" ->
             IF value = <<>> THEN <<0>> ELSE <<1>> \o Encode(codec.of, value[1])
        [] codec.kind = "sequence" -> Each(codec.of, value)
        [] codec.kind = "array" -> E(Len(value)) \o Each(codec.of, value)
        [] codec.kind = "dictionary" ->
             LET keys == SortedKeys(value)
             IN  E(Len(keys))
                 \o FlattenSeq([i \in DOMAIN keys |-> Encode(codec.key, keys[i])
                                                      \o Encode(codec.of, value[keys[i]])])
        [] codec.kind = "record" ->
             FlattenSeq([i \in DOMAIN codec.fields |-> Encode(codec.fields[i], value[i])])
        [] codec.kind = "oneOf" ->
             <<codec.bytes[value.which]>> \o Encode(codec.of[value.which], value.value)

Outcome(value, readBytes) == [ok |-> TRUE, value |-> value, readBytes |-> readBytes]
Exception == [ok |-> FALSE, value |-> <<>>, readBytes |-> 0]

\* What was read from `used` bytes on, and made into the value.
After(used, read, value) ==
  IF read.ok THEN Outcome(value, used + read.readBytes) ELSE Exception

\* createCodec.decode, after each field: out of bytes.
Missing(strict, readBytes, bytes) == strict /\ readBytes > Len(bytes)

RECURSIVE Decode(_, _)

\* The values of the codecs one after the other.
DecodeAll(codecs, bytes, strict) ==
  FoldLeft(LAMBDA read, codec :
             IF ~read.ok THEN read
             ELSE LET next == Decode(codec, Subarray(bytes, read.readBytes, Len(bytes)))
                      all == After(read.readBytes, next, Append(read.value, next.value))
                  IN  IF all.ok /\ Missing(strict, all.readBytes, bytes) THEN Exception ELSE all,
           Outcome(<<>>, 0), codecs)

Decode(codec, bytes) ==
  LET Rest(used) == Subarray(bytes, used, Len(bytes))
      Times(n, of) == [i \in 1..n |-> of]
      length == EDecode(bytes)
      content == Subarray(bytes, length.readBytes, length.value)
      number == E_subDecode(codec.size, bytes)
  IN  CASE codec.kind = "int" -> Outcome(number.value, codec.size)
        [] codec.kind = "number" -> Outcome(length.value, length.readBytes)
        [] codec.kind = "bits" ->
             Outcome(BitSequenceDecode(codec.n, bytes), BytesFor(codec.n))
        [] codec.kind = "bytes" -> Outcome(Subarray(bytes, 0, codec.size), codec.size)
        [] codec.kind = "blob" -> Outcome(content, length.readBytes + Len(content))
        [] codec.kind = "optional" ->
             LET inner == Decode(codec.of, Rest(1))
             IN  IF bytes # <<>> /\ bytes[1] = 0 THEN Outcome(<<>>, 1)
                 ELSE After(1, inner, <<inner.value>>)
        [] codec.kind = "sequence" -> DecodeAll(Times(codec.n, codec.of), bytes, FALSE)
        [] codec.kind = "array" ->
             LET items == DecodeAll(Times(length.value, codec.of), Rest(length.readBytes), FALSE)
             IN  After(length.readBytes, items, items.value)
        [] codec.kind = "dictionary" ->
             LET items == DecodeAll([i \in 1..2 * length.value |->
                                       IF i % 2 = 1 THEN codec.key ELSE codec.of],
                                    Rest(length.readBytes), FALSE)
                 key == [i \in 1..length.value |-> items.value[2 * i - 1]]
                 last(k) == CHOOSE i \in DOMAIN key :
                              key[i] = k /\ \A j \in DOMAIN key : key[j] = k => j <= i
             IN  After(length.readBytes, items,
                       [k \in Range(key) |-> items.value[2 * last(k)]])
        [] codec.kind = "record" -> DecodeAll(codec.fields, bytes, TRUE)
        [] codec.kind = "oneOf" ->
             LET which == {i \in DOMAIN codec.bytes : bytes # <<>> /\ codec.bytes[i] = bytes[1]}
                 chosen == CHOOSE i \in which : TRUE
                 inner == Decode(codec.of[chosen], Rest(1))
             IN  IF which = {} THEN Exception
                 ELSE After(1, inner, [which |-> chosen, value |-> inner.value])

-----------------------------------------------------------------------------
\* A byte string reads as many bytes as there are: one at the end may be cut.
RECURSIVE EndsInBlob(_)
EndsInBlob(codec) ==
  CASE codec.kind = "blob" -> TRUE
    [] codec.kind \in {"optional", "sequence", "array", "dictionary"} -> EndsInBlob(codec.of)
    [] codec.kind = "record" -> EndsInBlob(codec.fields[Len(codec.fields)])
    [] codec.kind = "oneOf" -> \E i \in DOMAIN codec.of : EndsInBlob(codec.of[i])
    [] OTHER -> FALSE

(* Whatever follows it, a value is read back, and as many bytes as were    *)
(* written; a record that was cut is refused wherever the cut is, unless a *)
(* byte string comes last (codec utils.ts:28-74, length-discriminator.ts:  *)
(* 24-63, key-value.ts:35-83).                                             *)
ReadsBackAlone(codec, value) ==
  LET bytes == Encode(codec, value)
  IN  /\ \A next \in {<<>>, <<0>>, <<1, 1>>} :
           Decode(codec, bytes \o next) = Outcome(value, Len(bytes))
      /\ codec.kind = "record" /\ ~EndsInBlob(codec) =>
           \A n \in 0..Len(bytes) - 1 : ~Decode(codec, SubSeq(bytes, 1, n)).ok
=============================================================================
