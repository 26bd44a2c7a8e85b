------------------------------- MODULE Coding -------------------------------
(***************************************************************************)
(* base/coding: integers and strings as bytes.  A byte holds a group of a  *)
(* varint and a flag, so it has 2 * B values where a group has B.  The     *)
(* code has B = 128 and words of 4 and 8 bytes; the sizes are parameters,  *)
(* so that every value of a small word can be enumerated.                  *)
(***************************************************************************)
EXTENDS SeqFolds

CONSTANTS
  B,             \* values of a group: 1 << 7
  Fixed32Bytes,  \* sizeof(uint32_t)
  Fixed64Bytes,  \* sizeof(uint64_t)
  Groups32,      \* groups of the longest varint32: 5, the last one partial
  Groups64       \* groups of the longest varint64: 10

ASSUME CodingAssumption ==
  /\ B \in Nat /\ B > 1
  /\ Fixed32Bytes \in Nat /\ Fixed64Bytes \in Nat
  /\ 0 < Fixed32Bytes /\ Fixed32Bytes <= Fixed64Bytes
  /\ Groups32 \in Nat /\ Groups64 \in Nat

Byte == 0..2 * B - 1

SumSeq(s) == FoldLeft(LAMBDA m, n : m + n, 0, s)

\* b multiplied n times, by which a shift to the left multiplies.
Pow(b, n) == FoldLeft(LAMBDA p, x : p * x, 1, [i \in 1..n |-> b])

\* One more than the largest uint32_t and uint64_t.
Width32 == Pow(2 * B, Fixed32Bytes)
Width64 == Pow(2 * B, Fixed64Bytes)

ASSUME GroupsAssumption == Pow(B, Groups32) >= Width32 /\ Pow(B, Groups64) >= Width64

\* The i-th digit of v, the least significant first: v shifted to the right and cut.
Digit(v, b, i) == (v \div Pow(b, i - 1)) % b

\* Digits shifted to the left, each to its place, and put together.
Placed(digits, b) == SumSeq([i \in DOMAIN digits |-> digits[i] * Pow(b, i - 1)])

-----------------------------------------------------------------------------
(* Words of a fixed length, least significant byte first *)

EncodeFixed(v, bytes) == [i \in 1..bytes |-> Digit(v, 2 * B, i)]

EncodeFixed32(v) == EncodeFixed(v, Fixed32Bytes)

EncodeFixed64(v) == EncodeFixed(v, Fixed64Bytes)

DecodeFixed(bytes) == Placed(bytes, 2 * B)

DecodeFixed32(buf) == DecodeFixed(SubSeq(buf, 1, Fixed32Bytes))

DecodeFixed64(buf) ==
  LET lo == DecodeFixed(SubSeq(buf, 1, Fixed32Bytes))
      hi == DecodeFixed(SubSeq(buf, Fixed32Bytes + 1, Fixed64Bytes))
  IN hi * Width32 + lo

-----------------------------------------------------------------------------
(* Varints: groups of a number, least significant first, all flagged but   *)
(* the last.                                                               *)

\* The groups of v in n bytes; the last byte is what is left of v, cut to a byte.
Varint(v, n) ==
  [i \in 1..n |-> IF i < n THEN Digit(v, B, i) + B ELSE (v \div Pow(B, n - 1)) % (2 * B)]

\* EncodeVarint32 compares v with 1 << 7, 1 << 14, ...; no comparison follows
\* the last one.
EncodeVarint32(v) == Varint(v, 1 + Cardinality({k \in 1..Groups32 - 1 : v >= Pow(B, k)}))

\* EncodeVarint64 shifts v until it is below B.
EncodeVarint64(v) ==
  Varint(v, CHOOSE n \in 1..Groups64 : v < Pow(B, n) /\ \A k \in 1..n - 1 : v >= Pow(B, k))

\* Mutant of VarintLength: a boundary value counts as one byte too few.
VarintLengthOffByOne(v) == 1 + Cardinality({k \in 1..Groups64 - 1 : v > Pow(B, k)})

\* VarintLength, for both widths.
VarintLength(v) == 1 + Cardinality({k \in 1..Groups64 - 1 : v >= Pow(B, k)})

Refused == [ok |-> FALSE]

\* The first byte without the flag, among those the loop may look at.
LastByte(input, groups) ==
  {i \in 1..Len(input) : i <= groups /\ input[i] < B /\ \A j \in 1..i - 1 : input[j] >= B}

\* The shifted groups of the first n bytes, cut to a word.
Shifted(input, n, width) == Placed([i \in 1..n |-> input[i] % B], B) % width

GetVarint(input, groups, width) ==
  IF LastByte(input, groups) = {} THEN Refused
  ELSE LET n == CHOOSE i \in LastByte(input, groups) : TRUE IN
         [ok |-> TRUE, value |-> Shifted(input, n, width),
          rest |-> SubSeq(input, n + 1, Len(input))]

\* GetVarint32, its fast path for one byte and its loop.
GetVarint32(input) == GetVarint(input, Groups32, Width32)

GetVarint64(input) == GetVarint(input, Groups64, Width64)

\* PutLengthPrefixedSlice; saveHardState and saveEntries write the same form.
LengthPrefixed(value) == EncodeVarint32(Len(value)) \o value

\* GetLengthPrefixedSlice(Slice*, Slice*).
GetLengthPrefixedSlice(input) ==
  LET len == GetVarint32(input) IN
    IF ~len.ok THEN Refused
    ELSE IF Len(len.rest) < len.value THEN Refused
    ELSE [ok |-> TRUE, value |-> SubSeq(len.rest, 1, len.value),
          rest |-> SubSeq(len.rest, len.value + 1, Len(len.rest))]
=============================================================================
