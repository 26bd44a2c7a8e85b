----------------------------- MODULE RaftServerPb -----------------------------
(***************************************************************************)
(* The message classes generated from raft_server.proto: StepRequest,      *)
(* StepResponse, StatusRequest and StatusResponse.                         *)
(*                                                                         *)
(* An object is its has bits, as a set of field numbers, the values of its *)
(* fields and its unknown fields.  The field of a StepRequest is a pointer *)
(* to a yaraft::pb::Message on the heap; operators that may change the     *)
(* heap take it and return it.  A byte stream is the sequence of the       *)
(* fields on it, each with its tag; bytes are counted where a size is.     *)
(* The wire format, UnknownFieldSet and yaraft::pb::Message belong to      *)
(* libraries.                                                              *)
(***************************************************************************)
EXTENDS SeqFolds

CONSTANTS
  Addrs,     \* where a yaraft::pb::Message may be allocated
  Null,      \* the null pointer
  Free,      \* the contents of an address that is not allocated
  Payloads,  \* values of a yaraft::pb::Message: functions from its set fields
  IntMod,    \* 2^32
  LongMod    \* 2^64

ASSUME AddrAssumption == Null \notin Addrs /\ Free \notin Payloads

ASSUME WidthAssumption ==
  /\ IntMod \in Nat /\ LongMod \in Nat /\ IntMod > 6 /\ IntMod < LongMod
  /\ LongMod % IntMod = 0

-----------------------------------------------------------------------------
(* Libraries: the wire format, yaraft::pb::Message, the allocator *)

Varint == 0
Fixed64 == 1
LengthDelimited == 2
EndGroup == 4
Fixed32 == 5

Tag(f) == 8 * f.num + f.type

VarintSize(v) ==
  IF v < 128 THEN 1 ELSE IF v < 128 * 128 THEN 2 ELSE IF v < 128 * 128 * 128 THEN 3
  ELSE IF v < 128 * 128 * 128 * 128 THEN 4 ELSE 5

FieldSize(f) ==
  VarintSize(Tag(f)) +
    CASE f.type = Varint -> VarintSize(f.v)
      [] f.type = LengthDelimited -> VarintSize(f.len) + f.len
      [] f.type = Fixed64 -> 8
      [] f.type = Fixed32 -> 4

FieldsSize(fs) == FoldLeft(LAMBDA sum, f : sum + FieldSize(f), 0, fs)

\* Message::Clear, MergeFrom and ByteSize.
EmptyMessage == [f \in {} |-> 0]

MergeMessage(p, q) ==
  [f \in DOMAIN p \cup DOMAIN q |-> IF f \in DOMAIN q THEN q[f] ELSE p[f]]

MessageSize(p) == 2 * Cardinality(DOMAIN p)

ASSUME PayloadAssumption ==
  /\ EmptyMessage \in Payloads
  /\ \A p \in Payloads : p = [f \in DOMAIN p |-> p[f]] /\ MessageSize(p) \in Nat
  /\ \A p, q \in Payloads : MergeMessage(p, q) \in Payloads

\* A field on the wire: its number, its wire type, and the number or the message
\* it holds.  Of one that is not whole the stream ends inside.
NumberField(num, v) ==
  [num |-> num, type |-> Varint, v |-> v, msg |-> EmptyMessage, len |-> 0, whole |-> TRUE]

MessageField(num, p) ==
  [num |-> num, type |-> LengthDelimited, v |-> 0, msg |-> p, len |-> MessageSize(p),
   whole |-> TRUE]

HasRoom(h) == \E x \in Addrs : h[x] = Free

New(h) == CHOOSE x \in Addrs : h[x] = Free

Delete(h, p) == IF p = Null THEN h ELSE [h EXCEPT ![p] = Free]

-----------------------------------------------------------------------------
(* What the classes have in common *)

\* set_<field>.
SetField(o, n, v) == [o EXCEPT !.has = @ \cup {n}, !.val[n] = v]

\* handle_unusual: the end, or a field kept among the unknown ones.
HandleUnusual(o, f) ==
  IF Tag(f) = 0 \/ f.type = EndGroup THEN [o |-> o, next |-> "success"]
  ELSE IF ~f.whole THEN [o |-> o, next |-> "failure"]
  ELSE [o |-> [o EXCEPT !.unknown = Append(@, f)], next |-> "more"]

-----------------------------------------------------------------------------
(* StepRequest: required .yaraft.pb.Message message = 1 *)

StepRequest_SharedCtor == [has |-> {}, val |-> <<Null>>, unknown |-> << >>]

StepRequest_SharedDtor(o, h) == Delete(h, o.val[1])

\* The contents message() returns: the default instance without a pointer.
StepRequest_message(o, h) == IF o.val[1] = Null THEN EmptyMessage ELSE h[o.val[1]]

StepRequest_mutable_message(o, h) ==
  IF o.val[1] # Null THEN [o |-> SetField(o, 1, o.val[1]), h |-> h]
  ELSE [o |-> SetField(o, 1, New(h)), h |-> [h EXCEPT ![New(h)] = EmptyMessage]]

\* Mutant of StepRequest_release_message: the pointer is kept.
StepRequest_release_kept(o) == [o EXCEPT !.has = @ \ {1}]

StepRequest_release_message(o) == [o EXCEPT !.has = @ \ {1}, !.val[1] = Null]

StepRequest_set_allocated_message(o, h, p) ==
  [o |-> [o EXCEPT !.val[1] = p, !.has = IF p = Null THEN @ \ {1} ELSE @ \cup {1}],
   h |-> Delete(h, o.val[1])]

StepRequest_clear_message(o, h) ==
  [o |-> [o EXCEPT !.has = @ \ {1}],
   h |-> IF o.val[1] = Null THEN h ELSE [h EXCEPT ![o.val[1]] = EmptyMessage]]

\* Mutant of StepRequest_Clear: the message keeps its contents.
StepRequest_Clear_keeps(o, h) == [o |-> [o EXCEPT !.has = {}, !.unknown = << >>], h |-> h]

\* The message is cleared, not deleted, and only if its bit is set.
StepRequest_Clear(o, h) ==
  [o |-> [o EXCEPT !.has = {}, !.unknown = << >>],
   h |-> IF 1 \in o.has /\ o.val[1] # Null THEN [h EXCEPT ![o.val[1]] = EmptyMessage] ELSE h]

\* One turn of the loop of MergePartialFromCodedStream.  What a message that is
\* cut off merges before the cut is left out.
StepRequest_Parse(o, h, f) ==
  IF Tag(f) = 10
    THEN LET m == StepRequest_mutable_message(o, h) IN
           IF f.whole
             THEN [o |-> m.o, h |-> [m.h EXCEPT ![m.o.val[1]] = MergeMessage(@, f.msg)],
                   next |-> "more"]
             ELSE [o |-> m.o, h |-> m.h, next |-> "failure"]
    ELSE LET u == HandleUnusual(o, f) IN [o |-> u.o, h |-> h, next |-> u.next]

StepRequest_Serialize(o, h) ==
  LET p == StepRequest_message(o, h)
  IN (IF 1 \in o.has THEN <<MessageField(1, p)>> ELSE << >>)
       \o o.unknown

\* Mutant of StepRequest_ByteSize: the length prefix is left out.
StepRequest_ByteSize_short(o, h) ==
  (IF 1 \in o.has THEN 1 + MessageSize(StepRequest_message(o, h)) ELSE 0) + FieldsSize(o.unknown)

StepRequest_ByteSize(o, h) ==
  LET n == MessageSize(StepRequest_message(o, h))
  IN (IF 1 \in o.has THEN 1 + VarintSize(n) + n ELSE 0) + FieldsSize(o.unknown)

StepRequest_MergeFrom(o, h, from) ==
  LET m == StepRequest_mutable_message(o, h)
      p == StepRequest_message(from, h)
      r == IF 1 \in from.has
             THEN [o |-> m.o, h |-> [m.h EXCEPT ![m.o.val[1]] = MergeMessage(@, p)]]
             ELSE [o |-> o, h |-> h]
  IN [o |-> [r.o EXCEPT !.unknown = @ \o from.unknown], h |-> r.h]

StepRequest_CopyFrom(o, h, from) ==
  LET c == StepRequest_Clear(o, h) IN StepRequest_MergeFrom(c.o, c.h, from)

StepRequest_IsInitialized(o) == 1 \in o.has

\* Swap exchanges the pointers, the bits and the unknown fields.
StepRequest_Swap(o, other) == <<other, o>>

-----------------------------------------------------------------------------
(* StepResponse: required .consensus.pb.StatusCode code = 1 *)

StatusCode_IsValid(v) == v \in {0, 1, 2}

StepResponse_SharedCtor == [has |-> {}, val |-> <<0>>, unknown |-> << >>]

StepResponse_set_code(o, code) == SetField(o, 1, code)

StepResponse_clear_code(o) == [o EXCEPT !.val[1] = 0, !.has = @ \ {1}]

StepResponse_Clear(o) == [o EXCEPT !.val = <<0>>, !.has = {}, !.unknown = << >>]

\* An enum is read into an int, and a value that is none of the enum's goes to
\* the unknown fields, widened with its sign.
ReadEnum(v) == v % IntMod
WidenInt(i) == IF i >= IntMod \div 2 THEN i + LongMod - IntMod ELSE i

\* Mutant of StepResponse_Parse: the value is stored without a look at it.
StepResponse_Parse_any(o, f) ==
  IF Tag(f) = 8
    THEN IF ~f.whole THEN [o |-> o, next |-> "failure"]
         ELSE [o |-> StepResponse_set_code(o, ReadEnum(f.v)), next |-> "more"]
    ELSE HandleUnusual(o, f)

StepResponse_Parse(o, f) ==
  IF Tag(f) = 8
    THEN IF ~f.whole THEN [o |-> o, next |-> "failure"]
         ELSE IF StatusCode_IsValid(ReadEnum(f.v))
           THEN [o |-> StepResponse_set_code(o, ReadEnum(f.v)), next |-> "more"]
           ELSE [o |-> [o EXCEPT !.unknown =
                          Append(@, NumberField(1, WidenInt(ReadEnum(f.v))))],
                 next |-> "more"]
    ELSE HandleUnusual(o, f)

\* The whole loop, over fields that are read to the end, into a new object.
StepResponse_ParseFields(fs) ==
  FoldLeft(LAMBDA o, f : StepResponse_Parse(o, f).o, StepResponse_SharedCtor, fs)

StepResponse_Serialize(o) ==
  (IF 1 \in o.has THEN <<NumberField(1, o.val[1])>> ELSE << >>) \o o.unknown

StepResponse_ByteSize(o) ==
  (IF 1 \in o.has THEN 1 + VarintSize(o.val[1]) ELSE 0) + FieldsSize(o.unknown)

StepResponse_MergeFrom(o, from) ==
  LET r == IF 1 \in from.has THEN StepResponse_set_code(o, from.val[1]) ELSE o
  IN [r EXCEPT !.unknown = @ \o from.unknown]

StepResponse_CopyFrom(o, from) == StepResponse_MergeFrom(StepResponse_Clear(o), from)

StepResponse_IsInitialized(o) == 1 \in o.has

StepResponse_Swap(o, other) == <<other, o>>

-----------------------------------------------------------------------------
(* StatusRequest: no field *)

StatusRequest_SharedCtor == [has |-> {}, val |-> << >>, unknown |-> << >>]

StatusRequest_Clear(o) == [o EXCEPT !.has = {}, !.unknown = << >>]

StatusRequest_Parse(o, f) == HandleUnusual(o, f)

StatusRequest_Serialize(o) == o.unknown

StatusRequest_ByteSize(o) == FieldsSize(o.unknown)

StatusRequest_MergeFrom(o, from) == [o EXCEPT !.unknown = @ \o from.unknown]

StatusRequest_CopyFrom(o, from) == StatusRequest_MergeFrom(StatusRequest_Clear(o), from)

\* The bits, of which there are none, stay where they are.
StatusRequest_Swap(o, other) ==
  <<[o EXCEPT !.unknown = other.unknown], [other EXCEPT !.unknown = o.unknown]>>

-----------------------------------------------------------------------------
(* StatusResponse: optional uint64 leader, raftIndex, raftTerm, raftCommit *)

StatusResponse_SharedCtor == [has |-> {}, val |-> <<0, 0, 0, 0>>, unknown |-> << >>]

StatusResponse_set_leader(o, v) == SetField(o, 1, v)
StatusResponse_set_raftindex(o, v) == SetField(o, 2, v)
StatusResponse_set_raftterm(o, v) == SetField(o, 3, v)
StatusResponse_set_raftcommit(o, v) == SetField(o, 4, v)

StatusResponse_clear_field(o, n) == [o EXCEPT !.val[n] = 0, !.has = @ \ {n}]

StatusResponse_Clear(o) == [o EXCEPT !.val = <<0, 0, 0, 0>>, !.has = {}, !.unknown = << >>]

\* Each case of the switch, entered by its tag or, after the field before it,
\* by the jump ExpectTag takes on the same tag.
StatusResponse_Parse(o, f) ==
  IF Tag(f) \in {8, 16, 24, 32}
    THEN IF ~f.whole THEN [o |-> o, next |-> "failure"]
         ELSE [o |-> SetField(o, f.num, f.v), next |-> "more"]
    ELSE HandleUnusual(o, f)

StatusResponse_ParseFields(fs) ==
  FoldLeft(LAMBDA o, f : StatusResponse_Parse(o, f).o, StatusResponse_SharedCtor, fs)

StatusResponse_Serialize(o) ==
  LET Written(n) == IF n \in o.has THEN <<NumberField(n, o.val[n])>> ELSE << >>
  IN Written(1) \o Written(2) \o Written(3) \o Written(4) \o o.unknown

StatusResponse_ByteSize(o) ==
  LET Size(n) == IF n \in o.has THEN 1 + VarintSize(o.val[n]) ELSE 0
  IN Size(1) + Size(2) + Size(3) + Size(4) + FieldsSize(o.unknown)

\* Mutant of StatusResponse_MergeFrom: fields that are not set are copied too.
StatusResponse_MergeFrom_all(o, from) ==
  [has |-> o.has \cup from.has, val |-> from.val, unknown |-> o.unknown \o from.unknown]

StatusResponse_MergeFrom(o, from) ==
  [has |-> o.has \cup from.has,
   val |-> [n \in 1..4 |-> IF n \in from.has THEN from.val[n] ELSE o.val[n]],
   unknown |-> o.unknown \o from.unknown]

StatusResponse_CopyFrom(o, from) == StatusResponse_MergeFrom(StatusResponse_Clear(o), from)

StatusResponse_Swap(o, other) == <<other, o>>

=============================================================================
