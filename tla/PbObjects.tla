------------------------------ MODULE PbObjects ------------------------------
(***************************************************************************)
(* Objects of one of the generated classes, and a caller that uses them:   *)
(* sets and clears fields, merges, copies and swaps objects, passes        *)
(* messages it owns into a request and takes them out, serializes an       *)
(* object and parses what came over the wire, which another version of the *)
(* program may have written.                                               *)
(*                                                                         *)
(* The parser's loop is one action per field.  All of this runs in one     *)
(* thread; a parse in progress is not interrupted.                         *)
(***************************************************************************)
EXTENDS RaftServerPb

CONSTANTS
  Objs,       \* the objects
  Numbers,    \* values of uint64 fields
  Streams,    \* what may come over the wire
  MaxUnknown  \* bound: unknown fields of the objects together

Kinds == {"StepRequest", "StepResponse", "StatusRequest", "StatusResponse"}

\* Fields as any version may send them.
Fields ==
  [num : Nat, type : {Varint, Fixed64, LengthDelimited, EndGroup, Fixed32},
   v : 0..LongMod - 1, msg : Payloads, len : Nat, whole : BOOLEAN]

ASSUME ObjectAssumption ==
  /\ Numbers \subseteq 0..LongMod - 1
  /\ \A s \in Streams : s \in Seq(Fields)
  /\ MaxUnknown \in Nat

VARIABLES
  kind,  \* the class the objects belong to
  obj,   \* the objects
  heap,  \* contents of the addresses
  held,  \* addresses the caller owns
  wire,  \* fields the parser has not read yet
  last   \* history: the operation, its object, and the value that one should get, if known

vars == <<kind, obj, heap, held, wire, last>>

IsRequest == kind = "StepRequest"

-----------------------------------------------------------------------------
(* The operations of the class at hand *)

Ctor(k) ==
  CASE k = "StepRequest" -> StepRequest_SharedCtor
    [] k = "StepResponse" -> StepResponse_SharedCtor
    [] k = "StatusRequest" -> StatusRequest_SharedCtor
    [] k = "StatusResponse" -> StatusResponse_SharedCtor

ClearOf(o, h) ==
  CASE kind = "StepRequest" -> StepRequest_Clear(o, h)
    [] kind = "StepResponse" -> [o |-> StepResponse_Clear(o), h |-> h]
    [] kind = "StatusRequest" -> [o |-> StatusRequest_Clear(o), h |-> h]
    [] kind = "StatusResponse" -> [o |-> StatusResponse_Clear(o), h |-> h]

Merged(o, h, from) ==
  CASE kind = "StepRequest" -> StepRequest_MergeFrom(o, h, from)
    [] kind = "StepResponse" -> [o |-> StepResponse_MergeFrom(o, from), h |-> h]
    [] kind = "StatusRequest" -> [o |-> StatusRequest_MergeFrom(o, from), h |-> h]
    [] kind = "StatusResponse" -> [o |-> StatusResponse_MergeFrom(o, from), h |-> h]

Copied(o, h, from) ==
  CASE kind = "StepRequest" -> StepRequest_CopyFrom(o, h, from)
    [] kind = "StepResponse" -> [o |-> StepResponse_CopyFrom(o, from), h |-> h]
    [] kind = "StatusRequest" -> [o |-> StatusRequest_CopyFrom(o, from), h |-> h]
    [] kind = "StatusResponse" -> [o |-> StatusResponse_CopyFrom(o, from), h |-> h]

Swapped(o, other) ==
  CASE kind = "StepRequest" -> StepRequest_Swap(o, other)
    [] kind = "StepResponse" -> StepResponse_Swap(o, other)
    [] kind = "StatusRequest" -> StatusRequest_Swap(o, other)
    [] kind = "StatusResponse" -> StatusResponse_Swap(o, other)

Serialized(o, h) ==
  CASE kind = "StepRequest" -> StepRequest_Serialize(o, h)
    [] kind = "StepResponse" -> StepResponse_Serialize(o)
    [] kind = "StatusRequest" -> StatusRequest_Serialize(o)
    [] kind = "StatusResponse" -> StatusResponse_Serialize(o)

ByteSize(o, h) ==
  CASE kind = "StepRequest" -> StepRequest_ByteSize(o, h)
    [] kind = "StepResponse" -> StepResponse_ByteSize(o)
    [] kind = "StatusRequest" -> StatusRequest_ByteSize(o)
    [] kind = "StatusResponse" -> StatusResponse_ByteSize(o)

Parsed(o, h, f) ==
  LET With(r) == [o |-> r.o, h |-> h, next |-> r.next]
  IN CASE kind = "StepRequest" -> StepRequest_Parse(o, h, f)
       [] kind = "StepResponse" -> With(StepResponse_Parse(o, f))
       [] kind = "StatusRequest" -> With(StatusRequest_Parse(o, f))
       [] kind = "StatusResponse" -> With(StatusResponse_Parse(o, f))

IsInitialized(o) ==
  CASE kind = "StepRequest" -> StepRequest_IsInitialized(o)
    [] kind = "StepResponse" -> StepResponse_IsInitialized(o)
    [] OTHER -> TRUE

-----------------------------------------------------------------------------
(* The value of an object, and what merging two values should give *)

View(o, h) ==
  [has |-> o.has,
   val |-> IF IsRequest THEN <<StepRequest_message(o, h)>> ELSE o.val,
   unknown |-> o.unknown]

Join(v, w) ==
  [has |-> v.has \cup w.has,
   val |-> [n \in DOMAIN v.val |->
              IF n \notin w.has THEN v.val[n]
              ELSE IF IsRequest THEN MergeMessage(v.val[n], w.val[n]) ELSE w.val[n]],
   unknown |-> v.unknown \o w.unknown]

Blank == [has |-> {}, val |-> IF IsRequest THEN <<EmptyMessage>> ELSE Ctor(kind).val,
          unknown |-> << >>]

-----------------------------------------------------------------------------
(* The caller *)

Idle == last.op # "parsing"

\* Whether there may be n more unknown fields.
Room(n) == Cardinality(UNION {{x} \X DOMAIN obj[x].unknown : x \in Objs}) + n <= MaxUnknown

\* An operation that is done, on object x.
Did(op, x, want) == last' = [op |-> op, at |-> x, want |-> want]

\* The object x becomes r.o, the heap r.h.
Becomes(x, r) == obj' = [obj EXCEPT ![x] = r.o] /\ heap' = r.h

SetScalar(x, n, v) ==
  /\ Idle /\ ~IsRequest
  /\ n \in DOMAIN obj[x].val
  /\ v \in IF kind = "StepResponse" THEN {c \in 0..2 : StatusCode_IsValid(c)} ELSE Numbers
  /\ obj' = [obj EXCEPT ![x] =
               CASE kind = "StepResponse" -> StepResponse_set_code(@, v)
                 [] n = 1 -> StatusResponse_set_leader(@, v)
                 [] n = 2 -> StatusResponse_set_raftindex(@, v)
                 [] n = 3 -> StatusResponse_set_raftterm(@, v)
                 [] n = 4 -> StatusResponse_set_raftcommit(@, v)]
  /\ Did("none", x, {})
  /\ UNCHANGED <<kind, heap, held, wire>>

ClearField(x, n) ==
  /\ Idle /\ n \in DOMAIN obj[x].val
  /\ Becomes(x, CASE kind = "StepRequest" -> StepRequest_clear_message(obj[x], heap)
                  [] kind = "StepResponse" -> [o |-> StepResponse_clear_code(obj[x]), h |-> heap]
                  [] OTHER -> [o |-> StatusResponse_clear_field(obj[x], n), h |-> heap])
  /\ Did("none", x, {})
  /\ UNCHANGED <<kind, held, wire>>

\* The caller makes a message of its own.
NewMessage(p) ==
  /\ Idle /\ IsRequest /\ HasRoom(heap)
  /\ heap' = [heap EXCEPT ![New(heap)] = p]
  /\ held' = held \cup {New(heap)}
  /\ UNCHANGED <<kind, obj, wire, last>>

DeleteMessage(p) ==
  /\ Idle /\ p \in held
  /\ heap' = Delete(heap, p)
  /\ held' = held \ {p}
  /\ UNCHANGED <<kind, obj, wire, last>>

\* The caller gives a message, or none, to the request.
SetAllocated(x, p) ==
  /\ Idle /\ IsRequest
  /\ Becomes(x, StepRequest_set_allocated_message(obj[x], heap, p))
  /\ held' = held \ {p}
  /\ Did("none", x, {})
  /\ UNCHANGED <<kind, wire>>

\* The caller owns what release_message returns.
Release(x) ==
  /\ Idle /\ IsRequest
  /\ held' = held \cup ({obj[x].val[1]} \ {Null})
  /\ obj' = [obj EXCEPT ![x] = StepRequest_release_message(@)]
  /\ Did("none", x, {})
  /\ UNCHANGED <<kind, heap, wire>>

\* The caller sets fields through mutable_message().
Mutate(x, p) ==
  /\ Idle /\ IsRequest /\ HasRoom(heap)
  /\ LET m == StepRequest_mutable_message(obj[x], heap)
     IN Becomes(x, [o |-> m.o, h |-> [m.h EXCEPT ![m.o.val[1]] = MergeMessage(@, p)]])
  /\ Did("none", x, {})
  /\ UNCHANGED <<kind, held, wire>>

Clear(x) ==
  /\ Idle
  /\ Becomes(x, ClearOf(obj[x], heap))
  /\ Did("ok", x, {Blank})
  /\ UNCHANGED <<kind, held, wire>>

\* The destructor, and a new object in the same place.
Renew(x) ==
  /\ Idle
  /\ obj' = [obj EXCEPT ![x] = Ctor(kind)]
  /\ heap' = IF IsRequest THEN StepRequest_SharedDtor(obj[x], heap) ELSE heap
  /\ Did("ok", x, {Blank})
  /\ UNCHANGED <<kind, held, wire>>

\* An object is not merged into itself (GOOGLE_CHECK_NE).
MergeFrom(x, y) ==
  /\ Idle /\ x # y /\ HasRoom(heap)
  /\ Room(Len(obj[y].unknown))
  /\ Becomes(x, Merged(obj[x], heap, obj[y]))
  /\ Did("ok", x, {Join(View(obj[x], heap), View(obj[y], heap))})
  /\ UNCHANGED <<kind, held, wire>>

\* CopyFrom returns at once for the same object.
CopyFrom(x, y) ==
  /\ Idle /\ x # y /\ HasRoom(heap) /\ Room(Len(obj[y].unknown))
  /\ Becomes(x, Copied(obj[x], heap, obj[y]))
  /\ Did("ok", x, {View(obj[y], heap)})
  /\ UNCHANGED <<kind, held, wire>>

Swap(x, y) ==
  /\ Idle /\ x # y
  /\ LET s == Swapped(obj[x], obj[y]) IN obj' = [obj EXCEPT ![x] = s[1], ![y] = s[2]]
  /\ Did("ok", x, {View(obj[y], heap)})
  /\ UNCHANGED <<kind, heap, held, wire>>

-----------------------------------------------------------------------------
(* The parser *)

\* MessageLite::ParseFromCodedStream clears the object first.
ParseFrom(x, fields, want) ==
  /\ Idle /\ HasRoom(heap) /\ Room(Len(fields))
  /\ Becomes(x, ClearOf(obj[x], heap))
  /\ wire' = fields
  /\ Did("parsing", x, want)
  /\ UNCHANGED <<kind, held>>

\* MessageLite::MergeFromCodedStream does not.
MergeFromStream(x, fields, want) ==
  /\ Idle /\ HasRoom(heap)
  /\ Room(Len(fields))
  /\ wire' = fields
  /\ Did("parsing", x, want)
  /\ UNCHANGED <<kind, obj, heap, held>>

\* One field; or a field on which the loop stops.
ParseField ==
  /\ last.op = "parsing" /\ wire # << >>
  /\ LET r == Parsed(obj[last.at], heap, Head(wire)) IN
       /\ Becomes(last.at, r)
       /\ wire' = IF r.next = "more" THEN Tail(wire) ELSE << >>
       /\ last' = [last EXCEPT !.op = IF r.next = "failure" THEN "failure" ELSE @,
                               !.want = IF r.next = "more" THEN @ ELSE {}]
  /\ UNCHANGED <<kind, held>>

\* The stream is at its end.  An object without a required field is refused.
ParseEnd ==
  /\ last.op = "parsing" /\ wire = << >>
  /\ last' = [last EXCEPT !.op = IF IsInitialized(obj[last.at]) THEN "ok" ELSE "failure"]
  /\ UNCHANGED <<kind, obj, heap, held, wire>>

-----------------------------------------------------------------------------
Init ==
  /\ kind \in Kinds
  /\ obj = [x \in Objs |-> Ctor(kind)]
  /\ heap = [x \in Addrs |-> Free]
  /\ held = {} /\ wire = << >>
  /\ \E x \in Objs : last = [op |-> "none", at |-> x, want |-> {}]

Next ==
  \/ \E x \in Objs, n \in 1..4 : ClearField(x, n) \/ \E v \in Numbers \cup 0..2 : SetScalar(x, n, v)
  \/ \E p \in Payloads : NewMessage(p) \/ \E x \in Objs : Mutate(x, p)
  \/ \E p \in held : DeleteMessage(p)
  \/ \E x \in Objs : (\E p \in held \cup {Null} : SetAllocated(x, p))
                     \/ Release(x) \/ Clear(x) \/ Renew(x)
  \/ \E x, y \in Objs : MergeFrom(x, y) \/ CopyFrom(x, y) \/ Swap(x, y)
  \/ \E x, y \in Objs :
       \/ ParseFrom(x, Serialized(obj[y], heap), {View(obj[y], heap)})
       \/ MergeFromStream(x, Serialized(obj[y], heap),
                          {Join(View(obj[x], heap), View(obj[y], heap))})
  \/ \E x \in Objs, s \in Streams :
       ParseFrom(x, s, {}) \/ MergeFromStream(x, s, {})
  \/ ParseField
  \/ ParseEnd

Spec == Init /\ [][Next]_vars

-----------------------------------------------------------------------------
(* Properties *)

\* Who owns the message at an address.
Owners(p) == {x \in Objs : IsRequest /\ obj[x].val[1] = p}

\* A message passed around between requests and their caller has exactly one
\* owner as long as it exists, and none afterwards: set_allocated_message,
\* release_message, Swap, CopyFrom and the destructor neither leak one, nor
\* leave two requests that will both delete it, nor a pointer to a deleted one.
OwnedOnce ==
  \A p \in Addrs :
    IF heap[p] = Free THEN Owners(p) = {} /\ p \notin held
    ELSE \/ p \in held /\ Owners(p) = {}
         \/ p \notin held /\ \E x \in Objs : Owners(p) = {x}

\* An accessor of a field whose bit is not set returns the default: an object
\* that is cleared and used again, or parsed into, shows nothing of its earlier
\* value, although Clear keeps the message of a request allocated.
UnsetIsDefault ==
  \A x \in Objs : \A n \in DOMAIN obj[x].val \ obj[x].has :
    View(obj[x], heap).val[n] = Blank.val[n]

\* What is serialized and parsed again, merged, copied, cleared or swapped has
\* the value that merging field by field gives: has bits, values and unknown
\* fields, whatever the target held before.  Parsing into an object that is not
\* cleared is the same as MergeFrom.
ResultIsJoin ==
  last.op = "ok" => \A v \in last.want : View(obj[last.at], heap) = v

\* ByteSize is exactly the number of bytes the serializer writes into the
\* buffer that is allocated by it.
SizeIsExact ==
  \A x \in Objs : ByteSize(obj[x], heap) = FieldsSize(Serialized(obj[x], heap))

\* A response that was parsed has a code the enum names, whatever came over the
\* wire: another version's code makes the parse fail, since the field is
\* required, and not yield a default OK.
ParsedCodeIsValid ==
  kind = "StepResponse" /\ last.op = "ok" /\ last.want = {} =>
    LET o == obj[last.at] IN 1 \in o.has /\ StatusCode_IsValid(o.val[1])

=============================================================================
