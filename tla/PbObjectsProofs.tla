--------------------------- MODULE PbObjectsProofs ---------------------------
(***************************************************************************)
(* Who owns the yaraft::pb::Message objects that requests point to, for    *)
(* any number of requests, addresses and messages and whatever is parsed.  *)
(***************************************************************************)
EXTENDS PbObjects, TLAPS

Heaps == [Addrs -> Payloads \cup {Free}]

\* A pointer of a request is null or the address of a message.
Pointers == Addrs \cup {Null}

RequestObjs == [has : SUBSET {1}, val : [{1} -> Pointers], unknown : Seq(Fields)]

\* What an operation may do to a request and the heap when no owner changes:
\* keep the pointer and the addresses in use, or allocate where it had none.
Grown(o, h, r) ==
  /\ r.o \in RequestObjs /\ r.h \in Heaps
  /\ \/ /\ r.o.val[1] = o.val[1]
        /\ \A p \in Addrs : r.h[p] = Free <=> h[p] = Free
     \/ /\ o.val[1] = Null /\ r.o.val[1] \in Addrs
        /\ h[r.o.val[1]] = Free /\ r.h[r.o.val[1]] # Free
        /\ \A p \in Addrs \ {r.o.val[1]} : r.h[p] = Free <=> h[p] = Free

\* The pointer of a request leads nowhere or to an address in use.
Valid(o, h) == o.val[1] # Null => h[o.val[1]] # Free

\* There is room for the message a request may still have to allocate.
MayAllocate(o, h) == o.val[1] # Null \/ HasRoom(h)

-----------------------------------------------------------------------------
(* The operators of StepRequest *)

\* SetField on a request.
LEMMA SetFieldType ==
  ASSUME NEW o \in RequestObjs, NEW p \in Pointers
  PROVE  /\ SetField(o, 1, p) \in RequestObjs
         /\ SetField(o, 1, p).val[1] = p
BY DEF RequestObjs, SetField

\* New returns a free address.
LEMMA NewIsFree ==
  ASSUME NEW h, HasRoom(h)
  PROVE  New(h) \in Addrs /\ h[New(h)] = Free
BY DEF HasRoom, New

\* mutable_message allocates at most once, and returns a valid pointer.
LEMMA MutableGrown ==
  ASSUME NEW o \in RequestObjs, NEW h \in Heaps, Valid(o, h), MayAllocate(o, h)
  PROVE  LET m == StepRequest_mutable_message(o, h) IN
           Grown(o, h, m) /\ m.o.val[1] \in Addrs /\ m.h[m.o.val[1]] # Free
<1> DEFINE m == StepRequest_mutable_message(o, h)
<1>0. o.val[1] \in Pointers
  BY DEF RequestObjs
<1>1. CASE o.val[1] # Null
  <2>1. m.o = SetField(o, 1, o.val[1]) /\ m.h = h
    BY <1>1 DEF StepRequest_mutable_message
  <2>2. m.o \in RequestObjs /\ m.o.val[1] = o.val[1]
    BY <1>0, <2>1, SetFieldType
  <2> HIDE DEF m
  <2> QED BY <1>0, <1>1, <2>1, <2>2 DEF Grown, Valid, Pointers, m
<1>2. CASE o.val[1] = Null
  <2>0. PICK a \in Addrs : a = New(h) /\ h[a] = Free
    BY <1>2, NewIsFree DEF MayAllocate
  <2>1. m.o = SetField(o, 1, a) /\ m.h = [h EXCEPT ![a] = EmptyMessage]
    BY <1>2, <2>0 DEF StepRequest_mutable_message
  <2>2. m.o \in RequestObjs /\ m.o.val[1] = a
    BY <2>1, SetFieldType DEF Pointers
  <2>3. EmptyMessage \in Payloads /\ EmptyMessage # Free
    BY PayloadAssumption, AddrAssumption
  <2>4. m.h \in Heaps /\ m.h[a] # Free /\ \A p \in Addrs \ {a} : m.h[p] = h[p]
    BY <2>1, <2>3 DEF Heaps
  <2> HIDE DEF m
  <2> QED BY <1>2, <2>0, <2>2, <2>4 DEF Grown, m
<1> QED BY <1>1, <1>2

\* Only the object and the heap of a result count.
LEMMA GrownSame ==
  ASSUME NEW o, NEW h, NEW r, NEW s, Grown(o, h, r), s.o = r.o, s.h = r.h
  PROVE  Grown(o, h, s)
BY DEF Grown

\* Merging into the message keeps the addresses in use.
LEMMA StoreGrown ==
  ASSUME NEW o \in RequestObjs, NEW h \in Heaps, NEW r, NEW q \in Payloads, Grown(o, h, r),
         r.o.val[1] \in Addrs, r.h[r.o.val[1]] # Free
  PROVE  Grown(o, h, [o |-> r.o, h |-> [r.h EXCEPT ![r.o.val[1]] = MergeMessage(@, q)]])
<1> DEFINE a == r.o.val[1]
           g == [r.h EXCEPT ![a] = MergeMessage(@, q)]
<1>1. r.o \in RequestObjs /\ r.h \in Heaps /\ a \in Addrs
  BY DEF Grown
<1>2. r.h[a] \in Payloads
  BY <1>1 DEF Heaps
<1>3. MergeMessage(r.h[a], q) \in Payloads /\ MergeMessage(r.h[a], q) # Free
  BY <1>2, PayloadAssumption, AddrAssumption
<1>4. g \in Heaps /\ g[a] # Free /\ \A p \in Addrs \ {a} : g[p] = r.h[p]
  BY <1>1, <1>3 DEF Heaps
<1>5. \A p \in Addrs : g[p] = Free <=> r.h[p] = Free
  BY <1>4
<1> HIDE DEF g
<1> DEFINE s == [o |-> r.o, h |-> g]
<1>6. s.o = r.o /\ s.h = g
  OBVIOUS
<1> HIDE DEF s
<1>7. Grown(o, h, s)
  BY <1>1, <1>4, <1>5, <1>6 DEF Grown
<1> QED BY <1>7 DEF s, g

\* Clear and clear_message keep the message allocated.
LEMMA ClearKeeps ==
  ASSUME NEW o \in RequestObjs, NEW h \in Heaps, Valid(o, h),
         NEW r, r \in {StepRequest_Clear(o, h), StepRequest_clear_message(o, h)}
  PROVE  /\ r.o \in RequestObjs /\ r.h \in Heaps /\ r.o.val = o.val
         /\ \A p \in Addrs : r.h[p] = Free <=> h[p] = Free
<1>0. o.val[1] \in Pointers
  BY DEF RequestObjs
<1>1. r.o \in RequestObjs /\ r.o.val = o.val
  <2>1. CASE r = StepRequest_Clear(o, h)
    <3>1. r.o = [o EXCEPT !.has = {}, !.unknown = << >>]
      BY <2>1 DEF StepRequest_Clear
    <3>2. << >> \in Seq(Fields)
      OBVIOUS
    <3> QED BY <3>1, <3>2 DEF RequestObjs
  <2>2. CASE r = StepRequest_clear_message(o, h)
    BY <2>2 DEF StepRequest_clear_message, RequestObjs
  <2> QED BY <2>1, <2>2
<1>2. r.h = h \/ (o.val[1] # Null /\ r.h = [h EXCEPT ![o.val[1]] = EmptyMessage])
  BY DEF StepRequest_Clear, StepRequest_clear_message
<1>3. EmptyMessage \in Payloads /\ EmptyMessage # Free
  BY PayloadAssumption, AddrAssumption
<1>4. CASE o.val[1] # Null /\ r.h = [h EXCEPT ![o.val[1]] = EmptyMessage]
  <2>1. o.val[1] \in Addrs /\ h[o.val[1]] # Free
    BY <1>0, <1>4 DEF Pointers, Valid
  <2>2. r.h \in Heaps /\ r.h[o.val[1]] = EmptyMessage
        /\ \A p \in Addrs \ {o.val[1]} : r.h[p] = h[p]
    BY <1>3, <1>4, <2>1 DEF Heaps
  <2> QED BY <1>1, <1>3, <2>1, <2>2
<1> QED BY <1>1, <1>2, <1>4

\* message() of a valid request is a message.
LEMMA MessageType ==
  ASSUME NEW o \in RequestObjs, NEW h \in Heaps, Valid(o, h)
  PROVE  StepRequest_message(o, h) \in Payloads
<1>1. o.val[1] \in Pointers
  BY DEF RequestObjs
<1> QED BY <1>1, PayloadAssumption DEF StepRequest_message, Valid, Heaps, Pointers

\* The unknown fields do not matter to who owns what.
LEMMA UnknownGrown ==
  ASSUME NEW o \in RequestObjs, NEW h \in Heaps, NEW r, NEW u \in Seq(Fields), Grown(o, h, r)
  PROVE  Grown(o, h, [o |-> [r.o EXCEPT !.unknown = u], h |-> r.h])
<1>1. [r.o EXCEPT !.unknown = u] \in RequestObjs /\ [r.o EXCEPT !.unknown = u].val = r.o.val
  BY DEF Grown, RequestObjs
<1> QED BY <1>1 DEF Grown

LEMMA NothingGrown ==
  ASSUME NEW o \in RequestObjs, NEW h \in Heaps
  PROVE  Grown(o, h, [o |-> o, h |-> h])
BY DEF Grown

\* MergeFrom allocates at most the message of the target.
LEMMA MergeGrown ==
  ASSUME NEW o \in RequestObjs, NEW h \in Heaps, NEW from \in RequestObjs,
         Valid(o, h), Valid(from, h), MayAllocate(o, h)
  PROVE  Grown(o, h, StepRequest_MergeFrom(o, h, from))
<1> DEFINE m == StepRequest_mutable_message(o, h)
           q == StepRequest_message(from, h)
           r == IF 1 \in from.has
                  THEN [o |-> m.o, h |-> [m.h EXCEPT ![m.o.val[1]] = MergeMessage(@, q)]]
                  ELSE [o |-> o, h |-> h]
<1>1. Grown(o, h, m) /\ m.o.val[1] \in Addrs /\ m.h[m.o.val[1]] # Free
  BY MutableGrown
<1>2. q \in Payloads
  BY MessageType
<1>3. Grown(o, h, r)
  <2>1. Grown(o, h, [o |-> m.o, h |-> [m.h EXCEPT ![m.o.val[1]] = MergeMessage(@, q)]])
    <3> HIDE DEF m, q
    <3> QED BY <1>1, <1>2, StoreGrown
  <2>2. Grown(o, h, [o |-> o, h |-> h])
    BY NothingGrown
  <2> HIDE DEF m, q
  <2> QED BY <2>1, <2>2
<1>4. r.o.unknown \o from.unknown \in Seq(Fields)
  <2>1. r.o \in RequestObjs
    BY <1>3 DEF Grown
  <2> HIDE DEF r
  <2> QED BY <2>1 DEF RequestObjs
<1>5. StepRequest_MergeFrom(o, h, from) =
        [o |-> [r.o EXCEPT !.unknown = r.o.unknown \o from.unknown], h |-> r.h]
  BY DEF StepRequest_MergeFrom
<1> HIDE DEF r
<1> QED BY <1>3, <1>4, <1>5, UnknownGrown

\* CopyFrom clears first, which keeps the pointer and the addresses in use.
LEMMA CopyGrown ==
  ASSUME NEW o \in RequestObjs, NEW h \in Heaps, NEW from \in RequestObjs,
         Valid(o, h), Valid(from, h), MayAllocate(o, h)
  PROVE  Grown(o, h, StepRequest_CopyFrom(o, h, from))
<1> DEFINE c == StepRequest_Clear(o, h)
           r == StepRequest_MergeFrom(c.o, c.h, from)
<1>1. /\ c.o \in RequestObjs /\ c.h \in Heaps /\ c.o.val = o.val
      /\ \A p \in Addrs : c.h[p] = Free <=> h[p] = Free
  BY ClearKeeps
<1>2. o.val[1] \in Pointers /\ from.val[1] \in Pointers
  BY DEF RequestObjs
<1> HIDE DEF c
<1>3. Valid(c.o, c.h) /\ Valid(from, c.h) /\ MayAllocate(c.o, c.h)
  BY <1>1, <1>2 DEF Valid, MayAllocate, HasRoom, Pointers
<1>4. Grown(c.o, c.h, r)
  BY <1>1, <1>3, MergeGrown
<1> HIDE DEF r
<1>5. Grown(o, h, r)
  BY <1>1, <1>4 DEF Grown
<1> QED BY <1>5 DEF r, c, StepRequest_CopyFrom

\* One turn of the parser's loop.
LEMMA ParseGrown ==
  ASSUME NEW o \in RequestObjs, NEW h \in Heaps, NEW f \in Fields, Valid(o, h), MayAllocate(o, h)
  PROVE  Grown(o, h, StepRequest_Parse(o, h, f))
<1> DEFINE m == StepRequest_mutable_message(o, h)
           r == StepRequest_Parse(o, h, f)
<1>1. CASE Tag(f) = 10
  <2>1. Grown(o, h, m) /\ m.o.val[1] \in Addrs /\ m.h[m.o.val[1]] # Free
    BY MutableGrown
  <2>2. f.msg \in Payloads
    BY DEF Fields
  <2>3. Grown(o, h, [o |-> m.o, h |-> [m.h EXCEPT ![m.o.val[1]] = MergeMessage(@, f.msg)]])
    <3> HIDE DEF m
    <3> QED BY <2>1, <2>2, StoreGrown
  <2>4. /\ f.whole => /\ r.o = m.o
                      /\ r.h = [m.h EXCEPT ![m.o.val[1]] = MergeMessage(@, f.msg)]
        /\ ~f.whole => r.o = m.o /\ r.h = m.h
    BY <1>1 DEF StepRequest_Parse
  <2> HIDE DEF m, r
  <2>5. Grown(o, h, r)
    <3>1. CASE f.whole
      BY <2>3, <2>4, <3>1, GrownSame
    <3>2. CASE ~f.whole
      BY <2>1, <2>4, <3>2, GrownSame
    <3> QED BY <3>1, <3>2
  <2> QED BY <2>5 DEF r
<1>2. CASE Tag(f) # 10
  <2>1. r.h = h /\ (r.o = o \/ r.o = [o EXCEPT !.unknown = Append(o.unknown, f)])
    BY <1>2 DEF StepRequest_Parse, HandleUnusual
  <2>2. Append(o.unknown, f) \in Seq(Fields)
    BY DEF RequestObjs
  <2>3. [o EXCEPT !.unknown = Append(o.unknown, f)] \in RequestObjs
        /\ [o EXCEPT !.unknown = Append(o.unknown, f)].val = o.val
    BY <2>2 DEF RequestObjs
  <2> HIDE DEF r
  <2>4. Grown(o, h, r)
    BY <2>1, <2>3 DEF Grown
  <2> QED BY <2>4 DEF r
<1> QED BY <1>1, <1>2

-----------------------------------------------------------------------------
(* The inductive invariant *)

Ptr(x) == obj[x].val[1]

\* A pointer leads to a message in use that nobody else has, and what is in use
\* has somebody.
Owned ==
  /\ \A x \in Objs : Ptr(x) # Null => heap[Ptr(x)] # Free /\ Ptr(x) \notin held
  /\ \A p \in held : heap[p] # Free
  /\ \A x, y \in Objs : Ptr(x) = Ptr(y) /\ Ptr(x) # Null => x = y
  /\ \A p \in Addrs : heap[p] # Free => (p \in held \/ \E x \in Objs : Ptr(x) = p)

\* The state when the objects are requests.
RequestInv ==
  /\ obj \in [Objs -> RequestObjs]
  /\ wire \in Seq(Fields)
  /\ Owned
  /\ last.op = "parsing" => MayAllocate(obj[last.at], heap)

\* No message is ever allocated for another class.  (Of last only that it is a
\* record and names an object.)
PbInv ==
  /\ kind \in Kinds /\ heap \in Heaps /\ held \in SUBSET Addrs
  /\ last \in [op : {last.op}, at : Objs, want : {last.want}]
  /\ IsRequest => RequestInv
  /\ ~IsRequest => held = {} /\ \A p \in Addrs : heap[p] = Free

\* Every pointer of an owned state is valid.
LEMMA OwnedValid ==
  ASSUME RequestInv, NEW x \in Objs
  PROVE  Valid(obj[x], heap) /\ obj[x] \in RequestObjs /\ Ptr(x) \in Pointers
BY DEF RequestInv, Owned, Ptr, Valid, RequestObjs

\* An operation that changes no owner keeps the state owned.
LEMMA GrownKeeps ==
  ASSUME RequestInv, heap \in Heaps, held \in SUBSET Addrs, NEW x \in Objs, NEW r,
         Grown(obj[x], heap, r), obj' = [obj EXCEPT ![x] = r.o], heap' = r.h, held' = held
  PROVE  /\ obj' \in [Objs -> RequestObjs] /\ heap' \in Heaps /\ Owned'
         /\ MayAllocate(obj[x], heap) => MayAllocate(obj'[x], heap')
<1>1. /\ obj' \in [Objs -> RequestObjs] /\ heap' \in Heaps
      /\ obj'[x] = r.o /\ \A y \in Objs \ {x} : obj'[y] = obj[y]
  BY DEF RequestInv, Grown
<1>2. \A y \in Objs : Ptr(y) \in Pointers
  BY OwnedValid
<1>3. CASE r.o.val[1] = Ptr(x) /\ \A p \in Addrs : heap'[p] = Free <=> heap[p] = Free
  <2>1. \A y \in Objs : Ptr(y)' = Ptr(y)
    BY <1>1, <1>3 DEF Ptr
  <2>2. Owned'
    BY <1>2, <1>3, <2>1 DEF RequestInv, Owned, Pointers
  <2>3. MayAllocate(obj[x], heap) => MayAllocate(obj'[x], heap')
    BY <1>1, <1>3 DEF MayAllocate, HasRoom, Ptr
  <2> QED BY <1>1, <2>2, <2>3
<1>4. ASSUME NEW a \in Addrs, a = r.o.val[1], Ptr(x) = Null, heap[a] = Free, heap'[a] # Free,
             \A p \in Addrs \ {a} : heap'[p] = Free <=> heap[p] = Free
      PROVE  Owned' /\ MayAllocate(obj'[x], heap')
  <2>1. Ptr(x)' = a /\ \A y \in Objs \ {x} : Ptr(y)' = Ptr(y)
    BY <1>1, <1>4 DEF Ptr
  <2>2. a \notin held /\ a # Null /\ \A y \in Objs : Ptr(y) # a
    BY <1>4, AddrAssumption DEF RequestInv, Owned
  <2>3. \A y \in Objs : Ptr(y)' # Null => heap'[Ptr(y)'] # Free /\ Ptr(y)' \notin held'
    BY <1>2, <1>4, <2>1, <2>2 DEF RequestInv, Owned, Pointers
  <2>4. \A p \in held' : heap'[p] # Free
    BY <1>4, <2>2 DEF RequestInv, Owned
  <2>5. \A y, z \in Objs : Ptr(y)' = Ptr(z)' /\ Ptr(y)' # Null => y = z
    BY <2>1, <2>2 DEF RequestInv, Owned
  <2>6. ASSUME NEW p \in Addrs, heap'[p] # Free, p \notin held'
        PROVE  \E y \in Objs : Ptr(y)' = p
    <3>1. CASE p = a
      BY <2>1, <3>1
    <3>2. CASE p # a
      <4>1. PICK y \in Objs : Ptr(y) = p
        BY <1>4, <2>6, <3>2 DEF RequestInv, Owned
      <4>2. y # x
        BY <1>4, <4>1, AddrAssumption
      <4> QED BY <2>1, <4>1, <4>2
    <3> QED BY <3>1, <3>2
  <2>7. MayAllocate(obj'[x], heap')
    BY <2>1, <2>2 DEF MayAllocate, Ptr
  <2>8. Owned'
    BY <2>3, <2>4, <2>5, <2>6 DEF Owned
  <2> QED BY <2>7, <2>8
<1> QED BY <1>1, <1>3, <1>4 DEF Grown, Ptr

-----------------------------------------------------------------------------
(* The steps by which a message changes its owner *)

\* All that is left to show of a step between calls of the parser.
LEMMA OwnedSuffices ==
  ASSUME PbInv, IsRequest, NEW x \in Objs, NEW op, NEW want, op # "parsing",
         last' = last \/ last' = [op |-> op, at |-> x, want |-> want], Idle,
         UNCHANGED <<kind, wire>>, heap' \in Heaps, held' \in SUBSET Addrs,
         obj' \in [Objs -> RequestObjs], Owned'
  PROVE  PbInv'
<1>1. last' \in [op : {last'.op}, at : Objs, want : {last'.want}] /\ last'.op # "parsing"
  BY DEF PbInv, Idle
<1> QED BY <1>1 DEF PbInv, RequestInv, IsRequest

LEMMA NewMessageOwned ==
  ASSUME PbInv, IsRequest, NEW m \in Payloads, NewMessage(m)
  PROVE  heap' \in Heaps /\ held' \in SUBSET Addrs /\ Owned'
<1>1. PICK a \in Addrs : /\ heap[a] = Free /\ heap' = [heap EXCEPT ![a] = m]
                         /\ held' = held \cup {a} /\ obj' = obj
  BY NewIsFree DEF NewMessage
<1>2. /\ heap' \in Heaps /\ heap'[a] # Free /\ \A p \in Addrs \ {a} : heap'[p] = heap[p]
      /\ held' \in SUBSET Addrs
  BY <1>1, AddrAssumption DEF PbInv, Heaps
<1>3. /\ \A y \in Objs : Ptr(y)' = Ptr(y) /\ Ptr(y) \in Pointers /\ Ptr(y) # a
      /\ a \notin held /\ a # Null
  BY <1>1, OwnedValid, AddrAssumption DEF PbInv, RequestInv, Owned, Ptr
<1>4. Owned'
  BY <1>1, <1>2, <1>3 DEF PbInv, RequestInv, Owned, Pointers
<1> QED BY <1>2, <1>4

LEMMA DeleteMessageOwned ==
  ASSUME PbInv, IsRequest, NEW a \in held, DeleteMessage(a)
  PROVE  heap' \in Heaps /\ held' \in SUBSET Addrs /\ Owned'
<1>1. /\ a \in Addrs /\ a # Null /\ heap' = [heap EXCEPT ![a] = Free]
      /\ held' = held \ {a} /\ obj' = obj
  BY AddrAssumption DEF PbInv, DeleteMessage, Delete
<1>2. /\ heap' \in Heaps /\ heap'[a] = Free /\ \A p \in Addrs \ {a} : heap'[p] = heap[p]
      /\ held' \in SUBSET Addrs
  BY <1>1 DEF PbInv, Heaps
<1>3. \A y \in Objs : Ptr(y)' = Ptr(y) /\ Ptr(y) \in Pointers /\ Ptr(y) # a
  BY <1>1, OwnedValid DEF PbInv, RequestInv, Owned, Ptr
<1>4. Owned'
  BY <1>1, <1>2, <1>3 DEF PbInv, RequestInv, Owned, Pointers
<1> QED BY <1>2, <1>4

\* A request gives up its message and takes one of the caller's, or none; the
\* old one is deleted (set_allocated_message, the destructor) or the caller's
\* (release_message).
Exchanged(x, p, freed) ==
  /\ p \in held \cup {Null}
  /\ obj' \in [Objs -> RequestObjs]
  /\ Ptr(x)' = p /\ \A y \in Objs \ {x} : Ptr(y)' = Ptr(y)
  /\ IF freed THEN heap' = Delete(heap, Ptr(x)) /\ held' = held \ {p}
     ELSE heap' = heap /\ held' = held \cup ({Ptr(x)} \ {Null}) /\ p = Null

LEMMA ExchangedOwned ==
  ASSUME PbInv, IsRequest, NEW x \in Objs, NEW p, NEW freed \in BOOLEAN, Exchanged(x, p, freed)
  PROVE  heap' \in Heaps /\ held' \in SUBSET Addrs /\ Owned'
<1>0. PICK old \in Pointers : old = Ptr(x)
  BY OwnedValid DEF PbInv
<1>1. /\ \A y \in Objs : Ptr(y) \in Pointers
      /\ \A y \in Objs \ {x} : Ptr(y) # Null => Ptr(y) # old
      /\ \A y \in Objs : Ptr(y) # Null => Ptr(y) # p
      /\ p # Null => p \in Addrs /\ p # old /\ heap[p] # Free
      /\ old # Null => old \in Addrs /\ heap[old] # Free /\ old \notin held
      /\ Null \notin held /\ Null \notin Addrs
  BY <1>0, OwnedValid, AddrAssumption DEF PbInv, RequestInv, Owned, Exchanged, Pointers
<1>2. CASE freed
  <2>1. /\ heap' \in Heaps /\ held' = held \ {p} /\ held' \in SUBSET Addrs
        /\ \A q \in Addrs \ {old} : heap'[q] = heap[q]
        /\ old # Null => heap'[old] = Free
    BY <1>0, <1>1, <1>2 DEF PbInv, Exchanged, Delete, Heaps
  <2>2. \A y \in Objs : Ptr(y)' # Null => heap'[Ptr(y)'] # Free /\ Ptr(y)' \notin held'
    BY <1>1, <2>1 DEF PbInv, RequestInv, Owned, Exchanged, Pointers
  <2>3. \A q \in held' : heap'[q] # Free
    BY <1>1, <2>1 DEF PbInv, RequestInv, Owned
  <2>4. \A y, z \in Objs : Ptr(y)' = Ptr(z)' /\ Ptr(y)' # Null => y = z
    BY <1>1 DEF PbInv, RequestInv, Owned, Exchanged
  <2>5. ASSUME NEW q \in Addrs, heap'[q] # Free, q \notin held'
        PROVE  \E y \in Objs : Ptr(y)' = q
    <3>1. q # old /\ heap[q] # Free
      BY <1>1, <2>1, <2>5
    <3>2. CASE q = p
      BY <3>2 DEF Exchanged
    <3>3. CASE q # p
      <4>1. PICK y \in Objs : Ptr(y) = q
        BY <2>1, <2>5, <3>1, <3>3 DEF PbInv, RequestInv, Owned
      <4>2. y # x
        BY <1>0, <3>1, <4>1
      <4> QED BY <4>1, <4>2 DEF Exchanged
    <3> QED BY <3>2, <3>3
  <2>6. Owned'
    BY <2>2, <2>3, <2>4, <2>5 DEF Owned
  <2> QED BY <2>1, <2>6
<1>3. CASE ~freed
  <2>1. heap' = heap /\ held' = held \cup ({old} \ {Null}) /\ held' \in SUBSET Addrs /\ p = Null
    BY <1>0, <1>1, <1>3 DEF PbInv, Exchanged
  <2>2. \A y \in Objs : Ptr(y)' # Null => heap'[Ptr(y)'] # Free /\ Ptr(y)' \notin held'
    BY <1>1, <2>1 DEF PbInv, RequestInv, Owned, Exchanged
  <2>3. \A q \in held' : heap'[q] # Free
    BY <1>1, <2>1 DEF PbInv, RequestInv, Owned
  <2>4. \A y, z \in Objs : Ptr(y)' = Ptr(z)' /\ Ptr(y)' # Null => y = z
    BY <2>1 DEF PbInv, RequestInv, Owned, Exchanged
  <2>5. ASSUME NEW q \in Addrs, heap'[q] # Free, q \notin held'
        PROVE  \E y \in Objs : Ptr(y)' = q
    <3>1. PICK y \in Objs : Ptr(y) = q
      BY <2>1, <2>5 DEF PbInv, RequestInv, Owned
    <3>2. y # x
      BY <1>0, <1>1, <2>1, <2>5, <3>1
    <3> QED BY <3>1, <3>2 DEF Exchanged
  <2>6. Owned'
    BY <2>2, <2>3, <2>4, <2>5 DEF Owned
  <2> QED BY <1>1, <2>1, <2>6 DEF PbInv
<1> QED BY <1>2, <1>3

\* A new request has no message.
LEMMA CtorType == StepRequest_SharedCtor \in RequestObjs /\ StepRequest_SharedCtor.val[1] = Null
<1>1. <<Null>> \in [{1} -> Pointers]
  BY DEF Pointers
<1>2. << >> \in Seq(Fields)
  OBVIOUS
<1> QED BY <1>1, <1>2 DEF StepRequest_SharedCtor, RequestObjs

LEMMA SetAllocatedOwned ==
  ASSUME PbInv, IsRequest, NEW x \in Objs, NEW p \in held \cup {Null}, SetAllocated(x, p)
  PROVE  Exchanged(x, p, TRUE)
<1> DEFINE o == [obj[x] EXCEPT !.val[1] = p, !.has = IF p = Null THEN @ \ {1} ELSE @ \cup {1}]
<1>1. /\ obj' = [obj EXCEPT ![x] = o] /\ heap' = Delete(heap, Ptr(x)) /\ held' = held \ {p}
  BY DEF SetAllocated, Becomes, StepRequest_set_allocated_message, Ptr
<1>2. obj \in [Objs -> RequestObjs] /\ obj[x] \in RequestObjs /\ p \in Pointers
  BY DEF PbInv, RequestInv, Pointers
<1>3. o \in RequestObjs /\ o.val[1] = p
  BY <1>2 DEF RequestObjs
<1> HIDE DEF o
<1>4. /\ obj' \in [Objs -> RequestObjs]
      /\ Ptr(x)' = p /\ \A y \in Objs \ {x} : Ptr(y)' = Ptr(y)
  BY <1>1, <1>2, <1>3 DEF Ptr
<1> QED BY <1>1, <1>4 DEF Exchanged

LEMMA ReleaseOwned ==
  ASSUME PbInv, IsRequest, NEW x \in Objs, Release(x)
  PROVE  Exchanged(x, Null, FALSE)
<1> DEFINE o == [obj[x] EXCEPT !.has = @ \ {1}, !.val[1] = Null]
<1>1. /\ obj' = [obj EXCEPT ![x] = o] /\ heap' = heap /\ held' = held \cup ({Ptr(x)} \ {Null})
  BY DEF Release, StepRequest_release_message, Ptr
<1>2. obj \in [Objs -> RequestObjs] /\ obj[x] \in RequestObjs /\ Null \in Pointers
  BY DEF PbInv, RequestInv, Pointers
<1>3. o \in RequestObjs /\ o.val[1] = Null
  BY <1>2 DEF RequestObjs
<1> HIDE DEF o
<1>4. /\ obj' \in [Objs -> RequestObjs]
      /\ Ptr(x)' = Null /\ \A y \in Objs \ {x} : Ptr(y)' = Ptr(y)
  BY <1>1, <1>2, <1>3 DEF Ptr
<1> QED BY <1>1, <1>4 DEF Exchanged

LEMMA RenewOwned ==
  ASSUME PbInv, IsRequest, NEW x \in Objs, Renew(x)
  PROVE  Exchanged(x, Null, TRUE)
<1>1. /\ obj' = [obj EXCEPT ![x] = StepRequest_SharedCtor]
      /\ heap' = Delete(heap, Ptr(x)) /\ held' = held
  BY DEF Renew, IsRequest, Ctor, StepRequest_SharedDtor, Ptr
<1>2. obj \in [Objs -> RequestObjs] /\ Null \notin held
  BY AddrAssumption DEF PbInv, RequestInv
<1>3. /\ obj' \in [Objs -> RequestObjs]
      /\ Ptr(x)' = Null /\ \A y \in Objs \ {x} : Ptr(y)' = Ptr(y)
  BY <1>1, <1>2, CtorType DEF Ptr
<1> QED BY <1>1, <1>2, <1>3 DEF Exchanged

LEMMA SwapOwned ==
  ASSUME PbInv, IsRequest, NEW x \in Objs, NEW y \in Objs, Swap(x, y)
  PROVE  obj' \in [Objs -> RequestObjs] /\ Owned'
<1>1. x # y /\ obj' = [obj EXCEPT ![x] = obj[y], ![y] = obj[x]] /\ UNCHANGED <<heap, held>>
  BY DEF Swap, Swapped, StepRequest_Swap, IsRequest
<1>2. obj \in [Objs -> RequestObjs]
  BY DEF PbInv, RequestInv
<1>3. /\ obj' \in [Objs -> RequestObjs]
      /\ Ptr(x)' = Ptr(y) /\ Ptr(y)' = Ptr(x) /\ \A z \in Objs \ {x, y} : Ptr(z)' = Ptr(z)
  BY <1>1, <1>2 DEF Ptr
<1>4. \A z \in Objs : Ptr(z)' # Null => heap'[Ptr(z)'] # Free /\ Ptr(z)' \notin held'
  BY <1>1, <1>3 DEF PbInv, RequestInv, Owned
<1>5. \A p \in held' : heap'[p] # Free
  BY <1>1 DEF PbInv, RequestInv, Owned
<1>6. \A u, z \in Objs : Ptr(u)' = Ptr(z)' /\ Ptr(u)' # Null => u = z
  BY <1>1, <1>3 DEF PbInv, RequestInv, Owned
<1>7. ASSUME NEW p \in Addrs, heap'[p] # Free, p \notin held' PROVE \E z \in Objs : Ptr(z)' = p
  <2>1. PICK z \in Objs : Ptr(z) = p
    BY <1>1, <1>7 DEF PbInv, RequestInv, Owned
  <2>2. CASE z = x
    BY <1>3, <2>1, <2>2
  <2>3. CASE z = y
    BY <1>3, <2>1, <2>3
  <2> QED BY <1>3, <2>1, <2>2, <2>3
<1>8. Owned'
  BY <1>4, <1>5, <1>6, <1>7 DEF Owned
<1> QED BY <1>3, <1>8

\* What a request is serialized to is a sequence of fields.
LEMMA SerializeType ==
  ASSUME PbInv, IsRequest, NEW x \in Objs
  PROVE  Serialized(obj[x], heap) \in Seq(Fields)
<1> DEFINE q == StepRequest_message(obj[x], heap)
<1>1. obj[x] \in RequestObjs /\ q \in Payloads
  BY OwnedValid, MessageType DEF PbInv
<1>2. MessageSize(q) \in Nat
  BY <1>1, PayloadAssumption
<1> HIDE DEF q
<1>3. MessageField(1, q) \in Fields
  BY <1>1, <1>2, WidthAssumption DEF MessageField, Fields, LengthDelimited
<1>4. obj[x].unknown \in Seq(Fields)
  BY <1>1 DEF RequestObjs
<1>5. <<MessageField(1, q)>> \in Seq(Fields) /\ << >> \in Seq(Fields)
  BY <1>3
<1>6. Serialized(obj[x], heap) =
        (IF 1 \in obj[x].has THEN <<MessageField(1, q)>> ELSE << >>) \o obj[x].unknown
  BY DEF Serialized, IsRequest, StepRequest_Serialize, q
<1> QED BY <1>4, <1>5, <1>6

-----------------------------------------------------------------------------
(* The steps by which no message changes its owner *)

\* The result of an operation that clears, merges, copies or changes request x.
LEMMA CallGrown ==
  ASSUME PbInv, IsRequest, NEW x \in Objs,
         \/ Clear(x)
         \/ \E n \in 1..4 : ClearField(x, n)
         \/ \E m \in Payloads : Mutate(x, m)
         \/ \E y \in Objs : MergeFrom(x, y) \/ CopyFrom(x, y)
         \/ \E fields, want : ParseFrom(x, fields, want)
  PROVE  \E r : Grown(obj[x], heap, r) /\ obj' = [obj EXCEPT ![x] = r.o] /\ heap' = r.h
<1>0. obj[x] \in RequestObjs /\ heap \in Heaps /\ Valid(obj[x], heap)
  BY OwnedValid DEF PbInv
<1>1. ASSUME NEW r, r \in {StepRequest_Clear(obj[x], heap), StepRequest_clear_message(obj[x], heap)}
      PROVE  Grown(obj[x], heap, r)
  <2>1. /\ r.o \in RequestObjs /\ r.h \in Heaps /\ r.o.val = obj[x].val
        /\ \A p \in Addrs : r.h[p] = Free <=> heap[p] = Free
    BY <1>0, <1>1, ClearKeeps
  <2> QED BY <2>1 DEF Grown
<1>2. CASE Clear(x) \/ \E fields, want : ParseFrom(x, fields, want)
  <2>1. LET r == StepRequest_Clear(obj[x], heap) IN obj' = [obj EXCEPT ![x] = r.o] /\ heap' = r.h
    BY <1>2 DEF Clear, ParseFrom, ClearOf, IsRequest, Becomes
  <2> QED BY <1>1, <2>1
<1>3. ASSUME NEW n \in 1..4, ClearField(x, n)
      PROVE  \E r : Grown(obj[x], heap, r) /\ obj' = [obj EXCEPT ![x] = r.o] /\ heap' = r.h
  <2>1. LET r == StepRequest_clear_message(obj[x], heap)
        IN obj' = [obj EXCEPT ![x] = r.o] /\ heap' = r.h
    BY <1>3 DEF ClearField, IsRequest, Becomes
  <2> QED BY <1>1, <2>1
<1>4. ASSUME NEW m \in Payloads, Mutate(x, m)
      PROVE  \E r : Grown(obj[x], heap, r) /\ obj' = [obj EXCEPT ![x] = r.o] /\ heap' = r.h
  <2> DEFINE a == StepRequest_mutable_message(obj[x], heap)
             r == [o |-> a.o, h |-> [a.h EXCEPT ![a.o.val[1]] = MergeMessage(@, m)]]
  <2>1. obj' = [obj EXCEPT ![x] = r.o] /\ heap' = r.h /\ MayAllocate(obj[x], heap)
    BY <1>4 DEF Mutate, Becomes, MayAllocate
  <2>2. Grown(obj[x], heap, a) /\ a.o.val[1] \in Addrs /\ a.h[a.o.val[1]] # Free
    BY <1>0, <2>1, MutableGrown
  <2>3. Grown(obj[x], heap, r)
    <3> HIDE DEF a
    <3> QED BY <1>0, <2>2, StoreGrown
  <2> HIDE DEF r
  <2> QED BY <2>1, <2>3
<1>5. ASSUME NEW y \in Objs, MergeFrom(x, y) \/ CopyFrom(x, y)
      PROVE  \E r : Grown(obj[x], heap, r) /\ obj' = [obj EXCEPT ![x] = r.o] /\ heap' = r.h
  <2>1. obj[y] \in RequestObjs /\ Valid(obj[y], heap) /\ MayAllocate(obj[x], heap)
    BY <1>5, OwnedValid DEF PbInv, MergeFrom, CopyFrom, MayAllocate
  <2>2. CASE MergeFrom(x, y)
    <3>1. LET r == StepRequest_MergeFrom(obj[x], heap, obj[y])
          IN obj' = [obj EXCEPT ![x] = r.o] /\ heap' = r.h
      BY <2>2 DEF MergeFrom, Merged, IsRequest, Becomes
    <3> QED BY <1>0, <2>1, <3>1, MergeGrown
  <2>3. CASE CopyFrom(x, y)
    <3>1. LET r == StepRequest_CopyFrom(obj[x], heap, obj[y])
          IN obj' = [obj EXCEPT ![x] = r.o] /\ heap' = r.h
      BY <2>3 DEF CopyFrom, Copied, IsRequest, Becomes
    <3> QED BY <1>0, <2>1, <3>1, CopyGrown
  <2> QED BY <1>5, <2>2, <2>3
<1> QED BY <1>2, <1>3, <1>4, <1>5

LEMMA CallKeeps ==
  ASSUME PbInv, IsRequest, NEW x \in Objs,
         \/ Clear(x)
         \/ \E n \in 1..4 : ClearField(x, n)
         \/ \E m \in Payloads : Mutate(x, m)
         \/ \E y \in Objs : MergeFrom(x, y) \/ CopyFrom(x, y)
  PROVE  PbInv'
<1>1. PICK r : Grown(obj[x], heap, r) /\ obj' = [obj EXCEPT ![x] = r.o] /\ heap' = r.h
  BY CallGrown
<1>2. Idle /\ UNCHANGED <<kind, held, wire>>
      /\ \E op, want : op # "parsing" /\ last' = [op |-> op, at |-> x, want |-> want]
  BY DEF Clear, ClearField, Mutate, MergeFrom, CopyFrom, Did
<1>3. obj' \in [Objs -> RequestObjs] /\ heap' \in Heaps /\ Owned'
  BY <1>1, <1>2, GrownKeeps DEF PbInv
<1> QED BY <1>2, <1>3, OwnedSuffices DEF PbInv

\* A parse begins: there is room for the one message it may allocate.
LEMMA ParseBegins ==
  ASSUME PbInv, IsRequest, NEW x \in Objs, NEW fields \in Seq(Fields), NEW want,
         ParseFrom(x, fields, want) \/ MergeFromStream(x, fields, want)
  PROVE  PbInv'
<1>1. /\ UNCHANGED <<kind, held>> /\ wire' = fields /\ HasRoom(heap)
      /\ last' = [op |-> "parsing", at |-> x, want |-> want]
  BY DEF ParseFrom, MergeFromStream, Did
<1>2. last' \in [op : {last'.op}, at : Objs, want : {last'.want}] /\ last'.at = x
  BY <1>1
<1>3. /\ obj' \in [Objs -> RequestObjs] /\ heap' \in Heaps /\ Owned'
      /\ MayAllocate(obj'[x], heap')
  <2>1. CASE ParseFrom(x, fields, want)
    <3>1. PICK r : Grown(obj[x], heap, r) /\ obj' = [obj EXCEPT ![x] = r.o] /\ heap' = r.h
      BY <2>1, CallGrown
    <3> QED BY <1>1, <3>1, GrownKeeps DEF PbInv, MayAllocate
  <2>2. CASE MergeFromStream(x, fields, want)
    <3>1. obj' = obj /\ heap' = heap
      BY <2>2 DEF MergeFromStream
    <3> QED BY <1>1, <3>1 DEF PbInv, RequestInv, Owned, Ptr, MayAllocate
  <2> QED BY <2>1, <2>2
<1> QED BY <1>1, <1>2, <1>3 DEF PbInv, RequestInv, IsRequest

\* One field is parsed.
LEMMA ParseFieldKeeps ==
  ASSUME PbInv, IsRequest, ParseField
  PROVE  PbInv'
<1>0. PICK x \in Objs : x = last.at
  BY DEF PbInv
<1>1. PICK f \in Fields : f = Head(wire)
  BY DEF PbInv, RequestInv, ParseField
<1>2. PICK r : r = StepRequest_Parse(obj[x], heap, f)
  OBVIOUS
<1>3. /\ obj' = [obj EXCEPT ![x] = r.o] /\ heap' = r.h /\ UNCHANGED <<kind, held>>
      /\ wire' = (IF r.next = "more" THEN Tail(wire) ELSE << >>)
      /\ last' = [last EXCEPT !.op = IF r.next = "failure" THEN "failure" ELSE @,
                              !.want = IF r.next = "more" THEN @ ELSE {}]
      /\ last.op = "parsing" /\ wire # << >>
  BY <1>0, <1>1, <1>2 DEF ParseField, Parsed, IsRequest, Becomes
<1>4. Grown(obj[x], heap, r) /\ MayAllocate(obj[x], heap)
  <2>1. obj[x] \in RequestObjs /\ heap \in Heaps /\ Valid(obj[x], heap)
    BY OwnedValid DEF PbInv
  <2>2. MayAllocate(obj[x], heap)
    BY <1>0, <1>3 DEF PbInv, RequestInv
  <2> QED BY <1>2, <2>1, <2>2, ParseGrown
<1>5. /\ obj' \in [Objs -> RequestObjs] /\ heap' \in Heaps /\ Owned'
      /\ MayAllocate(obj'[x], heap')
  BY <1>3, <1>4, GrownKeeps DEF PbInv
<1>6. wire' \in Seq(Fields)
  BY <1>3 DEF PbInv, RequestInv
<1>7. last'.at = x /\ last' \in [op : {last'.op}, at : Objs, want : {last'.want}]
  BY <1>0, <1>3 DEF PbInv
<1> QED BY <1>3, <1>5, <1>6, <1>7 DEF PbInv, RequestInv, IsRequest

-----------------------------------------------------------------------------
(* The theorem *)

\* The other classes leave the heap alone.
LEMMA OtherClassesKeep ==
  ASSUME PbInv, ~IsRequest, Next
  PROVE  PbInv'
<1> SUFFICES /\ UNCHANGED <<kind, heap, held>>
             /\ last' \in [op : {last'.op}, at : Objs, want : {last'.want}]
  BY DEF PbInv, IsRequest
<1>0. kind \in Kinds \ {"StepRequest"}
  BY DEF PbInv, IsRequest
<1>1. ASSUME NEW x \in Objs, NEW r, r.h = heap, Becomes(x, r) PROVE heap' = heap
  BY <1>1 DEF Becomes
<1>2. ASSUME NEW x \in Objs, NEW n \in 1..4, ClearField(x, n) \/ \E v : SetScalar(x, n, v)
      PROVE  UNCHANGED <<kind, heap, held>> /\ \E op, want : Did(op, x, want)
  BY <1>0, <1>2 DEF ClearField, SetScalar, Becomes, Kinds
<1>3. ASSUME NEW x \in Objs, Clear(x) \/ Renew(x) \/ \E fields, want : ParseFrom(x, fields, want)
      PROVE  UNCHANGED <<kind, heap, held>> /\ \E op, want : Did(op, x, want)
  <2>1. ClearOf(obj[x], heap).h = heap
    BY <1>0 DEF ClearOf, Kinds
  <2> QED BY <1>3, <2>1 DEF Clear, Renew, ParseFrom, Becomes, IsRequest
<1>4. ASSUME NEW x \in Objs, NEW y \in Objs, MergeFrom(x, y) \/ CopyFrom(x, y) \/ Swap(x, y)
      PROVE  UNCHANGED <<kind, heap, held>> /\ \E op, want : Did(op, x, want)
  <2>1. Merged(obj[x], heap, obj[y]).h = heap
    BY <1>0 DEF Merged, Kinds
  <2>2. Copied(obj[x], heap, obj[y]).h = heap
    BY <1>0 DEF Copied, Kinds
  <2> QED BY <1>4, <2>1, <2>2 DEF MergeFrom, CopyFrom, Swap, Becomes
<1>5. ASSUME NEW x \in Objs, NEW fields, NEW want, MergeFromStream(x, fields, want)
      PROVE  UNCHANGED <<kind, heap, held>> /\ \E op, w : Did(op, x, w)
  BY <1>5 DEF MergeFromStream
<1>6. CASE ParseField
  <2>1. Parsed(obj[last.at], heap, Head(wire)).h = heap
    BY <1>0 DEF Parsed, Kinds
  <2>2. UNCHANGED <<kind, heap, held>>
        /\ \E op, want : last' = [last EXCEPT !.op = op, !.want = want]
    BY <1>6, <2>1 DEF ParseField, Becomes
  <2> QED BY <2>2 DEF PbInv
<1>7. CASE ParseEnd
  <2>1. UNCHANGED <<kind, heap, held>> /\ \E op : last' = [last EXCEPT !.op = op]
    BY <1>7 DEF ParseEnd
  <2> QED BY <2>1 DEF PbInv
<1>8. ASSUME NEW x \in Objs, \E op, want : Did(op, x, want)
      PROVE  last' \in [op : {last'.op}, at : Objs, want : {last'.want}]
  BY <1>8 DEF Did
<1>9. \A p \in Payloads : ~NewMessage(p) /\ \A x \in Objs : ~Mutate(x, p)
  BY DEF NewMessage, Mutate
<1>10. \A p \in held : ~DeleteMessage(p)
  BY DEF PbInv
<1>11. \A x \in Objs : ~Release(x) /\ \A p \in held \cup {Null} : ~SetAllocated(x, p)
  BY DEF Release, SetAllocated
<1> QED BY <1>2, <1>3, <1>4, <1>5, <1>6, <1>7, <1>8, <1>9, <1>10, <1>11 DEF Next

LEMMA RequestsKeep ==
  ASSUME PbInv, IsRequest, Next
  PROVE  PbInv'
<1>1. ASSUME NEW x \in Objs, NEW n \in 1..4, ClearField(x, n) \/ \E v : SetScalar(x, n, v)
      PROVE  PbInv'
  BY <1>1, CallKeeps DEF SetScalar
<1>2. ASSUME NEW p \in Payloads, NewMessage(p) PROVE PbInv'
  <2>1. heap' \in Heaps /\ held' \in SUBSET Addrs /\ Owned'
    BY <1>2, NewMessageOwned
  <2>2. Idle /\ UNCHANGED <<kind, obj, wire, last>> /\ obj' \in [Objs -> RequestObjs]
    BY <1>2 DEF NewMessage, PbInv, RequestInv
  <2> QED BY <2>1, <2>2 DEF PbInv, RequestInv, IsRequest, Idle
<1>3. ASSUME NEW p \in held, DeleteMessage(p) PROVE PbInv'
  <2>1. heap' \in Heaps /\ held' \in SUBSET Addrs /\ Owned'
    BY <1>3, DeleteMessageOwned
  <2>2. Idle /\ UNCHANGED <<kind, obj, wire, last>> /\ obj' \in [Objs -> RequestObjs]
    BY <1>3 DEF DeleteMessage, PbInv, RequestInv
  <2> QED BY <2>1, <2>2 DEF PbInv, RequestInv, IsRequest, Idle
<1>4. ASSUME NEW x \in Objs, NEW p, NEW freed \in BOOLEAN, Exchanged(x, p, freed), Idle,
             UNCHANGED <<kind, wire>>, \E op, want : op # "parsing" /\ Did(op, x, want)
      PROVE  PbInv'
  <2>1. heap' \in Heaps /\ held' \in SUBSET Addrs /\ Owned'
    BY <1>4, ExchangedOwned
  <2>2. obj' \in [Objs -> RequestObjs]
    BY <1>4 DEF Exchanged
  <2> QED BY <1>4, <2>1, <2>2, OwnedSuffices DEF Did
<1>5. ASSUME NEW x \in Objs, NEW p \in held \cup {Null}, SetAllocated(x, p) PROVE PbInv'
  <2>1. Exchanged(x, p, TRUE)
    BY <1>5, SetAllocatedOwned
  <2> QED BY <1>4, <1>5, <2>1 DEF SetAllocated
<1>6. ASSUME NEW x \in Objs, Release(x) PROVE PbInv'
  <2>1. Exchanged(x, Null, FALSE)
    BY <1>6, ReleaseOwned
  <2> QED BY <1>4, <1>6, <2>1 DEF Release
<1>7. ASSUME NEW x \in Objs, Renew(x) PROVE PbInv'
  <2>1. Exchanged(x, Null, TRUE)
    BY <1>7, RenewOwned
  <2> QED BY <1>4, <1>7, <2>1 DEF Renew
<1>8. ASSUME NEW x \in Objs, NEW y \in Objs, Swap(x, y) PROVE PbInv'
  <2>1. obj' \in [Objs -> RequestObjs] /\ Owned'
    BY <1>8, SwapOwned
  <2>2. Idle /\ UNCHANGED <<kind, wire, heap, held>> /\ \E want : Did("ok", x, want)
    BY <1>8 DEF Swap
  <2> QED BY <2>1, <2>2, OwnedSuffices DEF Did, PbInv
<1>9. ASSUME NEW x \in Objs, NEW y \in Objs, NEW want,
             \/ ParseFrom(x, Serialized(obj[y], heap), want)
             \/ MergeFromStream(x, Serialized(obj[y], heap), want)
      PROVE  PbInv'
  <2>1. PICK fields \in Seq(Fields) : fields = Serialized(obj[y], heap)
    BY SerializeType
  <2>2. ParseFrom(x, fields, want) \/ MergeFromStream(x, fields, want)
    BY <1>9, <2>1 DEF ParseFrom, MergeFromStream, Did
  <2> QED BY <2>2, ParseBegins
<1>10. ASSUME NEW x \in Objs, NEW s \in Streams, ParseFrom(x, s, {}) \/ MergeFromStream(x, s, {})
       PROVE  PbInv'
  <2>1. s \in Seq(Fields)
    BY ObjectAssumption
  <2> QED BY <1>10, <2>1, ParseBegins
<1>11. CASE ParseField
  BY <1>11, ParseFieldKeeps
<1>12. CASE ParseEnd
  <2>1. UNCHANGED <<kind, obj, heap, held, wire>>
        /\ \E op \in {"ok", "failure"} : last' = [last EXCEPT !.op = op]
    <3>1. CASE IsInitialized(obj[last.at])
      BY <1>12, <3>1 DEF ParseEnd
    <3>2. CASE ~IsInitialized(obj[last.at])
      BY <1>12, <3>2 DEF ParseEnd
    <3> QED BY <3>1, <3>2
  <2>2. last' \in [op : {last'.op}, at : Objs, want : {last'.want}] /\ last'.op # "parsing"
    BY <2>1 DEF PbInv
  <2>3. Owned'
    BY <2>1 DEF PbInv, RequestInv, Owned, Ptr
  <2> QED BY <2>1, <2>2, <2>3 DEF PbInv, RequestInv, IsRequest
<1>13. ASSUME NEW x \in Objs, NEW p \in Payloads, Mutate(x, p) PROVE PbInv'
  BY <1>13, CallKeeps
<1>14. ASSUME NEW x \in Objs, Clear(x) PROVE PbInv'
  BY <1>14, CallKeeps
<1>15. ASSUME NEW x \in Objs, NEW y \in Objs, MergeFrom(x, y) \/ CopyFrom(x, y) PROVE PbInv'
  BY <1>15, CallKeeps
<1> QED
  BY <1>1, <1>2, <1>3, <1>5, <1>6, <1>7, <1>8, <1>9, <1>10, <1>11, <1>12, <1>13, <1>14, <1>15
  DEF Next

LEMMA PbInvInit == Init => PbInv
<1> SUFFICES ASSUME Init PROVE PbInv
  OBVIOUS
<1>1. /\ kind \in Kinds /\ heap \in Heaps /\ held \in SUBSET Addrs
      /\ last \in [op : {last.op}, at : Objs, want : {last.want}] /\ last.op # "parsing"
  BY DEF Init, Heaps
<1>2. ASSUME IsRequest PROVE RequestInv
  <2>1. obj = [x \in Objs |-> StepRequest_SharedCtor] /\ wire = << >>
    BY <1>2 DEF Init, IsRequest, Ctor
  <2>2. obj \in [Objs -> RequestObjs] /\ \A x \in Objs : Ptr(x) = Null
    BY <2>1, CtorType DEF Ptr
  <2>3. Owned
    BY <2>2 DEF Init, Owned
  <2> QED BY <1>1, <2>1, <2>2, <2>3 DEF RequestInv
<1> QED BY <1>1, <1>2 DEF PbInv, Init

\* The pointers of requests and the messages of their caller are a partition of
\* what is allocated: whatever sequence of set_allocated_message,
\* release_message, mutable_message, MergeFrom, CopyFrom, Swap, Clear, parses and
\* destructors runs on any number of requests, no message is leaked, deleted
\* twice or used after it was deleted.
THEOREM MessagesOwnedOnce == Spec => []OwnedOnce
<1>1. PbInv /\ [Next]_vars => PbInv'
  <2> SUFFICES ASSUME PbInv, [Next]_vars PROVE PbInv'
    OBVIOUS
  <2>1. CASE Next
    BY <2>1, RequestsKeep, OtherClassesKeep
  <2>2. CASE UNCHANGED vars
    BY <2>2 DEF vars, PbInv, RequestInv, Owned, Ptr, IsRequest, MayAllocate
  <2> QED BY <2>1, <2>2
<1>2. PbInv => OwnedOnce
  <2> SUFFICES ASSUME PbInv, NEW p \in Addrs
               PROVE  IF heap[p] = Free THEN Owners(p) = {} /\ p \notin held
                      ELSE \/ p \in held /\ Owners(p) = {}
                           \/ p \notin held /\ \E x \in Objs : Owners(p) = {x}
    BY DEF OwnedOnce
  <2>1. CASE ~IsRequest
    BY <2>1 DEF PbInv, Owners
  <2>2. CASE IsRequest
    <3>1. Owners(p) = {x \in Objs : Ptr(x) = p} /\ p # Null
      BY <2>2, AddrAssumption DEF Owners, Ptr
    <3>2. heap[p] = Free => Owners(p) = {} /\ p \notin held
      BY <2>2, <3>1 DEF PbInv, RequestInv, Owned
    <3>3. p \in held => Owners(p) = {}
      BY <2>2, <3>1 DEF PbInv, RequestInv, Owned
    <3>4. ASSUME heap[p] # Free, p \notin held PROVE \E x \in Objs : Owners(p) = {x}
      <4>1. PICK x \in Objs : Ptr(x) = p
        BY <2>2, <3>4 DEF PbInv, RequestInv, Owned
      <4>2. \A y \in Objs : Ptr(y) = p => y = x
        BY <2>2, <3>1, <4>1 DEF PbInv, RequestInv, Owned
      <4>3. Owners(p) = {x}
        BY <3>1, <4>1, <4>2
      <4> QED BY <4>3
    <3> QED BY <3>2, <3>3, <3>4
  <2> QED BY <2>1, <2>2
<1> QED BY <1>1, <1>2, PbInvInit, PTL DEF Spec

=============================================================================
