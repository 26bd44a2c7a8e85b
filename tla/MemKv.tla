-------------------------------- MODULE MemKv --------------------------------
(***************************************************************************)
(* memkv on one server: the tree MemKvStore, and DB, which logs a request  *)
(* through ReplicatedLog::Write and then applies it to the store from the  *)
(* thread that made the request.                                           *)
(*                                                                         *)
(* A path is the sequence of segments that validatePath splits it into, ""  *)
(* being the empty segment; BadPath stands for the paths it refuses.  The  *)
(* tree is the set of its nodes, each with its data.  Of the replicated    *)
(* log DB sees what Write returns and when: OK, an error, or nothing.  OK  *)
(* does not say that the entry is the request's own (AckedIsOwnEntry in    *)
(* WritePath), so what is in the log is no part of this module.            *)
(***************************************************************************)
EXTENDS SeqFolds, FiniteSetsExt

CONSTANTS
  Clients,     \* requests, each handled by a thread of the server
  RawPaths,    \* paths of requests, split at '/'
  BadPath,     \* an empty path or one with a NUL
  Values,      \* data of requests
  NoData,      \* the empty string a new node holds
  MaxInFlight, \* bound: requests handled at the same time
  MaxRestarts, \* bound: restarts of the server
  MaxChanges   \* bound: changes of leadership

ASSUME PathAssumption ==
  /\ \A p \in RawPaths : p \in Seq(STRING)
  /\ BadPath \notin RawPaths

ASSUME KvBoundAssumption ==
  MaxInFlight \in Nat /\ MaxRestarts \in Nat /\ MaxChanges \in Nat

VARIABLES
  store,     \* the tree: node -> data
  applied,   \* history: the requests applied to it since it was made
  leader,    \* whether this server leads
  req,       \* the request each client made
  pc,        \* where the thread that handles it is
  result,    \* what it answers
  before,    \* history: the updates that had been answered OK when it came
  restarts, changes

vars == <<store, applied, leader, req, pc, result, before, restarts, changes>>

AllPaths == RawPaths \cup {BadPath}

Requests ==
  [type : {"write"}, path : AllPaths, value : Values, stale : {FALSE}]
    \cup [type : {"delete"}, path : AllPaths, value : {NoData}, stale : {FALSE}]
    \cup [type : {"get"}, path : AllPaths, value : {NoData}, stale : BOOLEAN]

\* Stands for the request of a client that has made none.
NoRequest == [type |-> "get", path |-> BadPath, value |-> NoData, stale |-> FALSE]

-----------------------------------------------------------------------------
(* MemKvStore *)

\* Empty segments are ignored.
Node(path) == SelectSeq(path, LAMBDA seg : seg # "")

\* What SelectSeq leaves of a path: segments, and the last one if it is not empty.
ASSUME NodeAssumption ==
  \A p \in RawPaths : Node(p) \in Seq(STRING) /\ (Last(p) # "" => Node(p) # << >>)

\* The nodes a walk to n passes, root and n included.
Walk(n) == {SubSeq(n, 1, k) : k \in 0..Len(n)}

EmptyTree == [n \in {<< >>} |-> NoData]

\* The nodes Write makes sure of.
Created(n) == Walk(n)

\* MemKvStore::Write.
StoreWrite(tree, path, value) ==
  IF path = BadPath THEN [code |-> "InvalidArgument", tree |-> tree]
  ELSE [code |-> "OK",
        tree |-> [n \in DOMAIN tree \cup Created(Node(path)) |->
                    IF n = Node(path) THEN value
                    ELSE IF n \in DOMAIN tree THEN tree[n] ELSE NoData]]

\* Mutant of Erased: the node alone.
ErasedNode(tree, n) == {n}

\* The nodes that go with the entry for n in its parent's children.
Erased(tree, n) == {m \in DOMAIN tree : IsPrefix(n, m)}

\* Mutant of StoreDelete: the root can be deleted.
StoreDeleteRoot(tree, path) ==
  IF path = BadPath THEN [code |-> "InvalidArgument", tree |-> tree]
  ELSE [code |-> "OK", tree |-> [n \in DOMAIN tree \ Erased(tree, Node(path)) |-> tree[n]]]

\* MemKvStore::Delete: the node is erased when the last segment is reached; a
\* path that ends in an empty segment runs off the end of the loop.
StoreDelete(tree, path) ==
  IF path = BadPath THEN [code |-> "InvalidArgument", tree |-> tree]
  ELSE IF ~(Walk(Node(path)) \subseteq DOMAIN tree) THEN [code |-> "OK", tree |-> tree]
  ELSE IF Last(path) = "" THEN [code |-> "InvalidArgument", tree |-> tree]
  ELSE [code |-> "OK", tree |-> [n \in DOMAIN tree \ Erased(tree, Node(path)) |-> tree[n]]]

\* MemKvStore::Get.
StoreGet(tree, path) ==
  IF path = BadPath THEN [code |-> "InvalidArgument", data |-> NoData]
  ELSE IF Walk(Node(path)) \subseteq DOMAIN tree THEN [code |-> "OK", data |-> tree[Node(path)]]
  ELSE [code |-> "NodeNotExist", data |-> NoData]

\* What a request does to the tree.
Applied(tree, r) ==
  IF r.type = "write" THEN StoreWrite(tree, r.path, r.value) ELSE StoreDelete(tree, r.path)

-----------------------------------------------------------------------------
(* DB *)

NoResult == [code |-> "none", data |-> NoData]

InFlight == {c \in Clients : pc[c] \notin {"idle", "done", "lost"}}

IsUpdate(r) == r.type \in {"write", "delete"}

\* The updates whose clients have been told OK since the server started.
AnsweredOK == {c \in Clients : pc[c] = "done" /\ IsUpdate(req[c]) /\ result[c].code = "OK"}

\* A request arrives.  Write and Delete encode it and call ReplicatedLog::Write;
\* Get submits a task that reads the leader hint.
Receive(c, r) ==
  /\ pc[c] = "idle"
  /\ Cardinality(InFlight) < MaxInFlight
  /\ req' = [req EXCEPT ![c] = r]
  /\ pc' = [pc EXCEPT ![c] = IF r.type = "get" THEN "asking" ELSE "logging"]
  /\ before' = [before EXCEPT ![c] = AnsweredOK]
  /\ UNCHANGED <<store, applied, leader, result, restarts, changes>>

Answer(c, code, data) ==
  /\ pc' = [pc EXCEPT ![c] = "done"]
  /\ result' = [result EXCEPT ![c] = [code |-> code, data |-> data]]

\* The log takes the request, on the leader only; the thread waits.
Log(c) ==
  /\ pc[c] = "logging" /\ leader
  /\ pc' = [pc EXCEPT ![c] = "logged"]
  /\ UNCHANGED <<store, applied, leader, req, result, before, restarts, changes>>

\* The log refuses it, as any other server does and raft may on the leader: DB
\* answers ConsensusError.
Refuse(c) ==
  /\ pc[c] = "logging"
  /\ Answer(c, "ConsensusError", NoData)
  /\ UNCHANGED <<store, applied, leader, req, before, restarts, changes>>

\* ReplicatedLog::Write returns OK, at any time after it took the request and
\* whoever leads by then; or it never does, and the thread stays where it is.
Acknowledge(c) ==
  /\ pc[c] = "logged"
  /\ pc' = [pc EXCEPT ![c] = "applying"]
  /\ UNCHANGED <<store, applied, leader, req, result, before, restarts, changes>>

\* Mutant of Apply: a server that leads no more leaves the store alone.
ApplyAsLeader(c) ==
  /\ pc[c] = "applying"
  /\ store' = IF leader THEN Applied(store, req[c]).tree ELSE store
  /\ applied' = IF leader THEN Append(applied, c) ELSE applied
  /\ Answer(c, Applied(store, req[c]).code, NoData)
  /\ UNCHANGED <<leader, req, before, restarts, changes>>

\* The thread of the request applies it to the store and answers.
Apply(c) ==
  /\ pc[c] = "applying"
  /\ store' = Applied(store, req[c]).tree
  /\ applied' = Append(applied, c)
  /\ Answer(c, Applied(store, req[c]).code, NoData)
  /\ UNCHANGED <<leader, req, before, restarts, changes>>

\* The task of Get has read the hint: go on or refuse.
AskLeader(c) ==
  /\ pc[c] = "asking"
  /\ IF leader \/ req[c].stale
       THEN pc' = [pc EXCEPT ![c] = "reading"] /\ UNCHANGED result
       ELSE Answer(c, "ConsensusError", NoData)
  /\ UNCHANGED <<store, applied, leader, req, before, restarts, changes>>

Read(c) ==
  /\ pc[c] = "reading"
  /\ Answer(c, StoreGet(store, req[c].path).code, StoreGet(store, req[c].path).data)
  /\ UNCHANGED <<store, applied, leader, req, before, restarts, changes>>

ChangeLeader ==
  /\ changes < MaxChanges
  /\ changes' = changes + 1
  /\ leader' = ~leader
  /\ UNCHANGED <<store, applied, req, pc, result, before, restarts>>

\* Bootstrap after a stop: the store starts empty, and what the server did before
\* is out of its hands.
Restart ==
  /\ restarts < MaxRestarts
  /\ restarts' = restarts + 1
  /\ store' = EmptyTree /\ applied' = << >>
  /\ leader' = FALSE
  /\ pc' = [c \in Clients |-> IF pc[c] = "idle" THEN "idle" ELSE "lost"]
  /\ UNCHANGED <<req, result, before, changes>>

Init ==
  /\ store = EmptyTree /\ applied = << >>
  /\ leader = TRUE
  /\ req = [c \in Clients |-> NoRequest]
  /\ pc = [c \in Clients |-> "idle"]
  /\ result = [c \in Clients |-> NoResult]
  /\ before = [c \in Clients |-> {}]
  /\ restarts = 0 /\ changes = 0

Handle(c) == Log(c) \/ Refuse(c) \/ Acknowledge(c) \/ Apply(c) \/ AskLeader(c) \/ Read(c)

Next ==
  \/ \E c \in Clients : (\E r \in Requests : Receive(c, r)) \/ Handle(c)
  \/ ChangeLeader
  \/ Restart

Spec == Init /\ [][Next]_vars

-----------------------------------------------------------------------------
(* Properties *)

Nodes == Seq(STRING)

\* Every variable has its type: the tree is a function from nodes to data with
\* the root.
TypeOK ==
  /\ DOMAIN store \subseteq Nodes /\ << >> \in DOMAIN store
  /\ \A n \in DOMAIN store : store[n] \in Values \cup {NoData}
  /\ applied \in Seq(Clients)
  /\ leader \in BOOLEAN
  /\ req \in [Clients -> Requests]
  /\ pc \in [Clients -> {"idle", "logging", "logged", "applying", "asking", "reading", "done", "lost"}]
  /\ DOMAIN result = Clients
  /\ before \in [Clients -> SUBSET Clients]
  /\ restarts \in 0..MaxRestarts /\ changes \in 0..MaxChanges

\* What a sequence h of requests leaves behind.  Stores and Removes are the
\* requests that Write and Delete accept; a survivor of h at n is a write at or
\* below n that no later delete at or above n took away.
Stores(r) == r.type = "write" /\ r.path # BadPath
Removes(r, n) ==
  /\ r.type = "delete" /\ r.path # BadPath
  /\ Last(r.path) # "" /\ IsPrefix(Node(r.path), n)
Survivors(h, n) ==
  {i \in 1..Len(h) : /\ Stores(h[i]) /\ n \in Walk(Node(h[i].path))
                     /\ \A j \in i + 1..Len(h) : ~Removes(h[j], n)}
Exists(h, n) == n = << >> \/ Survivors(h, n) # {}
Holds(h, n) ==
  LET puts == {i \in Survivors(h, n) : Node(h[i].path) = n}
  IN IF puts = {} THEN NoData ELSE h[Max(puts)].value
Lookup(h, n) ==
  IF Exists(h, n) THEN [code |-> "OK", data |-> Holds(h, n)]
  ELSE [code |-> "NodeNotExist", data |-> NoData]

\* The first k requests applied to the store.
History(k) == [i \in 1..k |-> req[applied[i]]]

\* The tree is what the requests applied to it say, whatever came between: a
\* node is there when a write at or below it is followed by no delete at or
\* above it, and holds the value of the last such write to it.  Children of a
\* deleted node do not come back with it, and a refused request leaves no trace.
StoreMatchesRequests ==
  LET h == History(Len(applied))
      named == UNION {Walk(Node(h[i].path)) : i \in {j \in 1..Len(applied) : Stores(h[j])}}
  IN /\ DOMAIN store = {n \in {<< >>} \cup named : Exists(h, n)}
     /\ \A n \in DOMAIN store : store[n] = Holds(h, n)

\* A client that was told OK can rely on it: a Get that this server answers from
\* its store sees every update that had been answered when the Get came, in the
\* order in which the server applied them, however the threads of other requests
\* and a loss of leadership come between (db.cc:91-97: Write returns to its
\* client only after the store has changed).
ReadsAreCurrent ==
  \A g \in Clients :
    pc[g] = "done" /\ req[g].type = "get" /\ result[g].code \in {"OK", "NodeNotExist"} =>
      \E k \in 0..Len(applied) :
        /\ \A u \in before[g] : \E i \in 1..k : applied[i] = u
        /\ result[g] = Lookup(History(k), Node(req[g].path))
=============================================================================
