----------------------------- MODULE MemKvProofs -----------------------------
(***************************************************************************)
(* The tree of memkv stays a tree (KvInv), is what the requests applied to *)
(* it leave of each path (MatchInv), and is read as such (ReadInv), for    *)
(* any requests, paths, restarts and changes of leadership.                *)
(***************************************************************************)
EXTENDS MemKv, FoldLemmas

\* The nodes on the way to a node are there.
TreeConnected == \A n \in DOMAIN store : Walk(n) \subseteq DOMAIN store

\* What reaches the store is an update.
UpdatesOnly == \A c \in Clients : pc[c] \in {"logging", "logged", "applying"} => IsUpdate(req[c])

KvInv == TypeOK /\ TreeConnected /\ UpdatesOnly

\* A walk starts at the root, ends at its node and contains the walks to the
\* nodes it passes (the loop over the segments in MemKvStore).
LEMMA WalkFacts ==
  ASSUME NEW n \in Nodes
  PROVE  /\ n \in Walk(n) /\ << >> \in Walk(n)
         /\ Walk(n) \subseteq Nodes
         /\ \A m \in Walk(n) : Walk(m) \subseteq Walk(n)
<1>1. n \in Walk(n)
  BY DEF Walk, Nodes
<1>2. << >> \in Walk(n)
  <2>1. SubSeq(n, 1, 0) = << >>
    BY DEF Nodes
  <2>. QED  BY <2>1 DEF Walk, Nodes
<1>3. \A k \in 0..Len(n) : SubSeq(n, 1, k) \in Nodes /\ Len(SubSeq(n, 1, k)) = k
  BY DEF Nodes
<1>4. ASSUME NEW k \in 0..Len(n), NEW j \in 0..k
      PROVE  SubSeq(SubSeq(n, 1, k), 1, j) = SubSeq(n, 1, j)
  BY DEF Nodes
<1>5. ASSUME NEW m \in Walk(n), NEW l \in Walk(m)
      PROVE  l \in Walk(n)
  <2>1. PICK k \in 0..Len(n) : m = SubSeq(n, 1, k)
    BY DEF Walk
  <2>2. Len(m) = k
    BY <2>1, <1>3
  <2>3. PICK j \in 0..k : l = SubSeq(m, 1, j)
    BY <2>2 DEF Walk
  <2>4. l = SubSeq(n, 1, j)
    BY <2>1, <2>3, <1>4
  <2>. QED  BY <2>4 DEF Walk, Nodes
<1>. QED  BY <1>1, <1>2, <1>3, <1>5 DEF Walk

\* A node below one that is passed on the way to another is below the other.
LEMMA PrefixOnWalk ==
  ASSUME NEW n \in Nodes, NEW m \in Nodes, NEW l \in Walk(m), IsPrefix(n, l)
  PROVE  IsPrefix(n, m)
<1>1. PICK k \in 0..Len(m) : l = SubSeq(m, 1, k)
  BY DEF Walk
<1>2. l \in Nodes /\ Len(l) = k
  BY <1>1 DEF Nodes
<1>3. Len(n) <= k /\ SubSeq(n, 1, Len(n)) = SubSeq(l, 1, Len(n))
  BY <1>2 DEF IsPrefix
<1>4. SubSeq(l, 1, Len(n)) = SubSeq(m, 1, Len(n))
  BY <1>1, <1>3 DEF Nodes
<1>. QED  BY <1>1, <1>3, <1>4 DEF IsPrefix, Nodes

\* A node is below itself, the root below no other node, and a node passes those
\* it is below.
LEMMA PrefixFacts ==
  ASSUME NEW n \in Nodes
  PROVE  /\ IsPrefix(n, n)
         /\ n # << >> => ~IsPrefix(n, << >>)
         /\ \A m \in Nodes : IsPrefix(n, m) => n \in Walk(m)
<1>1. Len(n) \in Nat /\ SubSeq(n, 1, Len(n)) = n
  BY DEF Nodes
<1>2. IsPrefix(n, n)
  BY <1>1 DEF IsPrefix
<1>3. n # << >> => ~IsPrefix(n, << >>)
  BY DEF IsPrefix, Nodes
<1>4. ASSUME NEW m \in Nodes, IsPrefix(n, m) PROVE n \in Walk(m)
  <2>1. Len(n) <= Len(m) /\ Len(m) \in Nat /\ SubSeq(n, 1, Len(n)) = SubSeq(m, 1, Len(n))
    BY <1>4 DEF IsPrefix, Nodes
  <2>2. Len(n) \in 0..Len(m) /\ n = SubSeq(m, 1, Len(n))
    BY <1>1, <2>1
  <2>. QED  BY <2>2 DEF Walk
<1>. QED  BY <1>2, <1>3, <1>4

\* A tree of nodes with the root, every walk inside it and data of the type.
IsTree(t) ==
  /\ DOMAIN t \subseteq Nodes /\ << >> \in DOMAIN t
  /\ \A n \in DOMAIN t : t[n] \in Values \cup {NoData} /\ Walk(n) \subseteq DOMAIN t

\* MemKvStore::Write keeps a tree a tree and changes no data but its node's.
LEMMA WriteFacts ==
  ASSUME NEW t, IsTree(t), NEW p \in AllPaths, NEW v \in Values,
         NEW u, u = StoreWrite(t, p, v).tree
  PROVE  /\ IsTree(u)
         /\ \A n \in DOMAIN u :
              \/ n \in DOMAIN t /\ u[n] = t[n]
              \/ u[n] = NoData
              \/ p # BadPath /\ Node(p) = n /\ u[n] = v
<1>. DEFINE q == Node(p)
<1>1. CASE p = BadPath
  <2>1. u = t
    BY <1>1 DEF StoreWrite
  <2>. QED  BY <2>1 DEF IsTree
<1>2. CASE p # BadPath
  <2>1. q \in Nodes
    BY <1>2, NodeAssumption DEF AllPaths, Nodes
  <2>2. u = [n \in DOMAIN t \cup Walk(q) |->
               IF n = q THEN v ELSE IF n \in DOMAIN t THEN t[n] ELSE NoData]
    BY <1>2 DEF StoreWrite, Created
  <2>. HIDE DEF q
  <2>3. DOMAIN u = DOMAIN t \cup Walk(q)
    BY <2>2
  <2>4. \A n \in DOMAIN u : Walk(n) \subseteq DOMAIN u
    BY <2>1, <2>3, WalkFacts DEF IsTree
  <2>5. \A n \in DOMAIN u : u[n] = IF n = q THEN v ELSE IF n \in DOMAIN t THEN t[n] ELSE NoData
    BY <2>2
  <2>6. IsTree(u)
    BY <2>1, <2>3, <2>4, <2>5, WalkFacts DEF IsTree
  <2>7. \A n \in DOMAIN u : (n \in DOMAIN t /\ u[n] = t[n]) \/ u[n] = NoData \/ (q = n /\ u[n] = v)
    BY <2>5, <2>3
  <2>. QED  BY <1>2, <2>6, <2>7 DEF q
<1>. QED  BY <1>1, <1>2

\* MemKvStore::Delete keeps a tree a tree and changes no data that stays.
LEMMA DeleteFacts ==
  ASSUME NEW t, IsTree(t), NEW p \in AllPaths, NEW u, u = StoreDelete(t, p).tree
  PROVE  IsTree(u) /\ \A n \in DOMAIN u : n \in DOMAIN t /\ u[n] = t[n]
<1>. DEFINE q == Node(p)
<1>1. CASE p = BadPath \/ ~(Walk(q) \subseteq DOMAIN t) \/ Last(p) = ""
  BY <1>1 DEF StoreDelete
<1>2. CASE p # BadPath /\ Walk(q) \subseteq DOMAIN t /\ Last(p) # ""
  <2>1. q \in Nodes /\ q # << >>
    BY <1>2, NodeAssumption DEF AllPaths, Nodes
  <2>2. u = [n \in DOMAIN t \ Erased(t, q) |-> t[n]]
    BY <1>2 DEF StoreDelete
  <2>. HIDE DEF q
  <2>3. ~IsPrefix(q, << >>)
    BY <2>1 DEF IsPrefix, Nodes
  <2>4. ASSUME NEW n \in DOMAIN u, NEW m \in Walk(n)
        PROVE  m \in DOMAIN u
    <3>1. n \in DOMAIN t /\ n \in Nodes /\ ~IsPrefix(q, n) /\ m \in DOMAIN t
      BY <2>2 DEF Erased, IsTree
    <3>2. ~IsPrefix(q, m)
      BY <3>1, <2>1, PrefixOnWalk
    <3>. QED  BY <3>1, <3>2, <2>2 DEF Erased
  <2>. QED  BY <2>2, <2>3, <2>4 DEF Erased, IsTree
<1>. QED  BY <1>1, <1>2

\* The tree after a request: what Apply does to the store.
LEMMA ApplyFacts ==
  ASSUME KvInv, NEW c \in Clients, Apply(c)
  PROVE  /\ IsTree(store')
         /\ \A n \in DOMAIN store' :
              \/ n \in DOMAIN store /\ store'[n] = store[n]
              \/ store'[n] = NoData
              \/ /\ req[c].type = "write" /\ req[c].path # BadPath
                 /\ Node(req[c].path) = n /\ store'[n] = req[c].value
<1>1. IsTree(store) /\ req[c] \in Requests /\ pc[c] = "applying"
  BY DEF KvInv, TypeOK, TreeConnected, IsTree, Apply
<1>2. req[c].type \in {"write", "delete"} /\ req[c].path \in AllPaths
  BY <1>1 DEF KvInv, UpdatesOnly, IsUpdate, Requests
<1>3. CASE req[c].type = "write"
  <2>1. req[c].value \in Values
    BY <1>1, <1>3 DEF Requests
  <2>2. store' = StoreWrite(store, req[c].path, req[c].value).tree
    BY <1>3 DEF Apply, Applied
  <2>. QED  BY <1>1, <1>2, <1>3, <2>1, <2>2, WriteFacts
<1>4. CASE req[c].type = "delete"
  <2>1. store' = StoreDelete(store, req[c].path).tree
    BY <1>4 DEF Apply, Applied
  <2>. QED  BY <1>1, <1>2, <2>1, DeleteFacts
<1>. QED  BY <1>2, <1>3, <1>4

\* The steps other than Apply and Restart leave the store alone.
LEMMA StoreUntouched ==
  ASSUME [Next]_vars, ~Restart, \A c \in Clients : ~Apply(c)
  PROVE  store' = store
BY DEF Next, Handle, vars, Receive, Log, Refuse, Acknowledge, AskLeader, Read, ChangeLeader

\* The store is a tree after every step.
LEMMA TreeStep ==
  ASSUME KvInv, [Next]_vars
  PROVE  IsTree(store')
<1>1. IsTree(store)
  BY DEF KvInv, TypeOK, TreeConnected, IsTree
<1>2. ASSUME NEW c \in Clients, Apply(c)
      PROVE  IsTree(store')
  BY <1>2, ApplyFacts
<1>3. CASE Restart
  <2>1. Walk(<< >>) = {<< >>}
    <3>1. Len(<< >>) = 0 /\ 0..0 = {0} /\ SubSeq(<< >>, 1, 0) = << >>
      OBVIOUS
    <3>. QED  BY <3>1, Zenon DEF Walk
  <2>2. store' = [n \in {<< >>} |-> NoData]
    BY <1>3 DEF Restart, EmptyTree
  <2>. QED  BY <2>1, <2>2 DEF IsTree, Nodes
<1>4. CASE store' = store
  BY <1>1, <1>4 DEF IsTree
<1>. QED  BY <1>2, <1>3, <1>4, StoreUntouched

\* The types of everything but the store.
RestTypeOK ==
  /\ applied \in Seq(Clients)
  /\ leader \in BOOLEAN
  /\ req \in [Clients -> Requests]
  /\ pc \in [Clients -> {"idle", "logging", "logged", "applying", "asking", "reading", "done", "lost"}]
  /\ DOMAIN result = Clients
  /\ before \in [Clients -> SUBSET Clients]
  /\ restarts \in 0..MaxRestarts /\ changes \in 0..MaxChanges

\* A step of the server keeps the types.
LEMMA RestStep ==
  ASSUME RestTypeOK, [Next]_vars
  PROVE  RestTypeOK'
<1>. USE KvBoundAssumption DEF RestTypeOK
<1>1. ASSUME NEW c \in Clients, NEW r \in Requests, Receive(c, r)
      PROVE  RestTypeOK'
  <2>1. AnsweredOK \in SUBSET Clients
    BY DEF AnsweredOK
  <2>. QED  BY <1>1, <2>1 DEF Receive
<1>2. ASSUME NEW c \in Clients, Log(c)
      PROVE  RestTypeOK'
  BY <1>2 DEF Log
<1>3. ASSUME NEW c \in Clients, Refuse(c) \/ Read(c)
      PROVE  RestTypeOK'
  BY <1>3 DEF Refuse, Read, Answer
<1>0. ASSUME NEW c \in Clients, Apply(c)
      PROVE  RestTypeOK'
  <2>1. applied' \in Seq(Clients)
    BY <1>0 DEF Apply
  <2>2. /\ pc' = [pc EXCEPT ![c] = "done"] /\ DOMAIN result' = DOMAIN result
        /\ UNCHANGED <<leader, req, before, restarts, changes>>
    BY <1>0 DEF Apply, Answer
  <2>. QED  BY <2>1, <2>2
<1>4. ASSUME NEW c \in Clients, Acknowledge(c) \/ AskLeader(c)
      PROVE  RestTypeOK'
  BY <1>4 DEF Acknowledge, AskLeader, Answer
<1>6. CASE ChangeLeader
  BY <1>6 DEF ChangeLeader
<1>7. CASE Restart
  <2>1. \A c \in Clients : pc'[c] \in {"lost", pc[c]}
    BY <1>7 DEF Restart
  <2>2. pc' \in [Clients -> {"idle", "logging", "logged", "applying", "asking", "reading", "done", "lost"}]
    BY <1>7, <2>1 DEF Restart
  <2>3. leader' \in BOOLEAN
    BY <1>7, Zenon DEF Restart
  <2>4. restarts' \in 0..MaxRestarts
    BY <1>7 DEF Restart
  <2>5. UNCHANGED <<req, result, before, changes>>
    BY <1>7, Zenon DEF Restart
  <2>6. applied' \in Seq(Clients)
    BY <1>7 DEF Restart
  <2>. QED  BY <2>2, <2>3, <2>4, <2>5, <2>6
<1>8. CASE UNCHANGED vars
  BY <1>8 DEF vars
<1>. QED  BY <1>0, <1>1, <1>2, <1>3, <1>4, <1>6, <1>7, <1>8 DEF Next, Handle

\* What a thread takes to the store stays an update.
LEMMA UpdatesStep ==
  ASSUME KvInv, [Next]_vars
  PROVE  UpdatesOnly'
<1>. USE DEF KvInv, TypeOK, UpdatesOnly
<1>1. ASSUME NEW c \in Clients, NEW r \in Requests, Receive(c, r)
      PROVE  UpdatesOnly'
  <2>1. r.type # "get" => IsUpdate(r)
    BY DEF Requests, IsUpdate
  <2>. QED  BY <1>1, <2>1 DEF Receive
<1>2. ASSUME NEW c \in Clients, Log(c) \/ Acknowledge(c)
      PROVE  UpdatesOnly'
  BY <1>2 DEF Log, Acknowledge
<1>3. ASSUME NEW c \in Clients, Refuse(c) \/ Apply(c) \/ Read(c) \/ AskLeader(c)
      PROVE  UpdatesOnly'
  BY <1>3 DEF Refuse, Apply, Read, AskLeader, Answer
<1>4. CASE ChangeLeader \/ UNCHANGED vars
  BY <1>4 DEF ChangeLeader, vars
<1>5. CASE Restart
  BY <1>5 DEF Restart
<1>. QED  BY <1>1, <1>2, <1>3, <1>4, <1>5 DEF Next, Handle

\* The inductive invariant holds in every state.
THEOREM KvInvariant == Spec => []KvInv
<1>1. Init => KvInv
  <2>. SUFFICES ASSUME Init PROVE KvInv
    OBVIOUS
  <2>1. Len(<< >>) = 0 /\ 0..0 = {0} /\ SubSeq(<< >>, 1, 0) = << >>
    OBVIOUS
  <2>2. Walk(<< >>) = {<< >>}
    BY <2>1, Zenon DEF Walk
  <2>3. store = [n \in {<< >>} |-> NoData]
    BY DEF Init, EmptyTree
  <2>4. TreeConnected
    BY <2>2, <2>3 DEF TreeConnected
  <2>5. DOMAIN store \subseteq Nodes /\ << >> \in DOMAIN store /\ \A n \in DOMAIN store : store[n] = NoData
    BY <2>3 DEF Nodes
  <2>6. NoRequest \in Requests
    BY DEF NoRequest, Requests, AllPaths
  <2>7. leader \in BOOLEAN
    BY Zenon DEF Init
  <2>8. TypeOK
    BY <2>5, <2>6, <2>7, KvBoundAssumption DEF TypeOK, Init
  <2>9. UpdatesOnly
    BY DEF Init, UpdatesOnly
  <2>. QED  BY <2>4, <2>8, <2>9 DEF KvInv
<1>2. KvInv /\ [Next]_vars => KvInv'
  <2>. SUFFICES ASSUME KvInv, [Next]_vars PROVE KvInv'
    OBVIOUS
  <2>1. RestTypeOK'
    BY RestStep DEF KvInv, TypeOK, RestTypeOK
  <2>2. TypeOK' /\ TreeConnected'
    BY <2>1, TreeStep DEF TypeOK, RestTypeOK, IsTree, TreeConnected
  <2>. QED  BY <2>2, UpdatesStep DEF KvInv
<1>. QED  BY <1>1, <1>2, PTL DEF Spec

\* The tree has nodes and data and keeps its root (Delete refuses it), and nothing
\* is past its bound.
THEOREM KvTypes == Spec => []TypeOK
<1>1. KvInv => TypeOK
  BY DEF KvInv
<1>. QED  BY <1>1, KvInvariant, PTL

-----------------------------------------------------------------------------
(* The tree is what the applied requests say *)

\* The writes of h that a node holds the last of.
PutsAt(h, n) == {i \in Survivors(h, n) : Node(h[i].path) = n}

\* Max is the greatest element of a set of positions,
LEMMA MaxFact ==
  ASSUME NEW n \in Nat, NEW s \in SUBSET (1..n), s # {}
  PROVE  Max(s) \in s /\ \A y \in s : Max(s) >= y
<1>1. \E x \in s : \A y \in s : x >= y
  BY GreatestExists
<1> QED BY <1>1 DEF Max

\* and is known by that.
LEMMA MaxIs ==
  ASSUME NEW n \in Nat, NEW s \in SUBSET (1..n), NEW m \in s, \A y \in s : m >= y
  PROVE  Max(s) = m
<1>1. Max(s) \in s /\ Max(s) >= m
  BY MaxFact
<1>2. m >= Max(s)
  BY <1>1
<1>3. m \in 1..n /\ Max(s) \in 1..n
  BY <1>1
<1> QED BY <1>1, <1>2, <1>3

\* StoreMatchesRequests, node by node.
Matches(t, h) ==
  /\ \A n : n \in DOMAIN t <=> Exists(h, n)
  /\ \A n \in DOMAIN t : t[n] = Holds(h, n)

All == History(Len(applied))

\* A request that was applied is not received again: it stays what it was.
AppliedIsReceived == \A i \in 1..Len(applied) : pc[applied[i]] # "idle"

\* The inductive invariant, with KvInv.
MatchInv == Matches(store, All) /\ AppliedIsReceived

\* A history is a sequence of requests.
LEMMA HistoryIsSeq ==
  ASSUME KvInv, NEW k \in 0..Len(applied)
  PROVE  /\ History(k) \in Seq(Requests) /\ Len(History(k)) = k
         /\ \A i \in 1..k : History(k)[i] = req[applied[i]]
<1>1. k \in Nat /\ \A i \in 1..k : req[applied[i]] \in Requests
  BY DEF KvInv, TypeOK
<1>2. History(k) \in [1..k -> Requests]
  BY <1>1 DEF History
<1>. QED  BY <1>1, <1>2 DEF History

\* The invariant is the property.
LEMMA MatchesSuffice == KvInv /\ MatchInv => StoreMatchesRequests
<1>. SUFFICES ASSUME KvInv, MatchInv PROVE StoreMatchesRequests
  OBVIOUS
<1>. DEFINE named == UNION {Walk(Node(All[i].path)) : i \in {j \in 1..Len(applied) : Stores(All[j])}}
<1>1. Len(All) = Len(applied)
  BY HistoryIsSeq DEF All, KvInv, TypeOK
<1>2. \A n : Exists(All, n) => n \in {<< >>} \cup named
  BY <1>1 DEF Exists, Survivors
<1>3. DOMAIN store = {n \in {<< >>} \cup named : Exists(All, n)}
  BY <1>2 DEF MatchInv, Matches
<1>4. \A n \in DOMAIN store : store[n] = Holds(All, n)
  BY DEF MatchInv, Matches
<1>. QED  BY <1>3, <1>4 DEF StoreMatchesRequests, All

\* One more request: it survives if it is a write, and the earlier ones survive
\* unless it takes their node away.
LEMMA SurvivorsGrow ==
  ASSUME NEW h \in Seq(Requests), NEW r \in Requests, NEW n, NEW N \in Nat, N = Len(h)
  PROVE  Survivors(Append(h, r), n) =
           (IF Removes(r, n) THEN {} ELSE Survivors(h, n))
             \cup (IF Stores(r) /\ n \in Walk(Node(r.path)) THEN {N + 1} ELSE {})
<1>. DEFINE g == Append(h, r)
<1>1. Len(g) = N + 1 /\ g[N + 1] = r /\ \A i \in 1..N : g[i] = h[i]
  OBVIOUS
<1>g. g = Append(h, r)
  OBVIOUS
<1>. HIDE DEF g
<1>2. ASSUME NEW i \in 1..N
      PROVE  (\A j \in i + 1..N + 1 : ~Removes(g[j], n))
               <=> (\A j \in i + 1..N : ~Removes(h[j], n)) /\ ~Removes(r, n)
  <2>1. \A j \in i + 1..N : j \in 1..N
    OBVIOUS
  <2>2. i + 1..N + 1 = (i + 1..N) \cup {N + 1}
    OBVIOUS
  <2>. QED  BY <1>1, <2>1, <2>2
<1>3. N + 1 + 1..N + 1 = {} /\ 1..N + 1 = (1..N) \cup {N + 1}
  OBVIOUS
<1>4. Survivors(h, n) = {i \in 1..N : /\ Stores(h[i]) /\ n \in Walk(Node(h[i].path))
                                      /\ \A j \in i + 1..N : ~Removes(h[j], n)}
  BY DEF Survivors
<1>5. Survivors(g, n) = {i \in 1..N + 1 : /\ Stores(g[i]) /\ n \in Walk(Node(g[i].path))
                                          /\ \A j \in i + 1..N + 1 : ~Removes(g[j], n)}
  BY <1>1 DEF Survivors
<1>. QED  BY <1>1, <1>2, <1>3, <1>4, <1>5, <1>g

\* What a node holds is the value of one of the requests.
LEMMA HoldsGrow ==
  ASSUME NEW h \in Seq(Requests), NEW r \in Requests, NEW n,
         PutsAt(Append(h, r), n) = PutsAt(h, n)
  PROVE  Holds(Append(h, r), n) = Holds(h, n)
<1>1. Len(h) \in Nat /\ \A i \in 1..Len(h) : Append(h, r)[i] = h[i]
  OBVIOUS
<1>2. PutsAt(h, n) \in SUBSET (1..Len(h))
  BY DEF PutsAt, Survivors
<1>3. CASE PutsAt(h, n) = {}
  BY <1>3 DEF Holds, PutsAt
<1>4. CASE PutsAt(h, n) # {}
  <2>1. Max(PutsAt(h, n)) \in 1..Len(h)
    BY <1>1, <1>2, <1>4, MaxFact
  <2>2. Append(h, r)[Max(PutsAt(h, n))] = h[Max(PutsAt(h, n))]
    BY <1>1, <2>1
  <2>. QED  BY <1>4, <2>2 DEF Holds, PutsAt
<1>. QED  BY <1>3, <1>4

\* A request that takes away what it removes and leaves the rest as it is.
LEMMA SameMatches ==
  ASSUME NEW t, NEW u, NEW h \in Seq(Requests), NEW r \in Requests, Matches(t, h),
         DOMAIN u \subseteq DOMAIN t, << >> \in DOMAIN u, \A n \in DOMAIN u : u[n] = t[n],
         \A n \in DOMAIN t : n \in DOMAIN u <=> ~Removes(r, n),
         ~Stores(r)
  PROVE  Matches(u, Append(h, r))
<1>0. PICK N \in Nat : N = Len(h)
  OBVIOUS
<1>1. \A n : Survivors(Append(h, r), n) = IF Removes(r, n) THEN {} ELSE Survivors(h, n)
  BY <1>0, SurvivorsGrow
<1>2. \A n \in DOMAIN u : Survivors(Append(h, r), n) = Survivors(h, n)
  BY <1>1
<1>3. \A n : n \in DOMAIN u <=> Exists(Append(h, r), n)
  BY <1>1 DEF Matches, Exists
<1>4. ASSUME NEW n \in DOMAIN u PROVE Holds(Append(h, r), n) = Holds(h, n)
  <2>1. \A i \in 1..Len(h) : Append(h, r)[i] = h[i]
    OBVIOUS
  <2>2. PutsAt(Append(h, r), n) = PutsAt(h, n)
    BY <1>2, <2>1 DEF PutsAt, Survivors
  <2>. QED  BY <2>2, HoldsGrow
<1>. QED  BY <1>3, <1>4 DEF Matches

\* MemKvStore::Write: its node holds the value, and the nodes it makes on the way
\* are empty, since no write that survived was at them.
LEMMA WriteMatches ==
  ASSUME NEW t, IsTree(t), NEW h \in Seq(Requests), NEW r \in Requests, Matches(t, h), Stores(r),
         NEW u, u = StoreWrite(t, r.path, r.value).tree
  PROVE  Matches(u, Append(h, r))
<1>n. PICK N \in Nat : N = Len(h)
  OBVIOUS
<1>. DEFINE q == Node(r.path)
            g == Append(h, r)
<1>0. q \in Nodes /\ r.path # BadPath
  <2>1. r.path \in AllPaths /\ r.path # BadPath
    BY DEF Requests, Stores
  <2>. QED  BY <2>1, NodeAssumption DEF AllPaths, Nodes
<1>1. ~\E n : Removes(r, n)
  BY DEF Removes, Stores
<1>2. \A n : Survivors(g, n) = Survivors(h, n) \cup (IF n \in Walk(q) THEN {N + 1} ELSE {})
  BY <1>1, <1>n, SurvivorsGrow
<1>3. g[N + 1] = r /\ \A i \in 1..N : g[i] = h[i]
  BY <1>n
<1>4. u = [n \in DOMAIN t \cup Walk(q) |->
             IF n = q THEN r.value ELSE IF n \in DOMAIN t THEN t[n] ELSE NoData]
  BY <1>0 DEF StoreWrite, Created
<1>5. q \in Walk(q)
  BY <1>0, WalkFacts
<1>q. Node(r.path) = q /\ g = Append(h, r)
  OBVIOUS
<1>. HIDE DEF q, g
<1>6. DOMAIN u = DOMAIN t \cup Walk(q)
  BY <1>4
<1>7. \A n : n \in DOMAIN u <=> Exists(g, n)
  BY <1>2, <1>6 DEF Matches, Exists
<1>8. ASSUME NEW n
      PROVE  /\ PutsAt(h, n) \in SUBSET (1..N)
             /\ PutsAt(g, n) = PutsAt(h, n) \cup (IF n = q THEN {N + 1} ELSE {})
  <2>1. Survivors(h, n) \in SUBSET (1..N)
    BY <1>n DEF Survivors
  <2>2. \A i \in Survivors(h, n) : Node(g[i].path) = Node(h[i].path)
    BY <1>3, <2>1
  <2>3. Node(g[N + 1].path) = q
    BY <1>3, <1>q
  <2>4. PutsAt(g, n) = {i \in Survivors(h, n) : Node(h[i].path) = n} \cup (IF n = q THEN {N + 1} ELSE {})
    BY <1>2, <1>5, <2>2, <2>3 DEF PutsAt
  <2>. QED  BY <2>1, <2>4 DEF PutsAt
<1>9. ASSUME NEW n \in DOMAIN u PROVE u[n] = Holds(g, n)
  <2>1. CASE n = q
    <3>1. PutsAt(g, n) \in SUBSET (1..N + 1) /\ N + 1 \in PutsAt(g, n) /\ N + 1 \in Nat
      BY <1>8, <2>1
    <3>2. \A i \in PutsAt(g, n) : N + 1 >= i
      BY <3>1
    <3>3. Max(PutsAt(g, n)) = N + 1
      BY <3>1, <3>2, MaxIs
    <3>. QED  BY <1>3, <1>4, <1>6, <2>1, <3>1, <3>3 DEF Holds, PutsAt
  <2>2. CASE n # q
    <3>1. Holds(g, n) = Holds(h, n)
      BY <1>8, <1>q, <2>2, HoldsGrow
    <3>2. CASE n \in DOMAIN t
      BY <1>4, <1>6, <2>2, <3>1, <3>2 DEF Matches
    <3>3. CASE n \notin DOMAIN t
      <4>1. Survivors(h, n) = {}
        BY <3>3 DEF Matches, Exists
      <4>2. Holds(h, n) = NoData
        BY <4>1 DEF Holds
      <4>. QED  BY <1>4, <1>6, <2>2, <3>1, <3>3, <4>2
    <3>. QED  BY <3>2, <3>3
  <2>. QED  BY <2>1, <2>2
<1>. QED  BY <1>7, <1>9, <1>q DEF Matches

\* MemKvStore::Delete: when the walk to its node stops early, there is nothing at
\* or below it, since the tree is connected.
LEMMA DeleteMatches ==
  ASSUME NEW t, IsTree(t), NEW h \in Seq(Requests), NEW r \in Requests, Matches(t, h),
         r.type = "delete", NEW u, u = StoreDelete(t, r.path).tree
  PROVE  Matches(u, Append(h, r))
<1>. DEFINE q == Node(r.path)
<1>1. << >> \in DOMAIN t /\ DOMAIN t \subseteq Nodes /\ ~Stores(r)
  BY DEF IsTree, Stores
<1>2. r.path # BadPath => q \in Nodes /\ (Last(r.path) # "" => q # << >>)
  <2>1. r.path \in AllPaths
    BY DEF Requests
  <2>. QED  BY <2>1, NodeAssumption DEF AllPaths, Nodes
<1>q. Node(r.path) = q
  OBVIOUS
<1>. HIDE DEF q
<1>3. CASE ~\E n \in DOMAIN t : Removes(r, n)
  <2>1. u = t
    <3>1. CASE r.path = BadPath \/ ~(Walk(q) \subseteq DOMAIN t) \/ Last(r.path) = ""
      BY <1>q, <3>1 DEF StoreDelete
    <3>2. CASE r.path # BadPath /\ Walk(q) \subseteq DOMAIN t /\ Last(r.path) # ""
      <4>1. q \in DOMAIN t
        BY <1>2, <3>2, WalkFacts
      <4>2. IsPrefix(q, q)
        BY <1>2, <3>2, PrefixFacts
      <4>. QED  BY <1>3, <1>q, <3>2, <4>1, <4>2 DEF Removes
    <3>. QED  BY <3>1, <3>2
  <2>. QED  BY <1>1, <1>3, <2>1, SameMatches
<1>4. ASSUME NEW m \in DOMAIN t, Removes(r, m) PROVE Matches(u, Append(h, r))
  <2>1. /\ r.path # BadPath /\ Last(r.path) # "" /\ IsPrefix(q, m)
        /\ m \in Nodes /\ q \in Nodes /\ q # << >>
    BY <1>1, <1>2, <1>4, <1>q DEF Removes
  <2>2. Walk(q) \subseteq DOMAIN t
    <3>1. q \in Walk(m)
      BY <2>1, PrefixFacts
    <3>. QED  BY <2>1, <3>1, WalkFacts DEF IsTree
  <2>3. u = [n \in DOMAIN t \ Erased(t, q) |-> t[n]]
    BY <1>q, <2>1, <2>2 DEF StoreDelete
  <2>4. \A n \in DOMAIN t : n \in Erased(t, q) <=> Removes(r, n)
    BY <1>q, <2>1, <1>4 DEF Erased, Removes
  <2>5. << >> \notin Erased(t, q)
    BY <2>1, PrefixFacts DEF Erased
  <2>6. /\ DOMAIN u \subseteq DOMAIN t /\ << >> \in DOMAIN u /\ (\A n \in DOMAIN u : u[n] = t[n])
        /\ \A n \in DOMAIN t : n \in DOMAIN u <=> ~Removes(r, n)
    BY <1>1, <2>3, <2>4, <2>5
  <2>. QED  BY <1>1, <2>6, SameMatches
<1>. QED  BY <1>3, <1>4

\* Steps that apply nothing keep the requests applied so far.
LEMMA HistoryStays ==
  ASSUME KvInv, MatchInv, applied' = applied,
         \A c \in Clients : pc[c] # "idle" => req'[c] = req[c] /\ pc'[c] # "idle"
  PROVE  /\ \A k \in 0..Len(applied) : History(k)' = History(k)
         /\ All' = All /\ AppliedIsReceived'
<1>1. \A i \in 1..Len(applied) : applied[i] \in Clients /\ pc[applied[i]] # "idle"
  BY DEF KvInv, TypeOK, MatchInv, AppliedIsReceived
<1>2. \A k \in 0..Len(applied) : [i \in 1..k |-> req'[applied[i]]] = [i \in 1..k |-> req[applied[i]]]
  <2>1. SUFFICES ASSUME NEW k \in 0..Len(applied), NEW i \in 1..k
                 PROVE  req'[applied[i]] = req[applied[i]]
    OBVIOUS
  <2>2. i \in 1..Len(applied)
    BY DEF KvInv, TypeOK
  <2>. QED  BY <1>1, <2>2
<1>3. \A k \in 0..Len(applied) : History(k)' = History(k)
  BY <1>2 DEF History
<1>4. Len(applied) \in 0..Len(applied)
  BY DEF KvInv, TypeOK
<1>5. All' = All
  BY <1>2, <1>4 DEF All, History
<1>. QED  BY <1>1, <1>3, <1>5 DEF AppliedIsReceived

\* Applying a request adds it to them.
LEMMA HistoryGrows ==
  ASSUME KvInv, MatchInv, NEW c \in Clients, Apply(c)
  PROVE  /\ \A k \in 0..Len(applied) : History(k)' = History(k)
         /\ All' = Append(All, req[c]) /\ AppliedIsReceived'
         /\ Len(applied') = Len(applied) + 1 /\ applied'[Len(applied) + 1] = c
         /\ \A i \in 1..Len(applied) : applied'[i] = applied[i]
<1>1. /\ applied' = Append(applied, c) /\ req' = req /\ pc' = [pc EXCEPT ![c] = "done"]
      /\ Len(applied) \in Nat /\ applied \in Seq(Clients) /\ req \in [Clients -> Requests]
  BY DEF Apply, Answer, KvInv, TypeOK
<1>2. /\ Len(applied') = Len(applied) + 1 /\ applied'[Len(applied) + 1] = c
      /\ \A i \in 1..Len(applied) : applied'[i] = applied[i] /\ applied[i] \in Clients
  BY <1>1
<1>3. ASSUME NEW k \in 0..Len(applied) PROVE History(k)' = History(k)
  <2>1. \A i \in 1..k : applied'[i] = applied[i]
    BY <1>1, <1>2
  <2>. QED  BY <1>1, <2>1 DEF History
<1>4. All' = Append(All, req[c])
  <2>1. All \in Seq(Requests) /\ Len(All) = Len(applied) /\ \A i \in 1..Len(applied) : All[i] = req[applied[i]]
    BY <1>1, HistoryIsSeq DEF All
  <2>2. All' = [i \in 1..Len(applied) + 1 |-> req[applied'[i]]]
    BY <1>1, <1>2 DEF All, History
  <2>3. \A i \in 1..Len(applied) + 1 : req[applied'[i]] = IF i = Len(applied) + 1 THEN req[c] ELSE All[i]
    BY <1>1, <1>2, <2>1
  <2>4. Append(All, req[c]) = [i \in 1..Len(applied) + 1 |-> IF i = Len(applied) + 1 THEN req[c] ELSE All[i]]
    BY <1>1, <2>1
  <2>. HIDE DEF All
  <2>. QED  BY <2>2, <2>3, <2>4
<1>5. AppliedIsReceived'
  <2>1. \A d \in Clients : pc[d] # "idle" => pc'[d] # "idle"
    BY <1>1 DEF KvInv, TypeOK
  <2>2. pc'[c] # "idle"
    BY <1>1 DEF KvInv, TypeOK
  <2>3. \A i \in 1..Len(applied) : pc[applied[i]] # "idle"
    BY DEF MatchInv, AppliedIsReceived
  <2>. QED  BY <1>1, <1>2, <2>1, <2>2, <2>3 DEF AppliedIsReceived
<1>. QED  BY <1>2, <1>3, <1>4, <1>5

\* Applying a request keeps the tree what the requests say.
LEMMA ApplyMatches == ASSUME KvInv, MatchInv, NEW c \in Clients, Apply(c) PROVE MatchInv'
<1>1. /\ pc[c] = "applying" /\ store' = Applied(store, req[c]).tree
      /\ All' = Append(All, req[c]) /\ AppliedIsReceived'
  BY HistoryGrows DEF Apply
<1>2. req[c].type \in {"write", "delete"} /\ req[c] \in Requests
  BY <1>1 DEF KvInv, TypeOK, UpdatesOnly, IsUpdate
<1>3. /\ IsTree(store) /\ Matches(store, All) /\ All \in Seq(Requests)
      /\ << >> \in DOMAIN store
  BY HistoryIsSeq DEF KvInv, TypeOK, TreeConnected, IsTree, MatchInv, All
<1>4. Matches(store', Append(All, req[c]))
  <2>1. CASE req[c].type = "write" /\ req[c].path # BadPath
    <3>1. store' = StoreWrite(store, req[c].path, req[c].value).tree /\ Stores(req[c])
      BY <1>1, <2>1 DEF Applied, Stores
    <3>. QED  BY <1>2, <1>3, <3>1, WriteMatches
  <2>2. CASE req[c].type = "write" /\ req[c].path = BadPath
    <3>1. store' = store /\ ~Stores(req[c]) /\ \A n : ~Removes(req[c], n)
      BY <1>1, <2>2 DEF Applied, StoreWrite, Stores, Removes
    <3>. QED  BY <1>2, <1>3, <3>1, SameMatches
  <2>3. CASE req[c].type = "delete"
    <3>1. store' = StoreDelete(store, req[c].path).tree
      BY <1>1, <2>3 DEF Applied
    <3>. QED  BY <1>2, <1>3, <2>3, <3>1, DeleteMatches
  <2>. QED  BY <1>2, <2>1, <2>2, <2>3
<1>5. Matches(store, All)'
  BY <1>1, <1>4
<1>. QED  BY <1>1, <1>5 DEF MatchInv

\* A store made anew has the root only.
LEMMA EmptyMatches == store = EmptyTree /\ applied = << >> => MatchInv
<1>. SUFFICES ASSUME store = EmptyTree, applied = << >> PROVE MatchInv
  OBVIOUS
<1>1. Len(applied) = 0 /\ 1..0 = {}
  OBVIOUS
<1>2. Len(All) = 0
  BY <1>1 DEF All, History
<1>3. \A n : Survivors(All, n) = {}
  BY <1>1, <1>2 DEF Survivors
<1>4. Matches(store, All)
  BY <1>3 DEF Matches, Exists, Holds, EmptyTree
<1>. QED  BY <1>1, <1>4 DEF MatchInv, AppliedIsReceived

\* A server that restarts has an empty tree and has applied nothing.
LEMMA RestartMatches == Restart => MatchInv'
<1>1. Restart => (store = EmptyTree /\ applied = << >>)'
  BY DEF Restart
<1>. QED  BY <1>1, EmptyMatches, PTL

\* What the steps other than Apply and Restart do to the store and the requests.
LEMMA Untouched ==
  ASSUME KvInv, [Next]_vars, ~Restart, \A c \in Clients : ~Apply(c)
  PROVE  /\ UNCHANGED <<store, applied>>
         /\ \A d \in Clients : pc[d] # "idle" => req'[d] = req[d] /\ pc'[d] # "idle"
<1>1. ASSUME NEW c \in Clients, NEW r \in Requests, Receive(c, r)
      PROVE  /\ UNCHANGED <<store, applied>>
             /\ \A d \in Clients : pc[d] # "idle" => req'[d] = req[d] /\ pc'[d] # "idle"
  <2>1. /\ pc[c] = "idle" /\ req' = [req EXCEPT ![c] = r] /\ UNCHANGED <<store, applied>>
        /\ pc' = [pc EXCEPT ![c] = IF r.type = "get" THEN "asking" ELSE "logging"]
    BY <1>1 DEF Receive
  <2>. QED  BY <2>1 DEF KvInv, TypeOK
<1>2. ASSUME NEW c \in Clients, Log(c) \/ Refuse(c) \/ Acknowledge(c) \/ AskLeader(c) \/ Read(c)
      PROVE  /\ UNCHANGED <<store, applied, req>>
             /\ \A d \in Clients : pc[d] # "idle" => pc'[d] # "idle"
  BY <1>2 DEF Log, Refuse, Acknowledge, AskLeader, Read, Answer, KvInv, TypeOK
<1>3. CASE ChangeLeader \/ UNCHANGED vars
  BY <1>3 DEF ChangeLeader, vars
<1>. QED  BY <1>1, <1>2, <1>3 DEF Next, Handle

\* Every step keeps it.
LEMMA MatchInvInductive == KvInv /\ MatchInv /\ [Next]_vars => MatchInv'
<1>. SUFFICES ASSUME KvInv, MatchInv, [Next]_vars PROVE MatchInv'
  OBVIOUS
<1>1. CASE ~Restart /\ \A c \in Clients : ~Apply(c)
  <2>1. store' = store /\ All' = All /\ AppliedIsReceived'
    BY <1>1, Untouched, HistoryStays
  <2>2. Matches(store, All)'
    BY <2>1 DEF MatchInv
  <2>. QED  BY <2>1, <2>2 DEF MatchInv
<1>. QED  BY <1>1, ApplyMatches, RestartMatches

\* After any requests of any clients, in any order, with any restarts, the tree of
\* MemKvStore is what the requests applied to it since it was made say: the nodes
\* of the writes that no later delete took away, each with the last value written
\* to it.
THEOREM StoreIsItsRequests == Spec => []StoreMatchesRequests
<1>1. Init => MatchInv
  BY EmptyMatches DEF Init
<1>. QED  BY <1>1, KvInvariant, MatchInvInductive, MatchesSuffice, PTL DEF Spec

-----------------------------------------------------------------------------
(* A Get sees what was answered before it came *)

IsApplied(c) == \E i \in 1..Len(applied) : applied[i] = c

\* An update that was answered OK was applied; so were those a Get follows.
AnsweredIsApplied == \A c \in AnsweredOK : IsApplied(c)
BeforeIsApplied ==
  \A g \in Clients : pc[g] \in {"asking", "reading"} => \A u \in before[g] : IsApplied(u)
GetsOnly == \A c \in Clients : pc[c] \in {"asking", "reading"} => req[c].type = "get"

\* The answer of a Get, with the requests it saw.
IsCurrent(g) ==
  \E k \in 0..Len(applied) :
    /\ \A u \in before[g] : \E i \in 1..k : applied[i] = u
    /\ result[g] = Lookup(History(k), Node(req[g].path))
FromStore(g) == pc[g] = "done" /\ req[g].type = "get" /\ result[g].code \in {"OK", "NodeNotExist"}
AnswersCurrent == \A g \in Clients : FromStore(g) => IsCurrent(g)

\* The inductive invariant, with KvInv and MatchInv.
ReadInv == AnsweredIsApplied /\ BeforeIsApplied /\ GetsOnly /\ AnswersCurrent

\* The requests applied so far stay.
AppliedStays ==
  /\ Len(applied) \in Nat /\ Len(applied') \in Nat /\ Len(applied') >= Len(applied)
  /\ \A i \in 1..Len(applied) : applied'[i] = applied[i]
  /\ \A k \in 0..Len(applied) : History(k)' = History(k)

\* MemKvStore::Get answers what all the requests say.
LEMMA GetIsLookup ==
  ASSUME KvInv, MatchInv, NEW p \in AllPaths, StoreGet(store, p).code \in {"OK", "NodeNotExist"}
  PROVE  StoreGet(store, p) = Lookup(All, Node(p))
<1>. DEFINE n == Node(p)
<1>1. p # BadPath
  BY DEF StoreGet
<1>2. n \in Nodes
  BY <1>1, NodeAssumption DEF Nodes, AllPaths
<1>3. Walk(n) \subseteq DOMAIN store <=> n \in DOMAIN store
  BY <1>2, WalkFacts DEF KvInv, TreeConnected
<1>4. n \in DOMAIN store <=> Exists(All, n)
  BY DEF MatchInv, Matches
<1>5. n \in DOMAIN store => store[n] = Holds(All, n)
  BY DEF MatchInv, Matches
<1>6. StoreGet(store, p) = IF Walk(n) \subseteq DOMAIN store THEN [code |-> "OK", data |-> store[n]]
                           ELSE [code |-> "NodeNotExist", data |-> NoData]
  BY <1>1 DEF StoreGet
<1>. HIDE DEF n
<1>7. StoreGet(store, p) = Lookup(All, n)
  BY <1>3, <1>4, <1>5, <1>6 DEF Lookup
<1>. QED  BY <1>7 DEF n

\* Every step but a restart keeps the requests applied so far.
LEMMA AppliedStaysStep ==
  ASSUME KvInv, MatchInv, [Next]_vars, ~Restart
  PROVE  AppliedStays
<1>1. Len(applied) \in Nat
  BY DEF KvInv, TypeOK
<1>2. ASSUME NEW c \in Clients, Apply(c) PROVE AppliedStays
  BY <1>1, <1>2, HistoryGrows DEF AppliedStays
<1>3. CASE \A c \in Clients : ~Apply(c)
  BY <1>1, <1>3, Untouched, HistoryStays DEF AppliedStays
<1>. QED  BY <1>2, <1>3

\* Then what is applied stays so, and what a Get was answered stays right.
LEMMA AnswersStay ==
  ASSUME AppliedStays
  PROVE  /\ \A c : IsApplied(c) => IsApplied(c)'
         /\ \A g \in Clients :
              IsCurrent(g) /\ req'[g] = req[g] /\ result'[g] = result[g] /\ before'[g] = before[g]
              => IsCurrent(g)'
<1>1. \A c : IsApplied(c) => IsApplied(c)'
  BY DEF AppliedStays, IsApplied
<1>2. ASSUME NEW g \in Clients,
             IsCurrent(g), req'[g] = req[g], result'[g] = result[g], before'[g] = before[g]
      PROVE  IsCurrent(g)'
  <2>1. PICK k \in 0..Len(applied) :
          /\ \A u \in before[g] : \E i \in 1..k : applied[i] = u
          /\ result[g] = Lookup(History(k), Node(req[g].path))
    BY <1>2 DEF IsCurrent
  <2>2. k \in 0..Len(applied') /\ \A i \in 1..k : applied'[i] = applied[i]
    BY DEF AppliedStays
  <2>3. History(k)' = History(k)
    BY DEF AppliedStays
  <2>4. \A u \in before'[g] : \E i \in 1..k : applied'[i] = u
    BY <1>2, <2>1, <2>2
  <2>5. result'[g] = Lookup(History(k)', Node(req'[g].path))
    BY <1>2, <2>1, <2>3
  <2>. QED  BY <2>2, <2>4, <2>5 DEF IsCurrent
<1>. QED  BY <1>1, <1>2

\* A Get that reads the store is answered what all the requests say.
LEMMA ReadCurrent ==
  ASSUME KvInv, MatchInv, ReadInv, NEW g \in Clients, Read(g), result'[g].code \in {"OK", "NodeNotExist"}
  PROVE  IsCurrent(g)'
<1>1. /\ pc[g] = "reading" /\ UNCHANGED <<store, applied, req, before>>
      /\ result'[g] = StoreGet(store, req[g].path)
  <2>1. \A p : StoreGet(store, p) = [code |-> StoreGet(store, p).code, data |-> StoreGet(store, p).data]
    BY DEF StoreGet
  <2>. QED  BY <2>1 DEF Read, Answer, KvInv, TypeOK
<1>2. req[g].path \in AllPaths
  BY DEF KvInv, TypeOK, Requests
<1>3. result'[g] = Lookup(All, Node(req[g].path))
  BY <1>1, <1>2, GetIsLookup
<1>4. \A u \in before[g] : \E i \in 1..Len(applied) : applied[i] = u
  BY <1>1 DEF ReadInv, BeforeIsApplied, IsApplied
<1>5. Len(applied) \in 0..Len(applied)
  BY DEF KvInv, TypeOK
<1>6. result'[g] = Lookup(History(Len(applied)), Node(req[g].path))'
  BY <1>1, <1>3 DEF All, History
<1>. QED  BY <1>1, <1>4, <1>5, <1>6 DEF IsCurrent

\* Every step keeps it.
LEMMA ReadInvInductive == KvInv /\ MatchInv /\ ReadInv /\ [Next]_vars => ReadInv'
<1>. SUFFICES ASSUME KvInv, MatchInv, ReadInv, [Next]_vars PROVE ReadInv'
  OBVIOUS
<1>t. DOMAIN result = Clients /\ DOMAIN pc = Clients /\ DOMAIN req = Clients /\ DOMAIN before = Clients
  BY DEF KvInv, TypeOK
<1>r. CASE Restart
  <2>1. \A c \in Clients : pc'[c] \in {"idle", "lost"}
    BY <1>r DEF Restart
  <2>. QED  BY <2>1 DEF ReadInv, AnsweredIsApplied, AnsweredOK, BeforeIsApplied, GetsOnly, AnswersCurrent, FromStore
<1>s. CASE ~Restart
  <2>0. AppliedStays
    BY <1>s, AppliedStaysStep
  <2>. DEFINE Same(g) == /\ pc'[g] = pc[g] /\ req'[g] = req[g]
                         /\ result'[g] = result[g] /\ before'[g] = before[g]
  <2>1. ASSUME NEW c \in Clients, \A g \in Clients \ {c} : Same(g),
               c \in AnsweredOK' => IsApplied(c)',
               pc'[c] \in {"asking", "reading"} =>
                 req'[c].type = "get" /\ \A u \in before'[c] : IsApplied(u),
               FromStore(c)' => IsCurrent(c)'
        PROVE  ReadInv'
    <3>1. AnsweredIsApplied'
      <4>1. \A g \in Clients \ {c} : g \in AnsweredOK' => IsApplied(g)'
        BY <2>0, <2>1, AnswersStay DEF ReadInv, AnsweredIsApplied, AnsweredOK
      <4>2. AnsweredOK' \subseteq Clients
        BY DEF AnsweredOK
      <4>. QED  BY <2>1, <4>1, <4>2 DEF AnsweredIsApplied
    <3>2. BeforeIsApplied'
      <4>1. \A u : IsApplied(u) => IsApplied(u)'
        BY <2>0, AnswersStay
      <4>. QED  BY <2>1, <4>1 DEF ReadInv, BeforeIsApplied
    <3>3. GetsOnly'
      BY <2>1 DEF ReadInv, GetsOnly
    <3>4. \A g \in Clients \ {c} : FromStore(g)' => IsCurrent(g)'
      <4>1. \A g \in Clients \ {c} : FromStore(g)' => FromStore(g)
        BY <2>1 DEF FromStore
      <4>. QED  BY <2>0, <2>1, <4>1, AnswersStay DEF ReadInv, AnswersCurrent
    <3>5. AnswersCurrent'
      BY <2>1, <3>4 DEF AnswersCurrent
    <3>. QED  BY <3>1, <3>2, <3>3, <3>5 DEF ReadInv
  <2>2. ASSUME NEW c \in Clients, NEW r \in Requests, Receive(c, r) PROVE ReadInv'
    <3>1. /\ \A g \in Clients \ {c} : Same(g)
          /\ req'[c] = r
          /\ pc'[c] = IF r.type = "get" THEN "asking" ELSE "logging"
          /\ before'[c] = AnsweredOK
      BY <1>t, <2>2 DEF Receive
    <3>2. c \notin AnsweredOK' /\ ~FromStore(c)'
      BY <3>1 DEF AnsweredOK, FromStore
    <3>3. \A u \in before'[c] : IsApplied(u)
      BY <3>1 DEF ReadInv, AnsweredIsApplied
    <3>4. pc'[c] \in {"asking", "reading"} => req'[c].type = "get"
      BY <3>1
    <3>. QED  BY <2>1, <3>1, <3>2, <3>3, <3>4
  <2>3. ASSUME NEW c \in Clients, Log(c) \/ Acknowledge(c) PROVE ReadInv'
    <3>1. (\A g \in Clients \ {c} : Same(g)) /\ pc'[c] \in {"logged", "applying"}
      BY <1>t, <2>3 DEF Log, Acknowledge
    <3>2. c \notin AnsweredOK' /\ ~FromStore(c)'
      BY <3>1 DEF AnsweredOK, FromStore
    <3>. QED  BY <2>1, <3>1, <3>2
  <2>4. ASSUME NEW c \in Clients, Refuse(c) PROVE ReadInv'
    <3>1. /\ \A g \in Clients \ {c} : Same(g)
          /\ pc'[c] = "done" /\ result'[c].code = "ConsensusError"
      BY <1>t, <2>4 DEF Refuse, Answer
    <3>2. c \notin AnsweredOK' /\ ~FromStore(c)'
      BY <3>1 DEF AnsweredOK, FromStore
    <3>. QED  BY <2>1, <3>1, <3>2
  <2>5. ASSUME NEW c \in Clients, Apply(c) PROVE ReadInv'
    <3>1. /\ \A g \in Clients \ {c} : Same(g)
          /\ pc[c] = "applying" /\ pc'[c] = "done" /\ req'[c] = req[c]
      BY <1>t, <2>5 DEF Apply, Answer
    <3>2. IsApplied(c)'
      <4>1. Len(applied') = Len(applied) + 1 /\ applied'[Len(applied) + 1] = c /\ Len(applied) \in Nat
        BY <2>5, HistoryGrows DEF KvInv, TypeOK
      <4>. QED  BY <4>1 DEF IsApplied
    <3>3. ~FromStore(c)'
      BY <3>1 DEF FromStore, KvInv, UpdatesOnly, IsUpdate
    <3>. QED  BY <2>1, <3>1, <3>2, <3>3
  <2>6. ASSUME NEW c \in Clients, AskLeader(c) PROVE ReadInv'
    <3>1. /\ \A g \in Clients \ {c} : Same(g)
          /\ pc[c] = "asking" /\ req'[c] = req[c] /\ before'[c] = before[c]
          /\ pc'[c] = "reading" \/ (pc'[c] = "done" /\ result'[c].code = "ConsensusError")
      BY <1>t, <2>6 DEF AskLeader, Answer
    <3>2. c \notin AnsweredOK' /\ ~FromStore(c)'
      BY <3>1 DEF AnsweredOK, FromStore
    <3>3. req'[c].type = "get" /\ \A u \in before'[c] : IsApplied(u)
      BY <3>1 DEF ReadInv, GetsOnly, BeforeIsApplied
    <3>. QED  BY <2>1, <3>1, <3>2, <3>3
  <2>7. ASSUME NEW c \in Clients, Read(c) PROVE ReadInv'
    <3>1. /\ \A g \in Clients \ {c} : Same(g)
          /\ pc[c] = "reading" /\ pc'[c] = "done" /\ req'[c] = req[c]
      BY <1>t, <2>7 DEF Read, Answer
    <3>2. c \notin AnsweredOK'
      BY <3>1 DEF AnsweredOK, ReadInv, GetsOnly, IsUpdate
    <3>3. FromStore(c)' => IsCurrent(c)'
      BY <2>7, ReadCurrent DEF FromStore
    <3>. QED  BY <2>1, <3>1, <3>2, <3>3
  <2>8. CASE ChangeLeader \/ UNCHANGED vars
    <3>1. UNCHANGED <<applied, req, pc, result, before>>
      BY <2>8 DEF ChangeLeader, vars
    <3>2. AnsweredOK' = AnsweredOK /\ \A c : IsApplied(c)' <=> IsApplied(c)
      BY <3>1 DEF AnsweredOK, IsApplied
    <3>3. \A g \in Clients : FromStore(g)' => IsCurrent(g)'
      BY <2>0, <3>1, AnswersStay DEF FromStore, ReadInv, AnswersCurrent
    <3>. QED  BY <3>1, <3>2, <3>3 DEF ReadInv, AnsweredIsApplied, BeforeIsApplied, GetsOnly, AnswersCurrent
  <2>. QED  BY <1>s, <2>2, <2>3, <2>4, <2>5, <2>6, <2>7, <2>8 DEF Next, Handle
<1>. QED  BY <1>r, <1>s

\* A Get that is answered from the store sees every update that had been answered
\* when it came, for any number of clients and any order of their threads (DB::Write
\* and DB::Delete return only after they have changed the store).
THEOREM GetsSeeAnswered == Spec => []ReadsAreCurrent
<1>1. Init => MatchInv
  BY EmptyMatches DEF Init
<1>2. Init => ReadInv
  BY DEF Init, ReadInv, AnsweredIsApplied, AnsweredOK, BeforeIsApplied, GetsOnly, AnswersCurrent, FromStore
<1>3. ReadInv => ReadsAreCurrent
  BY DEF ReadInv, AnswersCurrent, FromStore, IsCurrent, ReadsAreCurrent
<1>. QED  BY <1>1, <1>2, <1>3, KvInvariant, MatchInvInductive, ReadInvInductive, PTL DEF Spec
=============================================================================
