--------------------------- MODULE WritePathProofs ---------------------------
(***************************************************************************)
(* The write path for any number of writers, any log length and any number *)
(* of terms.  The invariant says what the write-ahead log will hold when   *)
(* the flusher has written the Ready it works on (PendingWal): exactly the *)
(* node's log up to stable.                                                *)
(***************************************************************************)
EXTENDS WritePath, TLAPS

Flushing == fpc \in {"send", "write", "notify", "advance", "respond"}

Unwritten == fpc \in {"send", "write"} /\ rd.entries # << >>

Overwrite(s, first, es) == SubSeq(s, 1, first - 1) \o es

PendingWal == IF Unwritten THEN Overwrite(wal.log, rd.first, rd.entries) ELSE wal.log

\* A Ready continues what is in the write-ahead log.
ReadyContinuesWal == Unwritten => rd.first - 1 <= Len(wal.log)

\* The log up to stable is, or is about to be, in the write-ahead log.
StableIsPending ==
  /\ stable <= Len(PendingWal)
  /\ \A i \in 1..stable : PendingWal[i] = log[i]

\* A committed index in a Ready stays committed and stable.
ReadyCommitStands == Flushing => rd.commit <= commit /\ rd.commit <= stable

\* A listener waits at the index it is registered for.
ListenersWait ==
  \A i \in DOMAIN listeners :
    i \in Nat \ {0} /\ pc[listeners[i]] = "waiting" /\ index[listeners[i]] = i

\* A channel has a value exactly when its Write is over.
AnsweredOnce ==
  \A w \in Writers : answers[w] = IF pc[w] \in {"ok", "failed"} THEN 1 ELSE 0

\* The index of a Write that returned OK is behind everything still to change.
AckedIndexStands ==
  \A w \in Writers : pc[w] = "ok" =>
    /\ index[w] <= commit /\ index[w] <= stable
    /\ Unwritten => index[w] < rd.first

\* The MemoryStorage lacks at most the Ready that is being flushed.
MemStoreFollows ==
  IF fpc \in {"notify", "advance"} /\ rd.entries # << >>
  THEN Overwrite(memLog, rd.first, rd.entries) = wal.log
  ELSE memLog = wal.log

PathInv ==
  /\ TypeOK
  /\ ReadyContinuesWal
  /\ StableIsPending
  /\ ReadyCommitStands
  /\ ListenersWait
  /\ AnsweredOnce
  /\ AckedIndexStands
  /\ MemStoreFollows

-----------------------------------------------------------------------------
\* The elements of a concatenation.
LEMMA ConcatFacts ==
  ASSUME NEW S, NEW s \in Seq(S), NEW t \in Seq(S)
  PROVE  /\ s \o t \in Seq(S) /\ Len(s \o t) = Len(s) + Len(t)
         /\ \A i \in 1..Len(s) + Len(t) :
              (s \o t)[i] = IF i <= Len(s) THEN s[i] ELSE t[i - Len(s)]
OBVIOUS

\* Writing entries es at index first keeps what is below first.
LEMMA OverwriteFacts ==
  ASSUME NEW s \in Seq(Entries), NEW es \in Seq(Entries), NEW first \in Nat \ {0},
         first - 1 <= Len(s)
  PROVE  /\ Overwrite(s, first, es) \in Seq(Entries)
         /\ Len(Overwrite(s, first, es)) = first - 1 + Len(es)
         /\ \A i \in 1..first - 1 : Overwrite(s, first, es)[i] = s[i]
         /\ \A i \in first..first - 1 + Len(es) : Overwrite(s, first, es)[i] = es[i - first + 1]
<1> DEFINE p == SubSeq(s, 1, first - 1)
<1>1. /\ p \in Seq(Entries) /\ Len(p) = first - 1
      /\ \A i \in 1..first - 1 : p[i] = s[i]
  OBVIOUS
<1>2. /\ p \o es \in Seq(Entries) /\ Len(p \o es) = Len(p) + Len(es)
      /\ \A i \in 1..Len(p) + Len(es) :
           (p \o es)[i] = IF i <= Len(p) THEN p[i] ELSE es[i - Len(p)]
  <2> HIDE DEF p
  <2> QED BY <1>1, ConcatFacts
<1> HIDE DEF p
<1>3. Overwrite(s, first, es) = p \o es
  BY DEF p, Overwrite
<1>4. \A i \in 1..first - 1 : (p \o es)[i] = s[i]
  BY <1>1, <1>2
<1>5. \A i \in first..first - 1 + Len(es) : (p \o es)[i] = es[i - first + 1]
  BY <1>1, <1>2
<1> QED BY <1>1, <1>2, <1>3, <1>4, <1>5

\* The steps of flushReady in the order of the code.
LEMMA FlushOrderFacts ==
  /\ FlushOrder["send"] = "write" /\ FlushOrder["write"] = "notify"
  /\ FlushOrder["notify"] = "advance" /\ FlushOrder["advance"] = "respond"
  /\ FlushOrder["respond"] = "idle"
BY DEF FlushOrder

\* The invariant holds of a new log,
LEMMA InitPathInv == Init => PathInv
<1> SUFFICES ASSUME Init PROVE PathInv
  OBVIOUS
<1>1. NodeTypeOK /\ FlushTypeOK /\ WriteTypeOK
  BY DEF Init, NodeTypeOK, FlushTypeOK, WriteTypeOK, NoReady, HardStates
<1> QED
  BY <1>1 DEF Init, PathInv, TypeOK, ReadyContinuesWal, StableIsPending, ReadyCommitStands,
     ListenersWait, AnsweredOnce, AckedIndexStands, MemStoreFollows, NoReady, Unwritten,
     PendingWal, Flushing

\* Replacing the suffix of a log from i on by one entry of term t.
LEMMA TruncateFacts ==
  ASSUME NEW s \in Seq(Entries), NEW t \in Nat, NEW i \in 1..Len(s) + 1
  PROVE  LET r == Append(SubSeq(s, 1, i - 1), [term |-> t, who |-> Raft])
         IN  /\ r \in Seq(Entries) /\ Len(r) = i
             /\ r[i].term = t
             /\ \A j \in 1..i - 1 : r[j] = s[j]
<1> DEFINE p == SubSeq(s, 1, i - 1)
<1>1. p \in Seq(Entries) /\ Len(p) = i - 1 /\ \A j \in 1..i - 1 : p[j] = s[j]
  OBVIOUS
<1>2. [term |-> t, who |-> Raft] \in Entries
  BY DEF Entries
<1> HIDE DEF p
<1>3. /\ Append(p, [term |-> t, who |-> Raft]) \in Seq(Entries)
      /\ Len(Append(p, [term |-> t, who |-> Raft])) = Len(p) + 1
      /\ \A j \in 1..Len(p) : Append(p, [term |-> t, who |-> Raft])[j] = p[j]
      /\ Append(p, [term |-> t, who |-> Raft])[Len(p) + 1] = [term |-> t, who |-> Raft]
  BY <1>1, <1>2
<1> QED BY <1>1, <1>3 DEF p

\* The node's part of the types.
LEMMA NodeTypeStep == NodeTypeOK /\ [Next]_vars => NodeTypeOK'
<1> SUFFICES ASSUME NodeTypeOK, [Next]_vars PROVE NodeTypeOK'
  OBVIOUS
<1> USE DEF NodeTypeOK
<1>1. CASE UNCHANGED nodeVars
  BY <1>1 DEF nodeVars
<1>2. CASE Campaign
  <2>1. [type |-> "vote", term |-> term + 1, index |-> 0, logTerm |-> 0] \in Messages
    BY DEF Messages
  <2> QED BY <1>2, <2>1 DEF Campaign
<1>3. CASE WinElection
  <2>1. [term |-> term, who |-> Raft] \in Entries
    BY DEF Entries
  <2>2. log' \in Seq(Entries) /\ Len(log') = Len(log) + 1
    BY <1>3, <2>1 DEF WinElection
  <2> QED BY <1>3, <2>2 DEF WinElection
<1>4. ASSUME NEW t \in 1..MaxTerm, GrantVote(t) PROVE NodeTypeOK'
  BY <1>4 DEF GrantVote
<1>5. ASSUME NEW t \in 1..MaxTerm, NEW i \in 1..MaxIndex, FollowerAppend(t, i) PROVE NodeTypeOK'
  <2>1. t \in Nat /\ i \in Nat /\ commit < i /\ i \in 1..Len(log) + 1
    BY <1>5 DEF FollowerAppend
  <2>2. [type |-> "appResp", term |-> t, index |-> i, logTerm |-> t] \in Messages
    BY <2>1 DEF Messages
  <2>3. log' \in Seq(Entries) /\ Len(log') = i
    BY <1>5, <2>1, TruncateFacts DEF FollowerAppend
  <2>4. stable' \in 0..Len(log') /\ commit' \in 0..Len(log')
    BY <1>5, <2>1, <2>3 DEF FollowerAppend, UnstableFrom
  <2> QED BY <1>5, <2>1, <2>2, <2>3, <2>4 DEF FollowerAppend
<1>6. ASSUME NEW c \in 1..MaxIndex, AdvanceCommit(c) PROVE NodeTypeOK'
  BY <1>6 DEF AdvanceCommit
<1>7. ASSUME NEW w \in Writers, ProposeWrite(w) PROVE NodeTypeOK'
  <2>1. [term |-> term, who |-> w] \in Entries
    BY DEF Entries
  <2>2. log' \in Seq(Entries) /\ Len(log') = Len(log) + 1
    BY <1>7, <2>1 DEF ProposeWrite
  <2> QED BY <1>7, <2>2 DEF ProposeWrite
<1>8. CASE TakeReady
  <2>1. [term |-> term, commit |-> commit] \in HardStates
    BY DEF HardStates
  <2> QED BY <1>8, <2>1 DEF TakeReady
<1> QED
  BY <1>1, <1>2, <1>3, <1>4, <1>5, <1>6, <1>7, <1>8
  DEF Next, RaftStep, RunWrite, RunGetReady, FlushStep, Dead, SubmitWrite, RejectWrite, RequestReady,
      NoReadyYet, PassAsLeader, WriteWal, NotifyCommit, NotifyCrash, WalFails, AdvanceMemStore,
      PassAsFollower, vars

\* The flusher's part: WriteWal and Advance only cut what is there.
LEMMA FlushTypeStep ==
  ASSUME NodeTypeOK, FlushTypeOK, ReadyContinuesWal, MemStoreFollows, [Next]_vars
  PROVE  FlushTypeOK'
<1> USE FlushOrderFacts DEF FlushTypeOK
<1>1. CASE UNCHANGED flushVars
  BY <1>1 DEF flushVars
<1>2. CASE RequestReady
  BY <1>2 DEF RequestReady
<1>3. CASE TakeReady
  <2>1. SubSeq(log, stable + 1, Len(log)) \in Seq(Entries) /\ stable + 1 \in Nat \ {0}
    BY DEF NodeTypeOK
  <2>2. term \in Nat /\ commit \in Nat /\ msgs \subseteq Messages
    BY DEF NodeTypeOK
  <2>3. PICK b \in BOOLEAN :
          rd' = [leader |-> role = "leader", first |-> stable + 1,
                 entries |-> SubSeq(log, stable + 1, Len(log)),
                 hasHs |-> prevHs # [term |-> term, commit |-> commit],
                 hasCommit |-> b, term |-> term, commit |-> commit, msgs |-> msgs]
    BY <1>3, Zenon DEF TakeReady
  <2>4. rd' \in [leader : BOOLEAN, first : Nat \ {0}, entries : Seq(Entries), hasHs : BOOLEAN,
                 hasCommit : BOOLEAN, term : Nat, commit : Nat, msgs : SUBSET Messages]
    <3> HIDE DEF FlushTypeOK
    <3> QED BY <2>1, <2>2, <2>3
  <2> QED BY <1>3, <2>4 DEF TakeReady
<1>4. CASE NoReadyYet
  BY <1>4 DEF NoReadyYet
<1>5. CASE PassAsLeader
  BY <1>5 DEF PassAsLeader
<1>6. CASE WriteWal
  <2>1. wal' \in [log : Seq(Entries), term : Nat]
    BY <1>6, OverwriteFacts DEF WriteWal, ReadyContinuesWal, Unwritten, Overwrite
  <2> QED BY <1>6, <2>1 DEF WriteWal
<1>7. CASE NotifyCommit
  BY <1>7 DEF NotifyCommit
<1>8. CASE AdvanceMemStore
  <2>1. memLog' \in Seq(Entries)
    BY <1>8 DEF AdvanceMemStore, MemStoreFollows, Overwrite
  <2> QED BY <1>8, <2>1 DEF AdvanceMemStore
<1>9. CASE PassAsFollower
  BY <1>9 DEF PassAsFollower, NoReady
<1> HIDE DEF FlushTypeOK
<1> QED
  BY <1>1, <1>2, <1>3, <1>4, <1>5, <1>6, <1>7, <1>8, <1>9
  DEF Next, RaftStep, RunWrite, RunGetReady, FlushStep, Dead, Campaign, WinElection, GrantVote,
      FollowerAppend, AdvanceCommit, SubmitWrite, ProposeWrite, RejectWrite, NotifyCrash, WalFails, vars

\* The writers' part, with the listeners: a Write is registered once, and it is
\* out of the map when it is answered.
LEMMA WriteStep ==
  ASSUME NodeTypeOK, FlushTypeOK, WriteTypeOK, ListenersWait, AnsweredOnce, [Next]_vars
  PROVE  WriteTypeOK' /\ ListenersWait' /\ AnsweredOnce'
<1> USE DEF WriteTypeOK, ListenersWait, AnsweredOnce
<1>1. CASE UNCHANGED <<writeVars, alive>>
  BY <1>1 DEF writeVars
<1>2. ASSUME NEW w \in Writers, SubmitWrite(w) PROVE WriteTypeOK' /\ ListenersWait' /\ AnsweredOnce'
  BY <1>2 DEF SubmitWrite
<1>3. ASSUME NEW w \in Writers, ProposeWrite(w) PROVE WriteTypeOK' /\ ListenersWait' /\ AnsweredOnce'
  <2>1. RegisteredIndex \in Nat \ {0}
    BY DEF RegisteredIndex, NodeTypeOK
  <2>2. /\ index' = [index EXCEPT ![w] = RegisteredIndex]
        /\ listeners' = Register(RegisteredIndex, w)
        /\ pc' = [pc EXCEPT ![w] = "waiting"]
        /\ pc[w] = "queued"
        /\ UNCHANGED <<answers, alive>>
    BY <1>3 DEF ProposeWrite
  <2>3. WriteTypeOK'
    BY <2>1, <2>2 DEF Register
  <2>4. ListenersWait'
    BY <2>1, <2>2 DEF Register
  <2>5. AnsweredOnce'
    BY <2>2
  <2> QED BY <2>3, <2>4, <2>5
<1>4. ASSUME NEW w \in Writers, RejectWrite(w) PROVE WriteTypeOK' /\ ListenersWait' /\ AnsweredOnce'
  BY <1>4 DEF RejectWrite
<1>5. CASE NotifyCommit
  <2>1. CASE ~rd.hasCommit
    BY <1>5, <2>1 DEF NotifyCommit
  <2>2. CASE rd.hasCommit
    <3>1. /\ pc' = [w \in Writers |-> IF w \in Notified(rd.commit) THEN "ok" ELSE pc[w]]
          /\ answers' = [w \in Writers |->
                           answers[w] + IF w \in Notified(rd.commit) THEN 1 ELSE 0]
          /\ listeners' = [i \in {} |-> Raft]
          /\ UNCHANGED <<index, alive>>
      BY <1>5, <2>2 DEF NotifyCommit, NotifyWalk, AfterNotify
    <3>2. \A w \in Notified(rd.commit) : pc[w] = "waiting"
      BY DEF Notified
    <3>3. ASSUME NEW w \in Writers
          PROVE  /\ answers'[w] \in Nat
                 /\ answers'[w] = IF pc'[w] \in {"ok", "failed"} THEN 1 ELSE 0
      BY <3>1, <3>2
    <3>4. answers' \in [Writers -> Nat]
      <4>1. DOMAIN answers' = Writers /\ answers' = [w \in DOMAIN answers' |-> answers'[w]]
        BY <3>1, Zenon
      <4> QED BY <3>3, <4>1
    <3> QED BY <3>1, <3>3, <3>4
  <2> QED BY <2>1, <2>2
<1>6. CASE WalFails \/ NotifyCrash
  BY <1>6 DEF WalFails, NotifyCrash, writeVars
<1> HIDE DEF WriteTypeOK, ListenersWait, AnsweredOnce
<1> QED
  BY <1>1, <1>2, <1>3, <1>4, <1>5, <1>6
  DEF Next, RaftStep, RunWrite, RunGetReady, FlushStep, Dead, Campaign, WinElection, GrantVote,
      FollowerAppend, AdvanceCommit, RequestReady, TakeReady, NoReadyYet, PassAsLeader, WriteWal,
      AdvanceMemStore, PassAsFollower, vars

\* The MemoryStorage catches up with the write-ahead log in Advance.
LEMMA MemStoreStep ==
  ASSUME FlushTypeOK, MemStoreFollows, [Next]_vars
  PROVE  MemStoreFollows'
<1> USE FlushOrderFacts DEF MemStoreFollows, Overwrite
<1>1. CASE UNCHANGED flushVars
  BY <1>1 DEF flushVars
<1>2. CASE RequestReady
  BY <1>2 DEF RequestReady
<1>3. CASE TakeReady
  BY <1>3 DEF TakeReady
<1>4. CASE NoReadyYet
  BY <1>4 DEF NoReadyYet
<1>5. CASE PassAsLeader
  BY <1>5 DEF PassAsLeader, FlushTypeOK
<1>6. CASE WriteWal
  BY <1>6 DEF WriteWal
<1>7. CASE NotifyCommit
  BY <1>7 DEF NotifyCommit
<1>8. CASE AdvanceMemStore
  BY <1>8 DEF AdvanceMemStore
<1>9. CASE PassAsFollower
  BY <1>9 DEF PassAsFollower
<1> HIDE DEF MemStoreFollows, Overwrite
<1> QED
  BY <1>1, <1>2, <1>3, <1>4, <1>5, <1>6, <1>7, <1>8, <1>9
  DEF Next, RaftStep, RunWrite, RunGetReady, FlushStep, Dead, Campaign, WinElection, GrantVote,
      FollowerAppend, AdvanceCommit, SubmitWrite, ProposeWrite, RejectWrite, NotifyCrash, WalFails, vars

\* The flusher's view of the log and the acknowledgements that rest on it.
DurableInv == ReadyContinuesWal /\ StableIsPending /\ ReadyCommitStands /\ AckedIndexStands

\* What the write-ahead log is about to hold is a log.
LEMMA PendingWalType ==
  ASSUME FlushTypeOK, ReadyContinuesWal
  PROVE  PendingWal \in Seq(Entries)
<1>1. CASE Unwritten
  BY <1>1, OverwriteFacts DEF PendingWal, FlushTypeOK, ReadyContinuesWal
<1>2. CASE ~Unwritten
  BY <1>2 DEF PendingWal, FlushTypeOK
<1> QED BY <1>1, <1>2

\* The log may grow and, above commit, be replaced: the prefix up to the new
\* stable is the one the flusher has.
LEMMA LogStep ==
  ASSUME NodeTypeOK, FlushTypeOK, WriteTypeOK, DurableInv,
         UNCHANGED flushVars,
         commit' \in Nat, commit <= commit',
         stable' \in Nat, stable' <= stable,
         stable' < stable => commit <= stable',
         \A j \in 1..stable' : log'[j] = log[j],
         \A w \in Writers : pc'[w] = "ok" => pc[w] = "ok" /\ index'[w] = index[w]
  PROVE  DurableInv'
<1>1. Unwritten' = Unwritten /\ PendingWal' = PendingWal /\ Flushing' = Flushing
  BY DEF Unwritten, PendingWal, Flushing, Overwrite, flushVars
<1>2. ReadyContinuesWal'
  BY <1>1 DEF DurableInv, ReadyContinuesWal, flushVars
<1>3. StableIsPending'
  <2>1. PendingWal \in Seq(Entries)
    BY PendingWalType DEF DurableInv
  <2>2. stable \in Nat /\ Len(PendingWal) \in Nat
    BY <2>1 DEF NodeTypeOK
  <2> QED BY <1>1, <2>2 DEF DurableInv, StableIsPending
<1>4. rd' = rd /\ rd.commit \in Nat /\ rd.first \in Nat /\ commit \in Nat /\ stable \in Nat
  BY DEF flushVars, FlushTypeOK, NodeTypeOK
<1>5. ReadyCommitStands'
  BY <1>1, <1>4 DEF DurableInv, ReadyCommitStands
<1>6. AckedIndexStands'
  <2> SUFFICES ASSUME NEW w \in Writers, pc'[w] = "ok"
               PROVE  /\ index'[w] <= commit' /\ index'[w] <= stable'
                      /\ Unwritten' => index'[w] < rd'.first
    BY DEF AckedIndexStands
  <2>1. pc[w] = "ok" /\ index'[w] = index[w] /\ index[w] \in Nat
    BY DEF WriteTypeOK
  <2>2. index[w] <= commit /\ index[w] <= stable /\ (Unwritten => index[w] < rd.first)
    BY <2>1 DEF DurableInv, AckedIndexStands
  <2> QED BY <1>1, <1>4, <2>1, <2>2
<1> QED BY <1>2, <1>3, <1>5, <1>6 DEF DurableInv

\* Every step keeps it.
LEMMA DurableStep ==
  ASSUME NodeTypeOK, FlushTypeOK, WriteTypeOK, ListenersWait, DurableInv, [Next]_vars
  PROVE  DurableInv'
<1> USE FlushOrderFacts
<1>0. commit \in Nat /\ stable \in Nat /\ Len(log) \in Nat /\ commit <= Len(log) /\ stable <= Len(log)
  BY DEF NodeTypeOK
<1>1. CASE UNCHANGED <<flushVars, log, commit, stable, pc, index>>
  BY <1>0, <1>1, LogStep
<1>2. CASE WinElection
  <2>1. \A j \in 1..Len(log) : log'[j] = log[j]
    BY <1>2 DEF WinElection, NodeTypeOK, Entries
  <2>2. UNCHANGED <<flushVars, commit, stable, pc, index>>
    BY <1>2 DEF WinElection, writeVars
  <2> QED BY <1>0, <2>1, <2>2, LogStep
<1>3. ASSUME NEW t \in 1..MaxTerm, NEW i \in 1..MaxIndex, FollowerAppend(t, i) PROVE DurableInv'
  <2>0. i \in commit + 1..Len(log) + 1
    BY <1>3 DEF FollowerAppend
  <2>1. t \in Nat /\ i \in Nat /\ commit < i /\ i \in 1..Len(log) + 1
    BY <1>0, <2>0
  <2>2. \A j \in 1..i - 1 : log'[j] = log[j]
    BY <1>3, <2>1, TruncateFacts DEF FollowerAppend, NodeTypeOK
  <2>3. UNCHANGED <<flushVars, commit, pc, index>>
    BY <1>3 DEF FollowerAppend, writeVars
  <2>4. stable' = IF i <= stable THEN i - 1 ELSE stable
    BY <1>3 DEF FollowerAppend, UnstableFrom
  <2>5. stable' \in Nat /\ stable' <= stable /\ stable' <= i - 1 /\ (stable' < stable => commit <= stable')
    BY <1>0, <2>1, <2>4
  <2>6. \A j \in 1..stable' : log'[j] = log[j]
    BY <2>1, <2>2, <2>5
  <2> QED BY <1>0, <2>3, <2>5, <2>6, LogStep
<1>4. ASSUME NEW c \in 1..MaxIndex, AdvanceCommit(c) PROVE DurableInv'
  <2>1. commit' \in Nat /\ commit <= commit' /\ UNCHANGED <<flushVars, log, stable, pc, index>>
    BY <1>0, <1>4 DEF AdvanceCommit, writeVars
  <2> QED BY <1>0, <2>1, LogStep
<1>5. ASSUME NEW w \in Writers, SubmitWrite(w) \/ RejectWrite(w) PROVE DurableInv'
  <2>1. UNCHANGED <<flushVars, log, commit, stable, index>>
    BY <1>5 DEF SubmitWrite, RejectWrite, nodeVars
  <2>2. \A x \in Writers : pc'[x] = "ok" => pc[x] = "ok"
    BY <1>5 DEF SubmitWrite, RejectWrite, WriteTypeOK
  <2> QED BY <1>0, <2>1, <2>2, LogStep
<1>6. ASSUME NEW w \in Writers, ProposeWrite(w) PROVE DurableInv'
  <2>1. \A j \in 1..Len(log) : log'[j] = log[j]
    BY <1>6 DEF ProposeWrite, NodeTypeOK, Entries
  <2>2. UNCHANGED <<flushVars, commit, stable>>
    BY <1>6 DEF ProposeWrite
  <2>3. \A x \in Writers : pc'[x] = "ok" => pc[x] = "ok" /\ index'[x] = index[x]
    BY <1>6 DEF ProposeWrite, WriteTypeOK
  <2> QED BY <1>0, <2>1, <2>2, <2>3, LogStep
<1>7. CASE RequestReady \/ NoReadyYet \/ AdvanceMemStore \/ PassAsFollower
  <2>1. UNCHANGED <<log, commit, stable, wal, pc, index>> /\ ~Unwritten /\ ~Unwritten'
    BY <1>7 DEF RequestReady, NoReadyYet, AdvanceMemStore, PassAsFollower, nodeVars, writeVars,
       Unwritten
  <2>2. Flushing' => Flushing /\ rd' = rd
    BY <1>7 DEF RequestReady, NoReadyYet, AdvanceMemStore, PassAsFollower, Flushing
  <2> QED
    BY <2>1, <2>2 DEF DurableInv, ReadyContinuesWal, StableIsPending, ReadyCommitStands,
       AckedIndexStands, PendingWal
<1>8. CASE PassAsLeader
  <2>1. /\ UNCHANGED <<log, commit, stable, wal, pc, index>>
        /\ rd'.first = rd.first /\ rd'.entries = rd.entries /\ rd'.commit = rd.commit
    BY <1>8 DEF PassAsLeader, nodeVars, writeVars, FlushTypeOK
  <2>2. Unwritten' = Unwritten /\ (Flushing' => Flushing)
    BY <1>8, <2>1 DEF PassAsLeader, Unwritten, Flushing
  <2> QED
    BY <2>1, <2>2 DEF DurableInv, ReadyContinuesWal, StableIsPending, ReadyCommitStands,
       AckedIndexStands, PendingWal, Overwrite
<1>9. CASE TakeReady
  <2> DEFINE es == SubSeq(log, stable + 1, Len(log))
  <2>1. /\ rd'.first = stable + 1 /\ rd'.entries = es /\ rd'.commit = commit
        /\ fpc = "waiting" /\ fpc' = "send" /\ stable' = Len(log)
        /\ UNCHANGED <<log, commit, wal, pc, index>>
    <3>1. PICK b \in BOOLEAN :
            rd' = [leader |-> role = "leader", first |-> stable + 1, entries |-> es,
                   hasHs |-> prevHs # [term |-> term, commit |-> commit],
                   hasCommit |-> b, term |-> term, commit |-> commit, msgs |-> msgs]
      BY <1>9, Zenon DEF TakeReady
    <3>2. /\ fpc = "waiting" /\ fpc' = "send" /\ stable' = Len(log)
          /\ UNCHANGED <<log, commit, wal, pc, index>>
      BY <1>9 DEF TakeReady, writeVars
    <3> HIDE DEF es
    <3> QED BY <3>1, <3>2
  <2>2. /\ es \in Seq(Entries) /\ Len(es) = Len(log) - stable
        /\ \A j \in 1..Len(log) - stable : es[j] = log[stable + j]
    BY <1>0 DEF NodeTypeOK
  <2> HIDE DEF es
  <2>3. wal.log \in Seq(Entries) /\ Len(wal.log) \in Nat
    BY DEF FlushTypeOK
  <2>4. stable <= Len(wal.log) /\ \A j \in 1..stable : wal.log[j] = log[j]
    BY <2>1 DEF DurableInv, StableIsPending, PendingWal, Unwritten
  <2>5. ReadyContinuesWal' /\ ReadyCommitStands'
    BY <1>0, <2>1, <2>4 DEF ReadyContinuesWal, ReadyCommitStands
  <2>6. StableIsPending'
    <3>1. CASE es = << >>
      <4>1. stable = Len(log)
        BY <1>0, <2>2, <3>1
      <4> QED BY <2>1, <2>4, <3>1, <4>1 DEF StableIsPending, PendingWal, Unwritten
    <3>2. CASE es # << >>
      <4>1. PendingWal' = Overwrite(wal.log, stable + 1, es)
        BY <2>1, <3>2 DEF PendingWal, Unwritten, Overwrite
      <4>2. /\ Len(PendingWal') = stable + Len(es)
            /\ \A j \in 1..stable : PendingWal'[j] = wal.log[j]
            /\ \A j \in stable + 1..stable + Len(es) : PendingWal'[j] = es[j - stable]
        <5>1. stable + 1 \in Nat \ {0} /\ (stable + 1) - 1 = stable /\ (stable + 1) - 1 <= Len(wal.log)
          BY <1>0, <2>4
        <5> DEFINE f == stable + 1
        <5> HIDE DEF f
        <5>2. f \in Nat \ {0} /\ f - 1 <= Len(wal.log)
          BY <5>1 DEF f
        <5>3. /\ Len(Overwrite(wal.log, f, es)) = f - 1 + Len(es)
              /\ \A j \in 1..f - 1 : Overwrite(wal.log, f, es)[j] = wal.log[j]
              /\ \A j \in f..f - 1 + Len(es) : Overwrite(wal.log, f, es)[j] = es[j - f + 1]
          BY <2>2, <2>3, <5>2, OverwriteFacts
        <5>4. PendingWal' = Overwrite(wal.log, f, es)
          BY <4>1 DEF f
        <5>5. f - 1 = stable /\ f = stable + 1 /\ \A j \in Nat : j - f + 1 = j - stable
          BY <1>0 DEF f
        <5>6. \A j \in stable + 1..stable + Len(es) : PendingWal'[j] = es[j - stable]
          BY <1>0, <5>3, <5>4, <5>5
        <5> QED BY <5>3, <5>4, <5>5, <5>6
      <4>3. ASSUME NEW j \in 1..Len(log) PROVE PendingWal'[j] = log[j]
        BY <1>0, <2>2, <2>4, <4>2
      <4> QED BY <1>0, <2>1, <2>2, <4>2, <4>3 DEF StableIsPending
    <3> QED BY <3>1, <3>2
  <2>7. AckedIndexStands'
    BY <1>0, <2>1 DEF DurableInv, AckedIndexStands, WriteTypeOK
  <2> QED BY <2>5, <2>6, <2>7 DEF DurableInv
<1>10. CASE WriteWal
  <2>1. fpc = "write" /\ fpc' = "notify" /\ UNCHANGED <<log, commit, stable, rd, pc, index>>
    BY <1>10 DEF WriteWal, nodeVars, writeVars
  <2>2. wal'.log = PendingWal
    BY <1>10, <2>1 DEF WriteWal, PendingWal, Unwritten, Overwrite
  <2>3. ~Unwritten' /\ PendingWal' = PendingWal
    BY <2>1, <2>2 DEF PendingWal, Unwritten
  <2>4. Flushing
    BY <2>1 DEF Flushing
  <2> QED
    BY <2>1, <2>3, <2>4 DEF DurableInv, ReadyContinuesWal, StableIsPending, ReadyCommitStands,
       AckedIndexStands
<1>11. CASE NotifyCommit
  <2>1. /\ fpc = "notify" /\ fpc' = "advance"
        /\ UNCHANGED <<log, commit, stable, rd, wal, index>>
    BY <1>11 DEF NotifyCommit, nodeVars
  <2>2. ~Unwritten /\ ~Unwritten' /\ Flushing
    BY <2>1 DEF Unwritten, Flushing
  <2>3. ASSUME NEW w \in Writers, pc'[w] = "ok" PROVE index[w] <= commit /\ index[w] <= stable
    <3>1. CASE pc[w] = "ok"
      BY <3>1 DEF DurableInv, AckedIndexStands
    <3>2. CASE pc[w] # "ok"
      <4>1. w \in Notified(rd.commit)
        BY <1>11, <2>3, <3>2 DEF NotifyCommit, NotifyWalk
      <4>2. index[w] <= rd.commit
        BY <4>1 DEF Notified, ListenersWait
      <4>3. rd.commit <= commit /\ rd.commit <= stable
        BY <2>2 DEF DurableInv, ReadyCommitStands
      <4>4. index[w] \in Nat /\ rd.commit \in Nat
        BY DEF WriteTypeOK, FlushTypeOK
      <4> QED BY <1>0, <4>2, <4>3, <4>4
    <3> QED BY <3>1, <3>2
  <2> QED
    BY <2>1, <2>2, <2>3 DEF DurableInv, ReadyContinuesWal, StableIsPending, ReadyCommitStands,
       AckedIndexStands, PendingWal
<1> QED
  BY <1>1, <1>2, <1>3, <1>4, <1>5, <1>6, <1>7, <1>8, <1>9, <1>10, <1>11
  DEF Next, RaftStep, RunWrite, RunGetReady, FlushStep, Dead, Campaign, GrantVote, NotifyCrash, WalFails,
      nodeVars, writeVars, vars

\* and after every step.
LEMMA NextPathInv == PathInv /\ [Next]_vars => PathInv'
BY NodeTypeStep, FlushTypeStep, WriteStep, MemStoreStep, DurableStep DEF PathInv, TypeOK, DurableInv

-----------------------------------------------------------------------------
\* The invariant holds in every state of every behaviour.
THEOREM PathInvariant == Spec => []PathInv
BY InitPathInv, NextPathInv, PTL DEF Spec

\* Types, for every instance: no truncation by a new leader leaves commit or
\* stable beyond the log, and WriteWal and Advance cut inside what they have.
THEOREM TypeCorrect == Spec => []TypeOK
<1>1. PathInv => TypeOK
  BY DEF PathInv
<1> QED BY <1>1, PathInvariant, PTL

\* What is pending is in the write-ahead log up to every acknowledged index.
LEMMA AckedIsPersisted == PathInv => AckedPrefixPersisted
<1> SUFFICES ASSUME PathInv, NEW w \in Writers, pc[w] = "ok"
             PROVE  /\ index[w] <= commit
                    /\ index[w] <= Len(wal.log)
                    /\ \A i \in 1..index[w] : wal.log[i] = log[i]
  BY DEF AckedPrefixPersisted
<1>1. /\ index[w] <= commit /\ index[w] <= stable
      /\ Unwritten => index[w] < rd.first
  BY DEF PathInv, AckedIndexStands
<1>2. index[w] \in Nat /\ stable \in Nat /\ rd.first \in Nat \ {0}
  BY DEF PathInv, TypeOK, NodeTypeOK, FlushTypeOK, WriteTypeOK
<1>3. wal.log \in Seq(Entries) /\ rd.entries \in Seq(Entries) /\ Len(wal.log) \in Nat
  BY DEF PathInv, TypeOK, FlushTypeOK
<1>4. stable <= Len(PendingWal) /\ \A i \in 1..stable : PendingWal[i] = log[i]
  BY DEF PathInv, StableIsPending
<1>5. CASE Unwritten
  <2>1. rd.first - 1 <= Len(wal.log)
    BY <1>5 DEF PathInv, ReadyContinuesWal
  <2>2. \A i \in 1..rd.first - 1 : PendingWal[i] = wal.log[i]
    <3>1. \A i \in 1..rd.first - 1 : Overwrite(wal.log, rd.first, rd.entries)[i] = wal.log[i]
      BY <1>2, <1>3, <2>1, OverwriteFacts
    <3> QED BY <1>5, <3>1 DEF PendingWal
  <2> QED BY <1>1, <1>2, <1>3, <1>4, <1>5, <2>1, <2>2
<1>6. CASE ~Unwritten
  <2>1. PendingWal = wal.log
    BY <1>6 DEF PendingWal
  <2> QED BY <1>1, <1>2, <1>3, <1>4, <2>1
<1> QED BY <1>5, <1>6

\* flushReady writes before it notifies: a Write that returned OK has the log
\* up to its index committed and in the write-ahead log.
THEOREM AckedIsDurable == Spec => []AckedPrefixPersisted
BY AckedIsPersisted, PathInvariant, PTL

\* No channel gets a second value, on any path through AsyncWrite and Notify.
THEOREM ChannelAnsweredOnce == Spec => []AtMostOneAnswer
<1>1. PathInv => AtMostOneAnswer
  BY DEF PathInv, AnsweredOnce, AtMostOneAnswer
<1> QED BY <1>1, PathInvariant, PTL

\* Advance never makes stable in memory what is not in the write-ahead log.
THEOREM MemStoreDurable == Spec => []MemStoreIsPersisted
<1>1. PathInv => MemStoreIsPersisted
  BY DEF PathInv, MemStoreFollows, MemStoreIsPersisted
<1> QED BY <1>1, PathInvariant, PTL

-----------------------------------------------------------------------------
(* Acknowledgements to other nodes *)

\* Log s has the entry that m acknowledges, or a later leader's entry at its
\* index or below.
Covers(s, m) ==
  \E i \in 1..Len(s) :
    \/ i = m.index /\ s[i].term = m.logTerm
    \/ i <= m.index /\ s[i].term > m.logTerm

AckMsgs(M) == {m \in M : m.type = "appResp"}

\* The vote the node asks for in its term has left the RawNode.
AskedForVotes == \E m \in rd.msgs \cup sent : m.type = "vote" /\ m.term = term

\* What the node acknowledged is in its log; once it is in a Ready, it is or is
\* about to be in the write-ahead log.
AcksStand ==
  /\ \A m \in AckMsgs(msgs \cup rd.msgs \cup sent) : Covers(log, m)
  /\ \A m \in AckMsgs(rd.msgs \cup sent) : Covers(PendingWal, m)
  /\ \A m \in AckMsgs(sent) : Covers(wal.log, m)

\* A leader has no acknowledgement left to send, so that it may send first: the
\* votes it won by were asked for in a Ready that took them all.
LeaderAcksNothing ==
  /\ \A m \in msgs \cup rd.msgs \cup sent : m.term <= term
  /\ role = "leader" \/ (role = "candidate" /\ AskedForVotes) => AckMsgs(msgs) = {}
  /\ rd.leader => AckMsgs(rd.msgs) = {}

AckInv == AcksStand /\ LeaderAcksNothing

\* What the write-ahead log is about to hold is a log.
LEMMA PendingIsLog == PathInv' => (PendingWal \in Seq(Entries))'
<1>1. PathInv => PendingWal \in Seq(Entries)
  BY PendingWalType DEF PathInv, TypeOK
<1> QED BY <1>1, PTL

\* A log that only grew covers what it covered.
LEMMA CoversExtends ==
  ASSUME NEW s \in Seq(Entries), NEW r \in Seq(Entries), NEW m \in Messages,
         Len(s) <= Len(r), \A j \in 1..Len(s) : r[j] = s[j], Covers(s, m)
  PROVE  Covers(r, m)
<1>1. PICK i \in 1..Len(s) : \/ i = m.index /\ s[i].term = m.logTerm
                             \/ i <= m.index /\ s[i].term > m.logTerm
  BY DEF Covers
<1>2. i \in 1..Len(r) /\ r[i] = s[i]
  OBVIOUS
<1> QED BY <1>1, <1>2 DEF Covers

\* So does a log whose suffix from i on a later leader replaced: the entries it
\* took away had lower terms than the one it put there.
LEMMA CoversTruncate ==
  ASSUME NEW s \in Seq(Entries), NEW r \in Seq(Entries), NEW m \in Messages,
         NEW t \in Nat, NEW i \in 1..Len(s) + 1,
         Len(r) = i, r[i].term = t, \A j \in 1..i - 1 : r[j] = s[j],
         \A j \in i..Len(s) : s[j].term < t, Covers(s, m)
  PROVE  Covers(r, m)
<1>1. PICK k \in 1..Len(s) : \/ k = m.index /\ s[k].term = m.logTerm
                             \/ k <= m.index /\ s[k].term > m.logTerm
  BY DEF Covers
<1>2. m.index \in Nat /\ m.logTerm \in Nat /\ s[k].term \in Nat
  <2>1. s[k] \in Entries
    OBVIOUS
  <2> QED BY <2>1 DEF Messages, Entries
<1>3. CASE k < i
  <2>1. k \in 1..Len(r) /\ r[k] = s[k]
    BY <1>3
  <2> QED BY <1>1, <2>1 DEF Covers
<1>4. CASE i <= k
  <2>1. s[k].term < t /\ i <= m.index /\ i \in 1..Len(r)
    BY <1>1, <1>2, <1>4
  <2>2. r[i].term > m.logTerm
    BY <1>1, <1>2, <2>1
  <2> QED BY <2>1, <2>2 DEF Covers
<1> QED BY <1>3, <1>4

\* A step of the RawNode: what it acknowledges is in the log it leaves.
LEMMA NodeAcksStep ==
  ASSUME PathInv, PathInv', AcksStand, RaftStep
  PROVE  AcksStand'
<1>1. /\ log \in Seq(Entries) /\ log' \in Seq(Entries) /\ Len(log) \in Nat /\ term \in Nat
      /\ msgs \subseteq Messages /\ rd.msgs \subseteq Messages /\ sent \subseteq Messages
  <2>1. NodeTypeOK /\ NodeTypeOK' /\ FlushTypeOK
    BY DEF PathInv, TypeOK
  <2>2. rd.msgs \subseteq Messages /\ sent \subseteq Messages
    BY <2>1 DEF FlushTypeOK
  <2> QED BY <2>1, <2>2 DEF NodeTypeOK
<1>2. UNCHANGED flushVars
  BY DEF RaftStep, Campaign, WinElection, GrantVote, FollowerAppend, AdvanceCommit
<1>3. SUFFICES ASSUME NEW m \in AckMsgs(msgs' \cup rd.msgs \cup sent) PROVE Covers(log', m)
  <2>1. PendingWal' = PendingWal /\ UNCHANGED <<rd, sent, wal>>
    BY <1>2 DEF flushVars, PendingWal, Unwritten, Overwrite
  <2> QED BY <2>1 DEF AcksStand, AckMsgs
<1>4. ASSUME m \in msgs \cup rd.msgs \cup sent PROVE m \in Messages /\ Covers(log, m)
  BY <1>1, <1>4 DEF AcksStand, AckMsgs
<1>5. CASE UNCHANGED log /\ AckMsgs(msgs') \subseteq AckMsgs(msgs)
  BY <1>4, <1>5 DEF AckMsgs
<1>6. CASE WinElection
  <2>1. m \in msgs \cup rd.msgs \cup sent
    BY <1>6 DEF WinElection, AckMsgs
  <2>2. Len(log') = Len(log) + 1 /\ \A j \in 1..Len(log) : log'[j] = log[j]
    BY <1>1, <1>6 DEF WinElection, Entries
  <2> QED BY <1>1, <1>4, <2>1, <2>2, CoversExtends
<1>7. ASSUME NEW t \in 1..MaxTerm, NEW i \in 1..MaxIndex, FollowerAppend(t, i)
      PROVE  Covers(log', m)
  <2>1. t \in Nat /\ i \in 1..Len(log) + 1
    BY <1>1, <1>7 DEF FollowerAppend, PathInv, TypeOK, NodeTypeOK
  <2>2. Len(log') = i /\ log'[i].term = t /\ \A j \in 1..i - 1 : log'[j] = log[j]
    BY <1>1, <1>7, <2>1, TruncateFacts DEF FollowerAppend
  <2>3. CASE m \in msgs \cup rd.msgs \cup sent
    <3>1. \A j \in i..Len(log) : log[j].term < t
      BY <1>7 DEF FollowerAppend
    <3> QED BY <1>1, <1>4, <2>1, <2>2, <2>3, <3>1, CoversTruncate
  <2>4. CASE m = [type |-> "appResp", term |-> t, index |-> i, logTerm |-> t]
    BY <2>1, <2>2, <2>4 DEF Covers
  <2> QED BY <1>7, <2>3, <2>4 DEF FollowerAppend, AckMsgs
<1>8. CASE Campaign \/ (\E t \in 1..MaxTerm : GrantVote(t)) \/ (\E c \in 1..MaxIndex : AdvanceCommit(c))
  <2>1. PICK t : /\ UNCHANGED log
                 /\ msgs' \subseteq msgs \cup {[type |-> "vote", term |-> t, index |-> 0, logTerm |-> 0]}
    BY <1>8 DEF Campaign, GrantVote, AdvanceCommit
  <2> QED BY <1>5, <2>1 DEF AckMsgs
<1> QED BY <1>6, <1>7, <1>8 DEF RaftStep

\* Every step keeps the acknowledgements covered: a Ready takes the messages and
\* the entries together, and only a leader sends before it writes.
LEMMA AcksStep ==
  ASSUME PathInv, PathInv', AckInv, [Next]_vars
  PROVE  AcksStand'
<1> USE FlushOrderFacts
<1>1. /\ log \in Seq(Entries) /\ log' \in Seq(Entries) /\ Len(log) \in Nat
      /\ msgs \subseteq Messages /\ rd.msgs \subseteq Messages /\ sent \subseteq Messages
  <2>1. NodeTypeOK /\ NodeTypeOK' /\ FlushTypeOK
    BY DEF PathInv, TypeOK
  <2>2. rd.msgs \subseteq Messages /\ sent \subseteq Messages
    BY <2>1 DEF FlushTypeOK
  <2> QED BY <2>1, <2>2 DEF NodeTypeOK
<1>2. AcksStand
  BY DEF AckInv
<1>3. CASE UNCHANGED <<log, msgs, rd, wal, sent>> /\ Unwritten' = Unwritten
  <2>1. PendingWal' = PendingWal
    BY <1>3 DEF PendingWal
  <2> QED BY <1>2, <1>3, <2>1 DEF AcksStand
<1>4. CASE RaftStep
  BY <1>2, <1>4, NodeAcksStep
<1>5. ASSUME NEW w \in Writers, ProposeWrite(w) PROVE AcksStand'
  <2>1. UNCHANGED <<msgs, rd, wal, sent>> /\ PendingWal' = PendingWal
    BY <1>5 DEF ProposeWrite, flushVars, PendingWal, Unwritten, Overwrite
  <2>2. Len(log') = Len(log) + 1 /\ \A j \in 1..Len(log) : log'[j] = log[j]
    BY <1>1, <1>5 DEF ProposeWrite, PathInv, TypeOK, NodeTypeOK, Entries
  <2>3. ASSUME NEW m \in AckMsgs(msgs \cup rd.msgs \cup sent) PROVE Covers(log', m)
    <3>1. m \in Messages /\ Covers(log, m)
      BY <1>1, <1>2 DEF AcksStand, AckMsgs
    <3> QED BY <1>1, <2>2, <3>1, CoversExtends
  <2> QED BY <1>2, <2>1, <2>3 DEF AcksStand
<1>6. CASE TakeReady
  <2>1. /\ rd'.msgs = msgs /\ msgs' = {} /\ stable' = Len(log)
        /\ UNCHANGED <<log, wal, sent>>
    <3>1. PICK b \in BOOLEAN :
            rd' = [leader |-> role = "leader", first |-> stable + 1,
                   entries |-> SubSeq(log, stable + 1, Len(log)),
                   hasHs |-> prevHs # [term |-> term, commit |-> commit],
                   hasCommit |-> b, term |-> term, commit |-> commit, msgs |-> msgs]
      BY <1>6, Zenon DEF TakeReady
    <3>2. rd'.msgs = msgs
      BY <3>1
    <3> QED BY <1>6, <3>2 DEF TakeReady
  <2>2. /\ PendingWal' \in Seq(Entries) /\ Len(log) <= Len(PendingWal')
        /\ \A j \in 1..Len(log) : PendingWal'[j] = log[j]
    <3>1. PendingWal' \in Seq(Entries)
      BY PendingIsLog
    <3> QED BY <2>1, <3>1 DEF PathInv, StableIsPending
  <2>3. ASSUME NEW m \in AckMsgs(msgs \cup sent) PROVE Covers(log, m) /\ Covers(PendingWal', m)
    <3>1. m \in Messages /\ Covers(log, m)
      BY <1>1, <1>2 DEF AcksStand, AckMsgs
    <3> QED BY <1>1, <2>2, <3>1, CoversExtends
  <2> QED BY <1>2, <2>1, <2>3 DEF AcksStand, AckMsgs
<1>7. CASE PassAsLeader
  <2>1. /\ UNCHANGED <<log, msgs, wal>> /\ rd'.first = rd.first /\ rd'.entries = rd.entries
        /\ Unwritten' = Unwritten
    BY <1>7 DEF PassAsLeader, nodeVars, PathInv, TypeOK, FlushTypeOK, Unwritten
  <2>2. PendingWal' = PendingWal
    BY <2>1 DEF PendingWal, Overwrite
  <2>3. AckMsgs(rd'.msgs) \subseteq AckMsgs(rd.msgs) /\ AckMsgs(sent') = AckMsgs(sent)
    <3>1. CASE rd.leader
      <4>1. AckMsgs(rd.msgs) = {} /\ sent' = sent \cup rd.msgs /\ rd'.msgs = {}
        BY <1>7, <3>1 DEF PassAsLeader, AckInv, LeaderAcksNothing, PathInv, TypeOK, FlushTypeOK
      <4> QED BY <4>1 DEF AckMsgs
    <3>2. CASE ~rd.leader
      BY <1>7, <3>2 DEF PassAsLeader
    <3> QED BY <3>1, <3>2
  <2> QED BY <1>2, <2>1, <2>2, <2>3 DEF AcksStand, AckMsgs
<1>8. CASE WriteWal
  <2>1. fpc = "write" /\ fpc' = "notify" /\ UNCHANGED <<log, msgs, rd, sent>>
    BY <1>8 DEF WriteWal, nodeVars
  <2>2. wal'.log = PendingWal
    BY <1>8, <2>1 DEF WriteWal, PendingWal, Unwritten, Overwrite
  <2>3. PendingWal' = PendingWal
    BY <2>1, <2>2 DEF PendingWal, Unwritten
  <2> QED BY <1>2, <2>1, <2>2, <2>3 DEF AcksStand, AckMsgs
<1>9. CASE PassAsFollower
  <2>1. /\ UNCHANGED <<log, msgs, wal>> /\ rd'.msgs = {} /\ sent' \subseteq sent \cup rd.msgs
        /\ PendingWal = wal.log /\ PendingWal' = wal.log
    BY <1>9 DEF PassAsFollower, nodeVars, NoReady, PendingWal, Unwritten
  <2> QED BY <1>2, <2>1 DEF AcksStand, AckMsgs
<1>10. CASE RequestReady \/ NoReadyYet \/ NotifyCommit \/ AdvanceMemStore
  <2>1. UNCHANGED <<log, msgs, rd, wal, sent>> /\ Unwritten' = Unwritten
    BY <1>10 DEF RequestReady, NoReadyYet, NotifyCommit, AdvanceMemStore, nodeVars, Unwritten
  <2> QED BY <1>3, <2>1
<1>11. CASE UNCHANGED <<nodeVars, flushVars>>
  BY <1>3, <1>11 DEF nodeVars, flushVars, Unwritten
<1> QED
  BY <1>4, <1>5, <1>6, <1>7, <1>8, <1>9, <1>10, <1>11
  DEF Next, RunWrite, RunGetReady, FlushStep, Dead, SubmitWrite, RejectWrite, NotifyCrash, WalFails, vars

\* Every step leaves a leader without acknowledgements to send: a candidate
\* becomes leader by the answers to a vote that a Ready took out.
LEMMA LeaderStep ==
  ASSUME PathInv, LeaderAcksNothing, [Next]_vars
  PROVE  LeaderAcksNothing'
<1> USE FlushOrderFacts
<1>1. /\ term \in Nat /\ \A m \in msgs \cup rd.msgs \cup sent : m.term \in Nat
      /\ rd.leader \in BOOLEAN
  BY DEF PathInv, TypeOK, NodeTypeOK, FlushTypeOK, Messages
<1>2. CASE UNCHANGED <<role, term, msgs, rd, sent>>
  BY <1>2 DEF LeaderAcksNothing, AskedForVotes
<1>3. CASE Campaign
  <2>1. /\ role' = "candidate" /\ term' = term + 1 /\ UNCHANGED <<rd, sent>>
        /\ msgs' = msgs \cup {[type |-> "vote", term |-> term + 1, index |-> 0, logTerm |-> 0]}
    BY <1>3 DEF Campaign, flushVars
  <2>2. ~AskedForVotes'
    BY <1>1, <2>1 DEF AskedForVotes, LeaderAcksNothing
  <2>3. \A m \in msgs' \cup rd.msgs \cup sent : m.term <= term'
    BY <1>1, <2>1 DEF LeaderAcksNothing
  <2> QED BY <2>1, <2>2, <2>3 DEF LeaderAcksNothing
<1>4. CASE WinElection
  <2>1. role = "candidate" /\ AskedForVotes /\ UNCHANGED <<term, msgs, rd, sent>>
    BY <1>4 DEF WinElection, AskedForVotes, flushVars
  <2> QED BY <2>1 DEF LeaderAcksNothing
<1>5. ASSUME NEW t \in Nat, NEW m \in Messages, m.term = t, term <= t, term' = t,
             role' = "follower", msgs' = msgs \cup {m}, UNCHANGED <<rd, sent>>
      PROVE  LeaderAcksNothing'
  <2>1. \A x \in msgs' \cup rd.msgs \cup sent : x.term <= term'
    BY <1>1, <1>5 DEF LeaderAcksNothing
  <2> QED BY <1>5, <2>1 DEF LeaderAcksNothing
<1>6. ASSUME NEW t \in 1..MaxTerm, GrantVote(t) PROVE LeaderAcksNothing'
  <2>1. term <= t /\ term' = t /\ role' = "follower" /\ UNCHANGED <<msgs, rd, sent>>
    BY <1>1, <1>6 DEF GrantVote, flushVars
  <2>2. \A x \in msgs' \cup rd.msgs \cup sent : x.term <= term'
    BY <1>1, <2>1 DEF LeaderAcksNothing
  <2> QED BY <2>1, <2>2 DEF LeaderAcksNothing
<1>7. ASSUME NEW t \in 1..MaxTerm, NEW i \in 1..MaxIndex, FollowerAppend(t, i)
      PROVE  LeaderAcksNothing'
  <2> DEFINE m == [type |-> "appResp", term |-> t, index |-> i, logTerm |-> t]
  <2>1. t \in Nat /\ m \in Messages /\ m.term = t
    BY DEF Messages
  <2>2. /\ term <= t /\ term' = t /\ role' = "follower" /\ msgs' = msgs \cup {m}
        /\ UNCHANGED <<rd, sent>>
    BY <1>1, <1>7 DEF FollowerAppend, flushVars
  <2> HIDE DEF m
  <2> QED BY <1>5, <2>1, <2>2
<1>8. CASE TakeReady
  <2>1. PICK b \in BOOLEAN :
          rd' = [leader |-> role = "leader", first |-> stable + 1,
                 entries |-> SubSeq(log, stable + 1, Len(log)),
                 hasHs |-> prevHs # [term |-> term, commit |-> commit],
                 hasCommit |-> b, term |-> term, commit |-> commit, msgs |-> msgs]
    BY <1>8, Zenon DEF TakeReady
  <2>2. rd'.msgs = msgs /\ (rd'.leader <=> role = "leader")
    BY <2>1
  <2>3. msgs' = {} /\ UNCHANGED <<role, term, sent>>
    BY <1>8 DEF TakeReady
  <2> QED BY <2>2, <2>3 DEF LeaderAcksNothing, AckMsgs
<1>9. CASE PassAsLeader \/ PassAsFollower
  <2>1. UNCHANGED <<role, term, msgs>> /\ sent \subseteq sent' /\ sent' \subseteq sent \cup rd.msgs
    BY <1>9 DEF PassAsLeader, PassAsFollower, nodeVars
  <2>2. (rd'.msgs = {} \/ rd' = rd) /\ (rd'.leader => rd.leader)
    BY <1>9 DEF PassAsLeader, PassAsFollower, NoReady, PathInv, TypeOK, FlushTypeOK
  <2>3. AskedForVotes' => AskedForVotes
    BY <2>1, <2>2 DEF AskedForVotes
  <2> QED BY <2>1, <2>2, <2>3 DEF LeaderAcksNothing, AckMsgs
<1> QED
  BY <1>2, <1>3, <1>4, <1>6, <1>7, <1>8, <1>9
  DEF Next, RaftStep, RunWrite, RunGetReady, FlushStep, Dead, AdvanceCommit, SubmitWrite,
      ProposeWrite, RejectWrite, RequestReady, NoReadyYet, WriteWal, NotifyCommit, NotifyCrash, WalFails,
      AdvanceMemStore, nodeVars, flushVars, vars

\* Only a leader sends before it writes, and what it sends acknowledges nothing:
\* every acknowledgement given to the cluster has its entry, or that of a later
\* leader, in the write-ahead log.
THEOREM ResponsesDurable == Spec => []ResponsesPersisted
<1>1. Init => AckInv
  <2>1. Init => role = "follower" /\ msgs = {} /\ rd.msgs = {} /\ sent = {} /\ ~rd.leader
    BY DEF Init, NoReady
  <2> QED BY <2>1 DEF AckInv, AcksStand, LeaderAcksNothing, AckMsgs
<1>2. PathInv /\ PathInv' /\ AckInv /\ [Next]_vars => AckInv'
  BY AcksStep, LeaderStep DEF AckInv
<1>3. AckInv => ResponsesPersisted
  BY DEF AckInv, AcksStand, AckMsgs, Covers, ResponsesPersisted
<1> QED BY <1>1, <1>2, <1>3, PathInvariant, PTL DEF Spec

-----------------------------------------------------------------------------
(* Writes under the first leader *)

\* The entry of a Write that was proposed is where it was proposed.
Proposed(w) == pc[w] \in {"waiting", "ok"}

HasOwnEntry(w) == index[w] \in 1..Len(log) /\ log[index[w]] = [term |-> 1, who |-> w]

\* A leader or candidate has had its first election, and as long as no second
\* leader is heard of, the entry of a Write stays where it was proposed.
OwnEntryStays ==
  /\ role # "follower" => term >= 1
  /\ term <= 1 => \A w \in Writers : Proposed(w) => HasOwnEntry(w) /\ term = 1

\* A log that keeps its entries of term 1 keeps the entries of the Writes.
LEMMA OwnEntryKept ==
  ASSUME PathInv, PathInv', OwnEntryStays, term <= term',
         role' # "follower" => term' >= 1,
         term' <= 1 => \A w \in Writers : Proposed(w)' => Proposed(w) /\ index'[w] = index[w],
         term' <= 1 => \A i \in 1..Len(log) : log[i].term = 1 => i <= Len(log') /\ log'[i] = log[i]
  PROVE  OwnEntryStays'
<1>0. NodeTypeOK /\ NodeTypeOK'
  BY DEF PathInv, TypeOK
<1>1. term \in Nat /\ term' \in Nat /\ Len(log) \in Nat /\ Len(log') \in Nat
  BY <1>0 DEF NodeTypeOK
<1>2. SUFFICES ASSUME term' <= 1, NEW w \in Writers, Proposed(w)'
               PROVE  HasOwnEntry(w)' /\ term' = 1
  BY DEF OwnEntryStays
<1>3. Proposed(w) /\ index'[w] = index[w]
  BY <1>2
<1>4. HasOwnEntry(w) /\ term = 1
  BY <1>1, <1>2, <1>3 DEF OwnEntryStays
<1>5. index[w] \in 1..Len(log) /\ log[index[w]] = [term |-> 1, who |-> w]
  BY <1>4 DEF HasOwnEntry
<1>6. log[index[w]].term = 1
  BY <1>5
<1>7. index[w] <= Len(log') /\ log'[index[w]] = log[index[w]]
  BY <1>2, <1>5, <1>6
<1>8. index'[w] \in 1..Len(log')
  BY <1>1, <1>3, <1>5, <1>7
<1>9. HasOwnEntry(w)'
  BY <1>3, <1>5, <1>7, <1>8 DEF HasOwnEntry
<1> QED BY <1>1, <1>2, <1>4, <1>9

\* Every step keeps it: a leader of term 1 appends, and an append of that term
\* never replaces an entry of that term.
LEMMA OwnEntryStep ==
  ASSUME PathInv, PathInv', OwnEntryStays, [Next]_vars
  PROVE  OwnEntryStays'
<1>1. /\ log \in Seq(Entries) /\ log' \in Seq(Entries) /\ Len(log) \in Nat /\ term \in Nat
      /\ pc \in [Writers -> {"idle", "queued", "waiting", "ok", "failed"}]
      /\ index \in [Writers -> Nat] /\ ListenersWait
  <2>1. NodeTypeOK /\ NodeTypeOK' /\ WriteTypeOK /\ ListenersWait
    BY DEF PathInv, TypeOK
  <2>2. log' \in Seq(Entries)
    BY <2>1 DEF NodeTypeOK
  <2> QED BY <2>1, <2>2 DEF NodeTypeOK, WriteTypeOK
<1>2. role # "follower" => term >= 1
  BY DEF OwnEntryStays
<1>3. CASE UNCHANGED <<role, term, log, pc, index>>
  BY <1>3 DEF OwnEntryStays, Proposed, HasOwnEntry
<1>4. CASE Campaign \/ \E t \in 1..MaxTerm : GrantVote(t)
  <2>1. UNCHANGED <<log, pc, index>> /\ term <= term' /\ term' >= 1
    BY <1>1, <1>4 DEF Campaign, GrantVote, writeVars
  <2> QED BY <1>1, <2>1, OwnEntryKept DEF Proposed
<1>5. CASE WinElection
  <2>1. UNCHANGED <<term, pc, index>> /\ term >= 1
    BY <1>2, <1>5 DEF WinElection, writeVars
  <2>2. Len(log') = Len(log) + 1 /\ \A j \in 1..Len(log) : log'[j] = log[j]
    BY <1>1, <1>5 DEF WinElection, Entries
  <2> QED BY <1>1, <2>1, <2>2, OwnEntryKept DEF Proposed
<1>6. ASSUME NEW t \in 1..MaxTerm, NEW i \in 1..MaxIndex, FollowerAppend(t, i)
      PROVE  OwnEntryStays'
  <2>1. t \in Nat /\ t >= 1 /\ i \in 1..Len(log) + 1
    BY <1>1, <1>6 DEF FollowerAppend, PathInv, TypeOK, NodeTypeOK
  <2>2. UNCHANGED <<pc, index>> /\ term' = t /\ term <= t
    BY <1>1, <1>6, <2>1 DEF FollowerAppend, writeVars
  <2>3. Len(log') = i /\ \A j \in 1..i - 1 : log'[j] = log[j]
    BY <1>1, <1>6, <2>1, TruncateFacts DEF FollowerAppend
  <2>4. \A j \in i..Len(log) : log[j].term < t
    BY <1>6 DEF FollowerAppend
  <2>5. ASSUME term' <= 1, NEW j \in 1..Len(log), log[j].term = 1
        PROVE  j <= Len(log') /\ log'[j] = log[j]
    <3>1. t = 1 /\ ~(1 < t)
      BY <2>1, <2>2, <2>5
    <3>2. j < i
      BY <1>1, <2>1, <2>4, <2>5, <3>1
    <3> QED BY <1>1, <2>1, <2>3, <3>2
  <2> QED BY <1>1, <2>1, <2>2, <2>5, OwnEntryKept DEF Proposed
<1>7. ASSUME NEW w \in Writers, ProposeWrite(w) PROVE OwnEntryStays'
  <2>1. /\ UNCHANGED <<role, term>> /\ role = "leader" /\ pc[w] = "queued"
        /\ log' = Append(log, [term |-> term, who |-> w])
        /\ index' = [index EXCEPT ![w] = Len(log) + 1]
        /\ pc' = [pc EXCEPT ![w] = "waiting"]
    BY <1>7 DEF ProposeWrite, RegisteredIndex
  <2>2. /\ Len(log') = Len(log) + 1 /\ \A j \in 1..Len(log) : log'[j] = log[j]
        /\ log'[Len(log) + 1] = [term |-> term, who |-> w]
    <3>1. [term |-> term, who |-> w] \in Entries
      BY <1>1 DEF Entries
    <3> QED BY <1>1, <2>1, <3>1
  <2>3. term >= 1
    BY <1>2, <2>1
  <2>4. ASSUME term <= 1, NEW x \in Writers, Proposed(x)' PROVE HasOwnEntry(x)' /\ term = 1
    <3>1. term = 1
      BY <1>1, <2>3, <2>4
    <3>2. CASE x = w
      <4>1. index'[x] = Len(log) + 1
        BY <1>1, <2>1, <3>2
      <4> QED BY <1>1, <2>2, <3>1, <3>2, <4>1 DEF HasOwnEntry
    <3>3. CASE x # w
      <4>1. pc'[x] = pc[x] /\ index'[x] = index[x]
        BY <1>1, <2>1, <3>3
      <4>2. HasOwnEntry(x)
        BY <2>4, <4>1 DEF OwnEntryStays, Proposed
      <4> QED BY <1>1, <2>2, <3>1, <4>1, <4>2 DEF HasOwnEntry
    <3> QED BY <3>2, <3>3
  <2> QED BY <2>1, <2>3, <2>4 DEF OwnEntryStays
<1>8. ASSUME NEW w \in Writers, SubmitWrite(w) \/ RejectWrite(w) PROVE OwnEntryStays'
  <2>1. UNCHANGED <<role, term, log, index>>
    BY <1>8 DEF SubmitWrite, RejectWrite, nodeVars
  <2>2. \A x \in Writers : Proposed(x)' => Proposed(x)
    BY <1>1, <1>8 DEF SubmitWrite, RejectWrite, Proposed
  <2> QED BY <1>1, <1>2, <2>1, <2>2, OwnEntryKept
<1>9. CASE NotifyCommit
  <2>1. UNCHANGED <<role, term, log, index>>
    BY <1>9 DEF NotifyCommit, nodeVars
  <2>2. ASSUME NEW x \in Writers, Proposed(x)' PROVE Proposed(x)
    <3>1. pc'[x] = pc[x] \/ x \in Notified(rd.commit)
      BY <1>9 DEF NotifyCommit, NotifyWalk
    <3>2. \A y \in Notified(rd.commit) : pc[y] = "waiting"
      BY <1>1 DEF Notified, ListenersWait
    <3> QED BY <2>2, <3>1, <3>2 DEF Proposed
  <2> QED BY <1>1, <1>2, <2>1, <2>2, OwnEntryKept
<1> QED
  BY <1>3, <1>4, <1>5, <1>6, <1>7, <1>8, <1>9
  DEF Next, RaftStep, RunWrite, RunGetReady, FlushStep, Dead, AdvanceCommit, RequestReady, TakeReady,
      NoReadyYet, PassAsLeader, WriteWal, NotifyCrash, WalFails, AdvanceMemStore, PassAsFollower, nodeVars,
      writeVars, vars

\* While the first leader is not replaced, a Write that returned OK has its own
\* entry committed: the index AsyncWrite registers is the one its proposal got.
THEOREM FirstLeaderOwnsAcks == Spec => []FirstLeaderAcksOwn
<1>1. Init => OwnEntryStays
  BY DEF Init, OwnEntryStays, Proposed
<1>2. PathInv /\ OwnEntryStays => FirstLeaderAcksOwn
  <2> SUFFICES ASSUME PathInv, OwnEntryStays, term <= 1, NEW w \in Writers, pc[w] = "ok"
               PROVE  index[w] <= commit /\ log[index[w]].who = w
    BY DEF FirstLeaderAcksOwn, AckedIsOwnEntry
  <2>1. log[index[w]] = [term |-> 1, who |-> w]
    BY DEF OwnEntryStays, Proposed, HasOwnEntry
  <2> QED BY <2>1 DEF PathInv, AckedIndexStands
<1> QED BY <1>1, <1>2, OwnEntryStep, PathInvariant, PTL DEF Spec

-----------------------------------------------------------------------------
(* The write path implements ReplicatedLogSpec: every step of a thread is a *)
(* step of the abstract log or changes nothing its callers see.  What the   *)
(* steps need is in PathInv.                                                *)

Calls == [w \in Writers |-> CallOf(pc[w])]

Acks == [w \in Writers |-> IF pc[w] = "ok" THEN index[w] ELSE 0]

Stutters == UNCHANGED <<Calls, Acks, wal.log, memLog, alive>>

\* A new log is a new abstract log.
LEMMA InitRefines == Init => Abstract!Init
<1> SUFFICES ASSUME Init PROVE Abstract!Init
  OBVIOUS
<1>1. Calls = [w \in Writers |-> "idle"]
  BY DEF Calls, CallOf, Init
<1>2. Acks = [w \in Writers |-> 0]
  BY DEF Acks, Init
<1> QED BY <1>1, <1>2 DEF Abstract!Init, Calls, Acks, Init

\* What changes neither the writers nor the logs is not seen.
LEMMA StutterFacts ==
  ASSUME UNCHANGED <<pc, index, wal, memLog, alive>>
  PROVE  Stutters
BY DEF Stutters, Calls, Acks

\* Submitting and refusing a Write change its call; proposing it does not.
LEMMA WriterRefines ==
  ASSUME WriteTypeOK, NEW w \in Writers, SubmitWrite(w) \/ RunWrite(w)
  PROVE  Abstract!Next \/ Stutters
<1>0. pc \in [Writers -> {"idle", "queued", "waiting", "ok", "failed"}] /\ index \in [Writers -> Nat]
  BY DEF WriteTypeOK
<1>1. CASE SubmitWrite(w)
  <2>1. /\ alive /\ pc[w] = "idle" /\ pc' = [pc EXCEPT ![w] = "queued"]
        /\ UNCHANGED <<index, wal, memLog, alive>>
    BY <1>1 DEF SubmitWrite, flushVars
  <2>2. Calls' = [Calls EXCEPT ![w] = "pending"] /\ Calls[w] = "idle"
    BY <1>0, <2>1 DEF Calls, CallOf
  <2>3. Acks' = Acks
    BY <1>0, <2>1 DEF Acks
  <2>4. Abstract!Submit(w)
    BY <2>1, <2>2, <2>3 DEF Abstract!Submit, Calls, Acks
  <2> QED BY <2>4 DEF Abstract!Next
<1>2. CASE RejectWrite(w)
  <2>1. /\ alive /\ pc[w] = "queued" /\ pc' = [pc EXCEPT ![w] = "failed"]
        /\ UNCHANGED <<index, wal, memLog, alive>>
    BY <1>2 DEF RejectWrite, flushVars
  <2>2. Calls' = [Calls EXCEPT ![w] = "failed"] /\ Calls[w] = "pending"
    BY <1>0, <2>1 DEF Calls, CallOf
  <2>3. Acks' = Acks
    BY <1>0, <2>1 DEF Acks
  <2>4. Abstract!Fail(w)
    BY <2>1, <2>2, <2>3 DEF Abstract!Fail, Calls, Acks
  <2> QED BY <2>4 DEF Abstract!Next
<1>3. CASE ProposeWrite(w)
  <2>1. /\ pc[w] = "queued" /\ pc' = [pc EXCEPT ![w] = "waiting"]
        /\ index' = [index EXCEPT ![w] = RegisteredIndex]
        /\ UNCHANGED <<wal, memLog, alive>>
    BY <1>3 DEF ProposeWrite, flushVars
  <2>2. Calls' = Calls
    BY <1>0, <2>1 DEF Calls, CallOf
  <2>3. Acks' = Acks
    BY <1>0, <2>1 DEF Acks
  <2> QED BY <2>1, <2>2, <2>3 DEF Stutters
<1> QED BY <1>1, <1>2, <1>3 DEF RunWrite

\* Writing a Ready keeps the log up to every acknowledged index.
LEMMA WriteWalRefines ==
  ASSUME PathInv, WriteWal
  PROVE  Abstract!Next \/ Stutters
<1>1. CASE rd.entries = << >>
  <2>1. UNCHANGED <<pc, index, wal, memLog, alive>>
    BY <1>1 DEF WriteWal, writeVars
  <2> QED BY <2>1, StutterFacts
<1>2. CASE rd.entries # << >>
  <2>1. /\ wal.log \in Seq(Entries) /\ rd.entries \in Seq(Entries) /\ rd.first \in Nat \ {0}
        /\ index \in [Writers -> Nat]
    BY DEF PathInv, TypeOK, FlushTypeOK, WriteTypeOK
  <2>2. Unwritten /\ rd.first - 1 <= Len(wal.log)
    BY <1>2 DEF WriteWal, Unwritten, PathInv, ReadyContinuesWal
  <2>3. /\ alive /\ UNCHANGED <<pc, index, memLog, alive>>
        /\ wal'.log = Overwrite(wal.log, rd.first, rd.entries)
    BY <1>2 DEF WriteWal, writeVars, Overwrite
  <2>4. /\ wal'.log \in Seq(Entries) /\ Len(wal'.log) = rd.first - 1 + Len(rd.entries)
        /\ \A j \in 1..rd.first - 1 : wal'.log[j] = wal.log[j]
    <3> DEFINE o == Overwrite(wal.log, rd.first, rd.entries)
    <3>1. /\ o \in Seq(Entries) /\ Len(o) = rd.first - 1 + Len(rd.entries)
          /\ \A j \in 1..rd.first - 1 : o[j] = wal.log[j]
      BY <2>1, <2>2, OverwriteFacts
    <3>2. wal'.log = o
      BY <2>3
    <3> HIDE DEF o
    <3> QED BY <3>1, <3>2
  <2>5. ASSUME NEW w \in Writers
        PROVE  Acks[w] <= Len(wal'.log) /\ \A j \in 1..Acks[w] : wal'.log[j] = wal.log[j]
    <3>1. CASE pc[w] = "ok"
      <4>1. Acks[w] = index[w] /\ index[w] < rd.first /\ index[w] \in Nat /\ Len(rd.entries) \in Nat
        BY <2>1, <2>2, <3>1 DEF Acks, PathInv, AckedIndexStands
      <4> QED BY <2>1, <2>4, <4>1
    <3>2. CASE pc[w] # "ok"
      <4>1. Acks[w] = 0 /\ Len(wal'.log) \in Nat
        BY <2>4, <3>2 DEF Acks
      <4> QED BY <4>1
    <3> QED BY <3>1, <3>2
  <2>6. UNCHANGED <<Calls, Acks>>
    BY <2>3 DEF Calls, Acks
  <2>7. Abstract!Persist
    BY <2>3, <2>4, <2>5, <2>6 DEF Abstract!Persist, Calls, Acks
  <2> QED BY <2>7 DEF Abstract!Next
<1> QED BY <1>1, <1>2

\* Notify answers writes that wait, each for an index that is on disk.
LEMMA NotifyRefines ==
  ASSUME PathInv, AckedPrefixPersisted', NotifyCommit
  PROVE  Abstract!Next \/ Stutters
<1>0. pc \in [Writers -> {"idle", "queued", "waiting", "ok", "failed"}] /\ index \in [Writers -> Nat]
  BY DEF PathInv, TypeOK, WriteTypeOK
<1>1. CASE ~rd.hasCommit
  <2>1. UNCHANGED <<pc, index, wal, memLog, alive>>
    BY <1>1 DEF NotifyCommit
  <2> QED BY <2>1, StutterFacts
<1>2. CASE rd.hasCommit
  <2>0. PICK Woken \in SUBSET Writers : Woken = Notified(rd.commit)
    BY DEF Notified, PathInv, TypeOK, WriteTypeOK
  <2>1. /\ alive /\ UNCHANGED <<index, wal, memLog, alive>>
        /\ pc' = [w \in Writers |-> IF w \in Woken THEN "ok" ELSE pc[w]]
    BY <1>2, <2>0 DEF NotifyCommit, NotifyWalk
  <2>2. \A w \in Woken : pc[w] = "waiting"
    BY <2>0 DEF Notified, PathInv, ListenersWait
  <2>3. \A w \in Woken : Calls[w] = "pending"
    BY <2>2 DEF Calls, CallOf
  <2>4. Calls' = [w \in Writers |-> IF w \in Woken THEN "ok" ELSE Calls[w]]
    BY <1>0, <2>1, <2>2 DEF Calls, CallOf
  <2>5. ASSUME NEW w \in Woken PROVE index[w] \in 1..Len(wal.log)
    <3>1. pc'[w] = "ok"
      BY <2>1
    <3>2. index'[w] <= Len(wal'.log)
      BY <3>1 DEF AckedPrefixPersisted
    <3>3. index[w] \in Nat \ {0}
      BY <1>0, <2>0 DEF Notified, PathInv, ListenersWait
    <3>4. Len(wal.log) \in Nat
      BY DEF PathInv, TypeOK, FlushTypeOK
    <3> QED BY <2>1, <3>2, <3>3, <3>4
  <2>6. \E at \in [Woken -> 1..Len(wal.log)] :
          Acks' = [w \in Writers |-> IF w \in Woken THEN at[w] ELSE Acks[w]]
    <3> DEFINE at == [w \in Woken |-> index[w]]
    <3>1. at \in [Woken -> 1..Len(wal.log)]
      BY <2>5
    <3>2. Acks' = [w \in Writers |-> IF w \in Woken THEN at[w] ELSE Acks[w]]
      BY <2>1 DEF Acks
    <3> QED BY <3>1, <3>2
  <2>7. Abstract!Acknowledge(Woken)
    BY <2>1, <2>3, <2>4, <2>6 DEF Abstract!Acknowledge, Calls, Acks
  <2> QED BY <2>7 DEF Abstract!Next
<1> QED BY <1>1, <1>2

\* Every step of a thread is a step of the abstract log, or is not seen.
LEMMA StepRefines == PathInv /\ PathInv' /\ [Next]_vars => [Abstract!Next]_(Abstract!vars)
<1> SUFFICES ASSUME PathInv, PathInv', [Next]_vars PROVE Abstract!Next \/ Stutters
  BY DEF Abstract!vars, Stutters, Calls, Acks
<1>1. CASE UNCHANGED <<pc, index, wal, memLog, alive>>
  BY <1>1, StutterFacts
<1>2. ASSUME NEW w \in Writers, SubmitWrite(w) \/ RunWrite(w) PROVE Abstract!Next \/ Stutters
  BY <1>2, WriterRefines DEF PathInv, TypeOK
<1>3. CASE WriteWal
  BY <1>3, WriteWalRefines
<1>4. CASE NotifyCommit
  <2>1. AckedPrefixPersisted'
    BY AckedIsPersisted, PTL
  <2> QED BY <1>4, <2>1, NotifyRefines
<1>5. CASE WalFails \/ NotifyCrash
  <2>1. alive' = FALSE /\ UNCHANGED <<pc, index, wal, memLog>>
    BY <1>5 DEF WalFails, NotifyCrash, flushVars, writeVars
  <2>2. UNCHANGED <<Calls, Acks>>
    BY <2>1 DEF Calls, Acks
  <2>3. Abstract!Crash
    BY <2>1, <2>2 DEF Abstract!Crash, Calls, Acks
  <2> QED BY <2>3 DEF Abstract!Next
<1>6. CASE AdvanceMemStore
  <2>1. alive /\ fpc' = "respond" /\ UNCHANGED <<pc, index, wal, alive>>
    BY <1>6, FlushOrderFacts DEF AdvanceMemStore, writeVars
  <2>2. memLog' = wal.log
    BY <2>1 DEF PathInv, MemStoreFollows
  <2>3. UNCHANGED <<Calls, Acks>>
    BY <2>1 DEF Calls, Acks
  <2>4. Abstract!Follow
    BY <2>1, <2>2, <2>3 DEF Abstract!Follow, Calls, Acks
  <2> QED BY <2>4 DEF Abstract!Next
<1> QED
  BY <1>1, <1>2, <1>3, <1>4, <1>5, <1>6
  DEF Next, RaftStep, RunGetReady, FlushStep, Dead, Campaign, WinElection, GrantVote,
      FollowerAppend, AdvanceCommit, RequestReady, TakeReady, NoReadyYet, PassAsLeader,
      PassAsFollower, flushVars, writeVars, vars

\* Writers, FSM thread and flusher implement the abstract log: nothing a caller
\* was told is durable is rewritten, whatever becomes of the leader.
THEOREM WritePathImplementsLog == Spec => ImplementsLog
<1>1. Init => Abstract!Init
  BY InitRefines
<1>2. PathInv /\ PathInv' /\ [Next]_vars => [Abstract!Next]_(Abstract!vars)
  BY StepRefines
<1> QED BY <1>1, <1>2, PathInvariant, PTL DEF Spec, ImplementsLog, Abstract!Spec

=============================================================================
