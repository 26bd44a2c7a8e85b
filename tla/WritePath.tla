------------------------------ MODULE WritePath ------------------------------
(***************************************************************************)
(* One replicated log: the threads a Write passes through.                 *)
(*                                                                         *)
(*  - writers call ReplicatedLog::Write: they submit a task and wait on a  *)
(*    channel;                                                             *)
(*  - the FSM thread runs the tasks of the TaskQueue one at a time; only   *)
(*    it touches the RawNode;                                              *)
(*  - the flusher thread asks for a Ready through the same queue and then  *)
(*    sends, writes, notifies and advances (ReadyFlusher::flushReady);     *)
(*  - WalCommitObserver holds the channels of the writes that wait for     *)
(*    their index to be committed.                                         *)
(*                                                                         *)
(* Every submitter but AsyncWrite waits for its task, and writes come from *)
(* different threads, so the pending tasks are a set: the queue promises   *)
(* no order between producers.  Ticks and received messages are tasks too; *)
(* what they make of the node is raft's business, modelled as far as the   *)
(* code here can tell it apart (yaraft::RawNode is external).              *)
(***************************************************************************)
EXTENDS Integers, Sequences, FiniteSets

CONSTANTS
  Writers,   \* calls of ReplicatedLog::Write
  Raft,      \* author of the entries that are not from this node's writers
  MaxIndex,  \* bound: length of the log
  MaxTerm    \* bound: highest term

ASSUME AuthorAssumption == Raft \notin Writers

ASSUME BoundAssumption == MaxIndex \in Nat /\ MaxTerm \in Nat

VARIABLES
  role, term, log, commit,  \* the RawNode
  stable,     \* the RawNode has put the entries up to here into a Ready
  prevHs,     \* the hard state of the last Ready
  msgs,       \* messages the RawNode has produced since the last Ready
  fpc, rd,    \* the flusher: its next step, and the Ready it works on
  wal,        \* what the write-ahead log holds: entries, term of the hard state
  memLog,     \* entries in the MemoryStorage
  sent,       \* messages given to rpc::Cluster::Pass
  listeners,  \* WalCommitObserver::writes_: index -> writer
  pc,         \* where each Write is
  index,      \* history: the index its entry got
  answers,    \* history: how many values its channel got
  alive       \* the process runs

nodeVars == <<role, term, log, commit, stable, prevHs, msgs>>
flushVars == <<fpc, rd, wal, memLog, sent>>
writeVars == <<listeners, pc, index, answers>>
vars == <<nodeVars, flushVars, writeVars, alive>>

Entries == [term : Nat, who : Writers \cup {Raft}]
Messages == [type : {"vote", "appResp"}, term : Nat, index : Nat, logTerm : Nat]
HardStates == [term : Nat, commit : Nat]

NoReady == [leader |-> FALSE, first |-> 1, entries |-> << >>, hasHs |-> FALSE,
            hasCommit |-> FALSE, term |-> 0, commit |-> 0, msgs |-> {}]

-----------------------------------------------------------------------------
(* The RawNode (external): what ticks and messages may do to it. *)

\* An election timeout (RaftTimer's task).
Campaign ==
  /\ alive /\ role # "leader" /\ term < MaxTerm
  /\ term' = term + 1
  /\ role' = "candidate"
  /\ msgs' = msgs \cup {[type |-> "vote", term |-> term + 1, index |-> 0, logTerm |-> 0]}
  /\ UNCHANGED <<log, commit, stable, prevHs, flushVars, writeVars, alive>>

\* Votes arrive; they answer requests that have been sent.  A leader starts
\* with an entry of its own.
WinElection ==
  /\ alive /\ role = "candidate" /\ Len(log) < MaxIndex
  /\ \E m \in sent : m.type = "vote" /\ m.term = term
  /\ role' = "leader"
  /\ log' = Append(log, [term |-> term, who |-> Raft])
  /\ UNCHANGED <<term, commit, stable, prevHs, msgs, flushVars, writeVars, alive>>

\* A vote request with a higher term, which the node grants; the answer is left
\* out, no step here tells it apart.
GrantVote(t) ==
  /\ alive /\ t > term
  /\ term' = t
  /\ role' = "follower"
  /\ UNCHANGED <<log, commit, stable, prevHs, msgs, flushVars, writeVars, alive>>

\* Mutant of UnstableFrom: a truncation does not take entries back.
UnstableFromNever(i) == stable

\* Entries from i on were replaced: they have to be in a Ready again.
UnstableFrom(i) == IF i <= stable THEN i - 1 ELSE stable

\* The leader of term t appends its entry at i, over a conflicting suffix; what
\* the node has from that leader stays.
FollowerAppend(t, i) ==
  /\ alive
  /\ t > term \/ (t = term /\ role # "leader" /\ t > 0)
  /\ i \in commit + 1..Len(log) + 1
  /\ i <= MaxIndex
  /\ \A j \in i..Len(log) : log[j].term < t
  /\ term' = t
  /\ role' = "follower"
  /\ log' = Append(SubSeq(log, 1, i - 1), [term |-> t, who |-> Raft])
  /\ stable' = UnstableFrom(i)
  /\ msgs' = msgs \cup {[type |-> "appResp", term |-> t, index |-> i, logTerm |-> t]}
  /\ UNCHANGED <<commit, prevHs, flushVars, writeVars, alive>>

\* A majority has the entries up to c, or the leader says so.
AdvanceCommit(c) ==
  /\ alive
  /\ c \in commit + 1..Len(log)
  /\ commit' = c
  /\ UNCHANGED <<role, term, log, stable, prevHs, msgs, flushVars, writeVars, alive>>

-----------------------------------------------------------------------------
(* Writers *)

\* ReplicatedLog::Write: submit the task, then wait on the channel.
SubmitWrite(w) ==
  /\ alive /\ pc[w] = "idle"
  /\ pc' = [pc EXCEPT ![w] = "queued"]
  /\ UNCHANGED <<nodeVars, flushVars, listeners, index, answers, alive>>

\* Mutant of RegisteredIndex: the index before the proposal.
RegisteredIndexBefore == Len(log)

\* node->LastIndex() after the proposal.
RegisteredIndex == Len(log) + 1

\* WalCommitObserver::Register: a range that is there already stays with the
\* older writer, and the new channel is dropped with a log message.
Register(i, w) ==
  IF i \in DOMAIN listeners THEN listeners
  ELSE [j \in DOMAIN listeners \cup {i} |-> IF j = i THEN w ELSE listeners[j]]

\* The task of AsyncWrite on the FSM thread, on a leader: propose, register.
ProposeWrite(w) ==
  /\ alive /\ pc[w] = "queued" /\ role = "leader"
  /\ Len(log) < MaxIndex
  /\ log' = Append(log, [term |-> term, who |-> w])
  /\ index' = [index EXCEPT ![w] = RegisteredIndex]
  /\ listeners' = Register(RegisteredIndex, w)
  /\ pc' = [pc EXCEPT ![w] = "waiting"]
  /\ UNCHANGED <<role, term, commit, stable, prevHs, msgs, flushVars, answers, alive>>

\* The task on a node that is not the leader, or a proposal raft refuses.
RejectWrite(w) ==
  /\ alive /\ pc[w] = "queued"
  /\ answers' = [answers EXCEPT ![w] = @ + 1]
  /\ pc' = [pc EXCEPT ![w] = "failed"]
  /\ UNCHANGED <<nodeVars, flushVars, listeners, index, alive>>

-----------------------------------------------------------------------------
(* The flusher *)

\* flushReady, step by step: each step's successor.  Mutants first.
FlushOrderNotifyFirst ==
  [send |-> "notify", notify |-> "write", write |-> "advance", advance |-> "respond", respond |-> "idle"]

FlushOrderAdvanceFirst ==
  [send |-> "advance", advance |-> "write", write |-> "notify", notify |-> "respond", respond |-> "idle"]

FlushOrderRespondFirst ==
  [send |-> "respond", respond |-> "write", write |-> "notify", notify |-> "advance", advance |-> "idle"]

FlushOrderNoAdvance ==
  [send |-> "write", write |-> "notify", notify |-> "respond", respond |-> "idle", advance |-> "respond"]

FlushOrder ==
  [send |-> "write", write |-> "notify", notify |-> "advance", advance |-> "respond", respond |-> "idle"]

\* The flusher thread submits GetReady and waits for the barrier.
RequestReady ==
  /\ alive /\ fpc = "idle"
  /\ fpc' = "waiting"
  /\ UNCHANGED <<nodeVars, rd, wal, memLog, sent, writeVars, alive>>

\* What has to be persisted or sent (external).
HasReady ==
  \/ stable < Len(log)
  \/ prevHs # [term |-> term, commit |-> commit]
  \/ msgs # {}

\* The FSM thread runs the task: a Ready takes what changed since the last one.
\* Whether an unchanged commit is in a changed hard state is up to yaraft.
TakeReady ==
  /\ alive /\ fpc = "waiting" /\ HasReady
  /\ \E withCommit \in BOOLEAN :
       /\ commit # prevHs.commit => withCommit
       /\ withCommit => prevHs # [term |-> term, commit |-> commit]
       /\ rd' = [leader |-> role = "leader",
                 first |-> stable + 1,
                 entries |-> SubSeq(log, stable + 1, Len(log)),
                 hasHs |-> prevHs # [term |-> term, commit |-> commit],
                 hasCommit |-> withCommit,
                 term |-> term, commit |-> commit, msgs |-> msgs]
  /\ fpc' = "send"
  /\ stable' = Len(log)
  /\ prevHs' = [term |-> term, commit |-> commit]
  /\ msgs' = {}
  /\ UNCHANGED <<role, term, log, commit, wal, memLog, sent, writeVars, alive>>

\* Nothing changed: GetReady returns null and the round is over.
NoReadyYet ==
  /\ alive /\ fpc = "waiting" /\ ~HasReady
  /\ fpc' = "idle"
  /\ UNCHANGED <<nodeVars, rd, wal, memLog, sent, writeVars, alive>>

\* A leader replicates in parallel with its own write.
PassAsLeader ==
  /\ alive /\ fpc = "send"
  /\ sent' = IF rd.leader THEN sent \cup rd.msgs ELSE sent
  /\ rd' = IF rd.leader THEN [rd EXCEPT !.msgs = {}] ELSE rd
  /\ fpc' = FlushOrder["send"]
  /\ UNCHANGED <<nodeVars, wal, memLog, writeVars, alive>>

\* WriteAheadLog::Write; LogManager drops a hard state without entries.
WriteWal ==
  /\ alive /\ fpc = "write"
  /\ wal' = IF rd.entries = << >> THEN wal
            ELSE [log |-> SubSeq(wal.log, 1, rd.first - 1) \o rd.entries,
                  term |-> IF rd.hasHs THEN rd.term ELSE wal.term]
  /\ fpc' = FlushOrder["write"]
  /\ UNCHANGED <<nodeVars, rd, memLog, sent, writeVars, alive>>

\* The write fails, and FATAL_NOT_OK ends the process; without entries there is
\* nothing LogManager could fail to write.
WalFails ==
  /\ alive /\ fpc = "write" /\ rd.entries # << >>
  /\ alive' = FALSE
  /\ UNCHANGED <<nodeVars, flushVars, writeVars>>

\* Mutant of AfterNotify: the listeners stay registered.
AfterNotifyKept == listeners

\* Every listener the loop visits is erased, reached or not.
AfterNotify == [i \in {} |-> Raft]

\* The writers whose channels the loop sends OK to.
Notified(c) == {listeners[i] : i \in {j \in DOMAIN listeners : j <= c}}

\* WalCommitObserver::Notify(c).  The loop increments an iterator it has just
\* erased: the walk either continues in order or the process dies on the way.
NotifyWalk(c) ==
  /\ pc' = [w \in Writers |-> IF w \in Notified(c) THEN "ok" ELSE pc[w]]
  /\ answers' = [w \in Writers |-> answers[w] + IF w \in Notified(c) THEN 1 ELSE 0]
  /\ listeners' = AfterNotify

NotifyCommit ==
  /\ alive /\ fpc = "notify"
  /\ IF rd.hasCommit THEN NotifyWalk(rd.commit) ELSE UNCHANGED <<pc, answers, listeners>>
  /\ fpc' = FlushOrder["notify"]
  /\ UNCHANGED <<nodeVars, rd, wal, memLog, sent, index, alive>>

NotifyCrash ==
  /\ alive /\ fpc = "notify" /\ rd.hasCommit
  /\ DOMAIN listeners # {}
  /\ alive' = FALSE
  /\ UNCHANGED <<nodeVars, flushVars, writeVars>>

\* Ready::Advance: the entries become stable in the MemoryStorage (external).
AdvanceMemStore ==
  /\ alive /\ fpc = "advance"
  /\ memLog' = IF rd.entries = << >> THEN memLog
               ELSE SubSeq(memLog, 1, rd.first - 1) \o rd.entries
  /\ fpc' = FlushOrder["advance"]
  /\ UNCHANGED <<nodeVars, rd, wal, sent, writeVars, alive>>

\* A follower or candidate sends last; the Ready is gone when flushReady returns.
PassAsFollower ==
  /\ alive /\ fpc = "respond"
  /\ sent' = IF rd.leader THEN sent ELSE sent \cup rd.msgs
  /\ rd' = NoReady
  /\ fpc' = FlushOrder["respond"]
  /\ UNCHANGED <<nodeVars, wal, memLog, writeVars, alive>>

\* A process that died stays dead.
Dead == ~alive /\ UNCHANGED vars

-----------------------------------------------------------------------------
Init ==
  /\ role = "follower" /\ term = 0 /\ log = << >> /\ commit = 0
  /\ stable = 0 /\ prevHs = [term |-> 0, commit |-> 0] /\ msgs = {}
  /\ fpc = "idle" /\ rd = NoReady
  /\ wal = [log |-> << >>, term |-> 0]
  /\ memLog = << >> /\ sent = {}
  /\ listeners = [i \in {} |-> Raft]
  /\ pc = [w \in Writers |-> "idle"]
  /\ index = [w \in Writers |-> 0]
  /\ answers = [w \in Writers |-> 0]
  /\ alive = TRUE

RaftStep ==
  \/ Campaign
  \/ WinElection
  \/ \E t \in 1..MaxTerm : GrantVote(t) \/ \E i \in 1..MaxIndex : FollowerAppend(t, i)
  \/ \E c \in 1..MaxIndex : AdvanceCommit(c)

RunWrite(w) == ProposeWrite(w) \/ RejectWrite(w)

RunGetReady == TakeReady \/ NoReadyYet

FlushStep ==
  \/ PassAsLeader
  \/ WriteWal \/ WalFails
  \/ NotifyCommit \/ NotifyCrash
  \/ AdvanceMemStore
  \/ PassAsFollower

Next ==
  \/ RaftStep
  \/ \E w \in Writers : SubmitWrite(w) \/ RunWrite(w)
  \/ RequestReady
  \/ RunGetReady
  \/ FlushStep
  \/ Dead

\* The FSM thread and the flusher thread loop for ever; both run what they
\* are given.
Fairness ==
  /\ WF_vars(\E w \in Writers : RunWrite(w))
  /\ WF_vars(RunGetReady)
  /\ WF_vars(RequestReady \/ FlushStep)

Spec == Init /\ [][Next]_vars /\ Fairness

-----------------------------------------------------------------------------
(* Properties *)

NodeTypeOK ==
  /\ role \in {"follower", "candidate", "leader"}
  /\ term \in Nat /\ log \in Seq(Entries)
  /\ commit \in 0..Len(log) /\ stable \in 0..Len(log)
  /\ prevHs \in HardStates
  /\ msgs \subseteq Messages

FlushTypeOK ==
  /\ fpc \in {"idle", "waiting", "send", "write", "notify", "advance", "respond"}
  /\ rd \in [leader : BOOLEAN, first : Nat \ {0}, entries : Seq(Entries), hasHs : BOOLEAN,
             hasCommit : BOOLEAN, term : Nat, commit : Nat, msgs : SUBSET Messages]
  /\ wal \in [log : Seq(Entries), term : Nat]
  /\ memLog \in Seq(Entries)
  /\ sent \subseteq Messages

WriteTypeOK ==
  /\ listeners \in [DOMAIN listeners -> Writers]
  /\ pc \in [Writers -> {"idle", "queued", "waiting", "ok", "failed"}]
  /\ index \in [Writers -> Nat]
  /\ answers \in [Writers -> Nat]
  /\ alive \in BOOLEAN

\* Types; what is committed, and what GetReady has handed out, are entries the
\* node still has, whatever a new leader replaces.
TypeOK == NodeTypeOK /\ FlushTypeOK /\ WriteTypeOK

\* A Write returns OK only for an index that is committed, and then the log up
\* to that index is in this node's write-ahead log, entry by entry, whatever
\* the FSM thread does while flushReady runs and whoever leads afterwards.
AckedPrefixPersisted ==
  \A w \in Writers : pc[w] = "ok" =>
    /\ index[w] <= commit
    /\ index[w] <= Len(wal.log)
    /\ \A i \in 1..index[w] : wal.log[i] = log[i]

\* The channel of a Write gets at most one value: set_value on a promise that
\* has one throws, and the channel lives on the stack of a Write that returned.
AtMostOneAnswer == \A w \in Writers : answers[w] <= 1

\* The MemoryStorage never runs ahead of the write-ahead log: when flushReady
\* calls Advance the "states have already been persisted".
MemStoreIsPersisted ==
  fpc \notin {"notify", "advance"} => memLog = wal.log

\* A message that acknowledges an entry is given to the cluster only when the
\* entry is in the write-ahead log, or has been overwritten there by a later
\* term; also in the Ready in which the node became leader and sends first.
ResponsesPersisted ==
  \A m \in sent : m.type = "appResp" =>
    \E i \in 1..Len(wal.log) :
      \/ i = m.index /\ wal.log[i].term = m.logTerm
      \/ i <= m.index /\ wal.log[i].term > m.logTerm

\* "Every single write will be replicated to a majority of nodes if successes"
\* (replicated_log.h:62): a Write that returns OK has its own entry committed.
AckedIsOwnEntry ==
  \A w \in Writers : pc[w] = "ok" =>
    index[w] <= commit /\ log[index[w]].who = w

\* It has, as long as the first leader is not replaced: AsyncWrite registers the
\* index its own proposal got, whatever other writers and the flusher do between.
FirstLeaderAcksOwn == term <= 1 => AckedIsOwnEntry

\* The write path as its callers see it.
CallOf(p) == IF p \in {"queued", "waiting"} THEN "pending" ELSE p

Abstract == INSTANCE ReplicatedLogSpec WITH
  Callers <- Writers, Items <- Entries,
  call <- [w \in Writers |-> CallOf(pc[w])],
  acks <- [w \in Writers |-> IF pc[w] = "ok" THEN index[w] ELSE 0],
  durable <- wal.log, mem <- memLog, up <- alive

\* Writers, FSM thread and flusher together are a replicated log: no step of
\* flushReady rewrites the log on disk up to an index that was acknowledged,
\* acknowledges what is not there, or puts into memory what is not on disk.
ImplementsLog == Abstract!Spec

\* What the node's log holds in the end reaches the write-ahead log and the
\* MemoryStorage: GetReady hands out every entry, replaced ones again.
EventuallyPersisted == <>[](alive => wal.log = log /\ memLog = log)

\* wal_commit_observer.h: a listener whose range the committed index covers
\* "will be notified".
CoveredListenerNotified ==
  \A w \in Writers :
    (pc[w] = "waiting" /\ index[w] <= commit) ~> (pc[w] = "ok" \/ ~alive)
=============================================================================
