# A verification of consensus-yaraft

consensus-yaraft turns the raft state machine of the yaraft library into a
replicated log: threads, a write-ahead log, messages and a blocking `Write`.
memkv is a small key-value server on top. This directory models that code in
TLA+, checks the models with TLC and proves part of what they say with TLAPS.
`PROJECT.json` maps every definition to the lines it stands for.

## The system

| Part | State | Operations | What is hard | Module |
|---|---|---|---|---|
| Write-ahead log (`src/wal/`) | segment files, `files_`, `current_`, `lastIndex_` | `Write`, `doWrite`, `Append`, `Sync`, `Close`, `Recover` | crash between two system calls, segment rolls, byte arithmetic, overwritten entries | `Wal`, `SegmentFile` |
| `PosixWritableFile`, `ReadFully` (`base/env_*.cc`) | file, `filesize_`, `pending_sync_` | `Append`, `Read`, `Sync`, `Close` | partial system calls, what a power failure leaves | `SegmentFile`, `Wal` |
| Coding (`base/coding.*`) | none | numbers and strings as bytes | lengths at powers of 128, cut input | `Coding` |
| `ReplicatedLog` (`replicated_log*.{cc,h}`) | the node's executor, observer, storage | `New`, `Write`, `AsyncWrite`, destructor | proposal, registration and answer happen on three threads | `ReplicatedLogSpec`, `WritePath`, `Lifecycle` |
| `TaskQueue`, `RaftTaskExecutor` | pending tasks | `Submit`, `GetReady` | all access to the `RawNode` | `WritePath`, `RaftRpc`, `Lifecycle` |
| `ReadyFlusher` | the Ready in flight, its logs | `Register`, `flushRound`, `flushReady` | works on an old Ready while the node moves on | `WritePath`, `Lifecycle` |
| `WalCommitObserver` | index -> channel | `Register`, `Notify` | lost, double and false wake-ups | `WritePath` |
| `RaftTimer`, `BackgroundWorker` | threads, mutex | `Start`, `Stop`, `Register` | shutdown order, mutex held over a wait | `Lifecycle` |
| rpc (`Cluster`, `Peer`, `AsyncRaftClient`), `RaftService` | calls | `Pass`, `Step`, `Status` | lost and late messages; workers blocked | `RaftRpc` |
| Generated messages (`pb/raft_server.pb.*`) | fields, has bits, an owned message | accessors, `Clear`, `MergeFrom`, parse, serialize, ... | ownership, stale contents, other versions | `RaftServerPb`, `PbObjects` |
| memkv store | tree of nodes | `Write`, `Delete`, `Get` | nested paths, empty segments | `MemKv` |
| memkv `DB` and service | log and store | `Write`, `Delete`, `Get`, `Bootstrap` | apply order, restart, stale reads | `MemKv` |

A write goes: a service thread calls `Write`, which submits a task; the FSM
thread proposes the entry and registers the index with the observer; the flusher
gets a Ready through the queue, passes messages (a leader), writes the log,
notifies the observer of the committed index, advances the storage, and passes
messages (a follower); the answer wakes the service thread, which, in memkv,
then changes the store.

What must hold: acknowledged writes are committed and in the log; nothing is
promised to another node or kept in memory as stable that is not in the log;
every `Write` is answered once; recovery restores what was acknowledged; a
message is stepped once; no thread uses what is destroyed; the store is what the
applied requests say, and who was told OK can read it. The hazards are listed in `PROJECT.json`,
each at its line.

## Modules

`MC*` modules add values for constants and symmetry sets. `*Proofs`
hold the proofs, `FoldLemmas` what they share. Operators called `X...` next to a comment
"Mutant of X" are deliberately wrong versions of `X`, which no specification uses:
with one of them in the place of `X` a property fails.

### Wal

`disk` maps file names (id, start) to contents, kept as batches with their
declared length; bytes are sizes. `files`, `current` and `lastIndex` are the
fields of `LogManager`. A `Write` is several actions, since the process may die
between two of them: `Write` (arguments and early return), `NewSegment`,
`AppendBatch` (one round of the loop in `doWrite`, with `LogWriter::Append`, and
the finishing of a full segment). `Sync`, `Close`, `Crash`, `PowerLoss` and
`Recover` are the others. `Crash` also cuts a file inside its last batch.
`lastIndex_` after a batch without entries is `*std::prev(begin)`, undefined
behaviour: any of `GarbageIndexes`. `saved` is a history variable: the hard state that
`Write` was given last. `MemoryStorage` is external, and so is the power failure.

### SegmentFile and Coding

One segment, byte by byte. `AppendBatch` is `LogWriter::Append` with the buffer it
encodes; `WriteSome` is one `write(2)` of `PosixWritableFile::Append`, which takes
any part of what is left; `AppendReturns` ends it. The process may `Die` anywhere,
and one byte of the closed file may be damaged. `OpenSegment`, `ReadSome` (one
`pread(2)`), `ReadHeader`, `ReadBatch` and `ReadRecord` are the reader. `Coding` has
the functions of `coding.cc`; a byte has `2 * B` values and the widths are
parameters, so that TLC can go through all values of a small word. The code's
values are `B = 128`, words of 4 and 8 bytes, 5 and 10 groups. The checksum is
external and stands for one that any change of a byte changes. The `len` fields
lie outside it, and are not damaged.

`Wal` and `SegmentFile` describe the same segment. `Wal` takes it as readable when
each batch declares as many bytes as its records have; `VerdictIsRight` says of the
bytes that no other segment is accepted, and that a whole and undamaged one is refused
only inside a batch with a hard state.

### WritePath and ReplicatedLogSpec

One node. `role .. msgs` are what the code sees of the `RawNode` (external: raft
may elect, append, truncate uncommitted entries of an earlier term, and commit);
`fpc` and `rd` are the flusher, one action per step of `flushReady` in the order
`FlushOrder` gives; `wal`, `memLog` and `sent` are where it writes; `listeners`
is the observer's map; `pc`, `index` and `answers` follow each `Write`.

`WalCommitObserver::Notify` increments an iterator after erasing it. `NotifyCommit`
and `NotifyCrash` take both outcomes: the walk goes on as if the node were still
linked, or the process dies. The first is in order because the erased node is always
the leftmost of the tree. `WriteWal` uses what `Wal` shows of `Write`: a hard state given
alone is not stored. `WalFails` is the other outcome, `FATAL_NOT_OK`. The answers to
requests for votes are left out: no step here tells them apart.

Pending tasks are a set. The queue keeps order for one producer only, and every
submitter but `AsyncWrite` waits for its task before it submits another.

`ReplicatedLogSpec` is the log as callers see it: a `Write` is pending, then failed
or answered with OK for an index that is on disk; the log on disk may be rewritten
only beyond every acknowledged index; the memory follows the disk. `WritePath`
implements it (`ImplementsLog`, with `Abstract` as the refinement mapping). It does
not promise an answer, nor that the entry at the index is the caller's own: two
runs show that the code keeps neither promise.

### RaftServerPb, PbObjects

`RaftServerPb` has the generated operations of `StepRequest`, `StepResponse`,
`StatusRequest` and `StatusResponse` as functions on objects (`has`, `val`,
`unknown`) and on a heap of messages, because a `StepRequest` owns its message
through a pointer. The wire form is a sequence of fields with number, type, value
and length, which may be cut. `PbObjects` is a caller that applies them to two
objects in any order; the parser is one action per field. `last.want` keeps the
value that merging field by field gives, to compare with.

### RaftRpc

The server of one member. A call is on the wire, has arrived, blocks a worker,
returns, or is an answer on the wire; its caller waits, has an answer, or has given
up. `PassMail` is `PeerManager::Pass` with the client's request, `Dispatch` is
`CallMethod` and the handler up to its wait, `Execute` is one task of the executor,
`Return` the rest of the handler, `Answer` and `Fail` are `doneCallBack`. The task of a
`Step` signals its own handler only. At an error that `yaraftErrorCodeToRpcStatusCode` does
not know, `Abort` ends the process, with all calls it has. A `Write` of memkv uses the same
workers; it is refused by its task, or waits until `Notify`, at any later time, answers it
or drops it for good. Objects are those of `RaftServerPb`, so that what is sent is
serialized and parsed.

### Lifecycle

Several logs, each built by `New` in the steps of `BuildOrder` and destroyed in
those of `DestroyOrder`, the reverse of the members' declaration. Each has a queue,
a timer and a flusher of its own, or shares them with the others (`shared`, any
subset). `worker` is `BackgroundWorker`; `todo` and `at` say where a timer or a
flusher is in its round; a timer holds its mutex while `todo` is not empty. What
the threads do to node and log is left to `WritePath`.

Each log puts the raw pointers of its options into smart pointers of its own
(`replicated_log_impl.h:63-84`, `raft_task_executor.h:42`), so its destructor deletes a
shared object whoever else uses it. `Destroy` does that; what follows a use of such an
object is undefined, and the properties that are to hold are stated up to there (`Kept`: no
log with a shared object is deleted). `lifecycle_shared` states it without.

### MemKv

One memkv server. A path is the sequence of its segments, `""` the empty one;
`BadPath` is any path `validatePath` refuses. The tree is the set of its nodes
with their data; `applied` records the requests applied since the store was made.
`Receive`, `Log`/`Refuse`, `Acknowledge` and `Apply` are a `Write`
or `Delete` of `DB`; `AskLeader` and `Read` are `Get`, whose leader check and read
are separate steps in the code. `Restart` is `Bootstrap` with an empty store. Of the
replicated log the module has what `DB` sees: `ReplicatedLog::Write` refuses, returns OK
some time later, or never returns. Nothing is assumed of the entry behind an OK, which
need not be the caller's (`write_path_false_ack`). `before` is a history variable: the
updates that had been answered OK when a request came.

## Runs

All use small instances; each takes about two minutes or less. The passing ones have
between 66 thousand (`lifecycle`) and 3 million (`memkv`) distinct states. Deadlock is
checked everywhere but in `memkv`, which may run out of requests, and `raft_rpc`, where
Writes that are never answered may hold all workers: in `lifecycle` that is the deadlock of
a destructor with a thread.

| Run | Shows |
|---|---|
| `wal` | Segment ids stay 1..n and counts right through rolls, crashes and power failures; complete batches without a hard state are readable; after the death of the process recovery restores the acknowledged log or reports corruption; `Write` ends. |
| `wal_power_loss` | *Violated.* Nothing forces acknowledged entries to disk. |
| `wal_raft_state` | *Violated.* A hard state that `Write` accepted is not recovered: given without entries it is dropped (`log_manager.cc:116`). With that repaired, the property still fails: a batch with a hard state lacks its last byte (`log_writer.cc:35`) and makes its segment corrupt, although `log_writer_test.cc:106` says "data being written can be decoded correctly". |
| `segment_file` | No cut or damaged segment is accepted, and a whole one is refused only at a hard state; the entries stored are a prefix of those written; the size is right under short writes; reading ends; numbers survive encoding at every boundary. |
| `write_path` | Two writers, two terms, a write that may fail: acknowledged implies committed and logged; one answer; the memory storage and append responses never ahead of the log; under the first leader OK means one's own entry; `ReplicatedLogSpec` is implemented; the log on disk and in memory catch up with the node. |
| `write_path_lost_listener` | *Violated.* A `Write` is never answered although committed. |
| `write_path_false_ack` | *Violated.* After a change of leader OK is answered for another entry. |
| `raft_rpc` | A handler waits as long as its task or its channel is in use; messages are stepped at most once; an answer is the node's; a `Step` or `Status` that arrives is served unless Writes hold all workers for ever. |
| `pb_messages` | One owner per message; no stale field; parse, merge, copy, clear and swap give the field-wise merge; `ByteSize` is exact; unknown codes are refused. |
| `lifecycle` | What a thread, a task, `New` or a destructor uses is there; `New` and the destructor return; every log is visited again and again. |
| `lifecycle_shared` | *Violated.* With a queue shared by two logs, the destructor of one deletes it and the timer of the other goes on. |
| `memkv` | Overlapping requests, a restart, a change of leader: the tree is what a declarative reading of the applied requests says, and a `Get` sees every update that had been answered when it came. |

The violated properties state what a comment of the repository says; `findings`
quotes it.

The models also contain behaviour that no run states as a violation:

- A segment with a partial tail is rejected at every restart.
- `LogWriter::Append` compares a negative remainder as unsigned, so a segment
  beyond its size takes further batches.
- `empty_` is never true and `Recover` does not restore `lastIndex_`, so a
  segment's name does not give the index of its first entry.
- Bootstrap makes an empty store and nothing applies the log to it (`db.cc:137`), so
  a request that was committed when the process stopped is never applied;
  `memkv_store.h:23` says "after WAL committed, it finally applies".
- `DB` applies requests in the order of its threads. Two writes to one path can be
  applied in the other order than the log has them.
- `DB::Get` reads the store after its leader check, by when the node may have lost
  its leadership.
- `MemKvStore::Delete` refuses an existing node whose path ends in `/`, with the
  message for the root.
- `RaftServiceImpl::Status` never sets `raftcommit`.
- As many Writes as there are workers hold the server: a `Step` that would commit their
  entries waits for a worker. `memkv_server.cc:70` asks for one thread.
- A message with an unexpected error ends the process (`raft_service.cc:33`).

### Bounds

- `Wal`: segments of 40 bytes and entries of 5 and 30: one small entry fits, two
  or a large one overshoot, so rolls, full segments and batches with no entry all
  occur. Two indexes and two terms give overwriting; three writes give a write
  after a recovery after a write. `MaxSegments` is never reached: more segments give
  no further states. `PowerWrites` lets the machine stop at any time.
- `SegmentFile`: `B = 4`, words of 3 and 6 bytes: entries of 1 and 5 bytes have
  lengths of one and two groups. Two batches give a cut in the first and in the last,
  with and without a hard state. `CodingRoundTrips` takes all 512 values of the short
  word and the boundary values of the long one.
- `WritePath`: three indexes and two writers give a listener above, at and below a
  commit; two terms give truncation between a Ready and its `Advance`. A listener that
  meets another one at its index needs a third term: only the proofs cover it.
- `RaftRpc`: one `Step`, one `Status` and two `Write`s at a time, each any number of times, on
  two workers: the kinds compete for a worker, Writes can take all of them, and late
  answers meet the next call. A message is taken, refused with a code, or aborts.
- `PbObjects`: two objects of one class at a time; an int of 9 bits and a long of 16, so
  that a long can turn into a valid code, or a negative int, when it is cut. Two
  unknown fields at most. Streams hold one or two fields.
- `Lifecycle`: two logs, all eight choices of what they share.
- `MemKv`: three requests give write, delete and write on nested paths; the paths
  are the root, a node with and without a trailing `/`, and a child with an empty
  segment inside. Two requests are in flight at most. One
  restart and one change of leader; a second adds nothing new to a store that
  starts empty.

### Fairness

Weak, on what a thread does once it may: the loop of `doWrite`; the reader of a
segment; the FSM thread, the flusher and the timer, which loop for ever; a caller
inside `New` or a destructor; server workers and the executor. One assumption is
strong: a `Register` that waits for the timer's mutex gets it in the end, because the
thread lets go of it for 100 ms in every round. Raft steps, the network, the commit
observer of `RaftRpc`, crashes, restarts and new requests are never forced.

## Proofs

The theorems hold for every value of the constants that satisfies the named
assumptions of the modules; TLC evaluates those for the runs' constants. A theorem about
an invariant follows from three facts: the inductive invariant holds initially, every
action keeps it (one lemma or one step per action), and it implies the property.

`FoldLemmas` is what the other proofs know about `FoldLeft`, `FlattenSeq`, sums and
`Max`. Those operators are defined by recursive functions, and induction over a
predicate is not available to the provers. The module states induction with a set
(`SetInduction`, from the least-element theorem on the naturals), shows that the
recursive function inside a fold exists and is unique, and gives a fold as `FoldBy` of
a function: its value at the empty sequence, at `Append` and at a concatenation.

`WalProofs`, for every segment size, entry size and number of writes and failures.
- `WalTypes`: the types, with a segment's size and counters.
- `SegmentNamesNeverCollide`: a running manager has exactly the segments 1..n. A crash
  loses the count, so `SegmentInv` adds that ids on disk are unique and without a gap
  while it is down, and that an open writer's file has the next id.
- `MetadataCountsEntries`: `MetaInv` finds the segments by name and adds what the open
  writer has counted; a roll appends that count, recovery counts anew.
- `WrittenSegmentsReadable`: `BatchesFit` speaks of every batch in every file, also behind
  a torn tail, because a power failure leaves a prefix of them. It is where the size
  arithmetic of `Append` is used, as a sum over the entries taken.
- `RecoveryRestoresLog`, an action property. `RestoreInv` says that, unless the machine
  stopped, replaying all segments in order is replaying the part of the current `Write`
  that is done on top of the acknowledged log, and that the rest follows it. A replay
  is a fold, so appending a batch extends it (`FoldByConcat`), and a roll leaves it alone.

`SegmentFileProofs`, for any base and widths that satisfy `CodingAssumption` and
`GroupsAssumption` (a varint has room for a word), any batches, and however `write(2)`
splits the data.
- `CodecIsExact`: what `Encode` made, `Get` and `Decode` give back, and a varint that is cut is
  refused. A digit is a quotient and a remainder, and putting the first n digits in their
  places gives the number modulo the n-th power, by induction over n (`SetInduction`).
- `FileSizeExact`, from `SizeInv`: `filesize_` and what has been written of the current data
  add up to the file. It rests on `BatchIs`: the buffer that `Append` reserves from the sizes
  is long enough for what is encoded into it (`RecordsAre`), up to the byte that a hard state
  lacks, so a batch is a sequence of bytes.
- `LengthAssumption` is that `len` has room for the length of a batch, and that the
  serialized hard state, three small fields, is shorter than `B`; no batch the log makes
  comes near 4 GB.

`WritePathProofs`, for any number of writers, indexes and terms, with
`AuthorAssumption` and `BoundAssumption`.
- `TypeCorrect`, `AckedIsDurable`, `ChannelAnsweredOnce`, `MemStoreDurable`. The
  properties are about what has been written, while the node marks entries stable when
  it hands them to a Ready. The invariant `PathInv` therefore speaks of `PendingWal`,
  the log on disk once the current Ready is written: it is the node's log up to
  `stable`; a commit index in a Ready is at most `commit` and `stable`; a listener waits
  at its own index; the memory storage lacks at most the current Ready.
- `ResponsesDurable`. `AckInv` follows an acknowledgement through the node, the Ready and
  the cluster: it is covered by the node's log, by `PendingWal` and by the log on disk in
  turn. What makes a leader that sends before it writes safe is `LeaderAcksNothing`: a node
  wins an election only after the Ready with its request for votes, which took every
  older acknowledgement along.
- `FirstLeaderOwnsAcks`: until a second term, the entry of a proposal stays at its index
  (`OwnEntryStays`).
- `WritePathImplementsLog`, the refinement, from `PathInv`: `WriteWal` is `Persist`,
  `NotifyCommit` is `Acknowledge` of the writers it wakes, `AdvanceMemStore` is `Follow`,
  and what the callers cannot see is a stutter.

`RaftRpcProofs`, for any number of calls and workers.
- `HandlersOutliveTasks`, `MessagesSteppedOnce`. `RpcInv` adds where a call can be: it is
  in `arrived`, in the queue or proposed only in the matching states, once, and has
  been stepped only after that.
- `MessageArrives`: what the handler takes from the parsed request is the message that the
  client put into its own, for any message (`MessageAssumption`: there is an address for it).
- `AnswersMeanStepped`. `ReplyInv` says what the response of a `Step` is at each station: as
  constructed while its handler waits, and from the end of its task to the caller the
  node's code for the message sent. It uses that a code survives serializing and parsing
  (`WidthAssumption`: the smaller width divides the larger).
- `RpcTypes`: the queue is no longer than the pool of workers, by counting the handlers
  that have one (`WorkersSuffice`; calls are finitely many, `CallsAssumption`).

`PbObjectsProofs`, for any objects, numbers, streams and order of operations. The heap is
not assumed large: an allocation needs `HasRoom`. `PayloadAssumption` says that values of
a `Message` are closed under merging.
- `MessagesOwnedOnce`. `PbInv` adds that objects of the other classes own nothing, that a
  pointer is null or an address, and that an allocation still to come has room. Every
  operation on a request either grows it (`Grown`: it keeps its message or gets a new one) or
  exchanges what it owns (`Exchanged`).

`LifecycleProofs`, for any number of logs and any choice of what they share
(`LifecycleAssumption`: the shared objects are no log's own).
- `ThreadsTouchOnlyLive`. As long as no log with a shared object is deleted, `LifeInv` says
  which parts, objects and threads exist at each step of `New` and of the destructor
  (`Owns`: from the step that makes an object to the one that deletes it), that lists and
  rounds hold only logs far enough built, and that a task in a queue belongs to a thread
  that waits for it. A shared object is there from the start.
- `LifecycleTypes`, with `ThreadsOwned`: an object is destroyed only after its thread is
  joined.

`MemKvProofs`, for any requests, paths, restarts and changes of leader.
- `KvTypes`, from `KvInv`: every node has the nodes above it, and only updates reach the
  store.
- `StoreIsItsRequests`. `MatchInv` names, for each path, the requests applied that still
  count for it; applying one more adds itself, or removes those at or below its path.
- `GetsSeeAnswered`. `ReadInv` adds that an update that was answered is among those applied,
  and so is every one a `Get` in progress follows: what was applied stays, in its order,
  until a restart, and a restart answers nobody.

What `SelectSeq` leaves of a path is the assumption `NodeAssumption`, evaluated by TLC for
the paths of the runs.

Only model-checked: liveness (`WriteTerminates`, `ReaderEnds`, `EventuallyPersisted`,
`ServedUnlessHeld`, `NewReturns`, `DestructorReturns`, `EveryLogVisited`), because the provers
handle neither fairness nor ENABLED; what the reader makes of a segment (`VerdictIsRight`,
`ReadsBackWritten`); and what the generated operations leave in an object (`UnsetIsDefault`,
`ResultIsJoin`, `SizeIsExact`, `ParsedCodeIsValid`).

## Not modelled

- A cluster of several nodes. Its safety is that of the raft state machine in yaraft,
  which is not in this repository; what this code must do for it (persist before
  answering, step at most once, restore after a crash) is stated per node.
- yaraft, brpc, protobuf's library, asio and the queue library: external, modelled as
  far as the code here sees them.
- Of the generated code: descriptors, registration, reflection and cached sizes.
- Of the file environment: directory operations, and `PositionedAppend`, `Flush` and
  opening an existing file, which nothing calls.
- Status, errno, logging, random numbers; HTTP parsing; the empty `Delete` of the memkv
  service, which never answers.
- Memory that is lost without other effect: `doneCallBack` keeps the response of a
  failed call.
- What the standard library or yaraft decides: the launch policy of `std::async` in the
  flusher (taken as asynchronous), whether `MemoryStorage` locks while `Advance` changes it,
  and the moment between a `Signal` and the end of its `Barrier`.
- Damage of a `len` field: whether the next batch then seems intact depends on the real
  CRC-32.
