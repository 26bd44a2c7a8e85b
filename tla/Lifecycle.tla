------------------------------ MODULE Lifecycle ------------------------------
(***************************************************************************)
(* How replicated logs come and go while their background threads run.     *)
(*                                                                         *)
(* A log has a TaskQueue, a RaftTimer and a ReadyFlusher, each with one    *)
(* BackgroundWorker thread; ReplicatedLogOptions may name ones that exist  *)
(* and that several logs share.  ReplicatedLogImpl::New builds the parts   *)
(* one after the other, with the threads of the earlier ones running; the  *)
(* destructor destroys them in the reverse order of their declaration.     *)
(*                                                                         *)
(* What the threads do to the node and to the write-ahead log is not in    *)
(* this module, only which parts they touch and on whom they wait.         *)
(***************************************************************************)
EXTENDS Integers, Sequences, FiniteSets

CONSTANTS
  Logs,          \* the replicated logs, each made and deleted by its own thread
  Common         \* names the objects the application made for all logs

ASSUME LifecycleAssumption == Common \notin Logs

Kinds == {"queue", "timer", "flusher"}

VARIABLES
  shared,      \* the kinds of object the options name
  app,         \* the step of New or of the destructor each log is at
  parts,       \* RawNode, RaftTaskExecutor, WalCommitObserver and Cluster of each log
  worker,      \* the BackgroundWorkers: [object, thread, stopped]
  tasks,       \* the tasks of each queue
  registered,  \* executors_ of each timer, logs_ of each flusher
  todo,        \* what the round of a timer or flusher thread has still to visit
  at           \* what that thread does for the first log of todo

vars == <<shared, app, parts, worker, tasks, registered, todo, at>>

Instances == Logs \cup {Common}

\* The queue, the timer or the flusher of l.
Of(k, l) == IF k \in shared THEN Common ELSE l

-----------------------------------------------------------------------------
(* BackgroundWorker *)

NoWorker == [object |-> FALSE, thread |-> FALSE, stopped |-> TRUE]

\* The constructor of the object, which calls StartLoop.
Started == [object |-> TRUE, thread |-> TRUE, stopped |-> FALSE]

Running(k, i) == worker[k][i].thread

\* The thread looks at stopped_ between two rounds.
Leave(k, i) ==
  /\ Running(k, i) /\ worker[k][i].stopped
  /\ k # "queue" => todo[k][i] = << >>
  /\ worker' = [worker EXCEPT ![k][i].thread = FALSE]
  /\ UNCHANGED <<shared, app, parts, tasks, registered, todo, at>>

\* Mutant of Looping: a new round begins whatever stopped_ says.
LoopingRegardless(k, i) == Running(k, i)

Looping(k, i) == Running(k, i) /\ ~worker[k][i].stopped

-----------------------------------------------------------------------------
(* TaskQueue: the thread runs a task and signals who waits for it *)

RunTask(i, k, l) ==
  /\ Looping("queue", i)
  /\ <<k, l>> \in tasks[i]
  /\ tasks' = [tasks EXCEPT ![i] = @ \ {<<k, l>>}]
  /\ at' = [at EXCEPT ![k][Of(k, l)] = "signalled"]
  /\ UNCHANGED <<shared, app, parts, worker, registered, todo>>

-----------------------------------------------------------------------------
(* RaftTimer and ReadyFlusher: rounds over the registered logs *)

\* A timer holds its mutex from here to the end of the round; a flusher copies
\* the list and lets go.
BeginRound(k, i) ==
  /\ k # "queue" /\ Looping(k, i)
  /\ todo[k][i] = << >> /\ registered[k][i] # << >>
  /\ todo' = [todo EXCEPT ![k][i] = registered[k][i]]
  /\ at' = [at EXCEPT ![k][i] = "submit"]
  /\ UNCHANGED <<shared, app, parts, worker, tasks, registered>>

\* The task for one log goes to its executor's queue.
SubmitTask(k, i) ==
  /\ Running(k, i) /\ todo[k][i] # << >> /\ at[k][i] = "submit"
  /\ LET l == Head(todo[k][i]) IN
       tasks' = [tasks EXCEPT ![Of("queue", l)] = @ \cup {<<k, l>>}]
  /\ at' = [at EXCEPT ![k][i] = "wait"]
  /\ UNCHANGED <<shared, app, parts, worker, registered, todo>>

\* Past the barrier: a flusher that got a Ready flushes it (the future std::async
\* returns is dropped, so its destructor waits).
FlushReady(i) ==
  /\ Running("flusher", i) /\ at["flusher"][i] = "signalled"
  /\ at' = [at EXCEPT !["flusher"][i] = "flush"]
  /\ UNCHANGED <<shared, app, parts, worker, tasks, registered, todo>>

\* Mutant of NextLog: the timer's loop stays at its executor.
NextLogStays(k, i) ==
  /\ Running(k, i) /\ at[k][i] \in {"signalled", "flush"}
  /\ todo' = IF k = "timer" THEN todo ELSE [todo EXCEPT ![k][i] = Tail(@)]
  /\ at' = [at EXCEPT ![k][i] = "submit"]
  /\ UNCHANGED <<shared, app, parts, worker, tasks, registered>>

NextLog(k, i) ==
  /\ Running(k, i) /\ at[k][i] \in {"signalled", "flush"}
  /\ todo' = [todo EXCEPT ![k][i] = Tail(@)]
  /\ at' = [at EXCEPT ![k][i] = "submit"]
  /\ UNCHANGED <<shared, app, parts, worker, tasks, registered>>

-----------------------------------------------------------------------------
(* ReplicatedLogImpl::New and its destructor *)

\* The steps of New.  Mutant: the flusher is given the log before the observer
\* and the cluster exist.
BuildOrderEarlyFlusher ==
  <<"node", "executor", "timer", "regTimer", "flusher", "regFlusher", "observer", "cluster">>

BuildOrder ==
  <<"node", "executor", "timer", "regTimer", "observer", "cluster", "flusher", "regFlusher">>

\* The members of ReplicatedLogImpl, the last one first.
DestroyOrder == <<"flusher", "timer", "cluster", "observer", "executor", "node">>

\* A log that is built or destroyed is at a step of the order.
Building(l) == app[l].doing = "build"
Destroying(l) == app[l].doing = "destroy"
Step(l) == IF Building(l) THEN BuildOrder[app[l].step] ELSE DestroyOrder[app[l].step]

Advanced(l) ==
  LET a == app[l]
      order == IF Building(l) THEN BuildOrder ELSE DestroyOrder
  IN IF a.step < Len(order) THEN [a EXCEPT !.step = @ + 1]
     ELSE [doing |-> IF Building(l) THEN "live" ELSE "gone", step |-> 0]

Proceed(l) == app' = [app EXCEPT ![l] = Advanced(l)]

\* The object of kind k of l: the one the options name, or a new one.
Obtained(k, l) ==
  IF k \in shared THEN worker ELSE [worker EXCEPT ![k][l] = Started]

\* The constructors, up to the parts' own.
Build(l) ==
  /\ Building(l) /\ Step(l) \notin {"regTimer", "regFlusher"}
  /\ worker' = CASE Step(l) = "executor" -> Obtained("queue", l)
                 [] Step(l) \in {"timer", "flusher"} -> Obtained(Step(l), l)
                 [] OTHER -> worker
  /\ parts' = [parts EXCEPT ![l] = @ \cup ({Step(l)} \ Kinds)]
  /\ Proceed(l)
  /\ UNCHANGED <<shared, tasks, registered, todo, at>>

\* Mutant of Register: there is room for one log.
RegisterReplaces(k, l) ==
  /\ Building(l)
  /\ \/ k = "timer" /\ Step(l) = "regTimer" /\ todo[k][Of(k, l)] = << >>
     \/ k = "flusher" /\ Step(l) = "regFlusher"
  /\ registered' = [registered EXCEPT ![k][Of(k, l)] = <<l>>]
  /\ Proceed(l)
  /\ UNCHANGED <<shared, parts, worker, tasks, todo, at>>

\* Register.  The timer's waits for the mutex.
Register(k, l) ==
  /\ Building(l)
  /\ \/ k = "timer" /\ Step(l) = "regTimer" /\ todo[k][Of(k, l)] = << >>
     \/ k = "flusher" /\ Step(l) = "regFlusher"
  /\ registered' = [registered EXCEPT ![k][Of(k, l)] = Append(@, l)]
  /\ Proceed(l)
  /\ UNCHANGED <<shared, parts, worker, tasks, todo, at>>

Create(l) ==
  /\ app[l].doing = "none"
  /\ app' = [app EXCEPT ![l] = [doing |-> "build", step |-> 1]]
  /\ UNCHANGED <<shared, parts, worker, tasks, registered, todo, at>>

\* delete replicatedLog.  Each log has put the objects the options name into smart
\* pointers of its own, and so its destructor deletes them like the others.
Destroy(l) ==
  /\ app[l].doing = "live"
  /\ app' = [app EXCEPT ![l] = [doing |-> "destroy", step |-> 1]]
  /\ UNCHANGED <<shared, parts, worker, tasks, registered, todo, at>>

\* The kind of worker the destructor of this member stops, if any.
Stops(step) == CASE step = "executor" -> "queue" [] OTHER -> step

\* BackgroundWorker::Stop up to the join.
StopWorker(l) ==
  /\ Destroying(l) /\ Stops(Step(l)) \in Kinds
  /\ LET k == Stops(Step(l)) IN
       /\ ~worker[k][Of(k, l)].stopped
       /\ worker' = [worker EXCEPT ![k][Of(k, l)].stopped = TRUE]
  /\ UNCHANGED <<shared, app, parts, tasks, registered, todo, at>>

\* Mutant of DestroyPart: the thread is not joined.
DestroyPartNoJoin(l) ==
  /\ Destroying(l)
  /\ LET k == Stops(Step(l)) IN
       IF k \in Kinds
         THEN /\ worker[k][Of(k, l)].stopped
              /\ worker' = [worker EXCEPT ![k][Of(k, l)].object = FALSE]
         ELSE UNCHANGED worker
  /\ parts' = [parts EXCEPT ![l] = @ \ {Step(l)}]
  /\ Proceed(l)
  /\ UNCHANGED <<shared, tasks, registered, todo, at>>

\* The thread is joined; the object, and the member, are gone.
DestroyPart(l) ==
  /\ Destroying(l)
  /\ LET k == Stops(Step(l)) IN
       IF k \in Kinds
         THEN /\ worker[k][Of(k, l)].stopped /\ ~Running(k, Of(k, l))
              /\ worker' = [worker EXCEPT ![k][Of(k, l)] = NoWorker]
         ELSE UNCHANGED worker
  /\ parts' = [parts EXCEPT ![l] = @ \ {Step(l)}]
  /\ Proceed(l)
  /\ UNCHANGED <<shared, tasks, registered, todo, at>>

-----------------------------------------------------------------------------
Init ==
  /\ shared \in SUBSET Kinds
  /\ app = [l \in Logs |-> [doing |-> "none", step |-> 0]]
  /\ parts = [l \in Logs |-> {}]
  /\ worker = [k \in Kinds |-> [i \in Instances |->
                 IF i = Common /\ k \in shared THEN Started ELSE NoWorker]]
  /\ tasks = [i \in Instances |-> {}]
  /\ registered = [k \in Kinds |-> [i \in Instances |-> << >>]]
  /\ todo = [k \in Kinds |-> [i \in Instances |-> << >>]]
  /\ at = [k \in Kinds |-> [i \in Instances |-> "submit"]]

ThreadStep(k, i) ==
  Leave(k, i) \/ BeginRound(k, i) \/ SubmitTask(k, i) \/ NextLog(k, i)

AppStep(l) ==
  Build(l) \/ (\E k \in Kinds : Register(k, l)) \/ StopWorker(l) \/ DestroyPart(l)

\* Whoever shares objects keeps its logs: no log whose options name one of them
\* has been told to delete itself.
Kept == shared = {} \/ \A l \in Logs : app[l].doing \notin {"destroy", "gone"}

\* All logs are deleted, and so are their threads; or a log has deleted what others
\* use, and the process may do anything, such as nothing.
Finished == ((\A l \in Logs : app[l].doing = "gone") \/ ~Kept) /\ UNCHANGED vars

Next ==
  \/ \E l \in Logs : Create(l) \/ Destroy(l) \/ AppStep(l)
  \/ \E k \in Kinds, i \in Instances :
       ThreadStep(k, i) \/ FlushReady(i) \/ \E l \in Logs : RunTask(i, k, l)
  \/ Finished

\* The threads run.  A caller that has begun New or the destructor goes on, and
\* gets the timer's mutex: the thread sleeps 100ms between rounds without it.
Fairness ==
  /\ \A l \in Logs : WF_vars(AppStep(l)) /\ SF_vars(Register("timer", l))
  /\ \A k \in Kinds, i \in Instances : WF_vars(ThreadStep(k, i))
  /\ \A i \in Instances, k \in Kinds, l \in Logs : WF_vars(RunTask(i, k, l))

Spec == Init /\ [][Next]_vars /\ Fairness

-----------------------------------------------------------------------------
(* Properties *)

\* The types; a thread runs only inside an object that exists, so that no
\* std::thread is destroyed while it is joinable.
TypeOK ==
  /\ shared \subseteq Kinds
  /\ \A l \in Logs : app[l].doing \in {"none", "build", "live", "destroy", "gone"}
  /\ parts \in [Logs -> SUBSET {"node", "executor", "observer", "cluster"}]
  /\ worker \in [Kinds -> [Instances -> [object : BOOLEAN, thread : BOOLEAN, stopped : BOOLEAN]]]
  /\ \A k \in Kinds, i \in Instances : worker[k][i].thread => worker[k][i].object
  /\ at \in [Kinds -> [Instances -> {"submit", "wait", "signalled", "flush"}]]

\* What the thread of a timer or a flusher refers to: the executor and its queue,
\* in flushReady all of the log.
Touched(k, i) ==
  IF todo[k][i] = << >> THEN {}
  ELSE IF at[k][i] = "flush" THEN {"node", "executor", "observer", "cluster"}
  ELSE {"executor"}

\* Whoever uses an object or a part of a log finds it there: the background threads
\* those of the log they are at, the FSM thread the node of a task, New the timer
\* and the flusher it registers with, the destructor the object it deletes.
UsesLive ==
  /\ \A k \in {"timer", "flusher"}, i \in Instances :
       Touched(k, i) # {} =>
         LET l == Head(todo[k][i]) IN
           Touched(k, i) \subseteq parts[l] /\ worker["queue"][Of("queue", l)].object
  /\ \A i \in Instances : Running("queue", i) =>
       \A t \in tasks[i] : "node" \in parts[t[2]]
  /\ \A l \in Logs :
       /\ Building(l) /\ Step(l) = "regTimer" => worker["timer"][Of("timer", l)].object
       /\ Building(l) /\ Step(l) = "regFlusher" => worker["flusher"][Of("flusher", l)].object
       /\ Destroying(l) /\ Stops(Step(l)) \in Kinds =>
            LET k == Stops(Step(l)) IN worker[k][Of(k, l)].object

\* New registers a log when its parts are there, and the destructor stops each
\* thread before it destroys what that thread uses; so nothing is used before it is
\* built or after it is destroyed, also while logs that share objects are built.
TouchesOnlyLive == Kept => UsesLive

\* replicated_log.h:44-45: "there may have multiple instances sharing the same
\* queue."  Any of them can be deleted, and the others go on.
SharingIsSafe == shared \subseteq {"queue"} => UsesLive

\* New returns: the mutex the timer thread holds while it waits for the FSM
\* thread is free again in the end, however many logs share the timer.
NewReturns == \A l \in Logs : Building(l) ~> app[l].doing = "live" \/ ~Kept

\* The destructor returns: whatever a thread waits for when it is told to stop,
\* the thread that has to signal it still runs.
DestructorReturns == \A l \in Logs : Destroying(l) ~> app[l].doing = "gone" \/ ~Kept

\* The timer and the flusher come round to every log again and again, also when
\* logs share a queue, a timer or a flusher.
EveryLogVisited ==
  \A l \in Logs, k \in {"timer", "flusher"} :
    app[l].doing = "live" ~>
      \/ app[l].doing # "live" \/ ~Kept
      \/ todo[k][Of(k, l)] # << >> /\ Head(todo[k][Of(k, l)]) = l /\ at[k][Of(k, l)] = "signalled"

=============================================================================
