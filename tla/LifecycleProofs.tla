--------------------------- MODULE LifecycleProofs ---------------------------
(***************************************************************************)
(* That nothing of a log is used before it is built or after it is         *)
(* destroyed, and that no thread outlives its own object, for any number   *)
(* of logs that are made and deleted at the same time; logs that share an  *)
(* object are made at the same time, and kept.                             *)
(***************************************************************************)
EXTENDS Lifecycle, TLAPS

Rounds == {"timer", "flusher"}

\* The log is past step a of New and not past step b of its destructor.
InLife(l, a, b) ==
  \/ app[l].doing = "build" /\ app[l].step > a
  \/ app[l].doing = "live"
  \/ app[l].doing = "destroy" /\ app[l].step <= b

\* The log has been given to the timer, or to the flusher.
Registered(k, l) ==
  \/ app[l].doing = "build" /\ app[l].step > (IF k = "timer" THEN 4 ELSE 8)
  \/ app[l].doing \in {"live", "destroy", "gone"}

\* A log that round k of object i has to do with.
Visited(k, i, l) == l \in Logs /\ Of(k, l) = i /\ Registered(k, l)

AppStates ==
  [doing : {"build"}, step : 1..8] \cup [doing : {"destroy"}, step : 1..6]
    \cup [doing : {"none", "live", "gone"}, step : {0}]

LifeTypes ==
  /\ shared \in SUBSET Kinds
  /\ app \in [Logs -> AppStates]
  /\ parts \in [Logs -> SUBSET {"node", "executor", "observer", "cluster"}]
  /\ worker \in [Kinds -> [Instances -> [object : BOOLEAN, thread : BOOLEAN, stopped : BOOLEAN]]]
  /\ tasks \in [Instances -> SUBSET (Rounds \X Logs)]
  /\ registered \in [Kinds -> [Instances -> Seq(Logs)]]
  /\ todo \in [Kinds -> [Instances -> Seq(Logs)]]
  /\ at \in [Kinds -> [Instances -> {"submit", "wait", "signalled", "flush"}]]
  /\ \A i \in Instances : at["timer"][i] # "flush"

\* The parts a log has at each step of New and of the destructor.
PartsStand ==
  \A l \in Logs :
    /\ InLife(l, 1, 6) => "node" \in parts[l]
    /\ InLife(l, 2, 5) => "executor" \in parts[l]
    /\ InLife(l, 5, 4) => "observer" \in parts[l]
    /\ InLife(l, 6, 3) => "cluster" \in parts[l]

\* A log has an object of kind k of its own from the end of its step Made(k) of New
\* to that of its step Until(k) of the destructor.
Made(k) == IF k = "queue" THEN 2 ELSE IF k = "timer" THEN 3 ELSE 7
Until(k) == IF k = "queue" THEN 5 ELSE IF k = "timer" THEN 2 ELSE 1
Owns(k, l) == InLife(l, Made(k), Until(k))

\* A thread runs for all logs, or for the log it belongs to while that owns it.
ThreadsStand ==
  \A k \in Kinds, i \in Instances : Running(k, i) =>
    \/ i = Common /\ k \in shared
    \/ i \in Logs /\ k \notin shared /\ Owns(k, i)

\* The objects are there: a log's own while it owns them, the ones the options
\* name while no log is deleted.
ObjectsStand ==
  /\ Kept => \A k \in shared : worker[k][Common].object
  /\ \A k \in Kinds \ shared, l \in Logs : Owns(k, l) => worker[k][l].object

\* Lists, rounds and tasks are about logs that were registered.
ListsStand ==
  /\ \A k \in Rounds, i \in Instances :
       /\ \A j \in 1..Len(registered[k][i]) : Visited(k, i, registered[k][i][j])
       /\ \A j \in 1..Len(todo[k][i]) : Visited(k, i, todo[k][i][j])
       /\ ~Running(k, i) => todo[k][i] = << >>
  /\ \A i \in Instances : \A t \in tasks[i] : Of("queue", t[2]) = i /\ Registered(t[1], t[2])

\* A thread in a round has a log to visit, and waits while the log's task is queued.
TasksStand ==
  /\ \A i \in Instances : at["queue"][i] = "submit" /\ todo["queue"][i] = << >>
  /\ \A k \in Rounds, i \in Instances : at[k][i] # "submit" => todo[k][i] # << >>
  /\ \A i \in Instances, k \in Rounds, l \in Logs : <<k, l>> \in tasks[i] =>
       at[k][Of(k, l)] = "wait" /\ Head(todo[k][Of(k, l)]) = l

LifeInv ==
  LifeTypes /\ PartsStand /\ ThreadsStand /\ ObjectsStand /\ ListsStand /\ TasksStand

-----------------------------------------------------------------------------
(* How New and the destructor go on *)

\* The order in which the constructor builds the parts,
LEMMA BuildSteps ==
  /\ Len(BuildOrder) = 8
  /\ BuildOrder[1] = "node" /\ BuildOrder[2] = "executor" /\ BuildOrder[3] = "timer"
  /\ BuildOrder[4] = "regTimer" /\ BuildOrder[5] = "observer" /\ BuildOrder[6] = "cluster"
  /\ BuildOrder[7] = "flusher" /\ BuildOrder[8] = "regFlusher"
BY DEF BuildOrder

\* and in which the destructor destroys them.
LEMMA DestroySteps ==
  /\ Len(DestroyOrder) = 6
  /\ DestroyOrder[1] = "flusher" /\ DestroyOrder[2] = "timer" /\ DestroyOrder[3] = "cluster"
  /\ DestroyOrder[4] = "observer" /\ DestroyOrder[5] = "executor" /\ DestroyOrder[6] = "node"
BY DEF DestroyOrder

\* New begins or goes on, at step s.
Builds(l, s) ==
  /\ \/ app[l].doing = "none" /\ s = 0
     \/ app[l].doing = "build" /\ app[l].step = s /\ s \in 1..8
  /\ app' = [app EXCEPT ![l] = IF s < 8 THEN [doing |-> "build", step |-> s + 1]
                               ELSE [doing |-> "live", step |-> 0]]

\* The destructor begins or goes on, at step s.
Destroys(l, s) ==
  /\ \/ app[l].doing = "live" /\ s = 0
     \/ app[l].doing = "destroy" /\ app[l].step = s /\ s \in 1..6
  /\ app' = [app EXCEPT ![l] = IF s < 6 THEN [doing |-> "destroy", step |-> s + 1]
                               ELSE [doing |-> "gone", step |-> 0]]

\* A log under construction does one step of its order,
LEMMA ProceedBuilds ==
  ASSUME LifeInv, NEW l \in Logs, Building(l), Proceed(l)
  PROVE  \E s \in 1..8 : Builds(l, s) /\ Step(l) = BuildOrder[s]
<1>1. app[l] \in AppStates /\ app[l].doing = "build"
  BY DEF LifeInv, LifeTypes, Building
<1>2. PICK s \in 1..8 : app[l] = [doing |-> "build", step |-> s]
  BY <1>1 DEF AppStates
<1>3. Advanced(l) = IF s < 8 THEN [doing |-> "build", step |-> s + 1]
                    ELSE [doing |-> "live", step |-> 0]
  <2>1. Building(l) <=> TRUE
    BY <1>2 DEF Building
  <2>2. [app[l] EXCEPT !.step = @ + 1] = [doing |-> "build", step |-> s + 1]
    BY <1>2
  <2>3. app[l].step = s
    BY <1>2
  <2>4. CASE s < 8
    BY <2>1, <2>2, <2>3, <2>4, BuildSteps DEF Advanced
  <2>5. CASE s = 8
    <3>1. ~(app[l].step < Len(BuildOrder))
      BY <2>3, <2>5, BuildSteps
    <3>2. Advanced(l) = [doing |-> "live", step |-> 0]
      BY <2>1, <3>1, Zenon DEF Advanced
    <3> QED BY <2>5, <3>2
  <2> QED BY <2>4, <2>5
<1>4. app' = [app EXCEPT ![l] = IF s < 8 THEN [doing |-> "build", step |-> s + 1]
                                ELSE [doing |-> "live", step |-> 0]]
  BY <1>3 DEF Proceed
<1>5. Step(l) = BuildOrder[s]
  BY <1>2 DEF Step, Building
<1>6. Builds(l, s)
  BY <1>2, <1>4 DEF Builds
<1> QED BY <1>5, <1>6

\* and so does one under destruction.
LEMMA ProceedDestroys ==
  ASSUME LifeInv, NEW l \in Logs, Destroying(l), Proceed(l)
  PROVE  \E s \in 1..6 : Destroys(l, s) /\ Step(l) = DestroyOrder[s]
<1>1. app[l] \in AppStates /\ app[l].doing = "destroy"
  BY DEF LifeInv, LifeTypes, Destroying
<1>2. PICK s \in 1..6 : app[l] = [doing |-> "destroy", step |-> s]
  BY <1>1 DEF AppStates
<1>3. Advanced(l) = IF s < 6 THEN [doing |-> "destroy", step |-> s + 1]
                    ELSE [doing |-> "gone", step |-> 0]
  <2>1. Building(l) <=> FALSE
    BY <1>2 DEF Building
  <2>2. [app[l] EXCEPT !.step = @ + 1] = [doing |-> "destroy", step |-> s + 1]
    BY <1>2
  <2>3. app[l].step = s
    BY <1>2
  <2>4. CASE s < 6
    BY <2>1, <2>2, <2>3, <2>4, DestroySteps DEF Advanced
  <2>5. CASE s = 6
    <3>1. ~(app[l].step < Len(DestroyOrder))
      BY <2>3, <2>5, DestroySteps
    <3>2. Advanced(l) = [doing |-> "gone", step |-> 0]
      BY <2>1, <3>1, Zenon DEF Advanced
    <3> QED BY <2>5, <3>2
  <2> QED BY <2>4, <2>5
<1>4. app' = [app EXCEPT ![l] = IF s < 6 THEN [doing |-> "destroy", step |-> s + 1]
                                ELSE [doing |-> "gone", step |-> 0]]
  BY <1>3 DEF Proceed
<1>5. Step(l) = DestroyOrder[s]
  BY <1>2 DEF Step, Building
<1>6. Destroys(l, s)
  BY <1>2, <1>4 DEF Destroys
<1> QED BY <1>5, <1>6

\* What a step of New changes in the life of its log.
LEMMA BuildsLife ==
  ASSUME LifeInv, NEW l \in Logs, NEW s \in 0..8, Builds(l, s), shared' = shared
  PROVE  /\ app' \in [Logs -> AppStates] /\ (Kept' <=> Kept)
         /\ \A m \in Logs \ {l} : app'[m] = app[m]
         /\ \A k \in Rounds, m \in Logs : Registered(k, m) => Registered(k, m)'
         /\ \A a, b \in 1..8 : InLife(l, a, b) => InLife(l, a, b)'
         /\ \A a, b \in 1..8 : InLife(l, a, b)' => (s = a \/ InLife(l, a, b))
         /\ \A a, b \in 1..8 : s >= a => InLife(l, a, b)'
<1>0. app \in [Logs -> AppStates]
  BY DEF LifeInv, LifeTypes
<1>1. CASE s < 8
  <2>1. /\ app' \in [Logs -> AppStates] /\ app'[l] = [doing |-> "build", step |-> s + 1]
        /\ \A m \in Logs \ {l} : app'[m] = app[m]
    BY <1>0, <1>1 DEF Builds, AppStates
  <2>2. Kept' <=> Kept
    BY <2>1 DEF Kept, Builds
  <2>3. \A k \in Rounds, m \in Logs : Registered(k, m) => Registered(k, m)'
    BY <1>1, <2>1 DEF Registered, Builds, Rounds
  <2>4. \A a, b \in 1..8 : InLife(l, a, b)' <=> s + 1 > a
    BY <2>1 DEF InLife
  <2>5. \A a, b \in 1..8 : InLife(l, a, b) <=> s > a
    BY <1>1 DEF InLife, Builds
  <2> QED BY <2>1, <2>2, <2>3, <2>4, <2>5
<1>2. CASE s = 8
  <2>1. /\ app' \in [Logs -> AppStates] /\ app'[l] = [doing |-> "live", step |-> 0]
        /\ \A m \in Logs \ {l} : app'[m] = app[m]
    BY <1>0, <1>2 DEF Builds, AppStates
  <2>2. Kept' <=> Kept
    BY <2>1 DEF Kept, Builds
  <2>3. \A k \in Rounds, m \in Logs : Registered(k, m) => Registered(k, m)'
    BY <2>1 DEF Registered
  <2>4. \A a, b \in 1..8 : InLife(l, a, b)'
    BY <2>1 DEF InLife
  <2>5. \A a, b \in 1..8 : InLife(l, a, b) <=> s > a
    BY <1>2 DEF InLife, Builds
  <2> QED BY <1>2, <2>1, <2>2, <2>3, <2>4, <2>5
<1> QED BY <1>1, <1>2

\* What a step of the destructor changes.
LEMMA DestroysLife ==
  ASSUME LifeInv, NEW l \in Logs, NEW s \in 0..6, Destroys(l, s), shared' = shared
  PROVE  /\ app' \in [Logs -> AppStates] /\ (Kept' => shared = {})
         /\ \A m \in Logs \ {l} : app'[m] = app[m]
         /\ \A k \in Rounds, m \in Logs : Registered(k, m) => Registered(k, m)'
         /\ \A a \in 1..8, b \in 1..6 : InLife(l, a, b)' => InLife(l, a, b) /\ s # b
         /\ \A a \in 1..8, b \in 1..6 : InLife(l, a, b) /\ s # b => InLife(l, a, b)'
<1>0. app \in [Logs -> AppStates]
  BY DEF LifeInv, LifeTypes
<1>1. CASE s < 6
  <2>1. /\ app' \in [Logs -> AppStates] /\ app'[l] = [doing |-> "destroy", step |-> s + 1]
        /\ \A m \in Logs \ {l} : app'[m] = app[m]
    BY <1>0, <1>1 DEF Destroys, AppStates
  <2>2. Kept' => shared = {}
    BY <2>1 DEF Kept
  <2>3. \A k \in Rounds, m \in Logs : Registered(k, m) => Registered(k, m)'
    BY <2>1 DEF Registered
  <2>4. \A a \in 1..8, b \in 1..6 : InLife(l, a, b)' <=> s + 1 <= b
    BY <2>1 DEF InLife
  <2>5. \A a \in 1..8, b \in 1..6 : InLife(l, a, b) <=> s <= b
    BY <1>1 DEF InLife, Destroys
  <2> QED BY <2>1, <2>2, <2>3, <2>4, <2>5
<1>2. CASE s = 6
  <2>1. /\ app' \in [Logs -> AppStates] /\ app'[l] = [doing |-> "gone", step |-> 0]
        /\ \A m \in Logs \ {l} : app'[m] = app[m]
    BY <1>0, <1>2 DEF Destroys, AppStates
  <2>2. Kept' => shared = {}
    BY <2>1 DEF Kept
  <2>3. \A k \in Rounds, m \in Logs : Registered(k, m) => Registered(k, m)'
    BY <2>1 DEF Registered
  <2>4. \A a \in 1..8, b \in 1..6 : ~InLife(l, a, b)'
    BY <2>1 DEF InLife
  <2>5. \A a \in 1..8, b \in 1..6 : InLife(l, a, b) <=> s <= b
    BY <1>2 DEF InLife, Destroys
  <2> QED BY <1>2, <2>1, <2>2, <2>3, <2>4, <2>5
<1> QED BY <1>1, <1>2

-----------------------------------------------------------------------------
(* The threads *)

\* Before the first log there is nothing.
LEMMA LifeInvInit == Init => LifeInv
<1> SUFFICES ASSUME Init PROVE LifeInv
  OBVIOUS
<1>1. LifeTypes
  BY DEF Init, LifeTypes, AppStates, Kinds, Instances, Started, NoWorker
<1>2. PartsStand
  BY DEF Init, PartsStand, InLife
<1>3. \A k \in Kinds, i \in Instances : Running(k, i) => i = Common /\ k \in shared
  BY DEF Init, Running, NoWorker
<1>4. ThreadsStand
  BY <1>3 DEF ThreadsStand
<1>5. \A k \in shared : worker[k][Common].object
  BY DEF Init, Instances, Started
<1>6. ObjectsStand
  BY <1>5 DEF Init, ObjectsStand, Owns, InLife
<1>7. ListsStand
  <2>1. \A k \in Rounds, i \in Instances : registered[k][i] = << >> /\ todo[k][i] = << >>
    BY DEF Init, Rounds, Kinds
  <2>2. \A i \in Instances : tasks[i] = {}
    BY DEF Init
  <2> QED BY <2>1, <2>2 DEF ListsStand
<1>8. TasksStand
  BY DEF Init, TasksStand, Kinds, Rounds
<1> QED BY <1>1, <1>2, <1>4, <1>6, <1>7, <1>8 DEF LifeInv

\* A step of a thread leaves the logs where they are.
LEMMA ThreadFrame ==
  ASSUME LifeInv, UNCHANGED <<shared, app, parts, worker, registered>>
  PROVE  PartsStand' /\ ThreadsStand' /\ ObjectsStand'
<1>1. PartsStand'
  BY DEF LifeInv, PartsStand, InLife
<1>2. ThreadsStand'
  BY DEF LifeInv, ThreadsStand, Owns, InLife, Running
<1>3. ObjectsStand'
  BY DEF LifeInv, ObjectsStand, Kept, Owns, InLife
<1> QED BY <1>1, <1>2, <1>3

\* The lists stay right if what the rounds still have to visit was registered.
LEMMA ListsFrame ==
  ASSUME LifeInv, UNCHANGED <<shared, app, registered>>,
         \A q \in Rounds, n \in Instances :
           /\ \A j \in 1..Len(todo'[q][n]) : Visited(q, n, todo'[q][n][j])
           /\ ~Running(q, n)' => todo'[q][n] = << >>,
         \A n \in Instances : \A t \in tasks'[n] :
           Of("queue", t[2]) = n /\ Registered(t[1], t[2])
  PROVE  ListsStand'
<1>1. ASSUME NEW q \in Rounds, NEW n \in Instances, NEW j \in 1..Len(todo'[q][n])
      PROVE  Visited(q, n, todo[q][n][j])'
  <2>1. PICK l \in Logs : l = todo'[q][n][j] /\ Visited(q, n, l)
    BY DEF Visited
  <2>2. Visited(q, n, l)'
    BY <2>1 DEF Visited, Registered, Of
  <2> QED BY <2>1, <2>2 DEF Visited, Registered, Of
<1>2. ASSUME NEW q \in Rounds, NEW n \in Instances, NEW j \in 1..Len(registered'[q][n])
      PROVE  Visited(q, n, registered[q][n][j])'
  <2>1. Visited(q, n, registered[q][n][j])
    BY <1>2 DEF LifeInv, ListsStand
  <2>2. PICK l \in Logs : l = registered[q][n][j] /\ Visited(q, n, l)
    BY <2>1 DEF Visited
  <2>3. Visited(q, n, l)'
    BY <2>2 DEF Visited, Registered, Of
  <2> QED BY <2>2, <2>3 DEF Visited, Registered, Of
<1>3. ASSUME NEW n \in Instances, NEW t \in tasks'[n]
      PROVE  Of("queue", t[2])' = n /\ Registered(t[1], t[2])'
  BY DEF Of, Registered
<1> QED BY <1>1, <1>2, <1>3 DEF ListsStand

\* In particular if only tasks come and go.
LEMMA TasksFrame ==
  ASSUME LifeInv, UNCHANGED <<shared, app, worker, registered, todo>>,
         \A n \in Instances : \A t \in tasks'[n] :
           Of("queue", t[2]) = n /\ Registered(t[1], t[2])
  PROVE  ListsStand'
<1>1. \A q \in Rounds, n \in Instances :
        \A j \in 1..Len(todo'[q][n]) : Visited(q, n, todo'[q][n][j])
  BY DEF LifeInv, ListsStand
<1>2. \A q \in Rounds, n \in Instances : ~Running(q, n)' => todo'[q][n] = << >>
  BY DEF LifeInv, ListsStand, Running
<1> QED BY <1>1, <1>2, ListsFrame

\* A thread that was told to stop leaves its loop.
LEMMA LeaveKeeps ==
  ASSUME LifeInv, NEW k \in Kinds, NEW i \in Instances, Leave(k, i)
  PROVE  LifeInv'
<1>1. LifeTypes'
  <2>1. worker' \in [Kinds -> [Instances -> [object : BOOLEAN, thread : BOOLEAN, stopped : BOOLEAN]]]
    <3>1. worker[k][i] \in [object : BOOLEAN, thread : BOOLEAN, stopped : BOOLEAN]
      BY DEF LifeInv, LifeTypes
    <3>2. PICK r \in [object : BOOLEAN, thread : BOOLEAN, stopped : BOOLEAN] :
            r = [worker[k][i] EXCEPT !.thread = FALSE]
      BY <3>1
    <3>3. worker' = [worker EXCEPT ![k] = [worker[k] EXCEPT ![i] = r]]
      BY <3>2 DEF Leave
    <3> QED BY <3>2, <3>3 DEF LifeInv, LifeTypes
  <2> QED BY <2>1 DEF Leave, LifeInv, LifeTypes
<1>2. PartsStand'
  BY DEF Leave, LifeInv, PartsStand, InLife
<1>3. /\ \A q \in Kinds, n \in Instances : Running(q, n)' => Running(q, n)
      /\ \A q \in Kinds, n \in Instances : worker'[q][n].object = worker[q][n].object
      /\ \A q \in Kinds, n \in Instances : ~Running(q, n)' => ~Running(q, n) \/ (q = k /\ n = i)
  BY DEF Leave, LifeInv, LifeTypes, Running
<1>4. ThreadsStand' /\ ObjectsStand'
  <2>1. /\ \A q, l : Owns(q, l)' = Owns(q, l)
        /\ shared' = shared /\ Kept' = Kept
    BY DEF Leave, Owns, InLife, Kept
  <2>2. ThreadsStand'
    BY <1>3, <2>1 DEF LifeInv, ThreadsStand
  <2>3. shared \subseteq Kinds /\ Logs \cup {Common} = Instances
    BY DEF LifeInv, LifeTypes, Instances
  <2>4. ObjectsStand'
    BY <1>3, <2>1, <2>3 DEF LifeInv, ObjectsStand
  <2> QED BY <2>2, <2>4
<1>5. ListsStand'
  <2>0. UNCHANGED <<shared, app, tasks, registered, todo>>
    BY DEF Leave
  <2>1. \A q \in Rounds, n \in Instances :
          \A j \in 1..Len(todo'[q][n]) : Visited(q, n, todo'[q][n][j])
    BY <2>0 DEF LifeInv, ListsStand
  <2>2. \A q \in Rounds, n \in Instances : ~Running(q, n)' => todo'[q][n] = << >>
    BY <1>3 DEF Leave, LifeInv, ListsStand, Rounds, Kinds
  <2>3. \A n \in Instances : \A t \in tasks'[n] :
          Of("queue", t[2]) = n /\ Registered(t[1], t[2])
    BY <2>0 DEF LifeInv, ListsStand
  <2> QED BY <2>0, <2>1, <2>2, <2>3, ListsFrame
<1>6. TasksStand'
  BY DEF Leave, LifeInv, TasksStand, Of
<1> QED BY <1>1, <1>2, <1>4, <1>5, <1>6 DEF LifeInv

\* The executor runs a task.
LEMMA RunTaskKeeps ==
  ASSUME LifeInv, NEW i \in Instances, NEW k \in Kinds, NEW l \in Logs, RunTask(i, k, l)
  PROVE  LifeInv'
<1>0. UNCHANGED <<shared, app, parts, worker, registered, todo>>
  BY DEF RunTask
<1>1. k \in Rounds /\ <<k, l>> \in tasks[i]
  BY DEF RunTask, LifeInv, LifeTypes
<1>2. PICK n \in Instances : n = Of(k, l)
  BY DEF Of, Instances
<1>3. \A p \in Kinds, o \in Instances :
        at'[p][o] = IF p = k /\ o = n THEN "signalled" ELSE at[p][o]
  BY <1>2 DEF RunTask, LifeInv, LifeTypes
<1>4. /\ tasks'[i] = tasks[i] \ {<<k, l>>}
      /\ \A o \in Instances : o # i => tasks'[o] = tasks[o]
  BY DEF RunTask, LifeInv, LifeTypes
<1>5. LifeTypes'
  BY <1>2 DEF RunTask, LifeInv, LifeTypes
<1>6. ListsStand'
  <2>1. \A o \in Instances : tasks'[o] \subseteq tasks[o]
    BY <1>4
  <2>2. \A o \in Instances : \A t \in tasks'[o] :
          Of("queue", t[2]) = o /\ Registered(t[1], t[2])
    BY <2>1 DEF LifeInv, ListsStand
  <2> QED BY <1>0, <2>2, TasksFrame
<1>7. TasksStand'
  <2>1. at[k][n] = "wait" /\ Head(todo[k][n]) = l
    BY <1>1, <1>2 DEF LifeInv, TasksStand
  <2>2. ASSUME NEW o \in Instances, NEW p \in Rounds, NEW m \in Logs, <<p, m>> \in tasks'[o]
        PROVE  at'[p][Of(p, m)] = "wait" /\ Head(todo[p][Of(p, m)]) = m
    <3>1. <<p, m>> \in tasks[o] /\ (o = i => <<p, m>> # <<k, l>>)
      BY <1>4, <2>2
    <3>2. at[p][Of(p, m)] = "wait" /\ Head(todo[p][Of(p, m)]) = m
      BY <3>1 DEF LifeInv, TasksStand
    <3>3. Of("queue", m) = o /\ Of("queue", l) = i
      BY <3>1, <1>1 DEF LifeInv, ListsStand
    <3>4. ~(p = k /\ Of(p, m) = n)
      BY <2>1, <3>1, <3>2, <3>3
    <3>5. Of(p, m) \in Instances
      BY DEF Of, Instances
    <3> QED BY <1>3, <3>2, <3>4, <3>5 DEF Rounds, Kinds
  <2>3. \A o \in Instances : at'["queue"][o] = "submit" /\ todo'["queue"][o] = << >>
    BY <1>0, <1>1, <1>3 DEF LifeInv, TasksStand, Rounds, Kinds
  <2>4. \A p \in Rounds, o \in Instances : at'[p][o] # "submit" => todo'[p][o] # << >>
    BY <1>0, <1>3, <2>1 DEF LifeInv, TasksStand, Rounds, Kinds
  <2>5. \A p, m : Of(p, m)' = Of(p, m)
    BY <1>0 DEF Of
  <2> QED BY <1>0, <2>2, <2>3, <2>4, <2>5 DEF TasksStand
<1> QED BY <1>0, <1>5, <1>6, <1>7, ThreadFrame DEF LifeInv

\* A timer or a flusher begins a round.
LEMMA BeginRoundKeeps ==
  ASSUME LifeInv, NEW k \in Kinds, NEW i \in Instances, BeginRound(k, i)
  PROVE  LifeInv'
<1>0. UNCHANGED <<shared, app, parts, worker, tasks, registered>>
  BY DEF BeginRound
<1>1. LifeTypes'
  BY DEF BeginRound, LifeInv, LifeTypes, Kinds
<1>2. \A q \in Kinds, n \in Instances :
        /\ todo'[q][n] = IF q = k /\ n = i THEN registered[k][i] ELSE todo[q][n]
        /\ at'[q][n] = IF q = k /\ n = i THEN "submit" ELSE at[q][n]
  BY DEF BeginRound, LifeInv, LifeTypes
<1>3. k \in Rounds /\ Running(k, i) /\ todo[k][i] = << >>
  BY DEF BeginRound, Looping, Rounds, Kinds
<1>4. ListsStand'
  <2>3. \A q \in Rounds, n \in Instances :
          \A j \in 1..Len(todo'[q][n]) : Visited(q, n, todo'[q][n][j])
    BY <1>2, <1>3 DEF LifeInv, ListsStand, Rounds, Kinds
  <2>4. \A q \in Rounds, n \in Instances : ~Running(q, n)' => todo'[q][n] = << >>
    BY <1>0, <1>2, <1>3 DEF LifeInv, ListsStand, Rounds, Kinds, Running
  <2>5. \A n \in Instances : \A t \in tasks'[n] :
          Of("queue", t[2]) = n /\ Registered(t[1], t[2])
    BY <1>0 DEF LifeInv, ListsStand
  <2> QED BY <1>0, <2>3, <2>4, <2>5, ListsFrame
<1>5. TasksStand'
  <2>1. \A o \in Instances : at'["queue"][o] = "submit" /\ todo'["queue"][o] = << >>
    BY <1>2, <1>3 DEF LifeInv, TasksStand, Rounds, Kinds
  <2>2. \A p \in Rounds, o \in Instances : at'[p][o] # "submit" => todo'[p][o] # << >>
    BY <1>2 DEF LifeInv, TasksStand, Rounds, Kinds
  <2>3. at[k][i] = "submit"
    BY <1>3 DEF LifeInv, TasksStand
  <2>4. ASSUME NEW o \in Instances, NEW p \in Rounds, NEW m \in Logs, <<p, m>> \in tasks'[o]
        PROVE  at'[p][Of(p, m)'] = "wait" /\ Head(todo'[p][Of(p, m)']) = m
    <3>1. at[p][Of(p, m)] = "wait" /\ Head(todo[p][Of(p, m)]) = m
      BY <1>0, <2>4 DEF LifeInv, TasksStand
    <3>2. Of(p, m)' = Of(p, m) /\ Of(p, m) \in Instances
      BY <1>0 DEF Of, Instances
    <3> QED BY <1>2, <2>3, <3>1, <3>2 DEF Rounds, Kinds
  <2> QED BY <2>1, <2>2, <2>4 DEF TasksStand
<1> QED BY <1>0, <1>1, <1>4, <1>5, ThreadFrame DEF LifeInv

\* It submits the task of the log it is at.
LEMMA SubmitTaskKeeps ==
  ASSUME LifeInv, NEW k \in Kinds, NEW i \in Instances, SubmitTask(k, i)
  PROVE  LifeInv'
<1>0. UNCHANGED <<shared, app, parts, worker, registered, todo>>
  BY DEF SubmitTask
<1>1. todo[k][i] \in Seq(Logs) /\ todo[k][i] # << >> /\ at[k][i] = "submit"
  BY DEF SubmitTask, LifeInv, LifeTypes
<1>2. k \in Rounds
  BY <1>1 DEF LifeInv, TasksStand, Rounds, Kinds
<1>3. PICK l \in Logs : l = Head(todo[k][i])
  BY <1>1
<1>4. PICK q \in Instances : q = Of("queue", l)
  BY DEF Of, Instances
<1>5. Of(k, l) = i /\ Registered(k, l)
  BY <1>1, <1>2, <1>3 DEF LifeInv, ListsStand, Visited
<1>6. /\ tasks'[q] = tasks[q] \cup {<<k, l>>}
      /\ \A o \in Instances : o # q => tasks'[o] = tasks[o]
  BY <1>3, <1>4 DEF SubmitTask, LifeInv, LifeTypes
<1>7. \A p \in Kinds, o \in Instances :
        at'[p][o] = IF p = k /\ o = i THEN "wait" ELSE at[p][o]
  BY DEF SubmitTask, LifeInv, LifeTypes
<1>8. LifeTypes'
  BY <1>2, <1>3, <1>4 DEF SubmitTask, LifeInv, LifeTypes
<1>9. ListsStand'
  <2>1. ASSUME NEW o \in Instances, NEW t \in tasks'[o]
        PROVE  Of("queue", t[2]) = o /\ Registered(t[1], t[2])
    <3>1. CASE t \in tasks[o]
      BY <3>1 DEF LifeInv, ListsStand
    <3>2. CASE t \notin tasks[o]
      BY <1>4, <1>5, <1>6, <2>1, <3>2
    <3> QED BY <3>1, <3>2
  <2> QED BY <1>0, <2>1, TasksFrame
<1>10. TasksStand'
  <2>1. \A o \in Instances : at'["queue"][o] = "submit" /\ todo'["queue"][o] = << >>
    BY <1>0, <1>2, <1>7 DEF LifeInv, TasksStand, Rounds, Kinds
  <2>2. \A p \in Rounds, o \in Instances : at'[p][o] # "submit" => todo'[p][o] # << >>
    BY <1>0, <1>1, <1>7 DEF LifeInv, TasksStand, Rounds, Kinds
  <2>4. ASSUME NEW o \in Instances, NEW p \in Rounds, NEW m \in Logs, <<p, m>> \in tasks'[o]
        PROVE  at'[p][Of(p, m)'] = "wait" /\ Head(todo'[p][Of(p, m)']) = m
    <3>1. Of(p, m)' = Of(p, m) /\ Of(p, m) \in Instances
      BY <1>0 DEF Of, Instances
    <3>2. CASE <<p, m>> \in tasks[o]
      <4>1. at[p][Of(p, m)] = "wait" /\ Head(todo[p][Of(p, m)]) = m
        BY <3>2 DEF LifeInv, TasksStand
      <4> QED BY <1>0, <1>1, <1>7, <3>1, <4>1 DEF Rounds, Kinds
    <3>3. CASE <<p, m>> \notin tasks[o]
      <4>1. p = k /\ m = l
        BY <1>6, <2>4, <3>3
      <4> QED BY <1>0, <1>3, <1>5, <1>7, <3>1, <4>1
    <3> QED BY <3>2, <3>3
  <2> QED BY <2>1, <2>2, <2>4 DEF TasksStand
<1> QED BY <1>0, <1>8, <1>9, <1>10, ThreadFrame DEF LifeInv

\* The flusher writes a Ready.
LEMMA FlushReadyKeeps ==
  ASSUME LifeInv, NEW i \in Instances, FlushReady(i)
  PROVE  LifeInv'
<1>0. UNCHANGED <<shared, app, parts, worker, tasks, registered, todo>>
  BY DEF FlushReady
<1>1. \A p \in Kinds, o \in Instances :
        at'[p][o] = IF p = "flusher" /\ o = i THEN "flush" ELSE at[p][o]
  BY DEF FlushReady, LifeInv, LifeTypes, Kinds
<1>2. LifeTypes'
  BY DEF FlushReady, LifeInv, LifeTypes, Kinds
<1>3. ListsStand'
  <2>1. \A n \in Instances : \A t \in tasks'[n] :
          Of("queue", t[2]) = n /\ Registered(t[1], t[2])
    BY <1>0 DEF LifeInv, ListsStand
  <2> QED BY <1>0, <2>1, TasksFrame
<1>4. TasksStand'
  <2>1. at["flusher"][i] = "signalled"
    BY DEF FlushReady
  <2>2. \A o \in Instances : at'["queue"][o] = "submit" /\ todo'["queue"][o] = << >>
    BY <1>0, <1>1 DEF LifeInv, TasksStand, Kinds
  <2>3. \A p \in Rounds, o \in Instances : at'[p][o] # "submit" => todo'[p][o] # << >>
    BY <1>0, <1>1, <2>1 DEF LifeInv, TasksStand, Rounds, Kinds
  <2>4. ASSUME NEW o \in Instances, NEW p \in Rounds, NEW m \in Logs, <<p, m>> \in tasks'[o]
        PROVE  at'[p][Of(p, m)'] = "wait" /\ Head(todo'[p][Of(p, m)']) = m
    <3>1. Of(p, m)' = Of(p, m) /\ Of(p, m) \in Instances
      BY <1>0 DEF Of, Instances
    <3>2. at[p][Of(p, m)] = "wait" /\ Head(todo[p][Of(p, m)]) = m
      BY <1>0, <2>4 DEF LifeInv, TasksStand
    <3> QED BY <1>0, <1>1, <2>1, <3>1, <3>2 DEF Rounds, Kinds
  <2> QED BY <2>2, <2>3, <2>4 DEF TasksStand
<1> QED BY <1>0, <1>2, <1>3, <1>4, ThreadFrame DEF LifeInv

\* The round goes on to the next log.
LEMMA NextLogKeeps ==
  ASSUME LifeInv, NEW k \in Kinds, NEW i \in Instances, NextLog(k, i)
  PROVE  LifeInv'
<1>0. UNCHANGED <<shared, app, parts, worker, tasks, registered>>
  BY DEF NextLog
<1>1. k \in Rounds /\ Running(k, i) /\ at[k][i] \in {"signalled", "flush"}
  BY DEF NextLog, LifeInv, TasksStand, Rounds, Kinds
<1>2. todo[k][i] \in Seq(Logs) /\ todo[k][i] # << >>
  BY <1>1 DEF LifeInv, LifeTypes, TasksStand
<1>3. PICK rest \in Seq(Logs) : rest = Tail(todo[k][i])
  <2>1. PICK logs \in Seq(Logs) : logs = todo[k][i]
    BY <1>2
  <2>2. Tail(logs) \in Seq(Logs)
    BY <1>2, <2>1
  <2> QED BY <2>1, <2>2
<1>4. \A p \in Kinds, o \in Instances :
        /\ todo'[p][o] = IF p = k /\ o = i THEN rest ELSE todo[p][o]
        /\ at'[p][o] = IF p = k /\ o = i THEN "submit" ELSE at[p][o]
  BY <1>3 DEF NextLog, LifeInv, LifeTypes
<1>5. LifeTypes'
  BY <1>3 DEF NextLog, LifeInv, LifeTypes, Kinds
<1>6. ListsStand'
  <2>1. \A j \in 1..Len(rest) : j + 1 \in 1..Len(todo[k][i]) /\ rest[j] = todo[k][i][j + 1]
    BY <1>2, <1>3
  <2>2. \A j \in 1..Len(rest) : Visited(k, i, rest[j])
    BY <1>1, <2>1 DEF LifeInv, ListsStand
  <2>3. ASSUME NEW q \in Rounds, NEW n \in Instances
        PROVE  \A j \in 1..Len(todo'[q][n]) : Visited(q, n, todo'[q][n][j])
    <3>1. q \in Kinds
      BY DEF Rounds, Kinds
    <3>2. CASE q = k /\ n = i
      BY <1>4, <2>2, <3>1, <3>2
    <3>3. CASE ~(q = k /\ n = i)
      BY <1>4, <3>1, <3>3 DEF LifeInv, ListsStand
    <3> QED BY <3>2, <3>3
  <2>4. \A q \in Rounds, n \in Instances : ~Running(q, n)' => todo'[q][n] = << >>
    BY <1>0, <1>1, <1>4 DEF LifeInv, ListsStand, Rounds, Kinds, Running
  <2>5. \A n \in Instances : \A t \in tasks'[n] :
          Of("queue", t[2]) = n /\ Registered(t[1], t[2])
    BY <1>0 DEF LifeInv, ListsStand
  <2> QED BY <1>0, <2>3, <2>4, <2>5, ListsFrame
<1>7. TasksStand'
  <2>2. \A o \in Instances : at'["queue"][o] = "submit" /\ todo'["queue"][o] = << >>
    BY <1>1, <1>4 DEF LifeInv, TasksStand, Rounds, Kinds
  <2>3. \A p \in Rounds, o \in Instances : at'[p][o] # "submit" => todo'[p][o] # << >>
    BY <1>4 DEF LifeInv, TasksStand, Rounds, Kinds
  <2>4. ASSUME NEW o \in Instances, NEW p \in Rounds, NEW m \in Logs, <<p, m>> \in tasks'[o]
        PROVE  at'[p][Of(p, m)'] = "wait" /\ Head(todo'[p][Of(p, m)']) = m
    <3>1. Of(p, m)' = Of(p, m) /\ Of(p, m) \in Instances
      BY <1>0 DEF Of, Instances
    <3>2. at[p][Of(p, m)] = "wait" /\ Head(todo[p][Of(p, m)]) = m
      BY <1>0, <2>4 DEF LifeInv, TasksStand
    <3> QED BY <1>1, <1>4, <3>1, <3>2 DEF Rounds, Kinds
  <2> QED BY <2>2, <2>3, <2>4 DEF TasksStand
<1> QED BY <1>0, <1>5, <1>6, <1>7, ThreadFrame DEF LifeInv

-----------------------------------------------------------------------------
(* The application *)

\* A step of New or of the destructor that forgets no registration and ends no
\* thread leaves the rounds and the tasks right.
LEMMA AppFrame ==
  ASSUME LifeInv, UNCHANGED <<shared, tasks, todo, at>>,
         \A k \in Rounds, m \in Logs : Registered(k, m) => Registered(k, m)',
         \A k \in Kinds, i \in Instances : Running(k, i) => Running(k, i)'
  PROVE  /\ TasksStand'
         /\ \A k, i, l : k \in Rounds /\ Visited(k, i, l) => Visited(k, i, l)'
         /\ \A k \in Rounds, i \in Instances :
              /\ \A j \in 1..Len(todo'[k][i]) : Visited(k, i, todo[k][i][j])'
              /\ ~Running(k, i)' => todo'[k][i] = << >>
         /\ \A i \in Instances : \A t \in tasks'[i] :
              Of("queue", t[2])' = i /\ Registered(t[1], t[2])'
         /\ UNCHANGED registered => ListsStand'
<1>1. TasksStand'
  BY DEF LifeInv, TasksStand, Of
<1>2. \A k, l : Of(k, l)' = Of(k, l)
  BY DEF Of
<1>3. \A k, i, l : k \in Rounds /\ Visited(k, i, l) => Visited(k, i, l)'
  BY <1>2 DEF Visited
<1>4. ASSUME NEW k \in Rounds, NEW i \in Instances
      PROVE  /\ \A j \in 1..Len(todo'[k][i]) : Visited(k, i, todo[k][i][j])'
             /\ ~Running(k, i)' => todo'[k][i] = << >>
  <2>1. ASSUME NEW j \in 1..Len(todo'[k][i]) PROVE Visited(k, i, todo[k][i][j])'
    <3>1. Visited(k, i, todo[k][i][j])
      BY <2>1 DEF LifeInv, ListsStand
    <3>2. PICK l \in Logs : l = todo[k][i][j]
      BY <3>1 DEF Visited
    <3>3. Visited(k, i, l)'
      BY <1>3, <3>1, <3>2
    <3> QED BY <3>2, <3>3 DEF Visited, Registered, Of
  <2>2. ~Running(k, i)' => todo'[k][i] = << >>
    BY DEF LifeInv, ListsStand, Rounds, Kinds
  <2> QED BY <2>1, <2>2
<1>5. ASSUME NEW i \in Instances, NEW t \in tasks'[i]
      PROVE  Of("queue", t[2])' = i /\ Registered(t[1], t[2])'
  <2>1. t \in Rounds \X Logs /\ Of("queue", t[2]) = i /\ Registered(t[1], t[2])
    BY <1>5 DEF LifeInv, LifeTypes, ListsStand
  <2> QED BY <1>2, <2>1
<1>6. ASSUME UNCHANGED registered PROVE ListsStand'
  <2>1. ASSUME NEW k \in Rounds, NEW i \in Instances, NEW j \in 1..Len(registered'[k][i])
        PROVE  Visited(k, i, registered[k][i][j])'
    <3>1. Visited(k, i, registered[k][i][j])
      BY <1>6, <2>1 DEF LifeInv, ListsStand
    <3>2. PICK l \in Logs : l = registered[k][i][j]
      BY <3>1 DEF Visited
    <3>3. Visited(k, i, l)'
      BY <1>3, <3>1, <3>2
    <3> QED BY <1>6, <3>2, <3>3 DEF Visited, Registered, Of
  <2> QED BY <1>4, <1>5, <2>1 DEF ListsStand
<1> QED BY <1>1, <1>3, <1>4, <1>5, <1>6

\* The application starts to build a log,
LEMMA CreateKeeps ==
  ASSUME LifeInv, NEW l \in Logs, Create(l)
  PROVE  LifeInv'
<1>0. UNCHANGED <<shared, parts, worker, tasks, registered, todo, at>>
  BY DEF Create
<1>1. Builds(l, 0)
  BY DEF Create, Builds
<1>2. /\ app' \in [Logs -> AppStates] /\ (Kept' <=> Kept)
      /\ \A m \in Logs \ {l} : app'[m] = app[m]
      /\ \A k \in Rounds, m \in Logs : Registered(k, m) => Registered(k, m)'
      /\ \A a, b \in 1..8 : InLife(l, a, b) => InLife(l, a, b)'
      /\ \A a, b \in 1..8 : InLife(l, a, b)' => (0 = a \/ InLife(l, a, b))
  BY <1>0, <1>1, BuildsLife
<1>3. \A m \in Logs, a, b \in 1..8 : InLife(m, a, b)' <=> InLife(m, a, b)
  <2>1. \A m \in Logs \ {l}, a, b \in 1..8 : InLife(m, a, b)' <=> InLife(m, a, b)
    BY <1>2 DEF InLife
  <2>2. \A a, b \in 1..8 : InLife(l, a, b)' <=> InLife(l, a, b)
    BY <1>2
  <2> QED BY <2>1, <2>2
<1>4. LifeTypes'
  BY <1>0, <1>2 DEF LifeInv, LifeTypes
<1>5. PartsStand'
  BY <1>0, <1>3 DEF LifeInv, PartsStand
<1>6. ThreadsStand' /\ ObjectsStand'
  <2>1. \A q \in Kinds, m \in Logs : Owns(q, m)' <=> Owns(q, m)
    BY <1>3 DEF Owns, Made, Until
  <2>2. ThreadsStand'
    BY <1>0, <2>1 DEF LifeInv, ThreadsStand, Running
  <2>3. ObjectsStand'
    BY <1>0, <1>2, <2>1 DEF LifeInv, ObjectsStand
  <2> QED BY <2>2, <2>3
<1>7. \A k \in Kinds, i \in Instances : Running(k, i) => Running(k, i)'
  BY <1>0 DEF Running
<1> QED BY <1>0, <1>2, <1>4, <1>5, <1>6, <1>7, AppFrame DEF LifeInv

\* or to destroy one.
LEMMA DestroyKeeps ==
  ASSUME LifeInv, NEW l \in Logs, Destroy(l)
  PROVE  LifeInv'
<1>0. UNCHANGED <<shared, parts, worker, tasks, registered, todo, at>>
  BY DEF Destroy
<1>1. Destroys(l, 0)
  BY DEF Destroy, Destroys
<1>2. /\ app' \in [Logs -> AppStates] /\ (Kept' => shared = {})
      /\ \A m \in Logs \ {l} : app'[m] = app[m]
      /\ \A k \in Rounds, m \in Logs : Registered(k, m) => Registered(k, m)'
  BY <1>0, <1>1, DestroysLife
<1>3. \A a, b \in 1..8 : InLife(l, a, b) /\ InLife(l, a, b)'
  BY <1>2 DEF InLife, Destroy, LifeInv, LifeTypes
<1>4. \A m \in Logs, a, b \in 1..8 : InLife(m, a, b)' <=> InLife(m, a, b)
  BY <1>2, <1>3 DEF InLife
<1>5. LifeTypes'
  BY <1>0, <1>2 DEF LifeInv, LifeTypes
<1>6. PartsStand'
  BY <1>0, <1>4 DEF LifeInv, PartsStand
<1>7. ThreadsStand' /\ ObjectsStand'
  <2>1. \A q \in Kinds, m \in Logs : Owns(q, m)' <=> Owns(q, m)
    BY <1>4 DEF Owns, Made, Until
  <2>2. ThreadsStand'
    BY <1>0, <2>1 DEF LifeInv, ThreadsStand, Running
  <2>3. ObjectsStand'
    BY <1>0, <1>2, <2>1 DEF LifeInv, ObjectsStand
  <2> QED BY <2>2, <2>3
<1>8. \A k \in Kinds, i \in Instances : Running(k, i) => Running(k, i)'
  BY <1>0 DEF Running
<1> QED BY <1>0, <1>2, <1>5, <1>6, <1>7, <1>8, AppFrame DEF LifeInv

\* A log is registered with its timer or its flusher.
LEMMA RegisterKeeps ==
  ASSUME LifeInv, NEW k \in Kinds, NEW l \in Logs, Register(k, l)
  PROVE  LifeInv'
<1>0. UNCHANGED <<shared, parts, worker, tasks, todo, at>>
  BY DEF Register
<1>1. PICK s \in 1..8 : Builds(l, s) /\ Step(l) = BuildOrder[s]
  BY ProceedBuilds DEF Register
<1>2. k \in Rounds /\ s = (IF k = "timer" THEN 4 ELSE 8)
  BY <1>1, BuildSteps DEF Register, Rounds
<1>3. /\ app' \in [Logs -> AppStates] /\ (Kept' <=> Kept)
      /\ \A m \in Logs \ {l} : app'[m] = app[m]
      /\ \A q \in Rounds, m \in Logs : Registered(q, m) => Registered(q, m)'
      /\ \A a, b \in 1..8 : InLife(l, a, b) => InLife(l, a, b)'
      /\ \A a, b \in 1..8 : InLife(l, a, b)' => (s = a \/ InLife(l, a, b))
  <2>1. s \in 0..8 /\ Builds(l, s) /\ shared' = shared
    BY <1>0, <1>1
  <2> QED BY <2>1, BuildsLife
<1>4. \A m \in Logs, a, b \in 1..8 : a # s => (InLife(m, a, b)' <=> InLife(m, a, b))
  <2>1. \A m \in Logs \ {l}, a, b \in 1..8 : InLife(m, a, b)' <=> InLife(m, a, b)
    BY <1>3 DEF InLife
  <2> QED BY <1>3, <2>1
<1>5. PICK i \in Instances : i = Of(k, l)
  BY DEF Of, Instances
<1>6. \A q \in Kinds, n \in Instances :
        registered'[q][n] = IF q = k /\ n = i THEN Append(registered[k][i], l)
                            ELSE registered[q][n]
  BY <1>5 DEF Register, LifeInv, LifeTypes
<1>7. LifeTypes'
  BY <1>0, <1>3, <1>5 DEF Register, LifeInv, LifeTypes
<1>8. PartsStand'
  <2>1. ASSUME NEW m \in Logs
        PROVE  /\ InLife(m, 1, 6)' <=> InLife(m, 1, 6)
               /\ InLife(m, 2, 5)' <=> InLife(m, 2, 5)
               /\ InLife(m, 5, 4)' <=> InLife(m, 5, 4)
               /\ InLife(m, 6, 3)' <=> InLife(m, 6, 3)
    BY <1>2, <1>4
  <2> QED BY <1>0, <2>1 DEF LifeInv, PartsStand
<1>9. ThreadsStand' /\ ObjectsStand'
  <2>1. \A q \in Kinds, m \in Logs : Owns(q, m)' <=> Owns(q, m)
    BY <1>2, <1>4 DEF Owns, Made, Until
  <2>2. ThreadsStand'
    BY <1>0, <2>1 DEF LifeInv, ThreadsStand, Running
  <2>3. ObjectsStand'
    BY <1>0, <1>3, <2>1 DEF LifeInv, ObjectsStand
  <2> QED BY <2>2, <2>3
<1>10. \A q \in Kinds, n \in Instances : Running(q, n) => Running(q, n)'
  BY <1>0 DEF Running
<1>11. Registered(k, l)'
  BY <1>1, <1>2 DEF Builds, Registered, LifeInv, LifeTypes, Rounds
<1>12. ASSUME NEW q \in Rounds, NEW n \in Instances, NEW j \in 1..Len(registered'[q][n])
       PROVE  Visited(q, n, registered[q][n][j])'
  <2>1. registered[q][n] \in Seq(Logs)
    BY DEF LifeInv, LifeTypes, Rounds, Kinds
  <2>2. PICK m \in Logs : m = registered'[q][n][j]
    <3>1. PICK logs \in Seq(Logs) : logs = registered'[q][n]
      BY <1>7 DEF LifeTypes, Rounds, Kinds
    <3>2. logs[j] \in Logs
      BY <3>1
    <3> QED BY <3>1, <3>2
  <2>3. CASE q = k /\ n = i /\ j = Len(registered[k][i]) + 1
    <3>1. m = l
      <4>1. PICK r \in Seq(Logs) : r = registered[k][i]
        BY <2>1, <2>3
      <4>2. registered'[k][i] = Append(r, l) /\ j = Len(r) + 1 /\ m = registered'[k][i][j]
        BY <1>6, <2>2, <2>3, <4>1
      <4>3. Append(r, l)[Len(r) + 1] = l
        OBVIOUS
      <4> QED BY <4>2, <4>3
    <3>2. Of(k, l)' = i
      BY <1>0, <1>5 DEF Of
    <3> QED BY <1>11, <2>2, <2>3, <3>1, <3>2 DEF Visited, Registered, Of
  <2>4. CASE ~(q = k /\ n = i /\ j = Len(registered[k][i]) + 1)
    <3>1. j \in 1..Len(registered[q][n]) /\ m = registered[q][n][j]
      <4>1. CASE q = k /\ n = i
        <5>1. PICK r \in Seq(Logs) : r = registered[k][i]
          BY <2>1, <4>1
        <5>2. registered'[k][i] = Append(r, l) /\ m = registered'[k][i][j]
          BY <1>6, <2>2, <4>1, <5>1
        <5>3. j \in 1..Len(Append(r, l)) /\ j # Len(r) + 1
          BY <1>12, <2>4, <4>1, <5>1, <5>2
        <5>4. Len(Append(r, l)) = Len(r) + 1 /\ \A h \in 1..Len(r) : Append(r, l)[h] = r[h]
          OBVIOUS
        <5>5. j \in 1..Len(r)
          BY <5>3, <5>4, Len(r) \in Nat
        <5> QED BY <4>1, <5>1, <5>2, <5>4, <5>5
      <4>2. CASE ~(q = k /\ n = i)
        BY <1>6, <1>12, <2>2, <4>2 DEF Rounds, Kinds
      <4> QED BY <4>1, <4>2
    <3>2. Visited(q, n, m)
      BY <3>1 DEF LifeInv, ListsStand
    <3>3. Visited(q, n, m)'
      BY <1>0, <1>3, <3>2 DEF Visited, Of
    <3> QED BY <2>2, <3>3 DEF Visited, Registered, Of
  <2> QED BY <2>3, <2>4
<1>13. ListsStand'
  BY <1>0, <1>3, <1>10, <1>12, AppFrame DEF ListsStand
<1> QED BY <1>0, <1>3, <1>7, <1>8, <1>9, <1>10, <1>13, AppFrame DEF LifeInv

\* The object the options name, or a new one with its thread.
LEMMA ObtainedWorker ==
  ASSUME LifeInv, NEW k \in Kinds, NEW l \in Logs, worker' = Obtained(k, l)
  PROVE  /\ worker' \in [Kinds -> [Instances -> [object : BOOLEAN, thread : BOOLEAN, stopped : BOOLEAN]]]
         /\ \A q \in Kinds, n \in Instances :
              \/ worker'[q][n] = worker[q][n]
              \/ q = k /\ n = l /\ k \notin shared /\ worker'[q][n] = Started
         /\ k \notin shared => worker'[k][l] = Started
<1>1. Started \in [object : BOOLEAN, thread : BOOLEAN, stopped : BOOLEAN]
  BY DEF Started
<1>2. l \in Instances
  BY DEF Instances
<1>3. CASE k \in shared
  BY <1>3 DEF Obtained, LifeInv, LifeTypes
<1>4. CASE k \notin shared
  <2>1. worker' = [worker EXCEPT ![k][l] = Started]
    BY <1>4 DEF Obtained
  <2> QED BY <1>1, <1>2, <1>4, <2>1 DEF LifeInv, LifeTypes
<1> QED BY <1>3, <1>4

\* The constructor builds a part.
LEMMA BuildKeeps ==
  ASSUME LifeInv, NEW l \in Logs, Build(l)
  PROVE  LifeInv'
<1>0. UNCHANGED <<shared, tasks, registered, todo, at>>
  BY DEF Build
<1>1. PICK s \in 1..8 : Builds(l, s) /\ Step(l) = BuildOrder[s]
  BY ProceedBuilds DEF Build
<1>2. /\ app' \in [Logs -> AppStates] /\ (Kept' <=> Kept)
      /\ \A m \in Logs \ {l} : app'[m] = app[m]
      /\ \A q \in Rounds, m \in Logs : Registered(q, m) => Registered(q, m)'
      /\ \A a, b \in 1..8 : InLife(l, a, b) => InLife(l, a, b)'
      /\ \A a, b \in 1..8 : InLife(l, a, b)' => (s = a \/ InLife(l, a, b))
      /\ \A a, b \in 1..8 : s >= a => InLife(l, a, b)'
  <2>1. s \in 0..8 /\ Builds(l, s) /\ shared' = shared
    BY <1>0, <1>1
  <2> QED BY <2>1, BuildsLife
<1>3. /\ \A m \in Logs, a, b \in 1..8 : InLife(m, a, b) => InLife(m, a, b)'
      /\ \A m \in Logs, a, b \in 1..8 :
           InLife(m, a, b)' => (m = l /\ s = a) \/ InLife(m, a, b)
  <2>1. \A m \in Logs \ {l}, a, b \in 1..8 : InLife(m, a, b)' <=> InLife(m, a, b)
    BY <1>2 DEF InLife
  <2> QED BY <1>2, <2>1
<1>4. s \in {1, 2, 3, 5, 6, 7}
  BY <1>1, BuildSteps DEF Build
<1>5. /\ parts' \in [Logs -> SUBSET {"node", "executor", "observer", "cluster"}]
      /\ \A m \in Logs : parts[m] \subseteq parts'[m]
      /\ s = 1 => "node" \in parts'[l]
      /\ s = 2 => "executor" \in parts'[l]
      /\ s = 5 => "observer" \in parts'[l]
      /\ s = 6 => "cluster" \in parts'[l]
  <2>1. parts' = [parts EXCEPT ![l] = @ \cup ({BuildOrder[s]} \ Kinds)]
    BY <1>1 DEF Build
  <2>2. {BuildOrder[s]} \ Kinds \subseteq {"node", "executor", "observer", "cluster"}
    BY <1>4, BuildSteps DEF Kinds
  <2> QED BY <2>1, <2>2, BuildSteps DEF LifeInv, LifeTypes, Kinds
<1>6. /\ worker' \in [Kinds -> [Instances -> [object : BOOLEAN, thread : BOOLEAN, stopped : BOOLEAN]]]
      /\ \A q \in Kinds, n \in Instances :
           \/ worker'[q][n] = worker[q][n]
           \/ n = l /\ q \notin shared /\ Made(q) = s /\ worker'[q][n] = Started
      /\ \A q \in Kinds \ shared : Made(q) = s => worker'[q][l] = Started
  <2>1. CASE s = 2
    <3>1. worker' = Obtained("queue", l)
      BY <1>1, <2>1, BuildSteps DEF Build
    <3> QED BY <2>1, <3>1, ObtainedWorker DEF Kinds, Made
  <2>2. CASE s = 3
    <3>1. worker' = Obtained("timer", l)
      BY <1>1, <2>2, BuildSteps DEF Build
    <3> QED BY <2>2, <3>1, ObtainedWorker DEF Kinds, Made
  <2>3. CASE s = 7
    <3>1. worker' = Obtained("flusher", l)
      BY <1>1, <2>3, BuildSteps DEF Build
    <3> QED BY <2>3, <3>1, ObtainedWorker DEF Kinds, Made
  <2>4. CASE s \in {1, 5, 6}
    <3>1. worker' = worker
      BY <1>1, <2>4, BuildSteps DEF Build
    <3> QED BY <2>4, <3>1 DEF LifeInv, LifeTypes, Made
  <2> QED BY <1>4, <2>1, <2>2, <2>3, <2>4
<1>7. LifeTypes'
  BY <1>0, <1>2, <1>5, <1>6 DEF LifeInv, LifeTypes
<1>8. PartsStand'
  <2>1. ASSUME NEW m \in Logs
        PROVE  /\ InLife(m, 1, 6)' => (m = l /\ s = 1) \/ InLife(m, 1, 6)
               /\ InLife(m, 2, 5)' => (m = l /\ s = 2) \/ InLife(m, 2, 5)
               /\ InLife(m, 5, 4)' => (m = l /\ s = 5) \/ InLife(m, 5, 4)
               /\ InLife(m, 6, 3)' => (m = l /\ s = 6) \/ InLife(m, 6, 3)
    BY <1>3
  <2>2. ASSUME NEW m \in Logs
        PROVE  /\ InLife(m, 1, 6)' => "node" \in parts'[m]
               /\ InLife(m, 2, 5)' => "executor" \in parts'[m]
               /\ InLife(m, 5, 4)' => "observer" \in parts'[m]
               /\ InLife(m, 6, 3)' => "cluster" \in parts'[m]
    BY <1>5, <2>1 DEF LifeInv, PartsStand
  <2> QED BY <2>2 DEF PartsStand
<1>9. /\ \A q \in Kinds, m \in Logs : Owns(q, m) => Owns(q, m)'
      /\ \A q \in Kinds, m \in Logs : Owns(q, m)' => (m = l /\ s = Made(q)) \/ Owns(q, m)
      /\ \A q \in Kinds : s = Made(q) => Owns(q, l)'
  BY <1>2, <1>3 DEF Owns, Made, Until
<1>10. ThreadsStand'
  <2>1. ASSUME NEW q \in Kinds, NEW n \in Instances, Running(q, n)'
        PROVE  \/ n = Common /\ q \in shared
               \/ n \in Logs /\ q \notin shared /\ Owns(q, n)'
    <3>1. CASE worker'[q][n] = worker[q][n]
      <4>1. Running(q, n)
        BY <2>1, <3>1 DEF Running
      <4> QED BY <1>9, <4>1 DEF LifeInv, ThreadsStand
    <3>2. CASE worker'[q][n] # worker[q][n]
      BY <1>6, <1>9, <3>2
    <3> QED BY <3>1, <3>2
  <2> QED BY <1>0, <2>1 DEF ThreadsStand
<1>11. ObjectsStand'
  <2>1. shared \subseteq Kinds /\ Common \in Instances /\ Logs \subseteq Instances
    BY DEF LifeInv, LifeTypes, Instances
  <2>2. ASSUME Kept', NEW q \in shared PROVE worker'[q][Common].object
    BY <1>2, <1>6, <2>1, <2>2 DEF LifeInv, ObjectsStand
  <2>3. ASSUME NEW q \in Kinds \ shared, NEW m \in Logs, Owns(q, m)'
        PROVE  worker'[q][m].object
    <3>1. CASE m = l /\ s = Made(q)
      BY <1>6, <3>1 DEF Started
    <3>2. CASE Owns(q, m)
      <4>1. worker[q][m].object
        BY <3>2 DEF LifeInv, ObjectsStand
      <4> QED BY <1>6, <2>1, <4>1 DEF Started
    <3> QED BY <1>9, <2>3, <3>1, <3>2
  <2> QED BY <1>0, <2>2, <2>3 DEF ObjectsStand
<1>12. \A q \in Kinds, n \in Instances : Running(q, n) => Running(q, n)'
  BY <1>6 DEF Running, Started
<1> QED BY <1>0, <1>2, <1>7, <1>8, <1>10, <1>11, <1>12, AppFrame DEF LifeInv

\* Stop tells a worker to stop.
LEMMA StopWorkerKeeps ==
  ASSUME LifeInv, NEW l \in Logs, StopWorker(l)
  PROVE  LifeInv'
<1>0. UNCHANGED <<shared, app, parts, tasks, registered, todo, at>>
  BY DEF StopWorker
<1>1. PICK k \in Kinds : k = Stops(Step(l))
  BY DEF StopWorker
<1>2. PICK i \in Instances : i = Of(k, l)
  BY DEF Of, Instances
<1>3. PICK r \in [object : BOOLEAN, thread : BOOLEAN, stopped : BOOLEAN] :
        /\ r = [worker[k][i] EXCEPT !.stopped = TRUE]
        /\ r.thread = worker[k][i].thread /\ r.object = worker[k][i].object
  <2>1. worker[k][i] \in [object : BOOLEAN, thread : BOOLEAN, stopped : BOOLEAN]
    BY DEF LifeInv, LifeTypes
  <2>2. PICK r \in [object : BOOLEAN, thread : BOOLEAN, stopped : BOOLEAN] :
          r = [worker[k][i] EXCEPT !.stopped = TRUE]
    BY <2>1
  <2>3. r.thread = worker[k][i].thread /\ r.object = worker[k][i].object
    BY <2>1, <2>2
  <2> QED BY <2>2, <2>3
<1>4. worker' = [worker EXCEPT ![k] = [worker[k] EXCEPT ![i] = r]]
  BY <1>1, <1>2, <1>3 DEF StopWorker
<1>5. /\ worker' \in [Kinds -> [Instances -> [object : BOOLEAN, thread : BOOLEAN, stopped : BOOLEAN]]]
      /\ \A q \in Kinds, n \in Instances :
           worker'[q][n].thread = worker[q][n].thread /\ worker'[q][n].object = worker[q][n].object
  BY <1>3, <1>4 DEF LifeInv, LifeTypes
<1>6. LifeTypes'
  BY <1>0, <1>5 DEF LifeInv, LifeTypes
<1>7. PartsStand'
  BY <1>0 DEF LifeInv, PartsStand, InLife
<1>8. \A q \in Kinds, n \in Instances : Running(q, n) <=> Running(q, n)'
  BY <1>5 DEF Running
<1>9. /\ \A q, m : Owns(q, m)' = Owns(q, m)
      /\ Kept' = Kept
  BY <1>0 DEF Owns, InLife, Kept
<1>10. ThreadsStand' /\ ObjectsStand'
  <2>1. shared \subseteq Kinds /\ Common \in Instances /\ Logs \subseteq Instances
    BY DEF LifeInv, LifeTypes, Instances
  <2>2. ThreadsStand'
    BY <1>0, <1>8, <1>9 DEF LifeInv, ThreadsStand
  <2>3. ObjectsStand'
    <3>1. \A q \in shared : worker'[q][Common].object = worker[q][Common].object
      BY <1>5, <2>1
    <3>2. \A q \in Kinds, m \in Logs : worker'[q][m].object = worker[q][m].object
      BY <1>5, <2>1
    <3> QED BY <1>0, <1>9, <3>1, <3>2 DEF LifeInv, ObjectsStand
  <2> QED BY <2>2, <2>3
<1>11. \A q \in Rounds, m \in Logs : Registered(q, m) => Registered(q, m)'
  BY <1>0 DEF Registered
<1> QED BY <1>0, <1>6, <1>7, <1>8, <1>10, <1>11, AppFrame DEF LifeInv

\* The destructor destroys a part whose thread has left.
LEMMA DestroyPartKeeps ==
  ASSUME LifeInv, NEW l \in Logs, DestroyPart(l)
  PROVE  LifeInv'
<1>0. UNCHANGED <<shared, tasks, registered, todo, at>>
  BY DEF DestroyPart
<1>1. PICK s \in 1..6 : Destroys(l, s) /\ Step(l) = DestroyOrder[s]
  BY ProceedDestroys DEF DestroyPart
<1>2. /\ app' \in [Logs -> AppStates] /\ (Kept' => shared = {})
      /\ \A m \in Logs \ {l} : app'[m] = app[m]
      /\ \A k \in Rounds, m \in Logs : Registered(k, m) => Registered(k, m)'
      /\ \A a \in 1..8, b \in 1..6 : InLife(l, a, b)' => InLife(l, a, b) /\ s # b
      /\ \A a \in 1..8, b \in 1..6 : InLife(l, a, b) /\ s # b => InLife(l, a, b)'
  <2>1. s \in 0..6 /\ Destroys(l, s) /\ shared' = shared
    BY <1>0, <1>1
  <2> QED BY <2>1, DestroysLife
<1>3. /\ \A m \in Logs, a \in 1..8, b \in 1..6 :
           InLife(m, a, b)' => InLife(m, a, b) /\ (m = l => s # b)
      /\ \A m \in Logs, a \in 1..8, b \in 1..6 :
           InLife(m, a, b) /\ (m = l => s # b) => InLife(m, a, b)'
  <2>1. \A m \in Logs \ {l}, a, b \in 1..8 : InLife(m, a, b)' <=> InLife(m, a, b)
    BY <1>2 DEF InLife
  <2> QED BY <1>2, <2>1
<1>4. /\ parts' \in [Logs -> SUBSET {"node", "executor", "observer", "cluster"}]
      /\ \A m \in Logs : \A part \in parts[m] : part \in parts'[m] \/ (m = l /\ part = DestroyOrder[s])
  BY <1>1 DEF DestroyPart, LifeInv, LifeTypes
<1>5. /\ worker' \in [Kinds -> [Instances -> [object : BOOLEAN, thread : BOOLEAN, stopped : BOOLEAN]]]
      /\ \A q \in Kinds, n \in Instances :
           \/ worker'[q][n] = worker[q][n]
           \/ n = Of(q, l) /\ s = Until(q) /\ ~Running(q, n) /\ worker'[q][n] = NoWorker
      /\ \A q \in Kinds : s = Until(q) => ~Running(q, Of(q, l))
  <2>1. CASE s \in {3, 4, 6}
    <3>1. worker' = worker
      BY <1>1, <2>1, DestroySteps DEF DestroyPart, Stops, Kinds
    <3> QED BY <2>1, <3>1 DEF LifeInv, LifeTypes, Until
  <2>2. CASE s \in {1, 2, 5}
    <3>1. PICK k \in Kinds : k = Stops(DestroyOrder[s]) /\ \A q \in Kinds : s = Until(q) <=> q = k
      BY <2>2, DestroySteps DEF Stops, Kinds, Until
    <3>2. PICK i \in Instances : i = Of(k, l)
      BY DEF Of, Instances
    <3>3. ~Running(k, i) /\ worker' = [worker EXCEPT ![k][i] = NoWorker]
      BY <1>1, <3>1, <3>2 DEF DestroyPart
    <3>4. NoWorker \in [object : BOOLEAN, thread : BOOLEAN, stopped : BOOLEAN]
      BY DEF NoWorker
    <3>5. /\ worker' \in [Kinds -> [Instances -> [object : BOOLEAN, thread : BOOLEAN, stopped : BOOLEAN]]]
          /\ \A q \in Kinds, n \in Instances :
               worker'[q][n] = IF q = k /\ n = i THEN NoWorker ELSE worker[q][n]
      BY <3>3, <3>4 DEF LifeInv, LifeTypes
    <3> QED BY <3>1, <3>2, <3>3, <3>5
  <2> QED BY <2>1, <2>2
<1>6. \A q \in Kinds, n \in Instances : Running(q, n)' <=> Running(q, n)
  BY <1>5 DEF Running, NoWorker
<1>7. LifeTypes'
  BY <1>0, <1>2, <1>4, <1>5 DEF LifeInv, LifeTypes
<1>8. PartsStand'
  <2>1. /\ DestroyOrder[s] = "node" => s = 6
        /\ DestroyOrder[s] = "executor" => s = 5
        /\ DestroyOrder[s] = "observer" => s = 4
        /\ DestroyOrder[s] = "cluster" => s = 3
    BY DestroySteps
  <2>2. ASSUME NEW m \in Logs
        PROVE  /\ InLife(m, 1, 6)' => InLife(m, 1, 6) /\ (m = l => s # 6)
               /\ InLife(m, 2, 5)' => InLife(m, 2, 5) /\ (m = l => s # 5)
               /\ InLife(m, 5, 4)' => InLife(m, 5, 4) /\ (m = l => s # 4)
               /\ InLife(m, 6, 3)' => InLife(m, 6, 3) /\ (m = l => s # 3)
    BY <1>3
  <2>3. ASSUME NEW m \in Logs
        PROVE  /\ InLife(m, 1, 6)' => "node" \in parts'[m]
               /\ InLife(m, 2, 5)' => "executor" \in parts'[m]
               /\ InLife(m, 5, 4)' => "observer" \in parts'[m]
               /\ InLife(m, 6, 3)' => "cluster" \in parts'[m]
    BY <1>4, <2>1, <2>2 DEF LifeInv, PartsStand
  <2> QED BY <2>3 DEF PartsStand
<1>9. \A q \in Kinds, m \in Logs : Owns(q, m)' <=> Owns(q, m) /\ ~(m = l /\ s = Until(q))
  <2>1. \A q \in Kinds : Made(q) \in 1..8 /\ Until(q) \in 1..6
    BY DEF Made, Until
  <2> QED BY <1>3, <2>1 DEF Owns
<1>10. ThreadsStand'
  <2>1. ASSUME NEW q \in Kinds, NEW n \in Instances, Running(q, n)'
        PROVE  \/ n = Common /\ q \in shared
               \/ n \in Logs /\ q \notin shared /\ Owns(q, n)'
    <3>1. Running(q, n)
      BY <1>6, <2>1
    <3>2. q \notin shared => Of(q, l) = l
      BY DEF Of
    <3> QED BY <1>5, <1>9, <3>1, <3>2 DEF LifeInv, ThreadsStand
  <2> QED BY <1>0, <2>1 DEF ThreadsStand
<1>11. ObjectsStand'
  <2>1. ASSUME NEW q \in Kinds \ shared, NEW m \in Logs, Owns(q, m)'
        PROVE  worker'[q][m].object
    <3>1. Owns(q, m) /\ ~(m = l /\ s = Until(q))
      BY <1>9, <2>1
    <3>2. m \in Instances /\ Of(q, l) = l
      BY DEF Instances, Of
    <3>3. worker'[q][m] = worker[q][m]
      BY <1>5, <3>1, <3>2
    <3> QED BY <3>1, <3>3 DEF LifeInv, ObjectsStand
  <2> QED BY <1>0, <1>2, <2>1 DEF ObjectsStand
<1> QED BY <1>0, <1>2, <1>6, <1>7, <1>8, <1>10, <1>11, AppFrame DEF LifeInv

-----------------------------------------------------------------------------
\* The invariant holds of every reachable state.
LEMMA LifeInvHolds == Spec => []LifeInv
<1>1. Init => LifeInv
  BY LifeInvInit
<1>2. LifeInv /\ [Next]_vars => LifeInv'
  <2> SUFFICES ASSUME LifeInv, [Next]_vars PROVE LifeInv'
    OBVIOUS
  <2>1. ASSUME NEW l \in Logs, Create(l) \/ Destroy(l) \/ AppStep(l) PROVE LifeInv'
    BY <2>1, CreateKeeps, DestroyKeeps, BuildKeeps, RegisterKeeps, StopWorkerKeeps,
       DestroyPartKeeps DEF AppStep
  <2>2. ASSUME NEW k \in Kinds, NEW i \in Instances, ThreadStep(k, i) PROVE LifeInv'
    BY <2>2, LeaveKeeps, BeginRoundKeeps, SubmitTaskKeeps, NextLogKeeps DEF ThreadStep
  <2>3. CASE UNCHANGED vars
    <3>0. UNCHANGED <<shared, app, parts, worker, tasks, registered, todo, at>>
      BY <2>3 DEF vars
    <3>1. LifeTypes'
      BY <3>0 DEF LifeInv, LifeTypes
    <3>2. TasksStand'
      BY <3>0 DEF LifeInv, TasksStand, Of
    <3>3. ListsStand'
      <4>1. \A n \in Instances : \A t \in tasks'[n] :
              Of("queue", t[2]) = n /\ Registered(t[1], t[2])
        BY <3>0 DEF LifeInv, ListsStand
      <4> QED BY <3>0, <4>1, TasksFrame
    <3> QED BY <3>0, <3>1, <3>2, <3>3, ThreadFrame DEF LifeInv
  <2> QED BY <2>1, <2>2, <2>3, FlushReadyKeeps, RunTaskKeeps DEF Next, Finished
<1> QED BY <1>1, <1>2, PTL DEF Spec

\* A log that a round visits, or that a task is about, owns the object of the thread
\* unless something shared is deleted.
LEMMA VisitedOwns ==
  ASSUME LifeInv, Kept, NEW k \in Kinds, NEW i \in Instances, NEW l \in Logs,
         NEW q \in Rounds, k \in {q, "queue"},
         Running(k, i), Of(k, l) = i, Registered(q, l)
  PROVE  Owns(k, l)
<1>1. CASE k \in shared
  <2>1. app[l] \in AppStates /\ app[l].doing \notin {"destroy", "gone"}
    BY <1>1 DEF LifeInv, LifeTypes, Kept
  <2>2. \/ app[l].doing = "live"
        \/ app[l].doing = "build" /\ app[l].step > (IF q = "timer" THEN 4 ELSE 8)
    BY <2>1 DEF Registered
  <2> QED BY <2>1, <2>2 DEF Owns, Made, InLife, AppStates, Rounds
<1>2. CASE k \notin shared
  <2>1. i = l /\ i # Common
    BY <1>2, LifecycleAssumption DEF Of
  <2> QED BY <2>1 DEF LifeInv, ThreadsStand
<1> QED BY <1>1, <1>2

\* The object a log refers to is there while the log owns it or shares it.
LEMMA ObjectThere ==
  ASSUME LifeInv, Kept, NEW k \in Kinds, NEW l \in Logs, Owns(k, l)
  PROVE  worker[k][Of(k, l)].object
BY DEF LifeInv, ObjectsStand, Of

\* The invariant is strong enough.
LEMMA LifeInvTouches == LifeInv => TouchesOnlyLive
<1> SUFFICES ASSUME LifeInv, Kept PROVE UsesLive
  BY DEF TouchesOnlyLive
<1>0. \A l \in Logs : app[l] \in AppStates
  BY DEF LifeInv, LifeTypes
<1>1. ASSUME NEW k \in Rounds, NEW i \in Instances, Touched(k, i) # {}
      PROVE  LET l == Head(todo[k][i]) IN
               Touched(k, i) \subseteq parts[l] /\ worker["queue"][Of("queue", l)].object
  <2>1. todo[k][i] # << >> /\ todo[k][i] \in Seq(Logs)
    BY <1>1 DEF Touched, LifeInv, LifeTypes, Rounds, Kinds
  <2>2. PICK l \in Logs : l = Head(todo[k][i])
    BY <2>1
  <2>3. Visited(k, i, l) /\ Running(k, i)
    BY <2>1, <2>2 DEF LifeInv, ListsStand
  <2>4. Owns(k, l)
    BY <2>3, VisitedOwns DEF Visited, Rounds, Kinds
  <2>5. /\ InLife(l, 2, 5) /\ Owns("queue", l)
        /\ k = "flusher" => InLife(l, 1, 6) /\ InLife(l, 5, 4) /\ InLife(l, 6, 3)
    BY <1>0, <2>4 DEF Owns, Made, Until, InLife, Rounds, AppStates
  <2>6. worker["queue"][Of("queue", l)].object
    BY <2>5, ObjectThere DEF Kinds
  <2>7. Touched(k, i) \subseteq parts[l]
    BY <2>1, <2>5 DEF Touched, LifeInv, LifeTypes, PartsStand, Rounds
  <2> QED BY <2>2, <2>6, <2>7
<1>2. ASSUME NEW i \in Instances, Running("queue", i), NEW t \in tasks[i]
      PROVE  "node" \in parts[t[2]]
  <2>1. PICK k \in Rounds, l \in Logs : t[1] = k /\ t[2] = l
    BY DEF LifeInv, LifeTypes
  <2>2. Of("queue", l) = i /\ Registered(k, l)
    BY <2>1 DEF LifeInv, ListsStand
  <2>3. Owns("queue", l)
    BY <1>2, <2>2, VisitedOwns DEF Kinds
  <2>4. InLife(l, 1, 6)
    BY <1>0, <2>3 DEF Owns, Made, Until, InLife, AppStates
  <2> QED BY <2>1, <2>4 DEF LifeInv, PartsStand
<1>3. ASSUME NEW l \in Logs, Building(l)
      PROVE  /\ Step(l) = "regTimer" => worker["timer"][Of("timer", l)].object
             /\ Step(l) = "regFlusher" => worker["flusher"][Of("flusher", l)].object
  <2>1. PICK s \in 1..8 : app[l].doing = "build" /\ app[l].step = s /\ Step(l) = BuildOrder[s]
    BY <1>0, <1>3 DEF AppStates, Building, Step
  <2>2. /\ Step(l) = "regTimer" => s = 4
        /\ Step(l) = "regFlusher" => s = 8
    BY <2>1, BuildSteps
  <2>3. /\ Step(l) = "regTimer" => Owns("timer", l)
        /\ Step(l) = "regFlusher" => Owns("flusher", l)
    BY <2>1, <2>2 DEF Owns, Made, InLife
  <2> QED BY <2>3, ObjectThere DEF Kinds
<1>4. ASSUME NEW l \in Logs, Destroying(l), Stops(Step(l)) \in Kinds
      PROVE  worker[Stops(Step(l))][Of(Stops(Step(l)), l)].object
  <2>1. PICK s \in 1..6 : app[l].doing = "destroy" /\ app[l].step = s /\ Step(l) = DestroyOrder[s]
    BY <1>0, <1>4 DEF AppStates, Building, Destroying, Step
  <2>2. PICK k \in Kinds : k = Stops(Step(l)) /\ s = Until(k)
    BY <1>4, <2>1, DestroySteps DEF Stops, Kinds, Until
  <2>3. Owns(k, l)
    BY <2>1, <2>2 DEF Owns, InLife
  <2> QED BY <2>2, <2>3, ObjectThere
<1> QED BY <1>1, <1>2, <1>3, <1>4 DEF UsesLive, Rounds

\* Of any number of replicated logs, no part or object is used before it is built
\* or after it is destroyed, in whatever order the threads run while New and the
\* destructors do (replicated_log_impl.h:37-91 and 128-142): always for logs that
\* share nothing, and up to the first deletion for logs that share an object.
THEOREM ThreadsTouchOnlyLive == Spec => []TouchesOnlyLive
BY LifeInvHolds, LifeInvTouches, PTL

-----------------------------------------------------------------------------
(* A thread runs inside an object that exists *)

ThreadsOwned ==
  \A k \in Kinds, i \in Instances : worker[k][i].thread => worker[k][i].object

\* Starting an object starts both; Stop and the loop's end leave the object; an
\* object goes when its thread is joined.
LEMMA OwnedInductive == ThreadsOwned /\ LifeInv /\ [Next]_vars => ThreadsOwned'
<1> SUFFICES ASSUME ThreadsOwned, LifeInv, [Next]_vars
             PROVE  ThreadsOwned'
  OBVIOUS
<1>0. worker \in [Kinds -> [Instances -> [object : BOOLEAN, thread : BOOLEAN, stopped : BOOLEAN]]]
  BY DEF LifeInv, LifeTypes
<1>1. CASE UNCHANGED worker
  BY <1>1 DEF ThreadsOwned
<1>2. ASSUME NEW k \in Kinds, NEW i \in Instances, Leave(k, i) PROVE ThreadsOwned'
  BY <1>0, <1>2 DEF Leave, ThreadsOwned
<1>3. ASSUME NEW l \in Logs, NEW k \in Kinds, worker' = Obtained(k, l) PROVE ThreadsOwned'
  <2>1. l \in Instances
    BY DEF Instances
  <2> QED BY <1>0, <1>3, <2>1 DEF Obtained, Started, ThreadsOwned
<1>4. ASSUME NEW l \in Logs, Build(l) PROVE ThreadsOwned'
  <2>1. CASE Step(l) = "executor"
    BY <1>3, <1>4, <2>1 DEF Build, Kinds
  <2>2. CASE Step(l) \in {"timer", "flusher"}
    BY <1>3, <1>4, <2>2 DEF Build, Kinds
  <2>3. CASE Step(l) \notin {"executor", "timer", "flusher"}
    BY <1>1, <1>4, <2>3 DEF Build
  <2> QED BY <2>1, <2>2, <2>3
<1>5. ASSUME NEW l \in Logs, StopWorker(l) PROVE ThreadsOwned'
  <2>1. PICK k \in Kinds : worker' = [worker EXCEPT ![k][Of(k, l)].stopped = TRUE]
    BY <1>5 DEF StopWorker
  <2>2. Of(k, l) \in Instances
    BY DEF Of, Instances
  <2> QED BY <1>0, <2>1, <2>2 DEF ThreadsOwned
<1>6. ASSUME NEW l \in Logs, DestroyPart(l) PROVE ThreadsOwned'
  <2>1. CASE Stops(Step(l)) \in Kinds
    <3>1. PICK k \in Kinds : worker' = [worker EXCEPT ![k][Of(k, l)] = NoWorker]
      BY <1>6, <2>1 DEF DestroyPart
    <3>2. Of(k, l) \in Instances
      BY DEF Of, Instances
    <3> QED BY <1>0, <3>1, <3>2 DEF ThreadsOwned, NoWorker
  <2>2. CASE Stops(Step(l)) \notin Kinds
    BY <1>1, <1>6, <2>2 DEF DestroyPart
  <2> QED BY <2>1, <2>2
<1>7. ASSUME NEW l \in Logs, Create(l) \/ Destroy(l) \/ \E k \in Kinds : Register(k, l)
      PROVE  ThreadsOwned'
  BY <1>1, <1>7 DEF Create, Destroy, Register
<1>8. ASSUME NEW k \in Kinds, NEW i \in Instances,
             BeginRound(k, i) \/ SubmitTask(k, i) \/ NextLog(k, i) \/ FlushReady(i)
               \/ \E l \in Logs : RunTask(i, k, l)
      PROVE  ThreadsOwned'
  BY <1>1, <1>8 DEF BeginRound, SubmitTask, NextLog, FlushReady, RunTask
<1> QED BY <1>1, <1>2, <1>4, <1>5, <1>6, <1>7, <1>8 DEF Next, AppStep, ThreadStep, Finished, vars

\* The types of the lifecycle, for any number of logs, and that no object goes
\* while its thread runs: Stop joins the thread (background_worker.cc:46-57) before
\* the destructor of the queue, the timer or the flusher comes to its members.
THEOREM LifecycleTypes == Spec => []TypeOK
<1>1. Init => ThreadsOwned
  BY DEF Init, ThreadsOwned, NoWorker, Started
<1>2. LifeInv /\ ThreadsOwned => TypeOK
  <2> SUFFICES ASSUME LifeInv, ThreadsOwned PROVE TypeOK
    OBVIOUS
  <2>1. ASSUME NEW l \in Logs
        PROVE  app[l].doing \in {"none", "build", "live", "destroy", "gone"}
    BY DEF LifeInv, LifeTypes, AppStates
  <2> QED BY <2>1 DEF LifeInv, LifeTypes, ThreadsOwned, TypeOK
<1> QED BY <1>1, <1>2, LifeInvHolds, OwnedInductive, PTL DEF Spec

=============================================================================
