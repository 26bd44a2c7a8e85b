---------------------------- MODULE RaftRpcProofs ----------------------------
(***************************************************************************)
(* Of the server's calls, for any number of them, any number of workers    *)
(* and any messages: no task outlives its handler, no message is stepped   *)
(* twice (RpcInv), what a reply on its way says was true of the node when  *)
(* its task ran (ReplyInv), and there are no more tasks than workers       *)
(* (WorkersSuffice).                                                       *)
(***************************************************************************)
EXTENDS RaftRpc, FiniteSetTheorems, TLAPS

ServerStates == {"none", "wire", "arrived", "blocked", "returning", "answer"}

\* The types the argument needs.
CallTypes ==
  /\ server \in [Calls -> ServerStates]
  /\ arrived \in Seq(Calls) /\ queue \in Seq(Calls)
  /\ proposed \in SUBSET WriteCalls
  /\ stepped \in [Calls -> Nat]

\* A call is at one place only: once among those without a worker, or once in
\* the executor's queue, or once among the proposals.
ArrivedOnce ==
  /\ \A i \in 1..Len(arrived) : server[arrived[i]] = "arrived"
  /\ \A i, j \in 1..Len(arrived) : arrived[i] = arrived[j] => i = j

QueuedOnce ==
  /\ \A i \in 1..Len(queue) : server[queue[i]] = "blocked" /\ queue[i] \notin proposed
  /\ \A i, j \in 1..Len(queue) : queue[i] = queue[j] => i = j

ProposedWait == \A c \in proposed : server[c] = "blocked"

\* A message is not stepped before its task is taken from the queue.
NotYetStepped ==
  /\ \A c \in Calls : stepped[c] <= 1
  /\ \A c \in Calls : server[c] \in {"wire", "arrived"} => stepped[c] = 0
  /\ \A i \in 1..Len(queue) : stepped[queue[i]] = 0

\* The inductive invariant.
RpcInv == CallTypes /\ ArrivedOnce /\ QueuedOnce /\ ProposedWait /\ NotYetStepped

-----------------------------------------------------------------------------
\* A call that is neither with a worker nor waiting for one moves between its
\* caller and the wire: Begin, Lose, Fail, Answer and Return.
Moves(c) ==
  /\ server[c] \in {"none", "wire", "returning", "answer"}
  /\ server' \in [Calls -> ServerStates] /\ stepped' \in [Calls -> Nat]
  /\ \A d \in Calls \ {c} : server'[d] = server[d] /\ stepped'[d] = stepped[d]
  /\ server'[c] \in {"none", "wire", "answer"}
  /\ server'[c] = "wire" => stepped'[c] = 0
  /\ stepped'[c] = 0 \/ stepped'[c] = stepped[c]
  /\ UNCHANGED <<arrived, queue, proposed>>

\* The places of the other calls are not touched by such a move.
LEMMA MovesKeep == ASSUME RpcInv, NEW c \in Calls, Moves(c) PROVE RpcInv'
<1>1. /\ \A i \in 1..Len(arrived) : arrived[i] \in Calls \ {c}
      /\ \A i \in 1..Len(queue) : queue[i] \in Calls \ {c}
      /\ c \notin proposed
  BY DEF RpcInv, CallTypes, ArrivedOnce, QueuedOnce, ProposedWait, Moves
<1>2. CallTypes'
  BY DEF RpcInv, CallTypes, Moves
<1>3. ArrivedOnce' /\ QueuedOnce'
  <2>1. ArrivedOnce'
    BY <1>1 DEF RpcInv, ArrivedOnce, Moves
  <2>2. QueuedOnce'
    BY <1>1 DEF RpcInv, QueuedOnce, Moves
  <2> QED BY <2>1, <2>2
<1>4. ProposedWait'
  BY <1>1 DEF RpcInv, ProposedWait, CallTypes, Calls, Moves
<1>5. NotYetStepped'
  <2>1. ASSUME NEW d \in Calls PROVE stepped'[d] <= 1
    <3>1. stepped'[d] = 0 \/ stepped'[d] = stepped[d]
      BY DEF Moves
    <3>2. stepped[d] <= 1
      BY DEF RpcInv, NotYetStepped
    <3> QED BY <3>1, <3>2
  <2>2. \A d \in Calls : server'[d] \in {"wire", "arrived"} => stepped'[d] = 0
    BY DEF RpcInv, NotYetStepped, CallTypes, Moves
  <2>3. \A i \in 1..Len(queue) : stepped'[queue[i]] = 0
    BY <1>1 DEF RpcInv, NotYetStepped, CallTypes, Moves
  <2> QED BY <2>1, <2>2, <2>3 DEF NotYetStepped, Moves
<1> QED BY <1>2, <1>3, <1>4, <1>5 DEF RpcInv

\* Begin puts a call on the wire.
LEMMA BeginMoves == ASSUME RpcInv, NEW c \in Calls, NEW fields, Begin(c, fields) PROVE Moves(c)
BY DEF RpcInv, CallTypes, Begin, Moves, ServerStates

\* With no retry a request or an answer that is lost is forgotten.
LEMMA LoseMoves == ASSUME RpcInv, NEW c \in Calls, Lose(c) PROVE Moves(c)
<1>1. server[c] \in {"wire", "answer"} /\ server' = [server EXCEPT ![c] = "none"]
      /\ stepped' = [stepped EXCEPT ![c] = 0] /\ UNCHANGED <<arrived, queue, proposed>>
  BY DEF Lose, Forget, MaxRetry
<1> QED BY <1>1 DEF RpcInv, CallTypes, Moves, ServerStates

\* The answer is taken or dropped.
LEMMA AnswerMoves == ASSUME RpcInv, NEW c \in Calls, Answer(c) PROVE Moves(c)
<1>1. /\ server[c] = "answer" /\ server' = [server EXCEPT ![c] = "none"]
      /\ UNCHANGED <<arrived, queue, proposed>>
  BY DEF Answer
<1>2. CASE client[c] = "waiting"
  <2>1. stepped' = stepped
    BY <1>2 DEF Answer
  <2> QED BY <1>1, <2>1 DEF RpcInv, CallTypes, Moves, ServerStates
<1>3. CASE client[c] # "waiting"
  <2>1. stepped' = [stepped EXCEPT ![c] = 0]
    BY <1>3 DEF Answer, Forget
  <2> QED BY <1>1, <2>1 DEF RpcInv, CallTypes, Moves, ServerStates
<1> QED BY <1>2, <1>3

\* The handler returns.
LEMMA ReturnMoves == ASSUME RpcInv, NEW c \in Calls, Return(c) PROVE Moves(c)
BY DEF RpcInv, CallTypes, Return, Moves, ServerStates

\* A request that arrives is queued for a worker, once.
LEMMA DeliverKeeps == ASSUME RpcInv, NEW c \in Calls, Deliver(c) PROVE RpcInv'
<1>1. /\ \A i \in 1..Len(arrived) : arrived[i] \in Calls \ {c}
      /\ \A i \in 1..Len(queue) : queue[i] \in Calls \ {c}
      /\ c \notin proposed
  BY DEF RpcInv, CallTypes, ArrivedOnce, QueuedOnce, ProposedWait, Deliver
<1>2. CallTypes'
  BY DEF RpcInv, CallTypes, Deliver, ServerStates
<1>3. /\ Len(arrived') = Len(arrived) + 1 /\ arrived'[Len(arrived) + 1] = c
      /\ \A i \in 1..Len(arrived) : arrived'[i] = arrived[i]
  BY DEF RpcInv, CallTypes, Deliver
<1>4. ArrivedOnce'
  BY <1>1, <1>3 DEF RpcInv, CallTypes, ArrivedOnce, Deliver
<1>5. QueuedOnce' /\ ProposedWait'
  BY <1>1 DEF RpcInv, CallTypes, QueuedOnce, ProposedWait, Deliver
<1>6. NotYetStepped'
  BY <1>1 DEF RpcInv, CallTypes, NotYetStepped, Deliver
<1> QED BY <1>2, <1>4, <1>5, <1>6 DEF RpcInv

\* A worker takes the first call and puts its task into the queue.
LEMMA DispatchKeeps == ASSUME RpcInv, Dispatch PROVE RpcInv'
<1> DEFINE c == Head(arrived)
<1>1. /\ arrived # << >> /\ c \in Calls /\ c = arrived[1] /\ Len(arrived) \in Nat /\ Len(arrived) > 0
      /\ server[c] = "arrived" /\ stepped[c] = 0
      /\ server' = [server EXCEPT ![c] = "blocked"]
      /\ queue' = Append(queue, c) /\ arrived' = Tail(arrived)
      /\ UNCHANGED <<proposed, stepped>>
  BY DEF RpcInv, CallTypes, ArrivedOnce, NotYetStepped, Dispatch
<1>2. /\ \A i \in 1..Len(queue) : queue[i] \in Calls \ {c}
      /\ c \notin proposed
  BY <1>1 DEF RpcInv, CallTypes, QueuedOnce, ProposedWait
<1>3. /\ Len(arrived') = Len(arrived) - 1
      /\ \A i \in 1..Len(arrived') : i + 1 \in 1..Len(arrived) /\ arrived'[i] = arrived[i + 1]
  BY <1>1 DEF RpcInv, CallTypes
<1>4. /\ Len(queue) \in Nat /\ Len(queue') = Len(queue) + 1 /\ queue'[Len(queue) + 1] = c
      /\ \A i \in 1..Len(queue) : queue'[i] = queue[i]
  BY <1>1 DEF RpcInv, CallTypes
<1>5. CallTypes'
  BY <1>1 DEF RpcInv, CallTypes, ServerStates
<1> HIDE DEF c
<1>6. ArrivedOnce'
  <2>1. \A i \in 1..Len(arrived') : arrived'[i] \in Calls /\ arrived'[i] # c
    BY <1>1, <1>3 DEF RpcInv, CallTypes, ArrivedOnce
  <2> QED BY <1>1, <1>3, <2>1 DEF RpcInv, CallTypes, ArrivedOnce
<1>7. QueuedOnce'
  BY <1>1, <1>2, <1>4 DEF RpcInv, CallTypes, QueuedOnce
<1>8. ProposedWait'
  BY <1>1, <1>2 DEF RpcInv, CallTypes, ProposedWait, Calls
<1>9. NotYetStepped'
  BY <1>1, <1>2, <1>4 DEF RpcInv, CallTypes, NotYetStepped
<1> QED BY <1>5, <1>6, <1>7, <1>8, <1>9 DEF RpcInv

\* The task of c is done: c's handler, and those of some proposals, return.
Executed(c) ==
  /\ queue # << >> /\ c = Head(queue) /\ queue' = Tail(queue)
  /\ server' \in [Calls -> ServerStates] /\ stepped' \in [Calls -> Nat]
  /\ \A d \in Calls \ {c} : stepped'[d] = stepped[d]
  /\ stepped'[c] <= stepped[c] + 1
  /\ proposed' \subseteq proposed \cup {c} /\ proposed' \in SUBSET WriteCalls
  /\ \A d \in Calls : server'[d] # server[d] =>
       server'[d] = "returning" /\ d \in proposed \cup {c} /\ d \notin proposed'
  /\ UNCHANGED arrived

\* The one that was first in the queue is nowhere in it any more.
LEMMA ExecutedKeeps == ASSUME RpcInv, NEW c \in Calls, Executed(c) PROVE RpcInv'
<1>1. /\ Len(queue) \in Nat /\ Len(queue) > 0 /\ c = queue[1] /\ server[c] = "blocked"
      /\ stepped[c] = 0 /\ c \notin proposed
  BY DEF RpcInv, CallTypes, QueuedOnce, NotYetStepped, Executed
<1>2. /\ Len(queue') = Len(queue) - 1
      /\ \A i \in 1..Len(queue') : i + 1 \in 1..Len(queue) /\ queue'[i] = queue[i + 1]
  BY <1>1 DEF RpcInv, CallTypes, Executed
<1>3. ASSUME NEW i \in 1..Len(queue')
      PROVE  queue'[i] \in Calls /\ queue'[i] # c /\ queue'[i] \notin proposed
  <2>1. i + 1 \in 1..Len(queue) /\ i + 1 # 1 /\ 1 \in 1..Len(queue)
    BY <1>1, <1>2
  <2>2. queue[i + 1] # queue[1]
    BY <2>1 DEF RpcInv, QueuedOnce
  <2>3. queue[i + 1] \in Calls /\ queue[i + 1] \notin proposed
    BY <2>1 DEF RpcInv, CallTypes, QueuedOnce
  <2> QED BY <1>1, <1>2, <2>2, <2>3
<1>4. CallTypes'
  BY DEF RpcInv, CallTypes, Executed
<1>5. ArrivedOnce'
  <2>1. ASSUME NEW i \in 1..Len(arrived) PROVE server'[arrived[i]] = "arrived"
    <3>1. arrived[i] \in Calls /\ server[arrived[i]] = "arrived"
      BY DEF RpcInv, CallTypes, ArrivedOnce
    <3>2. arrived[i] \notin proposed \cup {c}
      BY <1>1, <3>1 DEF RpcInv, ProposedWait
    <3> QED BY <3>1, <3>2 DEF Executed
  <2> QED BY <2>1 DEF RpcInv, ArrivedOnce, Executed
<1>6. QueuedOnce'
  <2>1. ASSUME NEW i \in 1..Len(queue')
        PROVE  server'[queue'[i]] = "blocked" /\ queue'[i] \notin proposed'
    <3>1. server[queue'[i]] = "blocked"
      BY <1>2 DEF RpcInv, QueuedOnce
    <3> QED BY <1>3, <3>1 DEF Executed
  <2>2. \A i, j \in 1..Len(queue') : queue'[i] = queue'[j] => i = j
    BY <1>1, <1>2 DEF RpcInv, QueuedOnce
  <2> QED BY <2>1, <2>2 DEF QueuedOnce
<1>7. ProposedWait'
  <2> SUFFICES ASSUME NEW d \in proposed' PROVE server'[d] = "blocked"
    BY DEF ProposedWait
  <2>1. d \in Calls /\ server[d] = "blocked"
    BY <1>1 DEF RpcInv, ProposedWait, Executed, Calls
  <2> QED BY <2>1 DEF Executed
<1>8. NotYetStepped'
  <2>1. ASSUME NEW d \in Calls PROVE stepped'[d] <= 1
    <3>1. CASE d = c
      BY <1>1, <3>1 DEF Executed
    <3>2. CASE d # c
      BY <3>2 DEF RpcInv, NotYetStepped, Executed
    <3> QED BY <3>1, <3>2
  <2>2. ASSUME NEW d \in Calls, server'[d] \in {"wire", "arrived"} PROVE stepped'[d] = 0
    <3>1. server[d] \in {"wire", "arrived"}
      BY <2>2 DEF Executed
    <3>2. d # c
      BY <1>1, <3>1
    <3> QED BY <3>1, <3>2 DEF RpcInv, NotYetStepped, Executed
  <2>3. ASSUME NEW i \in 1..Len(queue') PROVE stepped'[queue'[i]] = 0
    <3>1. stepped[queue'[i]] = 0
      BY <1>2 DEF RpcInv, NotYetStepped
    <3> QED BY <1>3, <3>1 DEF Executed
  <2> QED BY <2>1, <2>2, <2>3 DEF NotYetStepped
<1> QED BY <1>4, <1>5, <1>6, <1>7, <1>8 DEF RpcInv

\* The tasks of Step, of Status and of a Write.
LEMMA ExecuteKeeps == ASSUME RpcInv, Execute PROVE RpcInv'
<1>0. PICK c \in Calls : c = Head(queue)
  BY DEF RpcInv, CallTypes, Execute
<1>1. /\ queue # << >> /\ c = Head(queue) /\ server[c] = "blocked" /\ stepped[c] \in Nat
      /\ c \notin proposed /\ queue' = Tail(queue) /\ UNCHANGED arrived
  BY <1>0 DEF RpcInv, CallTypes, QueuedOnce, Execute
<1>2. CASE StepTask(c)
  <2>1. /\ server' = [server EXCEPT ![c] = "returning"] /\ UNCHANGED proposed
        /\ stepped' = [stepped EXCEPT ![c] = @ + 1]
    BY <1>2 DEF StepTask
  <2>2. /\ stepped' \in [Calls -> Nat] /\ stepped'[c] <= stepped[c] + 1
        /\ \A d \in Calls \ {c} : stepped'[d] = stepped[d]
    BY <1>1, <2>1 DEF RpcInv, CallTypes
  <2>3. /\ server' \in [Calls -> ServerStates]
        /\ \A d \in Calls : server'[d] # server[d] => server'[d] = "returning" /\ d = c
    BY <2>1 DEF RpcInv, CallTypes, ServerStates
  <2>4. Executed(c)
    BY <1>1, <2>1, <2>2, <2>3 DEF Executed, RpcInv, CallTypes
  <2> QED BY <2>4, ExecutedKeeps
<1>3. CASE StatusTask(c)
  <2>1. server' = [server EXCEPT ![c] = "returning"] /\ UNCHANGED <<proposed, stepped>>
    BY <1>3 DEF StatusTask
  <2>2. /\ server' \in [Calls -> ServerStates]
        /\ \A d \in Calls : server'[d] # server[d] =>
             server'[d] = "returning" /\ d \in proposed \cup {c} /\ d \notin proposed'
    <3>1. server' \in [Calls -> ServerStates]
      BY <2>1 DEF RpcInv, CallTypes, ServerStates
    <3>2. ASSUME NEW d \in Calls, server'[d] # server[d]
          PROVE  server'[d] = "returning" /\ d \in proposed \cup {c} /\ d \notin proposed'
      BY <1>1, <2>1, <3>2 DEF RpcInv, CallTypes
    <3> QED BY <3>1, <3>2
  <2>3. stepped' \in [Calls -> Nat] /\ stepped'[c] <= stepped[c] + 1
    BY <1>1, <2>1 DEF RpcInv, CallTypes
  <2>4. Executed(c)
    BY <1>1, <2>1, <2>2, <2>3 DEF Executed, RpcInv, CallTypes
  <2> QED BY <2>4, ExecutedKeeps
<1>4. CASE c \in WriteCalls /\ WriteTask(c)
  <2>1. /\ stepped' = stepped
        /\ \/ server' = [server EXCEPT ![c] = "returning"] /\ proposed' = proposed
           \/ server' = server /\ proposed' = proposed \cup {c}
    BY <1>4 DEF WriteTask
  <2>2. /\ server' \in [Calls -> ServerStates]
        /\ \A d \in Calls : server'[d] # server[d] =>
             server'[d] = "returning" /\ d \in proposed \cup {c} /\ d \notin proposed'
    <3>1. server' \in [Calls -> ServerStates]
      BY <2>1 DEF RpcInv, CallTypes, ServerStates
    <3>2. ASSUME NEW d \in Calls, server'[d] # server[d]
          PROVE  server'[d] = "returning" /\ d \in proposed \cup {c} /\ d \notin proposed'
      BY <1>1, <2>1, <3>2 DEF RpcInv, CallTypes
    <3> QED BY <3>1, <3>2
  <2>3. stepped' \in [Calls -> Nat] /\ stepped'[c] <= stepped[c] + 1
    BY <1>1, <2>1 DEF RpcInv, CallTypes
  <2>4. proposed' \subseteq proposed \cup {c} /\ proposed' \in SUBSET WriteCalls
    BY <1>4, <2>1 DEF RpcInv, CallTypes
  <2>5. Executed(c)
    BY <1>1, <2>1, <2>2, <2>3, <2>4 DEF Executed
  <2> QED BY <2>5, ExecutedKeeps
<1> QED BY <1>0, <1>2, <1>3, <1>4 DEF Execute

\* A process that ends leaves no call at a place of its own.
LEMMA AbortKeeps == ASSUME RpcInv, Abort PROVE RpcInv'
<1>1. /\ arrived' = << >> /\ queue' = << >> /\ proposed' = {}
      /\ \A d \in Calls :
           \/ server'[d] = "none" /\ stepped'[d] = 0
           \/ server'[d] = server[d] /\ stepped'[d] = stepped[d]
  BY DEF Abort
<1>2. server' \in [Calls -> ServerStates] /\ stepped' \in [Calls -> Nat]
  <2>1. \A d \in Calls : server'[d] \in ServerStates /\ stepped'[d] \in Nat
    BY <1>1 DEF RpcInv, CallTypes, ServerStates
  <2> QED BY <2>1 DEF Abort
<1>3. CallTypes' /\ ProposedWait'
  BY <1>1, <1>2 DEF CallTypes, ProposedWait
<1>4. Len(arrived') = 0 /\ Len(queue') = 0
  BY <1>1
<1>5. ArrivedOnce' /\ QueuedOnce'
  BY <1>4 DEF ArrivedOnce, QueuedOnce
<1>6. NotYetStepped'
  BY <1>1, <1>4 DEF RpcInv, NotYetStepped
<1> QED BY <1>3, <1>5, <1>6 DEF RpcInv

\* The observer lets the handlers of some proposals go and forgets the others.
LEMMA NotifyKeeps == ASSUME RpcInv, Notify PROVE RpcInv'
<1>1. PICK W \in SUBSET proposed :
        server' = [c \in Calls |-> IF c \in W THEN "returning" ELSE server[c]]
  BY DEF Notify
<1>2. proposed' = {} /\ UNCHANGED <<arrived, queue, stepped>>
  BY DEF Notify
<1>3. CallTypes' /\ ProposedWait'
  BY <1>1, <1>2 DEF RpcInv, CallTypes, ProposedWait, ServerStates
<1>4. ArrivedOnce'
  <2>1. \A i \in 1..Len(arrived) : arrived[i] \in Calls /\ arrived[i] \notin proposed
    BY DEF RpcInv, CallTypes, ArrivedOnce, ProposedWait
  <2>2. \A i \in 1..Len(arrived) : server'[arrived[i]] = server[arrived[i]]
    BY <1>1, <2>1
  <2> QED BY <1>2, <2>2 DEF RpcInv, ArrivedOnce
<1>5. QueuedOnce'
  <2>1. \A i \in 1..Len(queue) : queue[i] \in Calls /\ queue[i] \notin proposed
    BY DEF RpcInv, CallTypes, QueuedOnce
  <2>2. \A i \in 1..Len(queue) : server'[queue[i]] = server[queue[i]]
    BY <1>1, <2>1
  <2> QED BY <1>2, <2>2 DEF RpcInv, QueuedOnce
<1>6. NotYetStepped'
  <2>1. \A c \in Calls : server'[c] \in {"wire", "arrived"} => server'[c] = server[c]
    BY <1>1
  <2> QED BY <1>2, <2>1 DEF RpcInv, NotYetStepped
<1> QED BY <1>3, <1>4, <1>5, <1>6 DEF RpcInv

\* Every step keeps the places of the calls.
LEMMA RpcInvInductive == RpcInv /\ [Next]_vars => RpcInv'
<1> SUFFICES ASSUME RpcInv, [Next]_vars PROVE RpcInv'
  OBVIOUS
<1>1. ASSUME NEW c \in Calls, NEW m \in Payloads, PassMail(c, m) PROVE RpcInv'
  BY <1>1, BeginMoves, MovesKeep DEF PassMail
<1>2. ASSUME NEW c \in Calls, CallStatus(c) \/ CallWrite(c) PROVE RpcInv'
  BY <1>2, BeginMoves, MovesKeep DEF CallStatus, CallWrite
<1>3. ASSUME NEW c \in Calls, Lose(c) \/ Answer(c) \/ Return(c) PROVE RpcInv'
  BY <1>3, LoseMoves, AnswerMoves, ReturnMoves, MovesKeep
<1>4. ASSUME UNCHANGED <<server, arrived, queue, proposed, stepped>> PROVE RpcInv'
  BY <1>4 DEF RpcInv, CallTypes, ArrivedOnce, QueuedOnce, ProposedWait, NotYetStepped
<1>5. ASSUME NEW c \in Calls, Fail(c) PROVE RpcInv'
  BY <1>4, <1>5 DEF Fail
<1>6. ASSUME NEW c \in Calls, Deliver(c) PROVE RpcInv'
  BY <1>6, DeliverKeeps
<1>7. CASE Dispatch
  BY <1>7, DispatchKeeps
<1>8. CASE Execute
  BY <1>8, ExecuteKeeps
<1>9. CASE UNCHANGED vars
  BY <1>4, <1>9 DEF vars
<1> QED BY <1>1, <1>2, <1>3, <1>5, <1>6, <1>7, <1>8, <1>9, AbortKeeps, NotifyKeeps DEF Next

\* No call is anywhere at the start.
LEMMA RpcInvInit == Init => RpcInv
<1> SUFFICES ASSUME Init PROVE RpcInv
  OBVIOUS
<1>1. Len(<< >>) = 0
  OBVIOUS
<1>2. CallTypes
  BY DEF Init, CallTypes, ServerStates
<1> QED BY <1>1, <1>2 DEF Init, RpcInv, CallTypes, ArrivedOnce, QueuedOnce, ProposedWait, NotYetStepped

\* The calls, always.
LEMMA RpcInvHolds == Spec => []RpcInv
BY RpcInvInit, RpcInvInductive, PTL DEF Spec

\* A task of the executor, or a channel the commit observer has, refers to the
\* stack of a handler that is still waiting: with any number of calls, workers,
\* losses and timeouts.
THEOREM HandlersOutliveTasks == Spec => []HandlerOutlivesTask
<1>1. RpcInv => HandlerOutlivesTask
  BY DEF RpcInv, CallTypes, QueuedOnce, ProposedWait, HandlerOutlivesTask, Range
<1> QED BY <1>1, RpcInvHolds, PTL

\* A message passed to AsyncRaftClient::Step once is stepped at most once.
THEOREM MessagesSteppedOnce == Spec => []SteppedAtMostOnce
<1>1. RpcInv => SteppedAtMostOnce
  BY DEF RpcInv, NotYetStepped, SteppedAtMostOnce, Calls
<1> QED BY <1>1, RpcInvHolds, PTL

-----------------------------------------------------------------------------
(* What goes over the wire and back *)

\* What set_<field> makes of an object.
LEMMA SetFieldIs ==
  ASSUME NEW H, NEW V, NEW U, NEW n, NEW v
  PROVE  SetField([has |-> H, val |-> V, unknown |-> U], n, v)
           = [has |-> H \cup {n}, val |-> [V EXCEPT ![n] = v], unknown |-> U]
<1> DEFINE o == [has |-> H, val |-> V, unknown |-> U]
<1> DEFINE p == [o EXCEPT !.has = @ \cup {n}]
<1> DEFINE w == [V EXCEPT ![n] = v]
<1>1. p = [has |-> H \cup {n}, val |-> V, unknown |-> U]
  OBVIOUS
<1>2. SetField(o, n, v) = [p EXCEPT !.val[n] = v]
  BY DEF SetField
<1> HIDE DEF p
<1>3. p.val = V
  BY <1>1
<1>4. [p EXCEPT !.val[n] = v] = [p EXCEPT !.val = [p.val EXCEPT ![n] = v]]
  OBVIOUS
<1>5. [p EXCEPT !.val = w] = [has |-> H \cup {n}, val |-> w, unknown |-> U]
  <2> HIDE DEF w
  <2> QED BY <1>1
<1> QED BY <1>2, <1>3, <1>4, <1>5

\* The message that AsyncRaftClient::Step gives to its request (set_allocated_message)
\* is the one the handler passes to the node, whatever it is: it is serialized,
\* parsed into a new request and taken with mutable_message.
THEOREM MessageArrives ==
  ASSUME NEW m \in Payloads
  PROVE  Received(ClientRequest(m)) = m
<1>1. PICK p \in Addrs : p = CHOOSE x \in Addrs : TRUE
  BY MessageAssumption
<1>2. p # Null
  BY AddrAssumption
<1>3. ClientRequest(m) = <<MessageField(1, m)>>
  <2> DEFINE h == [NoHeap EXCEPT ![p] = m]
  <2> DEFINE o == StepRequest_set_allocated_message(StepRequest_SharedCtor, h, p).o
  <2>1. h[p] = m
    BY DEF NoHeap
  <2>2. o.has = {1} /\ o.val[1] = p /\ o.unknown = << >>
    <3> DEFINE c == StepRequest_SharedCtor
    <3> DEFINE d == [c EXCEPT !.val[1] = p]
    <3>1. d.has = {} /\ d.val[1] = p /\ d.unknown = << >> /\ DOMAIN d = {"has", "val", "unknown"}
      BY DEF StepRequest_SharedCtor
    <3>2. o = [d EXCEPT !.has = IF p = Null THEN @ \ {1} ELSE @ \cup {1}]
      BY DEF StepRequest_set_allocated_message
    <3> HIDE DEF d, o
    <3> QED BY <1>2, <3>1, <3>2
  <2>3. ClientRequest(m) = StepRequest_Serialize(o, h)
    BY <1>1 DEF ClientRequest
  <2> HIDE DEF h, o
  <2>4. StepRequest_message(o, h) = m
    BY <1>2, <2>1, <2>2 DEF StepRequest_message
  <2>5. StepRequest_Serialize(o, h) = <<MessageField(1, m)>> \o << >>
    BY <2>2, <2>4 DEF StepRequest_Serialize
  <2> QED BY <2>3, <2>5
<1>4. MergeMessage(EmptyMessage, m) = m
  <2>1. DOMAIN EmptyMessage = {}
    BY DEF EmptyMessage
  <2>2. m = [f \in DOMAIN m |-> m[f]]
    BY PayloadAssumption
  <2>3. MergeMessage(EmptyMessage, m) = [f \in DOMAIN m |-> m[f]]
    BY <2>1 DEF MergeMessage
  <2> QED BY <2>2, <2>3
<1>5. PICK q \in Addrs : q = New(NoHeap)
  BY MessageAssumption DEF New, NoHeap
<1>6. q # Null
  BY AddrAssumption
<1> DEFINE f == MessageField(1, m)
<1> DEFINE u == StepRequest_mutable_message(StepRequest_SharedCtor, NoHeap)
<1> DEFINE r == StepRequest_Parse(StepRequest_SharedCtor, NoHeap, f)
<1> DEFINE n == StepRequest_mutable_message(r.o, r.h)
<1>7. /\ u.o = [has |-> {1}, val |-> <<q>>, unknown |-> << >>]
      /\ u.h = [NoHeap EXCEPT ![q] = EmptyMessage]
  <2>1. u.o = SetField(StepRequest_SharedCtor, 1, q) /\ u.h = [NoHeap EXCEPT ![q] = EmptyMessage]
    BY <1>5 DEF StepRequest_mutable_message, StepRequest_SharedCtor
  <2>2. SetField(StepRequest_SharedCtor, 1, q)
          = [has |-> {} \cup {1}, val |-> [<<Null>> EXCEPT ![1] = q], unknown |-> << >>]
    BY SetFieldIs DEF StepRequest_SharedCtor
  <2>3. [<<Null>> EXCEPT ![1] = q] = <<q>> /\ {} \cup {1} = {1}
    OBVIOUS
  <2> QED BY <2>1, <2>2, <2>3
<1>8. Tag(f) = 10 /\ f.whole /\ f.msg = m
  BY DEF MessageField, Tag, LengthDelimited
<1>9. r.o = u.o /\ r.h = [u.h EXCEPT ![u.o.val[1]] = MergeMessage(@, m)]
  BY <1>8 DEF StepRequest_Parse
<1> HIDE DEF u, f, r
<1>10. r.o.val[1] = q /\ r.h[q] = m
  BY <1>4, <1>7, <1>9 DEF NoHeap
<1>11. n.o.val[1] = q /\ n.h = r.h
  <2>1. n.o = SetField(r.o, 1, q) /\ n.h = r.h
    BY <1>6, <1>10 DEF StepRequest_mutable_message
  <2>2. n.o = [has |-> {1} \cup {1}, val |-> [<<q>> EXCEPT ![1] = q], unknown |-> << >>]
    BY <1>7, <1>9, <2>1, SetFieldIs
  <2> HIDE DEF n
  <2> QED BY <2>1, <2>2
<1>12. Received(ClientRequest(m)) = StepRequest_message(n.o, n.h)
  <2>1. Head(ClientRequest(m)) = f
    BY <1>3 DEF f
  <2>2. GetRequestPrototype(RaftService_Stub_Step) = StepRequest_SharedCtor
    BY DEF GetRequestPrototype, RaftService_Stub_Step
  <2> QED BY <2>1, <2>2 DEF Received, r
<1> HIDE DEF n
<1> QED BY <1>6, <1>10, <1>11, <1>12 DEF StepRequest_message

\* The response of a Step with a code.
Coded(s) == [has |-> {1}, val |-> <<s>>, unknown |-> << >>]

\* set_code, on a new response and on one that has a code.
LEMMA CodeIsSet ==
  ASSUME NEW s, NEW t
  PROVE  /\ StepResponse_set_code(StepResponse_SharedCtor, s) = Coded(s)
         /\ StepResponse_set_code(Coded(t), s) = Coded(s)
<1>1. [<<0>> EXCEPT ![1] = s] = <<s>> /\ [<<t>> EXCEPT ![1] = s] = <<s>>
  OBVIOUS
<1>2. {} \cup {1} = {1} /\ {1} \cup {1} = {1}
  OBVIOUS
<1>3. /\ SetField(StepResponse_SharedCtor, 1, s) = [has |-> {1}, val |-> <<s>>, unknown |-> << >>]
      /\ SetField(Coded(t), 1, s) = [has |-> {1}, val |-> <<s>>, unknown |-> << >>]
  BY <1>1, <1>2, SetFieldIs DEF StepResponse_SharedCtor, Coded
<1> QED BY <1>3 DEF StepResponse_set_code, Coded

\* A code of the enum is read as it was written.
LEMMA CodeIsParsed ==
  ASSUME NEW s \in {0, 1, 2}, NEW t
  PROVE  /\ StepResponse_Parse(StepResponse_SharedCtor, NumberField(1, s)).o = Coded(s)
         /\ StepResponse_Parse(Coded(t), NumberField(1, s)).o = Coded(s)
<1> DEFINE f == NumberField(1, s)
<1>1. Tag(f) = 8 /\ f.whole /\ f.v = s
  BY DEF NumberField, Tag, Varint
<1>2. ReadEnum(f.v) = s
  BY <1>1, WidthAssumption DEF ReadEnum
<1> HIDE DEF f
<1>3. \A o : StepResponse_Parse(o, f).o = StepResponse_set_code(o, s)
  BY <1>1, <1>2 DEF StepResponse_Parse, StatusCode_IsValid
<1> QED BY <1>3, CodeIsSet DEF f

\* The objects on the way, as FoldLeft goes through the fields.
IsStepParse(g, fs) ==
  g = [i \in 0..Len(fs) |->
         IF i = 0 THEN StepResponse_SharedCtor ELSE StepResponse_Parse(g[i - 1], fs[i]).o]

\* The caller of Step reads the code the handler set.
LEMMA CodeArrives ==
  ASSUME NEW s \in {0, 1, 2}
  PROVE  StepResponse_ParseFields(StepResponse_Serialize(Coded(s))) = Coded(s)
<1> DEFINE fs == <<NumberField(1, s)>>
           g  == [i \in 0..1 |-> IF i = 0 THEN StepResponse_SharedCtor ELSE Coded(s)]
<1>1. StepResponse_Serialize(Coded(s)) = fs
  <2>1. StepResponse_Serialize(Coded(s)) = fs \o << >>
    BY DEF StepResponse_Serialize, Coded
  <2> QED BY <2>1
<1>2. StepResponse_Parse(StepResponse_SharedCtor, NumberField(1, s)).o = Coded(s)
  BY CodeIsParsed
<1>3. Len(fs) = 1 /\ fs[1] = NumberField(1, s)
  OBVIOUS
<1>4. IsStepParse(g, fs)
  BY <1>2, <1>3 DEF IsStepParse
<1> HIDE DEF fs
<1> DEFINE it == CHOOSE h : IsStepParse(h, fs)
<1>5. IsStepParse(it, fs)
  <2> HIDE DEF g
  <2> QED BY <1>4, Zenon
<1>6. StepResponse_ParseFields(fs) = it[Len(fs)]
  BY Zenon DEF StepResponse_ParseFields, IsStepParse, FoldLeft
<1> HIDE DEF it
<1>7. it[0] = StepResponse_SharedCtor
  BY <1>3, <1>5 DEF IsStepParse
<1>8. it[1] = StepResponse_Parse(it[0], fs[1]).o
  BY <1>3, <1>5 DEF IsStepParse
<1> QED BY <1>1, <1>2, <1>3, <1>6, <1>7, <1>8

-----------------------------------------------------------------------------
(* What a caller is told *)

Sent == {ClientRequest(m) : m \in Payloads \ {EmptyMessage}}

\* The response of a Step from the handler to the caller: the request stays the
\* one that was sent, and once its task has run the response has its code.
StepReply(c) ==
  /\ server[c] # "none" \/ client[c] = "ok" => request[c] \in Sent
  /\ server[c] = "blocked" => stepped[c] = 0 /\ response[c] = Coded(0)
  /\ server[c] \in {"returning", "answer"} \/ client[c] = "ok" =>
       /\ stepped[c] = 1 /\ response[c] = Coded(NodeStep(Received(request[c])))
       /\ NodeStep(Received(request[c])) \in {0, 1, 2}

\* The inductive invariant, with RpcInv.  A caller that has its answer has no
\* call under way.
ReplyInv ==
  /\ client \in [Calls -> {"idle", "waiting", "ok"}]
  /\ DOMAIN request = Calls /\ DOMAIN response = Calls
  /\ \A c \in Calls : client[c] = "ok" => server[c] = "none"
  /\ \A c \in StepCalls : StepReply(c)

\* A call a step leaves alone.
Same(c) ==
  /\ client'[c] = client[c] /\ server'[c] = server[c] /\ request'[c] = request[c]
  /\ response'[c] = response[c] /\ stepped'[c] = stepped[c]

\* A step concerns one call: what remains to be shown is that it does not spoil
\* the reply to that one.
LEMMA OneReply ==
  ASSUME ReplyInv, NEW c \in Calls,
         client' \in [Calls -> {"idle", "waiting", "ok"}],
         DOMAIN request' = Calls, DOMAIN response' = Calls,
         \A d \in Calls \ {c} : Same(d),
         \A d \in Calls : client'[d] = "ok" => server'[d] = "none",
         c \in StepCalls => StepReply(c)'
  PROVE  ReplyInv'
<1>1. ASSUME NEW d \in StepCalls PROVE StepReply(d)'
  <2>1. d \in Calls
    BY DEF Calls
  <2>2. CASE d # c
    BY <2>1, <2>2 DEF ReplyInv, StepReply, Same
  <2> QED BY <2>2
<1> QED BY <1>1 DEF ReplyInv

\* A request is on the wire.
LEMMA BeginReplies ==
  ASSUME RpcInv, ReplyInv, NEW c \in Calls, NEW fields, Begin(c, fields),
         c \in StepCalls => fields \in Sent
  PROVE  ReplyInv'
<1>1. /\ client' = [client EXCEPT ![c] = "waiting"] /\ server' = [server EXCEPT ![c] = "wire"]
      /\ request' = [request EXCEPT ![c] = fields]
      /\ response' = [response EXCEPT ![c] = StatusRequest_SharedCtor]
      /\ stepped' = [stepped EXCEPT ![c] = 0]
  BY DEF Begin
<1>2. /\ client'[c] = "waiting" /\ server'[c] = "wire" /\ request'[c] = fields
      /\ \A d \in Calls \ {c} : Same(d)
      /\ client' \in [Calls -> {"idle", "waiting", "ok"}]
      /\ DOMAIN request' = Calls /\ DOMAIN response' = Calls
  BY <1>1 DEF RpcInv, CallTypes, ReplyInv, Same
<1>3. \A d \in Calls : client'[d] = "ok" => server'[d] = "none"
  BY <1>2 DEF ReplyInv, Same
<1>4. c \in StepCalls => StepReply(c)'
  BY <1>2 DEF StepReply
<1> QED BY <1>1, <1>2, <1>3, <1>4, OneReply DEF ReplyInv

\* Nothing is left of what is lost, or of an answer nobody waits for.
LEMMA ForgetReplies ==
  ASSUME RpcInv, ReplyInv, NEW c \in Calls, server[c] # "none",
         server' = [server EXCEPT ![c] = "none"], Forget(c), UNCHANGED client
  PROVE  ReplyInv'
<1>1. client[c] # "ok"
  BY DEF ReplyInv
<1>2. /\ server'[c] = "none" /\ \A d \in Calls \ {c} : Same(d)
      /\ DOMAIN request' = Calls /\ DOMAIN response' = Calls
  BY DEF RpcInv, CallTypes, ReplyInv, Same, Forget
<1>3. \A d \in Calls : client'[d] = "ok" => server'[d] = "none"
  BY <1>2 DEF ReplyInv, Same
<1>4. c \in StepCalls => StepReply(c)'
  BY <1>1, <1>2 DEF StepReply
<1> QED BY <1>2, <1>3, <1>4, OneReply DEF ReplyInv

\* A call or an answer that is lost.
LEMMA LoseReplies == ASSUME RpcInv, ReplyInv, NEW c \in Calls, Lose(c) PROVE ReplyInv'
<1>1. server[c] # "none" /\ server' = [server EXCEPT ![c] = "none"] /\ Forget(c)
      /\ UNCHANGED client
  BY DEF Lose, MaxRetry
<1> QED BY <1>1, ForgetReplies

\* The caller reads from the answer what the handler wrote.
LEMMA AnswerReplies == ASSUME RpcInv, ReplyInv, NEW c \in Calls, Answer(c) PROVE ReplyInv'
<1>1. server[c] = "answer" /\ server' = [server EXCEPT ![c] = "none"]
  BY DEF Answer
<1>2. CASE client[c] # "waiting"
  <2>1. Forget(c) /\ UNCHANGED client
    BY <1>2 DEF Answer
  <2> QED BY <1>1, <2>1, ForgetReplies
<1>3. CASE client[c] = "waiting"
  <2>1. /\ client' = [client EXCEPT ![c] = "ok"] /\ response' = [response EXCEPT ![c] = Reply(c)]
        /\ UNCHANGED <<request, stepped>>
    BY <1>3 DEF Answer
  <2>2. /\ server'[c] = "none" /\ client'[c] = "ok" /\ response'[c] = Reply(c)
        /\ \A d \in Calls \ {c} : Same(d)
        /\ client' \in [Calls -> {"idle", "waiting", "ok"}]
        /\ DOMAIN request' = Calls /\ DOMAIN response' = Calls
    BY <1>1, <2>1 DEF RpcInv, CallTypes, ReplyInv, Same
  <2>3. \A d \in Calls : client'[d] = "ok" => server'[d] = "none"
    BY <2>2 DEF ReplyInv, Same
  <2>4. ASSUME c \in StepCalls PROVE StepReply(c)'
    <3>1. /\ request[c] \in Sent /\ stepped[c] = 1
          /\ response[c] = Coded(NodeStep(Received(request[c])))
          /\ NodeStep(Received(request[c])) \in {0, 1, 2}
      BY <1>1, <2>4 DEF ReplyInv, StepReply
    <3>4. Reply(c) = StepResponse_ParseFields(StepResponse_Serialize(response[c]))
      BY <2>4, CallsAssumption DEF Reply
    <3>5. Reply(c) = response[c]
      BY <3>1, <3>4, CodeArrives
    <3> QED BY <2>1, <2>2, <3>1, <3>5 DEF StepReply
  <2> QED BY <1>1, <2>2, <2>3, <2>4, OneReply DEF ReplyInv
<1> QED BY <1>2, <1>3

\* A caller that gives up, a request that arrives and a handler that returns
\* leave the request and the response alone.
LEMMA CarryReplies ==
  ASSUME RpcInv, ReplyInv, NEW c \in Calls, Fail(c) \/ Deliver(c) \/ Return(c)
  PROVE  ReplyInv'
<1>1. UNCHANGED <<request, response, stepped>>
  BY DEF Fail, Deliver, Return
<1>2. CASE Fail(c)
  <2>1. client' = [client EXCEPT ![c] = "idle"] /\ server' = server
    BY <1>2 DEF Fail
  <2>2. /\ client'[c] = "idle" /\ \A d \in Calls \ {c} : Same(d)
        /\ client' \in [Calls -> {"idle", "waiting", "ok"}]
    BY <1>1, <2>1 DEF ReplyInv, Same
  <2>3. \A d \in Calls : client'[d] = "ok" => server'[d] = "none"
    BY <2>1, <2>2 DEF ReplyInv, Same
  <2>4. c \in StepCalls => StepReply(c)'
    BY <1>1, <2>1, <2>2 DEF ReplyInv, StepReply
  <2> QED BY <1>1, <2>2, <2>3, <2>4, OneReply DEF ReplyInv
<1>3. CASE Deliver(c)
  <2>1. server[c] = "wire" /\ server' = [server EXCEPT ![c] = "arrived"] /\ client' = client
    BY <1>3 DEF Deliver
  <2>2. server'[c] = "arrived" /\ \A d \in Calls \ {c} : Same(d)
    BY <1>1, <2>1 DEF RpcInv, CallTypes, Same
  <2>3. \A d \in Calls : client'[d] = "ok" => server'[d] = "none"
    BY <2>1, <2>2 DEF ReplyInv, Same
  <2>4. c \in StepCalls => StepReply(c)'
    BY <1>1, <2>1, <2>2 DEF ReplyInv, StepReply
  <2> QED BY <1>1, <2>1, <2>2, <2>3, <2>4, OneReply DEF ReplyInv
<1>4. CASE Return(c)
  <2>1. server[c] = "returning" /\ server' = [server EXCEPT ![c] = "answer"] /\ client' = client
    BY <1>4 DEF Return
  <2>2. server'[c] = "answer" /\ \A d \in Calls \ {c} : Same(d)
    BY <1>1, <2>1 DEF RpcInv, CallTypes, Same
  <2>3. \A d \in Calls : client'[d] = "ok" => server'[d] = "none"
    BY <2>1, <2>2 DEF ReplyInv, Same
  <2>4. c \in StepCalls => StepReply(c)'
    BY <1>1, <2>1, <2>2 DEF ReplyInv, StepReply
  <2> QED BY <1>1, <2>1, <2>2, <2>3, <2>4, OneReply DEF ReplyInv
<1> QED BY <1>2, <1>3, <1>4

\* The handler begins with a response of its own class.
LEMMA DispatchReplies == ASSUME RpcInv, ReplyInv, Dispatch PROVE ReplyInv'
<1>1. PICK c \in Calls : c = Head(arrived)
  BY DEF RpcInv, CallTypes, Dispatch
<1>2. /\ response' = [response EXCEPT ![c] = Handler(c)] /\ server' = [server EXCEPT ![c] = "blocked"]
      /\ UNCHANGED <<client, request, stepped>>
  BY <1>1 DEF Dispatch
<1>3. server[c] = "arrived" /\ stepped[c] = 0
  BY <1>1 DEF RpcInv, CallTypes, ArrivedOnce, NotYetStepped, Dispatch
<1>4. /\ server'[c] = "blocked" /\ response'[c] = Handler(c)
      /\ \A d \in Calls \ {c} : Same(d)
      /\ DOMAIN request' = Calls /\ DOMAIN response' = Calls
  BY <1>2 DEF RpcInv, CallTypes, ReplyInv, Same
<1>5. \A d \in Calls : client'[d] = "ok" => server'[d] = "none"
  BY <1>2, <1>3, <1>4 DEF ReplyInv, Same
<1>6. ASSUME c \in StepCalls PROVE StepReply(c)'
  <2>1. Handler(c) = StepResponse_set_code(StepResponse_SharedCtor, 0)
    BY <1>6, CallsAssumption DEF Handler, MethodOf, GetResponsePrototype, RaftService_Stub_Step
  <2>2. Handler(c) = Coded(0)
    BY <2>1, CodeIsSet
  <2>3. request'[c] \in Sent /\ client'[c] # "ok"
    BY <1>2, <1>3, <1>6 DEF ReplyInv, StepReply
  <2> QED BY <1>2, <1>3, <1>4, <2>2, <2>3 DEF StepReply
<1> QED BY <1>2, <1>4, <1>5, <1>6, OneReply DEF ReplyInv

\* A task writes its own response only and wakes its own handler only.
LEMMA ExecuteReplies == ASSUME RpcInv, ReplyInv, Execute PROVE ReplyInv'
<1>1. PICK c \in Calls : c = Head(queue)
  BY DEF RpcInv, CallTypes, Execute
<1>2. server[c] = "blocked" /\ UNCHANGED <<client, request>>
  BY <1>1 DEF RpcInv, CallTypes, QueuedOnce, Execute
<1>3. client[c] # "ok"
  BY <1>2 DEF ReplyInv
<1>4. CASE c \in StepCalls /\ StepTask(c)
  <2> DEFINE s == NodeStep(Received(request[c]))
  <2>1. /\ response' = [response EXCEPT ![c] = IF s = 0 THEN @ ELSE StepResponse_set_code(@, s)]
        /\ stepped' = [stepped EXCEPT ![c] = @ + 1]
        /\ server' = [server EXCEPT ![c] = "returning"]
        /\ s \in {0, 1, 2}
    BY <1>4 DEF StepTask, KnownError
  <2>2. response[c] = Coded(0) /\ request[c] \in Sent /\ stepped[c] = 0
    BY <1>2, <1>4 DEF ReplyInv, StepReply
  <2> HIDE DEF s
  <2>3. /\ server'[c] = "returning" /\ stepped'[c] = 1
        /\ DOMAIN request' = Calls /\ DOMAIN response' = Calls
    BY <1>2, <2>1, <2>2 DEF RpcInv, CallTypes, ReplyInv
  <2>4. response'[c] = Coded(s)
    <3>1. response'[c] = IF s = 0 THEN Coded(0) ELSE StepResponse_set_code(Coded(0), s)
      BY <2>1, <2>2 DEF ReplyInv
    <3> QED BY <3>1, CodeIsSet
  <2>5. \A d \in Calls \ {c} : Same(d)
    BY <1>2, <2>1 DEF RpcInv, CallTypes, ReplyInv, Same
  <2>6. \A d \in Calls : client'[d] = "ok" => server'[d] = "none"
    BY <1>2, <1>3, <2>5 DEF ReplyInv, Same
  <2>7. StepReply(c)'
    BY <1>2, <2>1, <2>2, <2>3, <2>4 DEF StepReply, s
  <2> QED BY <1>2, <2>3, <2>5, <2>6, <2>7, OneReply DEF ReplyInv
<1>5. CASE \/ c \in StatusCalls /\ StatusTask(c)
           \/ c \in WriteCalls /\ WriteTask(c)
  <2>1. /\ DOMAIN response' = Calls /\ \A d \in Calls \ {c} : response'[d] = response[d]
        /\ server' = [server EXCEPT ![c] = "returning"] \/ server' = server
        /\ UNCHANGED stepped
    BY <1>5 DEF StatusTask, WriteTask, ReplyInv
  <2>2. \A d \in Calls \ {c} : Same(d)
    BY <1>2, <2>1 DEF RpcInv, CallTypes, Same
  <2>3. \A d \in Calls : client'[d] = "ok" => server'[d] = "none"
    BY <1>2, <1>3, <2>2 DEF ReplyInv, Same
  <2>4. c \notin StepCalls
    BY <1>5, CallsAssumption
  <2> QED BY <1>2, <2>1, <2>2, <2>3, <2>4, OneReply DEF ReplyInv
<1> QED BY <1>1, <1>4, <1>5 DEF Execute

\* A process that ends takes the replies it has with it; one that was sent, or
\* taken, stays.
LEMMA AbortReplies == ASSUME RpcInv, ReplyInv, Abort PROVE ReplyInv'
<1>1. /\ client' = client /\ DOMAIN request' = Calls /\ DOMAIN response' = Calls
      /\ \A d \in Calls : Same(d) \/ (server[d] # "none" /\ server'[d] = "none")
  BY DEF Abort, Same
<1>2. \A d \in Calls : client'[d] = "ok" => server'[d] = "none"
  BY <1>1 DEF ReplyInv, Same
<1>3. ASSUME NEW d \in StepCalls PROVE StepReply(d)'
  <2>1. d \in Calls
    BY DEF Calls
  <2>2. CASE Same(d)
    BY <2>1, <2>2 DEF ReplyInv, StepReply, Same
  <2>3. CASE server[d] # "none" /\ server'[d] = "none"
    <3>1. client'[d] # "ok"
      BY <1>1, <2>1, <2>3 DEF ReplyInv
    <3> QED BY <2>3, <3>1 DEF StepReply
  <2> QED BY <1>1, <2>1, <2>2, <2>3
<1> QED BY <1>1, <1>2, <1>3 DEF ReplyInv

\* The observer wakes handlers of Writes only.
LEMMA NotifyReplies == ASSUME RpcInv, ReplyInv, Notify PROVE ReplyInv'
<1>1. PICK W \in SUBSET proposed :
        server' = [c \in Calls |-> IF c \in W THEN "returning" ELSE server[c]]
  BY DEF Notify
<1>2. UNCHANGED <<client, request, response, stepped>>
  BY DEF Notify
<1>3. \A d \in Calls : client'[d] = "ok" => server'[d] = "none"
  BY <1>1, <1>2 DEF ReplyInv, RpcInv, ProposedWait
<1>4. ASSUME NEW d \in StepCalls PROVE StepReply(d)'
  <2>1. d \in Calls /\ d \notin W
    BY CallsAssumption DEF Calls, RpcInv, CallTypes
  <2>2. Same(d)
    BY <1>1, <1>2, <2>1 DEF Same
  <2> QED BY <2>2 DEF ReplyInv, StepReply, Same
<1> QED BY <1>2, <1>3, <1>4 DEF ReplyInv

\* Every step keeps what the replies say,
LEMMA ReplyInvInductive == RpcInv /\ ReplyInv /\ [Next]_vars => ReplyInv'
<1> SUFFICES ASSUME RpcInv, ReplyInv, [Next]_vars PROVE ReplyInv'
  OBVIOUS
<1>1. ASSUME NEW c \in Calls, NEW m \in Payloads, PassMail(c, m) PROVE ReplyInv'
  <2>1. Begin(c, ClientRequest(m)) /\ ClientRequest(m) \in Sent
    BY <1>1 DEF PassMail, Sent
  <2> QED BY <2>1, BeginReplies
<1>2. ASSUME NEW c \in Calls, CallStatus(c) \/ CallWrite(c) PROVE ReplyInv'
  <2>1. c \notin StepCalls
    BY <1>2, CallsAssumption DEF CallStatus, CallWrite
  <2> QED BY <1>2, <2>1, BeginReplies DEF CallStatus, CallWrite
<1>3. CASE UNCHANGED vars
  BY <1>3 DEF vars, ReplyInv, StepReply
<1> QED BY <1>1, <1>2, <1>3, LoseReplies, AnswerReplies, CarryReplies, DispatchReplies, ExecuteReplies,
           AbortReplies, NotifyReplies
        DEF Next

\* which therefore always holds.
LEMMA ReplyInvHolds == Spec => []ReplyInv
<1>1. Init => ReplyInv
  BY DEF Init, ReplyInv, StepReply, Calls
<1> QED BY <1>1, ReplyInvInductive, RpcInvHolds, PTL DEF Spec

\* A caller of Step that is told of success knows that the member's node has
\* stepped its message, once, and has the code the node returned: whatever other
\* calls are under way, and whatever was lost or timed out before.
THEOREM AnswersMeanStepped == Spec => []AnswerMeansStepped
<1>1. ReplyInv => AnswerMeansStepped
  <2> SUFFICES ASSUME ReplyInv, NEW c \in StepCalls, client[c] = "ok"
               PROVE  /\ stepped[c] = 1 /\ response[c].has = {1}
                      /\ response[c].val[1] = NodeStep(Received(request[c]))
    BY DEF AnswerMeansStepped
  <2>1. stepped[c] = 1 /\ response[c] = Coded(NodeStep(Received(request[c])))
    BY DEF ReplyInv, StepReply
  <2> QED BY <2>1 DEF Coded
<1> QED BY <1>1, ReplyInvHolds, PTL

-----------------------------------------------------------------------------
(* The workers *)

Busy == {c \in Calls : server[c] \in {"blocked", "returning"}}

\* No more calls have a worker than there are workers.
WorkersSuffice == Cardinality(Busy) <= Workers

\* There are finitely many handlers to count.
LEMMA BusyFinite == IsFiniteSet(Busy) /\ Cardinality(Busy) \in Nat
<1>1. Busy \subseteq Calls
  BY DEF Busy
<1> QED BY <1>1, CallsAssumption, FS_Subset, FS_CardinalityType

\* A step of the others gives no worker to a call.
LEMMA FewerBusy ==
  ASSUME WorkersSuffice, Busy' \subseteq Busy
  PROVE  WorkersSuffice'
<1>1. Cardinality(Busy') \in Nat /\ Cardinality(Busy') <= Cardinality(Busy)
  BY BusyFinite, FS_Subset, FS_CardinalityType
<1> QED BY <1>1, BusyFinite, RpcAssumption DEF WorkersSuffice

\* Every step keeps them within the workers,
LEMMA WorkersInductive == RpcInv /\ WorkersSuffice /\ [Next]_vars => WorkersSuffice'
<1> SUFFICES ASSUME RpcInv, WorkersSuffice, [Next]_vars PROVE WorkersSuffice'
  OBVIOUS
<1>1. ASSUME NEW c \in Calls, Moves(c) PROVE WorkersSuffice'
  <2>1. Busy' \subseteq Busy
    BY <1>1 DEF Busy, Moves
  <2> QED BY <2>1, FewerBusy
<1>2. ASSUME NEW c \in Calls, (\E m \in Payloads : PassMail(c, m)) \/ CallStatus(c) \/ CallWrite(c)
      PROVE  WorkersSuffice'
  BY <1>1, <1>2, BeginMoves DEF PassMail, CallStatus, CallWrite
<1>3. ASSUME NEW c \in Calls, Lose(c) \/ Answer(c) \/ Return(c) PROVE WorkersSuffice'
  BY <1>1, <1>3, LoseMoves, AnswerMoves, ReturnMoves
<1>4. ASSUME UNCHANGED server PROVE WorkersSuffice'
  BY <1>4, FewerBusy DEF Busy
<1>5. ASSUME NEW c \in Calls, Fail(c) \/ Deliver(c) PROVE WorkersSuffice'
  <2>1. Busy' \subseteq Busy
    BY <1>5 DEF Busy, Fail, Deliver, RpcInv, CallTypes
  <2> QED BY <2>1, FewerBusy
<1>6. CASE Dispatch
  <2>1. PICK c \in Calls : c = Head(arrived)
    BY <1>6 DEF RpcInv, CallTypes, Dispatch
  <2>2. server' = [server EXCEPT ![c] = "blocked"] /\ Cardinality(Busy) < Workers
    BY <1>6, <2>1 DEF Dispatch, HasWorker, Busy
  <2>3. Busy' = Busy \cup {c}
    BY <2>2 DEF Busy, RpcInv, CallTypes
  <2>4. Cardinality(Busy \cup {c}) <= Cardinality(Busy) + 1
    <3>1. Cardinality(Busy \cup {c}) = IF c \in Busy THEN Cardinality(Busy) ELSE Cardinality(Busy) + 1
      BY BusyFinite, FS_AddElement
    <3>2. Cardinality(Busy) \in Nat
      BY BusyFinite
    <3> QED BY <3>1, <3>2
  <2>5. Cardinality(Busy \cup {c}) \in Nat
    BY BusyFinite, FS_AddElement, FS_CardinalityType
  <2> QED BY <2>2, <2>3, <2>4, <2>5, BusyFinite, RpcAssumption DEF WorkersSuffice
<1>7. CASE Execute
  <2>1. PICK c \in Calls : c = Head(queue) /\ server[c] = "blocked"
    BY <1>7 DEF RpcInv, CallTypes, QueuedOnce, Execute
  <2>2. server' = server \/ server' = [server EXCEPT ![c] = "returning"]
    BY <1>7, <2>1 DEF Execute, StepTask, StatusTask, WriteTask
  <2>3. Busy' \subseteq Busy
    BY <2>1, <2>2 DEF Busy, RpcInv, CallTypes
  <2> QED BY <2>3, FewerBusy
<1>8. CASE UNCHANGED vars
  BY <1>4, <1>8 DEF vars
<1>9. CASE Abort \/ Notify
  <2>1. \A d \in Calls : server'[d] # server[d] => server'[d] = "none" \/ d \in proposed
    BY <1>9 DEF Abort, Notify
  <2>2. Busy' \subseteq Busy
    BY <2>1 DEF Busy, RpcInv, ProposedWait
  <2> QED BY <2>2, FewerBusy
<1> QED BY <1>2, <1>3, <1>5, <1>6, <1>7, <1>8, <1>9 DEF Next

\* of which none is busy at the start.
LEMMA WorkersInit == Init => WorkersSuffice
<1> SUFFICES ASSUME Init PROVE WorkersSuffice
  OBVIOUS
<1>1. Busy = {}
  BY DEF Init, Busy
<1> QED BY <1>1, FS_EmptySet, RpcAssumption DEF WorkersSuffice

\* Every task in the queue is of a call that has a worker, and each has one task.
LEMMA QueueWithinWorkers == RpcInv /\ WorkersSuffice => Len(queue) <= Workers
<1> SUFFICES ASSUME RpcInv, WorkersSuffice PROVE Len(queue) <= Workers
  OBVIOUS
<1>1. Len(queue) \in Nat
  BY DEF RpcInv, CallTypes
<1>2. queue \in Injection(1..Len(queue), Busy)
  <2>1. queue \in [1..Len(queue) -> Busy]
    BY DEF RpcInv, CallTypes, QueuedOnce, Busy
  <2>2. \A i, j \in 1..Len(queue) : queue[i] = queue[j] => i = j
    BY DEF RpcInv, QueuedOnce
  <2> QED BY <2>1, <2>2 DEF Injection, IsInjective
<1>3. Cardinality(1..Len(queue)) <= Cardinality(Busy)
  BY <1>2, BusyFinite, FS_Injection
<1>4. Cardinality(1..Len(queue)) = Len(queue)
  <2>1. PICK n \in Nat : n = Len(queue)
    BY <1>1
  <2>2. Cardinality(1..n) = IF 1 > n THEN 0 ELSE n - 1 + 1
    BY FS_Interval
  <2>3. (IF 1 > n THEN 0 ELSE n - 1 + 1) = n
    OBVIOUS
  <2> QED BY <2>1, <2>2, <2>3
<1> QED BY <1>1, <1>3, <1>4, BusyFinite, RpcAssumption DEF WorkersSuffice

\* The types, and the bound of the executor's queue: a handler that waits keeps
\* its worker, so the queue never has more tasks of calls than there are workers.
THEOREM RpcTypes == Spec => []TypeOK
<1>1. RpcInv /\ ReplyInv /\ Len(queue) <= Workers => TypeOK
  BY DEF RpcInv, CallTypes, ReplyInv, TypeOK, ServerStates
<1>2. Spec => []WorkersSuffice
  BY WorkersInit, WorkersInductive, RpcInvHolds, PTL DEF Spec
<1> QED BY <1>1, <1>2, QueueWithinWorkers, RpcInvHolds, ReplyInvHolds, PTL

=============================================================================
