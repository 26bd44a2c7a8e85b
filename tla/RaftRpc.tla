------------------------------- MODULE RaftRpc -------------------------------
(***************************************************************************)
(* Calls to the server of one member: Step from the AsyncRaftClients of    *)
(* its peers, Status, and the Write of a memkv client.  brpc serves all of *)
(* them on one pool of worker threads; a handler submits a task to the     *)
(* RaftTaskExecutor and blocks its worker until the task, or for a Write   *)
(* the commit observer, has signalled it.                                  *)
(*                                                                         *)
(* Requests and answers may be lost; a caller that waits gets an answer or *)
(* an error, and an answer that comes after the error is dropped.  brpc,   *)
(* the network and the RawNode are modelled from how the code uses them.   *)
(***************************************************************************)
EXTENDS RaftServerPb, Functions

CONSTANTS
  StepCalls, StatusCalls, WriteCalls,  \* bound: calls of each kind at a time
  Workers,     \* worker threads of the server
  Members,     \* initial_cluster: the members a peer has a Peer object for
  Self,        \* the member the server belongs to
  NodeStates   \* states of the RawNode, as a Status shows them: leader, index and term

ASSUME RpcAssumption ==
  /\ Workers \in Nat /\ Self \in Members
  /\ NodeStates \subseteq [leader : 0..LongMod - 1, index : 0..LongMod - 1, term : 0..LongMod - 1]

Calls == StepCalls \cup StatusCalls \cup WriteCalls

\* A call is of one kind.
ASSUME CallsAssumption ==
  /\ IsFiniteSet(Calls)
  /\ StepCalls \cap StatusCalls = {}
  /\ WriteCalls \cap (StepCalls \cup StatusCalls) = {}

VARIABLES
  client,    \* the caller: "waiting", "ok" after an answer, "idle" before a call or after an error
  server,    \* where the call is: "none", "wire", "arrived", "blocked", "returning", "answer"
  request,   \* the request as it is on the wire
  response,  \* the response object of the handler, then of the caller
  arrived,   \* calls without a worker, in the order they came
  queue,     \* the executor's tasks
  proposed,  \* Writes whose channel the commit observer has
  stepped    \* history: how often the message of a call was stepped

vars == <<client, server, request, response, arrived, queue, proposed, stepped>>

-----------------------------------------------------------------------------
(* RaftService and its stub *)

RaftService_Stub_Step == 0
RaftService_Stub_Status == 1

MethodOf(c) == IF c \in StepCalls THEN RaftService_Stub_Step ELSE RaftService_Stub_Status

GetRequestPrototype(index) ==
  CASE index = 0 -> StepRequest_SharedCtor [] index = 1 -> StatusRequest_SharedCtor

GetResponsePrototype(index) ==
  CASE index = 0 -> StepResponse_SharedCtor [] index = 1 -> StatusResponse_SharedCtor

-----------------------------------------------------------------------------
(* The callers *)

NoHeap == [x \in Addrs |-> Free]

\* What AsyncRaftClient::Step puts on the wire: the stack's request gets the
\* message, is serialized by the channel, and deletes the message when it dies.
ClientRequest(m) ==
  LET p == CHOOSE x \in Addrs : TRUE
      h == [NoHeap EXCEPT ![p] = m]
  IN StepRequest_Serialize(StepRequest_set_allocated_message(StepRequest_SharedCtor, h, p).o, h)

\* What nobody refers to any more.
Forget(c) ==
  /\ request' = [request EXCEPT ![c] = << >>]
  /\ response' = [response EXCEPT ![c] = StatusRequest_SharedCtor]
  /\ stepped' = [stepped EXCEPT ![c] = 0]

Begin(c, fields) ==
  /\ client[c] # "waiting" /\ server[c] = "none"
  /\ client' = [client EXCEPT ![c] = "waiting"]
  /\ server' = [server EXCEPT ![c] = "wire"]
  /\ request' = [request EXCEPT ![c] = fields]
  /\ response' = [response EXCEPT ![c] = StatusRequest_SharedCtor]
  /\ stepped' = [stepped EXCEPT ![c] = 0]
  /\ UNCHANGED <<arrived, queue, proposed>>

\* A message is a function: 1 is the member it is to, 2 what the node makes of it.
To(m) == m[1]

\* One mail of PeerManager::Pass; the CHECKs of its destination stop the program.
PassMail(c, m) ==
  /\ c \in StepCalls
  /\ m # EmptyMessage /\ To(m) # 0 /\ To(m) \in Members /\ To(m) = Self
  /\ Begin(c, ClientRequest(m))

CallStatus(c) == c \in StatusCalls /\ Begin(c, StatusRequest_Serialize(StatusRequest_SharedCtor))

CallWrite(c) == c \in WriteCalls /\ Begin(c, << >>)

\* Mutant of MaxRetry: one retry.
MaxRetryOne == 1

\* ChannelOptions::max_retry.
MaxRetry == 0

\* The connection breaks under a request or an answer; with a retry left, the
\* channel sends the request once more.
Lose(c) ==
  /\ server[c] \in {"wire", "answer"}
  /\ IF client[c] = "waiting" /\ MaxRetry > 0
       THEN server' = [server EXCEPT ![c] = "wire"] /\ UNCHANGED <<request, response, stepped>>
       ELSE server' = [server EXCEPT ![c] = "none"] /\ Forget(c)
  /\ UNCHANGED <<client, arrived, queue, proposed>>

\* doneCallBack after a timeout, or after the connection broke.
Fail(c) ==
  /\ client[c] = "waiting"
  /\ client' = [client EXCEPT ![c] = "idle"]
  /\ UNCHANGED <<server, request, response, arrived, queue, proposed, stepped>>

\* What the caller reads of the answer.
Reply(c) ==
  CASE c \in StepCalls -> StepResponse_ParseFields(StepResponse_Serialize(response[c]))
    [] c \in StatusCalls -> StatusResponse_ParseFields(StatusResponse_Serialize(response[c]))
    [] c \in WriteCalls -> response[c]

\* doneCallBack after an answer; an answer nobody waits for is dropped.
Answer(c) ==
  /\ server[c] = "answer"
  /\ server' = [server EXCEPT ![c] = "none"]
  /\ IF client[c] = "waiting"
       THEN /\ client' = [client EXCEPT ![c] = "ok"]
            /\ response' = [response EXCEPT ![c] = Reply(c)]
            /\ UNCHANGED <<request, stepped>>
       ELSE Forget(c) /\ UNCHANGED client
  /\ UNCHANGED <<arrived, queue, proposed>>

-----------------------------------------------------------------------------
(* The server *)

Deliver(c) ==
  /\ server[c] = "wire"
  /\ server' = [server EXCEPT ![c] = "arrived"]
  /\ arrived' = Append(arrived, c)
  /\ UNCHANGED <<client, request, response, queue, proposed, stepped>>

\* Mutant of HasWorker: one worker too many.
HasWorkerMore == Cardinality({c \in Calls : server[c] \in {"blocked", "returning"}}) <= Workers

HasWorker == Cardinality({c \in Calls : server[c] \in {"blocked", "returning"}}) < Workers

\* The response with which a handler begins.
Handler(c) ==
  CASE c \in StepCalls -> StepResponse_set_code(GetResponsePrototype(MethodOf(c)), 0)
    [] c \in StatusCalls -> GetResponsePrototype(MethodOf(c))
    [] c \in WriteCalls -> StatusRequest_SharedCtor

\* Mutant of Dispatch: the handler does not wait for its task.
DispatchNoWait ==
  /\ arrived # << >> /\ HasWorker
  /\ LET c == Head(arrived) IN
       /\ response' = [response EXCEPT ![c] = Handler(c)]
       /\ server' = [server EXCEPT ![c] = "returning"]
       /\ queue' = Append(queue, c)
  /\ arrived' = Tail(arrived)
  /\ UNCHANGED <<client, request, proposed, stepped>>

\* A worker takes a call: CallMethod, and the handler up to its wait.
Dispatch ==
  /\ arrived # << >> /\ HasWorker
  /\ LET c == Head(arrived) IN
       /\ response' = [response EXCEPT ![c] = Handler(c)]
       /\ server' = [server EXCEPT ![c] = "blocked"]
       /\ queue' = Append(queue, c)
  /\ arrived' = Tail(arrived)
  /\ UNCHANGED <<client, request, proposed, stepped>>

\* mutable_message() of the request that was parsed.
Received(fields) ==
  LET r == StepRequest_Parse(GetRequestPrototype(RaftService_Stub_Step), NoHeap, Head(fields))
      m == StepRequest_mutable_message(r.o, r.h)
  IN StepRequest_message(m.o, m.h)

\* There is room for a message.
ASSUME MessageAssumption == Addrs # {}

\* RawNode::Step: 0 for a message it takes, 1 for a local one, 2 for one of an
\* unknown peer, any other number for any other error.
NodeStep(m) == m[2]

\* The errors that yaraftErrorCodeToRpcStatusCode has a code for.
KnownError(s) == s \in {1, 2}

\* Mutant of StepTask: a message the node refuses is not signalled.
StepTaskSilent(c) ==
  LET s == NodeStep(Received(request[c])) IN
  /\ s = 0 \/ KnownError(s)
  /\ response' = [response EXCEPT ![c] = IF s = 0 THEN @ ELSE StepResponse_set_code(@, s)]
  /\ stepped' = [stepped EXCEPT ![c] = @ + 1]
  /\ server' = IF s = 0 THEN [server EXCEPT ![c] = "returning"] ELSE server
  /\ UNCHANGED proposed

\* The task of Step: it signals its own handler and no other.
StepTask(c) ==
  LET s == NodeStep(Received(request[c])) IN
  /\ s = 0 \/ KnownError(s)
  /\ response' = [response EXCEPT ![c] = IF s = 0 THEN @ ELSE StepResponse_set_code(@, s)]
  /\ stepped' = [stepped EXCEPT ![c] = @ + 1]
  /\ server' = [server EXCEPT ![c] = "returning"]
  /\ UNCHANGED proposed

\* The task of Status.
StatusTask(c) ==
  /\ \E n \in NodeStates :
       response' = [response EXCEPT ![c] =
                      StatusResponse_set_raftterm(
                        StatusResponse_set_raftindex(
                          StatusResponse_set_leader(@, n.leader), n.index), n.term)]
  /\ server' = [server EXCEPT ![c] = "returning"]
  /\ UNCHANGED <<proposed, stepped>>

\* The task of a Write: refused, or proposed and left to the commit observer.
WriteTask(c) ==
  /\ \/ server' = [server EXCEPT ![c] = "returning"] /\ UNCHANGED proposed
     \/ proposed' = proposed \cup {c} /\ UNCHANGED server
  /\ UNCHANGED <<response, stepped>>

\* The executor's thread runs the next task.
Execute ==
  /\ queue # << >>
  /\ queue' = Tail(queue)
  /\ LET c == Head(queue) IN
       \/ c \in StepCalls /\ StepTask(c)
       \/ c \in StatusCalls /\ StatusTask(c)
       \/ c \in WriteCalls /\ WriteTask(c)
  /\ UNCHANGED <<client, request, arrived>>

\* The task of Step meets an error without a code: LOG(FATAL) ends the process, and
\* with it every call it has.  Another one takes its place.
Abort ==
  /\ queue # << >>
  /\ LET c == Head(queue)
         s == NodeStep(Received(request[c]))
     IN c \in StepCalls /\ s # 0 /\ ~KnownError(s)
  /\ LET here == {d \in Calls : server[d] \in {"arrived", "blocked", "returning"}} IN
       /\ server' = [d \in Calls |-> IF d \in here THEN "none" ELSE server[d]]
       /\ request' = [d \in Calls |-> IF d \in here THEN << >> ELSE request[d]]
       /\ response' = [d \in Calls |-> IF d \in here THEN StatusRequest_SharedCtor ELSE response[d]]
       /\ stepped' = [d \in Calls |-> IF d \in here THEN 0 ELSE stepped[d]]
  /\ arrived' = << >> /\ queue' = << >> /\ proposed' = {}
  /\ UNCHANGED client

\* The flusher has written a Ready with a commit index, and the observer answers
\* some of the Writes it has and drops the others, whose handlers wait on
\* (WalCommitObserver::Notify; WritePath has it in detail).
Notify ==
  /\ proposed # {}
  /\ \E W \in SUBSET proposed :
       server' = [c \in Calls |-> IF c \in W THEN "returning" ELSE server[c]]
  /\ proposed' = {}
  /\ UNCHANGED <<client, request, response, arrived, queue, stepped>>

\* The handler is past its wait: done->Run(), and the worker is free.
Return(c) ==
  /\ server[c] = "returning"
  /\ server' = [server EXCEPT ![c] = "answer"]
  /\ UNCHANGED <<client, request, response, arrived, queue, proposed, stepped>>

-----------------------------------------------------------------------------
Init ==
  /\ client = [c \in Calls |-> "idle"]
  /\ server = [c \in Calls |-> "none"]
  /\ request = [c \in Calls |-> << >>]
  /\ response = [c \in Calls |-> StatusRequest_SharedCtor]
  /\ arrived = << >> /\ queue = << >>
  /\ proposed = {}
  /\ stepped = [c \in Calls |-> 0]

Next ==
  \/ \E c \in Calls : \/ \E m \in Payloads : PassMail(c, m)
                      \/ CallStatus(c) \/ CallWrite(c)
                      \/ Lose(c) \/ Fail(c) \/ Answer(c) \/ Deliver(c) \/ Return(c)
  \/ Dispatch
  \/ Execute
  \/ Abort
  \/ Notify

\* The workers and the executor's thread run.  Nothing is assumed of the network,
\* of the callers or of the commit observer.
Fairness ==
  /\ WF_vars(Dispatch) /\ WF_vars(Execute \/ Abort)
  /\ \A c \in Calls : WF_vars(Return(c))

Spec == Init /\ [][Next]_vars /\ Fairness

-----------------------------------------------------------------------------
(* Properties *)

\* The types; the executor never has more tasks of calls than there are workers.
TypeOK ==
  /\ client \in [Calls -> {"idle", "waiting", "ok"}]
  /\ server \in [Calls -> {"none", "wire", "arrived", "blocked", "returning", "answer"}]
  /\ arrived \in Seq(Calls) /\ queue \in Seq(Calls) /\ Len(queue) <= Workers
  /\ proposed \subseteq WriteCalls
  /\ stepped \in [Calls -> Nat]

\* A task refers to its handler's stack (the barrier, the response and the
\* message are captured by reference): as long as the executor has the task, or
\* the observer the channel of a Write, the handler waits.
HandlerOutlivesTask ==
  \A c \in Calls : c \in Range(queue) \cup proposed => server[c] = "blocked"

\* A message that is passed to the client once is stepped at most once, whatever
\* is lost, late or timed out.
SteppedAtMostOnce == \A c \in StepCalls : stepped[c] <= 1

\* A caller whose call succeeds knows that the member has stepped its message,
\* and reads the code the node returned.
AnswerMeansStepped ==
  \A c \in StepCalls :
    client[c] = "ok" /\ server[c] = "none" =>
      /\ stepped[c] = 1
      /\ response[c].has = {1} /\ response[c].val[1] = NodeStep(Received(request[c]))

\* The workers that Writes hold, waiting for the commit observer.
AllHeld == Cardinality({w \in WriteCalls : server[w] = "blocked"}) = Workers

\* A Step or a Status that arrives is served, or the process ends, or all workers
\* are held for ever by Writes that are never answered: nothing else can starve the
\* pool on which a member's raft messages and its clients' requests are served
\* (memkv_server.cc:70 has a pool of one).
ServedUnlessHeld ==
  \A c \in StepCalls \cup StatusCalls :
    server[c] = "arrived" ~> (server[c] \in {"returning", "none"} \/ []AllHeld)
=============================================================================
