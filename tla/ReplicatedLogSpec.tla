------------------------- MODULE ReplicatedLogSpec -------------------------
(***************************************************************************)
(* What a replicated log promises to its callers, without threads, Readies *)
(* or messages: a Write is answered at most once, with OK only when the    *)
(* log on disk reaches its index, and what the log holds up to an          *)
(* acknowledged index stays as it is, whoever leads.  The storage in       *)
(* memory only ever follows the log on disk.  It is not promised that a    *)
(* Write is answered, nor that the entry at its index is its own           *)
(* (write_path_lost_listener, write_path_false_ack).                       *)
(***************************************************************************)
EXTENDS Naturals, Sequences

CONSTANTS
  Callers,  \* calls of ReplicatedLog::Write
  Items     \* what a log holds

VARIABLES
  call,     \* where each Write is
  acks,     \* the index for which each Write returned OK; 0: it has not
  durable,  \* the log on disk
  mem,      \* the log in memory
  up        \* the process runs

vars == <<call, acks, durable, mem, up>>

Init ==
  /\ call = [w \in Callers |-> "idle"]
  /\ acks = [w \in Callers |-> 0]
  /\ durable = << >>
  /\ mem = << >>
  /\ up = TRUE

\* A caller enters Write.
Submit(w) ==
  /\ up /\ call[w] = "idle"
  /\ call' = [call EXCEPT ![w] = "pending"]
  /\ UNCHANGED <<acks, durable, mem, up>>

\* Write returns an error.
Fail(w) ==
  /\ up /\ call[w] = "pending"
  /\ call' = [call EXCEPT ![w] = "failed"]
  /\ UNCHANGED <<acks, durable, mem, up>>

\* The log on disk grows, or a suffix is replaced, beyond what is acknowledged.
Persist ==
  /\ up
  /\ durable' \in Seq(Items)
  /\ \A w \in Callers :
       acks[w] <= Len(durable') /\ \A j \in 1..acks[w] : durable'[j] = durable[j]
  /\ UNCHANGED <<call, acks, mem, up>>

\* The writes of W return OK, each for an index that is on disk.
Acknowledge(W) ==
  /\ up
  /\ \A w \in W : call[w] = "pending"
  /\ call' = [w \in Callers |-> IF w \in W THEN "ok" ELSE call[w]]
  /\ \E at \in [W -> 1..Len(durable)] :
       acks' = [w \in Callers |-> IF w \in W THEN at[w] ELSE acks[w]]
  /\ UNCHANGED <<durable, mem, up>>

\* The log in memory takes over what is on disk.
Follow ==
  /\ up
  /\ mem' = durable
  /\ UNCHANGED <<call, acks, durable, up>>

Crash ==
  /\ up' = FALSE
  /\ UNCHANGED <<call, acks, durable, mem>>

Next ==
  \/ Persist
  \/ Follow
  \/ \E w \in Callers : Submit(w) \/ Fail(w)
  \/ \E W \in SUBSET Callers : Acknowledge(W)
  \/ Crash

Spec == Init /\ [][Next]_vars
=============================================================================
