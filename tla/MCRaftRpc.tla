------------------------------ MODULE MCRaftRpc ------------------------------
(* A Step, a Status and two Writes at a time, on two workers. *)
EXTENDS RaftRpc

\* Messages to member 1: one the node takes, one it refuses with a code, and one it
\* refuses with an error that has none.
MCPayloads == {EmptyMessage} \cup {[f \in {1, 2} |-> IF f = 1 THEN 1 ELSE code] : code \in {0, 2, 3}}

\* Without a leader, and with one.
MCNodeStates == {[leader |-> 0, index |-> 1, term |-> 2], [leader |-> 2, index |-> 1, term |-> 2]}
=============================================================================
