------------------------------- MODULE MCMemKv -------------------------------
(* Instances of MemKv: the root, a node, its child, an empty segment inside and at the end. *)
EXTENDS MemKv, TLC

ClientSymmetry == Permutations(Clients)

\* "/", "/a", "a//b", "/a/"
MCPaths == {<<"", "">>, <<"", "a">>, <<"a", "", "b">>, <<"", "a", "">>}

=============================================================================
