------------------------------ MODULE SeqFolds ------------------------------
(***************************************************************************)
(* The operators on sequences that the models share, as the community      *)
(* module SequencesExt has them.  That module extends six others, and all  *)
(* of them would be in the context of every proof.                         *)
(***************************************************************************)
EXTENDS Integers, Sequences, FiniteSets

\* The sequences over S of at most n elements.
SeqOf(S, n) == UNION {[1..m -> S] : m \in 0..n}

Last(s) == s[Len(s)]

IsPrefix(s, t) == Len(s) <= Len(t) /\ SubSeq(s, 1, Len(s)) = SubSeq(t, 1, Len(s))

\* op from left to right.
FoldLeft(op(_, _), base, s) ==
  LET upTo[i \in 0..Len(s)] == IF i = 0 THEN base ELSE op(upTo[i - 1], s[i])
  IN upTo[Len(s)]

\* The sequences of ss, one after the other.
FlattenSeq(ss) == FoldLeft(LAMBDA s, t : s \o t, << >>, ss)
=============================================================================
