------------------------------ MODULE MCPbObjects ------------------------------
(* Two objects of each class.  Messages have one field with two values and   *)
(* one with one; streams are of one or two fields, of other versions or cut. *)
EXTENDS PbObjects, TLC

MCPayloads == {EmptyMessage, [f \in {1} |-> 1], [f \in {1} |-> 2], [f \in {2} |-> 1],
               [f \in {1, 2} |-> 1], [f \in {1, 2} |-> IF f = 1 THEN 2 ELSE 1]}

Cut(f) == [f EXCEPT !.whole = FALSE]

Foreign(num, type) == [NumberField(num, 0) EXCEPT !.type = type]

\* Field 1 as a code: one that is valid only as an int, and one that is negative
\* as an int; a field of another version; a message; an end inside the stream;
\* streams that are cut.
MCStreams ==
  {<<NumberField(1, 513)>>, <<NumberField(1, 500)>>,
   <<NumberField(2, 128), Foreign(20, Fixed32)>>,
   <<MessageField(1, [f \in {1} |-> 2])>>,
   <<Foreign(5, EndGroup), Foreign(0, Varint)>>, <<Foreign(0, Varint)>>,
   <<Cut(NumberField(1, 1))>>, <<Cut(MessageField(1, [f \in {1} |-> 2]))>>}

ObjSymmetry == Permutations(Objs)
=============================================================================
