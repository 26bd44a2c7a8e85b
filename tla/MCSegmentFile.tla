--------------------------- MODULE MCSegmentFile ---------------------------
(***************************************************************************)
(* A byte of three bits: a group of a varint has two, a word three bytes.  *)
(***************************************************************************)
EXTENDS SegmentFile

MCMagic == <<5, 6>>

\* An entry whose length takes one group, and one whose length takes two.
MCShort == <<7>>
MCLong == <<2, 0, 2, 0, 1>>

MCEntryVecs == {<< >>, <<MCShort>>, <<MCLong, MCShort>>}

MCHs == <<1, 3>>
=============================================================================
