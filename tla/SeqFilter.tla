------------------------------ MODULE SeqFilter ------------------------------
(***************************************************************************)
(* Filtering a sequence by position: what the iterator filters of the      *)
(* runtime (retain, filter, take_while) do to a list.                      *)
(***************************************************************************)
EXTENDS Integers, Sequences, SequencesExt

\* The elements of s at the positions in I, in their order.
ElementsAt(s, I) == FlattenSeq([i \in DOMAIN s |-> IF i \in I THEN <<s[i]>> ELSE <<>>])
=============================================================================
