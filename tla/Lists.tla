------------------------------- MODULE Lists -------------------------------
(***************************************************************************)
(* Filters of lists, as the Go code writes them: a loop that appends some  *)
(* of the elements to an empty list.                                       *)
(***************************************************************************)
EXTENDS Integers, Sequences, SequencesExt

IsList(s) == s \in Seq(Range(s))

\* The elements at some of the places of a list.
Pick(s, places) == FlattenSeq([i \in DOMAIN s |-> IF i \in places THEN <<s[i]>> ELSE <<>>])

\* A list without the later copies of what it has already.
Distinct(s) == Pick(s, {i \in DOMAIN s : \A j \in 1 .. i - 1 : s[j] # s[i]})
=============================================================================
