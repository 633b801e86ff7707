-------------------------------- MODULE Lists --------------------------------
(***************************************************************************)
(* Linked lists and tables walked from the front, as sequences.            *)
(***************************************************************************)
EXTENDS Integers, Sequences

\* The first of a set of places.
First(places) == CHOOSE i \in places : \A j \in places : i <= j

\* The list with the element at place i unlinked.
Without(list, i) == SubSeq(list, 1, i - 1) \o SubSeq(list, i + 1, Len(list))

\* The list with an element put in front of the one at place i.
Inserted(list, i, e) == SubSeq(list, 1, i - 1) \o <<e>> \o SubSeq(list, i, Len(list))

=============================================================================
