------------------------------- MODULE Lists --------------------------------
(***************************************************************************)
(* Linked lists, as the sequence of their entries from head to tail.       *)
(***************************************************************************)
EXTENDS Integers, Sequences

\* A list without its n-th entry.
Unlink(s, n) == SubSeq(s, 1, n - 1) \o SubSeq(s, n + 1, Len(s))
=============================================================================
