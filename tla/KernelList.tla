------------------------------ MODULE KernelList ------------------------------
(***************************************************************************)
(* The doubly linked lists of list.h as sequences, head first: listAdd()   *)
(* is Cons, listAddTail() is Append, listEmpty() is the test for <<>>, and *)
(* listDelete() is ListDelete.  An entry that is not linked points to      *)
(* itself, so that deleting it does nothing.                               *)
(***************************************************************************)
EXTENDS Naturals, Sequences, FiniteSets, SequencesExt

ListDelete(s, e) ==
  IF e \in ToSet(s) THEN RemoveAt(s, CHOOSE i \in DOMAIN s : s[i] = e) ELSE s

\* What is left of s when all of S have been deleted.
Without(s, S) ==
  LET kept == {k \in DOMAIN s : s[k] \notin S}
  IN [i \in 1..Cardinality(kept) |->
        s[CHOOSE k \in kept : Cardinality({j \in kept : j <= k}) = i]]

\* x stands before y.
Precedes(x, y, s) == \E k, l \in DOMAIN s : k < l /\ s[k] = x /\ s[l] = y

=============================================================================
