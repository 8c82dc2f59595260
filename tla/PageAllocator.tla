---------------------------- MODULE PageAllocator ----------------------------
(***************************************************************************)
(* What the users of allocPages() and freePages() rely on: a block they    *)
(* get was wholly free, its pages are theirs until they free it, and they  *)
(* are refused only when no aligned block of that size is free.            *)
(***************************************************************************)
EXTENDS Integers

CONSTANTS
  Page,    \* the page numbers, from 0 on
  Task,
  Order,   \* a block of order o has Size[o] pages and begins at a multiple
  Size,    \* of that
  Low      \* "low" memory are the pages below this number

VARIABLES
  free,      \* the free pages
  held,      \* the blocks in use, as <<first page, order>>
  refused    \* what a task has just asked for in vain, as <<order, low>>

vars == <<free, held, refused>>

Pages(p, o) == p .. p + Size[o] - 1
Blocks(o, low) ==
  {p \in Page : p % Size[o] = 0 /\ Pages(p, o) \subseteq Page /\ (low => p < Low)}

Init ==
  /\ held \in SUBSET (Page \X {0})
  /\ free = {}
  /\ refused = [t \in Task |-> <<>>]

Alloc(o, low) ==
  \E p \in Blocks(o, low) :
    /\ Pages(p, o) \subseteq free
    /\ free' = free \ Pages(p, o)
    /\ held' = held \cup {<<p, o>>}
    /\ UNCHANGED refused

Refuse(t, o, low) ==
  /\ \A p \in Blocks(o, low) : ~(Pages(p, o) \subseteq free)
  /\ refused' = [refused EXCEPT ![t] = <<o, low>>]
  /\ UNCHANGED <<free, held>>

GoOn(t) ==
  /\ refused' = [refused EXCEPT ![t] = <<>>]
  /\ UNCHANGED <<free, held>>

Free(b) ==
  /\ b \in held
  /\ held' = held \ {b}
  /\ free' = free \cup Pages(b[1], b[2])
  /\ UNCHANGED refused

Next ==
  \/ \E o \in Order, low \in BOOLEAN :
       Alloc(o, low) \/ \E t \in Task : Refuse(t, o, low)
  \/ \E t \in Task : GoOn(t)
  \/ \E b \in held : Free(b)

Spec == Init /\ [][Next]_vars

=============================================================================
