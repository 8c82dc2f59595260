----------------------------- MODULE ObjectPool -----------------------------
(***************************************************************************)
(* What the users of allocByCache() and freeByCache() rely on: an object   *)
(* they get is nobody else's until they free it, and they get one as long  *)
(* as a free one is there.                                                 *)
(***************************************************************************)
CONSTANT Object

VARIABLES
  free,      \* the free objects of the cache
  used,      \* those handed out
  refused    \* a call returns 0

vars == <<free, used, refused>>

Init == free = {} /\ used = {} /\ refused = FALSE

Alloc(x) ==
  /\ x \in free
  /\ free' = free \ {x} /\ used' = used \cup {x}
  /\ UNCHANGED refused

Refuse == free = {} /\ refused' = TRUE /\ UNCHANGED <<free, used>>
GoOn == refused' = FALSE /\ UNCHANGED <<free, used>>

Free(x) ==
  /\ x \in used
  /\ used' = used \ {x} /\ free' = free \cup {x}
  /\ UNCHANGED refused

\* The cache gets pages for more objects, and gives pages back.
Grow(S) ==
  /\ S \cap (free \cup used) = {}
  /\ free' = free \cup S
  /\ UNCHANGED <<used, refused>>
Shrink(S) ==
  /\ S \subseteq free
  /\ free' = free \ S
  /\ UNCHANGED <<used, refused>>

Next ==
  \/ \E x \in Object : Alloc(x) \/ Free(x)
  \/ \E S \in SUBSET Object : Grow(S) \/ Shrink(S)
  \/ Refuse \/ GoOn

Spec == Init /\ [][Next]_vars

=============================================================================
