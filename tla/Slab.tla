-------------------------------- MODULE Slab --------------------------------
(***************************************************************************)
(* A slab cache (slab.c): allocByCache(), freeByCache() and the transfers  *)
(* of objects between the slabs and the local cache, refillCache() and     *)
(* flushLocalCache().                                                      *)
(*                                                                         *)
(* A call holds preemption off from its beginning to its end, and no       *)
(* interrupt handler allocates: calls do not interleave.  The loops of the *)
(* two transfers are steps of their own.                                   *)
(*                                                                         *)
(* A slab is the block of pages it lies in; the buddy system (Buddy) gives *)
(* one that is not in use, or none.                                        *)
(***************************************************************************)
EXTENDS Integers, Sequences, FiniteSets, KernelList

CONSTANTS
  Block,     \* the blocks of pages there are
  Count,     \* perSlabObjCount
  Batch,     \* LocalSlabCache.batchCount
  Limit      \* LocalSlabCache.limit

ASSUME SlabAssumption ==
  /\ IsFiniteSet(Block)
  /\ Count \in Nat \ {0} /\ Batch \in Nat \ {0} /\ Limit \in Nat /\ Batch <= Limit

Index == 0..Count - 1
Object == Block \X Index

\* freeLimit
FreeLimit == Count + 2 * Batch

VARIABLES
  slabFree, slabPartial, slabFull,   \* the lists of the cache
  chain,          \* the free objects of each slab: nextFree, objDescriptor
  usedCount,      \* Slab.usedCount
  freeObjCount,   \* SlabCache.freeObjCount
  data,           \* LocalSlabCache.data, the first avail objects
  out,            \* the objects handed out
  call            \* the call under way

lists == <<slabFree, slabPartial, slabFull>>
vars == <<slabFree, slabPartial, slabFull, chain, usedCount, freeObjCount, data,
          out, call>>

Slabs == ToSet(slabFree) \cup ToSet(slabPartial) \cup ToSet(slabFull)

(***************************************************************************)
(* "refill" has "left" of its batch to get, "flush" has to move "left"     *)
(* objects before "object" is freed, "refused": the call has returned 0.   *)
(***************************************************************************)
Idle == [pc |-> "idle"]
Call == [pc : {"idle", "refused"}] \cup [pc : {"refill"}, left : 0..Batch + 1]
        \cup [pc : {"flush"}, left : 0..Batch, object : Object]

TypeOK ==
  /\ slabFree \in Seq(Block) /\ slabPartial \in Seq(Block) /\ slabFull \in Seq(Block)
  /\ chain \in [Block -> Seq(Index)]
  /\ usedCount \in [Block -> 0..Count]
  /\ freeObjCount \in 0..Cardinality(Object)
  /\ data \in Seq(Object) /\ Len(data) <= Limit
  /\ out \in SUBSET Object
  /\ call \in Call

\* initSlabCache()
Init ==
  /\ slabFree = <<>> /\ slabPartial = <<>> /\ slabFull = <<>>
  /\ chain = [s \in Block |-> <<>>]
  /\ usedCount = [s \in Block |-> 0]
  /\ freeObjCount = 0
  /\ data = <<>>
  /\ out = {}
  /\ call = Idle

-----------------------------------------------------------------------------
(* allocByCache()                                                          *)

\* The last object of the local cache is handed out.
HandOut ==
  /\ data # <<>>
  /\ out' = out \cup {Last(data)}
  /\ data' = Front(data)
  /\ call' = Idle
  /\ UNCHANGED <<lists, chain, usedCount, freeObjCount>>

AllocByCache ==
  /\ call.pc = "idle"
  /\ \/ HandOut
     \/ /\ data = <<>>
        /\ call' = [pc |-> "refill", left |-> Batch + 1]
        /\ UNCHANGED <<lists, chain, usedCount, freeObjCount, data, out>>

\* The slab refillCache() takes objects from.
Source == IF slabPartial # <<>> THEN Head(slabPartial) ELSE Head(slabFree)

\* A slip: a slab is full when it was used up to the last object but one.
RefillFromEarly ==
  LET s == Source
      n == IF Count - usedCount[s] <= call.left - 1 THEN Count - usedCount[s]
                                                    ELSE call.left - 1
      moved == SubSeq(chain[s], 1, n)
      partial == ListDelete(slabPartial, s)
  IN /\ call.pc = "refill" /\ call.left > 0
     /\ slabPartial # <<>> \/ slabFree # <<>>
     /\ usedCount' = [usedCount EXCEPT ![s] = @ + n]
     /\ data' = data \o [i \in 1..n |-> <<s, moved[i]>>]
     /\ chain' = [chain EXCEPT ![s] = SubSeq(@, n + 1, Len(@))]
     /\ freeObjCount' = freeObjCount - n
     /\ call' = [call EXCEPT !.left =
                   IF Count - usedCount[s] <= @ - 1 THEN @ - n ELSE 0]
     /\ slabFree' = ListDelete(slabFree, s)
     /\ IF Len(chain'[s]) <= 1
        THEN slabFull' = Cons(s, slabFull) /\ slabPartial' = partial
        ELSE slabPartial' = Cons(s, partial) /\ UNCHANGED slabFull
     /\ UNCHANGED out

\* One round of the outer loop.  The inner one counts "left" down before each
\* object, and not when it ends because the slab is used up: with one left the
\* next slab then moves to slabPartial although nothing is taken from it.
RefillFrom ==
  LET s == Source
      n == IF Count - usedCount[s] <= call.left - 1 THEN Count - usedCount[s]
                                                    ELSE call.left - 1
      moved == SubSeq(chain[s], 1, n)
      partial == ListDelete(slabPartial, s)
  IN /\ call.pc = "refill" /\ call.left > 0
     /\ slabPartial # <<>> \/ slabFree # <<>>
     /\ usedCount' = [usedCount EXCEPT ![s] = @ + n]
     /\ data' = data \o [i \in 1..n |-> <<s, moved[i]>>]
     /\ chain' = [chain EXCEPT ![s] = SubSeq(@, n + 1, Len(@))]
     /\ freeObjCount' = freeObjCount - n
     /\ call' = [call EXCEPT !.left =
                   IF Count - usedCount[s] <= @ - 1 THEN @ - n ELSE 0]
     /\ slabFree' = ListDelete(slabFree, s)
     /\ IF chain'[s] = <<>>
        THEN slabFull' = Cons(s, slabFull) /\ slabPartial' = partial
        ELSE slabPartial' = Cons(s, partial) /\ UNCHANGED slabFull
     /\ UNCHANGED out

RefillEnds ==
  /\ call.pc = "refill"
  /\ call.left = 0 \/ (slabPartial = <<>> /\ slabFree = <<>>)

RefillReturns == RefillEnds /\ HandOut

\* allocSlabForSlabCache(), and once more.
RefillGrows(s) ==
  /\ RefillEnds /\ data = <<>>
  /\ s \notin Slabs
  /\ slabFree' = Cons(s, slabFree)
  /\ chain' = [chain EXCEPT ![s] = [i \in 1..Count |-> i - 1]]
  /\ usedCount' = [usedCount EXCEPT ![s] = 0]
  /\ freeObjCount' = freeObjCount + Count
  /\ UNCHANGED <<slabPartial, slabFull, data, out, call>>

\* A slip: the local cache is forgotten.
RefillRefusedEarly ==
  /\ RefillEnds
  /\ call' = [pc |-> "refused"]
  /\ UNCHANGED <<lists, chain, usedCount, freeObjCount, data, out>>

\* The buddy system has no pages.
RefillRefused ==
  /\ RefillEnds /\ data = <<>>
  /\ call' = [pc |-> "refused"]
  /\ UNCHANGED <<lists, chain, usedCount, freeObjCount, data, out>>

Refused ==
  /\ call.pc = "refused"
  /\ call' = Idle
  /\ UNCHANGED <<lists, chain, usedCount, freeObjCount, data, out>>

-----------------------------------------------------------------------------
(* freeByCache()                                                           *)

FreeByCache(x) ==
  /\ call.pc = "idle" /\ x \in out
  /\ out' = out \ {x}
  /\ IF Len(data) < Limit
     THEN data' = Append(data, x) /\ UNCHANGED call
     ELSE /\ call' = [pc |-> "flush", left |-> Batch, object |-> x]
          /\ UNCHANGED data
  /\ UNCHANGED <<lists, chain, usedCount, freeObjCount>>

\* One round of flushLocalCache(): the last object that is left goes back to
\* its slab, which changes lists, or goes back to the buddy system.
FlushOne ==
  LET x == Last(data)
      s == x[1]
      free == ListDelete(slabFree, s)
      partial == ListDelete(slabPartial, s)
      unused == usedCount[s] = 1
      destroyed == unused /\ freeObjCount + 1 > FreeLimit
  IN /\ call.pc = "flush" /\ call.left > 0
     /\ data' = Front(data)
     /\ chain' = [chain EXCEPT ![s] = IF destroyed THEN <<>> ELSE Cons(x[2], @)]
     /\ usedCount' = [usedCount EXCEPT ![s] = @ - 1]
     /\ freeObjCount' = freeObjCount + 1 - (IF destroyed THEN Count ELSE 0)
     /\ slabFull' = ListDelete(slabFull, s)
     /\ slabFree' = IF unused /\ ~destroyed THEN Cons(s, free) ELSE free
     /\ slabPartial' = IF unused THEN partial ELSE Cons(s, partial)
     /\ call' = [call EXCEPT !.left = @ - 1]
     /\ UNCHANGED out

FlushReturns ==
  /\ call.pc = "flush" /\ call.left = 0
  /\ data' = Append(data, call.object)
  /\ call' = Idle
  /\ UNCHANGED <<lists, chain, usedCount, freeObjCount, out>>

-----------------------------------------------------------------------------

Next ==
  \/ AllocByCache \/ RefillFrom \/ RefillReturns \/ RefillRefused \/ Refused
  \/ \E s \in Block : RefillGrows(s)
  \/ \E x \in Object : FreeByCache(x)
  \/ FlushOne \/ FlushReturns

Spec == Init /\ [][Next]_vars

-----------------------------------------------------------------------------
(* Properties.                                                             *)

\* Where the objects are that are not handed out: in the chains of the slabs or
\* in the local cache, and one perhaps on its way there.
InChains == UNION {{s} \X ToSet(chain[s]) : s \in Slabs}
OnTheWay == IF call.pc = "flush" THEN {call.object} ELSE {}

\* The lists and the counts of a slab agree with its chain, and freeObjCount
\* with all of them.  (A slab of slabPartial may be wholly free.)
CountsAgree ==
  /\ IsInjective(slabFree \o slabPartial \o slabFull)
  /\ \A s \in Slabs :
       /\ Len(chain[s]) = Count - usedCount[s]
       /\ (s \in ToSet(slabFull)) <=> (usedCount[s] = Count)
       /\ s \in ToSet(slabFree) => usedCount[s] = 0
  /\ freeObjCount = Cardinality(InChains)

\* Each object is in one place: in the chain of its slab, in the local cache,
\* on its way there, or handed out; so a slab that is given back has all of
\* its objects.
ObjectsInOnePlace ==
  /\ IsInjective(data)
  /\ \A s \in Slabs : IsInjective(chain[s])
  /\ InChains \cap ToSet(data) = {}
  /\ out \cap (InChains \cup ToSet(data)) = {}
  /\ OnTheWay \cap (out \cup InChains \cup ToSet(data)) = {}
  /\ out \cup InChains \cup ToSet(data) \cup OnTheWay = Slabs \X Index

\* The slabs are sound through all refills and flushes: their lists and counts
\* agree, and no object is lost or in two places.
SlabsSound == CountsAgree /\ ObjectsInOnePlace

\* A slab cache is an object pool.
P == INSTANCE ObjectPool WITH
       free <- InChains \cup ToSet(data) \cup OnTheWay,
       used <- out,
       refused <- call.pc = "refused"
ImplementsObjectPool == P!Spec

=============================================================================
