------------------------------ MODULE MemoryProofs ------------------------------
(***************************************************************************)
(* What holds of a slab cache for any number of blocks and objects, any    *)
(* batch and any limit: no refill and no flush loses an object or has it   *)
(* in two places, and the cache is a pool of objects to its users.  And    *)
(* what holds of the memory of user tasks for any number of tasks, of      *)
(* memories and of frames, and any programs: every reference to a frame    *)
(* and to a memory is counted, and what is in a memory is its own.         *)
(***************************************************************************)
EXTENDS Slab, AddressSpace, ListLemmas, FiniteSetTheorems

-----------------------------------------------------------------------------
(* A slab cache: the inductive invariant.                                  *)

\* A slab is in one list, once.
ListsSound ==
  /\ IsInjective(slabFree) /\ IsInjective(slabPartial) /\ IsInjective(slabFull)
  /\ ToSet(slabFree) \cap ToSet(slabPartial) = {}
  /\ ToSet(slabFree) \cap ToSet(slabFull) = {}
  /\ ToSet(slabPartial) \cap ToSet(slabFull) = {}

\* The chain of a slab has what its count says, and its list fits the count.
ChainsSound ==
  \A s \in Slabs :
    /\ IsInjective(chain[s]) /\ Len(chain[s]) = Count - usedCount[s]
    /\ (s \in ToSet(slabFull)) <=> (usedCount[s] = Count)
    /\ s \in ToSet(slabFree) => usedCount[s] = 0

\* How far a transfer has come can be read off the local cache.
CallSound ==
  /\ call.pc = "refill" =>
       /\ Len(data) <= Batch /\ (call.left > 0 => Len(data) + call.left <= Batch + 1)
       /\ data = <<>> => call.left = Batch + 1
  /\ call.pc = "flush" => Len(data) = Limit - Batch + call.left

SlabInv ==
  /\ TypeOK /\ ListsSound /\ ChainsSound /\ CallSound
  /\ ObjectsInOnePlace /\ freeObjCount = Cardinality(InChains)

-----------------------------------------------------------------------------
(* Lists and their sizes.                                                  *)

LEMMA ListSize ==
  ASSUME NEW S, NEW s \in Seq(S), IsInjective(s)
  PROVE  IsFiniteSet(ToSet(s)) /\ Cardinality(ToSet(s)) = Len(s)
<1>1. Len(s) \in Nat /\ DOMAIN s = 1..Len(s) /\ s \in [1..Len(s) -> S]
  BY LenProperties
<1>2. s \in [1..Len(s) -> ToSet(s)] /\ \A y \in ToSet(s) : \E i \in 1..Len(s) : s[i] = y
  BY <1>1 DEF ToSet
<1>3. \A i, j \in 1..Len(s) : s[i] = s[j] => i = j
  BY <1>1 DEF IsInjective
<1>4. ExistsBijection(1..Len(s), ToSet(s))
  BY <1>2, <1>3 DEF ExistsBijection, Bijection, Injection, Surjection, IsInjective
<1> QED
  BY <1>1, <1>4, FS_CountingElements, FS_NatBijection

LEMMA ConsLength ==
  ASSUME NEW S, NEW s \in Seq(S), NEW x \in S
  PROVE  Len(Cons(x, s)) = Len(s) + 1
BY DEF Cons

\* The objects of a slab, as they move to the local cache.
LEMMA PairsList ==
  ASSUME NEW s \in Block, NEW m \in Seq(Index), IsInjective(m)
  PROVE  /\ [i \in 1..Len(m) |-> <<s, m[i]>>] \in Seq(Object)
         /\ Len([i \in 1..Len(m) |-> <<s, m[i]>>]) = Len(m)
         /\ IsInjective([i \in 1..Len(m) |-> <<s, m[i]>>])
         /\ ToSet([i \in 1..Len(m) |-> <<s, m[i]>>]) = {s} \X ToSet(m)
         /\ IsFiniteSet({s} \X ToSet(m)) /\ Cardinality({s} \X ToSet(m)) = Len(m)
<1> DEFINE p == [i \in 1..Len(m) |-> <<s, m[i]>>]
<1>1. Len(m) \in Nat /\ DOMAIN m = 1..Len(m) /\ \A i \in 1..Len(m) : m[i] \in Index
  BY LenProperties
<1>2. p \in Seq(Object) /\ Len(p) = Len(m)
  BY <1>1 DEF Object
<1>3. DOMAIN p = 1..Len(m) /\ \A i \in 1..Len(m) : p[i] = <<s, m[i]>>
  OBVIOUS
<1> HIDE DEF p
<1>4. IsInjective(p)
  BY <1>1, <1>3 DEF IsInjective
<1>5. ToSet(p) = {s} \X ToSet(m)
  <2>1. ASSUME NEW y \in ToSet(p) PROVE y \in {s} \X ToSet(m)
    <3>1. PICK i \in 1..Len(m) : y = p[i]
      BY <1>3, <2>1 DEF ToSet
    <3>2. y = <<s, m[i]>> /\ m[i] \in ToSet(m)
      BY <1>1, <1>3, <3>1 DEF ToSet
    <3> QED
      BY <3>2
  <2>2. ASSUME NEW x \in ToSet(m) PROVE <<s, x>> \in ToSet(p)
    <3>1. PICK i \in 1..Len(m) : m[i] = x
      BY <1>1 DEF ToSet
    <3>2. i \in DOMAIN p /\ p[i] = <<s, x>>
      BY <1>3, <3>1
    <3> QED
      BY <3>2 DEF ToSet
  <2> QED
    BY <2>1, <2>2
<1>6. IsFiniteSet({s} \X ToSet(m)) /\ Cardinality({s} \X ToSet(m)) = Len(m)
  BY <1>2, <1>4, <1>5, ListSize
<1> QED
  BY <1>2, <1>4, <1>5, <1>6 DEF p

-----------------------------------------------------------------------------
(* The sets the invariant speaks of.                                       *)

LEMMA ObjectFacts ==
  /\ \A s \in Block, i \in Index : <<s, i>> \in Object
  /\ \A o \in Object : o[1] \in Block /\ o[2] \in Index /\ o = <<o[1], o[2]>>
  /\ IsFiniteSet(Object)
  /\ IsFiniteSet(Index) /\ Cardinality(Index) = Count
<1>1. IsFiniteSet(Index) /\ Cardinality(Index) = Count
  BY SlabAssumption, FS_Interval DEF Index
<1>2. IsFiniteSet(Object)
  BY <1>1, SlabAssumption, FS_Product DEF Object
<1> QED
  BY <1>1, <1>2 DEF Object

LEMMA ObjectSubset ==
  ASSUME NEW X \in SUBSET Object
  PROVE  IsFiniteSet(X) /\ Cardinality(X) \in 0..Cardinality(Object)
<1>1. IsFiniteSet(X) /\ Cardinality(X) <= Cardinality(Object)
  BY ObjectFacts, FS_Subset
<1> QED
  BY <1>1, ObjectFacts, FS_CardinalityType

ChainFacts ==
  /\ Slabs \subseteq Block
  /\ \A s \in Block : chain[s] \in Seq(Index) /\ ToSet(chain[s]) \subseteq Index
  /\ \A s \in Block, i \in Index : <<s, i>> \in InChains <=> s \in Slabs /\ i \in ToSet(chain[s])
  /\ InChains \subseteq Object
  /\ IsFiniteSet(InChains) /\ Cardinality(InChains) \in 0..Cardinality(Object)

LEMMA Chained == TypeOK => ChainFacts
<1> SUFFICES ASSUME TypeOK PROVE ChainFacts
  OBVIOUS
<1>1. Slabs \subseteq Block
  BY ToSetType DEF TypeOK, Slabs
<1>2. \A s \in Block : chain[s] \in Seq(Index) /\ ToSet(chain[s]) \subseteq Index
  BY ToSetType DEF TypeOK
<1>3. \A s \in Block, i \in Index :
        <<s, i>> \in InChains <=> s \in Slabs /\ i \in ToSet(chain[s])
  BY DEF InChains
<1>4. InChains \subseteq Object
  BY <1>1, <1>2 DEF InChains, Object
<1>5. IsFiniteSet(InChains) /\ Cardinality(InChains) \in 0..Cardinality(Object)
  BY <1>4, ObjectSubset
<1> QED
  BY <1>1, <1>2, <1>3, <1>4, <1>5 DEF ChainFacts

CallFacts ==
  /\ call.pc \in {"idle", "refused", "refill", "flush"}
  /\ call.pc = "refill" => call = [pc |-> "refill", left |-> call.left] /\ call.left \in 0..Batch + 1
  /\ call.pc = "flush" =>
       /\ call = [pc |-> "flush", left |-> call.left, object |-> call.object]
       /\ call.left \in 0..Batch /\ call.object \in Object

LEMMA CallTypes == TypeOK => CallFacts
BY DEF TypeOK, Call, CallFacts

LEMMA CallIs ==
  /\ \A p \in {"idle", "refused"} : [pc |-> p] \in Call
  /\ \A l \in 0..Batch + 1 : [pc |-> "refill", left |-> l] \in Call
  /\ \A l \in 0..Batch, o \in Object : [pc |-> "flush", left |-> l, object |-> o] \in Call
BY DEF Call

LEMMA SlabInit == Init => SlabInv
<1> SUFFICES ASSUME Init PROVE SlabInv
  OBVIOUS
<1> USE EmptyList DEF Init
<1>1. Slabs = {} /\ InChains = {}
  BY DEF Slabs, InChains
<1>2. TypeOK
  <2>1. 0 \in 0..Cardinality(Object) /\ 0 \in 0..Count
    BY ObjectFacts, FS_CardinalityType, SlabAssumption
  <2> QED
    BY <2>1, CallIs, SlabAssumption DEF TypeOK, Idle
<1>3. ListsSound /\ ChainsSound
  BY <1>1 DEF ListsSound, ChainsSound
<1>4. CallSound /\ OnTheWay = {}
  BY DEF CallSound, OnTheWay, Idle
<1>5. ObjectsInOnePlace
  BY <1>1, <1>4 DEF ObjectsInOnePlace
<1>6. freeObjCount = Cardinality(InChains)
  BY <1>1, FS_EmptySet
<1> QED
  BY <1>2, <1>3, <1>4, <1>5, <1>6 DEF SlabInv

-----------------------------------------------------------------------------
(* The steps that leave the slabs alone.                                   *)

\* Where the objects are, but for the chains themselves.
Placed ==
  /\ InChains \cap ToSet(data) = {}
  /\ out \cap (InChains \cup ToSet(data)) = {}
  /\ OnTheWay \cap (out \cup InChains \cup ToSet(data)) = {}
  /\ out \cup InChains \cup ToSet(data) \cup OnTheWay = Slabs \X Index

LEMMA Places ==
  ChainsSound => (ObjectsInOnePlace <=> IsInjective(data) /\ Placed)
BY DEF ChainsSound, ObjectsInOnePlace, Placed

LEMMA SlabsStay ==
  ASSUME SlabInv, UNCHANGED <<lists, chain, usedCount, freeObjCount>>,
         data' \in Seq(Object), Len(data') <= Limit, out' \in SUBSET Object, call' \in Call,
         CallSound', IsInjective(data'), Placed'
  PROVE  SlabInv'
<1> USE DEF SlabInv, lists
<1>1. Slabs' = Slabs
  BY DEF Slabs
<1>2. InChains' = InChains
  BY <1>1 DEF InChains
<1>3. TypeOK'
  BY DEF TypeOK
<1>4. ListsSound'
  BY DEF ListsSound
<1>5. ChainsSound'
  BY <1>1 DEF ChainsSound
<1>6. ObjectsInOnePlace'
  BY <1>5 DEF ChainsSound, ObjectsInOnePlace, Placed
<1>7. freeObjCount' = Cardinality(InChains')
  BY <1>2
<1> QED
  BY <1>3, <1>4, <1>5, <1>6, <1>7

LEMMA HandOutInv ==
  ASSUME SlabInv, call.pc # "flush", HandOut
  PROVE  SlabInv'
<1>1. /\ data \in Seq(Object) /\ out \in SUBSET Object /\ IsInjective(data) /\ Placed
      /\ Len(data) <= Limit /\ Len(data) \in Nat
  BY Places DEF SlabInv, TypeOK, ObjectsInOnePlace
<1> DEFINE x == Last(data)
<1>2. /\ data # <<>> /\ data' = Front(data) /\ out' = out \cup {x} /\ call' = Idle
      /\ UNCHANGED <<lists, chain, usedCount, freeObjCount>>
  BY DEF HandOut
<1>3. /\ x \in Object /\ x \in ToSet(data) /\ data' \in Seq(Object) /\ Len(data') = Len(data) - 1
      /\ ToSet(data') = ToSet(data) \ {x} /\ IsInjective(data')
  BY <1>1, <1>2, FrontList
<1>4. Slabs' = Slabs /\ InChains' = InChains
  BY <1>2 DEF Slabs, InChains, lists
<1>5. OnTheWay = {} /\ OnTheWay' = {}
  BY <1>2 DEF OnTheWay, Idle
<1>6. Placed'
  BY <1>1, <1>2, <1>3, <1>4, <1>5 DEF Placed
<1>7. CallSound' /\ call' \in Call
  BY <1>2, CallIs DEF CallSound, Idle
<1>8. Len(data') <= Limit /\ out' \in SUBSET Object
  BY <1>1, <1>2, <1>3, SlabAssumption
<1> QED
  BY <1>2, <1>3, <1>6, <1>7, <1>8, SlabsStay

\* A call begins or is refused; nothing moves.
LEMMA CallInv ==
  ASSUME SlabInv, UNCHANGED <<lists, chain, usedCount, freeObjCount, data, out>>,
         call.pc # "flush", call'.pc # "flush", call' \in Call, CallSound'
  PROVE  SlabInv'
<1>1. OnTheWay = {} /\ OnTheWay' = {}
  BY DEF OnTheWay
<1>2. Slabs' = Slabs /\ InChains' = InChains
  BY DEF Slabs, InChains, lists
<1>3. Placed /\ IsInjective(data)
  BY Places DEF SlabInv
<1>4. Placed'
  BY <1>1, <1>2, <1>3 DEF Placed
<1> QED
  BY <1>3, <1>4, SlabsStay DEF SlabInv, TypeOK

LEMMA FreeInv ==
  ASSUME SlabInv, NEW x \in Object, FreeByCache(x)
  PROVE  SlabInv'
<1>1. /\ data \in Seq(Object) /\ out \in SUBSET Object /\ IsInjective(data) /\ Placed
      /\ Len(data) <= Limit /\ Len(data) \in Nat
  BY Places DEF SlabInv, TypeOK, ObjectsInOnePlace
<1>2. /\ call.pc = "idle" /\ x \in out /\ out' = out \ {x}
      /\ UNCHANGED <<lists, chain, usedCount, freeObjCount>>
  BY DEF FreeByCache
<1>3. Slabs' = Slabs /\ InChains' = InChains /\ OnTheWay = {}
  BY <1>2 DEF Slabs, InChains, lists, OnTheWay
<1>4. CASE Len(data) < Limit
  <2>1. data' = Append(data, x) /\ call' = call
    BY <1>4 DEF FreeByCache
  <2>2. x \notin ToSet(data)
    BY <1>1, <1>2 DEF Placed
  <2>3. /\ data' \in Seq(Object) /\ Len(data') = Len(data) + 1
        /\ ToSet(data') = ToSet(data) \cup {x} /\ IsInjective(data')
    BY <1>1, <2>1, <2>2, AppendList
  <2>4. OnTheWay' = {} /\ CallSound'
    BY <1>2, <2>1 DEF OnTheWay, CallSound
  <2>5. Placed'
    BY <1>1, <1>2, <1>3, <2>3, <2>4 DEF Placed
  <2>6. Len(data') <= Limit
    BY <1>1, <1>4, <2>3, SlabAssumption
  <2> QED
    BY <1>1, <1>2, <2>1, <2>3, <2>4, <2>5, <2>6, SlabsStay DEF SlabInv, TypeOK
<1>5. CASE ~(Len(data) < Limit)
  <2>1. data' = data /\ call' = [pc |-> "flush", left |-> Batch, object |-> x]
    BY <1>5 DEF FreeByCache
  <2>2. OnTheWay' = {x}
    BY <2>1 DEF OnTheWay
  <2>3. Placed'
    BY <1>1, <1>2, <1>3, <2>1, <2>2 DEF Placed
  <2>4. Len(data) = Limit - Batch + Batch
    BY <1>1, <1>5, SlabAssumption
  <2>5. CallSound'
    BY <2>1, <2>4 DEF CallSound
  <2>6. Batch \in 0..Batch
    BY SlabAssumption
  <2>7. call' \in Call
    BY <2>1, <2>6, CallIs
  <2> QED
    BY <1>1, <1>2, <2>1, <2>3, <2>5, <2>7, SlabsStay
<1> QED
  BY <1>4, <1>5

LEMMA FlushReturnsInv ==
  ASSUME SlabInv, FlushReturns
  PROVE  SlabInv'
<1>1. /\ data \in Seq(Object) /\ out \in SUBSET Object /\ IsInjective(data) /\ Placed
      /\ CallFacts /\ CallSound /\ Len(data) \in Nat
  BY Places, CallTypes DEF SlabInv, TypeOK, ObjectsInOnePlace
<1> DEFINE x == call.object
<1>2. /\ call.pc = "flush" /\ call.left = 0 /\ data' = Append(data, x) /\ call' = Idle
      /\ out' = out /\ UNCHANGED <<lists, chain, usedCount, freeObjCount>>
  BY DEF FlushReturns
<1>3. Slabs' = Slabs /\ InChains' = InChains /\ OnTheWay = {x} /\ OnTheWay' = {}
  BY <1>2 DEF Slabs, InChains, lists, OnTheWay, Idle
<1>4. x \in Object /\ x \notin ToSet(data)
  BY <1>1, <1>2, <1>3 DEF CallFacts, Placed
<1>5. /\ data' \in Seq(Object) /\ Len(data') = Len(data) + 1
      /\ ToSet(data') = ToSet(data) \cup {x} /\ IsInjective(data')
  BY <1>1, <1>2, <1>4, AppendList
<1>6. Len(data) = Limit - Batch
  BY <1>1, <1>2, SlabAssumption DEF CallSound
<1>7. Len(data') <= Limit
  BY <1>5, <1>6, SlabAssumption
<1>8. Placed'
  BY <1>1, <1>2, <1>3, <1>5 DEF Placed
<1>9. CallSound' /\ call' \in Call
  BY <1>2, CallIs DEF CallSound, Idle
<1> QED
  BY <1>1, <1>2, <1>5, <1>7, <1>8, <1>9, SlabsStay

-----------------------------------------------------------------------------
(* The transfers.                                                          *)

\* One slab changes its chain, comes or goes.
LEMMA ChainChange ==
  ASSUME TypeOK, NEW s \in Block, NEW c \in Seq(Index), chain' = [chain EXCEPT ![s] = c],
         Slabs' \subseteq Block, \A r \in Block : r # s => (r \in Slabs' <=> r \in Slabs)
  PROVE  InChains' = (InChains \ ({s} \X Index)) \cup
                     (IF s \in Slabs' THEN {s} \X ToSet(c) ELSE {})
<1>1. \A r \in Block : chain'[r] = IF r = s THEN c ELSE chain[r]
  BY DEF TypeOK
<1>2. Slabs \subseteq Block
  BY Chained DEF ChainFacts
<1>3. \A r \in Block : ToSet(chain[r]) \subseteq Index
  BY Chained DEF ChainFacts
<1>4. InChains' = UNION {{r} \X ToSet(chain'[r]) : r \in Slabs'}
  BY DEF InChains
<1>5. ASSUME NEW o \in InChains'
      PROVE  o \in (InChains \ ({s} \X Index)) \cup
                   (IF s \in Slabs' THEN {s} \X ToSet(c) ELSE {})
  <2>1. PICK r \in Slabs' : o \in {r} \X ToSet(chain'[r])
    BY <1>4, <1>5
  <2>2. CASE r = s
    BY <1>1, <2>1, <2>2
  <2>3. CASE r # s
    <3>1. r \in Slabs /\ o \in {r} \X ToSet(chain[r])
      BY <1>1, <2>1, <2>3
    <3>2. o \notin {s} \X Index
      BY <2>3, <3>1
    <3> QED
      BY <3>1, <3>2 DEF InChains
  <2> QED
    BY <2>2, <2>3
<1>6. ASSUME NEW o \in InChains, o \notin {s} \X Index
      PROVE  o \in InChains'
  <2>1. PICK r \in Slabs : o \in {r} \X ToSet(chain[r])
    BY DEF InChains
  <2>2. r # s
    BY <1>2, <1>3, <1>6, <2>1
  <2>3. r \in Slabs' /\ chain'[r] = chain[r]
    BY <1>1, <1>2, <2>2
  <2> QED
    BY <1>4, <2>1, <2>3
<1>7. ASSUME s \in Slabs', NEW o \in {s} \X ToSet(c)
      PROVE  o \in InChains'
  BY <1>1, <1>4, <1>7
<1> QED
  BY <1>5, <1>6, <1>7

LEMMA SourceFacts ==
  ASSUME SlabInv, slabPartial # <<>> \/ slabFree # <<>>
  PROVE  /\ Source \in Block /\ Source \in Slabs
         /\ Source \in ToSet(slabFree) \cup ToSet(slabPartial)
         /\ Source \notin ToSet(slabFull) /\ usedCount[Source] < Count
         /\ IsInjective(chain[Source]) /\ Len(chain[Source]) = Count - usedCount[Source]
<1>1. /\ slabFree \in Seq(Block) /\ slabPartial \in Seq(Block)
      /\ IsInjective(slabFree) /\ IsInjective(slabPartial)
      /\ \A s \in Block : usedCount[s] \in 0..Count
  BY DEF SlabInv, TypeOK, ListsSound
<1>2. Source \in Block /\ Source \in ToSet(slabFree) \cup ToSet(slabPartial)
  BY <1>1, TailList DEF Source
<1>3. Source \in Slabs /\ Source \notin ToSet(slabFull)
  BY <1>2 DEF SlabInv, ListsSound, Slabs
<1>4. /\ IsInjective(chain[Source]) /\ Len(chain[Source]) = Count - usedCount[Source]
      /\ usedCount[Source] # Count
  BY <1>3 DEF SlabInv, ChainsSound
<1> QED
  BY <1>1, <1>2, <1>3, <1>4, SlabAssumption

\* What a round of the refill does to the lists.
LEMMA RefillLists ==
  ASSUME SlabInv, RefillFrom
  PROVE  /\ slabFree' \in Seq(Block) /\ slabPartial' \in Seq(Block) /\ slabFull' \in Seq(Block)
         /\ ListsSound' /\ Slabs' = Slabs
         /\ ToSet(slabFull') = IF chain'[Source] = <<>> THEN ToSet(slabFull) \cup {Source}
                               ELSE ToSet(slabFull)
         /\ ToSet(slabFree') \subseteq ToSet(slabFree) /\ Source \notin ToSet(slabFree')
<1> DEFINE s == Source
           partial == ListDelete(slabPartial, s)
<1>1. /\ s \in Block /\ s \in ToSet(slabFree) \cup ToSet(slabPartial)
      /\ s \notin ToSet(slabFull)
  BY SourceFacts DEF RefillFrom
<1>2. /\ slabFree \in Seq(Block) /\ slabPartial \in Seq(Block) /\ slabFull \in Seq(Block)
      /\ ListsSound
  BY DEF SlabInv, TypeOK
<1>3. /\ slabFree' = ListDelete(slabFree, s)
      /\ \/ /\ chain'[s] = <<>>
            /\ slabFull' = Cons(s, slabFull) /\ slabPartial' = partial
         \/ /\ chain'[s] # <<>>
            /\ slabPartial' = Cons(s, partial) /\ slabFull' = slabFull
  BY DEF RefillFrom
<1> HIDE DEF s
<1>4. /\ slabFree' \in Seq(Block) /\ IsInjective(slabFree')
      /\ ToSet(slabFree') = ToSet(slabFree) \ {s}
  BY <1>2, <1>3, DeleteList DEF ListsSound
<1>5. /\ partial \in Seq(Block) /\ IsInjective(partial)
      /\ ToSet(partial) = ToSet(slabPartial) \ {s}
  BY <1>2, DeleteList DEF ListsSound
<1> HIDE DEF partial
<1>6. CASE chain'[s] = <<>>
  <2>1. /\ slabFull' \in Seq(Block) /\ IsInjective(slabFull')
        /\ ToSet(slabFull') = {s} \cup ToSet(slabFull) /\ slabPartial' = partial
    <3>1. slabFull' = Cons(s, slabFull) /\ slabPartial' = partial
      BY <1>3, <1>6
    <3>2. IsInjective(slabFull) /\ s \notin ToSet(slabFull)
      BY <1>1, <1>2 DEF ListsSound
    <3> QED
      BY <1>1, <1>2, <3>1, <3>2, ConsList
  <2>2. ListsSound'
    BY <1>1, <1>2, <1>4, <1>5, <2>1 DEF ListsSound
  <2>3. Slabs' = Slabs
    BY <1>1, <1>4, <1>5, <2>1 DEF Slabs
  <2> QED
    BY <1>4, <1>5, <1>6, <2>1, <2>2, <2>3 DEF s
<1>7. CASE chain'[s] # <<>>
  <2>1. /\ slabPartial' \in Seq(Block) /\ IsInjective(slabPartial')
        /\ ToSet(slabPartial') = {s} \cup ToSet(partial) /\ slabFull' = slabFull
    <3>1. slabPartial' = Cons(s, partial) /\ slabFull' = slabFull
      BY <1>3, <1>7
    <3>2. s \notin ToSet(partial)
      BY <1>5
    <3> QED
      BY <1>1, <1>5, <3>1, <3>2, ConsList
  <2>2. ListsSound'
    BY <1>1, <1>2, <1>4, <1>5, <2>1 DEF ListsSound
  <2>3. Slabs' = Slabs
    BY <1>1, <1>4, <1>5, <2>1 DEF Slabs
  <2> QED
    BY <1>2, <1>4, <1>7, <2>1, <2>2, <2>3 DEF s
<1> QED
  BY <1>6, <1>7

\* A round of the refill takes n objects of one slab over.
RefillMoves(s, n, c, m) ==
  /\ s \in Block /\ s \in Slabs /\ n \in 0..Count - usedCount[s]
  /\ n <= call.left - 1 /\ (call.left >= 2 => n >= 1)
  /\ c \in Seq(Index) /\ m \in Seq(Index) /\ Len(m) = n
  /\ IsInjective(c) /\ IsInjective(m) /\ Len(c) = Count - usedCount[s] - n
  /\ ToSet(c) = ToSet(chain[s]) \ ToSet(m) /\ ToSet(m) \subseteq ToSet(chain[s])
  /\ chain' = [chain EXCEPT ![s] = c]
  /\ usedCount' = [usedCount EXCEPT ![s] = usedCount[s] + n]
  /\ data' = data \o [i \in 1..Len(m) |-> <<s, m[i]>>]
  /\ freeObjCount' = freeObjCount - n
  /\ \/ n = Count - usedCount[s] /\ call' = [pc |-> "refill", left |-> call.left - n]
     \/ n = call.left - 1 /\ call' = [pc |-> "refill", left |-> 0]
  /\ out' = out

LEMMA RefillTakes ==
  ASSUME SlabInv, RefillFrom
  PROVE  /\ \E n, c, m : RefillMoves(Source, n, c, m)
         /\ call.pc = "refill" /\ call.left > 0
<1>1. call.pc = "refill" /\ call.left > 0 /\ (slabPartial # <<>> \/ slabFree # <<>>)
  BY DEF RefillFrom
<1> DEFINE left == call.left
           free == Count - usedCount[Source]
           n == IF free <= left - 1 THEN free ELSE left - 1
           c == SubSeq(chain[Source], n + 1, Len(chain[Source]))
           m == SubSeq(chain[Source], 1, n)
<1>2. call = [pc |-> "refill", left |-> left] /\ left \in 1..Batch + 1
  BY <1>1, CallTypes, SlabAssumption DEF CallFacts, SlabInv
<1>3. /\ Source \in Block /\ Source \in Slabs /\ usedCount[Source] < Count
      /\ IsInjective(chain[Source]) /\ Len(chain[Source]) = free
      /\ chain[Source] \in Seq(Index) /\ usedCount[Source] \in 0..Count
      /\ chain \in [Block -> Seq(Index)] /\ usedCount \in [Block -> 0..Count]
  BY <1>1, SourceFacts DEF SlabInv, TypeOK
<1>4. /\ chain' = [chain EXCEPT ![Source] = c]
      /\ usedCount' = [usedCount EXCEPT ![Source] = usedCount[Source] + n]
      /\ data' = data \o [i \in 1..n |-> <<Source, m[i]>>]
      /\ freeObjCount' = freeObjCount - n
      /\ call' = [call EXCEPT !.left = IF free <= left - 1 THEN left - n ELSE 0]
      /\ out' = out
  BY <1>3 DEF RefillFrom
<1>5. free \in Nat /\ free >= 1 /\ left \in Nat /\ left >= 1
  BY <1>2, <1>3, SlabAssumption
<1>6. /\ n \in 0..free /\ n <= left - 1 /\ (left >= 2 => n >= 1)
      /\ \/ n = free /\ free <= left - 1
         \/ n = left - 1 /\ ~(free <= left - 1)
  <2> HIDE DEF left, free
  <2> QED
    BY <1>5
<1>7. \/ n = free /\ call' = [pc |-> "refill", left |-> left - n]
      \/ n = left - 1 /\ call' = [pc |-> "refill", left |-> 0]
  <2> HIDE DEF left, free, n
  <2>1. CASE n = free /\ free <= left - 1
    BY <1>2, <1>4, <2>1
  <2>2. CASE n = left - 1 /\ ~(free <= left - 1)
    BY <1>2, <1>4, <2>2
  <2> QED
    BY <1>6, <2>1, <2>2
<1>8. /\ c \in Seq(Index) /\ m \in Seq(Index) /\ Len(m) = n /\ Len(c) = free - n
      /\ IsInjective(c) /\ IsInjective(m)
      /\ ToSet(c) = ToSet(chain[Source]) \ ToSet(m) /\ ToSet(m) \subseteq ToSet(chain[Source])
  <2>1. n \in 0..Len(chain[Source])
    BY <1>3, <1>6
  <2> HIDE DEF n, free
  <2> QED
    BY <1>3, <2>1, SplitList
<1> HIDE DEF n, c, m
<1>9. RefillMoves(Source, n, c, m)
  BY <1>3, <1>4, <1>6, <1>7, <1>8 DEF RefillMoves
<1> QED
  BY <1>1, <1>9

\* The objects go from the chain to the local cache.
LEMMA RefillObjects ==
  ASSUME SlabInv, NEW s, NEW n, NEW c, NEW m, RefillMoves(s, n, c, m), Slabs' = Slabs
  PROVE  /\ InChains' = InChains \ ({s} \X ToSet(m)) /\ {s} \X ToSet(m) \subseteq InChains
         /\ freeObjCount' = Cardinality(InChains')
         /\ ToSet(data') = ToSet(data) \cup ({s} \X ToSet(m))
         /\ data' \in Seq(Object) /\ Len(data') = Len(data) + n /\ IsInjective(data')
<1> USE DEF RefillMoves
<1>1. /\ s \in Block /\ s \in Slabs /\ c \in Seq(Index) /\ m \in Seq(Index)
      /\ IsInjective(m) /\ Len(m) = n
      /\ ToSet(c) = ToSet(chain[s]) \ ToSet(m) /\ ToSet(m) \subseteq ToSet(chain[s])
  OBVIOUS
<1>2. TypeOK /\ ChainFacts /\ data \in Seq(Object) /\ IsInjective(data) /\ Placed
  BY Chained, Places DEF SlabInv, TypeOK, ObjectsInOnePlace
<1>3. ToSet(chain[s]) \subseteq Index
  BY <1>1, <1>2 DEF ChainFacts
<1> DEFINE X == {s} \X ToSet(m)
<1>4. \A i \in Index : <<s, i>> \in InChains <=> i \in ToSet(chain[s])
  BY <1>1, <1>2 DEF ChainFacts
<1>5. X \subseteq InChains
  BY <1>1, <1>3, <1>4
<1>6. InChains' = InChains \ X
  <2>1. InChains' = (InChains \ ({s} \X Index)) \cup ({s} \X ToSet(c))
    BY <1>1, <1>2, ChainChange DEF ChainFacts
  <2>2. {s} \X ToSet(c) = (InChains \cap ({s} \X Index)) \ X
    BY <1>1, <1>3, <1>4
  <2>3. X \subseteq {s} \X Index
    BY <1>1, <1>3
  <2> QED
    BY <2>1, <2>2, <2>3
<1>7. Cardinality(X) = n
  BY <1>1, PairsList
<1> HIDE DEF RefillMoves, X
<1>8. freeObjCount' = Cardinality(InChains')
  <2>1. InChains \cap X = X
    BY <1>5
  <2>2. Cardinality(InChains \ X) = Cardinality(InChains) - n
    <3>1. Cardinality(InChains \ X) = Cardinality(InChains) - Cardinality(InChains \cap X)
      BY <1>2, FS_Difference DEF ChainFacts
    <3> QED
      BY <1>7, <2>1, <3>1
  <2> QED
    BY <1>6, <2>2 DEF SlabInv, RefillMoves
<1>9. /\ ToSet(data') = ToSet(data) \cup X /\ data' \in Seq(Object)
      /\ Len(data') = Len(data) + n /\ IsInjective(data')
  <2> DEFINE p == [i \in 1..Len(m) |-> <<s, m[i]>>]
  <2>1. p \in Seq(Object) /\ Len(p) = n /\ IsInjective(p) /\ ToSet(p) = X
    BY <1>1, PairsList DEF X
  <2>2. data' = data \o p
    BY DEF RefillMoves
  <2>3. ToSet(data) \cap X = {}
    BY <1>2, <1>5 DEF Placed
  <2> HIDE DEF p
  <2> QED
    BY <1>2, <2>1, <2>2, <2>3, ConcatList
<1> QED
  BY <1>5, <1>6, <1>8, <1>9 DEF X

LEMMA RefillInv == ASSUME SlabInv, RefillFrom PROVE SlabInv'
<1>1. PICK n, c, m : RefillMoves(Source, n, c, m)
  BY RefillTakes
<1>2. call.pc = "refill" /\ call.left > 0 /\ call.left \in 0..Batch + 1
  BY RefillTakes, CallTypes DEF CallFacts, SlabInv
<1>3. PICK s \in Block : s = Source
  BY <1>1 DEF RefillMoves
<1>4. RefillMoves(s, n, c, m)
  BY <1>1, <1>3
<1>5. /\ slabFree' \in Seq(Block) /\ slabPartial' \in Seq(Block) /\ slabFull' \in Seq(Block)
      /\ ListsSound' /\ Slabs' = Slabs
      /\ ToSet(slabFull') = IF chain'[s] = <<>> THEN ToSet(slabFull) \cup {s}
                            ELSE ToSet(slabFull)
      /\ ToSet(slabFree') \subseteq ToSet(slabFree) /\ s \notin ToSet(slabFree')
  BY <1>3, RefillLists
<1> DEFINE X == {s} \X ToSet(m)
<1>6. /\ InChains' = InChains \ X /\ X \subseteq InChains
      /\ freeObjCount' = Cardinality(InChains')
      /\ ToSet(data') = ToSet(data) \cup X
      /\ data' \in Seq(Object) /\ Len(data') = Len(data) + n /\ IsInjective(data')
  BY <1>4, <1>5, RefillObjects
<1> HIDE DEF X
<1>7. /\ chain \in [Block -> Seq(Index)] /\ usedCount \in [Block -> 0..Count]
      /\ Len(data) \in Nat /\ out \in SUBSET Object /\ Placed /\ ChainsSound
      /\ s \notin ToSet(slabFull) /\ CallSound
  <2>1. s \notin ToSet(slabFull)
    <3>1. slabPartial # <<>> \/ slabFree # <<>>
      BY DEF RefillFrom
    <3> QED
      BY <1>3, <3>1, SourceFacts
  <2> QED
    BY <2>1, Places DEF SlabInv, TypeOK
<1>8. /\ n \in Nat /\ n <= Count - usedCount[s] /\ n <= call.left - 1
      /\ (call.left >= 2 => n >= 1)
      /\ \/ n = Count - usedCount[s] /\ call' = [pc |-> "refill", left |-> call.left - n]
         \/ n = call.left - 1 /\ call' = [pc |-> "refill", left |-> 0]
  BY <1>4, <1>7, SlabAssumption DEF RefillMoves
<1>9. chain' \in [Block -> Seq(Index)] /\ usedCount' \in [Block -> 0..Count]
  <2>1. usedCount[s] + n \in 0..Count
    BY <1>7, <1>8, SlabAssumption
  <2> QED
    BY <1>4, <1>7, <2>1 DEF RefillMoves
<1>10. Len(data') <= Batch /\ CallSound' /\ call' \in Call /\ call'.pc = "refill"
  <2>1. Len(data) + call.left <= Batch + 1 /\ (data = <<>> => call.left = Batch + 1)
    BY <1>2, <1>7 DEF CallSound
  <2>2. Len(data') <= Batch
    BY <1>2, <1>6, <1>7, <1>8, <2>1, SlabAssumption
  <2>3. data' # <<>>
    <3>1. CASE data = <<>>
      <4>1. call.left >= 2
        BY <2>1, <3>1, SlabAssumption
      <4>2. Len(data') >= 1
        BY <1>6, <1>7, <1>8, <4>1
      <4> QED
        BY <4>2
    <3>2. CASE data # <<>>
      <4>1. Len(data) >= 1
        BY <3>2 DEF SlabInv, TypeOK
      <4>2. Len(data') >= 1
        BY <1>6, <1>7, <1>8, <4>1
      <4> QED
        BY <4>2
    <3> QED
      BY <3>1, <3>2
  <2>4. CASE n = Count - usedCount[s] /\ call' = [pc |-> "refill", left |-> call.left - n]
    <3>1. call.left - n \in 0..Batch + 1 /\ Len(data') + (call.left - n) <= Batch + 1
      <4>1. /\ call.left \in Nat /\ call.left <= Batch + 1 /\ n \in Nat /\ n <= call.left - 1
            /\ Len(data) \in Nat /\ Len(data') = Len(data) + n /\ Batch \in Nat
        BY <1>2, <1>6, <1>7, <1>8, SlabAssumption
      <4>2. Len(data) + call.left <= Batch + 1
        BY <2>1
      <4>3. ASSUME NEW l \in Nat, NEW k \in Nat, NEW d \in Nat, k <= l - 1, l <= Batch + 1,
                   d + l <= Batch + 1, NEW e, e = d + k
            PROVE  l - k \in 0..Batch + 1 /\ e + (l - k) <= Batch + 1
        BY <4>1, <4>3
      <4> QED
        BY <4>1, <4>2, <4>3
    <3>2. call'.left = call.left - n /\ call'.pc = "refill"
      BY <2>4
    <3> QED
      BY <2>2, <2>3, <2>4, <3>1, <3>2, CallIs DEF CallSound
  <2>5. CASE call' = [pc |-> "refill", left |-> 0]
    <3>1. 0 \in 0..Batch + 1
      BY SlabAssumption
    <3> QED
      BY <2>2, <2>3, <2>5, <3>1, CallIs DEF CallSound
  <2> QED
    BY <1>8, <2>4, <2>5
<1>11. ChainsSound'
  <2> SUFFICES ASSUME NEW r \in Slabs
               PROVE  /\ IsInjective(chain'[r]) /\ Len(chain'[r]) = Count - usedCount'[r]
                      /\ (r \in ToSet(slabFull')) <=> (usedCount'[r] = Count)
                      /\ r \in ToSet(slabFree') => usedCount'[r] = 0
    BY <1>5 DEF ChainsSound
  <2>1. CASE r = s
    <3>1. /\ chain'[s] = c /\ usedCount'[s] = usedCount[s] + n
          /\ IsInjective(c) /\ Len(c) = Count - usedCount[s] - n /\ c \in Seq(Index)
      BY <1>4, <1>7 DEF RefillMoves
    <3>2. Len(c) = Count - usedCount'[s]
      BY <1>7, <1>8, <3>1, SlabAssumption
    <3>3. c = <<>> <=> Len(c) = 0
      BY <3>1
    <3>4. usedCount'[s] = Count <=> Len(c) = 0
      BY <1>9, <3>2, SlabAssumption
    <3> QED
      BY <1>5, <1>7, <2>1, <3>1, <3>2, <3>3, <3>4
  <2>2. CASE r # s
    <3>1. chain'[r] = chain[r] /\ usedCount'[r] = usedCount[r]
      BY <1>4, <1>7, <2>2 DEF RefillMoves
    <3> QED
      BY <1>5, <1>7, <2>2, <3>1 DEF ChainsSound
  <2> QED
    BY <2>1, <2>2
<1>12. Placed'
  <2>1. OnTheWay = {} /\ OnTheWay' = {}
    BY <1>2, <1>10 DEF OnTheWay
  <2>2. out' = out
    BY <1>4 DEF RefillMoves
  <2> QED
    BY <1>5, <1>6, <1>7, <2>1, <2>2 DEF Placed
<1>13. TypeOK'
  <2>1. InChains' \subseteq Object
    BY <1>6, Chained DEF ChainFacts, SlabInv
  <2>2. freeObjCount' \in 0..Cardinality(Object)
    BY <1>6, <2>1, ObjectSubset
  <2>3. Len(data') <= Limit /\ out' = out
    BY <1>4, <1>6, <1>7, <1>8, <1>10, SlabAssumption DEF RefillMoves
  <2> QED
    BY <1>5, <1>6, <1>7, <1>9, <1>10, <2>2, <2>3 DEF TypeOK
<1> QED
  BY <1>5, <1>6, <1>10, <1>11, <1>12, <1>13 DEF SlabInv, ObjectsInOnePlace, ChainsSound, Placed

\* A new slab comes with all of its objects.
LEMMA GrowInv ==
  ASSUME SlabInv, NEW s \in Block, RefillGrows(s)
  PROVE  SlabInv' /\ Slabs' = Slabs \cup {s}
<1> DEFINE c == [i \in 1..Count |-> i - 1]
           X == {s} \X Index
<1>1. /\ s \notin Slabs /\ slabFree' = Cons(s, slabFree) /\ chain' = [chain EXCEPT ![s] = c]
      /\ usedCount' = [usedCount EXCEPT ![s] = 0] /\ freeObjCount' = freeObjCount + Count
      /\ call.pc = "refill" /\ UNCHANGED <<slabPartial, slabFull, data, out, call>>
  BY DEF RefillGrows, RefillEnds
<1>2. /\ TypeOK /\ ListsSound /\ ChainsSound /\ Placed /\ ChainFacts /\ CallSound
      /\ IsInjective(data)
  BY Chained, Places DEF SlabInv
<1>3. c \in Seq(Index) /\ Len(c) = Count /\ IsInjective(c) /\ ToSet(c) = Index
  <2>1. Count \in Nat /\ \A i \in 1..Count : i - 1 \in Index
    BY SlabAssumption DEF Index
  <2>2. c \in Seq(Index) /\ Len(c) = Count
    BY <2>1
  <2>3. DOMAIN c = 1..Count /\ \A i \in 1..Count : c[i] = i - 1
    OBVIOUS
  <2> HIDE DEF c
  <2>4. IsInjective(c)
    <3>1. ASSUME NEW i \in 1..Count, NEW j \in 1..Count, c[i] = c[j] PROVE i = j
      BY <2>1, <2>3, <3>1
    <3> QED
      BY <2>3, <3>1 DEF IsInjective
  <2>5. ASSUME NEW k \in Index PROVE k \in ToSet(c)
    <3>1. k + 1 \in 1..Count /\ c[k + 1] = k
      BY <2>1, <2>3 DEF Index
    <3> QED
      BY <2>3, <3>1 DEF ToSet
  <2>6. ToSet(c) \subseteq Index
    BY <2>2, ToSetType
  <2> QED
    BY <2>2, <2>4, <2>5, <2>6
<1> HIDE DEF c
<1>4. /\ slabFree' \in Seq(Block) /\ ToSet(slabFree') = {s} \cup ToSet(slabFree)
      /\ IsInjective(slabFree')
  <2>1. s \notin ToSet(slabFree)
    BY <1>1 DEF Slabs
  <2> QED
    BY <1>1, <1>2, <2>1, ConsList DEF TypeOK, ListsSound
<1>5. Slabs' = Slabs \cup {s} /\ ListsSound'
  BY <1>1, <1>2, <1>4 DEF Slabs, ListsSound
<1>6. InChains' = InChains \cup X /\ InChains \cap X = {}
  <2>1. InChains' = (InChains \ X) \cup X
    <3>1. Slabs' \subseteq Block /\ s \in Slabs' /\ \A r \in Block : r # s => (r \in Slabs' <=> r \in Slabs)
      BY <1>2, <1>5 DEF ChainFacts
    <3>2. InChains' = (InChains \ ({s} \X Index)) \cup
                      (IF s \in Slabs' THEN {s} \X ToSet(c) ELSE {})
      BY <1>1, <1>2, <1>3, <3>1, ChainChange
    <3> QED
      BY <1>3, <3>1, <3>2
  <2>2. InChains \cap X = {}
    BY <1>1, <1>2 DEF ChainFacts
  <2> QED
    BY <2>1, <2>2
<1>7. IsFiniteSet(X) /\ Cardinality(X) = Count
  BY <1>3, PairsList
<1> HIDE DEF X
<1>8. freeObjCount' = Cardinality(InChains')
  <2>1. /\ IsFiniteSet(InChains) /\ Cardinality(InChains) \in Nat /\ Cardinality({}) = 0
    BY <1>2, FS_EmptySet DEF ChainFacts
  <2>2. Cardinality(InChains') = Cardinality(InChains) + Cardinality(X) - Cardinality({})
    <3>1. Cardinality(InChains \cup X) =
            Cardinality(InChains) + Cardinality(X) - Cardinality(InChains \cap X)
      BY <1>7, <2>1, FS_Union
    <3> QED
      BY <1>6, <3>1
  <2> QED
    BY <1>1, <1>7, <2>1, <2>2, SlabAssumption DEF SlabInv
<1>9. ChainsSound'
  <2> SUFFICES ASSUME NEW r \in Slabs \cup {s}
               PROVE  /\ IsInjective(chain'[r]) /\ Len(chain'[r]) = Count - usedCount'[r]
                      /\ (r \in ToSet(slabFull')) <=> (usedCount'[r] = Count)
                      /\ r \in ToSet(slabFree') => usedCount'[r] = 0
    BY <1>5 DEF ChainsSound
  <2>1. CASE r = s
    <3>1. chain'[s] = c /\ usedCount'[s] = 0 /\ s \notin ToSet(slabFull')
      BY <1>1, <1>2 DEF TypeOK, Slabs
    <3> QED
      BY <1>3, <2>1, <3>1, SlabAssumption
  <2>2. CASE r # s
    <3>1. chain'[r] = chain[r] /\ usedCount'[r] = usedCount[r]
      BY <1>1, <1>2, <2>2 DEF TypeOK
    <3> QED
      BY <1>1, <1>2, <1>4, <2>2, <3>1 DEF ChainsSound
  <2> QED
    BY <2>1, <2>2
<1>10. Placed'
  <2>1. OnTheWay = {} /\ OnTheWay' = {}
    BY <1>1 DEF OnTheWay
  <2>2. (Slabs \X Index) \cap X = {} /\ (Slabs \cup {s}) \X Index = (Slabs \X Index) \cup X
    BY <1>1 DEF X
  <2> QED
    BY <1>1, <1>2, <1>5, <1>6, <2>1, <2>2 DEF Placed
<1>11. TypeOK'
  <2>1. InChains' \subseteq Object
    BY <1>2, <1>6 DEF ChainFacts, X, Object
  <2>2. freeObjCount' \in 0..Cardinality(Object)
    BY <1>8, <2>1, ObjectSubset
  <2>3. chain' \in [Block -> Seq(Index)] /\ usedCount' \in [Block -> 0..Count]
    BY <1>1, <1>2, <1>3, SlabAssumption DEF TypeOK
  <2> QED
    BY <1>1, <1>2, <1>4, <2>2, <2>3 DEF TypeOK
<1>12. ObjectsInOnePlace' /\ CallSound'
  BY <1>1, <1>2, <1>9, <1>10 DEF ObjectsInOnePlace, ChainsSound, Placed, CallSound
<1> QED
  BY <1>5, <1>8, <1>9, <1>11, <1>12 DEF SlabInv

\* The object a flush moves: it is the last of the local cache and not in the
\* chain of its slab, which therefore has an object in use.
LEMMA FlushObject ==
  ASSUME SlabInv, FlushOne
  PROVE  \E s \in Slabs, k \in Index :
           /\ s \in Block /\ Last(data) = <<s, k>> /\ data # <<>>
           /\ k \notin ToSet(chain[s]) /\ usedCount[s] \in 1..Count
           /\ usedCount[s] = 1 => ToSet(chain[s]) \cup {k} = Index
<1>1. /\ data \in Seq(Object) /\ IsInjective(data) /\ Placed /\ ChainFacts /\ ChainsSound
      /\ usedCount \in [Block -> 0..Count] /\ CallFacts /\ CallSound
  BY Chained, Places, CallTypes DEF SlabInv, TypeOK
<1>2. call.pc = "flush" /\ call.left > 0
  BY DEF FlushOne
<1>3. data # <<>>
  <2>1. Len(data) > 0
    BY <1>1, <1>2, SlabAssumption DEF CallSound, CallFacts
  <2> QED
    BY <2>1
<1>4. Last(data) \in Object /\ Last(data) \in ToSet(data)
  BY <1>1, <1>3, FrontList
<1>5. PICK s \in Slabs, k \in Index : Last(data) = <<s, k>>
  BY <1>1, <1>4 DEF Placed
<1>6. s \in Block /\ <<s, k>> \notin InChains
  BY <1>1, <1>4, <1>5 DEF Placed, ChainFacts
<1>7. k \notin ToSet(chain[s])
  BY <1>1, <1>5, <1>6 DEF ChainFacts
<1>8. /\ chain[s] \in Seq(Index) /\ IsInjective(chain[s])
      /\ Len(chain[s]) = Count - usedCount[s] /\ usedCount[s] \in 0..Count
  BY <1>1, <1>5, <1>6 DEF ChainFacts, ChainsSound
<1> DEFINE T == ToSet(chain[s]) \cup {k}
<1>9. T \subseteq Index /\ Cardinality(T) = Count - usedCount[s] + 1
  <2>1. IsFiniteSet(ToSet(chain[s])) /\ Cardinality(ToSet(chain[s])) = Count - usedCount[s]
    BY <1>8, ListSize
  <2>2. Cardinality(T) = Cardinality(ToSet(chain[s])) + 1
    BY <1>7, <2>1, FS_AddElement
  <2>3. T \subseteq Index
    BY <1>8, ToSetType
  <2> QED
    BY <2>1, <2>2, <2>3
<1> HIDE DEF T
<1>10. /\ Cardinality(T) <= Count
       /\ Cardinality(T) = Count => T = Index
  BY <1>9, ObjectFacts, FS_Subset
<1>11. usedCount[s] \in 1..Count /\ (usedCount[s] = 1 => T = Index)
  BY <1>8, <1>9, <1>10, SlabAssumption
<1> QED
  BY <1>3, <1>5, <1>6, <1>7, <1>11 DEF T

\* What is the same for both ways an object goes back to its slab.
LEMMA FlushCommon ==
  ASSUME SlabInv, FlushOne, NEW s \in Slabs, NEW k \in Index, Last(data) = <<s, k>>,
         data # <<>>
  PROVE  /\ data' \in Seq(Object) /\ Len(data') <= Limit /\ IsInjective(data')
         /\ ToSet(data') = ToSet(data) \ {<<s, k>>} /\ <<s, k>> \in ToSet(data)
         /\ OnTheWay' = OnTheWay /\ CallSound' /\ call' \in Call /\ out' = out
<1>1. /\ data \in Seq(Object) /\ IsInjective(data) /\ Len(data) <= Limit /\ Len(data) \in Nat
      /\ CallFacts /\ CallSound
  BY CallTypes DEF SlabInv, TypeOK, ObjectsInOnePlace
<1>2. /\ call.pc = "flush" /\ call.left > 0 /\ data' = Front(data) /\ out' = out
      /\ call' = [call EXCEPT !.left = @ - 1]
  BY DEF FlushOne
<1>3. /\ data' \in Seq(Object) /\ Len(data') = Len(data) - 1 /\ IsInjective(data')
      /\ ToSet(data') = ToSet(data) \ {<<s, k>>} /\ <<s, k>> \in ToSet(data)
  BY <1>1, <1>2, FrontList
<1>4. call.left - 1 \in 0..Batch /\ call.left \in Nat
  BY <1>1, <1>2, SlabAssumption DEF CallFacts
<1>5. call' = [pc |-> "flush", left |-> call.left - 1, object |-> call.object]
  BY <1>1, <1>2 DEF CallFacts
<1>6. call'.pc = "flush" /\ call'.left = call.left - 1 /\ call'.object = call.object
  BY <1>5
<1>7. call' \in Call
  BY <1>1, <1>2, <1>4, <1>5, CallIs DEF CallFacts
<1>8. OnTheWay' = OnTheWay
  BY <1>2, <1>6 DEF OnTheWay
<1>9. CallSound'
  <2>1. Len(data) = Limit - Batch + call.left
    BY <1>1, <1>2 DEF CallSound
  <2>2. Len(data') = Limit - Batch + call'.left
    BY <1>1, <1>3, <1>4, <1>6, <2>1, SlabAssumption
  <2> QED
    BY <1>6, <2>2 DEF CallSound
<1> QED
  BY <1>1, <1>2, <1>3, <1>7, <1>8, <1>9, SlabAssumption

Destroyed(s) == usedCount[s] = 1 /\ freeObjCount + 1 > FreeLimit

\* The object goes back into the chain.
LEMMA FlushKeepsSlab ==
  ASSUME SlabInv, FlushOne, NEW s \in Block, s \in Slabs, NEW k \in Index,
         Last(data) = <<s, k>>, data # <<>>, k \notin ToSet(chain[s]),
         usedCount[s] \in 1..Count, ~Destroyed(s)
  PROVE  SlabInv' /\ Slabs' = Slabs
<1> DEFINE c == Cons(k, chain[s])
           free == ListDelete(slabFree, s)
           partial == ListDelete(slabPartial, s)
<1>1. /\ chain' = [chain EXCEPT ![s] = c] /\ freeObjCount' = freeObjCount + 1
      /\ usedCount' = [usedCount EXCEPT ![s] = usedCount[s] - 1]
      /\ slabFull' = ListDelete(slabFull, s)
      /\ \/ usedCount[s] = 1 /\ slabFree' = Cons(s, free) /\ slabPartial' = partial
         \/ usedCount[s] # 1 /\ slabFree' = free /\ slabPartial' = Cons(s, partial)
  <2>1. Last(data)[1] = s /\ Last(data)[2] = k
    OBVIOUS
  <2>2. /\ chain \in [Block -> Seq(Index)] /\ usedCount \in [Block -> 0..Count]
        /\ freeObjCount \in Int
    BY ObjectFacts, FS_CardinalityType DEF SlabInv, TypeOK
  <2>3. ~(usedCount[s] = 1 /\ freeObjCount + 1 > FreeLimit)
    BY DEF Destroyed
  <2>4. chain' = [chain EXCEPT ![s] = c]
    BY <2>1, <2>3 DEF FlushOne
  <2>5. usedCount' = [usedCount EXCEPT ![s] = usedCount[s] - 1]
    BY <2>1, <2>2 DEF FlushOne
  <2>6. freeObjCount' = freeObjCount + 1
    <3>1. freeObjCount' = freeObjCount + 1 - 0
      BY <2>1, <2>3 DEF FlushOne
    <3> QED
      BY <2>2, <3>1
  <2>7. /\ slabFull' = ListDelete(slabFull, s)
        /\ usedCount[s] = 1 => slabFree' = Cons(s, free) /\ slabPartial' = partial
        /\ usedCount[s] # 1 => slabFree' = free /\ slabPartial' = Cons(s, partial)
    BY <2>1, <2>3 DEF FlushOne
  <2> QED
    BY <2>4, <2>5, <2>6, <2>7
<1>2. /\ TypeOK /\ ListsSound /\ ChainsSound /\ Placed /\ ChainFacts
  BY Chained, Places DEF SlabInv
<1>3. /\ chain[s] \in Seq(Index) /\ IsInjective(chain[s])
      /\ Len(chain[s]) = Count - usedCount[s] /\ usedCount \in [Block -> 0..Count]
      /\ chain \in [Block -> Seq(Index)]
  BY <1>2 DEF ChainFacts, ChainsSound, TypeOK
<1>4. /\ c \in Seq(Index) /\ ToSet(c) = ToSet(chain[s]) \cup {k} /\ IsInjective(c)
      /\ Len(c) = Count - usedCount[s] + 1
  <2>1. Len(c) = Len(chain[s]) + 1
    BY <1>3, ConsLength
  <2>2. c \in Seq(Index) /\ ToSet(c) = {k} \cup ToSet(chain[s]) /\ IsInjective(c)
    BY <1>3, ConsList
  <2> HIDE DEF c
  <2> QED
    BY <1>3, <2>1, <2>2
<1> HIDE DEF c
<1>5. /\ free \in Seq(Block) /\ IsInjective(free) /\ ToSet(free) = ToSet(slabFree) \ {s}
      /\ partial \in Seq(Block) /\ IsInjective(partial)
      /\ ToSet(partial) = ToSet(slabPartial) \ {s}
      /\ slabFull' \in Seq(Block) /\ IsInjective(slabFull')
      /\ ToSet(slabFull') = ToSet(slabFull) \ {s}
  BY <1>1, <1>2, DeleteList DEF TypeOK, ListsSound
<1> HIDE DEF free, partial
<1>6. /\ slabFree' \in Seq(Block) /\ slabPartial' \in Seq(Block)
      /\ ListsSound' /\ Slabs' = Slabs
      /\ s \in ToSet(slabFree') <=> usedCount[s] = 1
      /\ ToSet(slabFree') \subseteq ToSet(slabFree) \cup {s}
  <2>1. CASE usedCount[s] = 1
    <3>1. /\ slabFree' \in Seq(Block) /\ IsInjective(slabFree')
          /\ ToSet(slabFree') = {s} \cup ToSet(free) /\ slabPartial' = partial
      <4>1. slabFree' = Cons(s, free) /\ slabPartial' = partial /\ s \notin ToSet(free)
        BY <1>1, <1>5, <2>1
      <4> QED
        BY <1>5, <4>1, ConsList
    <3>2. ListsSound' /\ Slabs' = Slabs
      BY <1>2, <1>5, <3>1 DEF ListsSound, Slabs
    <3> QED
      BY <1>5, <2>1, <3>1, <3>2
  <2>2. CASE usedCount[s] # 1
    <3>1. /\ slabPartial' \in Seq(Block) /\ IsInjective(slabPartial')
          /\ ToSet(slabPartial') = {s} \cup ToSet(partial) /\ slabFree' = free
      <4>1. slabPartial' = Cons(s, partial) /\ slabFree' = free /\ s \notin ToSet(partial)
        BY <1>1, <1>5, <2>2
      <4> QED
        BY <1>5, <4>1, ConsList
    <3>2. ListsSound' /\ Slabs' = Slabs
      BY <1>2, <1>5, <3>1 DEF ListsSound, Slabs
    <3> QED
      BY <1>5, <2>2, <3>1, <3>2
  <2> QED
    BY <2>1, <2>2
<1>7. <<s, k>> \notin InChains /\ InChains' = InChains \cup {<<s, k>>}
  <2>1. \A i \in Index : <<s, i>> \in InChains <=> i \in ToSet(chain[s])
    BY <1>2 DEF ChainFacts
  <2>2. Slabs' \subseteq Block /\ \A r \in Block : r # s => (r \in Slabs' <=> r \in Slabs)
    BY <1>2, <1>6 DEF ChainFacts
  <2>3. InChains' = (InChains \ ({s} \X Index)) \cup
                    (IF s \in Slabs' THEN {s} \X ToSet(c) ELSE {})
    BY <1>1, <1>2, <1>4, <2>2, ChainChange
  <2>4. InChains' = (InChains \ ({s} \X Index)) \cup ({s} \X ToSet(c))
    BY <1>6, <2>3
  <2>5. ToSet(chain[s]) \subseteq Index
    BY <1>2 DEF ChainFacts
  <2>6. {s} \X ToSet(c) = (InChains \cap ({s} \X Index)) \cup {<<s, k>>}
    BY <1>4, <2>1, <2>5
  <2>7. <<s, k>> \notin InChains
    BY <2>1
  <2> QED
    BY <2>4, <2>6, <2>7
<1>8. freeObjCount' = Cardinality(InChains')
  BY <1>1, <1>2, <1>7, FS_AddElement DEF ChainFacts, SlabInv
<1>9. ChainsSound'
  <2> SUFFICES ASSUME NEW r \in Slabs
               PROVE  /\ IsInjective(chain'[r]) /\ Len(chain'[r]) = Count - usedCount'[r]
                      /\ (r \in ToSet(slabFull')) <=> (usedCount'[r] = Count)
                      /\ r \in ToSet(slabFree') => usedCount'[r] = 0
    BY <1>6 DEF ChainsSound
  <2>1. CASE r = s
    <3>1. chain'[s] = c /\ usedCount'[s] = usedCount[s] - 1
      BY <1>1, <1>3
    <3>2. Len(c) = Count - usedCount'[s] /\ usedCount'[s] # Count
      BY <1>4, <3>1, SlabAssumption
    <3>3. usedCount[s] = 1 => usedCount'[s] = 0
      BY <3>1
    <3> QED
      BY <1>4, <1>5, <1>6, <2>1, <3>1, <3>2, <3>3
  <2>2. CASE r # s
    <3>1. chain'[r] = chain[r] /\ usedCount'[r] = usedCount[r]
      BY <1>1, <1>3, <2>2
    <3> QED
      BY <1>2, <1>5, <1>6, <2>2, <3>1 DEF ChainsSound
  <2> QED
    BY <2>1, <2>2
<1>10. /\ data' \in Seq(Object) /\ Len(data') <= Limit /\ IsInjective(data')
       /\ ToSet(data') = ToSet(data) \ {<<s, k>>} /\ <<s, k>> \in ToSet(data)
       /\ OnTheWay' = OnTheWay /\ CallSound' /\ call' \in Call /\ out' = out
  BY FlushCommon
<1>11. Placed'
  BY <1>2, <1>6, <1>7, <1>10 DEF Placed
<1>12. TypeOK'
  <2>1. InChains' \subseteq Object
    BY <1>2, <1>7, ObjectFacts DEF ChainFacts
  <2>2. freeObjCount' \in 0..Cardinality(Object)
    BY <1>8, <2>1, ObjectSubset
  <2>3. chain' \in [Block -> Seq(Index)]
    BY <1>1, <1>3, <1>4
  <2>4. usedCount' \in [Block -> 0..Count]
    <3>1. usedCount[s] - 1 \in 0..Count
      BY SlabAssumption
    <3> QED
      BY <1>1, <1>3, <3>1
  <2> QED
    BY <1>2, <1>5, <1>6, <1>10, <2>2, <2>3, <2>4 DEF TypeOK
<1>13. ObjectsInOnePlace'
  BY <1>9, <1>10, <1>11 DEF ObjectsInOnePlace, ChainsSound, Placed
<1> QED
  BY <1>6, <1>8, <1>9, <1>10, <1>12, <1>13 DEF SlabInv

\* The object was the last one in use, and the slab goes back to the buddy
\* system: all of its other objects are in its chain.
LEMMA FlushDropsSlab ==
  ASSUME SlabInv, FlushOne, NEW s \in Block, s \in Slabs, NEW k \in Index,
         Last(data) = <<s, k>>, data # <<>>, k \notin ToSet(chain[s]),
         ToSet(chain[s]) \cup {k} = Index, Destroyed(s)
  PROVE  SlabInv' /\ Slabs' = Slabs \ {s}
<1> DEFINE X == {s} \X Index
           A == {s} \X ToSet(chain[s])
<1>1. /\ chain' = [chain EXCEPT ![s] = <<>>] /\ freeObjCount' = freeObjCount + 1 - Count
      /\ usedCount' = [usedCount EXCEPT ![s] = 0]
      /\ slabFull' = ListDelete(slabFull, s) /\ slabFree' = ListDelete(slabFree, s)
      /\ slabPartial' = ListDelete(slabPartial, s)
  <2>1. Last(data)[1] = s /\ Last(data)[2] = k
    OBVIOUS
  <2>2. usedCount[s] = 1 /\ freeObjCount + 1 > FreeLimit
    BY DEF Destroyed
  <2>3. chain' = [chain EXCEPT ![s] = <<>>]
    BY <2>1, <2>2 DEF FlushOne
  <2>4. usedCount' = [usedCount EXCEPT ![s] = 0]
    <3>1. usedCount' = [usedCount EXCEPT ![s] = usedCount[s] - 1]
      BY <2>1 DEF FlushOne, SlabInv, TypeOK
    <3> QED
      BY <2>2, <3>1
  <2>5. freeObjCount' = freeObjCount + 1 - Count
    BY <2>1, <2>2 DEF FlushOne
  <2>6. /\ slabFull' = ListDelete(slabFull, s) /\ slabFree' = ListDelete(slabFree, s)
        /\ slabPartial' = ListDelete(slabPartial, s)
    BY <2>1, <2>2 DEF FlushOne
  <2> QED
    BY <2>3, <2>4, <2>5, <2>6
<1>2. /\ TypeOK /\ ListsSound /\ ChainsSound /\ Placed /\ ChainFacts /\ usedCount[s] = 1
  BY Chained, Places DEF SlabInv, Destroyed
<1>3. /\ chain[s] \in Seq(Index) /\ IsInjective(chain[s]) /\ Len(chain[s]) = Count - 1
      /\ usedCount \in [Block -> 0..Count] /\ chain \in [Block -> Seq(Index)]
  BY <1>2 DEF ChainFacts, ChainsSound, TypeOK
<1>4. /\ slabFree' \in Seq(Block) /\ IsInjective(slabFree')
      /\ ToSet(slabFree') = ToSet(slabFree) \ {s}
      /\ slabPartial' \in Seq(Block) /\ IsInjective(slabPartial')
      /\ ToSet(slabPartial') = ToSet(slabPartial) \ {s}
      /\ slabFull' \in Seq(Block) /\ IsInjective(slabFull')
      /\ ToSet(slabFull') = ToSet(slabFull) \ {s}
  BY <1>1, <1>2, DeleteList DEF TypeOK, ListsSound
<1>5. ListsSound' /\ Slabs' = Slabs \ {s}
  BY <1>2, <1>4 DEF ListsSound, Slabs
<1>6. InChains' = InChains \ X
  <2>1. <<>> \in Seq(Index)
    BY EmptyList
  <2>2. Slabs' \subseteq Block /\ \A r \in Block : r # s => (r \in Slabs' <=> r \in Slabs)
    BY <1>2, <1>5 DEF ChainFacts
  <2>3. InChains' = (InChains \ ({s} \X Index)) \cup
                    (IF s \in Slabs' THEN {s} \X ToSet(<<>>) ELSE {})
    BY <1>1, <1>2, <2>1, <2>2, ChainChange
  <2> QED
    BY <1>5, <2>3
<1>7. InChains \cap X = A /\ X = A \cup {<<s, k>>}
  <2>1. \A i \in Index : <<s, i>> \in InChains <=> i \in ToSet(chain[s])
    BY <1>2 DEF ChainFacts
  <2>2. ToSet(chain[s]) \subseteq Index
    BY <1>2 DEF ChainFacts
  <2> QED
    BY <2>1, <2>2
<1>8. Cardinality(A) = Count - 1
  BY <1>3, PairsList
<1> HIDE DEF X, A
<1>9. freeObjCount' = Cardinality(InChains')
  <2>1. Cardinality(InChains \ X) = Cardinality(InChains) - Cardinality(InChains \cap X)
    BY <1>2, FS_Difference DEF ChainFacts
  <2>2. freeObjCount = Cardinality(InChains) /\ freeObjCount \in Nat
    BY <1>2 DEF SlabInv, ChainFacts
  <2>3. Cardinality(InChains') = freeObjCount - (Count - 1)
    BY <1>6, <1>7, <1>8, <2>1, <2>2
  <2> QED
    BY <1>1, <2>2, <2>3, SlabAssumption
<1>10. ChainsSound'
  <2> SUFFICES ASSUME NEW r \in Slabs, r # s
               PROVE  /\ IsInjective(chain'[r]) /\ Len(chain'[r]) = Count - usedCount'[r]
                      /\ (r \in ToSet(slabFull')) <=> (usedCount'[r] = Count)
                      /\ r \in ToSet(slabFree') => usedCount'[r] = 0
    BY <1>5 DEF ChainsSound
  <2>1. chain'[r] = chain[r] /\ usedCount'[r] = usedCount[r]
    BY <1>1, <1>3
  <2> QED
    BY <1>2, <1>4, <2>1 DEF ChainsSound
<1>11. /\ data' \in Seq(Object) /\ Len(data') <= Limit /\ IsInjective(data')
       /\ ToSet(data') = ToSet(data) \ {<<s, k>>} /\ <<s, k>> \in ToSet(data)
       /\ OnTheWay' = OnTheWay /\ CallSound' /\ call' \in Call /\ out' = out
  BY FlushCommon
<1>12. Placed'
  <2>1. Slabs' \X Index = (Slabs \X Index) \ X
    BY <1>5 DEF X
  <2>2. X \subseteq InChains \cup {<<s, k>>} /\ <<s, k>> \in X
    BY <1>7
  <2>3. ToSet(data') \cap X = {} /\ out \cap X = {} /\ OnTheWay \cap X = {}
    BY <1>2, <1>11, <2>2 DEF Placed
  <2>4. out \cup InChains' \cup ToSet(data') \cup OnTheWay = (Slabs \X Index) \ X
    BY <1>2, <1>6, <1>11, <2>2, <2>3 DEF Placed
  <2> QED
    BY <1>2, <1>6, <1>11, <2>1, <2>4 DEF Placed
<1>13. TypeOK'
  <2>1. InChains' \subseteq Object
    BY <1>2, <1>6 DEF ChainFacts
  <2>2. freeObjCount' \in 0..Cardinality(Object)
    BY <1>9, <2>1, ObjectSubset
  <2>3. chain' \in [Block -> Seq(Index)] /\ usedCount' \in [Block -> 0..Count]
    BY <1>1, <1>3, EmptyList, SlabAssumption
  <2> QED
    BY <1>2, <1>4, <1>11, <2>2, <2>3 DEF TypeOK
<1>14. ObjectsInOnePlace'
  BY <1>10, <1>11, <1>12 DEF ObjectsInOnePlace, ChainsSound, Placed
<1> QED
  BY <1>5, <1>6, <1>9, <1>10, <1>11, <1>13, <1>14 DEF SlabInv, X

-----------------------------------------------------------------------------
(* The theorems.                                                           *)

LEMMA SlabStep == SlabInv /\ [Next]_vars => SlabInv'
<1> SUFFICES ASSUME SlabInv, [Next]_vars PROVE SlabInv'
  OBVIOUS
<1>1. CASE AllocByCache
  <2>1. CASE HandOut
    BY <1>1, <2>1, HandOutInv DEF AllocByCache
  <2>2. CASE ~HandOut
    <3>1. /\ call.pc = "idle" /\ data = <<>>
          /\ call' = [pc |-> "refill", left |-> Batch + 1]
          /\ UNCHANGED <<lists, chain, usedCount, freeObjCount, data, out>>
      BY <1>1, <2>2 DEF AllocByCache
    <3>2. call'.pc = "refill" /\ call'.left = Batch + 1 /\ call' \in Call
      BY <3>1, CallIs, SlabAssumption
    <3>3. CallSound'
      BY <3>1, <3>2, SlabAssumption DEF CallSound
    <3> QED
      BY <3>1, <3>2, <3>3, CallInv
  <2> QED
    BY <2>1, <2>2
<1>2. CASE RefillFrom
  BY <1>2, RefillInv
<1>3. CASE RefillReturns
  BY <1>3, HandOutInv DEF RefillReturns, RefillEnds
<1>4. CASE RefillRefused
  <2>1. call.pc = "refill" /\ call' = [pc |-> "refused"]
    BY <1>4 DEF RefillRefused, RefillEnds
  <2>2. call' \in Call /\ CallSound'
    BY <2>1, CallIs DEF CallSound
  <2> QED
    BY <1>4, <2>1, <2>2, CallInv DEF RefillRefused
<1>5. CASE Refused
  <2>1. call.pc = "refused" /\ call' = [pc |-> "idle"]
    BY <1>5 DEF Refused, Idle
  <2>2. call' \in Call /\ CallSound'
    BY <2>1, CallIs DEF CallSound
  <2> QED
    BY <1>5, <2>1, <2>2, CallInv DEF Refused
<1>6. ASSUME NEW s \in Block, RefillGrows(s) PROVE SlabInv'
  BY <1>6, GrowInv
<1>7. ASSUME NEW x \in Object, FreeByCache(x) PROVE SlabInv'
  BY <1>7, FreeInv
<1>8. CASE FlushOne
  BY <1>8, FlushObject, FlushKeepsSlab, FlushDropsSlab DEF Destroyed
<1>9. CASE FlushReturns
  BY <1>9, FlushReturnsInv
<1>10. CASE UNCHANGED vars
  <2>1. Placed /\ IsInjective(data)
    BY Places DEF SlabInv
  <2>2. Placed' /\ CallSound'
    BY <1>10, <2>1 DEF vars, Placed, CallSound, InChains, OnTheWay, Slabs, SlabInv
  <2> QED
    BY <1>10, <2>1, <2>2, SlabsStay DEF vars, lists, SlabInv, TypeOK
<1> QED
  BY <1>1, <1>2, <1>3, <1>4, <1>5, <1>6, <1>7, <1>8, <1>9, <1>10 DEF Next

LEMMA SlabInvHolds == Spec => []SlabInv
BY SlabInit, SlabStep, PTL DEF Spec

\* The slabs are sound through all refills and flushes: their lists and counts
\* agree, and no object is lost or in two places.
THEOREM SlabsAreSound == Spec => []SlabsSound
<1>1. SlabInv => SlabsSound
  <2> SUFFICES ASSUME SlabInv PROVE SlabsSound
    OBVIOUS
  <2>1. IsInjective(slabFree \o slabPartial \o slabFull)
    <3>1. /\ slabFree \in Seq(Block) /\ slabPartial \in Seq(Block) /\ slabFull \in Seq(Block)
          /\ ListsSound
      BY DEF SlabInv, TypeOK
    <3>2. /\ slabFree \o slabPartial \in Seq(Block) /\ IsInjective(slabFree \o slabPartial)
          /\ ToSet(slabFree \o slabPartial) = ToSet(slabFree) \cup ToSet(slabPartial)
      BY <3>1, ConcatList DEF ListsSound
    <3>3. ToSet(slabFree \o slabPartial) \cap ToSet(slabFull) = {}
      BY <3>1, <3>2 DEF ListsSound
    <3> QED
      BY <3>1, <3>2, <3>3, ConcatList DEF ListsSound
  <2> QED
    BY <2>1 DEF SlabInv, ChainsSound, SlabsSound, CountsAgree
<1> QED
  BY <1>1, SlabInvHolds, PTL

-----------------------------------------------------------------------------
(* The cache as a pool of objects.                                         *)

Pool == InChains \cup ToSet(data) \cup OnTheWay

\* What is not handed out of the slabs is in the pool.
LEMMA PoolIs ==
  SlabInv => Pool = (Slabs \X Index) \ out /\ out \subseteq Slabs \X Index /\ Slabs \subseteq Block
<1> SUFFICES ASSUME SlabInv
             PROVE  Pool = (Slabs \X Index) \ out /\ out \subseteq Slabs \X Index /\ Slabs \subseteq Block
  OBVIOUS
<1>1. Placed /\ ChainFacts
  BY Chained, Places DEF SlabInv
<1> QED
  BY <1>1 DEF Placed, ChainFacts, Pool

LEMMA PoolAfter ==
  SlabInv' => Pool' = (Slabs' \X Index) \ out'
<1> SUFFICES ASSUME SlabInv' PROVE Pool' = (Slabs' \X Index) \ out'
  OBVIOUS
<1> QED
  BY DEF SlabInv, ObjectsInOnePlace, Pool

\* An object comes out of the local cache when a call ends.
LEMMA HandOutIsAlloc ==
  ASSUME SlabInv, SlabInv', HandOut, call.pc # "refused"
  PROVE  \E x \in Object : P!Alloc(x)
<1> DEFINE x == Last(data)
<1>1. /\ data \in Seq(Object) /\ data # <<>> /\ out' = out \cup {x} /\ call' = Idle
      /\ slabFree' = slabFree /\ slabPartial' = slabPartial /\ slabFull' = slabFull
  BY DEF HandOut, lists, SlabInv, TypeOK
<1>2. x \in Object /\ x \in Pool
  <2>1. Last(data) \in Object /\ Last(data) \in ToSet(data)
    <3>1. IsInjective(data)
      BY DEF SlabInv, ObjectsInOnePlace
    <3> QED
      BY <1>1, <3>1, FrontList
  <2> QED
    BY <2>1 DEF Pool
<1>3. Slabs' = Slabs
  BY <1>1 DEF Slabs
<1> HIDE DEF x
<1>4. Pool' = Pool \ {x}
  BY <1>1, <1>3, PoolIs, PoolAfter
<1>5. (call.pc = "refused") = FALSE /\ (call'.pc = "refused") = FALSE
  BY <1>1 DEF Idle
<1> QED
  BY <1>1, <1>2, <1>4, <1>5 DEF P!Alloc, Pool

LEMMA FreeIsFree ==
  ASSUME SlabInv, SlabInv', NEW x \in Object, FreeByCache(x)
  PROVE  P!Free(x)
<1>1. /\ x \in out /\ out' = out \ {x} /\ call.pc = "idle"
      /\ slabFree' = slabFree /\ slabPartial' = slabPartial /\ slabFull' = slabFull
      /\ call' = call \/ call' = [pc |-> "flush", left |-> Batch, object |-> x]
  BY DEF FreeByCache, lists
<1>2. Slabs' = Slabs
  BY <1>1 DEF Slabs
<1>3. Pool' = Pool \cup {x}
  BY <1>1, <1>2, PoolIs, PoolAfter
<1>4. (call.pc = "refused") = FALSE /\ (call'.pc = "refused") = FALSE
  BY <1>1
<1> QED
  BY <1>1, <1>3, <1>4 DEF P!Free, Pool

\* The transfers and the calls that only begin are not seen.
LEMMA PoolStutters ==
  ASSUME SlabInv, SlabInv', Slabs' = Slabs, out' = out,
         call.pc # "refused", call'.pc # "refused"
  PROVE  UNCHANGED P!vars
<1>1. Pool' = Pool
  BY PoolIs, PoolAfter
<1>2. (call.pc = "refused") = FALSE /\ (call'.pc = "refused") = FALSE
  OBVIOUS
<1> QED
  BY <1>1, <1>2 DEF P!vars, Pool

\* When no more pages are there, each slab is full and the local cache empty.
LEMMA RefusedIsEmpty ==
  ASSUME SlabInv, RefillRefused
  PROVE  Pool = {} /\ Pool' = {} /\ out' = out /\ call'.pc = "refused"
<1>1. /\ call.pc = "refill" /\ data = <<>> /\ call' = [pc |-> "refused"]
      /\ call.left = 0 \/ (slabPartial = <<>> /\ slabFree = <<>>)
      /\ UNCHANGED <<slabFree, slabPartial, slabFull, chain, data, out>>
  BY DEF RefillRefused, RefillEnds, lists
<1>2. /\ CallSound /\ ChainsSound /\ TypeOK /\ ChainFacts
  BY Chained DEF SlabInv
<1>3. slabPartial = <<>> /\ slabFree = <<>>
  BY <1>1, <1>2, SlabAssumption DEF CallSound
<1>4. Slabs = ToSet(slabFull) /\ ToSet(data) = {}
  BY <1>1, <1>3, EmptyList DEF Slabs
<1>5. ASSUME NEW s \in Slabs PROVE ToSet(chain[s]) = {}
  <2>1. usedCount[s] = Count /\ chain[s] \in Seq(Index)
    BY <1>2, <1>4 DEF ChainsSound, ChainFacts
  <2>2. Len(chain[s]) = 0
    BY <1>2, <2>1, SlabAssumption DEF ChainsSound
  <2>3. chain[s] = <<>>
    BY <2>1, <2>2
  <2> QED
    BY <2>3, EmptyList
<1>6. InChains = {}
  BY <1>5 DEF InChains
<1>7. Slabs' = Slabs /\ OnTheWay = {} /\ OnTheWay' = {}
  BY <1>1 DEF Slabs, OnTheWay
<1>8. InChains' = InChains
  BY <1>1, <1>7 DEF InChains
<1> QED
  BY <1>1, <1>4, <1>6, <1>7, <1>8 DEF Pool

LEMMA PoolInit == Init => P!Init
<1> SUFFICES ASSUME Init PROVE P!Init
  OBVIOUS
<1>1. Slabs = {} /\ InChains = {} /\ ToSet(data) = {} /\ OnTheWay = {}
  BY EmptyList DEF Init, Slabs, InChains, OnTheWay, Idle
<1>2. (call.pc = "refused") = FALSE
  BY DEF Init, Idle
<1> QED
  BY <1>1, <1>2 DEF Init, P!Init

\* Each step of the cache is one of the pool, or is not seen.
LEMMA PoolStep ==
  ASSUME SlabInv, SlabInv', [Next]_vars
  PROVE  P!Next \/ UNCHANGED P!vars
<1>1. ASSUME NEW x \in Object, P!Alloc(x) \/ P!Free(x) PROVE P!Next
  BY <1>1 DEF P!Next
<1>2. ASSUME NEW s \in Block
      PROVE  {s} \X Index \in SUBSET Object
  BY DEF Object
<1>3. CASE AllocByCache
  <2>1. CASE HandOut
    BY <1>1, <1>3, <2>1, HandOutIsAlloc DEF AllocByCache
  <2>2. CASE ~HandOut
    <3>1. /\ call.pc = "idle" /\ call' = [pc |-> "refill", left |-> Batch + 1]
          /\ UNCHANGED <<slabFree, slabPartial, slabFull, out>>
      BY <1>3, <2>2 DEF AllocByCache, lists
    <3>2. Slabs' = Slabs
      BY <3>1 DEF Slabs
    <3> QED
      BY <3>1, <3>2, PoolStutters
  <2> QED
    BY <2>1, <2>2
<1>4. CASE RefillFrom
  <2>1. out' = out /\ call.pc = "refill" /\ CallFacts /\ call'.pc = "refill"
    BY <1>4, CallTypes DEF RefillFrom, SlabInv, CallFacts
  <2> QED
    BY <1>4, <2>1, RefillLists, PoolStutters
<1>5. CASE RefillReturns
  BY <1>1, <1>5, HandOutIsAlloc DEF RefillReturns, RefillEnds
<1>6. CASE RefillRefused
  <2>1. P!Refuse
    BY <1>6, RefusedIsEmpty DEF P!Refuse, Pool
  <2> QED
    BY <2>1 DEF P!Next
<1>7. CASE Refused
  <2>1. /\ call' = Idle
        /\ UNCHANGED <<slabFree, slabPartial, slabFull, out>>
    BY <1>7 DEF Refused, lists
  <2>2. Slabs' = Slabs
    BY <2>1 DEF Slabs
  <2>3. Pool' = Pool
    BY <2>1, <2>2, PoolIs, PoolAfter
  <2>4. (call'.pc = "refused") = FALSE
    BY <2>1 DEF Idle
  <2>5. P!GoOn
    BY <2>1, <2>3, <2>4 DEF P!GoOn, Pool
  <2> QED
    BY <2>5 DEF P!Next
<1>8. ASSUME NEW s \in Block, RefillGrows(s) PROVE P!Next
  <2>1. /\ s \notin Slabs /\ out' = out /\ call.pc = "refill" /\ call' = call
        /\ Slabs' = Slabs \cup {s}
    BY <1>8, GrowInv DEF RefillGrows, RefillEnds
  <2>2. Pool' = Pool \cup ({s} \X Index) /\ ({s} \X Index) \cap (Pool \cup out) = {}
    BY <2>1, PoolIs, PoolAfter
  <2>3. (call.pc = "refused") = FALSE /\ (call'.pc = "refused") = FALSE
    BY <2>1
  <2>4. P!Grow({s} \X Index)
    BY <2>1, <2>2, <2>3 DEF P!Grow, Pool
  <2> QED
    BY <1>2, <2>4 DEF P!Next
<1>9. ASSUME NEW x \in Object, FreeByCache(x) PROVE P!Next
  BY <1>1, <1>9, FreeIsFree
<1>10. CASE FlushOne
  <2>1. PICK s \in Slabs, k \in Index :
          /\ s \in Block /\ Last(data) = <<s, k>> /\ data # <<>>
          /\ k \notin ToSet(chain[s]) /\ usedCount[s] \in 1..Count
          /\ usedCount[s] = 1 => ToSet(chain[s]) \cup {k} = Index
    BY <1>10, FlushObject
  <2>2. out' = out /\ call.pc = "flush" /\ call'.pc = "flush"
    BY <1>10, CallTypes DEF FlushOne, SlabInv, CallFacts
  <2>3. CASE ~Destroyed(s)
    BY <1>10, <2>1, <2>2, <2>3, FlushKeepsSlab, PoolStutters
  <2>4. CASE Destroyed(s)
    <3>1. Slabs' = Slabs \ {s}
      BY <1>10, <2>1, <2>4, FlushDropsSlab DEF Destroyed
    <3>2. out \subseteq (Slabs \ {s}) \X Index
      <4>1. out' \subseteq Slabs' \X Index
        BY DEF SlabInv, ObjectsInOnePlace
      <4> QED
        BY <2>2, <3>1, <4>1
    <3>3. Pool' = Pool \ ({s} \X Index) /\ {s} \X Index \subseteq Pool
      BY <2>2, <3>1, <3>2, PoolIs, PoolAfter
    <3>4. (call.pc = "refused") = FALSE /\ (call'.pc = "refused") = FALSE
      BY <2>2
    <3>5. P!Shrink({s} \X Index)
      BY <2>2, <3>3, <3>4 DEF P!Shrink, Pool
    <3> QED
      BY <1>2, <2>1, <3>5 DEF P!Next
  <2> QED
    BY <2>3, <2>4
<1>11. CASE FlushReturns
  <2>1. /\ call.pc = "flush" /\ call' = Idle
        /\ UNCHANGED <<slabFree, slabPartial, slabFull, out>>
    BY <1>11 DEF FlushReturns, lists
  <2>2. Slabs' = Slabs /\ call'.pc # "refused"
    BY <2>1 DEF Slabs, Idle
  <2> QED
    BY <2>1, <2>2, PoolStutters
<1>12. CASE UNCHANGED vars
  <2>1. UNCHANGED <<slabFree, slabPartial, slabFull, chain, data, out, call>>
    BY <1>12 DEF vars
  <2>2. Slabs' = Slabs /\ OnTheWay' = OnTheWay
    BY <2>1 DEF Slabs, OnTheWay
  <2>3. InChains' = InChains
    BY <2>1, <2>2 DEF InChains
  <2> QED
    BY <2>1, <2>2, <2>3 DEF P!vars
<1> QED
  BY <1>3, <1>4, <1>5, <1>6, <1>7, <1>8, <1>9, <1>10, <1>11, <1>12 DEF Next

\* To its users a slab cache is a pool of objects: allocByCache() gives out an
\* object nobody has and refuses only when none is free, and a slab that goes
\* back to the buddy system takes free objects with it and no other.
THEOREM CacheIsObjectPool == Spec => ImplementsObjectPool
<1>1. SlabInv /\ SlabInv' /\ [Next]_vars => [P!Next]_(P!vars)
  BY PoolStep
<1> QED
  BY <1>1, PoolInit, SlabInvHolds, PTL DEF Spec, ImplementsObjectPool, P!Spec

-----------------------------------------------------------------------------
(* Address spaces: the inductive invariant.                                *)

AreaLists == {<<>>} \cup {Areas(i) : i \in Image}
EntryType == {Absent} \cup [frame : Frame, write : BOOLEAN]
MemoryType ==
  [live : BOOLEAN, ref : Int, vm : AreaLists, pte : [Page -> EntryType],
   table : [0 .. Pages \div TableSize -> Int]]
FaultOps == {"page", "copy", "drop"}
FrameType == [count : Int, cache : BOOLEAN, data : Data]
StageType ==
  [op : {"unborn", "user", "exec", "exiting", "dead"} \cup FaultOps,
   page : Page, frame : Frame \cup {NoFrame}, old : Mem \cup {NoMem}]

MemoryTypes ==
  /\ current \in Task /\ cr3 \in Mem \cup {NoMem} /\ halted \in BOOLEAN
  /\ mm \in [Task -> Mem \cup {NoMem}] /\ active \in [Task -> Mem \cup {NoMem}]
  /\ at \in [User -> StageType] /\ mem \in [Mem -> MemoryType]
  /\ frame \in [Frame -> FrameType]
  /\ leaked \in [Frame -> Nat]
  /\ meant \in [Mem -> [Page -> Data]] /\ blurred \in [Mem -> SUBSET Page]

\* Nobody else has the memory of a task, nor the one that execve() replaces.
MemoriesApart ==
  /\ \A m \in Mem : ~mem[m].live => mem[m].pte = Unmapped
  /\ \A k \in Kernel : mm[k] = NoMem
  /\ \A t, u \in User :
       /\ mm[t] = mm[u] => t = u \/ mm[t] = NoMem
       /\ at[t].old = at[u].old => t = u \/ at[t].old = NoMem
       /\ at[t].old = mm[u] => at[t].old = NoMem

\* What a task has in each stage of a fault, of execve() and of exit.
StageSound(t) ==
  /\ mm[t] # NoMem => (mem[mm[t]].live <=> ~Doing(t, "exiting"))
  /\ at[t].op \in {"unborn", "dead"} => mm[t] = NoMem
  /\ at[t].op \in FaultOps \cup {"exec", "exiting"} => mm[t] # NoMem
  /\ at[t].frame # NoFrame <=> at[t].op \in FaultOps
  /\ at[t].old # NoMem => Doing(t, "exec") /\ mem[at[t].old].live
  /\ Doing(t, "exec") => mem[mm[t]].pte = Unmapped
  /\ Doing(t, "page") => ~Present(mm[t], at[t].page)
  /\ Doing(t, "copy") => Present(mm[t], at[t].page)

MemoryShape == MemoryTypes /\ MemoriesApart /\ \A t \in User : StageSound(t)

-----------------------------------------------------------------------------
(* Pages, entries and tables.                                              *)

LEMMA PageFacts ==
  /\ 0 \in Page /\ IsFiniteSet(Page) /\ Page \subseteq Nat
  /\ \A p \in Page : TableOf(p) \in 0 .. Pages \div TableSize
<1>1. Pages \in Nat \ {0} /\ TableSize \in Nat \ {0}
  BY AddressSpaceAssumption
<1>2. 0 \in Page /\ Page \subseteq Nat
  BY <1>1 DEF Page
<1>3. IsFiniteSet(Page)
  BY <1>1, FS_Interval DEF Page
<1>4. ASSUME NEW p \in Page
      PROVE  p \div TableSize \in 0 .. Pages \div TableSize
  BY <1>1 DEF Page
<1> QED
  BY <1>2, <1>3, <1>4 DEF TableOf

LEMMA EntryFacts ==
  /\ Absent \in EntryType /\ Unmapped \in [Page -> EntryType] /\ Absent.frame = NoFrame
  /\ ~Absent.write
  /\ \A e \in EntryType : /\ e.frame \in Frame \cup {NoFrame}
                          /\ e.frame = NoFrame <=> e = Absent
                          /\ e.write \in BOOLEAN /\ (e.write => e # Absent)
  /\ \A f \in Frame, w \in BOOLEAN : [frame |-> f, write |-> w] \in EntryType \ {Absent}
<1>1. Absent \in EntryType /\ Absent.frame = NoFrame /\ ~Absent.write
  BY DEF EntryType, Absent
<1>2. Unmapped \in [Page -> EntryType]
  BY <1>1 DEF Unmapped
<1>3. \A e \in EntryType : e = Absent \/ e \in [frame : Frame, write : BOOLEAN]
  BY DEF EntryType
<1>4. \A e \in [frame : Frame, write : BOOLEAN] :
        e.frame \in Frame /\ e.write \in BOOLEAN
  OBVIOUS
<1>5. \A f \in Frame, w \in BOOLEAN : [frame |-> f, write |-> w] \in EntryType
  BY DEF EntryType
<1>6. NoFrame \notin Frame
  BY AddressSpaceAssumption
<1>7. \A f \in Frame, w \in BOOLEAN : [frame |-> f, write |-> w].frame = f
  OBVIOUS
<1>8. \A e \in [frame : Frame, write : BOOLEAN] : e.frame # NoFrame /\ e # Absent
  BY <1>1, <1>4, <1>6
<1>9. ASSUME NEW e \in EntryType
      PROVE  /\ e.frame \in Frame \cup {NoFrame}
             /\ e.frame = NoFrame <=> e = Absent
             /\ e.write \in BOOLEAN /\ (e.write => e # Absent)
  <2>1. CASE e = Absent
    BY <2>1, <1>1, Zenon DEF Absent
  <2>2. CASE e \in [frame : Frame, write : BOOLEAN]
    BY <2>2, <1>4, <1>8, Zenon
  <2> QED
    BY <2>1, <2>2, <1>3
<1>10. \A f \in Frame, w \in BOOLEAN : [frame |-> f, write |-> w] \in EntryType \ {Absent}
  BY <1>1, <1>5, <1>6, <1>7
<1> QED
  BY <1>1, <1>2, <1>9, <1>10

\* A memory with some of its parts replaced.
LEMMA MemoryParts ==
  ASSUME NEW r \in MemoryType, NEW n \in Int
  PROVE  /\ [r EXCEPT !.ref = n] \in MemoryType
         /\ \A l \in BOOLEAN : [r EXCEPT !.live = l, !.ref = n] \in MemoryType
         /\ \A v \in AreaLists : [r EXCEPT !.vm = v] \in MemoryType
         /\ \A e \in [Page -> EntryType] :
              /\ [r EXCEPT !.pte = e] \in MemoryType
              /\ \A tb \in [0 .. Pages \div TableSize -> Int] :
                   /\ [r EXCEPT !.pte = e, !.table = tb] \in MemoryType
                   /\ [r EXCEPT !.ref = n, !.table = tb, !.pte = e] \in MemoryType
<1> DEFINE Es == [Page -> EntryType]
           Ts == [0 .. Pages \div TableSize -> Int]
<1>1. MemoryType = [live : BOOLEAN, ref : Int, vm : AreaLists, pte : Es, table : Ts]
  BY DEF MemoryType
<1> HIDE DEF Es, Ts
<1>2. [r EXCEPT !.ref = n] \in MemoryType
  BY <1>1
<1>3. ASSUME NEW l \in BOOLEAN  PROVE [r EXCEPT !.live = l, !.ref = n] \in MemoryType
  BY <1>1
<1>4. ASSUME NEW v \in AreaLists  PROVE [r EXCEPT !.vm = v] \in MemoryType
  BY <1>1
<1>5. ASSUME NEW e \in Es  PROVE [r EXCEPT !.pte = e] \in MemoryType
  BY <1>1
<1>6. ASSUME NEW e \in Es, NEW tb \in Ts
      PROVE  /\ [r EXCEPT !.pte = e, !.table = tb] \in MemoryType
             /\ [r EXCEPT !.ref = n, !.table = tb, !.pte = e] \in MemoryType
  BY <1>1
<1> QED
  BY <1>2, <1>3, <1>4, <1>5, <1>6, Zenon DEF Es, Ts

LEMMA NoMemoryFacts ==
  /\ NoMemory \in MemoryType /\ [NoMemory EXCEPT !.live = TRUE, !.ref = 1] \in MemoryType
  /\ NoMemory.pte = Unmapped /\ ~NoMemory.live
  /\ NoMemory.table = [k \in 0 .. Pages \div TableSize |-> 0]
  /\ [NoMemory EXCEPT !.live = TRUE, !.ref = 1].pte = Unmapped
  /\ [NoMemory EXCEPT !.live = TRUE, !.ref = 1].live
  /\ [NoMemory EXCEPT !.live = TRUE, !.ref = 1].ref = 1
  /\ [NoMemory EXCEPT !.live = TRUE, !.ref = 1].vm = <<>>
  /\ [NoMemory EXCEPT !.live = TRUE, !.ref = 1].table = NoMemory.table
<1>1. <<>> \in AreaLists
  BY DEF AreaLists
<1>2. Unmapped \in [Page -> EntryType]
  BY EntryFacts
<1>3. [k \in 0 .. Pages \div TableSize |-> 0] \in [0 .. Pages \div TableSize -> Int]
  OBVIOUS
<1> DEFINE zeros == [k \in 0 .. Pages \div TableSize |-> 0]
           new == [NoMemory EXCEPT !.live = TRUE, !.ref = 1]
<1>4. NoMemory = [live |-> FALSE, ref |-> 0, vm |-> <<>>, pte |-> Unmapped, table |-> zeros]
  BY DEF NoMemory
<1> HIDE DEF NoMemory, zeros
<1>5. NoMemory \in MemoryType
  BY <1>1, <1>2, <1>3, <1>4 DEF MemoryType, zeros
<1>6. NoMemory.pte = Unmapped /\ ~NoMemory.live /\ NoMemory.vm = <<>> /\ NoMemory.table = zeros
  BY <1>4
<1>7. new \in MemoryType
  <2>1. 1 \in Int
    OBVIOUS
  <2>2. TRUE \in BOOLEAN
    OBVIOUS
  <2> QED
    BY <1>5, <2>1, <2>2, MemoryParts, Zenon
<1>8. new.pte = Unmapped /\ new.live /\ new.ref = 1 /\ new.vm = <<>> /\ new.table = zeros
  BY <1>5, <1>6 DEF MemoryType
<1> QED
  BY <1>5, <1>6, <1>7, <1>8 DEF zeros

LEMMA StageFacts ==
  /\ InUser \in StageType /\ InUser.op = "user" /\ InUser.frame = NoFrame /\ InUser.old = NoMem
  /\ Unborn \in StageType /\ Unborn.op = "unborn" /\ Unborn.frame = NoFrame /\ Unborn.old = NoMem
BY PageFacts DEF InUser, Unborn, StageType, FaultOps

\* setPTEEntry() changes one entry of one memory, and the count of its table.
EntryWritten(m, p, e) == mem' = [mem EXCEPT ![m] = Map(@, p, e)]

LEMMA MapStep ==
  ASSUME MemoryTypes, NEW m \in Mem, NEW p \in Page, NEW e \in EntryType,
         EntryWritten(m, p, e)
  PROVE  /\ mem' \in [Mem -> MemoryType]
         /\ \A x \in Mem : /\ mem'[x].live = mem[x].live /\ mem'[x].ref = mem[x].ref
                           /\ mem'[x].vm = mem[x].vm
                           /\ x # m => mem'[x] = mem[x]
         /\ \A q \in Page : mem'[m].pte[q] = IF q = p THEN e ELSE mem[m].pte[q]
         /\ mem'[m].table[TableOf(p)] =
              (IF mem[m].table[TableOf(p)] = 0 THEN 1 ELSE mem[m].table[TableOf(p)])
              + (IF mem[m].pte[p] = Absent THEN 1 ELSE 0)
         /\ \A k \in 0 .. Pages \div TableSize :
              k # TableOf(p) => mem'[m].table[k] = mem[m].table[k]
<1> DEFINE r == mem[m]
           new == (IF r.table[TableOf(p)] = 0 THEN 1 ELSE r.table[TableOf(p)])
                  + (IF r.pte[p] = Absent THEN 1 ELSE 0)
           entries == [r.pte EXCEPT ![p] = e]
           table == [r.table EXCEPT ![TableOf(p)] = new]
<1>1. r \in MemoryType /\ mem \in [Mem -> MemoryType]
  BY DEF MemoryTypes
<1>2. r.pte \in [Page -> EntryType] /\ r.table \in [0 .. Pages \div TableSize -> Int]
  BY <1>1 DEF MemoryType
<1>3. TableOf(p) \in 0 .. Pages \div TableSize
  BY PageFacts
<1>4. new \in Int /\ entries \in [Page -> EntryType]
      /\ table \in [0 .. Pages \div TableSize -> Int]
  <2> DEFINE k == TableOf(p)  K == 0 .. Pages \div TableSize
  <2>1. k \in K /\ r.table \in [K -> Int] /\ r.pte \in [Page -> EntryType]
    BY <1>2, <1>3
  <2> HIDE DEF r, k, K
  <2>2. r.table[k] \in Int
    BY <2>1
  <2>3. new \in Int
    BY <2>2 DEF k
  <2> HIDE DEF new
  <2>4. [r.pte EXCEPT ![p] = e] \in [Page -> EntryType] /\ [r.table EXCEPT ![k] = new] \in [K -> Int]
    BY <2>1, <2>3
  <2> QED
    BY <2>3, <2>4 DEF k, K, r
<1>5. mem' = [mem EXCEPT ![m] = [r EXCEPT !.pte = entries, !.table = table]]
  BY DEF Map, EntryWritten
<1> HIDE DEF r, new, entries, table
<1> DEFINE s == [r EXCEPT !.pte = entries, !.table = table]
<1>6. s \in MemoryType
  BY <1>1, <1>4, MemoryParts
<1>7. s.live = r.live /\ s.ref = r.ref /\ s.vm = r.vm /\ s.pte = entries /\ s.table = table
  BY <1>1 DEF MemoryType
<1> HIDE DEF s
<1>8. mem' = [mem EXCEPT ![m] = s]
  BY <1>5 DEF s
<1>9. mem' \in [Mem -> MemoryType] /\ mem'[m] = s /\ \A x \in Mem : x # m => mem'[x] = mem[x]
  BY <1>1, <1>6, <1>8
<1>10. mem'[m].pte = entries /\ mem'[m].table = table
  BY <1>7, <1>9
<1>11. \A x \in Mem : mem'[x].live = mem[x].live /\ mem'[x].ref = mem[x].ref
                      /\ mem'[x].vm = mem[x].vm
  BY <1>7, <1>9 DEF r
<1>12. \A q \in Page : entries[q] = IF q = p THEN e ELSE mem[m].pte[q]
  BY <1>2 DEF entries, r
<1>13. /\ table[TableOf(p)] = new
       /\ \A k \in 0 .. Pages \div TableSize : k # TableOf(p) => table[k] = mem[m].table[k]
  <2> HIDE DEF new
  <2> QED
    BY <1>2, <1>3 DEF table, r
<1> QED
  BY <1>9, <1>10, <1>11, <1>12, <1>13 DEF r, new

LEMMA PlacesFinite ==
  ASSUME NEW S \in SUBSET (Mem \X Page)
  PROVE  IsFiniteSet(S) /\ Cardinality(S) \in Nat
<1>1. IsFiniteSet(Mem \X Page)
  BY PageFacts, AddressSpaceAssumption, FS_Product
<1>2. IsFiniteSet(S)
  BY <1>1, FS_Subset
<1> QED
  BY <1>2, FS_CardinalityType

LEMMA PagesFinite ==
  ASSUME NEW S \in SUBSET Page
  PROVE  IsFiniteSet(S) /\ Cardinality(S) \in Nat
<1>1. IsFiniteSet(S)
  BY PageFacts, FS_Subset
<1> QED
  BY <1>1, FS_CardinalityType

LEMMA TasksFinite ==
  ASSUME NEW S \in SUBSET Task
  PROVE  IsFiniteSet(S) /\ Cardinality(S) \in Nat
<1>1. IsFiniteSet(Task)
  BY AddressSpaceAssumption, FS_Union DEF Task
<1>2. IsFiniteSet(S)
  BY <1>1, FS_Subset
<1> QED
  BY <1>2, FS_CardinalityType

\* freePages() keeps a page what it is.
LEMMA PutType ==
  ASSUME NEW fr \in FrameType, NEW n \in Int
  PROVE  Put(fr, n) \in FrameType
<1>1. FreeFrame \in FrameType
  BY DEF FreeFrame, Data, FrameType
<1>2. [fr EXCEPT !.count = fr.count - n] \in FrameType
  BY DEF FrameType
<1>3. Put(fr, n) \in {FreeFrame, [fr EXCEPT !.count = fr.count - n]}
  BY DEF Put
<1> QED
  BY <1>1, <1>2, <1>3

LEMMA NewFrameType ==
  ASSUME NEW d \in Data
  PROVE  /\ NewFrame(d) \in FrameType
         /\ NewFrame(d).count = 1 /\ ~NewFrame(d).cache /\ NewFrame(d).data = d
BY DEF NewFrame, FrameType

\* What a step at one task leaves of the shape.
LEMMA OneActs ==
  ASSUME MemoryShape, MemoryTypes', NEW t \in User, UNCHANGED mm,
         \A u \in User \ {t} : at'[u] = at[u],
         \A m \in Mem : mem'[m].live = mem[m].live,
         \A m \in Mem \ {mm[t]} : mem'[m].pte = mem[m].pte,
         mm[t] # NoMem, ~Doing(t, "exiting"), at'[t].old = NoMem, StageSound(t)'
  PROVE  MemoryShape'
<1>1. mm[t] \in Mem /\ mem[mm[t]].live
  BY AddressSpaceAssumption DEF MemoryShape, MemoryTypes, StageSound, Task
<1>2. MemoriesApart'
  <2>1. \A m \in Mem : ~mem'[m].live => mem'[m].pte = Unmapped
    BY <1>1 DEF MemoryShape, MemoriesApart
  <2>2. \A k \in Kernel : mm'[k] = NoMem
    BY DEF MemoryShape, MemoriesApart
  <2>3. ASSUME NEW v \in User, NEW u \in User
        PROVE  /\ mm'[v] = mm'[u] => v = u \/ mm'[v] = NoMem
               /\ at'[v].old = at'[u].old => v = u \/ at'[v].old = NoMem
               /\ at'[v].old = mm'[u] => at'[v].old = NoMem
    BY DEF MemoryShape, MemoriesApart
  <2> QED
    BY <2>1, <2>2, <2>3 DEF MemoriesApart
<1>3. ASSUME NEW u \in User \ {t}
      PROVE  StageSound(u)'
  <2>1. at'[u] = at[u] /\ mm'[u] = mm[u] /\ StageSound(u)
    BY DEF MemoryShape
  <2>2. mm[u] # NoMem => /\ mm[u] \in Mem \ {mm[t]}
                         /\ mem'[mm[u]].pte = mem[mm[u]].pte /\ mem'[mm[u]].live = mem[mm[u]].live
    BY <1>1 DEF MemoryShape, MemoryTypes, MemoriesApart, Task
  <2>3. at[u].old # NoMem => at[u].old \in Mem /\ mem'[at[u].old].live = mem[at[u].old].live
    <3>1. at[u] \in StageType
      BY DEF MemoryShape, MemoryTypes
    <3> QED
      BY <3>1 DEF StageType
  <2>4. at[u].op \in {"exec", "page", "copy"} => mm[u] # NoMem
    BY <2>1 DEF StageSound, FaultOps
  <2>5. /\ mm'[u] # NoMem => (mem'[mm'[u]].live <=> ~Doing(u, "exiting")')
        /\ at'[u].old # NoMem => Doing(u, "exec")' /\ mem'[at'[u].old].live
    BY <2>1, <2>2, <2>3 DEF StageSound, Doing
  <2>6. /\ Doing(u, "exec")' => mem'[mm'[u]].pte = Unmapped
        /\ Doing(u, "page")' => ~Present(mm[u], at[u].page)'
        /\ Doing(u, "copy")' => Present(mm[u], at[u].page)'
    BY <2>1, <2>2, <2>4 DEF StageSound, Doing, Present
  <2> QED
    BY <2>1, <2>5, <2>6 DEF StageSound, Doing, Present
<1> QED
  BY <1>2, <1>3 DEF MemoryShape

LEMMA BecomesStep ==
  ASSUME MemoryTypes, NEW t \in User, NEW op \in FaultOps, NEW p \in Page, NEW f \in Frame,
         Becomes(t, op, p, f)
  PROVE  /\ at' \in [User -> StageType] /\ \A u \in User \ {t} : at'[u] = at[u]
         /\ at'[t].op = op /\ at'[t].page = p /\ at'[t].frame = f /\ at'[t].old = NoMem
<1> DEFINE stage == [InUser EXCEPT !.op = op, !.page = p, !.frame = f]
<1>1. stage \in StageType
  BY StageFacts DEF StageType
<1>2. stage.op = op /\ stage.page = p /\ stage.frame = f /\ stage.old = NoMem
  BY StageFacts DEF StageType
<1>3. at' = [at EXCEPT ![t] = stage] /\ at \in [User -> StageType]
  BY DEF Becomes, MemoryTypes
<1> HIDE DEF stage
<1> QED
  BY <1>1, <1>2, <1>3

LEMMA ReturnsStep ==
  ASSUME MemoryTypes, NEW t \in User, Returns(t)
  PROVE  /\ at' \in [User -> StageType] /\ \A u \in User \ {t} : at'[u] = at[u]
         /\ at'[t] = InUser
BY StageFacts DEF Returns, MemoryTypes

\* A task in user mode is in no call.
LEMMA InUserSound ==
  ASSUME NEW t \in User, at'[t] = InUser, mm'[t] # NoMem => mem'[mm'[t]].live
  PROVE  StageSound(t)'
BY StageFacts DEF StageSound, Doing, FaultOps

LEMMA Inside ==
  ASSUME MemoryShape, NEW t \in User, mm[t] # NoMem
  PROVE  mm[t] \in Mem
BY DEF MemoryShape, MemoryTypes, Task

LEMMA FrameOf ==
  ASSUME MemoryShape, NEW m \in Mem, NEW p \in Page, Present(m, p)
  PROVE  mem[m].pte[p].frame \in Frame
<1>1. mem[m].pte \in [Page -> EntryType]
  BY DEF MemoryShape, MemoryTypes, MemoryType
<1> QED
  BY <1>1, EntryFacts DEF Present

LEMMA HeldFrame ==
  ASSUME MemoryShape, NEW t \in User
  PROVE  /\ at[t] \in StageType /\ at[t].page \in Page
         /\ at[t].op \in FaultOps => at[t].frame \in Frame /\ mm[t] \in Mem
<1>1. at[t] \in StageType
  BY DEF MemoryShape, MemoryTypes
<1>2. StageSound(t)
  BY DEF MemoryShape
<1> QED
  BY <1>1, <1>2, Inside DEF StageType, StageSound

-----------------------------------------------------------------------------
(* The steps keep the shape.                                               *)

LEMMA StoreShape ==
  ASSUME MemoryShape, NEW t \in User, NEW p \in Page, Write(t, p) \/ CopyOut(t, p)
  PROVE  MemoryShape'
<1> DEFINE m == mm[t]  f == Entry(t, p).frame
<1>1. m \in Mem /\ f \in Frame /\ Doing(t, "user") /\ m # NoMem
  BY Inside, FrameOf DEF Write, CopyOut, Writes, Reads, Runs, Entry
<1>2. /\ frame' = [frame EXCEPT ![f].data = "written"]
      /\ meant' = [meant EXCEPT ![m][p] = "written"]
      /\ UNCHANGED <<current, cr3, mm, active, at, mem, leaked, halted>>
  BY DEF Write, CopyOut, Store
<1>3. frame' \in [Frame -> FrameType]
  BY <1>1, <1>2 DEF MemoryShape, MemoryTypes, FrameType, Data
<1>4. meant' \in [Mem -> [Page -> Data]]
  BY <1>1, <1>2 DEF MemoryShape, MemoryTypes, Data
<1>5. blurred' \in [Mem -> SUBSET Page]
  <2>1. CASE Write(t, p)
    BY <2>1 DEF Write, MemoryShape, MemoryTypes
  <2>2. CASE CopyOut(t, p)
    BY <2>2 DEF CopyOut, MemoryShape, MemoryTypes
  <2> QED
    BY <2>1, <2>2
<1> HIDE DEF m, f
<1>6. MemoryTypes'
  BY <1>2, <1>3, <1>4, <1>5 DEF MemoryShape, MemoryTypes
<1>7. MemoriesApart'
  BY <1>2 DEF MemoryShape, MemoriesApart
<1>8. ASSUME NEW u \in User  PROVE StageSound(u)'
  BY <1>2 DEF MemoryShape, StageSound, Doing, Present
<1> QED
  BY <1>6, <1>7, <1>8 DEF MemoryShape

LEMMA FaultBeginsShape ==
  ASSUME MemoryShape, NEW t \in User, NEW p \in Page, PageFault(t, p)
  PROVE  MemoryShape'
<1> DEFINE m == mm[t]
<1>1. m \in Mem /\ m # NoMem /\ Doing(t, "user") /\ at[t].old = NoMem
  <2>1. mm[t] # NoMem /\ Doing(t, "user")
    BY DEF PageFault, TakeBack, FillZero, GetPage, AllocCopy, Missing, Shared, Writes, Reads, Runs
  <2> QED
    BY <2>1, Inside DEF MemoryShape, StageSound, Doing
<1>2. MemoryTypes /\ StageSound(t)
  BY DEF MemoryShape
<1>3. CASE TakeBack(t, p)
  <2>1. Present(m, p)
    BY <1>3 DEF TakeBack, Shared
  <2>2. mem[m].pte[p].frame \in Frame
    BY <1>1, <2>1, FrameOf
  <2> DEFINE e == [frame |-> mem[m].pte[p].frame, write |-> TRUE]
  <2>3. e \in EntryType /\ EntryWritten(m, p, e)
    BY <1>3, <2>2, EntryFacts DEF TakeBack, MapsTo, Entry, EntryWritten
  <2> HIDE DEF e
  <2>4. /\ mem' \in [Mem -> MemoryType] /\ \A x \in Mem : mem'[x].live = mem[x].live
        /\ \A x \in Mem \ {m} : mem'[x].pte = mem[x].pte
    BY <1>1, <1>2, <2>3, MapStep
  <2>5. UNCHANGED <<current, cr3, mm, active, at, frame, meant, blurred, leaked, halted>>
    BY <1>3 DEF TakeBack
  <2>6. MemoryTypes'
    BY <1>2, <2>4, <2>5 DEF MemoryTypes
  <2>7. StageSound(t)'
    BY <1>1, <1>2, <2>4, <2>5 DEF StageSound, Doing, FaultOps
  <2> QED
    BY <1>1, <2>4, <2>5, <2>6, <2>7, OneActs DEF Doing
<1>4. ASSUME NEW f \in Frame, FillZero(t, p, f)
      PROVE  MemoryShape'
  <2> DEFINE e == [frame |-> f, write |-> TRUE]
  <2>1. e \in EntryType /\ EntryWritten(m, p, e)
    BY <1>4, EntryFacts DEF FillZero, MapsTo, EntryWritten
  <2> HIDE DEF e
  <2>2. /\ mem' \in [Mem -> MemoryType] /\ \A x \in Mem : mem'[x].live = mem[x].live
        /\ \A x \in Mem \ {m} : mem'[x].pte = mem[x].pte
    BY <1>1, <1>2, <2>1, MapStep
  <2>3. UNCHANGED <<current, cr3, mm, active, at, meant, blurred, leaked, halted>>
        /\ frame' = [frame EXCEPT ![f] = NewFrame("zero")]
    BY <1>4 DEF FillZero
  <2>4. frame' \in [Frame -> FrameType]
    BY <1>2, <2>3, NewFrameType DEF MemoryTypes, Data
  <2>5. MemoryTypes'
    BY <1>2, <2>2, <2>3, <2>4 DEF MemoryTypes
  <2>6. StageSound(t)'
    BY <1>1, <1>2, <2>2, <2>3 DEF StageSound, Doing, FaultOps
  <2> QED
    BY <1>1, <2>2, <2>3, <2>5, <2>6, OneActs DEF Doing
<1>5. ASSUME NEW f \in Frame, GetPage(t, p, f) \/ AllocCopy(t, p, f)
      PROVE  MemoryShape'
  <2>1. UNCHANGED <<current, cr3, mm, active, mem, meant, blurred, leaked, halted>>
    BY <1>5 DEF GetPage, AllocCopy
  <2>2. frame' \in [Frame -> FrameType]
    <3>1. [count |-> 2, cache |-> TRUE, data |-> "file"] \in FrameType
      BY DEF FrameType, Data
    <3>2. NewFrame("zero") \in FrameType
      BY NewFrameType DEF Data
    <3> QED
      BY <1>2, <1>5, <3>1, <3>2 DEF GetPage, AllocCopy, MemoryTypes
  <2>3. PICK op \in {"page", "copy"} : /\ Becomes(t, op, p, f)
                                       /\ op = "page" => ~Present(m, p)
                                       /\ op = "copy" => Present(m, p)
    BY <1>5 DEF GetPage, AllocCopy, Missing, Shared
  <2>4. /\ at' \in [User -> StageType] /\ \A u \in User \ {t} : at'[u] = at[u]
        /\ at'[t].op = op /\ at'[t].page = p /\ at'[t].frame = f /\ at'[t].old = NoMem
    BY <1>2, <2>3, BecomesStep DEF FaultOps
  <2>5. MemoryTypes'
    BY <1>2, <2>1, <2>2, <2>4 DEF MemoryTypes
  <2>6. StageSound(t)'
    <3>1. f # NoFrame
      BY AddressSpaceAssumption
    <3>2. mm'[t] # NoMem /\ (mem'[mm'[t]].live <=> ~Doing(t, "exiting")')
      BY <1>1, <1>2, <2>1, <2>3, <2>4 DEF StageSound, Doing
    <3> QED
      BY <2>1, <2>3, <2>4, <3>1, <3>2 DEF StageSound, Doing, FaultOps, Present
  <2> QED
    BY <1>1, <2>1, <2>4, <2>5, <2>6, OneActs DEF Doing
<1> QED
  BY <1>3, <1>4, <1>5 DEF PageFault

LEMMA FaultGoesOnShape ==
  ASSUME MemoryShape, NEW t \in User, FaultGoesOn(t)
  PROVE  MemoryShape'
<1> DEFINE m == mm[t]  p == at[t].page  g == at[t].frame
<1>1. at[t].op \in FaultOps /\ at[t].op # "exiting"
  BY DEF FaultGoesOn, MapPage, CopyPageFails, MapCopy, DropOld, CopyPage, Runs, Doing, FaultOps
<1>2. MemoryTypes /\ StageSound(t)
  BY DEF MemoryShape
<1>3. m \in Mem /\ m # NoMem /\ p \in Page /\ g \in Frame /\ mem[m].live /\ at[t].old = NoMem
  <2>1. m \in Mem /\ p \in Page /\ g \in Frame
    BY <1>1, HeldFrame
  <2> QED
    BY <1>1, <1>2, <2>1 DEF StageSound, Doing, FaultOps
<1>4. frame[g] \in FrameType /\ [frame EXCEPT ![g] = Put(@, 1)] \in [Frame -> FrameType]
  <2>1. frame[g] \in FrameType
    BY <1>2, <1>3 DEF MemoryTypes
  <2>2. Put(frame[g], 1) \in FrameType
    BY <2>1, PutType
  <2> QED
    BY <1>2, <2>1, <2>2 DEF MemoryTypes
\* A step that maps the page and returns to the program.
<1>5. ASSUME NEW e \in EntryType, EntryWritten(m, p, e), Returns(t),
             UNCHANGED <<current, cr3, mm, active, meant, blurred, leaked, halted>>,
             frame' \in [Frame -> FrameType]
      PROVE  MemoryShape'
  <2>1. /\ mem' \in [Mem -> MemoryType] /\ \A x \in Mem : mem'[x].live = mem[x].live
        /\ \A x \in Mem \ {m} : mem'[x].pte = mem[x].pte
    BY <1>2, <1>3, <1>5, MapStep
  <2>2. at' \in [User -> StageType] /\ (\A u \in User \ {t} : at'[u] = at[u]) /\ at'[t] = InUser
    BY <1>2, <1>5, ReturnsStep
  <2>3. MemoryTypes'
    BY <1>2, <1>5, <2>1, <2>2 DEF MemoryTypes
  <2>4. StageSound(t)'
    BY <1>3, <1>5, <2>1, <2>2, InUserSound
  <2>5. at'[t].old = NoMem
    BY <2>2, StageFacts
  <2> QED
    BY <1>1, <1>3, <1>5, <2>1, <2>2, <2>3, <2>4, <2>5, OneActs DEF Doing
<1>6. CASE MapPage(t)
  <2>1. [frame |-> g, write |-> FALSE] \in EntryType
    BY <1>3, EntryFacts
  <2>2. frame' \in [Frame -> FrameType]
    BY <1>2, <1>6 DEF MapPage, MemoryTypes
  <2> QED
    BY <1>5, <1>6, <2>1, <2>2 DEF MapPage, MapsTo, EntryWritten
<1>7. ASSUME NEW f \in Frame, CopyPage(t, f)
      PROVE  MemoryShape'
  <2>1. [frame |-> f, write |-> TRUE] \in EntryType
    BY EntryFacts
  <2>2. NewFrame("file") \in FrameType
    BY NewFrameType DEF Data
  <2>3. frame' = [frame EXCEPT ![f] = NewFrame("file"), ![g] = Put(frame[g], 1)]
    BY <1>7 DEF CopyPage
  <2>4. frame \in [Frame -> FrameType] /\ Put(frame[g], 1) \in FrameType
    BY <1>2, <1>3, <1>4, PutType DEF MemoryTypes
  <2>5. frame' \in [Frame -> FrameType]
    BY <1>3, <2>2, <2>3, <2>4
  <2> QED
    BY <1>5, <1>7, <2>1, <2>5 DEF CopyPage, MapsTo, EntryWritten
<1>8. CASE CopyPageFails(t)
  <2>1. UNCHANGED <<current, cr3, mm, active, mem, frame, meant, blurred, halted>>
        /\ leaked' = [leaked EXCEPT ![g] = @ + 1]
    BY <1>8 DEF CopyPageFails
  <2>2. at' \in [User -> StageType] /\ (\A u \in User \ {t} : at'[u] = at[u]) /\ at'[t] = InUser
    BY <1>2, <1>8, ReturnsStep DEF CopyPageFails
  <2>3. leaked' \in [Frame -> Nat]
    BY <1>2, <1>3, <2>1 DEF MemoryTypes
  <2>4. MemoryTypes'
    BY <1>2, <2>1, <2>2, <2>3 DEF MemoryTypes
  <2>5. StageSound(t)' /\ at'[t].old = NoMem
    BY <1>3, <2>1, <2>2, InUserSound, StageFacts
  <2> QED
    BY <1>1, <1>3, <2>1, <2>2, <2>4, <2>5, OneActs DEF Doing
<1>9. CASE MapCopy(t)
  <2>1. Present(m, p)
    BY <1>2, <1>9 DEF MapCopy, Runs, StageSound
  <2>2. mem[m].pte[p].frame \in Frame /\ [frame |-> g, write |-> TRUE] \in EntryType
    BY <1>3, <2>1, FrameOf, EntryFacts
  <2> DEFINE h == mem[m].pte[p].frame  e == [frame |-> g, write |-> TRUE]
  <2>3. /\ EntryWritten(m, p, e) /\ Becomes(t, "drop", p, h)
        /\ frame' = [frame EXCEPT ![g].data = frame[h].data]
        /\ UNCHANGED <<current, cr3, mm, active, meant, blurred, leaked, halted>>
    BY <1>9 DEF MapCopy, MapsTo, Entry, EntryWritten
  <2>4. e \in EntryType /\ h \in Frame
    BY <2>2
  <2> HIDE DEF e, h
  <2>5. /\ mem' \in [Mem -> MemoryType] /\ \A x \in Mem : mem'[x].live = mem[x].live
        /\ \A x \in Mem \ {m} : mem'[x].pte = mem[x].pte
    BY <1>2, <1>3, <2>3, <2>4, MapStep
  <2>6. /\ at' \in [User -> StageType] /\ \A u \in User \ {t} : at'[u] = at[u]
        /\ at'[t].op = "drop" /\ at'[t].frame = h /\ at'[t].old = NoMem
    BY <1>2, <1>3, <2>3, <2>4, BecomesStep DEF FaultOps
  <2>7. frame' \in [Frame -> FrameType]
    <3>1. frame \in [Frame -> FrameType] /\ frame[h].data \in Data
      BY <1>2, <2>4 DEF MemoryTypes, FrameType
    <3>2. [frame[g] EXCEPT !.data = frame[h].data] \in FrameType
      BY <1>3, <3>1 DEF FrameType
    <3> QED
      BY <2>3, <3>1, <3>2
  <2>8. MemoryTypes'
    BY <1>2, <2>3, <2>5, <2>6, <2>7 DEF MemoryTypes
  <2>9. StageSound(t)'
    <3>1. h # NoFrame
      BY <2>4, AddressSpaceAssumption
    <3> QED
      BY <1>3, <2>3, <2>5, <2>6, <3>1 DEF StageSound, Doing, FaultOps
  <2> QED
    BY <1>1, <1>3, <2>3, <2>5, <2>6, <2>8, <2>9, OneActs DEF Doing
<1>10. CASE DropOld(t)
  <2>1. UNCHANGED <<current, cr3, mm, active, mem, meant, blurred, leaked, halted>>
        /\ frame' \in [Frame -> FrameType]
    BY <1>4, <1>10 DEF DropOld
  <2>2. at' \in [User -> StageType] /\ (\A u \in User \ {t} : at'[u] = at[u]) /\ at'[t] = InUser
    BY <1>2, <1>10, ReturnsStep DEF DropOld
  <2>3. MemoryTypes'
    BY <1>2, <2>1, <2>2 DEF MemoryTypes
  <2>4. StageSound(t)' /\ at'[t].old = NoMem
    BY <1>3, <2>1, <2>2, InUserSound, StageFacts
  <2> QED
    BY <1>1, <1>3, <2>1, <2>2, <2>3, <2>4, OneActs DEF Doing
<1> QED
  BY <1>6, <1>7, <1>8, <1>9, <1>10 DEF FaultGoesOn

\* Taking the right to write from some entries.
LEMMA ReadOnlyFacts ==
  ASSUME NEW pte \in [Page -> EntryType], NEW ps, \A p \in ps : pte[p] # Absent
  PROVE  /\ ReadOnly(pte, ps) \in [Page -> EntryType]
         /\ \A p \in Page : /\ ReadOnly(pte, ps)[p].frame = pte[p].frame
                            /\ (ReadOnly(pte, ps)[p] = Absent) <=> (pte[p] = Absent)
                            /\ ReadOnly(pte, ps)[p].write => pte[p].write /\ p \notin ps
                            /\ p \notin ps => ReadOnly(pte, ps)[p] = pte[p]
<1>1. ASSUME NEW p \in Page, p \in ps
      PROVE  LET e == [pte[p] EXCEPT !.write = FALSE]
             IN  e \in EntryType /\ e.frame = pte[p].frame /\ e # Absent /\ ~e.write
  <2>1. pte[p] \in [frame : Frame, write : BOOLEAN]
    BY <1>1 DEF EntryType
  <2>2. [pte[p] EXCEPT !.write = FALSE] \in [frame : Frame, write : BOOLEAN]
    BY <2>1
  <2>3. [pte[p] EXCEPT !.write = FALSE].frame = pte[p].frame /\ pte[p].frame \in Frame
        /\ ~[pte[p] EXCEPT !.write = FALSE].write
    BY <2>1
  <2> QED
    BY <2>2, <2>3, EntryFacts, AddressSpaceAssumption DEF EntryType
<1>2. \A p \in Page : pte[p] \in EntryType
  OBVIOUS
<1>3. \A p \in Page : ReadOnly(pte, ps)[p] = IF p \in ps THEN [pte[p] EXCEPT !.write = FALSE] ELSE pte[p]
  BY DEF ReadOnly
<1>4. ReadOnly(pte, ps) \in [Page -> EntryType]
  BY <1>1, <1>2 DEF ReadOnly
<1> QED
  BY <1>1, <1>3, <1>4

LEMMA WalkedPages ==
  ASSUME NEW m \in Mem
  PROVE  /\ WalkedIn(m) \subseteq Page
         /\ \A S : Entries(m, S) \subseteq S /\ \A p \in Entries(m, S) : mem[m].pte[p] # Absent
BY DEF WalkedIn, Walked, Entries, Present

LEMMA Pte ==
  ASSUME MemoryTypes, NEW m \in Mem
  PROVE  /\ mem[m] \in MemoryType /\ mem[m].pte \in [Page -> EntryType]
         /\ mem[m].table \in [0 .. Pages \div TableSize -> Int]
         /\ mem[m].live \in BOOLEAN /\ mem[m].ref \in Int /\ mem[m].vm \in AreaLists
BY DEF MemoryTypes, MemoryType

\* What taskForkMemory() does to the parent.
LEMMA ReadOnlyStep ==
  ASSUME MemoryTypes, NEW m \in Mem, NEW ps, \A p \in ps : mem[m].pte[p] # Absent,
         NEW new, new = [mem[m] EXCEPT !.pte = ReadOnly(@, ps)]
  PROVE  /\ new \in MemoryType
         /\ new.live = mem[m].live /\ new.ref = mem[m].ref /\ new.vm = mem[m].vm
         /\ new.table = mem[m].table /\ new.pte = ReadOnly(mem[m].pte, ps)
<1>1. mem[m] \in MemoryType /\ mem[m].pte \in [Page -> EntryType]
  BY Pte
<1>2. ReadOnly(mem[m].pte, ps) \in [Page -> EntryType]
  BY <1>1, ReadOnlyFacts
<1>3. new \in MemoryType
  <2>1. 0 \in Int /\ new = [mem[m] EXCEPT !.pte = ReadOnly(mem[m].pte, ps)]
    OBVIOUS
  <2> QED
    BY <1>1, <1>2, <2>1, MemoryParts, Zenon
<1> QED
  BY <1>1, <1>3 DEF MemoryType

\* The memory of the child that gets the pages ps of m.
ChildOf(m, ps) ==
  [mem[m] EXCEPT !.ref = 1, !.table = [k \in DOMAIN @ |->
     LET n == Cardinality({p \in ps : TableOf(p) = k})
     IN IF n = 0 THEN 0 ELSE n + 1],
   !.pte = ReadOnly([p \in Page |-> IF p \in ps THEN @[p] ELSE Absent], ps)]

LEMMA ChildStep ==
  ASSUME MemoryTypes, NEW m \in Mem, NEW ps \in SUBSET Page, \A p \in ps : mem[m].pte[p] # Absent,
         NEW child, child = ChildOf(m, ps)
  PROVE  /\ child \in MemoryType
         /\ child.live = mem[m].live /\ child.ref = 1 /\ child.vm = mem[m].vm
         /\ \A k \in 0 .. Pages \div TableSize :
              LET n == Cardinality({p \in ps : TableOf(p) = k})
              IN child.table[k] = IF n = 0 THEN 0 ELSE n + 1
         /\ \A p \in ps : child.pte[p].frame = mem[m].pte[p].frame /\ child.pte[p] # Absent
         /\ \A p \in Page \ ps : child.pte[p] = Absent
         /\ \A p \in Page : ~child.pte[p].write
<1> DEFINE K == 0 .. Pages \div TableSize
           given == [p \in Page |-> IF p \in ps THEN mem[m].pte[p] ELSE Absent]
           size(k) == Cardinality({p \in ps : TableOf(p) = k})
           counts == [k \in K |-> IF size(k) = 0 THEN 0 ELSE size(k) + 1]
           entries == ReadOnly(given, ps)
<1>1. /\ mem[m] \in MemoryType /\ mem[m].pte \in [Page -> EntryType]
      /\ mem[m].table \in [K -> Int]
  BY Pte
<1>2. given \in [Page -> EntryType] /\ \A p \in ps : given[p] # Absent
  BY <1>1, EntryFacts
<1>3. /\ entries \in [Page -> EntryType]
      /\ \A p \in Page : /\ entries[p].frame = given[p].frame
                         /\ (entries[p] = Absent) <=> (given[p] = Absent)
                         /\ entries[p].write => given[p].write /\ p \notin ps
                         /\ p \notin ps => entries[p] = given[p]
  <2> HIDE DEF given
  <2> QED
    BY <1>2, ReadOnlyFacts
<1>4. \A k \in K : size(k) \in Nat
  <2>1. ASSUME NEW k \in K  PROVE {p \in ps : TableOf(p) = k} \in SUBSET Page
    OBVIOUS
  <2> QED
    BY <2>1, PagesFinite
<1>5. counts \in [K -> Int]
  <2> HIDE DEF size
  <2> QED
    BY <1>4
<1>6. child = [mem[m] EXCEPT !.ref = 1, !.table = counts, !.pte = entries]
  BY <1>1 DEF ChildOf
<1> HIDE DEF counts, entries
<1>7. child \in MemoryType
  <2>1. 1 \in Int
    OBVIOUS
  <2> QED
    <3>1. \A e \in [Page -> EntryType], tb \in [0 .. Pages \div TableSize -> Int] :
            [mem[m] EXCEPT !.ref = 1, !.table = tb, !.pte = e] \in MemoryType
      BY <1>1, <2>1, MemoryParts
    <3>2. [mem[m] EXCEPT !.ref = 1, !.table = counts, !.pte = entries] \in MemoryType
      BY <1>3, <1>5, <3>1
    <3> QED
      BY <1>6, <3>2
<1>8. /\ child.live = mem[m].live /\ child.ref = 1 /\ child.vm = mem[m].vm
      /\ child.table = counts /\ child.pte = entries
  <2> HIDE DEF K
  <2> QED
    BY <1>1, <1>6 DEF MemoryType
<1>9. \A p \in ps : child.pte[p].frame = mem[m].pte[p].frame /\ child.pte[p] # Absent
  BY <1>2, <1>3, <1>8
<1>10. \A p \in Page \ ps : child.pte[p] = Absent
  BY <1>3, <1>8
<1>11. \A p \in Page : ~child.pte[p].write
  BY <1>3, <1>8, <1>10, EntryFacts
<1> QED
  BY <1>7, <1>8, <1>9, <1>10, <1>11 DEF counts

LEMMA MappedToType ==
  ASSUME NEW m \in Mem, NEW f, NEW ps \in SUBSET Page
  PROVE  MappedTo(m, f, ps) \in Nat
<1>1. {p \in ps : mem[m].pte[p].frame = f} \in SUBSET Page
  OBVIOUS
<1> QED
  BY <1>1, PagesFinite DEF MappedTo

LEMMA ForkFailsShape ==
  ASSUME MemoryShape, NEW t \in User, NEW n \in 1 .. Pages, NEW q \in Page, ForkFails(t, n, q)
  PROVE  MemoryShape'
<1> DEFINE m == mm[t]
           part == Entries(m, {p \in Walked(mem[m].vm[n]) : p < q})
           done == UNION {Walked(mem[m].vm[i]) : i \in 1 .. n - 1}
           ps == Entries(m, done) \cup part
<1>1. MemoryTypes /\ StageSound(t)
  BY DEF MemoryShape
<1>2. m \in Mem /\ m # NoMem /\ Doing(t, "user") /\ at[t].old = NoMem
  <2>1. mm[t] # NoMem /\ Doing(t, "user")
    BY DEF ForkFails, Runs
  <2> QED
    BY <1>1, <2>1, Inside DEF StageSound, Doing
<1>3. /\ mem' = [mem EXCEPT ![m].pte = ReadOnly(@, ps)]
      /\ frame' = [f \in Frame |-> [frame[f] EXCEPT !.count = @ + MappedTo(m, f, part)]]
      /\ leaked' = [f \in Frame |-> leaked[f] + MappedTo(m, f, part)]
      /\ UNCHANGED <<current, cr3, mm, active, at, meant, blurred, halted>>
  BY DEF ForkFails
<1>4. part \in SUBSET Page /\ \A p \in ps : mem[m].pte[p] # Absent
  BY <1>2, WalkedPages DEF Entries, Walked, Present
<1> HIDE DEF m, ps, part
<1>5. /\ mem' \in [Mem -> MemoryType] /\ \A x \in Mem : mem'[x].live = mem[x].live
      /\ \A x \in Mem \ {m} : mem'[x].pte = mem[x].pte
  <2> DEFINE new == [mem[m] EXCEPT !.pte = ReadOnly(@, ps)]
  <2>1. new \in MemoryType /\ new.live = mem[m].live
    BY <1>1, <1>2, <1>4, ReadOnlyStep
  <2>2. mem' = [mem EXCEPT ![m] = new] /\ mem \in [Mem -> MemoryType]
    BY <1>1, <1>3 DEF MemoryTypes
  <2> HIDE DEF new
  <2> QED
    BY <1>2, <2>1, <2>2
<1>6. \A f \in Frame : MappedTo(m, f, part) \in Nat
  BY <1>2, <1>4, MappedToType
<1>7. leaked' \in [Frame -> Nat] /\ frame' \in [Frame -> FrameType]
  <2>1. leaked' \in [Frame -> Nat]
    BY <1>1, <1>3, <1>6 DEF MemoryTypes
  <2>2. ASSUME NEW f \in Frame
        PROVE  [frame[f] EXCEPT !.count = @ + MappedTo(m, f, part)] \in FrameType
    BY <1>1, <1>6 DEF MemoryTypes, FrameType
  <2> QED
    BY <1>3, <2>1, <2>2
<1>8. MemoryTypes'
  BY <1>1, <1>3, <1>5, <1>7 DEF MemoryTypes
<1>9. StageSound(t)'
  BY <1>1, <1>2, <1>3, <1>5 DEF StageSound, Doing, FaultOps
<1> QED
  BY <1>2, <1>3, <1>5, <1>8, <1>9, OneActs DEF Doing, m

\* The steps that free the memory m.
LEMMA UnmapTypes ==
  ASSUME MemoryTypes, NEW m \in Mem, Unmap(m)
  PROVE  /\ frame' \in [Frame -> FrameType] /\ leaked' \in [Frame -> Nat]
         /\ blurred' \in [Mem -> SUBSET Page]
<1>1. \A f \in Frame : /\ MappedTo(m, f, WalkedIn(m)) \in Nat
                       /\ MappedTo(m, f, Page \ WalkedIn(m)) \in Nat
  BY WalkedPages, MappedToType
<1>2. leaked' \in [Frame -> Nat]
  <2>1. ASSUME NEW f \in Frame
        PROVE  leaked[f] + MappedTo(m, f, Page \ WalkedIn(m)) \in Nat
    <3>1. leaked[f] \in Nat
      BY DEF MemoryTypes
    <3>2. MappedTo(m, f, Page \ WalkedIn(m)) \in Nat
      BY <1>1
    <3> QED
      BY <3>1, <3>2
  <2>2. leaked' = [f \in Frame |-> leaked[f] + MappedTo(m, f, Page \ WalkedIn(m))]
    BY DEF Unmap
  <2> QED
    BY <2>1, <2>2
<1>3. ASSUME NEW f \in Frame
      PROVE  frame[f] \in FrameType /\ Put(frame[f], MappedTo(m, f, WalkedIn(m))) \in FrameType
  <2>1. frame[f] \in FrameType /\ MappedTo(m, f, WalkedIn(m)) \in Int
    BY <1>1 DEF MemoryTypes
  <2> QED
    BY <2>1, PutType
<1>4. frame' \in [Frame -> FrameType]
  BY <1>3 DEF Unmap
<1>5. blurred' \in [Mem -> SUBSET Page]
  BY DEF Unmap, MemoryTypes
<1> QED
  BY <1>2, <1>4, <1>5

\* What a step does to the memories that are not the actor's, and to the tasks
\* that do not act.
LEMMA OthersSound ==
  ASSUME MemoryShape, NEW u \in User, at'[u] = at[u], mm'[u] = mm[u],
         mm[u] # NoMem => mem'[mm[u]].live = mem[mm[u]].live /\ mem'[mm[u]].pte = mem[mm[u]].pte,
         at[u].old # NoMem => mem'[at[u].old].live
  PROVE  StageSound(u)'
<1>1. StageSound(u)
  BY DEF MemoryShape
<1>2. at[u].op \in {"exec", "page", "copy"} => mm[u] # NoMem
  BY <1>1 DEF StageSound, FaultOps
<1>3. /\ mm'[u] # NoMem => (mem'[mm'[u]].live <=> ~Doing(u, "exiting")')
      /\ at'[u].old # NoMem => Doing(u, "exec")' /\ mem'[at'[u].old].live
  BY <1>1 DEF StageSound, Doing
<1>4. /\ Doing(u, "exec")' => mem'[mm'[u]].pte = Unmapped
      /\ Doing(u, "page")' => ~Present(mm[u], at[u].page)'
      /\ Doing(u, "copy")' => Present(mm[u], at[u].page)'
  BY <1>1, <1>2 DEF StageSound, Doing, Present
<1> QED
  BY <1>1, <1>3, <1>4 DEF StageSound, Doing, Present

\* Whose memories they are.
LEMMA OwnMemories ==
  ASSUME MemoryShape, NEW t \in User, NEW u \in User \ {t}
  PROVE  /\ mm[t] # NoMem => mm[u] # mm[t] /\ at[u].old # mm[t]
         /\ at[t].old # NoMem => mm[u] # at[t].old /\ at[u].old # at[t].old
BY DEF MemoryShape, MemoriesApart

LEMMA UnusedMemory ==
  ASSUME MemoryShape, NEW m \in Mem, Unused(m)
  PROVE  ~mem[m].live /\ mem[m].pte = Unmapped
         /\ \A u \in User : mm[u] # m /\ at[u].old # m
<1>1. ASSUME NEW u \in User  PROVE mm[u] # m /\ at[u].old # m
  <2>1. StageSound(u)
    BY DEF MemoryShape
  <2> QED
    BY <2>1, AddressSpaceAssumption DEF Unused, Task, StageSound
<1> QED
  BY <1>1 DEF Unused, MemoryShape, MemoriesApart

LEMMA ForkShape ==
  ASSUME MemoryShape, NEW t \in User, NEW c \in User, NEW m \in Mem, Fork(t, c, m)
  PROVE  MemoryShape'
<1> DEFINE d == mm[t]
           ps == Entries(d, WalkedIn(d))
           child == ChildOf(d, ps)
           parent == [mem[d] EXCEPT !.pte = ReadOnly(@, ps)]
<1>1. MemoryTypes /\ StageSound(t) /\ MemoriesApart
  BY DEF MemoryShape
<1>2. /\ d # NoMem /\ Doing(t, "user") /\ Doing(c, "unborn") /\ Unused(m)
      /\ frame' = [f \in Frame |-> [frame[f] EXCEPT !.count = @ + MappedTo(d, f, ps)]]
      /\ meant' = [meant EXCEPT ![m] = meant[d]]
      /\ blurred' = [blurred EXCEPT ![m] = blurred[d] \cup (Page \ WalkedIn(d))]
      /\ mm' = [mm EXCEPT ![c] = m] /\ active' = [active EXCEPT ![c] = m]
      /\ at' = [at EXCEPT ![c] = InUser]
      /\ UNCHANGED <<current, cr3, leaked, halted>>
  BY DEF Fork, Runs
<1>3. mem' = [mem EXCEPT ![m] = child, ![d] = parent]
  <2>1. mem' = [mem EXCEPT ![m] = child, ![d].pte = ReadOnly(@, ps)]
    BY DEF Fork, ChildOf
  <2>2. d # m
    BY <1>2 DEF Unused, Task
  <2> HIDE DEF child
  <2> QED
    BY <2>1, <2>2
<1>4. d \in Mem /\ mem[d].live /\ ~mem[m].live /\ d # m /\ t # c
  BY <1>1, <1>2, Inside DEF Unused, StageSound, Doing
<1>5. ps \in SUBSET Page /\ \A p \in ps : mem[d].pte[p] # Absent
  BY <1>4, WalkedPages
<1>6. child \in MemoryType /\ child.live
  <2> HIDE DEF ps
  <2> QED
    BY <1>1, <1>4, <1>5, ChildStep
<1>7. parent \in MemoryType /\ parent.live
  <2> HIDE DEF ps
  <2> QED
    BY <1>1, <1>4, <1>5, ReadOnlyStep
<1> HIDE DEF ps, child, parent
<1>8. /\ mem' \in [Mem -> MemoryType] /\ mem'[m].live /\ mem'[d].live
      /\ \A x \in Mem \ {m, d} : mem'[x] = mem[x]
  BY <1>1, <1>3, <1>4, <1>6, <1>7 DEF MemoryTypes
<1>9. /\ mm' \in [Task -> Mem \cup {NoMem}] /\ active' \in [Task -> Mem \cup {NoMem}]
      /\ at' \in [User -> StageType] /\ mm'[c] = m /\ at'[c] = InUser
      /\ \A u \in Task \ {c} : mm'[u] = mm[u]
      /\ \A u \in User \ {c} : mm'[u] = mm[u] /\ at'[u] = at[u]
  BY <1>1, <1>2, StageFacts DEF MemoryTypes, Task
<1>10. frame' \in [Frame -> FrameType]
  <2>1. ASSUME NEW f \in Frame
        PROVE  [frame[f] EXCEPT !.count = @ + MappedTo(d, f, ps)] \in FrameType
    <3>1. MappedTo(d, f, ps) \in Nat
      BY <1>4, <1>5, MappedToType
    <3> QED
      BY <1>1, <3>1 DEF MemoryTypes, FrameType
  <2> QED
    BY <1>2, <2>1
<1>11. meant' \in [Mem -> [Page -> Data]] /\ blurred' \in [Mem -> SUBSET Page]
  BY <1>1, <1>2, <1>4 DEF MemoryTypes
<1>12. MemoryTypes'
  BY <1>1, <1>2, <1>8, <1>9, <1>10, <1>11 DEF MemoryTypes
<1>13. \A u \in User : mm[u] # m /\ at[u].old # m
  BY <1>2, UnusedMemory
<1>14. at'[c].old = NoMem
  BY <1>9, StageFacts
<1>15. MemoriesApart'
  <2>1. \A x \in Mem : ~mem'[x].live => mem'[x].pte = Unmapped
    BY <1>1, <1>8 DEF MemoriesApart
  <2>2. \A k \in Kernel : mm'[k] = NoMem
    BY <1>1, <1>9, AddressSpaceAssumption DEF MemoriesApart, Task
  <2>3. ASSUME NEW v \in User, NEW u \in User
        PROVE  /\ mm'[v] = mm'[u] => v = u \/ mm'[v] = NoMem
               /\ at'[v].old = at'[u].old => v = u \/ at'[v].old = NoMem
               /\ at'[v].old = mm'[u] => at'[v].old = NoMem
    <3>1. CASE u = c /\ v = c
      BY <1>9, <1>14, <3>1
    <3>2. CASE u # c /\ v = c
      <4>1. mm'[v] = m /\ mm'[u] = mm[u] /\ mm[u] # m /\ at'[v].old = NoMem
        BY <1>9, <1>13, <1>14, <3>2
      <4> QED
        BY <4>1
    <3>3. CASE u = c /\ v # c
      <4>1. /\ mm'[u] = m /\ mm'[v] = mm[v] /\ mm[v] # m
            /\ at'[u].old = NoMem /\ at'[v].old = at[v].old /\ at[v].old # m
        BY <1>9, <1>13, <1>14, <3>3
      <4> QED
        BY <4>1
    <3>4. CASE u # c /\ v # c
      <4>1. mm'[u] = mm[u] /\ mm'[v] = mm[v] /\ at'[u] = at[u] /\ at'[v] = at[v]
        BY <1>9, <3>4
      <4> QED
        BY <1>1, <4>1 DEF MemoriesApart
    <3> QED
      BY <3>1, <3>2, <3>3, <3>4
  <2> QED
    BY <2>1, <2>2, <2>3 DEF MemoriesApart
<1>16. ASSUME NEW u \in User  PROVE StageSound(u)'
  <2>1. CASE u = c
    BY <1>8, <1>9, <2>1, InUserSound
  <2>2. CASE u = t
    <3>2. at'[t] = at[t] /\ mm'[t] = d /\ at[t].op = "user"
      BY <1>2, <1>4, <1>9 DEF Doing
    <3>3. at[t].old = NoMem /\ at[t].frame = NoFrame
      BY <1>1, <3>2 DEF StageSound, Doing, FaultOps
    <3>4. StageSound(t)'
      BY <1>8, <3>2, <3>3 DEF StageSound, Doing, FaultOps
    <3> QED
      BY <2>2, <3>4
  <2>3. CASE u \notin {c, t}
    <3>1. StageSound(u) /\ at[u] \in StageType
      BY <1>1 DEF MemoryShape, MemoryTypes
    <3>2. mm[u] # NoMem => mm[u] \in Mem \ {m, d}
      BY <1>1, <1>4, <1>13, <2>3, Inside DEF MemoriesApart
    <3>3. at[u].old # NoMem => at[u].old \in Mem /\ mem'[at[u].old].live
      <4>1. at[u].old # NoMem => at[u].old \in Mem /\ at[u].old # d
        BY <1>1, <1>4, <3>1 DEF MemoriesApart, StageType
      <4> QED
        BY <1>8, <1>13, <3>1, <4>1 DEF StageSound
    <3> QED
      BY <1>8, <1>9, <2>3, <3>2, <3>3, OthersSound
  <2> QED
    BY <2>1, <2>2, <2>3
<1> QED
  BY <1>12, <1>15, <1>16 DEF MemoryShape

\* A step of execve() or of exit: the task t takes up, leaves or frees memories that
\* are its own or nobody's.
LEMMA OwnerActs ==
  ASSUME MemoryShape, MemoryTypes', NEW t \in User, NEW own \in SUBSET Mem,
         \A u \in Task \ {t} : mm'[u] = mm[u],
         \A u \in User \ {t} : at'[u] = at[u],
         \A u \in User \ {t} : mm[u] \notin own /\ at[u].old \notin own,
         \A m \in Mem \ own : mem'[m].live = mem[m].live /\ mem'[m].pte = mem[m].pte,
         \A m \in own : ~mem'[m].live => mem'[m].pte = Unmapped,
         mm'[t] \in own \cup {NoMem}, at'[t].old \in own \cup {NoMem},
         at'[t].old = mm'[t] => at'[t].old = NoMem,
         StageSound(t)'
  PROVE  MemoryShape'
<1>1. MemoriesApart /\ NoMem \notin own
  BY AddressSpaceAssumption DEF MemoryShape
<1>2. MemoriesApart'
  <2>1. \A m \in Mem : ~mem'[m].live => mem'[m].pte = Unmapped
    BY <1>1 DEF MemoriesApart
  <2>2. \A k \in Kernel : mm'[k] = NoMem
    BY <1>1, AddressSpaceAssumption DEF MemoriesApart, Task
  <2>3. ASSUME NEW u \in User \ {t}
        PROVE  /\ mm'[u] = mm[u] /\ at'[u] = at[u]
               /\ mm'[u] # mm'[t] \/ mm'[t] = NoMem
               /\ at'[u].old # at'[t].old \/ at'[t].old = NoMem
               /\ at'[u].old = mm'[t] => at'[u].old = NoMem
               /\ at'[t].old = mm'[u] => at'[t].old = NoMem
    BY DEF Task
  <2>4. ASSUME NEW v \in User, NEW u \in User
        PROVE  /\ mm'[v] = mm'[u] => v = u \/ mm'[v] = NoMem
               /\ at'[v].old = at'[u].old => v = u \/ at'[v].old = NoMem
               /\ at'[v].old = mm'[u] => at'[v].old = NoMem
    <3>1. CASE u = t /\ v = t
      BY <3>1
    <3>2. CASE u # t /\ v = t
      BY <2>3, <3>2
    <3>3. CASE u = t /\ v # t
      BY <2>3, <3>3
    <3>4. CASE u # t /\ v # t
      <4>1. mm'[u] = mm[u] /\ mm'[v] = mm[v] /\ at'[u] = at[u] /\ at'[v] = at[v]
        BY <2>3, <3>4
      <4> QED
        BY <1>1, <4>1 DEF MemoriesApart
    <3> QED
      BY <3>1, <3>2, <3>3, <3>4
  <2> QED
    BY <2>1, <2>2, <2>4 DEF MemoriesApart
<1>3. ASSUME NEW u \in User \ {t}
      PROVE  StageSound(u)'
  <2>1. StageSound(u) /\ at[u] \in StageType /\ at'[u] = at[u] /\ mm'[u] = mm[u]
    BY DEF MemoryShape, MemoryTypes, Task
  <2>2. mm[u] # NoMem => mm[u] \in Mem \ own
    BY Inside
  <2>3. at[u].old # NoMem => at[u].old \in Mem \ own /\ mem[at[u].old].live
    BY <2>1 DEF StageType, StageSound
  <2> QED
    BY <2>1, <2>2, <2>3, OthersSound
<1> QED
  BY <1>2, <1>3 DEF MemoryShape

LEMMA ExecBeginShape ==
  ASSUME MemoryShape, NEW t \in User, NEW m \in Mem, ExecBegin(t, m)
  PROVE  MemoryShape'
<1> DEFINE new == [NoMemory EXCEPT !.live = TRUE, !.ref = 1]
           stage == [InUser EXCEPT !.op = "exec", !.old = mm[t]]
           own == {m} \cup ({mm[t]} \ {NoMem})
<1>1. MemoryTypes /\ StageSound(t)
  BY DEF MemoryShape
<1>2. /\ Doing(t, "user") /\ Unused(m)
      /\ mem' = [mem EXCEPT ![m] = new] /\ at' = [at EXCEPT ![t] = stage]
      /\ mm' = [mm EXCEPT ![t] = m] /\ active' = [active EXCEPT ![t] = m] /\ cr3' = m
      /\ UNCHANGED <<current, frame, meant, blurred, leaked, halted>>
  BY DEF ExecBegin, Runs
<1>3. new \in MemoryType /\ new.live /\ new.pte = Unmapped
  BY NoMemoryFacts
<1>4. mm[t] \in Mem \cup {NoMem}
  BY <1>1 DEF MemoryTypes, Task
<1>5. stage \in StageType /\ stage.op = "exec" /\ stage.frame = NoFrame /\ stage.old = mm[t]
  BY <1>4, StageFacts DEF StageType
<1> HIDE DEF new, stage
<1>6. /\ mem' \in [Mem -> MemoryType] /\ mem'[m] = new
      /\ \A x \in Mem \ {m} : mem'[x] = mem[x]
  BY <1>1, <1>2, <1>3 DEF MemoryTypes
<1>7. /\ mm' \in [Task -> Mem \cup {NoMem}] /\ active' \in [Task -> Mem \cup {NoMem}]
      /\ at' \in [User -> StageType] /\ mm'[t] = m /\ at'[t] = stage
      /\ \A u \in Task \ {t} : mm'[u] = mm[u]
      /\ \A u \in User \ {t} : at'[u] = at[u]
  BY <1>1, <1>2, <1>5 DEF MemoryTypes, Task
<1>8. MemoryTypes'
  BY <1>1, <1>2, <1>6, <1>7 DEF MemoryTypes
<1>9. mm[t] # m /\ (mm[t] # NoMem => mem[mm[t]].live)
  BY <1>1, <1>2, UnusedMemory DEF StageSound, Doing
<1>10. StageSound(t)'
  <2>1. at'[t].op = "exec" /\ at'[t].frame = NoFrame /\ at'[t].old = mm[t]
        /\ mem'[mm'[t]].live /\ mem'[mm'[t]].pte = Unmapped
    BY <1>3, <1>5, <1>6, <1>7
  <2>2. mm'[t] # NoMem /\ (mm[t] # NoMem => mem'[mm[t]].live)
    BY <1>4, <1>6, <1>7, <1>9, AddressSpaceAssumption
  <2> QED
    BY <2>1, <2>2 DEF StageSound, Doing, FaultOps
<1>11. own \in SUBSET Mem /\ \A u \in User \ {t} : mm[u] \notin own /\ at[u].old \notin own
  BY <1>2, <1>4, UnusedMemory, OwnMemories
<1>12. /\ mm'[t] \in own \cup {NoMem} /\ at'[t].old \in own \cup {NoMem}
       /\ at'[t].old = mm'[t] => at'[t].old = NoMem
  BY <1>5, <1>7, <1>9
<1>13. \A x \in own : ~mem'[x].live => mem'[x].pte = Unmapped
  BY <1>3, <1>4, <1>6, <1>9
<1>14. \A x \in Mem \ own : mem'[x].live = mem[x].live /\ mem'[x].pte = mem[x].pte
  BY <1>6
<1> HIDE DEF own
<1> QED
  BY <1>7, <1>8, <1>10, <1>11, <1>12, <1>13, <1>14, OwnerActs

LEMMA ExecSucceedsShape ==
  ASSUME MemoryShape, NEW t \in User, NEW i \in Image, ExecSucceeds(t, i)
  PROVE  MemoryShape'
<1> DEFINE m == mm[t]  old == at[t].old
           own == {m} \cup ({old} \ {NoMem})
           new == [mem[m] EXCEPT !.vm = Areas(i)]
<1>1. MemoryTypes /\ StageSound(t)
  BY DEF MemoryShape
<1>2. /\ Doing(t, "exec") /\ at' = [at EXCEPT ![t] = InUser]
      /\ mem' = [x \in Mem |-> IF x = m THEN new ELSE IF x = old THEN NoMemory ELSE mem[x]]
      /\ UNCHANGED <<current, cr3, mm, active, halted>>
      /\ IF old = NoMem THEN UNCHANGED <<frame, blurred, leaked>> ELSE Unmap(old)
  BY DEF ExecSucceeds, Runs
<1>3. /\ m \in Mem /\ old \in Mem \cup {NoMem} /\ m # old /\ mem[m].live /\ mem[m].pte = Unmapped
  <2>1. m # NoMem /\ mem[m].live /\ mem[m].pte = Unmapped
    BY <1>1, <1>2 DEF StageSound, Doing, FaultOps
  <2>2. old \in Mem \cup {NoMem}
    BY HeldFrame DEF StageType
  <2>3. old = m => old = NoMem
    BY DEF MemoryShape, MemoriesApart
  <2> QED
    BY <2>1, <2>2, <2>3, Inside
<1>4. new \in MemoryType /\ new.live /\ new.pte = Unmapped
  <2>1. 0 \in Int /\ Areas(i) \in AreaLists /\ mem[m] \in MemoryType
    BY <1>1, <1>3 DEF AreaLists, MemoryTypes
  <2>2. new \in MemoryType
    BY <2>1, MemoryParts
  <2>3. new.live = mem[m].live /\ new.pte = mem[m].pte
    BY <2>1 DEF MemoryType
  <2> QED
    BY <1>3, <2>2, <2>3
<1> HIDE DEF new
<1>5. /\ mem' \in [Mem -> MemoryType] /\ mem'[m] = new
      /\ old # NoMem => mem'[old] = NoMemory
      /\ \A x \in Mem \ {m, old} : mem'[x] = mem[x]
  BY <1>1, <1>2, <1>3, <1>4, NoMemoryFacts DEF MemoryTypes
<1>6. /\ at' \in [User -> StageType] /\ at'[t] = InUser
      /\ \A u \in User \ {t} : at'[u] = at[u]
  BY <1>1, <1>2, ReturnsStep DEF Returns
<1>7. frame' \in [Frame -> FrameType] /\ leaked' \in [Frame -> Nat] /\ blurred' \in [Mem -> SUBSET Page]
  BY <1>1, <1>2, <1>3, UnmapTypes DEF MemoryTypes
<1>8. meant' \in [Mem -> [Page -> Data]]
  <2> DEFINE vm == Areas(i)
             fresh(p) == IF \E a \in ToSet(vm) : a.start <= p /\ p < End(a)
                         THEN Fresh(CHOOSE a \in ToSet(vm) : a.start <= p /\ p < End(a)) ELSE "zero"
  <2>1. meant' = [x \in Mem |-> IF x = m THEN [p \in Page |-> fresh(p)]
                                ELSE IF x = old THEN Nothing ELSE meant[x]]
    BY DEF ExecSucceeds
  <2>2. \A p \in Page : fresh(p) \in Data
    BY DEF Fresh, Data
  <2>3. Nothing \in [Page -> Data]
    BY DEF Nothing, Data
  <2> HIDE DEF fresh
  <2> QED
    BY <1>1, <2>1, <2>2, <2>3 DEF MemoryTypes
<1>9. MemoryTypes'
  BY <1>1, <1>2, <1>5, <1>6, <1>7, <1>8 DEF MemoryTypes
<1>10. StageSound(t)'
  BY <1>2, <1>3, <1>4, <1>5, <1>6, InUserSound
<1>11. own \in SUBSET Mem /\ \A u \in User \ {t} : mm[u] \notin own /\ at[u].old \notin own
  BY <1>3, OwnMemories, AddressSpaceAssumption
<1>12. /\ mm'[t] \in own \cup {NoMem} /\ at'[t].old \in own \cup {NoMem}
       /\ at'[t].old = mm'[t] => at'[t].old = NoMem
  BY <1>2, <1>6, StageFacts
<1>13. \A x \in own : ~mem'[x].live => mem'[x].pte = Unmapped
  BY <1>4, <1>5, NoMemoryFacts
<1>14. \A x \in Mem \ own : mem'[x].live = mem[x].live /\ mem'[x].pte = mem[x].pte
  BY <1>3, <1>5, AddressSpaceAssumption
<1>15. \A u \in Task \ {t} : mm'[u] = mm[u]
  BY <1>2
<1> HIDE DEF own
<1> QED
  BY <1>6, <1>9, <1>10, <1>11, <1>12, <1>13, <1>14, <1>15, OwnerActs

LEMMA ExecFailsShape ==
  ASSUME MemoryShape, NEW t \in User, ExecFails(t)
  PROVE  MemoryShape'
<1> DEFINE m == mm[t]  old == at[t].old
           own == {m} \cup ({old} \ {NoMem})
<1>1. MemoryTypes /\ StageSound(t)
  BY DEF MemoryShape
<1>2. /\ Doing(t, "exec") /\ at' = [at EXCEPT ![t] = InUser]
      /\ mem' = [mem EXCEPT ![m] = NoMemory] /\ mm' = [mm EXCEPT ![t] = old]
      /\ cr3' = IF old = NoMem THEN cr3 ELSE old
      /\ UNCHANGED <<current, active, frame, meant, blurred, leaked, halted>>
  BY DEF ExecFails, Runs
<1>3. /\ m \in Mem /\ old \in Mem \cup {NoMem} /\ m # old /\ (old # NoMem => mem[old].live)
  <2>1. m # NoMem /\ (old # NoMem => mem[old].live)
    BY <1>1, <1>2 DEF StageSound, Doing, FaultOps
  <2>2. old \in Mem \cup {NoMem}
    BY HeldFrame DEF StageType
  <2>3. old = m => old = NoMem
    BY DEF MemoryShape, MemoriesApart
  <2> QED
    BY <2>1, <2>2, <2>3, Inside
<1>4. /\ mem' \in [Mem -> MemoryType] /\ mem'[m] = NoMemory
      /\ \A x \in Mem \ {m} : mem'[x] = mem[x]
  BY <1>1, <1>2, <1>3, NoMemoryFacts DEF MemoryTypes
<1>5. /\ at' \in [User -> StageType] /\ at'[t] = InUser
      /\ \A u \in User \ {t} : at'[u] = at[u]
  BY <1>1, <1>2, ReturnsStep DEF Returns
<1>6. /\ mm' \in [Task -> Mem \cup {NoMem}] /\ mm'[t] = old
      /\ \A u \in Task \ {t} : mm'[u] = mm[u]
  BY <1>1, <1>2, <1>3 DEF MemoryTypes, Task
<1>7. MemoryTypes'
  BY <1>1, <1>2, <1>3, <1>4, <1>5, <1>6 DEF MemoryTypes
<1>8. StageSound(t)'
  BY <1>3, <1>4, <1>5, <1>6, InUserSound
<1>9. own \in SUBSET Mem /\ \A u \in User \ {t} : mm[u] \notin own /\ at[u].old \notin own
  BY <1>3, OwnMemories, AddressSpaceAssumption
<1>10. /\ mm'[t] \in own \cup {NoMem} /\ at'[t].old \in own \cup {NoMem}
       /\ at'[t].old = mm'[t] => at'[t].old = NoMem
  BY <1>5, <1>6, StageFacts
<1>11. \A x \in own : ~mem'[x].live => mem'[x].pte = Unmapped
  BY <1>3, <1>4, NoMemoryFacts
<1>12. \A x \in Mem \ own : mem'[x].live = mem[x].live /\ mem'[x].pte = mem[x].pte
  BY <1>4
<1> HIDE DEF own
<1> QED
  BY <1>5, <1>6, <1>7, <1>8, <1>9, <1>10, <1>11, <1>12, OwnerActs

LEMMA ExitShape ==
  ASSUME MemoryShape, NEW t \in User, ExitMemory(t) \/ ExitDone(t)
  PROVE  MemoryShape'
<1> DEFINE m == mm[t]
<1>1. MemoryTypes /\ StageSound(t) /\ at[t] \in StageType
  BY DEF MemoryShape, MemoryTypes
<1>2. m \in Mem /\ m # NoMem /\ at[t].op \in {"user", "exiting"}
  <2>1. m # NoMem /\ at[t].op \in {"user", "exiting"}
    BY <1>1 DEF ExitMemory, ExitDone, Runs, Doing, StageSound
  <2> QED
    BY <2>1, Inside
<1>3. at[t].frame = NoFrame /\ at[t].old = NoMem
  BY <1>1, <1>2 DEF StageSound, Doing, FaultOps
<1>4. PICK op \in {"exiting", "dead"} : at' = [at EXCEPT ![t].op = op]
                                        /\ (op = "exiting" <=> ExitMemory(t))
                                        /\ (op = "dead" <=> ExitDone(t))
  BY DEF ExitMemory, ExitDone, Runs, Doing
<1>5. /\ at' \in [User -> StageType] /\ at'[t].op = op /\ at'[t].frame = NoFrame /\ at'[t].old = NoMem
      /\ \A u \in User \ {t} : at'[u] = at[u]
  <2>1. [at[t] EXCEPT !.op = op] \in StageType
    BY <1>1 DEF StageType, FaultOps
  <2>2. at' = [at EXCEPT ![t] = [at[t] EXCEPT !.op = op]]
    BY <1>4
  <2>3. /\ [at[t] EXCEPT !.op = op].op = op /\ [at[t] EXCEPT !.op = op].frame = at[t].frame
        /\ [at[t] EXCEPT !.op = op].old = at[t].old
    BY <1>1 DEF StageType
  <2> QED
    BY <1>1, <1>3, <2>1, <2>2, <2>3 DEF MemoryTypes
<1>6. /\ mem' \in [Mem -> MemoryType] /\ \A x \in Mem \ {m} : mem'[x] = mem[x]
      /\ ~mem'[m].live /\ mem'[m].pte = Unmapped
  <2>1. CASE ExitMemory(t)
    <3>1. mem' = [mem EXCEPT ![m] = NoMemory]
      BY <2>1 DEF ExitMemory
    <3> QED
      BY <1>1, <1>2, <3>1, NoMemoryFacts DEF MemoryTypes
  <2>2. CASE ExitDone(t)
    <3>1. mem' = mem /\ Doing(t, "exiting")
      BY <2>2 DEF ExitDone, Runs
    <3>2. ~mem[m].live
      BY <1>1, <1>2, <3>1 DEF StageSound
    <3> QED
      BY <1>1, <1>2, <3>1, <3>2 DEF MemoryTypes, MemoryShape, MemoriesApart
  <2> QED
    BY <2>1, <2>2
<1>7. /\ mm' \in [Task -> Mem \cup {NoMem}] /\ active' \in [Task -> Mem \cup {NoMem}]
      /\ \A u \in Task \ {t} : mm'[u] = mm[u]
      /\ mm'[t] = IF op = "dead" THEN NoMem ELSE m
      /\ UNCHANGED <<current, cr3, halted>>
  BY <1>1, <1>4 DEF ExitMemory, ExitDone, MemoryTypes, Task
<1>8. frame' \in [Frame -> FrameType] /\ leaked' \in [Frame -> Nat] /\ blurred' \in [Mem -> SUBSET Page]
      /\ meant' \in [Mem -> [Page -> Data]]
  <2>1. CASE ExitMemory(t)
    <3>1. Unmap(m) /\ meant' = [meant EXCEPT ![m] = Nothing]
      BY <2>1 DEF ExitMemory
    <3>2. Nothing \in [Page -> Data]
      BY DEF Nothing, Data
    <3> QED
      BY <1>1, <1>2, <3>1, <3>2, UnmapTypes DEF MemoryTypes
  <2>2. CASE ExitDone(t)
    BY <1>1, <2>2 DEF ExitDone, MemoryTypes
  <2> QED
    BY <2>1, <2>2
<1>9. MemoryTypes'
  BY <1>1, <1>5, <1>6, <1>7, <1>8 DEF MemoryTypes
<1>10. StageSound(t)'
  BY <1>2, <1>5, <1>6, <1>7 DEF StageSound, Doing, FaultOps
<1>11. \A u \in User \ {t} : mm[u] \notin {m} /\ at[u].old \notin {m}
  BY <1>2, OwnMemories
<1> QED
  BY <1>2, <1>5, <1>6, <1>7, <1>9, <1>10, <1>11, OwnerActs

\* schedule() changes nothing of a memory but its count.
LEMMA SwitchStep ==
  ASSUME MemoryShape, NEW next \in Task, Switch(next)
  PROVE  /\ mem' \in [Mem -> MemoryType]
         /\ \A m \in Mem : /\ mem'[m].live = mem[m].live /\ mem'[m].pte = mem[m].pte
                           /\ mem'[m].vm = mem[m].vm /\ mem'[m].table = mem[m].table
                           /\ mem'[m].ref =
                                IF m = active[current]
                                THEN mem[m].ref + ((IF mm[next] = NoMem THEN 1 ELSE 0)
                                                   - (IF mm[current] = NoMem THEN 1 ELSE 0))
                                ELSE mem[m].ref
<1> DEFINE a == active[current]
           n == (IF mm[next] = NoMem THEN 1 ELSE 0) - (IF mm[current] = NoMem THEN 1 ELSE 0)
<1>1. mem \in [Mem -> MemoryType] /\ a \in Mem \cup {NoMem} /\ n \in Int
  BY DEF MemoryShape, MemoryTypes
<1>2. mem' = IF a = NoMem THEN mem ELSE [mem EXCEPT ![a] = Add(@, n)]
  BY DEF Switch
<1>3. a \notin Mem => a = NoMem
  BY <1>1
<1> HIDE DEF a, n
<1>4. CASE a \notin Mem
  BY <1>1, <1>2, <1>3, <1>4 DEF a, n
<1>5. CASE a \in Mem
  <2> DEFINE new == [mem[a] EXCEPT !.ref = mem[a].ref + n]
  <2>1. mem[a] \in MemoryType /\ mem[a].ref + n \in Int
    BY <1>1, <1>5, Pte DEF MemoryShape
  <2>2. new \in MemoryType
    BY <2>1, MemoryParts
  <2>3. /\ new.live = mem[a].live /\ new.pte = mem[a].pte /\ new.vm = mem[a].vm
        /\ new.table = mem[a].table /\ new.ref = mem[a].ref + n
    BY <2>1 DEF MemoryType
  <2>4. mem' = [mem EXCEPT ![a] = new]
    BY <1>2, <1>5, AddressSpaceAssumption DEF Add
  <2> HIDE DEF new
  <2>5. mem' \in [Mem -> MemoryType] /\ mem'[a] = new
    BY <1>1, <1>5, <2>2, <2>4
  <2>6. ASSUME NEW m \in Mem
        PROVE  /\ mem'[m].live = mem[m].live /\ mem'[m].pte = mem[m].pte
               /\ mem'[m].vm = mem[m].vm /\ mem'[m].table = mem[m].table
               /\ mem'[m].ref = IF m = a THEN mem[m].ref + n ELSE mem[m].ref
    <3>1. CASE m = a
      BY <2>3, <2>5, <3>1
    <3>2. CASE m # a
      BY <1>1, <2>4, <3>2
    <3> QED
      BY <3>1, <3>2
  <2> QED
    BY <2>5, <2>6 DEF a, n
<1> QED
  BY <1>4, <1>5

LEMMA SwitchShape ==
  ASSUME MemoryShape, NEW next \in Task, Switch(next)
  PROVE  MemoryShape'
<1>1. /\ current' = next /\ UNCHANGED <<mm, at, frame, meant, blurred, leaked>>
      /\ halted' \in BOOLEAN
  BY DEF Switch
<1>2. /\ mem' \in [Mem -> MemoryType]
      /\ \A m \in Mem : mem'[m].live = mem[m].live /\ mem'[m].pte = mem[m].pte
  BY SwitchStep
<1>3. cr3' \in Mem \cup {NoMem} /\ active' \in [Task -> Mem \cup {NoMem}]
  <2>1. /\ current \in Task /\ cr3 \in Mem \cup {NoMem}
        /\ active \in [Task -> Mem \cup {NoMem}] /\ mm \in [Task -> Mem \cup {NoMem}]
    BY DEF MemoryShape, MemoryTypes
  <2> QED
    BY <2>1 DEF Switch
<1>4. MemoryTypes'
  BY <1>1, <1>2, <1>3 DEF MemoryShape, MemoryTypes
<1>5. MemoriesApart'
  BY <1>1, <1>2 DEF MemoryShape, MemoriesApart
<1>6. ASSUME NEW u \in User  PROVE StageSound(u)'
  <2>1. StageSound(u) /\ at[u] \in StageType
    BY DEF MemoryShape, MemoryTypes
  <2>2. mm[u] # NoMem => mm[u] \in Mem
    BY Inside
  <2>3. at[u].old # NoMem => at[u].old \in Mem /\ mem[at[u].old].live
    BY <2>1 DEF StageType, StageSound
  <2> QED
    BY <1>1, <1>2, <2>2, <2>3, OthersSound
<1> QED
  BY <1>4, <1>5, <1>6 DEF MemoryShape

LEMMA UnchangedShape ==
  ASSUME MemoryShape, UNCHANGED memoryVars
  PROVE  MemoryShape'
BY DEF MemoryShape, MemoryTypes, MemoriesApart, StageSound, Doing, Present, memoryVars

LEMMA InitShape ==
  ASSUME MemoryInit
  PROVE  MemoryShape
<1>1. PICK t \in User : /\ current = t
                        /\ at = [u \in User |-> IF u = t THEN InUser ELSE Unborn]
  BY DEF MemoryInit
<1>2. at \in [User -> StageType] /\ \A u \in User : /\ at[u].frame = NoFrame /\ at[u].old = NoMem
                                                  /\ at[u].op \in {"user", "unborn"}
  BY <1>1, StageFacts
<1>3. frame \in [Frame -> FrameType]
  BY DEF MemoryInit, FreeFrame, FrameType, Data
<1>4. mem \in [Mem -> MemoryType] /\ \A m \in Mem : mem[m].pte = Unmapped
  BY NoMemoryFacts DEF MemoryInit
<1>5. MemoryTypes
  BY <1>1, <1>2, <1>3, <1>4 DEF MemoryInit, MemoryTypes, Task, Nothing, Data
<1>6. MemoriesApart
  BY <1>2, <1>4 DEF MemoryInit, MemoriesApart, Task
<1>7. \A u \in User : StageSound(u)
  BY <1>2 DEF MemoryInit, StageSound, Doing, FaultOps, Task
<1> QED
  BY <1>5, <1>6, <1>7 DEF MemoryShape

LEMMA NextShape ==
  ASSUME MemoryShape, [MemoryNext]_memoryVars
  PROVE  MemoryShape'
<1>1. ASSUME NEW t \in User, NEW p \in Page, Write(t, p) \/ CopyOut(t, p) \/ PageFault(t, p)
      PROVE  MemoryShape'
  BY <1>1, StoreShape, FaultBeginsShape
<1>2. ASSUME NEW t \in User, FaultGoesOn(t)  PROVE MemoryShape'
  BY <1>2, FaultGoesOnShape
<1>3. ASSUME NEW t \in User, NEW c \in User, NEW m \in Mem, Fork(t, c, m)  PROVE MemoryShape'
  BY <1>3, ForkShape
<1>4. ASSUME NEW t \in User, NEW n \in 1 .. Pages, NEW q \in Page, ForkFails(t, n, q)
      PROVE  MemoryShape'
  BY <1>4, ForkFailsShape
<1>5. ASSUME NEW t \in User, NEW m \in Mem, ExecBegin(t, m)  PROVE MemoryShape'
  BY <1>5, ExecBeginShape
<1>6. ASSUME NEW t \in User, NEW i \in Image, ExecSucceeds(t, i)  PROVE MemoryShape'
  BY <1>6, ExecSucceedsShape
<1>7. ASSUME NEW t \in User, ExecFails(t) \/ ExitMemory(t) \/ ExitDone(t)  PROVE MemoryShape'
  BY <1>7, ExecFailsShape, ExitShape
<1>8. ASSUME NEW t \in Task, Switch(t)  PROVE MemoryShape'
  BY <1>8, SwitchShape
<1>9. CASE Stays \/ UNCHANGED memoryVars
  BY <1>9, UnchangedShape DEF Stays
<1> QED
  BY <1>1, <1>2, <1>3, <1>4, <1>5, <1>6, <1>7, <1>8, <1>9 DEF MemoryNext

\* The tables, the tasks and their calls are of their types; no two tasks have one
\* memory, nobody has the one that execve() replaces, and no call is in a stage
\* where what it works on has gone.
THEOREM MemoriesStayApart == MemorySpec => []MemoryShape
<1>1. MemoryInit => MemoryShape
  BY InitShape
<1>2. MemoryShape /\ [MemoryNext]_memoryVars => MemoryShape'
  BY NextShape
<1> QED
  BY <1>1, <1>2, PTL DEF MemorySpec

-----------------------------------------------------------------------------
(* Counting the users of a frame.                                          *)

\* The faults that hold a frame.
Holders(f) == {t \in User : at[t].frame = f}

CountExact(f) ==
  frame[f].count = Cardinality(Mappings(f)) + leaked[f] + Cardinality(Holders(f))
                   + (IF frame[f].cache THEN 1 ELSE 0)

WritableAlone(m, p) ==
  mem[m].pte[p].write => /\ Mappings(mem[m].pte[p].frame) = {<<m, p>>}
                         /\ ~frame[mem[m].pte[p].frame].cache

TableExact(m, k) ==
  LET n == Cardinality({p \in Page : TableOf(p) = k /\ Present(m, p)})
  IN mem[m].table[k] = IF n = 0 /\ mem[m].table[k] = 0 THEN 0 ELSE n + 1

\* What was read for a fault nobody else has but the page cache, what was
\* allocated for a copy nobody at all.
FrameHeld(t) ==
  /\ Doing(t, "page") => frame[at[t].frame].count = 2 /\ frame[at[t].frame].cache
  /\ Doing(t, "copy") => frame[at[t].frame].count = 1

FramesInv ==
  /\ \A f \in Frame : CountExact(f)
  /\ \A m \in Mem, p \in Page : WritableAlone(m, p)
  /\ \A m \in Mem, k \in 0 .. Pages \div TableSize : TableExact(m, k)
  /\ \A t \in User : FrameHeld(t)

LEMMA FramesInvImplies == FramesInv => FramesAccounted
BY DEF FramesInv, FramesAccounted, CountExact, WritableAlone, TableExact, Holders

LEMMA Amounts ==
  ASSUME MemoryShape, NEW f \in Frame
  PROVE  /\ IsFiniteSet(Mappings(f)) /\ Cardinality(Mappings(f)) \in Nat
         /\ IsFiniteSet(Holders(f)) /\ Cardinality(Holders(f)) \in Nat
         /\ leaked[f] \in Nat /\ frame[f].count \in Int /\ frame[f].cache \in BOOLEAN
         /\ frame[f] \in FrameType
<1>1. Mappings(f) \in SUBSET (Mem \X Page) /\ Holders(f) \in SUBSET Task
  BY DEF Mappings, Holders, Task
<1>2. leaked[f] \in Nat /\ frame[f] \in FrameType
  BY DEF MemoryShape, MemoryTypes
<1> QED
  BY <1>1, <1>2, PlacesFinite, TasksFinite DEF FrameType

LEMMA EmptyCount ==
  ASSUME NEW S, IsFiniteSet(S)
  PROVE  /\ Cardinality(S) \in Nat /\ (Cardinality(S) = 0 <=> S = {})
         /\ \A x \in S : Cardinality(S) = 1 => S = {x}
<1>1. Cardinality(S) \in Nat /\ (Cardinality(S) = 0 <=> S = {})
  BY FS_EmptySet, FS_CardinalityType
<1>2. Cardinality(S) = 1 => \E x : S = {x}
  BY FS_Singleton
<1> QED
  BY <1>1, <1>2

LEMMA MappingsAre ==
  ASSUME NEW m \in Mem, NEW p \in Page, NEW f
  PROVE  <<m, p>> \in Mappings(f) <=> mem[m].pte[p].frame = f
BY DEF Mappings

\* A free frame has no users.
LEMMA FreeIsUnused ==
  ASSUME MemoryShape, NEW f \in Frame, CountExact(f), frame[f].count = 0
  PROVE  Mappings(f) = {} /\ Holders(f) = {} /\ leaked[f] = 0 /\ ~frame[f].cache
<1>1. Cardinality(Mappings(f)) = 0 /\ Cardinality(Holders(f)) = 0 /\ leaked[f] = 0 /\ ~frame[f].cache
  <2> DEFINE a == Cardinality(Mappings(f))  b == Cardinality(Holders(f))  c == leaked[f]
             d == IF frame[f].cache THEN 1 ELSE 0
  <2>1. a \in Nat /\ b \in Nat /\ c \in Nat /\ d \in Nat
    BY Amounts
  <2>2. 0 = a + c + b + d
    BY DEF CountExact
  <2> HIDE DEF a, b, c, d
  <2>3. a = 0 /\ b = 0 /\ c = 0 /\ d = 0
    BY <2>1, <2>2
  <2> QED
    BY <2>3 DEF a, b, c, d
<1> QED
  BY <1>1, Amounts, EmptyCount

LEMMA FreeFrameUnused ==
  ASSUME MemoryShape, FramesInv, NEW f \in Frame, Free(f)
  PROVE  Mappings(f) = {} /\ Holders(f) = {} /\ leaked[f] = 0 /\ ~frame[f].cache
<1>1. frame[f].count = 0
  BY DEF Free, FreeFrame
<1> QED
  BY <1>1, FreeIsUnused DEF FramesInv

LEMMA HeldAlone ==
  ASSUME MemoryShape, FramesInv, NEW t \in User, at[t].op \in {"page", "copy"}
  PROVE  /\ at[t].frame \in Frame /\ Mappings(at[t].frame) = {}
         /\ Holders(at[t].frame) = {t} /\ leaked[at[t].frame] = 0
         /\ frame[at[t].frame].cache <=> Doing(t, "page")
<1> DEFINE f == at[t].frame
<1>1. f \in Frame
  BY HeldFrame DEF FaultOps
<1>2. t \in Holders(f)
  BY DEF Holders
<1>3. Cardinality(Holders(f)) # 0
  BY <1>1, <1>2, Amounts, EmptyCount
<1>4. CountExact(f) /\ FrameHeld(t)
  BY <1>1 DEF FramesInv
<1>5. /\ Cardinality(Mappings(f)) = 0 /\ Cardinality(Holders(f)) = 1 /\ leaked[f] = 0
      /\ frame[f].cache <=> Doing(t, "page")
  <2>1. CASE Doing(t, "page")
    BY <1>1, <1>3, <1>4, <2>1, Amounts DEF CountExact, FrameHeld
  <2>2. CASE Doing(t, "copy")
    BY <1>1, <1>3, <1>4, <2>2, Amounts DEF CountExact, FrameHeld, Doing
  <2> QED
    BY <2>1, <2>2 DEF Doing
<1> QED
  BY <1>1, <1>2, <1>5, Amounts, EmptyCount

\* The frame that a fault holds has a user.
LEMMA HolderCounts ==
  ASSUME MemoryShape, FramesInv, NEW t \in User, at[t].op \in FaultOps
  PROVE  /\ at[t].frame \in Frame /\ t \in Holders(at[t].frame) /\ ~Free(at[t].frame)
<1>1. at[t].frame \in Frame /\ t \in Holders(at[t].frame)
  BY HeldFrame DEF Holders
<1> QED
  BY <1>1, FreeFrameUnused

-----------------------------------------------------------------------------
(* How a step changes the counts.                                          *)

\* One entry is written.
LEMMA MapCounts ==
  ASSUME MemoryShape, NEW m \in Mem, NEW p \in Page, NEW e \in EntryType,
         EntryWritten(m, p, e), NEW f \in Frame
  PROVE  /\ Mappings(f)' = (Mappings(f) \ {<<m, p>>})
                           \cup (IF e.frame = f THEN {<<m, p>>} ELSE {})
         /\ Cardinality(Mappings(f)') = Cardinality(Mappings(f))
                                        - (IF mem[m].pte[p].frame = f THEN 1 ELSE 0)
                                        + (IF e.frame = f THEN 1 ELSE 0)
<1> DEFINE S == Mappings(f)  x == <<m, p>>
<1>1. /\ \A q \in Page : mem'[m].pte[q] = IF q = p THEN e ELSE mem[m].pte[q]
      /\ \A y \in Mem : y # m => mem'[y] = mem[y]
  <2>1. MemoryTypes
    BY DEF MemoryShape
  <2> QED
    BY <2>1, MapStep
<1>2. \A y \in Mem, q \in Page : mem'[y].pte[q] = IF y = m /\ q = p THEN e ELSE mem[y].pte[q]
  BY <1>1
<1>3. S' = (S \ {x}) \cup (IF e.frame = f THEN {x} ELSE {})
  <2>1. ASSUME NEW z \in Mem \X Page
        PROVE  z \in S' <=> z \in (S \ {x}) \cup (IF e.frame = f THEN {x} ELSE {})
    <3>1. PICK y \in Mem, q \in Page : z = <<y, q>>
      BY <2>1
    <3>2. z = x <=> (y = m /\ q = p)
      BY <3>1
    <3>3. z \in S' <=> mem'[y].pte[q].frame = f
      BY <3>1 DEF Mappings
    <3>4. z \in S <=> mem[y].pte[q].frame = f
      BY <3>1 DEF Mappings
    <3>5. CASE y = m /\ q = p
      BY <1>2, <3>2, <3>3, <3>5
    <3>6. CASE ~(y = m /\ q = p)
      BY <1>2, <3>2, <3>3, <3>4, <3>6
    <3> QED
      BY <3>5, <3>6
  <2>2. S' \subseteq Mem \X Page /\ S \subseteq Mem \X Page /\ x \in Mem \X Page
    BY DEF Mappings
  <2> QED
    BY <2>1, <2>2
<1>4. IsFiniteSet(S) /\ Cardinality(S) \in Nat /\ (x \in S <=> mem[m].pte[p].frame = f)
  BY Amounts, MappingsAre
<1>5. /\ IsFiniteSet(S \ {x})
      /\ Cardinality(S \ {x}) = IF x \in S THEN Cardinality(S) - 1 ELSE Cardinality(S)
  BY <1>4, FS_RemoveElement
<1>6. Cardinality((S \ {x}) \cup {x}) = Cardinality(S \ {x}) + 1
  BY <1>5, FS_AddElement
<1> HIDE DEF S, x
<1>7. CASE e.frame = f
  BY <1>3, <1>4, <1>5, <1>6, <1>7 DEF S, x
<1>8. CASE e.frame # f
  <2>1. S' = S \ {x}
    BY <1>3, <1>8
  <2> QED
    BY <1>3, <1>4, <1>5, <1>8, <2>1 DEF S, x
<1> QED
  BY <1>7, <1>8

\* One task takes hold of a frame, or lets it go.
LEMMA HoldCounts ==
  ASSUME MemoryShape, NEW t \in User, \A u \in User \ {t} : at'[u] = at[u], NEW f \in Frame
  PROVE  Cardinality(Holders(f)') = Cardinality(Holders(f))
                                    - (IF at[t].frame = f THEN 1 ELSE 0)
                                    + (IF at'[t].frame = f THEN 1 ELSE 0)
<1> DEFINE S == Holders(f)
<1>1. S' = (S \ {t}) \cup (IF at'[t].frame = f THEN {t} ELSE {})
  BY DEF Holders
<1>2. IsFiniteSet(S) /\ Cardinality(S) \in Nat /\ (t \in S <=> at[t].frame = f)
  BY Amounts DEF Holders
<1>3. /\ IsFiniteSet(S \ {t})
      /\ Cardinality(S \ {t}) = IF t \in S THEN Cardinality(S) - 1 ELSE Cardinality(S)
  BY <1>2, FS_RemoveElement
<1>4. Cardinality((S \ {t}) \cup {t}) = Cardinality(S \ {t}) + 1
  BY <1>3, FS_AddElement
<1> HIDE DEF S
<1>5. CASE at'[t].frame = f
  BY <1>1, <1>2, <1>3, <1>4, <1>5 DEF S
<1>6. CASE at'[t].frame # f
  <2>1. S' = S \ {t}
    BY <1>1, <1>6
  <2> QED
    BY <1>2, <1>3, <1>6, <2>1 DEF S
<1> QED
  BY <1>5, <1>6

\* The entries of a table are counted, before and after one is written.
LEMMA MapTables ==
  ASSUME MemoryShape, NEW m \in Mem, NEW p \in Page, NEW e \in EntryType \ {Absent},
         EntryWritten(m, p, e), NEW x \in Mem,
         NEW k \in 0 .. Pages \div TableSize, TableExact(x, k)
  PROVE  TableExact(x, k)'
<1> DEFINE S == {q \in Page : TableOf(q) = k /\ Present(x, q)}
           n == Cardinality(S)
           l == mem[x].table[k]
<1>1. /\ \A q \in Page : mem'[m].pte[q] = IF q = p THEN e ELSE mem[m].pte[q]
      /\ mem'[m].table[TableOf(p)] =
              (IF mem[m].table[TableOf(p)] = 0 THEN 1 ELSE mem[m].table[TableOf(p)])
              + (IF mem[m].pte[p] = Absent THEN 1 ELSE 0)
      /\ \A j \in 0 .. Pages \div TableSize :
              j # TableOf(p) => mem'[m].table[j] = mem[m].table[j]
      /\ \A y \in Mem : y # m => mem'[y] = mem[y]
  <2>1. MemoryTypes /\ e \in EntryType
    BY DEF MemoryShape
  <2> QED
    BY <2>1, MapStep
<1>2. l = (IF n = 0 /\ l = 0 THEN 0 ELSE n + 1) /\ l \in Int
  BY Pte DEF TableExact, MemoryShape
<1>3. TableOf(p) \in 0 .. Pages \div TableSize
  BY PageFacts
<1>4. CASE x # m \/ TableOf(p) # k
  <2>1. S' = S /\ mem'[x].table[k] = l
    <3>1. CASE x # m
      BY <1>1, <3>1 DEF Present
    <3>2. CASE x = m /\ TableOf(p) # k
      <4>1. \A q \in Page : TableOf(q) = k => mem'[x].pte[q] = mem[x].pte[q]
        BY <1>1, <3>2
      <4>2. S' = S
        BY <3>2, <4>1 DEF Present
      <4>3. mem'[x].table[k] = l
        BY <1>1, <1>3, <3>2
      <4> QED
        BY <4>2, <4>3
    <3> QED
      BY <1>4, <3>1, <3>2
  <2> QED
    BY <1>2, <2>1 DEF TableExact
<1>5. CASE x = m /\ TableOf(p) = k
  <2>1. S' = S \cup {p} /\ (p \in S <=> mem[m].pte[p] # Absent)
    BY <1>1, <1>5 DEF Present
  <2>2. IsFiniteSet(S) /\ n \in Nat /\ (n = 0 <=> S = {})
    <3>1. S \in SUBSET Page
      OBVIOUS
    <3> HIDE DEF S
    <3> QED
      BY <3>1, PagesFinite, EmptyCount
  <2>3. Cardinality(S \cup {p}) = IF p \in S THEN n ELSE n + 1
    BY <2>2, FS_AddElement
  <2>4. mem'[x].table[k] = (IF l = 0 THEN 1 ELSE l) + (IF p \in S THEN 0 ELSE 1)
    BY <1>1, <1>5, <2>1
  <2> HIDE DEF S
  <2>5. p \in S => n # 0
    BY <2>2
  <2>6. mem'[x].table[k] = Cardinality(S') + 1
    <3>1. Cardinality(S') = IF p \in S THEN n ELSE n + 1
      BY <2>1, <2>3
    <3> HIDE DEF n, l
    <3> QED
      BY <1>2, <2>2, <2>4, <2>5, <3>1
  <2>7. S' \in SUBSET Page
    BY DEF S
  <2>8. Cardinality(S') \in Nat
    BY <2>7, PagesFinite
  <2>9. mem'[x].table[k] # 0
    BY <2>6, <2>8
  <2> QED
    BY <2>6, <2>9 DEF TableExact, S
<1> QED
  BY <1>4, <1>5

\* A frame that is put into an entry is in no other.
LEMMA MapWritable ==
  ASSUME MemoryShape, FramesInv, NEW m \in Mem, NEW p \in Page, NEW e \in EntryType \ {Absent},
         EntryWritten(m, p, e), Mappings(e.frame) \subseteq {<<m, p>>},
         e.write => ~frame'[e.frame].cache,
         \A f \in Frame : f # e.frame /\ frame'[f].cache => frame[f].cache
  PROVE  \A x \in Mem, q \in Page : WritableAlone(x, q)'
<1> SUFFICES ASSUME NEW x \in Mem, NEW q \in Page, mem'[x].pte[q].write,
                    NEW g, g = mem'[x].pte[q].frame
             PROVE  Mappings(g)' = {<<x, q>>} /\ ~frame'[g].cache
  BY DEF WritableAlone, Mappings
<1>1. e \in EntryType /\ e.frame \in Frame
  BY EntryFacts
<1>2. /\ \A y \in Page : mem'[m].pte[y] = IF y = p THEN e ELSE mem[m].pte[y]
      /\ \A y \in Mem : y # m => mem'[y] = mem[y]
  <2>1. MemoryTypes
    BY DEF MemoryShape
  <2> QED
    BY <1>1, <2>1, MapStep
<1>3. \A f \in Frame : Mappings(f)' = (Mappings(f) \ {<<m, p>>})
                                      \cup (IF e.frame = f THEN {<<m, p>>} ELSE {})
  BY <1>1, MapCounts
<1>4. CASE x = m /\ q = p
  <2>1. mem'[x].pte[q] = e /\ g = e.frame
    BY <1>2, <1>4
  <2>2. Mappings(g)' = {<<m, p>>}
    BY <1>1, <1>3, <2>1
  <2> QED
    BY <1>4, <2>1, <2>2
<1>5. CASE ~(x = m /\ q = p)
  <2>1. mem'[x].pte[q] = mem[x].pte[q] /\ g = mem[x].pte[q].frame
    BY <1>2, <1>5
  <2>2. Mappings(g) = {<<x, q>>} /\ ~frame[g].cache
    BY <2>1 DEF FramesInv, WritableAlone
  <2>3. <<x, q>> # <<m, p>>
    BY <1>5
  <2>4. g \in Frame /\ g # e.frame
    <3>1. mem[x].pte[q] \in EntryType /\ mem[x].pte[q].write
      BY <2>1, Pte DEF MemoryShape
    <3>2. g \in Frame
      BY <2>1, <3>1, EntryFacts
    <3> QED
      BY <2>2, <2>3, <3>2
  <2>5. Mappings(g)' = {<<x, q>>}
    BY <1>3, <2>2, <2>3, <2>4
  <2> QED
    BY <2>2, <2>4, <2>5
<1> QED
  BY <1>4, <1>5

\* What a step does to the frames of other tasks' faults: nothing.
SameCount(f) == frame'[f].count = frame[f].count /\ frame'[f].cache = frame[f].cache

LEMMA HeldKept ==
  ASSUME MemoryShape, FramesInv, NEW t \in User, \A u \in User \ {t} : at'[u] = at[u],
         \A f \in Frame : SameCount(f) \/ Mappings(f) # {} \/ t \in Holders(f) \/ Holders(f) = {},
         FrameHeld(t)'
  PROVE  \A u \in User : FrameHeld(u)'
<1> SUFFICES ASSUME NEW u \in User \ {t}  PROVE FrameHeld(u)'
  OBVIOUS
<1>1. at'[u] = at[u] /\ FrameHeld(u)
  BY DEF FramesInv
<1>2. CASE at[u].op \in {"page", "copy"}
  <2> DEFINE f == at[u].frame
  <2>1. f \in Frame /\ Mappings(f) = {} /\ Holders(f) = {u}
    BY <1>2, HeldAlone
  <2>2. SameCount(f)
    BY <2>1
  <2> QED
    BY <1>1, <2>2 DEF SameCount, FrameHeld, Doing
<1>3. CASE at[u].op \notin {"page", "copy"}
  BY <1>1, <1>3 DEF FrameHeld, Doing
<1> QED
  BY <1>2, <1>3

\* The tables of a memory whose entries stay, and of one that is empty.
LEMMA TableKept ==
  ASSUME NEW x \in Mem, NEW k \in 0 .. Pages \div TableSize, TableExact(x, k),
         mem'[x].table[k] = mem[x].table[k],
         \A q \in Page : mem'[x].pte[q] = Absent <=> mem[x].pte[q] = Absent
  PROVE  TableExact(x, k)'
<1>1. {p \in Page : TableOf(p) = k /\ Present(x, p)}' = {p \in Page : TableOf(p) = k /\ Present(x, p)}
  BY DEF Present
<1> QED
  BY <1>1 DEF TableExact

LEMMA EmptyTable ==
  ASSUME NEW x \in Mem, NEW k \in 0 .. Pages \div TableSize,
         mem'[x].pte = Unmapped, mem'[x].table = NoMemory.table
  PROVE  TableExact(x, k)'
<1>1. {p \in Page : TableOf(p) = k /\ Present(x, p)}' = {}
  BY DEF Present, Unmapped
<1>2. mem'[x].table[k] = 0
  BY NoMemoryFacts
<1> QED
  BY <1>1, <1>2, FS_EmptySet DEF TableExact

\* Steps that count nothing.
LEMMA CountsKept ==
  ASSUME MemoryShape, FramesInv,
         \A x \in Mem, q \in Page : /\ mem'[x].pte[q].frame = mem[x].pte[q].frame
                                    /\ mem'[x].pte[q] = Absent <=> mem[x].pte[q] = Absent
                                    /\ mem'[x].pte[q].write => mem[x].pte[q].write,
         \A x \in Mem : \/ mem'[x].table = mem[x].table
                        \/ mem'[x].pte = Unmapped /\ mem'[x].table = NoMemory.table,
         \A f \in Frame : SameCount(f), UNCHANGED leaked,
         \A u \in User : /\ at'[u].frame = at[u].frame
                         /\ at'[u].op \in {"page", "copy"} => at'[u] = at[u]
  PROVE  FramesInv'
<1>1. \A f : Mappings(f)' = Mappings(f) /\ Holders(f)' = Holders(f)
  BY DEF Mappings, Holders
<1>2. ASSUME NEW f \in Frame  PROVE CountExact(f)'
  BY <1>1 DEF FramesInv, CountExact, SameCount
<1>3. ASSUME NEW x \in Mem, NEW q \in Page  PROVE WritableAlone(x, q)'
  <2> SUFFICES ASSUME mem'[x].pte[q].write, NEW g, g = mem'[x].pte[q].frame
               PROVE  Mappings(g)' = {<<x, q>>} /\ ~frame'[g].cache
    BY DEF WritableAlone, Mappings
  <2>1. mem[x].pte[q].write /\ g = mem[x].pte[q].frame
    OBVIOUS
  <2>2. g \in Frame
    <3>1. mem[x].pte[q] \in EntryType
      BY Pte DEF MemoryShape
    <3> QED
      BY <2>1, <3>1, EntryFacts
  <2>3. Mappings(g) = {<<x, q>>} /\ ~frame[g].cache
    BY <2>1 DEF FramesInv, WritableAlone
  <2> QED
    BY <1>1, <2>2, <2>3 DEF SameCount
<1>4. ASSUME NEW x \in Mem, NEW k \in 0 .. Pages \div TableSize  PROVE TableExact(x, k)'
  <2>1. TableExact(x, k)
    BY DEF FramesInv
  <2>2. CASE mem'[x].table = mem[x].table
    BY <2>1, <2>2, TableKept
  <2>3. CASE mem'[x].pte = Unmapped /\ mem'[x].table = NoMemory.table
    BY <2>3, EmptyTable
  <2> QED
    BY <2>2, <2>3
<1>5. ASSUME NEW u \in User  PROVE FrameHeld(u)'
  <2>1. CASE at'[u].op \in {"page", "copy"}
    <3>1. at'[u] = at[u] /\ FrameHeld(u) /\ at[u].frame \in Frame
      BY <2>1, HeldFrame DEF FramesInv, FaultOps
    <3> QED
      BY <3>1 DEF FrameHeld, Doing, SameCount
  <2>2. CASE at'[u].op \notin {"page", "copy"}
    BY <2>2 DEF FrameHeld, Doing
  <2> QED
    BY <2>1, <2>2
<1> QED
  BY <1>2, <1>3, <1>4, <1>5 DEF FramesInv

LEMMA StoreFrames ==
  ASSUME MemoryShape, FramesInv, NEW t \in User, NEW p \in Page, Write(t, p) \/ CopyOut(t, p)
  PROVE  FramesInv'
<1> DEFINE f == Entry(t, p).frame
<1>1. /\ frame' = [frame EXCEPT ![f].data = "written"]
      /\ UNCHANGED <<mem, at, leaked>>
  BY DEF Write, CopyOut, Store
<1>2. frame \in [Frame -> FrameType]
  BY DEF MemoryShape, MemoryTypes
<1>3. \A g \in Frame : SameCount(g)
  BY <1>1, <1>2 DEF SameCount, FrameType
<1> QED
  BY <1>1, <1>3, CountsKept

LEMMA SwitchFrames ==
  ASSUME MemoryShape, FramesInv, NEW next \in Task, Switch(next)
  PROVE  FramesInv'
<1>1. UNCHANGED <<at, frame, leaked>>
  BY DEF Switch
<1>2. \A m \in Mem : mem'[m].pte = mem[m].pte /\ mem'[m].table = mem[m].table
  BY SwitchStep
<1> QED
  BY <1>1, <1>2, CountsKept DEF SameCount

LEMMA UnchangedFrames ==
  ASSUME MemoryShape, FramesInv, UNCHANGED memoryVars
  PROVE  FramesInv'
BY CountsKept DEF SameCount, memoryVars

LEMMA ExecBeginFrames ==
  ASSUME MemoryShape, FramesInv, NEW t \in User, NEW m \in Mem, ExecBegin(t, m)
  PROVE  FramesInv'
<1> DEFINE new == [NoMemory EXCEPT !.live = TRUE, !.ref = 1]
           stage == [InUser EXCEPT !.op = "exec", !.old = mm[t]]
<1>1. /\ Doing(t, "user") /\ Unused(m) /\ UNCHANGED <<frame, leaked>>
      /\ mem' = [mem EXCEPT ![m] = new] /\ at' = [at EXCEPT ![t] = stage]
  BY DEF ExecBegin, Runs
<1>2. /\ mem \in [Mem -> MemoryType] /\ at \in [User -> StageType] /\ mem[m].pte = Unmapped
  BY <1>1, UnusedMemory DEF MemoryShape, MemoryTypes
<1>3. stage.frame = NoFrame /\ stage.op = "exec"
  BY StageFacts DEF StageType
<1>4. at[t].frame = NoFrame
  BY <1>1 DEF MemoryShape, StageSound, Doing, FaultOps
<1>5. new.pte = Unmapped /\ new.table = NoMemory.table
  BY NoMemoryFacts
<1> HIDE DEF new, stage
<1>6. /\ mem'[m].pte = mem[m].pte /\ mem'[m].pte = Unmapped /\ mem'[m].table = NoMemory.table
      /\ \A x \in Mem : x # m => mem'[x] = mem[x]
  BY <1>1, <1>2, <1>5
<1>7. \A u \in User : /\ at'[u].frame = at[u].frame
                      /\ at'[u].op \in {"page", "copy"} => at'[u] = at[u]
  BY <1>1, <1>2, <1>3, <1>4
<1>8. \A x \in Mem : mem'[x].pte = mem[x].pte
  BY <1>6
<1> QED
  BY <1>1, <1>6, <1>7, <1>8, CountsKept DEF SameCount

LEMMA ExecFailsFrames ==
  ASSUME MemoryShape, FramesInv, NEW t \in User, ExecFails(t)
  PROVE  FramesInv'
<1> DEFINE m == mm[t]
<1>1. /\ Doing(t, "exec") /\ at' = [at EXCEPT ![t] = InUser]
      /\ mem' = [mem EXCEPT ![m] = NoMemory] /\ UNCHANGED <<frame, leaked>>
  BY DEF ExecFails, Runs
<1>2. StageSound(t) /\ mem \in [Mem -> MemoryType] /\ at \in [User -> StageType]
  BY DEF MemoryShape, MemoryTypes
<1>3. m \in Mem /\ mem[m].pte = Unmapped /\ at[t].frame = NoFrame
  BY <1>1, <1>2, Inside DEF StageSound, Doing, FaultOps
<1>4. /\ mem'[m].pte = mem[m].pte /\ mem'[m].pte = Unmapped /\ mem'[m].table = NoMemory.table
      /\ \A x \in Mem : x # m => mem'[x] = mem[x]
  BY <1>1, <1>2, <1>3, NoMemoryFacts
<1>5. \A u \in User : /\ at'[u].frame = at[u].frame
                      /\ at'[u].op \in {"page", "copy"} => at'[u] = at[u]
  BY <1>1, <1>2, <1>3, StageFacts
<1>6. \A x \in Mem : mem'[x].pte = mem[x].pte
  BY <1>4
<1> QED
  BY <1>1, <1>4, <1>5, <1>6, CountsKept DEF SameCount

LEMMA ExitDoneFrames ==
  ASSUME MemoryShape, FramesInv, NEW t \in User, ExitDone(t)
  PROVE  FramesInv'
<1>1. UNCHANGED <<mem, frame, leaked>> /\ at' = [at EXCEPT ![t].op = "dead"]
  BY DEF ExitDone
<1>2. at \in [User -> StageType]
  BY DEF MemoryShape, MemoryTypes
<1>3. \A u \in User : /\ at'[u].frame = at[u].frame
                      /\ at'[u].op \in {"page", "copy"} => at'[u] = at[u]
  BY <1>1, <1>2 DEF StageType
<1> QED
  BY <1>1, <1>3, CountsKept DEF SameCount

LEMMA FillZeroFrames ==
  ASSUME MemoryShape, FramesInv, NEW t \in User, NEW p \in Page, NEW f \in Frame, FillZero(t, p, f)
  PROVE  FramesInv'
<1> PICK m \in Mem : m = mm[t]
  BY Inside DEF FillZero, Missing, Reads
<1> PICK e \in EntryType \ {Absent} : e = [frame |-> f, write |-> TRUE]
  BY EntryFacts
<1>1. /\ EntryWritten(m, p, e) /\ ~Present(m, p) /\ Doing(t, "user")
      /\ frame' = [frame EXCEPT ![f] = NewFrame("zero")] /\ UNCHANGED <<at, leaked>>
  BY DEF FillZero, MapsTo, EntryWritten, Missing, Reads, Runs
<1>2. frame \in [Frame -> FrameType] /\ mem[m].pte[p].frame = NoFrame /\ e.frame = f
  BY <1>1, EntryFacts DEF MemoryShape, MemoryTypes, Present
<1>3. Mappings(f) = {} /\ Holders(f) = {} /\ leaked[f] = 0 /\ ~frame[f].cache
  BY FreeFrameUnused DEF FillZero
<1>4. /\ frame'[f].count = 1 /\ ~frame'[f].cache
      /\ \A g \in Frame : g # f => frame'[g] = frame[g]
  BY <1>1, <1>2, NewFrameType DEF Data
<1>5. ASSUME NEW g \in Frame  PROVE CountExact(g)'
  <2>1. /\ Cardinality(Mappings(g)') = Cardinality(Mappings(g)) + (IF f = g THEN 1 ELSE 0)
        /\ Holders(g)' = Holders(g) /\ Cardinality(Mappings(g)) \in Nat
    <3>1. NoFrame # g
      BY AddressSpaceAssumption
    <3>2. Cardinality(Mappings(g)') = Cardinality(Mappings(g))
                                      - (IF mem[m].pte[p].frame = g THEN 1 ELSE 0)
                                      + (IF e.frame = g THEN 1 ELSE 0)
      BY <1>1, MapCounts
    <3>3. Holders(g)' = Holders(g)
      BY <1>1 DEF Holders
    <3>4. Cardinality(Mappings(g)) \in Nat
      BY Amounts
    <3> QED
      BY <1>2, <3>1, <3>2, <3>3, <3>4
  <2>2. CASE g = f
    <3>1. Cardinality(Mappings(g)') = 1 /\ Cardinality(Holders(g)') = 0
      <4>1. Cardinality(Mappings(g)) = 0 /\ Cardinality(Holders(g)) = 0
        BY <1>3, <2>2, FS_EmptySet
      <4> QED
        BY <2>1, <2>2, <4>1
    <3> QED
      BY <1>1, <1>3, <1>4, <2>2, <3>1 DEF CountExact
  <2>3. CASE g # f
    <3>1. Cardinality(Mappings(g)') = Cardinality(Mappings(g)) /\ CountExact(g)
      BY <2>1, <2>3 DEF FramesInv
    <3> QED
      BY <1>1, <1>4, <2>1, <2>3, <3>1 DEF CountExact
  <2> QED
    BY <2>2, <2>3
<1>6. \A x \in Mem, q \in Page : WritableAlone(x, q)'
  BY <1>1, <1>2, <1>3, <1>4, MapWritable
<1>7. \A x \in Mem, k \in 0 .. Pages \div TableSize : TableExact(x, k)'
  BY <1>1, MapTables DEF FramesInv
<1>8. FrameHeld(t)'
  BY <1>1 DEF FrameHeld, Doing
<1>9. \A u \in User : FrameHeld(u)'
  BY <1>1, <1>3, <1>4, <1>8, HeldKept DEF SameCount
<1> QED
  BY <1>5, <1>6, <1>7, <1>9 DEF FramesInv

\* What getPage() and the copy on write allocate is held by the fault.
LEMMA AllocatesFrames ==
  ASSUME MemoryShape, FramesInv, NEW t \in User, NEW p \in Page, NEW f \in Frame,
         GetPage(t, p, f) \/ AllocCopy(t, p, f)
  PROVE  FramesInv'
<1>1. /\ Doing(t, "user") /\ Free(f) /\ UNCHANGED <<mem, leaked>>
  BY DEF GetPage, AllocCopy, Missing, Shared, Writes, Reads, Runs
<1>2. PICK op \in {"page", "copy"} :
        /\ Becomes(t, op, p, f)
        /\ frame' = [frame EXCEPT ![f] = IF op = "page" THEN [count |-> 2, cache |-> TRUE, data |-> "file"]
                                         ELSE NewFrame("zero")]
  BY DEF GetPage, AllocCopy
<1>3. frame \in [Frame -> FrameType] /\ MemoryTypes
  BY DEF MemoryShape, MemoryTypes
<1>4. /\ at'[t].op = op /\ at'[t].frame = f
      /\ \A u \in User \ {t} : at'[u] = at[u]
  BY <1>2, <1>3, BecomesStep DEF FaultOps
<1>5. at[t].frame = NoFrame
  BY <1>1 DEF MemoryShape, StageSound, Doing, FaultOps
<1>6. Mappings(f) = {} /\ Holders(f) = {} /\ leaked[f] = 0
  BY <1>1, FreeFrameUnused
<1>7. /\ op = "page" => frame'[f].count = 2 /\ frame'[f].cache
      /\ op = "copy" => frame'[f].count = 1 /\ ~frame'[f].cache
      /\ \A g \in Frame : g # f => frame'[g] = frame[g]
  <2>1. NewFrame("zero").count = 1 /\ ~NewFrame("zero").cache
    BY NewFrameType DEF Data
  <2>2. \A g \in Frame : g # f => frame'[g] = frame[g]
    BY <1>2, <1>3
  <2>3. frame'[f] = IF op = "page" THEN [count |-> 2, cache |-> TRUE, data |-> "file"]
                    ELSE NewFrame("zero")
    BY <1>2, <1>3
  <2>4. CASE op = "page"
    BY <2>2, <2>3, <2>4
  <2>5. CASE op = "copy"
    BY <2>1, <2>2, <2>3, <2>5
  <2> QED
    BY <2>4, <2>5
<1>8. \A g : Mappings(g)' = Mappings(g)
  BY <1>1 DEF Mappings
<1>9. ASSUME NEW g \in Frame  PROVE CountExact(g)'
  <2>1. Cardinality(Holders(g)') = Cardinality(Holders(g)) + (IF f = g THEN 1 ELSE 0)
        /\ Cardinality(Holders(g)) \in Nat
    <3>1. NoFrame # g
      BY AddressSpaceAssumption
    <3>2. Cardinality(Holders(g)') = Cardinality(Holders(g))
                                     - (IF at[t].frame = g THEN 1 ELSE 0)
                                     + (IF at'[t].frame = g THEN 1 ELSE 0)
      BY <1>4, HoldCounts
    <3> QED
      BY <1>4, <1>5, <3>1, <3>2, Amounts
  <2>2. CASE g = f
    <3>1. Cardinality(Mappings(g)') = 0 /\ Cardinality(Holders(g)') = 1
      BY <1>6, <1>8, <2>1, <2>2, FS_EmptySet
    <3>2. leaked'[g] = 0
      BY <1>1, <1>6, <2>2
    <3>3. CASE op = "page"
      BY <1>7, <2>2, <3>1, <3>2, <3>3 DEF CountExact
    <3>4. CASE op = "copy"
      BY <1>7, <2>2, <3>1, <3>2, <3>4 DEF CountExact
    <3> QED
      BY <3>3, <3>4
  <2>3. CASE g # f
    <3>1. Cardinality(Holders(g)') = Cardinality(Holders(g)) /\ CountExact(g)
      BY <2>1, <2>3 DEF FramesInv
    <3> QED
      BY <1>1, <1>7, <1>8, <2>3, <3>1 DEF CountExact
  <2> QED
    BY <2>2, <2>3
<1>10. ASSUME NEW x \in Mem, NEW q \in Page  PROVE WritableAlone(x, q)'
  <2> SUFFICES ASSUME mem[x].pte[q].write, NEW g, g = mem[x].pte[q].frame
               PROVE  Mappings(g) = {<<x, q>>} /\ ~frame'[g].cache
    BY <1>1, <1>8 DEF WritableAlone, Mappings
  <2>1. Mappings(g) = {<<x, q>>} /\ ~frame[g].cache /\ g \in Frame
    <3>1. mem[x].pte[q] \in EntryType
      BY Pte DEF MemoryShape
    <3> QED
      BY <3>1, EntryFacts DEF FramesInv, WritableAlone
  <2>2. g # f
    BY <1>6, <2>1
  <2> QED
    BY <1>7, <2>1, <2>2
<1>11. \A x \in Mem, k \in 0 .. Pages \div TableSize : TableExact(x, k)'
  BY <1>1 DEF FramesInv, TableExact, Present
<1>12. FrameHeld(t)'
  BY <1>4, <1>7 DEF FrameHeld, Doing
<1>13. \A u \in User : FrameHeld(u)'
  BY <1>4, <1>6, <1>7, <1>12, HeldKept DEF SameCount
<1> QED
  BY <1>9, <1>10, <1>11, <1>13 DEF FramesInv

\* A frame with the count 1 that is in an entry is in no other.
LEMMA TakeBackFrames ==
  ASSUME MemoryShape, FramesInv, NEW t \in User, NEW p \in Page, TakeBack(t, p)
  PROVE  FramesInv'
<1> PICK m \in Mem : m = mm[t]
  BY Inside DEF TakeBack, Shared, Writes, Reads
<1>1. Present(m, p) /\ Doing(t, "user") /\ UNCHANGED <<at, frame, leaked>>
  BY DEF TakeBack, Shared, Writes, Reads, Runs
<1> PICK f \in Frame : f = mem[m].pte[p].frame
  BY <1>1, FrameOf
<1> PICK e \in EntryType \ {Absent} : e = [frame |-> f, write |-> TRUE]
  BY EntryFacts
<1>2. EntryWritten(m, p, e) /\ frame[f].count = 1 /\ e.frame = f
  BY DEF TakeBack, MapsTo, EntryWritten, Entry
<1>3. Mappings(f) = {<<m, p>>} /\ ~frame[f].cache
  <2> DEFINE a == Cardinality(Mappings(f))  b == Cardinality(Holders(f))  c == leaked[f]
             d == IF frame[f].cache THEN 1 ELSE 0
  <2>1. a \in Nat /\ b \in Nat /\ c \in Nat /\ d \in Nat
    BY Amounts
  <2>2. 1 = a + c + b + d
    BY <1>2 DEF FramesInv, CountExact
  <2>3. <<m, p>> \in Mappings(f)
    BY MappingsAre
  <2>4. a # 0
    BY <2>3, Amounts, EmptyCount
  <2> HIDE DEF a, b, c, d
  <2>5. a = 1 /\ d = 0
    BY <2>1, <2>2, <2>4
  <2>6. ~frame[f].cache
    BY <2>5 DEF d
  <2> QED
    BY <2>3, <2>5, <2>6, Amounts, EmptyCount DEF a
<1>4. ASSUME NEW g \in Frame  PROVE CountExact(g)'
  <2>1. Cardinality(Mappings(g)') = Cardinality(Mappings(g))
                                    - (IF mem[m].pte[p].frame = g THEN 1 ELSE 0)
                                    + (IF e.frame = g THEN 1 ELSE 0)
    BY <1>2, MapCounts
  <2>2. Cardinality(Mappings(g)') = Cardinality(Mappings(g)) /\ Holders(g)' = Holders(g)
    <3>1. Holders(g)' = Holders(g)
      BY <1>1 DEF Holders
    <3>2. Cardinality(Mappings(g)) \in Nat /\ (mem[m].pte[p].frame = g <=> e.frame = g)
      BY <1>2, Amounts
    <3> QED
      BY <2>1, <3>1, <3>2
  <2> QED
    BY <1>1, <2>2 DEF FramesInv, CountExact
<1>5. \A x \in Mem, q \in Page : WritableAlone(x, q)'
  BY <1>1, <1>2, <1>3, MapWritable
<1>6. \A x \in Mem, k \in 0 .. Pages \div TableSize : TableExact(x, k)'
  BY <1>2, MapTables DEF FramesInv
<1>7. \A u \in User : FrameHeld(u)'
  BY <1>1 DEF FramesInv, FrameHeld, Doing
<1> QED
  BY <1>4, <1>5, <1>6, <1>7 DEF FramesInv

\* freePages() keeps the count exact, and what is in the page as long as it has
\* users.
LEMMA PutExact ==
  ASSUME NEW fr \in FrameType, NEW n \in Int, NEW s \in Nat,
         fr.count - n = s + (IF fr.cache THEN 1 ELSE 0)
  PROVE  /\ Put(fr, n).count = s + (IF Put(fr, n).cache THEN 1 ELSE 0)
         /\ Put(fr, n).cache => fr.cache
         /\ s # 0 => Put(fr, n).data = fr.data
<1>1. fr.count \in Int /\ fr.cache \in BOOLEAN
  BY DEF FrameType
<1>2. CASE s = 0
  <2>1. Put(fr, n) = FreeFrame
    BY <1>1, <1>2 DEF Put
  <2> QED
    BY <1>2, <2>1 DEF FreeFrame
<1>3. CASE s # 0
  <2>1. Put(fr, n) = [fr EXCEPT !.count = fr.count - n]
    BY <1>1, <1>3 DEF Put
  <2>2. /\ Put(fr, n).count = fr.count - n /\ Put(fr, n).cache = fr.cache
        /\ Put(fr, n).data = fr.data
    BY <2>1 DEF FrameType
  <2> QED
    BY <1>3, <2>2
<1> QED
  BY <1>2, <1>3

LEMMA MapPageFrames ==
  ASSUME MemoryShape, FramesInv, NEW t \in User, MapPage(t)
  PROVE  FramesInv'
<1>1. Doing(t, "page") /\ UNCHANGED <<frame, leaked>>
  BY DEF MapPage, Runs
<1> PICK m \in Mem, f \in Frame, p \in Page : m = mm[t] /\ f = at[t].frame /\ p = at[t].page
  BY <1>1, HeldFrame DEF Doing, FaultOps
<1> PICK e \in EntryType \ {Absent} : e = [frame |-> f, write |-> FALSE]
  BY EntryFacts
<1>2. EntryWritten(m, p, e) /\ Returns(t) /\ e.frame = f /\ ~e.write
  BY DEF MapPage, MapsTo, EntryWritten
<1>3. mem[m].pte[p].frame = NoFrame
  BY <1>1, EntryFacts DEF MemoryShape, StageSound, Present
<1>4. at'[t] = InUser /\ \A u \in User \ {t} : at'[u] = at[u]
  BY <1>2, ReturnsStep DEF MemoryShape
<1>5. Mappings(f) = {} /\ Holders(f) = {t}
  BY <1>1, HeldAlone DEF Doing
<1>6. ASSUME NEW g \in Frame  PROVE CountExact(g)'
  <2>1. NoFrame # g
    BY AddressSpaceAssumption
  <2>2. Cardinality(Mappings(g)') = Cardinality(Mappings(g))
                                    - (IF mem[m].pte[p].frame = g THEN 1 ELSE 0)
                                    + (IF e.frame = g THEN 1 ELSE 0)
    BY <1>2, MapCounts
  <2>3. Cardinality(Holders(g)') = Cardinality(Holders(g))
                                   - (IF at[t].frame = g THEN 1 ELSE 0)
                                   + (IF at'[t].frame = g THEN 1 ELSE 0)
    BY <1>4, HoldCounts
  <2> DEFINE a == Cardinality(Mappings(g))  b == Cardinality(Holders(g))
             c == IF f = g THEN 1 ELSE 0
  <2>4. a \in Nat /\ b \in Nat /\ leaked[g] \in Nat
    BY Amounts
  <2>5. Cardinality(Mappings(g)') = a + c
    BY <1>2, <1>3, <2>1, <2>2, <2>4
  <2>6. Cardinality(Holders(g)') = b - c
    BY <1>4, <2>1, <2>3, <2>4, StageFacts
  <2>7. frame[g].count = a + leaked[g] + b + (IF frame[g].cache THEN 1 ELSE 0)
    BY DEF FramesInv, CountExact
  <2>8. Cardinality(Mappings(g)') + leaked[g] + Cardinality(Holders(g)') = a + leaked[g] + b
    BY <2>4, <2>5, <2>6
  <2> QED
    BY <1>1, <2>7, <2>8 DEF CountExact
<1>7. \A x \in Mem, q \in Page : WritableAlone(x, q)'
  BY <1>1, <1>2, <1>5, MapWritable
<1>8. \A x \in Mem, k \in 0 .. Pages \div TableSize : TableExact(x, k)'
  BY <1>2, MapTables DEF FramesInv
<1>9. FrameHeld(t)'
  BY <1>4, StageFacts DEF FrameHeld, Doing
<1>10. \A u \in User : FrameHeld(u)'
  BY <1>1, <1>4, <1>9, HeldKept DEF SameCount
<1> QED
  BY <1>6, <1>7, <1>8, <1>10 DEF FramesInv

LEMMA CopyPageFrames ==
  ASSUME MemoryShape, FramesInv, NEW t \in User, NEW f \in Frame, CopyPage(t, f)
  PROVE  FramesInv'
<1>1. Doing(t, "page") /\ UNCHANGED leaked /\ Free(f)
  BY DEF CopyPage, Runs
<1> PICK m \in Mem, h \in Frame, p \in Page : m = mm[t] /\ h = at[t].frame /\ p = at[t].page
  BY <1>1, HeldFrame DEF Doing, FaultOps
<1> PICK e \in EntryType \ {Absent} : e = [frame |-> f, write |-> TRUE]
  BY EntryFacts
<1>2. /\ EntryWritten(m, p, e) /\ Returns(t) /\ e.frame = f
      /\ frame' = [frame EXCEPT ![f] = NewFrame("file"), ![h] = Put(frame[h], 1)]
  BY DEF CopyPage, MapsTo, EntryWritten
<1>3. mem[m].pte[p].frame = NoFrame
  BY <1>1, EntryFacts DEF MemoryShape, StageSound, Present
<1>4. at'[t] = InUser /\ \A u \in User \ {t} : at'[u] = at[u]
  BY <1>2, ReturnsStep DEF MemoryShape
<1>5. Mappings(h) = {} /\ Holders(h) = {t} /\ leaked[h] = 0
  BY <1>1, HeldAlone DEF Doing
<1>6. Mappings(f) = {} /\ Holders(f) = {} /\ leaked[f] = 0 /\ f # h
  BY <1>1, <1>5, FreeFrameUnused
<1>7. frame[h] \in FrameType /\ frame[h].count = 2 /\ frame[h].cache
  BY <1>1, Amounts DEF FramesInv, FrameHeld
<1>8. /\ frame'[f].count = 1 /\ ~frame'[f].cache
      /\ frame'[h].count = 0 /\ ~frame'[h].cache
      /\ \A g \in Frame \ {f, h} : frame'[g] = frame[g]
  <2>1. Put(frame[h], 1) = FreeFrame
    BY <1>7 DEF Put
  <2>2. /\ NewFrame("file").count = 1 /\ ~NewFrame("file").cache
        /\ FreeFrame.count = 0 /\ ~FreeFrame.cache
    BY NewFrameType DEF Data, FreeFrame
  <2>3. frame \in [Frame -> FrameType]
    BY DEF MemoryShape, MemoryTypes
  <2> QED
    BY <1>2, <1>6, <2>1, <2>2, <2>3
<1>9. ASSUME NEW g \in Frame  PROVE CountExact(g)'
  <2>1. NoFrame # g
    BY AddressSpaceAssumption
  <2>2. Cardinality(Mappings(g)') = Cardinality(Mappings(g))
                                    - (IF mem[m].pte[p].frame = g THEN 1 ELSE 0)
                                    + (IF e.frame = g THEN 1 ELSE 0)
    BY <1>2, MapCounts
  <2>3. Cardinality(Holders(g)') = Cardinality(Holders(g))
                                   - (IF at[t].frame = g THEN 1 ELSE 0)
                                   + (IF at'[t].frame = g THEN 1 ELSE 0)
    BY <1>4, HoldCounts
  <2>4. Cardinality(Mappings(g)) \in Nat /\ Cardinality(Holders(g)) \in Nat /\ leaked[g] \in Nat
    BY Amounts
  <2>5. Cardinality(Mappings(g)') = Cardinality(Mappings(g)) + (IF f = g THEN 1 ELSE 0)
    BY <1>2, <1>3, <2>1, <2>2, <2>4
  <2>6. Cardinality(Holders(g)') = Cardinality(Holders(g)) - (IF h = g THEN 1 ELSE 0)
    BY <1>4, <2>1, <2>3, <2>4, StageFacts
  <2>7. CASE g = f
    <3>1. Cardinality(Mappings(g)) = 0 /\ Cardinality(Holders(g)) = 0 /\ leaked'[g] = 0
      BY <1>1, <1>6, <2>7, FS_EmptySet
    <3>2. Cardinality(Mappings(g)') = 1 /\ Cardinality(Holders(g)') = 0
      BY <1>6, <2>5, <2>6, <2>7, <3>1
    <3> QED
      BY <1>8, <2>7, <3>1, <3>2 DEF CountExact
  <2>8. CASE g = h
    <3>1. Cardinality(Mappings(g)) = 0 /\ Cardinality(Holders(g)) = 1 /\ leaked'[g] = 0
      BY <1>1, <1>5, <2>8, FS_EmptySet, FS_Singleton
    <3>2. Cardinality(Mappings(g)') = 0 /\ Cardinality(Holders(g)') = 0
      BY <1>6, <2>5, <2>6, <2>8, <3>1
    <3> QED
      BY <1>8, <2>8, <3>1, <3>2 DEF CountExact
  <2>9. CASE g \notin {f, h}
    <3>1. Cardinality(Mappings(g)') = Cardinality(Mappings(g))
          /\ Cardinality(Holders(g)') = Cardinality(Holders(g))
      BY <2>4, <2>5, <2>6, <2>9
    <3> QED
      BY <1>1, <1>8, <2>9, <3>1 DEF FramesInv, CountExact
  <2> QED
    BY <2>7, <2>8, <2>9
<1>10. \A g \in Frame : g # e.frame /\ frame'[g].cache => frame[g].cache
  BY <1>2, <1>8
<1>11. \A x \in Mem, q \in Page : WritableAlone(x, q)'
  BY <1>2, <1>6, <1>8, <1>10, MapWritable
<1>12. \A x \in Mem, k \in 0 .. Pages \div TableSize : TableExact(x, k)'
  BY <1>2, MapTables DEF FramesInv
<1>13. FrameHeld(t)'
  BY <1>4, StageFacts DEF FrameHeld, Doing
<1>14. \A g \in Frame : SameCount(g) \/ Mappings(g) # {} \/ t \in Holders(g) \/ Holders(g) = {}
  BY <1>5, <1>6, <1>8 DEF SameCount
<1>15. \A u \in User : FrameHeld(u)'
  BY <1>4, <1>13, <1>14, HeldKept
<1> QED
  BY <1>9, <1>11, <1>12, <1>15 DEF FramesInv

\* The page stays referenced, though no fault holds it any more.
LEMMA CopyPageFailsFrames ==
  ASSUME MemoryShape, FramesInv, NEW t \in User, CopyPageFails(t)
  PROVE  FramesInv'
<1>1. Doing(t, "page") /\ UNCHANGED <<mem, frame>> /\ Returns(t)
  BY DEF CopyPageFails, Runs
<1> PICK g \in Frame : g = at[t].frame
  BY <1>1, HeldFrame DEF Doing, FaultOps
<1>2. leaked' = [leaked EXCEPT ![g] = @ + 1] /\ leaked \in [Frame -> Nat]
  BY DEF CopyPageFails, MemoryShape, MemoryTypes
<1>3. at'[t] = InUser /\ \A u \in User \ {t} : at'[u] = at[u]
  BY <1>1, ReturnsStep DEF MemoryShape
<1>4. \A f : Mappings(f)' = Mappings(f)
  BY <1>1 DEF Mappings
<1>5. ASSUME NEW f \in Frame  PROVE CountExact(f)'
  <2>1. Cardinality(Holders(f)') = Cardinality(Holders(f))
                                   - (IF at[t].frame = f THEN 1 ELSE 0)
                                   + (IF at'[t].frame = f THEN 1 ELSE 0)
    BY <1>3, HoldCounts
  <2>2. NoFrame # f
    BY AddressSpaceAssumption
  <2> DEFINE a == Cardinality(Mappings(f))  b == Cardinality(Holders(f))
             c == IF g = f THEN 1 ELSE 0
  <2>3. a \in Nat /\ b \in Nat /\ leaked[f] \in Nat
    BY Amounts
  <2>4. Cardinality(Holders(f)') = b - c
    BY <1>3, <2>1, <2>2, <2>3, StageFacts
  <2>5. leaked'[f] = leaked[f] + c
    BY <1>2, <2>3
  <2>6. frame[f].count = a + leaked[f] + b + (IF frame[f].cache THEN 1 ELSE 0)
    BY DEF FramesInv, CountExact
  <2>7. a + leaked'[f] + Cardinality(Holders(f)') = a + leaked[f] + b
    BY <2>3, <2>4, <2>5
  <2> QED
    BY <1>1, <1>4, <2>6, <2>7 DEF CountExact
<1>6. \A x \in Mem, q \in Page : WritableAlone(x, q)'
  BY <1>1, <1>4 DEF FramesInv, WritableAlone
<1>7. \A x \in Mem, k \in 0 .. Pages \div TableSize : TableExact(x, k)'
  BY <1>1 DEF FramesInv, TableExact, Present
<1>8. FrameHeld(t)'
  BY <1>3, StageFacts DEF FrameHeld, Doing
<1>9. \A u \in User : FrameHeld(u)'
  BY <1>1, <1>3, <1>8, HeldKept DEF SameCount
<1> QED
  BY <1>5, <1>6, <1>7, <1>9 DEF FramesInv

\* The fault gives the entry its copy and takes the old frame over.
LEMMA MapCopyFrames ==
  ASSUME MemoryShape, FramesInv, NEW t \in User, MapCopy(t)
  PROVE  FramesInv'
<1>1. Doing(t, "copy") /\ UNCHANGED leaked
  BY DEF MapCopy, Runs
<1> PICK m \in Mem, g \in Frame, p \in Page : m = mm[t] /\ g = at[t].frame /\ p = at[t].page
  BY <1>1, HeldFrame DEF Doing, FaultOps
<1> PICK h \in Frame : h = mem[m].pte[p].frame
  BY <1>1, FrameOf DEF MemoryShape, StageSound
<1> PICK e \in EntryType \ {Absent} : e = [frame |-> g, write |-> TRUE]
  BY EntryFacts
<1>2. EntryWritten(m, p, e) /\ Becomes(t, "drop", p, h) /\ e.frame = g
  BY DEF MapCopy, MapsTo, EntryWritten, Entry
<1>3. \A f \in Frame : SameCount(f)
  <2>1. frame' = [frame EXCEPT ![g] = [frame[g] EXCEPT !.data = frame[h].data]]
    BY DEF MapCopy, Entry
  <2>2. frame \in [Frame -> FrameType]
    BY DEF MemoryShape, MemoryTypes
  <2> QED
    BY <2>1, <2>2 DEF SameCount, FrameType
<1>4. /\ at'[t].op = "drop" /\ at'[t].frame = h
      /\ \A u \in User \ {t} : at'[u] = at[u]
  BY <1>2, BecomesStep DEF MemoryShape, FaultOps
<1>5. Mappings(g) = {} /\ Holders(g) = {t} /\ ~frame[g].cache
  BY <1>1, HeldAlone DEF Doing
<1>6. ASSUME NEW f \in Frame  PROVE CountExact(f)'
  <2>1. Cardinality(Mappings(f)') = Cardinality(Mappings(f))
                                    - (IF mem[m].pte[p].frame = f THEN 1 ELSE 0)
                                    + (IF e.frame = f THEN 1 ELSE 0)
    BY <1>2, MapCounts
  <2>2. Cardinality(Holders(f)') = Cardinality(Holders(f))
                                   - (IF at[t].frame = f THEN 1 ELSE 0)
                                   + (IF at'[t].frame = f THEN 1 ELSE 0)
    BY <1>4, HoldCounts
  <2> DEFINE a == Cardinality(Mappings(f))  b == Cardinality(Holders(f))
             c == IF g = f THEN 1 ELSE 0  d == IF h = f THEN 1 ELSE 0
  <2>3. a \in Nat /\ b \in Nat /\ leaked[f] \in Nat
    BY Amounts
  <2>4. Cardinality(Mappings(f)') = a - d + c /\ Cardinality(Holders(f)') = b - c + d
    BY <1>2, <1>4, <2>1, <2>2
  <2>5. frame[f].count = a + leaked[f] + b + (IF frame[f].cache THEN 1 ELSE 0)
    BY DEF FramesInv, CountExact
  <2>6. Cardinality(Mappings(f)') + leaked[f] + Cardinality(Holders(f)') = a + leaked[f] + b
    <3>1. c \in Nat /\ d \in Nat
      OBVIOUS
    <3> HIDE DEF a, b, c, d
    <3> QED
      BY <2>3, <2>4, <3>1
  <2> QED
    BY <1>1, <1>3, <2>5, <2>6 DEF CountExact, SameCount
<1>7. \A x \in Mem, q \in Page : WritableAlone(x, q)'
  <2>1. \A f \in Frame : f # e.frame /\ frame'[f].cache => frame[f].cache
    BY <1>3 DEF SameCount
  <2> QED
    BY <1>2, <1>3, <1>5, <2>1, MapWritable DEF SameCount
<1>8. \A x \in Mem, k \in 0 .. Pages \div TableSize : TableExact(x, k)'
  BY <1>2, MapTables DEF FramesInv
<1>9. FrameHeld(t)'
  BY <1>4 DEF FrameHeld, Doing
<1>10. \A u \in User : FrameHeld(u)'
  BY <1>3, <1>4, <1>9, HeldKept
<1> QED
  BY <1>6, <1>7, <1>8, <1>10 DEF FramesInv

LEMMA DropOldFrames ==
  ASSUME MemoryShape, FramesInv, NEW t \in User, DropOld(t)
  PROVE  FramesInv'
<1>1. Doing(t, "drop") /\ UNCHANGED <<mem, leaked>> /\ Returns(t)
  BY DEF DropOld, Runs
<1> PICK g \in Frame : g = at[t].frame
  BY <1>1, HeldFrame DEF Doing, FaultOps
<1>2. frame \in [Frame -> FrameType] /\ frame' = [frame EXCEPT ![g] = Put(frame[g], 1)]
  BY DEF DropOld, MemoryShape, MemoryTypes
<1>3. at'[t] = InUser /\ \A u \in User \ {t} : at'[u] = at[u]
  BY <1>1, ReturnsStep DEF MemoryShape
<1>4. \A f : Mappings(f)' = Mappings(f)
  BY <1>1 DEF Mappings
<1>5. t \in Holders(g)
  BY DEF Holders
<1> DEFINE s == Cardinality(Mappings(g)) + leaked[g] + Cardinality(Holders(g)) - 1
<1>6. s \in Nat /\ frame[g].count - 1 = s + (IF frame[g].cache THEN 1 ELSE 0)
  <2>1. CountExact(g) /\ Cardinality(Holders(g)) # 0
    BY <1>5, Amounts, EmptyCount DEF FramesInv
  <2>2. Cardinality(Mappings(g)) \in Nat /\ leaked[g] \in Nat /\ Cardinality(Holders(g)) \in Nat
    BY Amounts
  <2> QED
    BY <2>1, <2>2 DEF CountExact
<1>7. /\ frame'[g].count = s + (IF frame'[g].cache THEN 1 ELSE 0)
      /\ frame'[g].cache => frame[g].cache
      /\ \A f \in Frame \ {g} : frame'[f] = frame[f]
  <2> HIDE DEF s
  <2>1. frame[g] \in FrameType /\ 1 \in Int
    BY <1>2
  <2>2. /\ Put(frame[g], 1).count = s + (IF Put(frame[g], 1).cache THEN 1 ELSE 0)
        /\ Put(frame[g], 1).cache => frame[g].cache
    BY <1>6, <2>1, PutExact
  <2> QED
    BY <1>2, <2>2
<1>8. ASSUME NEW f \in Frame  PROVE CountExact(f)'
  <2>1. Cardinality(Holders(f)') = Cardinality(Holders(f)) - (IF g = f THEN 1 ELSE 0)
    <3>1. NoFrame # f /\ Cardinality(Holders(f)) \in Nat
      BY AddressSpaceAssumption, Amounts
    <3>2. Cardinality(Holders(f)') = Cardinality(Holders(f))
                                     - (IF at[t].frame = f THEN 1 ELSE 0)
                                     + (IF at'[t].frame = f THEN 1 ELSE 0)
      BY <1>3, HoldCounts
    <3> QED
      BY <1>3, <3>1, <3>2, StageFacts
  <2>2. Cardinality(Holders(f)) \in Nat /\ Cardinality(Mappings(f)) \in Nat /\ leaked[f] \in Nat
    BY Amounts
  <2>3. CASE f = g
    <3>1. Cardinality(Mappings(g)') + leaked'[g] + Cardinality(Holders(g)') = s
      BY <1>1, <1>4, <2>1, <2>2, <2>3
    <3> HIDE DEF s
    <3> QED
      BY <1>7, <2>3, <3>1 DEF CountExact
  <2>4. CASE f # g
    BY <1>1, <1>4, <1>7, <2>1, <2>2, <2>4 DEF FramesInv, CountExact
  <2> QED
    BY <2>3, <2>4
<1>9. ASSUME NEW x \in Mem, NEW q \in Page  PROVE WritableAlone(x, q)'
  <2> SUFFICES ASSUME mem[x].pte[q].write, NEW f, f = mem[x].pte[q].frame
               PROVE  Mappings(f) = {<<x, q>>} /\ ~frame'[f].cache
    BY <1>1, <1>4 DEF WritableAlone, Mappings
  <2>1. Mappings(f) = {<<x, q>>} /\ ~frame[f].cache /\ f \in Frame
    <3>1. mem[x].pte[q] \in EntryType
      BY Pte DEF MemoryShape
    <3> QED
      BY <3>1, EntryFacts DEF FramesInv, WritableAlone
  <2> QED
    BY <1>7, <2>1
<1>10. \A x \in Mem, k \in 0 .. Pages \div TableSize : TableExact(x, k)'
  BY <1>1 DEF FramesInv, TableExact, Present
<1>11. FrameHeld(t)'
  BY <1>3, StageFacts DEF FrameHeld, Doing
<1>12. \A u \in User : FrameHeld(u)'
  BY <1>3, <1>5, <1>7, <1>11, HeldKept DEF SameCount
<1> QED
  BY <1>8, <1>9, <1>10, <1>12 DEF FramesInv

\* The pages of ps that map f, as pairs with one memory.
LEMMA PairsCount ==
  ASSUME NEW m \in Mem, NEW x \in Mem, NEW f, NEW ps \in SUBSET Page
  PROVE  Cardinality({x} \X {p \in ps : mem[m].pte[p].frame = f}) = MappedTo(m, f, ps)
<1> DEFINE S == {p \in ps : mem[m].pte[p].frame = f}
<1>1. IsFiniteSet(S) /\ Cardinality(S) \in Nat
  BY PagesFinite
<1>2. IsFiniteSet({x}) /\ Cardinality({x}) = 1
  BY FS_Singleton
<1> HIDE DEF S
<1>3. Cardinality({x} \X S) = 1 * Cardinality(S)
  BY <1>1, <1>2, FS_Product
<1>4. Cardinality({x} \X S) = Cardinality(S)
  BY <1>1, <1>3
<1> QED
  BY <1>4 DEF S, MappedTo

\* The memory of the parent, and the pages that a child gets.
ParentOf(m, ps) == [mem[m] EXCEPT !.pte = ReadOnly(@, ps)]
Given(m) == Entries(m, WalkedIn(m))

\* What fork() does to each memory, task and frame.
LEMMA ForkStep ==
  ASSUME MemoryShape, NEW t \in User, NEW c \in User, NEW m \in Mem, Fork(t, c, m),
         NEW d, d = mm[t], NEW ps, ps = Given(d)
  PROVE  /\ d \in Mem /\ d # m /\ mem[d].live /\ ~mem[m].live /\ mem[m].pte = Unmapped
         /\ ps \in SUBSET Page /\ (\A p \in ps : mem[d].pte[p] # Absent)
         /\ mem'[m] = ChildOf(d, ps) /\ mem'[d] = ParentOf(d, ps)
         /\ \A x \in Mem \ {m, d} : mem'[x] = mem[x]
         /\ t # c /\ at'[c] = InUser /\ mm'[c] = m /\ active'[c] = m
         /\ \A u \in User \ {c} : at'[u] = at[u]
         /\ \A u \in Task \ {c} : mm'[u] = mm[u] /\ active'[u] = active[u]
         /\ \A f \in Frame : /\ frame'[f].count = frame[f].count + MappedTo(d, f, ps)
                             /\ frame'[f].cache = frame[f].cache /\ frame'[f].data = frame[f].data
         /\ meant'[m] = meant[d] /\ blurred'[m] = blurred[d] \cup (Page \ WalkedIn(d))
         /\ \A x \in Mem \ {m} : meant'[x] = meant[x] /\ blurred'[x] = blurred[x]
         /\ UNCHANGED <<current, cr3, leaked, halted>>
<1> DEFINE parent == [mem[d] EXCEPT !.pte = ReadOnly(@, ps)]
<1>1. MemoryTypes /\ StageSound(t) /\ MemoriesApart
  BY DEF MemoryShape
<1>2. /\ d # NoMem /\ Doing(t, "user") /\ Doing(c, "unborn") /\ Unused(m)
      /\ frame' = [f \in Frame |-> [frame[f] EXCEPT !.count = @ + MappedTo(d, f, ps)]]
      /\ meant' = [meant EXCEPT ![m] = meant[d]]
      /\ blurred' = [blurred EXCEPT ![m] = blurred[d] \cup (Page \ WalkedIn(d))]
      /\ mm' = [mm EXCEPT ![c] = m] /\ active' = [active EXCEPT ![c] = m]
      /\ at' = [at EXCEPT ![c] = InUser]
      /\ UNCHANGED <<current, cr3, leaked, halted>>
  BY DEF Fork, Runs, Given
<1>3. d \in Mem /\ mem[d].live /\ ~mem[m].live /\ mem[m].pte = Unmapped /\ d # m /\ t # c
  BY <1>1, <1>2, Inside, UnusedMemory DEF Unused, StageSound, Doing
<1>4. ps \in SUBSET Page /\ \A p \in ps : mem[d].pte[p] # Absent
  BY <1>3, WalkedPages DEF Given
<1>5. mem' = [mem EXCEPT ![m] = ChildOf(d, ps), ![d] = parent]
  BY <1>3 DEF Fork, ChildOf, Given
<1>6. /\ mem'[m] = ChildOf(d, ps) /\ mem'[d] = ParentOf(d, ps)
      /\ \A x \in Mem \ {m, d} : mem'[x] = mem[x]
  <2> HIDE DEF parent
  <2>1. mem \in [Mem -> MemoryType]
    BY <1>1 DEF MemoryTypes
  <2> QED
    BY <1>3, <1>5, <2>1 DEF ParentOf, parent
<1>7. ASSUME NEW f \in Frame
      PROVE  /\ frame'[f].count = frame[f].count + MappedTo(d, f, ps)
             /\ frame'[f].cache = frame[f].cache /\ frame'[f].data = frame[f].data
  <2>1. frame[f] \in FrameType
    BY <1>1 DEF MemoryTypes
  <2>2. frame'[f] = [frame[f] EXCEPT !.count = frame[f].count + MappedTo(d, f, ps)]
    BY <1>2
  <2> QED
    BY <2>1, <2>2 DEF FrameType
<1>8. /\ at'[c] = InUser /\ mm'[c] = m /\ active'[c] = m
      /\ \A u \in User \ {c} : at'[u] = at[u]
      /\ \A u \in Task \ {c} : mm'[u] = mm[u] /\ active'[u] = active[u]
  BY <1>1, <1>2 DEF MemoryTypes, Task
<1>9. /\ meant'[m] = meant[d] /\ blurred'[m] = blurred[d] \cup (Page \ WalkedIn(d))
      /\ \A x \in Mem \ {m} : meant'[x] = meant[x] /\ blurred'[x] = blurred[x]
  BY <1>1, <1>2 DEF MemoryTypes
<1> QED
  BY <1>2, <1>3, <1>4, <1>6, <1>7, <1>8, <1>9

LEMMA ForkFrames ==
  ASSUME MemoryShape, FramesInv, NEW t \in User, NEW c \in User, NEW m \in Mem, Fork(t, c, m)
  PROVE  FramesInv'
<1> PICK d : d = mm[t]
  OBVIOUS
<1> PICK ps : ps = Given(d)
  OBVIOUS
<1>1. /\ d \in Mem /\ d # m /\ mem[m].pte = Unmapped
      /\ ps \in SUBSET Page /\ (\A p \in ps : mem[d].pte[p] # Absent)
      /\ mem'[m] = ChildOf(d, ps) /\ mem'[d] = ParentOf(d, ps)
      /\ \A x \in Mem \ {m, d} : mem'[x] = mem[x]
  <2>1. d \in Mem /\ d # m /\ mem[m].pte = Unmapped /\ ps \in SUBSET Page
    BY ForkStep
  <2>2. \A p \in ps : mem[d].pte[p] # Absent
    BY ForkStep
  <2>3. mem'[m] = ChildOf(d, ps) /\ mem'[d] = ParentOf(d, ps)
    BY ForkStep
  <2>4. \A x \in Mem \ {m, d} : mem'[x] = mem[x]
    BY ForkStep
  <2> QED
    BY <2>1, <2>2, <2>3, <2>4 DEF ParentOf
<1>2. /\ at'[c] = InUser /\ at[c].frame = NoFrame
      /\ \A u \in User \ {c} : at'[u] = at[u]
  <2>1. Doing(c, "unborn")
    BY DEF Fork
  <2> QED
    BY <2>1, ForkStep DEF MemoryShape, StageSound, Doing, FaultOps
<1>3. \A f \in Frame : /\ frame'[f].count = frame[f].count + MappedTo(d, f, ps)
                       /\ frame'[f].cache = frame[f].cache
  BY ForkStep
<1>4. UNCHANGED leaked
  BY ForkStep
<1>5. /\ \A p \in ps : mem'[m].pte[p].frame = mem[d].pte[p].frame /\ mem'[m].pte[p] # Absent
      /\ \A p \in Page \ ps : mem'[m].pte[p] = Absent
      /\ \A p \in Page : ~mem'[m].pte[p].write
      /\ \A k \in 0 .. Pages \div TableSize :
           LET n == Cardinality({p \in ps : TableOf(p) = k})
           IN mem'[m].table[k] = IF n = 0 THEN 0 ELSE n + 1
  BY <1>1, ChildStep DEF MemoryShape
<1>6. /\ mem'[d].table = mem[d].table
      /\ \A p \in Page : /\ mem'[d].pte[p].frame = mem[d].pte[p].frame
                         /\ (mem'[d].pte[p] = Absent) <=> (mem[d].pte[p] = Absent)
                         /\ mem'[d].pte[p].write => mem[d].pte[p].write /\ p \notin ps
  <2>1. mem'[d].table = mem[d].table /\ mem'[d].pte = ReadOnly(mem[d].pte, ps)
    BY <1>1, ReadOnlyStep DEF MemoryShape, ParentOf
  <2>2. mem[d].pte \in [Page -> EntryType]
    BY <1>1, Pte DEF MemoryShape
  <2> QED
    BY <1>1, <2>1, <2>2, ReadOnlyFacts
<1> DEFINE new(f) == {m} \X {p \in ps : mem[d].pte[p].frame = f}
<1>7. ASSUME NEW f \in Frame
      PROVE  Mappings(f)' = Mappings(f) \cup new(f) /\ Mappings(f) \cap new(f) = {}
  <2>1. NoFrame # f /\ \A p \in Page : mem[m].pte[p].frame = NoFrame
    BY <1>1, AddressSpaceAssumption, EntryFacts DEF Unmapped
  <2>2. ASSUME NEW x \in Mem, NEW q \in Page
        PROVE  mem'[x].pte[q].frame = f <=> <<x, q>> \in Mappings(f) \cup new(f)
    <3>1. <<x, q>> \in Mappings(f) <=> mem[x].pte[q].frame = f
      BY MappingsAre
    <3>2. CASE x = m
      BY <1>5, <2>1, <3>1, <3>2, EntryFacts
    <3>3. CASE x # m
      BY <1>1, <1>6, <3>1, <3>3
    <3> QED
      BY <3>2, <3>3
  <2>3. new(f) \subseteq Mem \X Page
    BY <1>1
  <2>4. Mappings(f)' = {x \in Mem \X Page : mem'[x[1]].pte[x[2]].frame = f}
    BY DEF Mappings
  <2>5. Mappings(f) \subseteq Mem \X Page
    BY DEF Mappings
  <2>6. Mappings(f)' = Mappings(f) \cup new(f)
    <3> HIDE DEF new
    <3> QED
      BY <2>2, <2>3, <2>4, <2>5
  <2>7. ASSUME NEW z \in new(f) PROVE z \notin Mappings(f)
    BY <1>1, <2>1, <2>7 DEF Mappings
  <2> QED
    BY <2>6, <2>7
<1>8. ASSUME NEW f \in Frame  PROVE CountExact(f)'
  <2>1. Cardinality(Mappings(f)') = Cardinality(Mappings(f)) + MappedTo(d, f, ps)
    <3>1. Cardinality(new(f)) = MappedTo(d, f, ps)
      BY <1>1, PairsCount
    <3>2. new(f) \in SUBSET (Mem \X Page)
      BY <1>1
    <3> HIDE DEF new
    <3>3. IsFiniteSet(new(f)) /\ IsFiniteSet(Mappings(f))
      BY <3>2, PlacesFinite, Amounts
    <3>4. Cardinality(Mappings(f) \cup new(f))
            = Cardinality(Mappings(f)) + Cardinality(new(f)) - Cardinality(Mappings(f) \cap new(f))
      BY <3>3, FS_Union
    <3>5. Cardinality(Mappings(f)) \in Nat /\ Cardinality(new(f)) \in Nat
      BY <3>3, FS_CardinalityType
    <3>6. /\ Mappings(f)' = Mappings(f) \cup new(f)
          /\ Cardinality(Mappings(f) \cap new(f)) = 0
      BY <1>7, FS_EmptySet DEF new
    <3>7. Cardinality(Mappings(f) \cup new(f)) = Cardinality(Mappings(f)) + Cardinality(new(f))
      BY <3>4, <3>5, <3>6
    <3> QED
      BY <3>1, <3>6, <3>7
  <2>2. Holders(f)' = Holders(f)
    <3>1. InUser.frame = NoFrame
      BY StageFacts
    <3> QED
      BY <1>2, <3>1 DEF Holders
  <2>3. MappedTo(d, f, ps) \in Nat
    BY <1>1, MappedToType
  <2>4. Cardinality(Mappings(f)) \in Nat /\ Cardinality(Holders(f)) \in Nat /\ leaked[f] \in Nat
    BY Amounts
  <2>5. CountExact(f)
    BY DEF FramesInv
  <2> QED
    BY <1>3, <1>4, <2>1, <2>2, <2>3, <2>4, <2>5 DEF CountExact
<1>9. ASSUME NEW x \in Mem, NEW q \in Page  PROVE WritableAlone(x, q)'
  <2> SUFFICES ASSUME mem'[x].pte[q].write, NEW g, g = mem'[x].pte[q].frame
               PROVE  Mappings(g)' = {<<x, q>>} /\ ~frame'[g].cache
    BY DEF WritableAlone, Mappings
  <2>1. x # m
    BY <1>5
  <2>2. g = mem[x].pte[q].frame /\ mem[x].pte[q].write /\ (x = d => q \notin ps)
    BY <1>1, <1>6, <2>1
  <2>3. g \in Frame
    <3>1. mem[x].pte[q] \in EntryType
      BY Pte DEF MemoryShape
    <3> QED
      BY <2>2, <3>1, EntryFacts
  <2>4. Mappings(g) = {<<x, q>>} /\ ~frame[g].cache
    BY <2>2 DEF FramesInv, WritableAlone
  <2>5. ASSUME NEW p \in ps, mem[d].pte[p].frame = g  PROVE FALSE
    <3>1. <<d, p>> \in Mappings(g)
      BY <1>1, <2>5, MappingsAre
    <3>2. d = x /\ p = q
      BY <2>4, <3>1
    <3> QED
      BY <2>2, <3>2
  <2>6. new(g) = {}
    BY <2>5
  <2> QED
    BY <1>3, <1>7, <2>3, <2>4, <2>6
<1>10. ASSUME NEW x \in Mem, NEW k \in 0 .. Pages \div TableSize  PROVE TableExact(x, k)'
  <2>1. CASE x = m
    <3>1. {p \in Page : TableOf(p) = k /\ Present(m, p)}' = {p \in ps : TableOf(p) = k}
      BY <1>1, <1>5 DEF Present
    <3>2. Cardinality({p \in ps : TableOf(p) = k}) \in Nat
      <4>1. {p \in ps : TableOf(p) = k} \in SUBSET Page
        BY <1>1
      <4> QED
        BY <4>1, PagesFinite
    <3> QED
      BY <1>5, <2>1, <3>1, <3>2 DEF TableExact
  <2>2. CASE x = d
    BY <1>6, <2>2, TableKept DEF FramesInv
  <2>3. CASE x \notin {m, d}
    BY <1>1, <2>3, TableKept DEF FramesInv
  <2> QED
    BY <2>1, <2>2, <2>3
<1>11. \A f \in Frame : SameCount(f) \/ Mappings(f) # {}
  <2> SUFFICES ASSUME NEW f \in Frame, Mappings(f) = {}  PROVE SameCount(f)
    OBVIOUS
  <2>1. {p \in ps : mem[d].pte[p].frame = f} = {}
    BY <1>1, MappingsAre
  <2>2. MappedTo(d, f, ps) = 0
    BY <2>1, FS_EmptySet DEF MappedTo
  <2> QED
    BY <1>3, <2>2, Amounts DEF SameCount
<1>12. FrameHeld(c)'
  BY <1>2, StageFacts DEF FrameHeld, Doing
<1>13. \A u \in User : FrameHeld(u)'
  BY <1>2, <1>11, <1>12, HeldKept
<1> QED
  BY <1>8, <1>9, <1>10, <1>13 DEF FramesInv


\* What the child has got stays referenced.
LEMMA ForkFailsFrames ==
  ASSUME MemoryShape, FramesInv, NEW t \in User, NEW n \in 1 .. Pages, NEW q \in Page,
         ForkFails(t, n, q)
  PROVE  FramesInv'
<1> PICK m : m = mm[t]
  OBVIOUS
<1>a. PICK part : part = Entries(m, {p \in Walked(mem[m].vm[n]) : p < q})
  OBVIOUS
<1>b. PICK ps : ps = Entries(m, UNION {Walked(mem[m].vm[i]) : i \in 1 .. n - 1}) \cup part
  OBVIOUS
<1>1. /\ m # NoMem /\ mem' = [mem EXCEPT ![m].pte = ReadOnly(@, ps)]
      /\ frame' = [f \in Frame |-> [frame[f] EXCEPT !.count = @ + MappedTo(m, f, part)]]
      /\ leaked' = [f \in Frame |-> leaked[f] + MappedTo(m, f, part)]
      /\ UNCHANGED at
  BY <1>a, <1>b DEF ForkFails
<1>2. m \in Mem
  BY <1>1, Inside
<1>3. part \in SUBSET Page /\ \A p \in ps : mem[m].pte[p] # Absent
  BY <1>a, <1>b, <1>2, WalkedPages DEF Entries, Walked, Present
<1>4. /\ mem'[m].table = mem[m].table
      /\ \A p \in Page : /\ mem'[m].pte[p].frame = mem[m].pte[p].frame
                         /\ (mem'[m].pte[p] = Absent) <=> (mem[m].pte[p] = Absent)
                         /\ mem'[m].pte[p].write => mem[m].pte[p].write
      /\ \A x \in Mem \ {m} : mem'[x] = mem[x]
  <2> DEFINE new == [mem[m] EXCEPT !.pte = ReadOnly(@, ps)]
  <2>1. new.table = mem[m].table /\ new.pte = ReadOnly(mem[m].pte, ps)
    BY <1>2, <1>3, ReadOnlyStep DEF MemoryShape
  <2>2. mem' = [mem EXCEPT ![m] = new] /\ mem \in [Mem -> MemoryType]
    BY <1>1 DEF MemoryShape, MemoryTypes
  <2>3. mem[m].pte \in [Page -> EntryType]
    BY <1>2, Pte DEF MemoryShape
  <2> HIDE DEF new
  <2>4. mem'[m] = new /\ \A x \in Mem \ {m} : mem'[x] = mem[x]
    BY <1>2, <2>2
  <2> PICK pte \in [Page -> EntryType] : pte = mem[m].pte
    BY <2>3
  <2>5. \A p \in ps : pte[p] # Absent
    BY <1>3
  <2>6. ASSUME NEW p \in Page
        PROVE  /\ ReadOnly(pte, ps)[p].frame = pte[p].frame
               /\ (ReadOnly(pte, ps)[p] = Absent) <=> (pte[p] = Absent)
               /\ ReadOnly(pte, ps)[p].write => pte[p].write
    BY <2>5, ReadOnlyFacts
  <2>7. mem'[m].table = mem[m].table /\ mem'[m].pte = ReadOnly(pte, ps)
    BY <2>1, <2>4
  <2> QED
    BY <2>4, <2>6, <2>7
<1>5. /\ \A x \in Mem, p \in Page : /\ mem'[x].pte[p].frame = mem[x].pte[p].frame
                                    /\ (mem'[x].pte[p] = Absent) <=> (mem[x].pte[p] = Absent)
                                    /\ mem'[x].pte[p].write => mem[x].pte[p].write
      /\ \A x \in Mem : mem'[x].table = mem[x].table
  BY <1>4
<1>6. ASSUME NEW f \in Frame
      PROVE  /\ frame'[f].count = frame[f].count + MappedTo(m, f, part)
             /\ frame'[f].cache = frame[f].cache
             /\ leaked'[f] = leaked[f] + MappedTo(m, f, part)
             /\ MappedTo(m, f, part) \in Nat
  <2>1. frame[f] \in FrameType
    BY DEF MemoryShape, MemoryTypes
  <2>2. frame'[f] = [frame[f] EXCEPT !.count = frame[f].count + MappedTo(m, f, part)]
    BY <1>1
  <2>3. MappedTo(m, f, part) \in Nat
    BY <1>2, <1>3, MappedToType
  <2> QED
    BY <1>1, <2>1, <2>2, <2>3 DEF FrameType
<1>7. \A f : Mappings(f)' = Mappings(f) /\ Holders(f)' = Holders(f)
  <2>1. \A x \in Mem, p \in Page : mem'[x].pte[p].frame = mem[x].pte[p].frame
    BY <1>5
  <2>2. \A f : {x \in Mem \X Page : mem'[x[1]].pte[x[2]].frame = f} = Mappings(f)
    BY <2>1 DEF Mappings
  <2> QED
    BY <1>1, <2>2 DEF Mappings, Holders
<1>8. ASSUME NEW f \in Frame  PROVE CountExact(f)'
  <2>1. Cardinality(Mappings(f)) \in Nat /\ Cardinality(Holders(f)) \in Nat /\ leaked[f] \in Nat
    BY Amounts
  <2>2. CountExact(f)
    BY DEF FramesInv
  <2>3. Cardinality(Mappings(f)') = Cardinality(Mappings(f))
        /\ Cardinality(Holders(f)') = Cardinality(Holders(f))
    BY <1>7
  <2>4. MappedTo(m, f, part) \in Nat /\ leaked'[f] = leaked[f] + MappedTo(m, f, part)
        /\ frame'[f].count = frame[f].count + MappedTo(m, f, part)
    BY <1>6
  <2>5. frame'[f].cache = frame[f].cache
    BY <1>6
  <2> DEFINE a == Cardinality(Mappings(f))  b == Cardinality(Holders(f))
             c == IF frame[f].cache THEN 1 ELSE 0
  <2>6. frame[f].count = a + leaked[f] + b + c
    BY <2>2 DEF CountExact
  <2>7. frame'[f].count = a + leaked'[f] + b + c
    <3>1. c \in Nat
      OBVIOUS
    <3> HIDE DEF a, b, c
    <3> QED
      BY <2>1, <2>4, <2>6, <3>1 DEF a, b
  <2> QED
    BY <2>3, <2>5, <2>7 DEF CountExact
<1>9. ASSUME NEW x \in Mem, NEW y \in Page  PROVE WritableAlone(x, y)'
  <2> SUFFICES ASSUME mem'[x].pte[y].write, NEW g, g = mem'[x].pte[y].frame
               PROVE  Mappings(g)' = {<<x, y>>} /\ ~frame'[g].cache
    BY DEF WritableAlone, Mappings
  <2>1. mem[x].pte[y].write /\ g = mem[x].pte[y].frame
    BY <1>5
  <2>2. g \in Frame
    <3>1. mem[x].pte[y] \in EntryType
      BY Pte DEF MemoryShape
    <3> QED
      BY <2>1, <3>1, EntryFacts
  <2>3. Mappings(g) = {<<x, y>>} /\ ~frame[g].cache
    BY <2>1 DEF FramesInv, WritableAlone
  <2> QED
    BY <1>6, <1>7, <2>2, <2>3
<1>10. ASSUME NEW x \in Mem, NEW k \in 0 .. Pages \div TableSize  PROVE TableExact(x, k)'
  BY <1>5, TableKept DEF FramesInv
<1>11. \A f \in Frame : SameCount(f) \/ Mappings(f) # {}
  <2> SUFFICES ASSUME NEW f \in Frame, Mappings(f) = {}  PROVE SameCount(f)
    OBVIOUS
  <2>1. {p \in part : mem[m].pte[p].frame = f} = {}
    BY <1>2, <1>3, MappingsAre
  <2>2. MappedTo(m, f, part) = 0
    BY <2>1, FS_EmptySet DEF MappedTo
  <2> QED
    BY <1>6, <2>2, Amounts DEF SameCount
<1>12. FrameHeld(t)'
  <2>1. ~Doing(t, "page") /\ ~Doing(t, "copy")
    BY DEF ForkFails, Runs, Doing
  <2> QED
    BY <1>1, <2>1 DEF FrameHeld, Doing
<1>13. \A u \in User : FrameHeld(u)'
  BY <1>1, <1>11, <1>12, HeldKept
<1> QED
  BY <1>8, <1>9, <1>10, <1>13 DEF FramesInv

\* A frame's entries in the memory m, and those in the others.
LEMMA UnmapCounts ==
  ASSUME MemoryShape, NEW m \in Mem, NEW f \in Frame, mem'[m].pte = Unmapped,
         \A x \in Mem \ {m} : mem'[x].pte = mem[x].pte
  PROVE  /\ Mappings(f)' \subseteq Mappings(f)
         /\ Mappings(f) = Mappings(f)' \cup ({m} \X {p \in Page : mem[m].pte[p].frame = f})
         /\ Cardinality(Mappings(f)') \in Nat
         /\ Cardinality(Mappings(f)) = Cardinality(Mappings(f)') + MappedTo(m, f, WalkedIn(m))
                                       + MappedTo(m, f, Page \ WalkedIn(m))
<1> DEFINE gone == {m} \X {p \in Page : mem[m].pte[p].frame = f}
<1> PICK left : left = Mappings(f)'
  OBVIOUS
<1>1. \A x \in Mem, q \in Page : <<x, q>> \in left <=> x # m /\ mem[x].pte[q].frame = f
  <2>1. NoFrame # f /\ \A p \in Page : mem'[m].pte[p].frame = NoFrame
    BY AddressSpaceAssumption, EntryFacts DEF Unmapped
  <2>2. left = {x \in Mem \X Page : mem'[x[1]].pte[x[2]].frame = f}
    BY DEF Mappings
  <2> QED
    BY <2>1, <2>2
<1>2. left \subseteq Mem \X Page /\ Mappings(f) \subseteq Mem \X Page /\ gone \subseteq Mem \X Page
  BY DEF Mappings
<1>3. Mappings(f) = left \cup gone /\ left \cap gone = {}
  BY <1>1, <1>2, MappingsAre
<1>4. IsFiniteSet(left) /\ IsFiniteSet(gone) /\ Cardinality(left) \in Nat
  <2> HIDE DEF gone
  <2> QED
    BY <1>2, PlacesFinite
<1>5. Cardinality(gone) = MappedTo(m, f, Page)
  BY PairsCount
<1>6. MappedTo(m, f, Page) = MappedTo(m, f, WalkedIn(m)) + MappedTo(m, f, Page \ WalkedIn(m))
  <2> DEFINE A == {p \in WalkedIn(m) : mem[m].pte[p].frame = f}
             B == {p \in Page \ WalkedIn(m) : mem[m].pte[p].frame = f}
             C == {p \in Page : mem[m].pte[p].frame = f}
  <2>1. C = A \cup B /\ A \cap B = {} /\ A \in SUBSET Page /\ B \in SUBSET Page
    BY WalkedPages
  <2> HIDE DEF A, B, C
  <2>2. IsFiniteSet(A) /\ IsFiniteSet(B) /\ Cardinality(A) \in Nat /\ Cardinality(B) \in Nat
    BY <2>1, PagesFinite
  <2>3. Cardinality(A \cup B) = Cardinality(A) + Cardinality(B) - Cardinality(A \cap B)
    BY <2>2, FS_Union
  <2>4. Cardinality(C) = Cardinality(A) + Cardinality(B)
    <3>1. Cardinality(A \cap B) = 0
      BY <2>1, FS_EmptySet
    <3> QED
      BY <2>1, <2>2, <2>3, <3>1
  <2> QED
    BY <2>4 DEF A, B, C, MappedTo
<1>7. Cardinality(Mappings(f)) = Cardinality(left) + MappedTo(m, f, Page)
  <2> HIDE DEF gone
  <2>1. Cardinality(left \cup gone) = Cardinality(left) + Cardinality(gone) - Cardinality(left \cap gone)
    BY <1>4, FS_Union
  <2>2. Cardinality(gone) \in Nat /\ Cardinality(left \cap gone) = 0
    BY <1>3, <1>4, FS_CardinalityType, FS_EmptySet
  <2>3. Cardinality(left \cup gone) = Cardinality(left) + Cardinality(gone)
    BY <1>4, <2>1, <2>2
  <2> QED
    BY <1>3, <1>5, <2>3
<1>8. MappedTo(m, f, WalkedIn(m)) \in Nat /\ MappedTo(m, f, Page \ WalkedIn(m)) \in Nat
  BY WalkedPages, MappedToType
<1> QED
  BY <1>3, <1>4, <1>6, <1>7, <1>8

\* The steps that free the memory m.
LEMMA UnmapFrames ==
  ASSUME MemoryShape, FramesInv, NEW m \in Mem, Unmap(m),
         mem'[m].pte = Unmapped, mem'[m].table = NoMemory.table,
         \A x \in Mem \ {m} : mem'[x].pte = mem[x].pte /\ mem'[x].table = mem[x].table,
         \A u \in User : /\ at'[u].frame = at[u].frame
                         /\ at'[u].op \in {"page", "copy"} => at'[u] = at[u]
  PROVE  FramesInv'
<1> DEFINE a(f) == MappedTo(m, f, WalkedIn(m))
           b(f) == MappedTo(m, f, Page \ WalkedIn(m))
           s(f) == Cardinality(Mappings(f)') + leaked'[f] + Cardinality(Holders(f))
<1>1. ASSUME NEW f \in Frame
      PROVE  /\ frame'[f] = IF a(f) = 0 THEN frame[f] ELSE Put(frame[f], a(f))
             /\ leaked'[f] = leaked[f] + b(f) /\ a(f) \in Nat /\ b(f) \in Nat
  BY WalkedPages, MappedToType DEF Unmap
<1>2. ASSUME NEW f \in Frame
      PROVE  /\ Mappings(f)' \subseteq Mappings(f)
             /\ Cardinality(Mappings(f)') \in Nat
             /\ Cardinality(Mappings(f)) = Cardinality(Mappings(f)') + a(f) + b(f)
  BY UnmapCounts
<1> HIDE DEF a, b
<1>3. \A f : Holders(f)' = Holders(f)
  BY DEF Holders
<1>4. ASSUME NEW f \in Frame
      PROVE  /\ s(f) \in Nat /\ frame'[f].count = s(f) + (IF frame'[f].cache THEN 1 ELSE 0)
             /\ frame'[f].cache => frame[f].cache
  <2>1. /\ Cardinality(Mappings(f)) \in Nat /\ Cardinality(Holders(f)) \in Nat
        /\ leaked[f] \in Nat /\ frame[f] \in FrameType /\ frame[f].count \in Int
    BY Amounts
  <2>2. frame[f].count = Cardinality(Mappings(f)) + leaked[f] + Cardinality(Holders(f))
                         + (IF frame[f].cache THEN 1 ELSE 0)
    BY DEF FramesInv, CountExact
  <2>3. s(f) \in Nat /\ frame[f].count - a(f) = s(f) + (IF frame[f].cache THEN 1 ELSE 0)
    <3> PICK n : n = Cardinality(Mappings(f)')
      OBVIOUS
    <3>1. n \in Nat /\ Cardinality(Mappings(f)) = n + a(f) + b(f)
      BY <1>2
    <3>2. s(f) = n + leaked'[f] + Cardinality(Holders(f))
      OBVIOUS
    <3> HIDE DEF s
    <3> QED
      BY <1>1, <2>1, <2>2, <3>1, <3>2
  <2> HIDE DEF s
  <2>4. CASE a(f) = 0
    BY <1>1, <2>1, <2>3, <2>4
  <2>5. CASE a(f) # 0
    <3>1. a(f) \in Int
      BY <1>1
    <3>2. /\ Put(frame[f], a(f)).count = s(f) + (IF Put(frame[f], a(f)).cache THEN 1 ELSE 0)
          /\ Put(frame[f], a(f)).cache => frame[f].cache
      BY <2>1, <2>3, <3>1, PutExact
    <3> QED
      BY <1>1, <2>3, <2>5, <3>2
  <2> QED
    BY <2>4, <2>5
<1>5. ASSUME NEW f \in Frame  PROVE CountExact(f)'
  <2> PICK h : h = Holders(f)'
    OBVIOUS
  <2>1. h = Holders(f)
    BY <1>3
  <2>2. frame'[f].count = Cardinality(Mappings(f)') + leaked'[f] + Cardinality(h)
                          + (IF frame'[f].cache THEN 1 ELSE 0)
    BY <1>4, <2>1
  <2> QED
    BY <2>2 DEF CountExact
<1>6. ASSUME NEW x \in Mem, NEW q \in Page  PROVE WritableAlone(x, q)'
  <2> SUFFICES ASSUME mem'[x].pte[q].write, NEW g, g = mem'[x].pte[q].frame
               PROVE  Mappings(g)' = {<<x, q>>} /\ ~frame'[g].cache
    BY DEF WritableAlone, Mappings
  <2>1. x # m
    BY EntryFacts DEF Unmapped
  <2>2. mem[x].pte[q].write /\ g = mem[x].pte[q].frame
    BY <2>1
  <2>3. g \in Frame
    <3>1. mem[x].pte[q] \in EntryType
      BY Pte DEF MemoryShape
    <3> QED
      BY <2>2, <3>1, EntryFacts
  <2>4. Mappings(g) = {<<x, q>>} /\ ~frame[g].cache
    BY <2>2 DEF FramesInv, WritableAlone
  <2>5. <<x, q>> \in Mappings(g)'
    BY DEF Mappings
  <2> QED
    BY <1>2, <1>4, <2>3, <2>4, <2>5
<1>7. ASSUME NEW x \in Mem, NEW k \in 0 .. Pages \div TableSize  PROVE TableExact(x, k)'
  <2>1. CASE x = m
    BY <2>1, EmptyTable
  <2>2. CASE x # m
    BY <2>2, TableKept DEF FramesInv
  <2> QED
    BY <2>1, <2>2
<1>8. ASSUME NEW u \in User  PROVE FrameHeld(u)'
  <2>1. CASE at'[u].op \in {"page", "copy"}
    <3>1. at'[u] = at[u] /\ FrameHeld(u) /\ at[u].frame \in Frame /\ Mappings(at[u].frame) = {}
      BY <2>1, HeldAlone DEF FramesInv
    <3>2. a(at[u].frame) = 0
      <4> PICK f \in Frame : f = at[u].frame
        BY <3>1
      <4>1. Cardinality(Mappings(f)) = 0
        BY <3>1, FS_EmptySet
      <4>2. a(f) \in Nat /\ b(f) \in Nat
        BY <1>1
      <4> PICK n : n = Cardinality(Mappings(f)')
        OBVIOUS
      <4>3. n \in Nat /\ 0 = n + a(f) + b(f)
        BY <1>2, <4>1
      <4> QED
        BY <4>2, <4>3
    <3>3. frame'[at[u].frame] = frame[at[u].frame]
      BY <1>1, <3>1, <3>2
    <3> QED
      BY <3>1, <3>3 DEF FrameHeld, Doing
  <2>2. CASE at'[u].op \notin {"page", "copy"}
    BY <2>2 DEF FrameHeld, Doing
  <2> QED
    BY <2>1, <2>2
<1> QED
  BY <1>5, <1>6, <1>7, <1>8 DEF FramesInv


\* What execve() does to the memories and tasks when it succeeds, and what exit does.
LEMMA ExecStep ==
  ASSUME MemoryShape, NEW t \in User, NEW i \in Image, ExecSucceeds(t, i),
         NEW m, m = mm[t], NEW old, old = at[t].old
  PROVE  /\ m \in Mem /\ old \in Mem \cup {NoMem} /\ m # old
         /\ mem[m].live /\ mem[m].pte = Unmapped /\ Doing(t, "exec") /\ at[t].frame = NoFrame
         /\ mem'[m].live /\ mem'[m].pte = Unmapped /\ mem'[m].vm = Areas(i)
         /\ mem'[m].table = mem[m].table /\ mem'[m].ref = mem[m].ref
         /\ old # NoMem => old \in Mem /\ mem[old].live /\ mem'[old] = NoMemory /\ Unmap(old)
         /\ old = NoMem => UNCHANGED <<frame, blurred, leaked>>
         /\ \A x \in Mem \ {m, old} : mem'[x] = mem[x]
         /\ at'[t] = InUser
         /\ \A u \in User \ {t} : at'[u] = at[u]
         /\ UNCHANGED <<current, cr3, mm, active, halted>>
<1> DEFINE new == [mem[m] EXCEPT !.vm = Areas(i)]
<1>1. MemoryTypes /\ StageSound(t)
  BY DEF MemoryShape
<1>2. /\ Doing(t, "exec") /\ at' = [at EXCEPT ![t] = InUser]
      /\ mem' = [x \in Mem |-> IF x = m THEN new ELSE IF x = old THEN NoMemory ELSE mem[x]]
      /\ UNCHANGED <<current, cr3, mm, active, halted>>
      /\ IF old = NoMem THEN UNCHANGED <<frame, blurred, leaked>> ELSE Unmap(old)
  BY DEF ExecSucceeds, Runs
<1>3. /\ m \in Mem /\ old \in Mem \cup {NoMem} /\ m # old /\ mem[m].live /\ mem[m].pte = Unmapped
      /\ at[t].frame = NoFrame /\ (old # NoMem => mem[old].live)
  <2>1. m # NoMem /\ mem[m].live /\ mem[m].pte = Unmapped /\ at[t].frame = NoFrame
        /\ (old # NoMem => mem[old].live)
    BY <1>1, <1>2 DEF StageSound, Doing, FaultOps
  <2>2. old \in Mem \cup {NoMem}
    BY HeldFrame DEF StageType
  <2>3. old = m => old = NoMem
    BY DEF MemoryShape, MemoriesApart
  <2> QED
    BY <2>1, <2>2, <2>3, Inside
<1>4. /\ new.live = mem[m].live /\ new.pte = mem[m].pte /\ new.vm = Areas(i)
      /\ new.table = mem[m].table /\ new.ref = mem[m].ref
  <2>1. mem[m] \in MemoryType
    BY <1>1, <1>3 DEF MemoryTypes
  <2> QED
    BY <2>1 DEF MemoryType
<1> HIDE DEF new
<1>5. /\ mem'[m] = new
      /\ old # NoMem => mem'[old] = NoMemory
      /\ \A x \in Mem \ {m, old} : mem'[x] = mem[x]
  BY <1>2, <1>3
<1>6. at'[t] = InUser /\ \A u \in User \ {t} : at'[u] = at[u]
  BY <1>1, <1>2, ReturnsStep DEF Returns
<1>7. /\ mem'[m].live /\ mem'[m].pte = Unmapped /\ mem'[m].vm = Areas(i)
      /\ mem'[m].table = mem[m].table /\ mem'[m].ref = mem[m].ref
  BY <1>3, <1>4, <1>5
<1> QED
  BY <1>2, <1>3, <1>5, <1>6, <1>7

LEMMA ExitStep ==
  ASSUME MemoryShape, NEW t \in User, ExitMemory(t), NEW m, m = mm[t]
  PROVE  /\ m \in Mem /\ mem[m].live /\ Doing(t, "user")
         /\ at[t].frame = NoFrame /\ at[t].old = NoMem
         /\ at'[t].op = "exiting" /\ at'[t].frame = NoFrame /\ at'[t].old = NoMem
         /\ \A u \in User \ {t} : at'[u] = at[u]
         /\ mem'[m] = NoMemory /\ Unmap(m)
         /\ \A x \in Mem \ {m} : mem'[x] = mem[x]
         /\ meant'[m] = Nothing /\ \A x \in Mem \ {m} : meant'[x] = meant[x]
         /\ UNCHANGED <<current, cr3, mm, active, halted>>
<1>1. MemoryTypes /\ StageSound(t) /\ at[t] \in StageType
  BY DEF MemoryShape, MemoryTypes
<1>2. /\ Doing(t, "user") /\ m # NoMem /\ mem' = [mem EXCEPT ![m] = NoMemory] /\ Unmap(m)
      /\ meant' = [meant EXCEPT ![m] = Nothing]
      /\ at' = [at EXCEPT ![t] = [at[t] EXCEPT !.op = "exiting"]]
      /\ UNCHANGED <<current, cr3, mm, active, halted>>
  BY DEF ExitMemory, Runs
<1>3. m \in Mem /\ mem[m].live /\ at[t].frame = NoFrame /\ at[t].old = NoMem
  BY <1>1, <1>2, Inside DEF StageSound, Doing, FaultOps
<1>4. /\ mem'[m] = NoMemory /\ (\A x \in Mem \ {m} : mem'[x] = mem[x])
      /\ meant'[m] = Nothing /\ (\A x \in Mem \ {m} : meant'[x] = meant[x])
  BY <1>1, <1>2, <1>3 DEF MemoryTypes
<1>5. /\ at'[t].op = "exiting" /\ at'[t].frame = NoFrame /\ at'[t].old = NoMem
      /\ \A u \in User \ {t} : at'[u] = at[u]
  <2>1. /\ [at[t] EXCEPT !.op = "exiting"].op = "exiting"
        /\ [at[t] EXCEPT !.op = "exiting"].frame = at[t].frame
        /\ [at[t] EXCEPT !.op = "exiting"].old = at[t].old
    BY <1>1 DEF StageType
  <2> QED
    BY <1>1, <1>2, <1>3, <2>1 DEF MemoryTypes
<1> QED
  BY <1>2, <1>3, <1>4, <1>5

LEMMA ExecSucceedsFrames ==
  ASSUME MemoryShape, FramesInv, NEW t \in User, NEW i \in Image, ExecSucceeds(t, i)
  PROVE  FramesInv'
<1> PICK m, old : m = mm[t] /\ old = at[t].old
  OBVIOUS
<1>1. /\ m \in Mem /\ old \in Mem \cup {NoMem} /\ m # old
      /\ mem[m].pte = Unmapped /\ mem'[m].pte = Unmapped /\ mem'[m].table = mem[m].table
      /\ old # NoMem => old \in Mem /\ mem'[old] = NoMemory /\ Unmap(old)
      /\ old = NoMem => UNCHANGED <<frame, leaked>>
  BY ExecStep
<1>2. \A x \in Mem \ {m, old} : mem'[x] = mem[x]
  BY ExecStep
<1>3. at'[t] = InUser /\ at[t].frame = NoFrame /\ \A u \in User \ {t} : at'[u] = at[u]
  BY ExecStep
<1>4. \A u \in User : /\ at'[u].frame = at[u].frame
                      /\ at'[u].op \in {"page", "copy"} => at'[u] = at[u]
  BY <1>3, StageFacts
<1>5. CASE old = NoMem
  <2>1. \A x \in Mem : mem'[x].pte = mem[x].pte /\ mem'[x].table = mem[x].table
    BY <1>1, <1>2, <1>5, AddressSpaceAssumption
  <2>2. \A f \in Frame : SameCount(f)
    BY <1>1, <1>5 DEF SameCount
  <2>3. UNCHANGED leaked
    BY <1>1, <1>5
  <2> QED
    BY <1>4, <2>1, <2>2, <2>3, CountsKept
<1>6. CASE old # NoMem
  <2>1. \A x \in Mem \ {old} : mem'[x].pte = mem[x].pte /\ mem'[x].table = mem[x].table
    BY <1>1, <1>2
  <2>2. old \in Mem /\ Unmap(old) /\ mem'[old].pte = Unmapped /\ mem'[old].table = NoMemory.table
    BY <1>1, <1>6, NoMemoryFacts
  <2> QED
    BY <1>4, <2>1, <2>2, UnmapFrames
<1> QED
  BY <1>5, <1>6

LEMMA ExitMemoryFrames ==
  ASSUME MemoryShape, FramesInv, NEW t \in User, ExitMemory(t)
  PROVE  FramesInv'
<1> PICK m : m = mm[t]
  OBVIOUS
<1>1. /\ m \in Mem /\ Unmap(m) /\ mem'[m].pte = Unmapped /\ mem'[m].table = NoMemory.table
      /\ at[t].frame = NoFrame /\ at'[t].op = "exiting" /\ at'[t].frame = NoFrame
  BY ExitStep, NoMemoryFacts
<1>2. \A x \in Mem \ {m} : mem'[x] = mem[x]
  BY ExitStep
<1>3. \A u \in User \ {t} : at'[u] = at[u]
  BY ExitStep
<1>4. \A u \in User : /\ at'[u].frame = at[u].frame
                      /\ at'[u].op \in {"page", "copy"} => at'[u] = at[u]
  BY <1>1, <1>3
<1>5. \A x \in Mem \ {m} : mem'[x].pte = mem[x].pte /\ mem'[x].table = mem[x].table
  BY <1>2
<1> QED
  BY <1>1, <1>4, <1>5, UnmapFrames

LEMMA InitFrames ==
  ASSUME MemoryInit
  PROVE  FramesInv
<1>1. \A m \in Mem : mem[m].pte = Unmapped /\ mem[m].table = NoMemory.table
  BY NoMemoryFacts DEF MemoryInit
<1>2. \A u \in User : at[u].frame = NoFrame /\ at[u].op \in {"user", "unborn"}
  BY StageFacts DEF MemoryInit
<1>3. ASSUME NEW f \in Frame  PROVE CountExact(f)
  <2>1. f # NoFrame
    BY AddressSpaceAssumption
  <2>2. Mappings(f) = {} /\ Holders(f) = {}
    BY <1>1, <1>2, <2>1, EntryFacts DEF Mappings, Holders, Unmapped
  <2>3. frame[f].count = 0 /\ ~frame[f].cache /\ leaked[f] = 0
    BY DEF MemoryInit, FreeFrame
  <2> QED
    BY <2>2, <2>3, FS_EmptySet DEF CountExact
<1>4. \A m \in Mem, p \in Page : WritableAlone(m, p)
  BY <1>1, EntryFacts DEF WritableAlone, Unmapped
<1>5. ASSUME NEW m \in Mem, NEW k \in 0 .. Pages \div TableSize  PROVE TableExact(m, k)
  <2>1. {p \in Page : TableOf(p) = k /\ Present(m, p)} = {}
    BY <1>1 DEF Present, Unmapped
  <2>2. mem[m].table[k] = 0
    BY <1>1, NoMemoryFacts
  <2> QED
    BY <2>1, <2>2, FS_EmptySet DEF TableExact
<1>6. \A u \in User : FrameHeld(u)
  BY <1>2 DEF FrameHeld, Doing
<1> QED
  BY <1>3, <1>4, <1>5, <1>6 DEF FramesInv

LEMMA NextFrames ==
  ASSUME MemoryShape, FramesInv, [MemoryNext]_memoryVars
  PROVE  FramesInv'
<1>1. ASSUME NEW t \in User, NEW p \in Page, Write(t, p) \/ CopyOut(t, p) \/ PageFault(t, p)
      PROVE  FramesInv'
  BY <1>1, StoreFrames, TakeBackFrames, FillZeroFrames, AllocatesFrames DEF PageFault
<1>2. ASSUME NEW t \in User, FaultGoesOn(t)  PROVE FramesInv'
  BY <1>2, MapPageFrames, CopyPageFailsFrames, MapCopyFrames, DropOldFrames, CopyPageFrames
     DEF FaultGoesOn
<1>3. ASSUME NEW t \in User, NEW c \in User, NEW m \in Mem, Fork(t, c, m)  PROVE FramesInv'
  BY <1>3, ForkFrames
<1>4. ASSUME NEW t \in User, NEW n \in 1 .. Pages, NEW q \in Page, ForkFails(t, n, q)
      PROVE  FramesInv'
  BY <1>4, ForkFailsFrames
<1>5. ASSUME NEW t \in User, NEW m \in Mem, ExecBegin(t, m)  PROVE FramesInv'
  BY <1>5, ExecBeginFrames
<1>6. ASSUME NEW t \in User, NEW i \in Image, ExecSucceeds(t, i)  PROVE FramesInv'
  BY <1>6, ExecSucceedsFrames
<1>7. ASSUME NEW t \in User, ExecFails(t) \/ ExitMemory(t) \/ ExitDone(t)  PROVE FramesInv'
  BY <1>7, ExecFailsFrames, ExitMemoryFrames, ExitDoneFrames
<1>8. ASSUME NEW t \in Task, Switch(t)  PROVE FramesInv'
  BY <1>8, SwitchFrames
<1>9. CASE Stays \/ UNCHANGED memoryVars
  BY <1>9, UnchangedFrames DEF Stays
<1> QED
  BY <1>1, <1>2, <1>3, <1>4, <1>5, <1>6, <1>7, <1>8, <1>9 DEF MemoryNext

\* The count of a frame (pageRef() and freePages() of buddy.c, as paging.c calls
\* them) is the number of the entries that map it, plus the faults that hold it,
\* the page cache and what failed calls have lost; an entry that can be written
\* through is the only one of its frame; and the count of a page table is one more
\* than the entries it has.
THEOREM FramesAreAccounted == MemorySpec => []FramesAccounted
<1> DEFINE Inv == MemoryShape /\ FramesInv
<1>1. MemoryInit => Inv
  BY InitShape, InitFrames
<1>2. Inv /\ [MemoryNext]_memoryVars => Inv'
  BY NextShape, NextFrames
<1>3. Inv => FramesAccounted
  BY FramesInvImplies
<1> QED
  BY <1>1, <1>2, <1>3, PTL DEF MemorySpec


-----------------------------------------------------------------------------
(* The users of a memory.                                                  *)

\* Those who have the memory m, or have put it aside in execve().
Keepers(m) == {t \in User : (mm[t] = m /\ ~Doing(t, "exiting")) \/ at[t].old = m}

\* The task that runs goes on in the memory of another.
Lent(m) == mm[current] = NoMem /\ active[current] = m

\* Only the task that runs borrows; what it runs in is loaded.
IdleClean == \A t \in Task : t # current /\ mm[t] = NoMem => active[t] = NoMem
TablesLoaded == active[current] # NoMem /\ mem[active[current]].live => cr3 = active[current]
ExecActive == \A t \in User : Doing(t, "exec") => active[t] = mm[t]
OwnTables == \A t \in User : current = t /\ mm[t] # NoMem /\ ~Doing(t, "exiting") => cr3 = mm[t]
RefExact(m) ==
  mem[m].live => /\ Keepers(m) # {}
                 /\ mem[m].ref = Cardinality(Keepers(m)) + (IF Lent(m) THEN 1 ELSE 0)
NoDangling(m) == ~mem[m].live => ~(Lent(m) /\ current \in Kernel)

OwnedInv ==
  ~halted => /\ IdleClean /\ TablesLoaded /\ ExecActive /\ OwnTables
             /\ \A m \in Mem : RefExact(m) /\ NoDangling(m)

LEMMA KeepersFinite ==
  ASSUME NEW m
  PROVE  IsFiniteSet(Keepers(m)) /\ Cardinality(Keepers(m)) \in Nat /\ Keepers(m) \subseteq User
<1>1. Keepers(m) \in SUBSET Task /\ Keepers(m) \subseteq User
  BY DEF Keepers, Task
<1> QED
  BY <1>1, TasksFinite

\* A memory that has been freed has no keepers.
LEMMA FreedHasNoKeepers ==
  ASSUME MemoryShape, NEW m \in Mem, ~mem[m].live
  PROVE  Keepers(m) = {}
<1> SUFFICES ASSUME NEW t \in Keepers(m)  PROVE FALSE
  OBVIOUS
<1>1. t \in User /\ m # NoMem /\ StageSound(t)
  BY AddressSpaceAssumption DEF Keepers, MemoryShape
<1> QED
  BY <1>1 DEF Keepers, StageSound

LEMMA OwnedInvImplies ==
  ASSUME MemoryShape, OwnedInv
  PROVE  MemoryOwned
<1> SUFFICES ASSUME ~halted
             PROVE  /\ \A m \in Mem :
                         IF mem[m].live
                         THEN /\ mem[m].ref = Cardinality(Owners(m) \cup Borrowers(m) \cup Replaced(m))
                              /\ mem[m].ref > 0
                         ELSE Owners(m) \cup Replaced(m) \cup (Borrowers(m) \cap Kernel) = {}
                    /\ \A t \in User : current = t /\ mm[t] # NoMem /\ ~Doing(t, "exiting")
                                         => cr3 = mm[t]
  BY DEF MemoryOwned
<1>1. IdleClean /\ OwnTables /\ current \in Task /\ \A m \in Mem : RefExact(m) /\ NoDangling(m)
  BY DEF OwnedInv, MemoryShape, MemoryTypes
<1>2. ASSUME NEW m \in Mem
      PROVE  /\ Owners(m) \cup Replaced(m) = Keepers(m)
             /\ Borrowers(m) = IF Lent(m) THEN {current} ELSE {}
             /\ Borrowers(m) \cap Keepers(m) = {}
  <2>1. m # NoMem
    BY AddressSpaceAssumption
  <2>2. \A k \in Kernel : mm[k] = NoMem
    BY DEF MemoryShape, MemoriesApart
  <2>3. Owners(m) \cup Replaced(m) = Keepers(m)
    BY <2>1, <2>2 DEF Owners, Replaced, Keepers, Task
  <2>4. Borrowers(m) = IF Lent(m) THEN {current} ELSE {}
    BY <1>1, <2>1 DEF Borrowers, Lent, IdleClean
  <2>5. \A t \in Keepers(m) : mm[t] # NoMem
    BY <2>1 DEF Keepers, MemoryShape, StageSound, Doing
  <2> QED
    BY <2>3, <2>4, <2>5 DEF Borrowers
<1>3. ASSUME NEW m \in Mem, mem[m].live
      PROVE  /\ mem[m].ref = Cardinality(Owners(m) \cup Borrowers(m) \cup Replaced(m))
             /\ mem[m].ref > 0
  <2>1. Owners(m) \cup Borrowers(m) \cup Replaced(m) = Keepers(m) \cup Borrowers(m)
    BY <1>2
  <2>2. IsFiniteSet(Keepers(m)) /\ Cardinality(Keepers(m)) \in Nat /\ Cardinality(Keepers(m)) # 0
    BY <1>1, <1>3, KeepersFinite, EmptyCount DEF RefExact
  <2>3. IsFiniteSet(Borrowers(m)) /\ Cardinality(Borrowers(m)) = IF Lent(m) THEN 1 ELSE 0
    <3>1. CASE Lent(m)
      <4>1. Borrowers(m) = {current}
        BY <1>2, <3>1
      <4> QED
        BY <3>1, <4>1, FS_Singleton
    <3>2. CASE ~Lent(m)
      BY <1>2, <3>2, FS_EmptySet
    <3> QED
      BY <3>1, <3>2
  <2>4. Cardinality(Keepers(m) \cup Borrowers(m))
          = Cardinality(Keepers(m)) + Cardinality(Borrowers(m)) - Cardinality(Keepers(m) \cap Borrowers(m))
    BY <2>2, <2>3, FS_Union
  <2>5. Cardinality(Keepers(m) \cap Borrowers(m)) = 0
    BY <1>2, FS_EmptySet
  <2>6. mem[m].ref = Cardinality(Keepers(m)) + (IF Lent(m) THEN 1 ELSE 0)
    BY <1>1, <1>3 DEF RefExact
  <2> QED
    BY <2>1, <2>2, <2>3, <2>4, <2>5, <2>6
<1>4. ASSUME NEW m \in Mem, ~mem[m].live
      PROVE  Owners(m) \cup Replaced(m) \cup (Borrowers(m) \cap Kernel) = {}
  BY <1>1, <1>2, <1>4, FreedHasNoKeepers DEF NoDangling
<1>5. \A t \in User : current = t /\ mm[t] # NoMem /\ ~Doing(t, "exiting") => cr3 = mm[t]
  BY <1>1 DEF OwnTables
<1> QED
  BY <1>3, <1>4, <1>5

\* The keepers of a memory stay the same, or it has got its first one.
LEMMA RefKept ==
  ASSUME NEW m \in Mem, RefExact(m), mem[m].live, mem'[m].ref = mem[m].ref,
         Keepers(m)' = Keepers(m), Lent(m)' <=> Lent(m)
  PROVE  RefExact(m)'
BY DEF RefExact

LEMMA RefFirst ==
  ASSUME NEW m \in Mem, NEW t, mem'[m].ref = 1, Keepers(m)' = {t}, ~Lent(m)'
  PROVE  RefExact(m)'
<1>1. Cardinality({t}) = 1
  BY FS_Singleton
<1> QED
  BY <1>1 DEF RefExact

\* The steps that no memory is taken up or left by.
Quiet ==
  /\ \A m \in Mem : mem'[m].live = mem[m].live /\ mem'[m].ref = mem[m].ref
  /\ \A u \in User : /\ at'[u].old = at[u].old
                     /\ at'[u].op = "exiting" <=> at[u].op = "exiting"
                     /\ at'[u].op = "exec" <=> at[u].op = "exec"
  /\ UNCHANGED <<current, cr3, mm, active, halted>>

LEMMA QuietOwned ==
  ASSUME MemoryShape, OwnedInv, Quiet
  PROVE  OwnedInv'
<1>1. UNCHANGED <<current, cr3, mm, active, halted>>
  BY DEF Quiet
<1> SUFFICES ASSUME ~halted
             PROVE  /\ IdleClean' /\ TablesLoaded' /\ ExecActive' /\ OwnTables'
                    /\ \A m \in Mem : RefExact(m)' /\ NoDangling(m)'
  BY <1>1 DEF OwnedInv
<1>2. /\ IdleClean /\ TablesLoaded /\ ExecActive /\ OwnTables
      /\ \A m \in Mem : RefExact(m) /\ NoDangling(m)
  BY DEF OwnedInv
<1>3. IdleClean'
  BY <1>1, <1>2 DEF IdleClean
<1>4. TablesLoaded'
  <2>1. active[current] \in Mem \cup {NoMem}
    BY DEF MemoryShape, MemoryTypes
  <2> QED
    BY <1>1, <1>2, <2>1 DEF TablesLoaded, Quiet
<1>5. ExecActive' /\ OwnTables'
  BY <1>1, <1>2 DEF ExecActive, OwnTables, Doing, Quiet
<1>6. ASSUME NEW m \in Mem  PROVE RefExact(m)' /\ NoDangling(m)'
  <2>1. Keepers(m)' = Keepers(m)
    BY <1>1 DEF Keepers, Doing, Quiet
  <2>2. Lent(m)' <=> Lent(m)
    BY <1>1 DEF Lent
  <2>3. mem'[m].live = mem[m].live /\ mem'[m].ref = mem[m].ref
    BY DEF Quiet
  <2> QED
    BY <1>1, <1>2, <2>1, <2>2, <2>3 DEF RefExact, NoDangling
<1> QED
  BY <1>3, <1>4, <1>5, <1>6

LEMMA QuietCalls ==
  ASSUME MemoryShape, NEW t \in User, \A u \in User \ {t} : at'[u] = at[u],
         at[t].op \notin {"exec", "exiting"}, at'[t].op \notin {"exec", "exiting"},
         at'[t].old = NoMem, UNCHANGED <<current, cr3, mm, active, halted>>,
         \A m \in Mem : mem'[m].live = mem[m].live /\ mem'[m].ref = mem[m].ref
  PROVE  Quiet
<1>1. at[t].old = NoMem
  BY DEF MemoryShape, StageSound, Doing
<1> QED
  BY <1>1 DEF Quiet

\* A step of a fault writes at most one entry.
FaultWrites ==
  \/ UNCHANGED mem
  \/ \E m \in Mem, p \in Page, e \in EntryType : EntryWritten(m, p, e)

\* It returns, or goes on to the next stage.
CallGoesOn(t) ==
  \/ UNCHANGED at
  \/ Returns(t)
  \/ \E op \in FaultOps, q \in Page, f \in Frame : Becomes(t, op, q, f)

LEMMA FaultCalls ==
  ASSUME MemoryShape, NEW t \in User, NEW p \in Page,
         Write(t, p) \/ CopyOut(t, p) \/ PageFault(t, p) \/ FaultGoesOn(t)
  PROVE  /\ at[t].op \in FaultOps \cup {"user"} /\ mm[t] \in Mem
         /\ CallGoesOn(t) /\ FaultWrites /\ UNCHANGED <<current, cr3, mm, active, halted>>
<1>1. CASE Write(t, p) \/ CopyOut(t, p)
  BY <1>1, Inside DEF Write, CopyOut, Writes, Reads, Runs, Doing, FaultWrites, CallGoesOn
<1>2. CASE PageFault(t, p)
  <2>1. Reads(t, p) /\ Doing(t, "user") /\ mm[t] \in Mem
    <3>1. Reads(t, p)
      BY <1>2 DEF PageFault, TakeBack, FillZero, GetPage, AllocCopy, Missing, Shared, Writes
    <3> QED
      BY <3>1, Inside DEF Reads, Runs
  <2>2. CASE TakeBack(t, p)
    <3> PICK m \in Mem : m = mm[t]
      BY <2>1
    <3>1. Entry(t, p).frame \in Frame
      <4>1. Present(m, p)
        BY <2>2 DEF TakeBack, Shared
      <4> QED
        BY <4>1, FrameOf DEF Entry
    <3> PICK e \in EntryType : e = [frame |-> Entry(t, p).frame, write |-> TRUE]
      BY <3>1, EntryFacts
    <3>2. EntryWritten(mm[t], p, e)
      BY <2>2 DEF TakeBack, MapsTo, EntryWritten
    <3>3. UNCHANGED <<at, current, cr3, mm, active, halted>>
      BY <2>2 DEF TakeBack
    <3> QED
      BY <2>1, <3>2, <3>3 DEF FaultWrites, Doing, CallGoesOn
  <2>3. ASSUME NEW f \in Frame, FillZero(t, p, f)
        PROVE  CallGoesOn(t) /\ FaultWrites /\ UNCHANGED <<current, cr3, mm, active, halted>>
    <3> PICK e \in EntryType : e = [frame |-> f, write |-> TRUE]
      BY EntryFacts
    <3>1. EntryWritten(mm[t], p, e)
      BY <2>3 DEF FillZero, MapsTo, EntryWritten
    <3> QED
      BY <2>1, <2>3, <3>1 DEF FaultWrites, FillZero, CallGoesOn
  <2>4. ASSUME NEW f \in Frame, GetPage(t, p, f) \/ AllocCopy(t, p, f)
        PROVE  CallGoesOn(t) /\ FaultWrites /\ UNCHANGED <<current, cr3, mm, active, halted>>
    BY <2>4 DEF GetPage, AllocCopy, FaultOps, FaultWrites, CallGoesOn
  <2> QED
    BY <1>2, <2>1, <2>2, <2>3, <2>4 DEF PageFault, Doing
<1>3. CASE FaultGoesOn(t)
  <2>1. at[t].op \in FaultOps
    BY <1>3 DEF FaultGoesOn, MapPage, CopyPageFails, MapCopy, DropOld, CopyPage, Runs, Doing, FaultOps
  <2> PICK m \in Mem, q \in Page, g \in Frame : m = mm[t] /\ q = at[t].page /\ g = at[t].frame
    BY <2>1, HeldFrame
  <2> DEFINE Goal == /\ CallGoesOn(t) /\ FaultWrites /\ UNCHANGED <<current, cr3, mm, active, halted>>
  <2>2. ASSUME MapPage(t)  PROVE Goal
    <3> PICK e \in EntryType : e = [frame |-> g, write |-> FALSE]
      BY EntryFacts
    <3>1. EntryWritten(m, q, e)
      BY <2>2 DEF MapPage, MapsTo, EntryWritten
    <3> QED
      BY <2>2, <3>1 DEF FaultWrites, CallGoesOn, MapPage
  <2>3. ASSUME NEW f \in Frame, CopyPage(t, f)  PROVE Goal
    <3> PICK e \in EntryType : e = [frame |-> f, write |-> TRUE]
      BY EntryFacts
    <3>1. EntryWritten(m, q, e)
      BY <2>3 DEF CopyPage, MapsTo, EntryWritten
    <3> QED
      BY <2>3, <3>1 DEF FaultWrites, CallGoesOn, CopyPage
  <2>4. ASSUME CopyPageFails(t) \/ DropOld(t)  PROVE Goal
    BY <2>4 DEF CopyPageFails, DropOld, FaultWrites, CallGoesOn
  <2>5. ASSUME MapCopy(t)  PROVE Goal
    <3>1. Doing(t, "copy")
      BY <2>5 DEF MapCopy, Runs
    <3>3. Present(m, q)
      BY <3>1 DEF MemoryShape, StageSound
    <3> PICK h \in Frame : h = mem[m].pte[q].frame
      BY <3>3, FrameOf
    <3> PICK e \in EntryType : e = [frame |-> g, write |-> TRUE]
      BY EntryFacts
    <3>2. EntryWritten(m, q, e) /\ Becomes(t, "drop", q, h)
      BY <2>5 DEF MapCopy, MapsTo, EntryWritten, Entry
    <3> QED
      BY <2>5, <3>2 DEF FaultWrites, CallGoesOn, MapCopy, FaultOps
  <2>6. at[t].op \in FaultOps \cup {"user"} /\ mm[t] \in Mem /\ Goal
    <3> HIDE DEF Goal
    <3> QED
      BY <1>3, <2>1, <2>2, <2>3, <2>4, <2>5 DEF FaultGoesOn, Goal
  <2> QED
    BY <2>6
<1> QED
  BY <1>1, <1>2, <1>3

LEMMA FaultOwned ==
  ASSUME MemoryShape, OwnedInv, NEW t \in User, NEW p \in Page,
         Write(t, p) \/ CopyOut(t, p) \/ PageFault(t, p) \/ FaultGoesOn(t)
  PROVE  OwnedInv'
<1>1. MemoryTypes /\ StageSound(t) /\ at[t].op \in FaultOps \cup {"user"}
  BY FaultCalls DEF MemoryShape
<1>2. UNCHANGED <<current, cr3, mm, active, halted>> /\ FaultWrites
  BY FaultCalls
<1>3. /\ \A u \in User \ {t} : at'[u] = at[u]
      /\ at'[t].op \notin {"exec", "exiting"} /\ at'[t].old = NoMem
  <2>1. at[t].old = NoMem
    BY <1>1 DEF StageSound, Doing, FaultOps
  <2>2. CASE UNCHANGED at
    BY <1>1, <2>1, <2>2 DEF FaultOps
  <2>3. CASE Returns(t)
    BY <1>1, <2>3, ReturnsStep, StageFacts
  <2>4. ASSUME NEW op \in FaultOps, NEW q \in Page, NEW f \in Frame, Becomes(t, op, q, f)
        PROVE  /\ \A u \in User \ {t} : at'[u] = at[u]
               /\ at'[t].op \notin {"exec", "exiting"} /\ at'[t].old = NoMem
    BY <1>1, <2>4, BecomesStep DEF FaultOps
  <2> QED
    BY <2>2, <2>3, <2>4, FaultCalls DEF CallGoesOn
<1>4. \A m \in Mem : mem'[m].live = mem[m].live /\ mem'[m].ref = mem[m].ref
  <2>1. CASE UNCHANGED mem
    BY <2>1
  <2>2. ASSUME NEW m \in Mem, NEW q \in Page, NEW e \in EntryType, EntryWritten(m, q, e)
        PROVE  \A x \in Mem : mem'[x].live = mem[x].live /\ mem'[x].ref = mem[x].ref
    BY <1>1, <2>2, MapStep
  <2> QED
    BY <1>2, <2>1, <2>2 DEF FaultWrites
<1>5. Quiet
  BY <1>1, <1>2, <1>3, <1>4, QuietCalls DEF FaultOps
<1> QED
  BY <1>5, QuietOwned


LEMMA ForkFailsOwned ==
  ASSUME MemoryShape, OwnedInv, NEW t \in User, NEW n \in 1 .. Pages, NEW q \in Page,
         ForkFails(t, n, q)
  PROVE  OwnedInv'
<1>a. PICK m : m = mm[t]
  OBVIOUS
<1>b. PICK part : part = Entries(m, {p \in Walked(mem[m].vm[n]) : p < q})
  OBVIOUS
<1>c. PICK ps : ps = Entries(m, UNION {Walked(mem[m].vm[i]) : i \in 1 .. n - 1}) \cup part
  OBVIOUS
<1>1. /\ m # NoMem /\ mem' = [mem EXCEPT ![m].pte = ReadOnly(@, ps)]
      /\ UNCHANGED <<at, current, cr3, mm, active, halted>>
  BY <1>a, <1>b, <1>c DEF ForkFails
<1>2. m \in Mem /\ \A p \in ps : mem[m].pte[p] # Absent
  <2>1. m \in Mem
    BY <1>1, <1>a, Inside
  <2> QED
    BY <1>b, <1>c, <2>1, WalkedPages DEF Entries, Present
<1>3. \A x \in Mem : mem'[x].live = mem[x].live /\ mem'[x].ref = mem[x].ref
  <2> DEFINE new == [mem[m] EXCEPT !.pte = ReadOnly(@, ps)]
  <2>1. new.live = mem[m].live /\ new.ref = mem[m].ref
    BY <1>2, ReadOnlyStep DEF MemoryShape
  <2>2. mem' = [mem EXCEPT ![m] = new] /\ mem \in [Mem -> MemoryType]
    BY <1>1 DEF MemoryShape, MemoryTypes
  <2> HIDE DEF new
  <2> QED
    BY <1>2, <2>1, <2>2
<1>4. Quiet
  BY <1>1, <1>3 DEF Quiet
<1> QED
  BY <1>4, QuietOwned

LEMMA ForkOwned ==
  ASSUME MemoryShape, OwnedInv, NEW t \in User, NEW c \in User, NEW m \in Mem, Fork(t, c, m)
  PROVE  OwnedInv'
<1>a. PICK d : d = mm[t]
  OBVIOUS
<1>b. PICK ps : ps = Given(d)
  OBVIOUS
<1>1. /\ d \in Mem /\ d # m /\ mem[d].live /\ ~mem[m].live
      /\ t # c /\ at'[c] = InUser /\ mm'[c] = m /\ active'[c] = m
      /\ UNCHANGED <<current, cr3, halted>>
  BY <1>a, <1>b, ForkStep
<1>2. \A u \in User \ {c} : at'[u] = at[u]
  BY <1>a, <1>b, ForkStep
<1>3. \A u \in Task \ {c} : mm'[u] = mm[u] /\ active'[u] = active[u]
  BY <1>a, <1>b, ForkStep
<1>4. /\ mem'[m].live /\ mem'[m].ref = 1
      /\ \A x \in Mem \ {m} : mem'[x].live = mem[x].live /\ mem'[x].ref = mem[x].ref
  <2>1. \A p \in ps : mem[d].pte[p] # Absent
    BY <1>a, <1>b, ForkStep
  <2>2. /\ ps \in SUBSET Page
        /\ mem'[m] = ChildOf(d, ps) /\ mem'[d] = ParentOf(d, ps)
    BY <1>a, <1>b, ForkStep
  <2>3. \A x \in Mem \ {m, d} : mem'[x] = mem[x]
    BY <1>a, <1>b, ForkStep
  <2>4. mem'[m].live = mem[d].live /\ mem'[m].ref = 1
    <3>1. MemoryTypes /\ d \in Mem /\ ps \in SUBSET Page /\ mem'[m] = ChildOf(d, ps)
      BY <1>1, <2>2 DEF MemoryShape
    <3> QED
      BY <2>1, <3>1, ChildStep
  <2>5. mem'[d].live = mem[d].live /\ mem'[d].ref = mem[d].ref
    <3>1. MemoryTypes /\ d \in Mem /\ mem'[d] = [mem[d] EXCEPT !.pte = ReadOnly(@, ps)]
      BY <1>1, <2>2 DEF MemoryShape, ParentOf
    <3> QED
      BY <2>1, <3>1, ReadOnlyStep
  <2> QED
    BY <1>1, <2>3, <2>4, <2>5
<1>5. /\ Doing(t, "user") /\ current = t /\ ~halted /\ mm[c] = NoMem /\ at[c].old = NoMem
      /\ \A u \in User : mm[u] # m /\ at[u].old # m
      /\ \A u \in Task : active[u] # m
  <2>1. Doing(t, "user") /\ current = t /\ ~halted /\ Doing(c, "unborn") /\ Unused(m)
    BY DEF Fork, Runs
  <2>2. mm[c] = NoMem /\ at[c].old = NoMem
    BY <2>1 DEF MemoryShape, StageSound, Doing, FaultOps
  <2> QED
    BY <2>1, <2>2, UnusedMemory DEF Unused
<1>6. /\ IdleClean /\ TablesLoaded /\ ExecActive /\ OwnTables
      /\ \A x \in Mem : RefExact(x) /\ NoDangling(x)
  BY <1>5 DEF OwnedInv
<1>7. c \in Task /\ t \in Task /\ t \notin Kernel /\ m # NoMem /\ active[c] = NoMem
  BY <1>1, <1>5, <1>6, AddressSpaceAssumption DEF IdleClean, Task
<1>8. IdleClean'
  BY <1>1, <1>3, <1>6, <1>7 DEF IdleClean
<1>9. TablesLoaded'
  <2>1. active[t] \in Mem \cup {NoMem} /\ active'[t] = active[t] /\ active[t] # m
    BY <1>1, <1>3, <1>5, <1>7 DEF MemoryShape, MemoryTypes
  <2> QED
    BY <1>1, <1>4, <1>5, <1>6, <2>1 DEF TablesLoaded
<1>10. ExecActive'
  BY <1>1, <1>2, <1>3, <1>6, StageFacts DEF ExecActive, Doing, Task
<1>11. OwnTables'
  BY <1>1, <1>2, <1>3, <1>5, <1>6, <1>7 DEF OwnTables, Doing
<1>12. ASSUME NEW x \in Mem  PROVE RefExact(x)' /\ NoDangling(x)'
  <2>1. Lent(x)' <=> Lent(x)
    BY <1>1, <1>3, <1>5, <1>7 DEF Lent
  <2>2. CASE x = m
    <3>1. Keepers(m)' = {c}
      <4>1. \A u \in User : ((mm'[u] = m /\ at'[u].op # "exiting") \/ at'[u].old = m) <=> u = c
        BY <1>1, <1>2, <1>3, <1>5, StageFacts DEF Task
      <4> QED
        BY <4>1 DEF Keepers, Doing
    <3>2. ~Lent(m)
      BY <1>1, <1>5, <1>7 DEF Lent
    <3> QED
      BY <1>4, <2>1, <2>2, <3>1, <3>2, RefFirst DEF NoDangling
  <2>3. CASE x # m
    <3>1. Keepers(x)' = Keepers(x)
      <4>1. \A u \in User : ((mm'[u] = x /\ at'[u].op # "exiting") \/ at'[u].old = x)
                              <=> ((mm[u] = x /\ at[u].op # "exiting") \/ at[u].old = x)
        <5> TAKE u \in User
        <5>1. CASE u = c
          BY <1>1, <1>5, <2>3, <5>1, StageFacts, AddressSpaceAssumption
        <5>2. CASE u # c
          BY <1>2, <1>3, <5>2 DEF Task
        <5> QED
          BY <5>1, <5>2
      <4> QED
        BY <4>1 DEF Keepers, Doing
    <3>2. mem'[x].live = mem[x].live /\ mem'[x].ref = mem[x].ref
      BY <1>4, <2>3
    <3> QED
      BY <1>1, <1>6, <2>1, <3>1, <3>2 DEF RefExact, NoDangling
  <2> QED
    BY <2>2, <2>3
<1> QED
  BY <1>8, <1>9, <1>10, <1>11, <1>12 DEF OwnedInv

LEMMA ExecBeginOwned ==
  ASSUME MemoryShape, OwnedInv, NEW t \in User, NEW m \in Mem, ExecBegin(t, m)
  PROVE  OwnedInv'
<1>a. PICK d : d = mm[t]
  OBVIOUS
<1>1. MemoryTypes /\ StageSound(t)
  BY DEF MemoryShape
<1>2. /\ Doing(t, "user") /\ Unused(m) /\ current = t /\ ~halted
      /\ mem' = [mem EXCEPT ![m] = [NoMemory EXCEPT !.live = TRUE, !.ref = 1]]
      /\ at' = [at EXCEPT ![t] = [InUser EXCEPT !.op = "exec", !.old = d]]
      /\ mm' = [mm EXCEPT ![t] = m] /\ active' = [active EXCEPT ![t] = m] /\ cr3' = m
      /\ UNCHANGED <<current, halted>> /\ (d = NoMem => active[t] = NoMem)
  BY <1>a DEF ExecBegin, Runs
<1>3. /\ at[t].old = NoMem /\ t \in Task /\ t \notin Kernel /\ m # NoMem
      /\ \A u \in User : mm[u] # m /\ at[u].old # m
      /\ d \in Mem \cup {NoMem} /\ d # m
  <2>1. t \in Task /\ t \notin Kernel /\ m # NoMem
    BY AddressSpaceAssumption DEF Task
  <2>2. \A u \in User : mm[u] # m /\ at[u].old # m
    BY <1>2, UnusedMemory
  <2>3. at[t].old = NoMem
    BY <1>1, <1>2 DEF StageSound, Doing
  <2> QED
    BY <1>1, <1>a, <2>1, <2>2, <2>3 DEF MemoryTypes
<1>4. /\ mem'[m].live /\ mem'[m].ref = 1
      /\ \A x \in Mem \ {m} : mem'[x] = mem[x]
  BY <1>1, <1>2, NoMemoryFacts DEF MemoryTypes
<1>5. /\ mm'[t] = m /\ active'[t] = m
      /\ \A u \in Task \ {t} : mm'[u] = mm[u] /\ active'[u] = active[u]
  BY <1>1, <1>2, <1>3 DEF MemoryTypes
<1>6. /\ at'[t].op = "exec" /\ at'[t].old = d
      /\ \A u \in User \ {t} : at'[u] = at[u]
  <2>1. /\ [InUser EXCEPT !.op = "exec", !.old = d].op = "exec"
        /\ [InUser EXCEPT !.op = "exec", !.old = d].old = d
    BY DEF InUser
  <2> QED
    BY <1>1, <1>2, <2>1 DEF MemoryTypes
<1>7. /\ IdleClean /\ ExecActive /\ OwnTables
      /\ \A x \in Mem : RefExact(x) /\ NoDangling(x)
  BY <1>2 DEF OwnedInv
<1>8. IdleClean'
  BY <1>2, <1>5, <1>7 DEF IdleClean
<1>9. TablesLoaded'
  BY <1>2, <1>5 DEF TablesLoaded
<1>10. ExecActive' /\ OwnTables'
  BY <1>2, <1>5, <1>6, <1>7 DEF ExecActive, OwnTables, Doing, Task
<1>11. ASSUME NEW x \in Mem  PROVE RefExact(x)' /\ NoDangling(x)'
  <2>1. ~Lent(x)'
    BY <1>2, <1>3, <1>5 DEF Lent
  <2>2. CASE x = m
    <3>1. Keepers(m)' = {t}
      <4>1. \A u \in User : ((mm'[u] = m /\ at'[u].op # "exiting") \/ at'[u].old = m) <=> u = t
        BY <1>3, <1>5, <1>6 DEF Task
      <4> QED
        BY <4>1 DEF Keepers, Doing
    <3> QED
      BY <1>4, <2>1, <2>2, <3>1, RefFirst DEF NoDangling
  <2>3. CASE x # m
    <3>1. Keepers(x)' = Keepers(x)
      <4>1. \A u \in User : ((mm'[u] = x /\ at'[u].op # "exiting") \/ at'[u].old = x)
                              <=> ((mm[u] = x /\ at[u].op # "exiting") \/ at[u].old = x)
        <5> TAKE u \in User
        <5>1. CASE u = t
          BY <1>2, <1>3, <1>5, <1>6, <1>a, <2>3, <5>1, AddressSpaceAssumption DEF Doing
        <5>2. CASE u # t
          BY <1>5, <1>6, <5>2 DEF Task
        <5> QED
          BY <5>1, <5>2
      <4> QED
        BY <4>1 DEF Keepers, Doing
    <3>2. ~Lent(x)
      BY <1>2, <1>a, AddressSpaceAssumption DEF Lent
    <3> QED
      BY <1>4, <1>7, <2>1, <2>3, <3>1, <3>2 DEF RefExact, NoDangling
  <2> QED
    BY <2>2, <2>3
<1> QED
  BY <1>8, <1>9, <1>10, <1>11 DEF OwnedInv


\* The task that runs leaves its call; the memories that are freed had no keeper but
\* that task, and the others keep theirs.
LEMMA LeavesOwned ==
  ASSUME MemoryShape, MemoryShape', OwnedInv, NEW t \in User, current = t, ~halted,
         UNCHANGED <<current, halted>>,
         \A u \in User \ {t} : at'[u] = at[u],
         \A u \in Task \ {t} : mm'[u] = mm[u] /\ active'[u] = active[u],
         \A m \in Mem : mem'[m].live => /\ mem[m].live /\ mem'[m].ref = mem[m].ref
                                        /\ t \in Keepers(m)' <=> t \in Keepers(m)
                                        /\ ~Lent(m) /\ ~Lent(m)',
         at'[t].op # "exec",
         active'[t] # NoMem /\ mem'[active'[t]].live => cr3' = active'[t],
         mm'[t] # NoMem /\ at'[t].op # "exiting" => cr3' = mm'[t]
  PROVE  OwnedInv'
<1>1. /\ IdleClean /\ ExecActive /\ OwnTables
      /\ \A x \in Mem : RefExact(x) /\ NoDangling(x)
  BY DEF OwnedInv
<1>2. t \in Task /\ t \notin Kernel
  BY AddressSpaceAssumption DEF Task
<1>3. IdleClean'
  BY <1>1 DEF IdleClean
<1>4. TablesLoaded'
  BY DEF TablesLoaded
<1>5. ExecActive' /\ OwnTables'
  BY <1>1 DEF ExecActive, OwnTables, Doing, Task
<1>6. ASSUME NEW x \in Mem  PROVE RefExact(x)' /\ NoDangling(x)'
  <2>1. NoDangling(x)'
    BY <1>2 DEF NoDangling
  <2>2. CASE mem'[x].live
    <3>1. \A u \in User : u \in Keepers(x)' <=> u \in Keepers(x)
      <4> TAKE u \in User
      <4>1. CASE u = t
        BY <2>2, <4>1
      <4>2. CASE u # t
        BY <4>2 DEF Keepers, Doing, Task
      <4> QED
        BY <4>1, <4>2
    <3>2. Keepers(x)' = Keepers(x)
      BY <3>1 DEF Keepers
    <3> QED
      BY <1>1, <2>1, <2>2, <3>2, RefKept
  <2> QED
    BY <2>1, <2>2 DEF RefExact
<1> QED
  BY <1>3, <1>4, <1>5, <1>6 DEF OwnedInv

LEMMA ExecSucceedsOwned ==
  ASSUME MemoryShape, MemoryShape', OwnedInv, NEW t \in User, NEW i \in Image, ExecSucceeds(t, i)
  PROVE  OwnedInv'
<1>a. PICK m, old : m = mm[t] /\ old = at[t].old
  OBVIOUS
<1>1. /\ m \in Mem /\ old \in Mem \cup {NoMem} /\ m # old /\ mem[m].live
      /\ Doing(t, "exec") /\ mem'[m].live /\ mem'[m].ref = mem[m].ref
      /\ old # NoMem => mem'[old] = NoMemory
      /\ at'[t] = InUser
      /\ UNCHANGED <<current, cr3, mm, active, halted>>
  BY <1>a, ExecStep
<1>2. \A x \in Mem \ {m, old} : mem'[x] = mem[x]
  BY <1>a, ExecStep
<1>3. \A u \in User \ {t} : at'[u] = at[u]
  BY <1>a, ExecStep
<1>4. current = t /\ ~halted /\ m # NoMem /\ t \in Task
  BY <1>1, AddressSpaceAssumption DEF ExecSucceeds, Runs, Task
<1>5. active[t] = m /\ cr3 = m
  <2>1. ExecActive /\ OwnTables
    BY <1>4 DEF OwnedInv
  <2> QED
    BY <1>1, <1>4, <1>a, <2>1 DEF ExecActive, OwnTables, Doing
<1>6. ASSUME NEW x \in Mem, mem'[x].live
      PROVE  /\ mem[x].live /\ mem'[x].ref = mem[x].ref
             /\ t \in Keepers(x)' <=> t \in Keepers(x)
             /\ ~Lent(x) /\ ~Lent(x)'
  <2>1. x # old
    BY <1>1, <1>4, <1>6, NoMemoryFacts, AddressSpaceAssumption
  <2>2. mem[x].live /\ mem'[x].ref = mem[x].ref
    BY <1>1, <1>2, <1>6, <2>1
  <2>3. ~Lent(x) /\ ~Lent(x)'
    BY <1>1, <1>4, <1>a DEF Lent
  <2>4. t \in Keepers(x)' <=> t \in Keepers(x)
    BY <1>1, <1>a, <2>1, StageFacts, AddressSpaceAssumption DEF Keepers, Doing
  <2> QED
    BY <2>2, <2>3, <2>4
<1>7. at'[t].op = "user"
  BY <1>1, StageFacts
<1>8. mm'[t] = m /\ active'[t] = m /\ cr3' = m
  BY <1>1, <1>5, <1>a
<1>9. \A u \in Task \ {t} : mm'[u] = mm[u] /\ active'[u] = active[u]
  BY <1>1
<1>10. UNCHANGED <<current, halted>>
  BY <1>1
<1> QED
  BY <1>3, <1>4, <1>6, <1>7, <1>8, <1>9, <1>10, LeavesOwned

LEMMA ExecFailsOwned ==
  ASSUME MemoryShape, MemoryShape', OwnedInv, NEW t \in User, ExecFails(t)
  PROVE  OwnedInv'
<1>a. PICK m, old : m = mm[t] /\ old = at[t].old
  OBVIOUS
<1>1. MemoryTypes /\ StageSound(t)
  BY DEF MemoryShape
<1>2. /\ Doing(t, "exec") /\ current = t /\ ~halted /\ at' = [at EXCEPT ![t] = InUser]
      /\ mem' = [mem EXCEPT ![m] = NoMemory] /\ mm' = [mm EXCEPT ![t] = old]
      /\ cr3' = IF old = NoMem THEN cr3 ELSE old
      /\ UNCHANGED <<current, active, halted>>
  BY <1>a DEF ExecFails, Runs
<1>3. /\ m \in Mem /\ old \in Mem \cup {NoMem} /\ m # old /\ m # NoMem /\ t \in Task
  <2>1. m # NoMem
    BY <1>1, <1>2, <1>a DEF StageSound, Doing, FaultOps
  <2>2. old \in Mem \cup {NoMem}
    BY <1>a, HeldFrame DEF StageType
  <2>3. old = m => old = NoMem
    BY <1>a DEF MemoryShape, MemoriesApart
  <2> QED
    BY <1>a, <2>1, <2>2, <2>3, Inside DEF Task
<1>4. /\ mem'[m] = NoMemory /\ ~mem'[m].live
      /\ \A x \in Mem \ {m} : mem'[x] = mem[x]
  BY <1>1, <1>2, <1>3, NoMemoryFacts DEF MemoryTypes
<1>5. /\ at'[t].op = "user" /\ at'[t].old = NoMem
      /\ \A u \in User \ {t} : at'[u] = at[u]
  BY <1>1, <1>2, StageFacts DEF MemoryTypes
<1>6. /\ mm'[t] = old /\ active'[t] = active[t]
      /\ \A u \in Task \ {t} : mm'[u] = mm[u] /\ active'[u] = active[u]
  BY <1>1, <1>2, <1>3 DEF MemoryTypes
<1>7. active[t] = m
  <2>1. ExecActive
    BY <1>2 DEF OwnedInv
  <2> QED
    BY <1>2, <1>a, <2>1 DEF ExecActive
<1>8. ASSUME NEW x \in Mem, mem'[x].live
      PROVE  /\ mem[x].live /\ mem'[x].ref = mem[x].ref
             /\ t \in Keepers(x)' <=> t \in Keepers(x)
             /\ ~Lent(x) /\ ~Lent(x)'
  <2>1. x # m /\ mem[x].live /\ mem'[x].ref = mem[x].ref /\ x # NoMem
    BY <1>4, <1>8, AddressSpaceAssumption
  <2>2. ~Lent(x) /\ ~Lent(x)'
    BY <1>2, <1>7, <2>1 DEF Lent
  <2>3. t \in Keepers(x)' <=> old = x
    BY <1>5, <1>6, <2>1 DEF Keepers, Doing
  <2>4. t \in Keepers(x) <=> old = x
    BY <1>2, <1>a, <2>1 DEF Keepers, Doing
  <2> QED
    BY <2>1, <2>2, <2>3, <2>4
<1>9. /\ active'[t] # NoMem /\ mem'[active'[t]].live => cr3' = active'[t]
      /\ mm'[t] # NoMem /\ at'[t].op # "exiting" => cr3' = mm'[t]
  BY <1>2, <1>4, <1>6, <1>7
<1>10. UNCHANGED <<current, halted>>
  BY <1>2
<1> QED
  BY <1>2, <1>5, <1>6, <1>8, <1>9, <1>10, LeavesOwned

LEMMA ExitMemoryOwned ==
  ASSUME MemoryShape, MemoryShape', OwnedInv, NEW t \in User, ExitMemory(t)
  PROVE  OwnedInv'
<1>a. PICK m : m = mm[t]
  OBVIOUS
<1>1. /\ m \in Mem /\ mem[m].live /\ Doing(t, "user")
      /\ at[t].old = NoMem /\ at'[t].op = "exiting" /\ at'[t].old = NoMem
      /\ mem'[m] = NoMemory /\ UNCHANGED <<current, cr3, mm, active, halted>>
  BY <1>a, ExitStep
<1>2. \A u \in User \ {t} : at'[u] = at[u]
  BY <1>a, ExitStep
<1>3. \A x \in Mem \ {m} : mem'[x] = mem[x]
  BY <1>a, ExitStep
<1>4. current = t /\ ~halted /\ t \in Task /\ m # NoMem
  BY <1>1, AddressSpaceAssumption DEF ExitMemory, Runs, Task
<1>5. active[t] \in Mem \cup {NoMem} /\ TablesLoaded
  BY <1>4 DEF MemoryShape, MemoryTypes, OwnedInv
<1>6. ASSUME NEW x \in Mem, mem'[x].live
      PROVE  /\ mem[x].live /\ mem'[x].ref = mem[x].ref
             /\ t \in Keepers(x)' <=> t \in Keepers(x)
             /\ ~Lent(x) /\ ~Lent(x)'
  <2>1. x # m
    BY <1>1, <1>6, NoMemoryFacts
  <2>2. mem'[x] = mem[x] /\ x # NoMem
    BY <1>3, <2>1, AddressSpaceAssumption
  <2>3. ~Lent(x) /\ ~Lent(x)'
    BY <1>1, <1>4, <1>a DEF Lent
  <2>4. t \notin Keepers(x)' /\ t \notin Keepers(x)
    BY <1>1, <1>a, <2>1, <2>2 DEF Keepers, Doing
  <2> QED
    BY <1>6, <2>2, <2>3, <2>4
<1>7. active'[t] # NoMem /\ mem'[active'[t]].live => cr3' = active'[t]
  <2>1. mem'[active[t]].live /\ active[t] \in Mem => mem[active[t]].live
    BY <1>1, <1>3
  <2> QED
    BY <1>1, <1>4, <1>5, <2>1 DEF TablesLoaded
<1>8. \A u \in Task \ {t} : mm'[u] = mm[u] /\ active'[u] = active[u]
  BY <1>1
<1>9. UNCHANGED <<current, halted>> /\ at'[t].op # "exec"
  BY <1>1
<1> QED
  BY <1>1, <1>2, <1>4, <1>6, <1>7, <1>8, <1>9, LeavesOwned

LEMMA ExitDoneOwned ==
  ASSUME MemoryShape, MemoryShape', OwnedInv, NEW t \in User, ExitDone(t)
  PROVE  OwnedInv'
<1>1. MemoryTypes /\ StageSound(t) /\ at[t] \in StageType
  BY DEF MemoryShape, MemoryTypes
<1>2. /\ Doing(t, "exiting") /\ current = t /\ ~halted
      /\ mm' = [mm EXCEPT ![t] = NoMem] /\ active' = [active EXCEPT ![t] = NoMem]
      /\ at' = [at EXCEPT ![t] = [at[t] EXCEPT !.op = "dead"]]
      /\ UNCHANGED <<current, cr3, mem, halted>>
  BY DEF ExitDone, Runs
<1>3. t \in Task /\ mm[t] # NoMem /\ at[t].old = NoMem
  BY <1>1, <1>2 DEF StageSound, Doing, FaultOps, Task
<1>4. /\ mm'[t] = NoMem /\ active'[t] = NoMem
      /\ \A u \in Task \ {t} : mm'[u] = mm[u] /\ active'[u] = active[u]
  BY <1>1, <1>2, <1>3 DEF MemoryTypes
<1>5. /\ at'[t].op = "dead" /\ at'[t].old = NoMem
      /\ \A u \in User \ {t} : at'[u] = at[u]
  <2>1. /\ [at[t] EXCEPT !.op = "dead"].op = "dead"
        /\ [at[t] EXCEPT !.op = "dead"].old = at[t].old
    BY <1>1 DEF StageType
  <2> QED
    BY <1>1, <1>2, <1>3, <2>1 DEF MemoryTypes
<1>6. ASSUME NEW x \in Mem, mem'[x].live
      PROVE  /\ mem[x].live /\ mem'[x].ref = mem[x].ref
             /\ t \in Keepers(x)' <=> t \in Keepers(x)
             /\ ~Lent(x) /\ ~Lent(x)'
  <2>1. mem[x].live /\ mem'[x].ref = mem[x].ref /\ x # NoMem
    BY <1>2, <1>6, AddressSpaceAssumption
  <2>2. t \notin Keepers(x)' /\ t \notin Keepers(x)
    BY <1>2, <1>3, <1>4, <1>5, <2>1 DEF Keepers, Doing
  <2>3. ~Lent(x) /\ ~Lent(x)'
    BY <1>2, <1>3, <1>4, <2>1 DEF Lent
  <2> QED
    BY <2>1, <2>2, <2>3
<1>7. UNCHANGED <<current, halted>>
  BY <1>2
<1> QED
  BY <1>2, <1>4, <1>5, <1>6, <1>7, LeavesOwned


LEMMA SwitchOwned ==
  ASSUME MemoryShape, OwnedInv, NEW next \in Task, Switch(next)
  PROVE  OwnedInv'
<1>a. PICK prev, a, n : /\ prev = current /\ a = active[prev]
                        /\ n = IF mm[next] = NoMem THEN a ELSE mm[next]
  OBVIOUS
<1>1. /\ ~halted /\ next # prev
      /\ next \in User => at[next].op \notin {"unborn", "exiting", "dead"}
      /\ halted' = ((mm[next] = NoMem \/ mm[prev] = NoMem) /\ Dangling(a))
      /\ current' = next
      /\ cr3' = IF n \in {NoMem, a} THEN cr3 ELSE n
      /\ active' = [t \in Task |-> IF t = next THEN n
                                   ELSE IF t = prev /\ mm[prev] = NoMem THEN NoMem ELSE active[t]]
      /\ UNCHANGED <<mm, at>>
  BY <1>a DEF Switch
<1> SUFFICES ASSUME ~halted'
             PROVE  /\ IdleClean' /\ TablesLoaded' /\ ExecActive' /\ OwnTables'
                    /\ \A x \in Mem : RefExact(x)' /\ NoDangling(x)'
  BY DEF OwnedInv
<1>2. /\ IdleClean /\ TablesLoaded /\ ExecActive /\ OwnTables
      /\ \A x \in Mem : RefExact(x) /\ NoDangling(x)
  BY <1>1 DEF OwnedInv
<1>3. \A m \in Mem : /\ mem'[m].live = mem[m].live
                     /\ mem'[m].ref = IF m = a
                                      THEN mem[m].ref + ((IF mm[next] = NoMem THEN 1 ELSE 0)
                                                         - (IF mm[prev] = NoMem THEN 1 ELSE 0))
                                      ELSE mem[m].ref
  BY <1>a, SwitchStep
<1>4. /\ prev \in Task /\ a \in Mem \cup {NoMem} /\ n \in Mem \cup {NoMem}
      /\ \A k \in Kernel : mm[k] = NoMem
  BY <1>a DEF MemoryShape, MemoryTypes, MemoriesApart
<1>5. mm[next] = NoMem \/ mm[prev] = NoMem => a = NoMem \/ mem[a].live
  BY <1>1 DEF Dangling
<1>6. IdleClean'
  BY <1>1, <1>2, <1>a DEF IdleClean
<1>7. TablesLoaded'
  <2>1. active'[next] = n
    BY <1>1
  <2>2. a # NoMem /\ mem[a].live => cr3 = a
    BY <1>2, <1>a DEF TablesLoaded
  <2>3. n # NoMem => (mem'[n].live <=> mem[n].live)
    BY <1>3, <1>4
  <2> QED
    BY <1>1, <2>1, <2>2, <2>3 DEF TablesLoaded
<1>8. ExecActive'
  <2> SUFFICES ASSUME NEW t \in User, Doing(t, "exec")  PROVE active'[t] = mm[t]
    BY <1>1 DEF ExecActive, Doing
  <2>1. active[t] = mm[t] /\ mm[t] # NoMem
    BY <1>2 DEF ExecActive, MemoryShape, StageSound, Doing
  <2> QED
    BY <1>1, <1>a, <2>1 DEF Task
<1>9. OwnTables'
  <2> SUFFICES ASSUME NEW t \in User, next = t, mm[t] # NoMem, ~Doing(t, "exiting")
               PROVE  cr3' = mm[t]
    BY <1>1 DEF OwnTables, Doing
  <2>1. n = mm[t] /\ mem[mm[t]].live
    BY <1>a DEF MemoryShape, StageSound
  <2>2. n = a => cr3 = a
    BY <1>2, <1>a, <2>1 DEF TablesLoaded
  <2> QED
    BY <1>1, <2>1, <2>2
<1>10. ASSUME NEW x \in Mem
       PROVE  /\ Keepers(x)' = Keepers(x)
              /\ Lent(x) <=> (mm[prev] = NoMem /\ a = x)
              /\ Lent(x)' <=> (mm[next] = NoMem /\ a = x)
  <2>1. Keepers(x)' = Keepers(x)
    BY <1>1 DEF Keepers, Doing
  <2>2. active'[next] = n
    BY <1>1
  <2> QED
    BY <1>1, <1>a, <2>1, <2>2 DEF Lent
<1>11. ASSUME NEW x \in Mem  PROVE RefExact(x)'
  <2> SUFFICES ASSUME mem[x].live
               PROVE  /\ Keepers(x) # {}
                      /\ mem'[x].ref = Cardinality(Keepers(x)) + (IF Lent(x)' THEN 1 ELSE 0)
    BY <1>3, <1>10 DEF RefExact
  <2>1. /\ Keepers(x) # {}
        /\ mem[x].ref = Cardinality(Keepers(x)) + (IF Lent(x) THEN 1 ELSE 0)
    BY <1>2 DEF RefExact
  <2>2. Cardinality(Keepers(x)) \in Nat
    BY KeepersFinite
  <2> DEFINE k == Cardinality(Keepers(x))
             i == IF mm[next] = NoMem THEN 1 ELSE 0  o == IF mm[prev] = NoMem THEN 1 ELSE 0
  <2>3. CASE x = a
    <3>1. mem[x].ref = k + o
      BY <1>10, <2>1, <2>3
    <3>2. mem'[x].ref = mem[x].ref + (i - o)
      BY <1>3, <2>3
    <3>3. i \in Nat /\ o \in Nat /\ k \in Nat
      BY <2>2
    <3>4. mem'[x].ref = k + i
      <4> HIDE DEF i, o, k
      <4> QED
        BY <3>1, <3>2, <3>3
    <3>5. (IF Lent(x)' THEN 1 ELSE 0) = i
      BY <1>10, <2>3
    <3> QED
      BY <2>1, <3>4, <3>5
  <2>4. CASE x # a
    <3>1. ~Lent(x) /\ ~Lent(x)' /\ mem'[x].ref = mem[x].ref
      BY <1>3, <1>10, <2>4
    <3> QED
      BY <2>1, <3>1
  <2> QED
    BY <2>3, <2>4
<1>12. ASSUME NEW x \in Mem  PROVE NoDangling(x)'
  <2> SUFFICES ASSUME ~mem[x].live, mm[next] = NoMem, a = x  PROVE FALSE
    BY <1>3, <1>10 DEF NoDangling
  <2> QED
    BY <1>5, AddressSpaceAssumption
<1> QED
  BY <1>6, <1>7, <1>8, <1>9, <1>11, <1>12

LEMMA InitOwned ==
  ASSUME MemoryInit
  PROVE  OwnedInv
<1>1. \A m \in Mem : ~mem[m].live
  BY NoMemoryFacts DEF MemoryInit
<1>2. \A u \in User : at[u].op \in {"user", "unborn"}
  BY StageFacts DEF MemoryInit
<1>3. PICK t \in User : current = t
  BY DEF MemoryInit
<1>4. /\ \A u \in Task : mm[u] = NoMem /\ active[u] = NoMem
      /\ t \in Task /\ t \notin Kernel
  BY AddressSpaceAssumption DEF MemoryInit, Task
<1>5. IdleClean /\ TablesLoaded /\ ExecActive /\ OwnTables
  BY <1>2, <1>3, <1>4 DEF IdleClean, TablesLoaded, ExecActive, OwnTables, Doing, Task
<1>6. \A x \in Mem : RefExact(x) /\ NoDangling(x)
  BY <1>1, <1>3, <1>4 DEF RefExact, NoDangling
<1> QED
  BY <1>5, <1>6 DEF OwnedInv

LEMMA NextOwned ==
  ASSUME MemoryShape, OwnedInv, [MemoryNext]_memoryVars
  PROVE  OwnedInv'
<1>0. MemoryShape'
  BY NextShape
<1>1. ASSUME NEW t \in User, NEW p \in Page, Write(t, p) \/ CopyOut(t, p) \/ PageFault(t, p)
      PROVE  OwnedInv'
  BY <1>1, FaultOwned
<1>2. ASSUME NEW t \in User, FaultGoesOn(t)  PROVE OwnedInv'
  <2>1. 0 \in Page
    BY PageFacts
  <2> QED
    BY <1>2, <2>1, FaultOwned
<1>3. ASSUME NEW t \in User, NEW c \in User, NEW m \in Mem, Fork(t, c, m)  PROVE OwnedInv'
  BY <1>3, ForkOwned
<1>4. ASSUME NEW t \in User, NEW n \in 1 .. Pages, NEW q \in Page, ForkFails(t, n, q)
      PROVE  OwnedInv'
  BY <1>4, ForkFailsOwned
<1>5. ASSUME NEW t \in User, NEW m \in Mem, ExecBegin(t, m)  PROVE OwnedInv'
  BY <1>5, ExecBeginOwned
<1>6. ASSUME NEW t \in User, NEW i \in Image, ExecSucceeds(t, i)  PROVE OwnedInv'
  BY <1>0, <1>6, ExecSucceedsOwned
<1>7. ASSUME NEW t \in User, ExecFails(t) \/ ExitMemory(t) \/ ExitDone(t)  PROVE OwnedInv'
  BY <1>0, <1>7, ExecFailsOwned, ExitMemoryOwned, ExitDoneOwned
<1>8. ASSUME NEW t \in Task, Switch(t)  PROVE OwnedInv'
  BY <1>8, SwitchOwned
<1>9. CASE Stays \/ UNCHANGED memoryVars
  <2>1. UNCHANGED memoryVars
    BY <1>9 DEF Stays
  <2>2. Quiet
    BY <2>1 DEF memoryVars, Quiet
  <2> QED
    BY <2>2, QuietOwned
<1> QED
  BY <1>1, <1>2, <1>3, <1>4, <1>5, <1>6, <1>7, <1>8, <1>9 DEF MemoryNext

\* Until the machine halts, the count of a TaskMemory is the number of tasks that
\* have it, have put it aside in execve() or go on in it (schedule() and
\* finishScheduling() of task.c), what is freed nobody has any more, and a task
\* that runs in user mode has its own tables loaded.
THEOREM MemoriesAreOwned == MemorySpec => []MemoryOwned
<1> DEFINE Inv == MemoryShape /\ OwnedInv
<1>1. MemoryInit => Inv
  BY InitShape, InitOwned
<1>2. Inv /\ [MemoryNext]_memoryVars => Inv'
  BY NextShape, NextOwned
<1>3. Inv => MemoryOwned
  BY OwnedInvImplies
<1> QED
  BY <1>1, <1>2, <1>3, PTL DEF MemorySpec


-----------------------------------------------------------------------------
(* What is in a memory.                                                    *)

Private(m, p) ==
  mem[m].live /\ p \notin blurred[m] /\ Covered(m, p) =>
    meant[m][p] = IF Present(m, p) THEN frame[mem[m].pte[p].frame].data
                  ELSE Fresh(AreaOf(m, p))

\* What getPage() has read is what the program begins with.
PageRead(t) ==
  Doing(t, "page") => /\ Covered(mm[t], at[t].page) /\ AreaOf(mm[t], at[t].page).file
                      /\ frame[at[t].frame].data = "file"

PrivateInv ==
  /\ \A m \in Mem, p \in Page : Private(m, p)
  /\ \A t \in User : PageRead(t)

DataSame(f) == frame'[f].data = frame[f].data

LEMMA PrivateInvImplies == PrivateInv => MemoryPrivate
BY DEF PrivateInv, MemoryPrivate, Private

LEMMA PrivateKept ==
  ASSUME NEW x \in Mem, NEW q \in Page, Private(x, q),
         mem'[x].live => mem[x].live, mem'[x].vm = mem[x].vm,
         meant'[x][q] = meant[x][q], q \in blurred[x] => q \in blurred'[x],
         (mem'[x].pte[q] = Absent) <=> (mem[x].pte[q] = Absent),
         mem[x].pte[q] # Absent => frame'[mem'[x].pte[q].frame].data = frame[mem[x].pte[q].frame].data
  PROVE  Private(x, q)'
<1>1. Covered(x, q)' = Covered(x, q) /\ AreaOf(x, q)' = AreaOf(x, q)
  BY DEF Covered, AreaOf
<1> SUFFICES ASSUME mem'[x].live, q \notin blurred'[x], Covered(x, q)'
             PROVE  meant'[x][q] = IF mem'[x].pte[q] # Absent
                                   THEN frame'[mem'[x].pte[q].frame].data
                                   ELSE Fresh(AreaOf(x, q))
  BY <1>1 DEF Private, Present
<1>2. meant[x][q] = IF mem[x].pte[q] # Absent THEN frame[mem[x].pte[q].frame].data
                    ELSE Fresh(AreaOf(x, q))
  BY <1>1 DEF Private, Present
<1> QED
  BY <1>2

\* The frames of the other faults stay as they are.
LEMMA ReadsKept ==
  ASSUME MemoryShape, FramesInv, PrivateInv, NEW t \in User,
         \A u \in User \ {t} : at'[u] = at[u] /\ mm'[u] = mm[u],
         \A u \in User \ {t} : mm[u] \in Mem => mem'[mm[u]].vm = mem[mm[u]].vm,
         \A f \in Frame : DataSame(f) \/ Mappings(f) # {} \/ t \in Holders(f) \/ Holders(f) = {},
         PageRead(t)'
  PROVE  \A u \in User : PageRead(u)'
<1> SUFFICES ASSUME NEW u \in User \ {t}, Doing(u, "page")  PROVE PageRead(u)'
  BY DEF PageRead, Doing
<1>1. PageRead(u) /\ at'[u] = at[u] /\ mm'[u] = mm[u]
  BY DEF PrivateInv
<1>2. mm[u] \in Mem /\ at[u].frame \in Frame
  BY HeldFrame DEF Doing, FaultOps
<1>3. Mappings(at[u].frame) = {} /\ Holders(at[u].frame) = {u}
  BY HeldAlone DEF Doing
<1>4. frame'[at[u].frame].data = frame[at[u].frame].data
  BY <1>2, <1>3 DEF DataSame
<1>5. mem'[mm[u]].vm = mem[mm[u]].vm
  BY <1>2
<1> QED
  BY <1>1, <1>4, <1>5 DEF PageRead, Doing, Covered, AreaOf

\* The other entries stay, and what is in their frames.
LEMMA EntriesKept ==
  ASSUME MemoryShape, PrivateInv, NEW x \in Mem, NEW q \in Page,
         mem'[x].live => mem[x].live, mem'[x].vm = mem[x].vm,
         meant'[x][q] = meant[x][q], q \in blurred[x] => q \in blurred'[x],
         (mem'[x].pte[q] = Absent) <=> (mem[x].pte[q] = Absent),
         mem'[x].pte[q].frame = mem[x].pte[q].frame,
         \A f \in Frame : DataSame(f) \/ <<x, q>> \notin Mappings(f)
  PROVE  Private(x, q)'
<1>1. Private(x, q)
  BY DEF PrivateInv
<1>2. CASE mem[x].pte[q] = Absent
  BY <1>1, <1>2, PrivateKept
<1>3. CASE mem[x].pte[q] # Absent
  <2> PICK f \in Frame : f = mem[x].pte[q].frame
    BY <1>3, FrameOf DEF Present
  <2>1. DataSame(f)
    BY MappingsAre
  <2>2. frame'[mem'[x].pte[q].frame].data = frame[mem[x].pte[q].frame].data
    BY <2>1 DEF DataSame
  <2> QED
    BY <1>1, <2>2, PrivateKept
<1> QED
  BY <1>2, <1>3

\* A step that writes one entry.
LEMMA EntryPrivate ==
  ASSUME MemoryShape, PrivateInv, NEW m \in Mem, NEW p \in Page, NEW e \in EntryType,
         EntryWritten(m, p, e), UNCHANGED <<meant, blurred>>,
         \A f \in Frame : DataSame(f) \/ Mappings(f) \subseteq {<<m, p>>}, Private(m, p)'
  PROVE  \A x \in Mem, q \in Page : Private(x, q)'
<1> SUFFICES ASSUME NEW x \in Mem, NEW q \in Page, x # m \/ q # p
             PROVE  Private(x, q)'
  OBVIOUS
<1>1. mem'[x].live = mem[x].live /\ mem'[x].vm = mem[x].vm /\ (x # m => mem'[x] = mem[x])
  BY MapStep DEF MemoryShape
<1>2. mem'[m].pte[q] = IF q = p THEN e ELSE mem[m].pte[q]
  BY MapStep DEF MemoryShape
<1>3. mem'[x].pte[q] = mem[x].pte[q]
  BY <1>1, <1>2
<1>4. \A f \in Frame : DataSame(f) \/ <<x, q>> \notin Mappings(f)
  OBVIOUS
<1> QED
  BY <1>1, <1>3, <1>4, EntriesKept

\* A page that was missing is mapped as the program expects it.
LEMMA FirstEntry ==
  ASSUME MemoryShape, PrivateInv, NEW m \in Mem, NEW p \in Page, NEW e \in EntryType \ {Absent},
         EntryWritten(m, p, e), UNCHANGED <<meant, blurred>>, ~Present(m, p),
         Covered(m, p) => frame'[e.frame].data = Fresh(AreaOf(m, p))
  PROVE  Private(m, p)'
<1>1. mem'[m].live = mem[m].live /\ mem'[m].vm = mem[m].vm
  BY MapStep DEF MemoryShape
<1>2. mem'[m].pte[p] = e
  BY MapStep DEF MemoryShape
<1>3. Covered(m, p)' = Covered(m, p)
  BY <1>1 DEF Covered
<1>4. Private(m, p)
  BY DEF PrivateInv
<1> SUFFICES ASSUME mem[m].live, p \notin blurred[m], Covered(m, p)
             PROVE  meant[m][p] = frame'[e.frame].data
  BY <1>1, <1>2, <1>3 DEF Private, Present
<1> QED
  BY <1>4 DEF Private

\* The vm of each memory after an entry is written.
LEMMA VmKept ==
  ASSUME MemoryShape, NEW m \in Mem, NEW p \in Page, NEW e \in EntryType, EntryWritten(m, p, e)
  PROVE  \A x \in Mem : mem'[x].vm = mem[x].vm
BY MapStep DEF MemoryShape


\* The store itself, and what the kernel writes across copy on write.
LEMMA StorePrivate ==
  ASSUME MemoryShape, FramesInv, PrivateInv, NEW t \in User, NEW p \in Page,
         Write(t, p) \/ CopyOut(t, p)
  PROVE  PrivateInv'
<1>1. /\ Doing(t, "user") /\ Present(mm[t], p) /\ mm[t] # NoMem
      /\ UNCHANGED <<mm, at, mem>> /\ Store(t, p)
  BY DEF Write, CopyOut, Writes, Reads, Runs
<1>a. PICK m \in Mem : m = mm[t]
  BY <1>1, Inside
<1>b. PICK f \in Frame : f = mem[m].pte[p].frame
  BY <1>1, <1>a, FrameOf
<1>2. /\ frame' = [frame EXCEPT ![f] = [frame[f] EXCEPT !.data = "written"]]
      /\ meant' = [meant EXCEPT ![m] = [meant[m] EXCEPT ![p] = "written"]]
  BY <1>1, <1>a, <1>b DEF Store, Entry
<1>3. /\ frame'[f].data = "written" /\ (\A g \in Frame : g # f => DataSame(g))
      /\ meant'[m][p] = "written"
      /\ \A x \in Mem, q \in Page : x # m \/ q # p => meant'[x][q] = meant[x][q]
  BY <1>2 DEF MemoryShape, MemoryTypes, FrameType, DataSame
<1>4. \A x \in Mem, q \in Page :
        /\ q \in blurred[x] => q \in blurred'[x]
        /\ (x # m \/ q # p) /\ <<x, q>> \in Mappings(f) => q \in blurred'[x]
  <2>1. CASE Write(t, p)
    <3>1. UNCHANGED blurred /\ mem[m].pte[p].write
      BY <2>1, <1>a DEF Write, Entry
    <3>2. Mappings(f) = {<<m, p>>}
      BY <1>b, <3>1 DEF FramesInv, WritableAlone
    <3> QED
      BY <3>1, <3>2
  <2>2. CASE CopyOut(t, p)
    <3>1. blurred' = [x \in Mem |-> blurred[x] \cup
            {q \in Page : <<x, q>> \in Mappings(f) \ {<<m, p>>}}]
      BY <2>2, <1>a, <1>b DEF CopyOut, Entry
    <3> QED
      BY <3>1
  <2> QED
    BY <2>1, <2>2
<1>5. ASSUME NEW x \in Mem, NEW q \in Page  PROVE Private(x, q)'
  <2>1. CASE x = m /\ q = p
    <3>1. meant'[m][p] = frame'[mem'[m].pte[p].frame].data /\ Present(m, p)'
      BY <1>1, <1>3, <1>a, <1>b DEF Present
    <3> QED
      BY <2>1, <3>1 DEF Private
  <2>2. CASE (x # m \/ q # p) /\ <<x, q>> \in Mappings(f)
    BY <1>4, <2>2 DEF Private
  <2>3. CASE (x # m \/ q # p) /\ <<x, q>> \notin Mappings(f)
    <3>1. \A g \in Frame : DataSame(g) \/ <<x, q>> \notin Mappings(g)
      BY <1>3, <2>3
    <3>2. meant'[x][q] = meant[x][q] /\ (q \in blurred[x] => q \in blurred'[x])
      BY <1>3, <1>4, <2>3
    <3> QED
      BY <1>1, <3>1, <3>2, EntriesKept
  <2> QED
    BY <2>1, <2>2, <2>3
<1>6. \A u \in User : PageRead(u)'
  <2>1. PageRead(t)'
    BY <1>1 DEF PageRead, Doing
  <2>2. \A g \in Frame : DataSame(g) \/ Mappings(g) # {}
    BY <1>3, <1>b, MappingsAre
  <2> QED
    BY <1>1, <2>1, <2>2, ReadsKept DEF Task
<1> QED
  BY <1>5, <1>6 DEF PrivateInv

\* A page of zeros, and the page of the file.
LEMMA FillZeroPrivate ==
  ASSUME MemoryShape, FramesInv, PrivateInv, NEW t \in User, NEW p \in Page, NEW f \in Frame,
         FillZero(t, p, f)
  PROVE  PrivateInv'
<1>1. /\ Doing(t, "user") /\ ~Present(mm[t], p) /\ mm[t] # NoMem /\ Free(f)
      /\ ~AreaOf(mm[t], p).file /\ UNCHANGED <<mm, at, meant, blurred>>
      /\ frame' = [frame EXCEPT ![f] = NewFrame("zero")]
  BY DEF FillZero, Missing, Reads, Runs
<1>a. PICK m \in Mem : m = mm[t]
  BY <1>1, Inside
<1>b. PICK e \in EntryType \ {Absent} : e = [frame |-> f, write |-> TRUE]
  BY EntryFacts
<1>2. EntryWritten(m, p, e) /\ e.frame = f
  BY <1>a, <1>b DEF FillZero, MapsTo, EntryWritten
<1>3. Mappings(f) = {} /\ Holders(f) = {}
  BY <1>1, FreeFrameUnused
<1>4. frame'[f].data = "zero" /\ \A g \in Frame : g # f => DataSame(g)
  <2>1. NewFrame("zero").data = "zero"
    BY NewFrameType DEF Data
  <2> QED
    BY <1>1, <2>1 DEF MemoryShape, MemoryTypes, DataSame
<1>5. Private(m, p)'
  <2>1. frame'[e.frame].data = Fresh(AreaOf(m, p))
    BY <1>1, <1>2, <1>4, <1>a DEF Fresh
  <2> QED
    BY <1>1, <1>2, <1>a, <2>1, FirstEntry
<1>6. \A x \in Mem, q \in Page : Private(x, q)'
  BY <1>1, <1>2, <1>3, <1>4, <1>5, EntryPrivate
<1>7. \A u \in User : PageRead(u)'
  <2>1. PageRead(t)'
    BY <1>1 DEF PageRead, Doing
  <2>2. \A x \in Mem : mem'[x].vm = mem[x].vm
    BY <1>2, VmKept
  <2>3. \A g \in Frame : DataSame(g) \/ Holders(g) = {}
    BY <1>3, <1>4
  <2> QED
    BY <1>1, <2>1, <2>2, <2>3, ReadsKept DEF Task
<1> QED
  BY <1>6, <1>7 DEF PrivateInv

LEMMA UnmappedPrivate ==
  ASSUME MemoryShape, FramesInv, PrivateInv, NEW t \in User, NEW f \in Frame, Free(f),
         \A g \in Frame : g # f => DataSame(g), \A u \in User \ {t} : at'[u] = at[u],
         UNCHANGED <<mm, mem, meant, blurred>>, PageRead(t)'
  PROVE  PrivateInv'
<1>1. Mappings(f) = {} /\ Holders(f) = {}
  BY FreeFrameUnused
<1>2. ASSUME NEW x \in Mem, NEW q \in Page  PROVE Private(x, q)'
  <2>1. \A g \in Frame : DataSame(g) \/ <<x, q>> \notin Mappings(g)
    BY <1>1
  <2> QED
    BY <2>1, EntriesKept
<1>3. \A u \in User : PageRead(u)'
  <2>1. \A g \in Frame : DataSame(g) \/ Holders(g) = {}
    BY <1>1
  <2> QED
    BY <2>1, ReadsKept DEF Task
<1> QED
  BY <1>2, <1>3 DEF PrivateInv

LEMMA GetPagePrivate ==
  ASSUME MemoryShape, FramesInv, PrivateInv, NEW t \in User, NEW p \in Page, NEW f \in Frame,
         GetPage(t, p, f)
  PROVE  PrivateInv'
<1> DEFINE read == [count |-> 2, cache |-> TRUE, data |-> "file"]
<1>1. /\ Covered(mm[t], p) /\ Free(f) /\ AreaOf(mm[t], p).file
      /\ frame' = [frame EXCEPT ![f] = read] /\ Becomes(t, "page", p, f)
      /\ UNCHANGED <<mm, mem, meant, blurred>>
  BY DEF GetPage, Missing, Reads
<1>2. read.data = "file"
  OBVIOUS
<1> HIDE DEF read
<1>3. frame'[f].data = "file" /\ \A g \in Frame : g # f => DataSame(g)
  BY <1>1, <1>2 DEF MemoryShape, MemoryTypes, DataSame
<1>4. /\ at'[t].op = "page" /\ at'[t].page = p /\ at'[t].frame = f
      /\ \A u \in User \ {t} : at'[u] = at[u]
  BY <1>1, BecomesStep DEF MemoryShape, FaultOps
<1>5. PageRead(t)'
  BY <1>1, <1>3, <1>4 DEF PageRead, Covered, AreaOf
<1> QED
  BY <1>1, <1>3, <1>4, <1>5, UnmappedPrivate

LEMMA AllocCopyPrivate ==
  ASSUME MemoryShape, FramesInv, PrivateInv, NEW t \in User, NEW p \in Page, NEW f \in Frame,
         AllocCopy(t, p, f)
  PROVE  PrivateInv'
<1>1. /\ Free(f) /\ frame' = [frame EXCEPT ![f] = NewFrame("zero")] /\ Becomes(t, "copy", p, f)
      /\ UNCHANGED <<mm, mem, meant, blurred>>
  BY DEF AllocCopy
<1>2. \A g \in Frame : g # f => DataSame(g)
  BY <1>1 DEF MemoryShape, MemoryTypes, DataSame
<1>3. at'[t].op = "copy" /\ \A u \in User \ {t} : at'[u] = at[u]
  BY <1>1, BecomesStep DEF MemoryShape, FaultOps
<1>4. PageRead(t)'
  BY <1>3 DEF PageRead, Doing
<1> QED
  BY <1>1, <1>2, <1>3, <1>4, UnmappedPrivate

LEMMA TakeBackPrivate ==
  ASSUME MemoryShape, FramesInv, PrivateInv, NEW t \in User, NEW p \in Page, TakeBack(t, p)
  PROVE  PrivateInv'
<1>1. /\ Doing(t, "user") /\ Present(mm[t], p) /\ mm[t] # NoMem
      /\ UNCHANGED <<mm, at, frame, meant, blurred>>
  BY DEF TakeBack, Shared, Writes, Reads, Runs
<1>a. PICK m \in Mem : m = mm[t]
  BY <1>1, Inside
<1>b. PICK f \in Frame : f = mem[m].pte[p].frame
  BY <1>1, <1>a, FrameOf
<1>c. PICK e \in EntryType \ {Absent} : e = [frame |-> f, write |-> TRUE]
  BY EntryFacts
<1>2. EntryWritten(m, p, e) /\ e.frame = f
  BY <1>a, <1>b, <1>c DEF TakeBack, MapsTo, EntryWritten, Entry
<1>3. \A g \in Frame : DataSame(g)
  BY <1>1 DEF DataSame
<1>4. Private(m, p)'
  <2>1. mem'[m].live = mem[m].live /\ mem'[m].vm = mem[m].vm
    BY <1>2, MapStep DEF MemoryShape
  <2>2. mem'[m].pte[p] = e
    BY <1>2, MapStep DEF MemoryShape
  <2>3. Private(m, p)
    BY DEF PrivateInv
  <2> QED
    BY <1>1, <1>2, <1>a, <1>b, <2>1, <2>2, <2>3, PrivateKept DEF Present
<1>5. \A x \in Mem, q \in Page : Private(x, q)'
  BY <1>1, <1>2, <1>3, <1>4, EntryPrivate
<1>6. \A u \in User : PageRead(u)'
  <2>1. PageRead(t)'
    BY <1>1 DEF PageRead, Doing
  <2>2. \A x \in Mem : mem'[x].vm = mem[x].vm
    BY <1>2, VmKept
  <2> QED
    BY <1>1, <1>3, <2>1, <2>2, ReadsKept DEF Task
<1> QED
  BY <1>5, <1>6 DEF PrivateInv


\* What the fault maps is the page of the file.
LEMMA MapPagePrivate ==
  ASSUME MemoryShape, FramesInv, PrivateInv, NEW t \in User, MapPage(t)
  PROVE  PrivateInv'
<1>1. Doing(t, "page") /\ Returns(t) /\ UNCHANGED <<mm, frame, meant, blurred>>
  BY DEF MapPage, Runs
<1> PICK m \in Mem, f \in Frame, p \in Page : m = mm[t] /\ f = at[t].frame /\ p = at[t].page
  BY <1>1, HeldFrame DEF Doing, FaultOps
<1> PICK e \in EntryType \ {Absent} : e = [frame |-> f, write |-> FALSE]
  BY EntryFacts
<1>2. EntryWritten(m, p, e) /\ e.frame = f
  BY DEF MapPage, MapsTo, EntryWritten
<1>3. \A g \in Frame : DataSame(g)
  BY <1>1 DEF DataSame
<1>4. AreaOf(m, p).file /\ frame[f].data = "file" /\ ~Present(m, p)
  BY <1>1 DEF PrivateInv, PageRead, MemoryShape, StageSound
<1>5. Private(m, p)'
  <2>1. frame'[e.frame].data = Fresh(AreaOf(m, p))
    BY <1>1, <1>2, <1>4 DEF Fresh
  <2> QED
    BY <1>1, <1>2, <1>4, <2>1, FirstEntry
<1>6. \A x \in Mem, q \in Page : Private(x, q)'
  BY <1>1, <1>2, <1>3, <1>5, EntryPrivate
<1>7. at'[t] = InUser /\ \A u \in User \ {t} : at'[u] = at[u]
  BY <1>1, ReturnsStep DEF MemoryShape
<1>8. PageRead(t)'
  BY <1>7, StageFacts DEF PageRead, Doing
<1>9. \A x \in Mem : mem'[x].vm = mem[x].vm
  BY <1>2, VmKept
<1>10. \A u \in User : PageRead(u)'
  BY <1>1, <1>3, <1>7, <1>8, <1>9, ReadsKept DEF Task
<1> QED
  BY <1>6, <1>10 DEF PrivateInv

LEMMA CopyPagePrivate ==
  ASSUME MemoryShape, FramesInv, PrivateInv, NEW t \in User, NEW f \in Frame, CopyPage(t, f)
  PROVE  PrivateInv'
<1>1. Doing(t, "page") /\ Returns(t) /\ Free(f) /\ UNCHANGED <<mm, meant, blurred>>
  BY DEF CopyPage, Runs
<1> PICK m \in Mem, h \in Frame, p \in Page : m = mm[t] /\ h = at[t].frame /\ p = at[t].page
  BY <1>1, HeldFrame DEF Doing, FaultOps
<1> PICK e \in EntryType \ {Absent} : e = [frame |-> f, write |-> TRUE]
  BY EntryFacts
<1>2. /\ EntryWritten(m, p, e) /\ e.frame = f
      /\ frame' = [frame EXCEPT ![f] = NewFrame("file"), ![h] = Put(frame[h], 1)]
  BY DEF CopyPage, MapsTo, EntryWritten
<1>3. Mappings(h) = {} /\ Holders(h) = {t}
  BY <1>1, HeldAlone DEF Doing
<1>4. Mappings(f) = {} /\ Holders(f) = {} /\ f # h
  BY <1>1, <1>3, FreeFrameUnused
<1>5. frame'[f].data = "file" /\ \A g \in Frame : g \notin {f, h} => DataSame(g)
  <2>1. frame \in [Frame -> FrameType] /\ NewFrame("file").data = "file"
    BY NewFrameType DEF MemoryShape, MemoryTypes, Data
  <2> QED
    BY <1>2, <1>4, <2>1 DEF DataSame
<1>6. AreaOf(m, p).file /\ ~Present(m, p)
  BY <1>1 DEF PrivateInv, PageRead, MemoryShape, StageSound
<1>7. Private(m, p)'
  <2>1. frame'[e.frame].data = Fresh(AreaOf(m, p))
    BY <1>2, <1>5, <1>6 DEF Fresh
  <2> QED
    BY <1>1, <1>2, <1>6, <2>1, FirstEntry
<1>8. \A x \in Mem, q \in Page : Private(x, q)'
  <2>1. \A g \in Frame : DataSame(g) \/ Mappings(g) \subseteq {<<m, p>>}
    BY <1>3, <1>4, <1>5
  <2> QED
    BY <1>1, <1>2, <1>7, <2>1, EntryPrivate
<1>9. at'[t] = InUser /\ \A u \in User \ {t} : at'[u] = at[u]
  BY <1>1, ReturnsStep DEF MemoryShape
<1>10. PageRead(t)'
  BY <1>9, StageFacts DEF PageRead, Doing
<1>11. \A x \in Mem : mem'[x].vm = mem[x].vm
  BY <1>2, VmKept
<1>12. \A g \in Frame : DataSame(g) \/ t \in Holders(g) \/ Holders(g) = {}
  BY <1>3, <1>4, <1>5
<1>13. \A u \in User : PageRead(u)'
  BY <1>1, <1>9, <1>10, <1>11, <1>12, ReadsKept DEF Task
<1> QED
  BY <1>8, <1>13 DEF PrivateInv

LEMMA CopyPageFailsPrivate ==
  ASSUME MemoryShape, FramesInv, PrivateInv, NEW t \in User, CopyPageFails(t)
  PROVE  PrivateInv'
<1>1. Returns(t) /\ UNCHANGED <<mm, mem, frame, meant, blurred>>
  BY DEF CopyPageFails
<1>2. \A g \in Frame : DataSame(g)
  BY <1>1 DEF DataSame
<1>3. \A x \in Mem, q \in Page : Private(x, q)'
  BY <1>1, <1>2, EntriesKept
<1>4. at'[t] = InUser /\ \A u \in User \ {t} : at'[u] = at[u]
  BY <1>1, ReturnsStep DEF MemoryShape
<1>5. PageRead(t)'
  BY <1>4, StageFacts DEF PageRead, Doing
<1>6. \A u \in User : PageRead(u)'
  BY <1>1, <1>2, <1>4, <1>5, ReadsKept DEF Task
<1> QED
  BY <1>3, <1>6 DEF PrivateInv

\* The copy has what the frame has that it takes the place of.
LEMMA MapCopyPrivate ==
  ASSUME MemoryShape, FramesInv, PrivateInv, NEW t \in User, MapCopy(t)
  PROVE  PrivateInv'
<1>1. Doing(t, "copy") /\ UNCHANGED <<mm, meant, blurred>>
  BY DEF MapCopy, Runs
<1> PICK m \in Mem, g \in Frame, p \in Page : m = mm[t] /\ g = at[t].frame /\ p = at[t].page
  BY <1>1, HeldFrame DEF Doing, FaultOps
<1>a. Present(m, p)
  BY <1>1 DEF MemoryShape, StageSound
<1> PICK h \in Frame : h = mem[m].pte[p].frame
  BY <1>a, FrameOf
<1> PICK e \in EntryType \ {Absent} : e = [frame |-> g, write |-> TRUE]
  BY EntryFacts
<1>2. EntryWritten(m, p, e) /\ Becomes(t, "drop", p, h) /\ e.frame = g
  BY DEF MapCopy, MapsTo, EntryWritten, Entry
<1>3. frame'[g].data = frame[h].data /\ \A f \in Frame : f # g => DataSame(f)
  <2>1. frame' = [frame EXCEPT ![g] = [frame[g] EXCEPT !.data = frame[h].data]]
    BY DEF MapCopy, Entry
  <2>2. frame \in [Frame -> FrameType]
    BY DEF MemoryShape, MemoryTypes
  <2> QED
    BY <2>1, <2>2 DEF DataSame, FrameType
<1>4. /\ at'[t].op = "drop"
      /\ \A u \in User \ {t} : at'[u] = at[u]
  BY <1>2, BecomesStep DEF MemoryShape, FaultOps
<1>5. Mappings(g) = {} /\ Holders(g) = {t}
  BY <1>1, HeldAlone DEF Doing
<1>6. Private(m, p)'
  <2>1. mem'[m].live = mem[m].live /\ mem'[m].vm = mem[m].vm
    BY <1>2, MapStep DEF MemoryShape
  <2>2. mem'[m].pte[p] = e
    BY <1>2, MapStep DEF MemoryShape
  <2>3. Private(m, p)
    BY DEF PrivateInv
  <2> QED
    BY <1>1, <1>2, <1>3, <1>a, <2>1, <2>2, <2>3, PrivateKept DEF Present
<1>7. \A x \in Mem, q \in Page : Private(x, q)'
  BY <1>1, <1>2, <1>3, <1>5, <1>6, EntryPrivate
<1>8. PageRead(t)'
  BY <1>4 DEF PageRead, Doing
<1>9. \A x \in Mem : mem'[x].vm = mem[x].vm
  BY <1>2, VmKept
<1>10. \A f \in Frame : DataSame(f) \/ t \in Holders(f)
  BY <1>3, <1>5
<1>11. \A u \in User : PageRead(u)'
  BY <1>1, <1>4, <1>8, <1>9, <1>10, ReadsKept DEF Task
<1> QED
  BY <1>7, <1>11 DEF PrivateInv

\* The frame goes with the last entry: while one maps it, it keeps what it has.
LEMMA DropOldPrivate ==
  ASSUME MemoryShape, FramesInv, PrivateInv, NEW t \in User, DropOld(t)
  PROVE  PrivateInv'
<1>1. Doing(t, "drop") /\ Returns(t) /\ UNCHANGED <<mm, mem, meant, blurred>>
  BY DEF DropOld, Runs
<1> PICK g \in Frame : g = at[t].frame
  BY <1>1, HeldFrame DEF Doing, FaultOps
<1>2. frame \in [Frame -> FrameType] /\ frame' = [frame EXCEPT ![g] = Put(frame[g], 1)]
  BY DEF DropOld, MemoryShape, MemoryTypes
<1>3. at'[t] = InUser /\ \A u \in User \ {t} : at'[u] = at[u]
  BY <1>1, ReturnsStep DEF MemoryShape
<1>4. t \in Holders(g)
  BY DEF Holders
<1>5. DataSame(g) \/ Mappings(g) = {}
  <2> SUFFICES ASSUME Mappings(g) # {}  PROVE Put(frame[g], 1).data = frame[g].data
    BY <1>2 DEF DataSame
  <2> DEFINE a == Cardinality(Mappings(g))  b == Cardinality(Holders(g))
             s == a + leaked[g] + b - 1
  <2>1. CountExact(g) /\ b # 0 /\ a # 0
    BY <1>4, Amounts, EmptyCount DEF FramesInv
  <2>2. a \in Nat /\ leaked[g] \in Nat /\ b \in Nat /\ frame[g] \in FrameType
    BY Amounts
  <2>3. frame[g].count = a + leaked[g] + b + (IF frame[g].cache THEN 1 ELSE 0)
    BY <2>1 DEF CountExact
  <2> HIDE DEF a, b
  <2>4. s \in Nat /\ s # 0 /\ frame[g].count - 1 = s + (IF frame[g].cache THEN 1 ELSE 0)
    BY <2>1, <2>2, <2>3
  <2> HIDE DEF s
  <2> QED
    BY <2>2, <2>4, PutExact
<1>6. \A f \in Frame : f # g => DataSame(f)
  BY <1>2 DEF DataSame
<1>7. ASSUME NEW x \in Mem, NEW q \in Page  PROVE Private(x, q)'
  <2>1. \A f \in Frame : DataSame(f) \/ <<x, q>> \notin Mappings(f)
    BY <1>5, <1>6
  <2> QED
    BY <1>1, <2>1, EntriesKept
<1>8. PageRead(t)'
  BY <1>3, StageFacts DEF PageRead, Doing
<1>9. \A f \in Frame : DataSame(f) \/ t \in Holders(f)
  BY <1>4, <1>6
<1>10. \A u \in User : PageRead(u)'
  BY <1>1, <1>3, <1>8, <1>9, ReadsKept DEF Task
<1> QED
  BY <1>7, <1>10 DEF PrivateInv


\* A step of one task, that may change the memories it has.
LEMMA OwnPrivate ==
  ASSUME MemoryShape, FramesInv, PrivateInv, NEW t \in User, NEW own \in SUBSET Mem,
         \A u \in User \ {t} : at'[u] = at[u] /\ mm'[u] = mm[u] /\ mm[u] \notin own,
         \A x \in Mem \ own : /\ mem'[x].live => mem[x].live
                              /\ mem'[x].vm = mem[x].vm
                              /\ meant'[x] = meant[x] /\ blurred'[x] = blurred[x],
         \A x \in Mem \ own, q \in Page : /\ (mem'[x].pte[q] = Absent) <=> (mem[x].pte[q] = Absent)
                                          /\ mem'[x].pte[q].frame = mem[x].pte[q].frame,
         \A f \in Frame : \/ DataSame(f)
                          \/ Holders(f) = {} /\ Mappings(f) \subseteq own \X Page,
         \A x \in own, q \in Page : Private(x, q)', PageRead(t)'
  PROVE  PrivateInv'
<1>1. ASSUME NEW x \in Mem, NEW q \in Page  PROVE Private(x, q)'
  <2>1. CASE x \in own
    BY <2>1
  <2>2. CASE x \notin own
    <3>1. \A f \in Frame : DataSame(f) \/ <<x, q>> \notin Mappings(f)
      BY <2>2
    <3>2. /\ mem'[x].live => mem[x].live
          /\ mem'[x].vm = mem[x].vm /\ meant'[x][q] = meant[x][q]
          /\ q \in blurred[x] => q \in blurred'[x]
      BY <2>2
    <3>3. /\ (mem'[x].pte[q] = Absent) <=> (mem[x].pte[q] = Absent)
          /\ mem'[x].pte[q].frame = mem[x].pte[q].frame
      BY <2>2
    <3> QED
      BY <3>1, <3>2, <3>3, EntriesKept
  <2> QED
    BY <2>1, <2>2
<1>2. \A u \in User : PageRead(u)'
  <2>1. \A u \in User \ {t} : at'[u] = at[u] /\ mm'[u] = mm[u]
    OBVIOUS
  <2>2. \A u \in User \ {t} : mm[u] \in Mem => mem'[mm[u]].vm = mem[mm[u]].vm
    OBVIOUS
  <2>3. \A f \in Frame : DataSame(f) \/ Holders(f) = {}
    OBVIOUS
  <2> QED
    BY <2>1, <2>2, <2>3, ReadsKept
<1> QED
  BY <1>1, <1>2 DEF PrivateInv

\* Nothing changes but the counts.
LEMMA QuietPrivate ==
  ASSUME MemoryShape, PrivateInv, UNCHANGED <<mm, at, frame, meant, blurred>>,
         \A x \in Mem : /\ mem'[x].live = mem[x].live /\ mem'[x].vm = mem[x].vm
                        /\ mem'[x].pte = mem[x].pte
  PROVE  PrivateInv'
<1>1. ASSUME NEW x \in Mem, NEW q \in Page  PROVE Private(x, q)'
  <2>1. Private(x, q)
    BY DEF PrivateInv
  <2> QED
    BY <2>1, PrivateKept
<1>2. ASSUME NEW t \in User  PROVE PageRead(t)'
  <2>1. PageRead(t)
    BY DEF PrivateInv
  <2> SUFFICES ASSUME Doing(t, "page")
               PROVE  PageRead(t)'
    BY DEF PageRead, Doing
  <2>2. mem'[mm[t]].vm = mem[mm[t]].vm
    BY HeldFrame DEF Doing, FaultOps
  <2> QED
    BY <2>1, <2>2 DEF PageRead, Covered, AreaOf
<1> QED
  BY <1>1, <1>2 DEF PrivateInv

LEMMA SwitchPrivate ==
  ASSUME MemoryShape, PrivateInv, NEW next \in Task, Switch(next)
  PROVE  PrivateInv'
<1>1. UNCHANGED <<mm, at, frame, meant, blurred>>
  BY DEF Switch
<1>2. \A x \in Mem : /\ mem'[x].live = mem[x].live /\ mem'[x].vm = mem[x].vm
                     /\ mem'[x].pte = mem[x].pte
  BY SwitchStep
<1> QED
  BY <1>1, <1>2, QuietPrivate

LEMMA ExitDonePrivate ==
  ASSUME MemoryShape, FramesInv, PrivateInv, NEW t \in User, ExitDone(t)
  PROVE  PrivateInv'
<1>1. /\ mm' = [mm EXCEPT ![t] = NoMem] /\ at' = [at EXCEPT ![t].op = "dead"]
      /\ UNCHANGED <<mem, frame, meant, blurred>>
  BY DEF ExitDone
<1>2. at \in [User -> StageType] /\ mm \in [Task -> Mem \cup {NoMem}] /\ t \in Task
  BY DEF MemoryShape, MemoryTypes, Task
<1>3. at'[t].op = "dead" /\ \A u \in User \ {t} : at'[u] = at[u]
  BY <1>1, <1>2 DEF StageType
<1>4. PageRead(t)'
  BY <1>3 DEF PageRead, Doing
<1>5. \A u \in User \ {t} : mm'[u] = mm[u]
  BY <1>1, <1>2
<1> PICK own \in SUBSET Mem : own = {}
  OBVIOUS
<1>6. \A f \in Frame : DataSame(f)
  BY <1>1 DEF DataSame
<1> QED
  BY <1>1, <1>3, <1>4, <1>5, <1>6, OwnPrivate

LEMMA ExecBeginPrivate ==
  ASSUME MemoryShape, FramesInv, PrivateInv, NEW t \in User, NEW m \in Mem, ExecBegin(t, m)
  PROVE  PrivateInv'
<1> DEFINE new == [NoMemory EXCEPT !.live = TRUE, !.ref = 1]
           stage == [InUser EXCEPT !.op = "exec", !.old = mm[t]]
<1>1. /\ Unused(m) /\ UNCHANGED <<frame, meant, blurred>>
      /\ mem' = [mem EXCEPT ![m] = new] /\ at' = [at EXCEPT ![t] = stage]
      /\ mm' = [mm EXCEPT ![t] = m]
  BY DEF ExecBegin
<1>2. /\ mem \in [Mem -> MemoryType] /\ at \in [User -> StageType] /\ t \in Task
      /\ mm \in [Task -> Mem \cup {NoMem}] /\ \A u \in User : mm[u] # m
  BY <1>1, UnusedMemory DEF MemoryShape, MemoryTypes, Task
<1>3. stage.op = "exec"
  BY StageFacts DEF StageType
<1>4. new.vm = <<>>
  BY NoMemoryFacts
<1> HIDE DEF new, stage
<1>5. at'[t].op = "exec" /\ \A u \in User \ {t} : at'[u] = at[u] /\ mm'[u] = mm[u]
  BY <1>1, <1>2, <1>3
<1>6. mem'[m].vm = <<>> /\ \A x \in Mem \ {m} : mem'[x] = mem[x]
  BY <1>1, <1>2, <1>4
<1>7. ASSUME NEW q \in Page  PROVE Private(m, q)'
  <2>1. ToSet(<<>>) = {}
    BY DEF ToSet
  <2>2. ~Covered(m, q)'
    BY <1>6, <2>1 DEF Covered
  <2> QED
    BY <2>2 DEF Private
<1>8. PageRead(t)'
  BY <1>5 DEF PageRead, Doing
<1>9. \A f \in Frame : DataSame(f)
  BY <1>1 DEF DataSame
<1> PICK own \in SUBSET Mem : own = {m}
  OBVIOUS
<1>10. \A x \in own, q \in Page : Private(x, q)'
  BY <1>7
<1> QED
  BY <1>1, <1>2, <1>5, <1>6, <1>8, <1>9, <1>10, OwnPrivate

LEMMA ExecFailsPrivate ==
  ASSUME MemoryShape, FramesInv, PrivateInv, NEW t \in User, ExecFails(t)
  PROVE  PrivateInv'
<1> PICK m, old : m = mm[t] /\ old = at[t].old
  OBVIOUS
<1>1. /\ Doing(t, "exec") /\ UNCHANGED <<frame, meant, blurred>>
      /\ mem' = [mem EXCEPT ![m] = NoMemory] /\ at' = [at EXCEPT ![t] = InUser]
      /\ mm' = [mm EXCEPT ![t] = old]
  BY DEF ExecFails, Runs
<1>2. StageSound(t) /\ mem \in [Mem -> MemoryType] /\ at \in [User -> StageType]
      /\ mm \in [Task -> Mem \cup {NoMem}] /\ t \in Task
  BY DEF MemoryShape, MemoryTypes, Task
<1>3. m \in Mem
  BY <1>1, <1>2, Inside DEF StageSound, Doing
<1>4. \A u \in User \ {t} : at'[u] = at[u] /\ mm'[u] = mm[u] /\ mm[u] # m
  BY <1>1, <1>2, <1>3, OwnMemories, AddressSpaceAssumption DEF Task
<1>5. ~mem'[m].live /\ \A x \in Mem \ {m} : mem'[x] = mem[x]
  BY <1>1, <1>2, <1>3, NoMemoryFacts
<1>6. PageRead(t)'
  BY <1>1, <1>2, StageFacts DEF PageRead, Doing
<1>7. \A f \in Frame : DataSame(f)
  BY <1>1 DEF DataSame
<1> PICK own \in SUBSET Mem : own = {m}
  BY <1>3
<1>8. \A x \in own, q \in Page : Private(x, q)'
  BY <1>5 DEF Private
<1> QED
  BY <1>1, <1>4, <1>5, <1>6, <1>7, <1>8, OwnPrivate

\* What one still maps or holds is not given back.
LEMMA UnmapData ==
  ASSUME MemoryShape, FramesInv, NEW m \in Mem, Unmap(m), mem'[m].pte = Unmapped,
         \A x \in Mem \ {m} : mem'[x].pte = mem[x].pte, NEW f \in Frame
  PROVE  DataSame(f) \/ (Holders(f) = {} /\ Mappings(f) \subseteq {m} \X Page)
<1> DEFINE a == MappedTo(m, f, WalkedIn(m))
           b == MappedTo(m, f, Page \ WalkedIn(m))
           left == Mappings(f)'
           n == Cardinality(left)  h == Cardinality(Holders(f))
<1>1. /\ frame'[f] = IF a = 0 THEN frame[f] ELSE Put(frame[f], a)
      /\ a \in Nat /\ b \in Nat
  BY WalkedPages, MappedToType DEF Unmap
<1>2. /\ Mappings(f) = left \cup ({m} \X {p \in Page : mem[m].pte[p].frame = f})
      /\ left \subseteq Mappings(f)
      /\ n \in Nat /\ Cardinality(Mappings(f)) = n + a + b
  BY UnmapCounts
<1>3. left = {} => Mappings(f) \subseteq {m} \X Page
  BY <1>2
<1>4. /\ Cardinality(Mappings(f)) \in Nat /\ h \in Nat
      /\ leaked[f] \in Nat /\ frame[f] \in FrameType /\ frame[f].count \in Int
      /\ Holders(f) # {} => h # 0
  BY Amounts, EmptyCount
<1>5. left # {} => n # 0
  <2>1. IsFiniteSet(left)
    BY <1>2, Amounts, FS_Subset
  <2> QED
    BY <2>1, EmptyCount
<1>6. frame[f].count = Cardinality(Mappings(f)) + leaked[f] + h + (IF frame[f].cache THEN 1 ELSE 0)
  BY DEF FramesInv, CountExact
<1> HIDE DEF a, b, n, h, left
<1> SUFFICES ASSUME n # 0 \/ h # 0  PROVE DataSame(f)
  BY <1>3, <1>4, <1>5
<1> DEFINE s == n + b + leaked[f] + h
<1>7. s \in Nat /\ s # 0 /\ frame[f].count - a = s + (IF frame[f].cache THEN 1 ELSE 0)
  BY <1>1, <1>2, <1>4, <1>6
<1> HIDE DEF s
<1>8. CASE a = 0
  BY <1>1, <1>8 DEF DataSame
<1>9. CASE a # 0
  <2>1. a \in Int /\ frame[f] \in FrameType /\ s \in Nat
        /\ frame[f].count - a = s + (IF frame[f].cache THEN 1 ELSE 0)
    BY <1>1, <1>4, <1>7
  <2> PICK fr \in FrameType : fr = frame[f]
    BY <2>1
  <2>2. fr.count - a = s + (IF fr.cache THEN 1 ELSE 0) /\ s # 0
    BY <1>7
  <2>3. Put(fr, a).data = fr.data
    BY <2>1, <2>2, PutExact
  <2> QED
    BY <1>1, <1>9, <2>3 DEF DataSame
<1> QED
  BY <1>8, <1>9

LEMMA ExitMemoryPrivate ==
  ASSUME MemoryShape, FramesInv, PrivateInv, NEW t \in User, ExitMemory(t)
  PROVE  PrivateInv'
<1> PICK m : m = mm[t]
  OBVIOUS
<1>1. /\ m \in Mem /\ Unmap(m) /\ mem'[m].pte = Unmapped /\ ~mem'[m].live
      /\ at'[t].op = "exiting" /\ UNCHANGED mm
  BY ExitStep, NoMemoryFacts
<1>2. \A x \in Mem \ {m} : mem'[x] = mem[x] /\ meant'[x] = meant[x]
  BY ExitStep
<1>3. \A u \in User \ {t} : at'[u] = at[u] /\ mm'[u] = mm[u] /\ mm[u] # m
  <2>1. \A u \in User \ {t} : at'[u] = at[u]
    BY ExitStep
  <2> QED
    BY <1>1, <2>1, OwnMemories, AddressSpaceAssumption DEF Task
<1>4. \A x \in Mem \ {m} : blurred'[x] = blurred[x]
  BY <1>1 DEF Unmap, MemoryShape, MemoryTypes
<1>5. PageRead(t)'
  BY <1>1 DEF PageRead, Doing
<1> PICK own \in SUBSET Mem : own = {m}
  BY <1>1
<1>6. \A x \in own, q \in Page : Private(x, q)'
  BY <1>1 DEF Private
<1>7. \A f \in Frame : DataSame(f) \/ (Holders(f) = {} /\ Mappings(f) \subseteq own \X Page)
  BY <1>1, <1>2, UnmapData
<1> QED
  BY <1>2, <1>3, <1>4, <1>5, <1>6, <1>7, OwnPrivate


\* The program finds in its areas what execve() has mapped there.
LEMMA ExecSucceedsPrivate ==
  ASSUME MemoryShape, FramesInv, PrivateInv, NEW t \in User, NEW i \in Image, ExecSucceeds(t, i)
  PROVE  PrivateInv'
<1> PICK m, old : m = mm[t] /\ old = at[t].old
  OBVIOUS
<1>1. /\ m \in Mem /\ old \in Mem \cup {NoMem} /\ m # old /\ Doing(t, "exec")
      /\ mem'[m].pte = Unmapped /\ mem'[m].vm = Areas(i) /\ at'[t] = InUser /\ UNCHANGED mm
      /\ old # NoMem => old \in Mem /\ mem'[old] = NoMemory /\ Unmap(old)
      /\ old = NoMem => UNCHANGED <<frame, blurred>>
  BY ExecStep
<1>2. \A x \in Mem \ {m, old} : mem'[x] = mem[x]
  BY ExecStep
<1>3. \A u \in User \ {t} : at'[u] = at[u]
  BY ExecStep
<1>4. /\ \A x \in Mem \ {m, old} : meant'[x] = meant[x]
      /\ \A p \in Page : meant'[m][p] =
           IF \E a \in ToSet(Areas(i)) : a.start <= p /\ p < End(a)
           THEN Fresh(CHOOSE a \in ToSet(Areas(i)) : a.start <= p /\ p < End(a)) ELSE "zero"
  BY <1>1 DEF ExecSucceeds
<1>5. \A x \in Mem \ {m, old} : blurred'[x] = blurred[x]
  BY <1>1 DEF Unmap, MemoryShape, MemoryTypes
<1>6. \A u \in User \ {t} : mm'[u] = mm[u] /\ mm[u] \notin {m, old} \cap Mem
  BY <1>1, OwnMemories, AddressSpaceAssumption DEF Task
<1>7. PageRead(t)'
  BY <1>1, StageFacts DEF PageRead, Doing
<1>8. ASSUME NEW q \in Page  PROVE Private(m, q)'
  <2> SUFFICES ASSUME Covered(m, q)'  PROVE meant'[m][q] = Fresh(AreaOf(m, q)')
    <3>1. ~Present(m, q)'
      BY <1>1 DEF Present, Unmapped
    <3> QED
      BY <3>1 DEF Private, Fresh
  <2>1. \E a \in ToSet(Areas(i)) : a.start <= q /\ q < End(a)
    BY <1>1 DEF Covered
  <2>2. AreaOf(m, q)' = CHOOSE a \in ToSet(Areas(i)) : a.start <= q /\ q < End(a)
    BY <1>1 DEF AreaOf
  <2> QED
    BY <1>4, <2>1, <2>2
<1>9. ASSUME NEW q \in Page, old # NoMem  PROVE Private(old, q)'
  BY <1>1, <1>9, NoMemoryFacts DEF Private
<1> PICK own \in SUBSET Mem : own = {m, old} \cap Mem
  OBVIOUS
<1>10. \A x \in own, q \in Page : Private(x, q)'
  BY <1>8, <1>9, AddressSpaceAssumption
<1>11. \A f \in Frame : DataSame(f) \/ (Holders(f) = {} /\ Mappings(f) \subseteq own \X Page)
  <2>1. CASE old = NoMem
    BY <1>1, <2>1 DEF DataSame
  <2>2. CASE old # NoMem
    <3>1. mem[m].pte = Unmapped /\ old \in Mem /\ Unmap(old) /\ mem'[old].pte = Unmapped
      BY <1>1, <2>2, ExecStep, NoMemoryFacts
    <3>2. \A x \in Mem \ {old} : mem'[x].pte = mem[x].pte
      BY <1>1, <1>2, <3>1
    <3>3. \A f \in Frame : DataSame(f) \/ (Holders(f) = {} /\ Mappings(f) \subseteq {old} \X Page)
      BY <3>1, <3>2, UnmapData
    <3> QED
      BY <1>1, <3>1, <3>3
  <2> QED
    BY <2>1, <2>2
<1>12. \A x \in Mem \ own : mem'[x] = mem[x] /\ meant'[x] = meant[x] /\ blurred'[x] = blurred[x]
  BY <1>2, <1>4, <1>5
<1> QED
  BY <1>3, <1>6, <1>7, <1>10, <1>11, <1>12, OwnPrivate

\* What the parent has, the child has, as far as the pages are walked.
LEMMA ForkPrivate ==
  ASSUME MemoryShape, FramesInv, PrivateInv, NEW t \in User, NEW c \in User, NEW m \in Mem,
         Fork(t, c, m)
  PROVE  PrivateInv'
<1>a. PICK d : d = mm[t]
  OBVIOUS
<1>b. PICK ps : ps = Given(d)
  OBVIOUS
<1>1. /\ d \in Mem /\ d # m /\ mem[d].live /\ ~mem[m].live /\ ps \in SUBSET Page
      /\ at'[c] = InUser
      /\ \A p \in ps : mem[d].pte[p] # Absent
  <2>1. d \in Mem /\ d # m /\ mem[d].live /\ ~mem[m].live /\ ps \in SUBSET Page
    BY <1>a, <1>b, ForkStep
  <2>2. at'[c] = InUser
    BY <1>a, <1>b, ForkStep
  <2>3. \A p \in ps : mem[d].pte[p] # Absent
    BY <1>a, <1>b, ForkStep
  <2> QED
    BY <2>1, <2>2, <2>3
<1>c. mem'[m] = ChildOf(d, ps) /\ mem'[d] = ParentOf(d, ps)
  BY <1>a, <1>b, ForkStep
<1>d. meant'[m] = meant[d] /\ blurred'[m] = blurred[d] \cup (Page \ WalkedIn(d))
  BY <1>a, <1>b, ForkStep
<1>2. \A x \in Mem \ {m, d} : mem'[x] = mem[x]
  BY <1>a, <1>b, ForkStep
<1>3. \A x \in Mem \ {m} : meant'[x] = meant[x] /\ blurred'[x] = blurred[x]
  BY <1>a, <1>b, ForkStep
<1>4. \A u \in User \ {c} : at'[u] = at[u]
  BY <1>a, <1>b, ForkStep
<1>5. \A u \in User \ {c} : mm'[u] = mm[u] /\ mm[u] # m
  <2>1. \A u \in Task \ {c} : mm'[u] = mm[u]
    BY <1>a, <1>b, ForkStep
  <2>2. Unused(m)
    BY DEF Fork
  <2> QED
    BY <2>1, <2>2, UnusedMemory DEF Task
<1>6. \A f \in Frame : DataSame(f)
  BY <1>a, <1>b, ForkStep DEF DataSame
<1>7. /\ mem'[d].live = mem[d].live /\ mem'[d].vm = mem[d].vm
      /\ \A p \in Page : /\ mem'[d].pte[p].frame = mem[d].pte[p].frame
                         /\ (mem'[d].pte[p] = Absent) <=> (mem[d].pte[p] = Absent)
  <2>1. /\ mem'[d] = [mem[d] EXCEPT !.pte = ReadOnly(@, ps)]
        /\ MemoryTypes /\ d \in Mem
        /\ \A p \in ps : mem[d].pte[p] # Absent
    BY <1>1, <1>c DEF ParentOf, MemoryShape
  <2>2. mem'[d].live = mem[d].live /\ mem'[d].vm = mem[d].vm
    BY <2>1, ReadOnlyStep
  <2>3. mem'[d].pte = ReadOnly(mem[d].pte, ps)
    BY <2>1, ReadOnlyStep
  <2>4. mem[d].pte \in [Page -> EntryType]
    BY <1>1, Pte DEF MemoryShape
  <2> QED
    BY <2>1, <2>2, <2>3, <2>4, ReadOnlyFacts
<1>8. /\ mem'[m].live = mem[d].live /\ mem'[m].vm = mem[d].vm
      /\ \A p \in ps : mem'[m].pte[p].frame = mem[d].pte[p].frame /\ mem'[m].pte[p] # Absent
      /\ \A p \in Page \ ps : mem'[m].pte[p] = Absent
  <2>1. MemoryTypes /\ d \in Mem /\ ps \in SUBSET Page /\ \A p \in ps : mem[d].pte[p] # Absent
    BY <1>1 DEF MemoryShape
  <2>2. mem'[m] = ChildOf(d, ps)
    BY <1>c
  <2> QED
    BY <2>1, <2>2, ChildStep
<1>9. ASSUME NEW q \in Page  PROVE Private(m, q)'
  <2> SUFFICES ASSUME q \notin blurred'[m], Covered(m, q)'
               PROVE  meant'[m][q] = IF Present(m, q)' THEN frame'[mem'[m].pte[q].frame].data
                                     ELSE Fresh(AreaOf(m, q)')
    BY DEF Private, Fresh
  <2>1. q \notin blurred[d] /\ q \in WalkedIn(d)
    BY <1>d
  <2>2. Covered(d, q) /\ AreaOf(m, q)' = AreaOf(d, q)
    BY <1>8 DEF Covered, AreaOf
  <2>3. Present(d, q) <=> q \in ps
    BY <1>b, <1>1, <2>1 DEF Given, Entries, Present
  <2>4. meant'[m][q] = IF Present(d, q) THEN frame[mem[d].pte[q].frame].data
                       ELSE Fresh(AreaOf(d, q))
    BY <1>1, <1>d, <2>1, <2>2 DEF PrivateInv, Private
  <2>5. CASE q \in ps
    <3>1. mem[d].pte[q].frame \in Frame
      BY <1>1, <2>3, <2>5, FrameOf
    <3> QED
      BY <1>6, <1>8, <2>3, <2>4, <2>5, <3>1 DEF Present, DataSame
  <2>6. CASE q \notin ps
    BY <1>8, <2>2, <2>3, <2>4, <2>6 DEF Present
  <2> QED
    BY <2>5, <2>6
<1>10. PageRead(c)'
  BY <1>1, StageFacts DEF PageRead, Doing
<1>11. PICK own \in SUBSET Mem : own = {m}
  OBVIOUS
<1>12. \A x \in own, q \in Page : Private(x, q)'
  BY <1>9, <1>11
<1>13. \A x \in Mem \ own : /\ mem'[x].live => mem[x].live
                            /\ mem'[x].vm = mem[x].vm
                            /\ meant'[x] = meant[x] /\ blurred'[x] = blurred[x]
  BY <1>2, <1>3, <1>7, <1>11
<1>14. \A x \in Mem \ own, q \in Page : /\ (mem'[x].pte[q] = Absent) <=> (mem[x].pte[q] = Absent)
                                        /\ mem'[x].pte[q].frame = mem[x].pte[q].frame
  BY <1>2, <1>7, <1>11
<1>15. \A u \in User \ {c} : at'[u] = at[u] /\ mm'[u] = mm[u] /\ mm[u] \notin own
  BY <1>4, <1>5, <1>11
<1> QED
  BY <1>6, <1>10, <1>12, <1>13, <1>14, <1>15, OwnPrivate

LEMMA ForkFailsPrivate ==
  ASSUME MemoryShape, FramesInv, PrivateInv, NEW t \in User, NEW n \in 1 .. Pages, NEW q \in Page,
         ForkFails(t, n, q)
  PROVE  PrivateInv'
<1> PICK m : m = mm[t]
  OBVIOUS
<1>a. PICK part : part = Entries(m, {p \in Walked(mem[m].vm[n]) : p < q})
  OBVIOUS
<1>b. PICK ps : ps = Entries(m, UNION {Walked(mem[m].vm[i]) : i \in 1 .. n - 1}) \cup part
  OBVIOUS
<1>1. /\ m # NoMem /\ mem' = [mem EXCEPT ![m].pte = ReadOnly(@, ps)]
      /\ frame' = [f \in Frame |-> [frame[f] EXCEPT !.count = @ + MappedTo(m, f, part)]]
      /\ Doing(t, "user") /\ UNCHANGED <<at, mm, meant, blurred>>
  BY <1>a, <1>b DEF ForkFails, Runs
<1>2. m \in Mem
  BY <1>1, Inside
<1>3. \A p \in ps : mem[m].pte[p] # Absent
  BY <1>a, <1>b, <1>2, WalkedPages
<1>4. /\ mem'[m].live = mem[m].live /\ mem'[m].vm = mem[m].vm
      /\ \A p \in Page : /\ mem'[m].pte[p].frame = mem[m].pte[p].frame
                         /\ (mem'[m].pte[p] = Absent) <=> (mem[m].pte[p] = Absent)
      /\ \A x \in Mem \ {m} : mem'[x] = mem[x]
  <2> DEFINE new == [mem[m] EXCEPT !.pte = ReadOnly(@, ps)]
  <2>1. new.live = mem[m].live /\ new.vm = mem[m].vm /\ new.pte = ReadOnly(mem[m].pte, ps)
    BY <1>2, <1>3, ReadOnlyStep DEF MemoryShape
  <2>2. mem' = [mem EXCEPT ![m] = new] /\ mem \in [Mem -> MemoryType]
    BY <1>1 DEF MemoryShape, MemoryTypes
  <2> HIDE DEF new
  <2>3. mem'[m] = new /\ \A x \in Mem \ {m} : mem'[x] = mem[x]
    BY <1>2, <2>2
  <2> PICK pte \in [Page -> EntryType] : pte = mem[m].pte
    BY <1>2, Pte DEF MemoryShape
  <2>4. \A p \in ps : pte[p] # Absent
    BY <1>3
  <2>5. ASSUME NEW p \in Page
        PROVE  /\ ReadOnly(pte, ps)[p].frame = pte[p].frame
               /\ (ReadOnly(pte, ps)[p] = Absent) <=> (pte[p] = Absent)
    BY <2>4, ReadOnlyFacts
  <2>6. mem'[m].live = mem[m].live /\ mem'[m].vm = mem[m].vm /\ mem'[m].pte = ReadOnly(pte, ps)
    BY <2>1, <2>3
  <2> QED
    BY <2>3, <2>5, <2>6
<1>5. ASSUME NEW f \in Frame  PROVE DataSame(f)
  <2>1. frame[f] \in FrameType /\ frame'[f] = [frame[f] EXCEPT !.count = @ + MappedTo(m, f, part)]
    BY <1>1 DEF MemoryShape, MemoryTypes
  <2> QED
    BY <2>1 DEF DataSame, FrameType
<1>6. PageRead(t)'
  BY <1>1 DEF PageRead, Doing
<1>7. PICK own \in SUBSET Mem : own = {}
  OBVIOUS
<1>8. \A x \in Mem \ own : /\ mem'[x].live => mem[x].live
                           /\ mem'[x].vm = mem[x].vm
                           /\ meant'[x] = meant[x] /\ blurred'[x] = blurred[x]
  BY <1>1, <1>4
<1>9. \A x \in Mem \ own, p \in Page : /\ (mem'[x].pte[p] = Absent) <=> (mem[x].pte[p] = Absent)
                                       /\ mem'[x].pte[p].frame = mem[x].pte[p].frame
  BY <1>4
<1>10. \A u \in User \ {t} : at'[u] = at[u] /\ mm'[u] = mm[u] /\ mm[u] \notin own
  BY <1>1, <1>7
<1>11. \A x \in own, p \in Page : Private(x, p)'
  BY <1>7
<1> QED
  BY <1>5, <1>6, <1>8, <1>9, <1>10, <1>11, OwnPrivate

LEMMA InitPrivate ==
  ASSUME MemoryInit
  PROVE  PrivateInv
<1>1. \A m \in Mem : ~mem[m].live
  BY NoMemoryFacts DEF MemoryInit
<1>2. \A u \in User : at[u].op \in {"user", "unborn"}
  BY StageFacts DEF MemoryInit
<1> QED
  BY <1>1, <1>2 DEF PrivateInv, Private, PageRead, Doing

LEMMA NextPrivate ==
  ASSUME MemoryShape, FramesInv, PrivateInv, [MemoryNext]_memoryVars
  PROVE  PrivateInv'
<1>1. ASSUME NEW t \in User, NEW p \in Page, Write(t, p) \/ CopyOut(t, p)  PROVE PrivateInv'
  BY <1>1, StorePrivate
<1>2. ASSUME NEW t \in User, NEW p \in Page, PageFault(t, p)  PROVE PrivateInv'
  BY <1>2, TakeBackPrivate, FillZeroPrivate, GetPagePrivate, AllocCopyPrivate DEF PageFault
<1>3. ASSUME NEW t \in User, FaultGoesOn(t)  PROVE PrivateInv'
  BY <1>3, MapPagePrivate, CopyPagePrivate, CopyPageFailsPrivate, MapCopyPrivate, DropOldPrivate
     DEF FaultGoesOn
<1>4. ASSUME NEW t \in User, NEW c \in User, NEW m \in Mem, Fork(t, c, m)  PROVE PrivateInv'
  BY <1>4, ForkPrivate
<1>5. ASSUME NEW t \in User, NEW n \in 1 .. Pages, NEW q \in Page, ForkFails(t, n, q)
      PROVE  PrivateInv'
  BY <1>5, ForkFailsPrivate
<1>6. ASSUME NEW t \in User, NEW m \in Mem, ExecBegin(t, m)  PROVE PrivateInv'
  BY <1>6, ExecBeginPrivate
<1>7. ASSUME NEW t \in User, NEW i \in Image, ExecSucceeds(t, i)  PROVE PrivateInv'
  BY <1>7, ExecSucceedsPrivate
<1>8. ASSUME NEW t \in User, ExecFails(t) \/ ExitMemory(t) \/ ExitDone(t)  PROVE PrivateInv'
  BY <1>8, ExecFailsPrivate, ExitMemoryPrivate, ExitDonePrivate
<1>9. ASSUME NEW t \in Task, Switch(t)  PROVE PrivateInv'
  BY <1>9, SwitchPrivate
<1>10. CASE Stays \/ UNCHANGED memoryVars
  <2>1. UNCHANGED memoryVars
    BY <1>10 DEF Stays
  <2> QED
    BY <2>1, QuietPrivate DEF memoryVars
<1> QED
  BY <1>1, <1>2, <1>3, <1>4, <1>5, <1>6, <1>7, <1>8, <1>9, <1>10 DEF MemoryNext

\* What a task finds in its memory is what it, or its parent before the fork, has
\* put there, whatever the other tasks write and however the page got there
\* (doPageFault(), taskForkMemory() and execve()); but for the pages that a fork
\* does not walk and those the kernel has written to across copy on write.
THEOREM MemoriesArePrivate == MemorySpec => []MemoryPrivate
<1> DEFINE Inv == MemoryShape /\ FramesInv /\ PrivateInv
<1>1. MemoryInit => Inv
  BY InitShape, InitFrames, InitPrivate
<1>2. Inv /\ [MemoryNext]_memoryVars => Inv'
  BY NextShape, NextFrames, NextPrivate
<1>3. Inv => MemoryPrivate
  BY PrivateInvImplies
<1> QED
  BY <1>1, <1>2, <1>3, PTL DEF MemorySpec

=============================================================================
