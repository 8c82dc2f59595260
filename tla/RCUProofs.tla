------------------------------- MODULE RCUProofs -------------------------------
(***************************************************************************)
(* What holds of RCU for any tasks, entries and size of the array of       *)
(* callbacks, and then of Dentries, the cache whose look-ups and removals  *)
(* are the users of that lock.                                             *)
(***************************************************************************)
EXTENDS Dentries, ListLemmas, FiniteSetTheorems

-----------------------------------------------------------------------------
(* The inductive invariant.                                                *)

Reading == {t \in Reader : rpc[t] = "read"}

Types ==
  /\ TypeOK
  /\ \A t \in Reader : found[t] # NoEntry => rpc[t] = "read"
  /\ \A w \in Remover : wpc[w] = "out" <=> victim[w] = NoEntry

\* count says how many readers there are.
CountExact == count = Cardinality(Reading)

\* Two removers never have the same entry.
VictimsDiffer ==
  \A v, w \in Remover : victim[v] = victim[w] => v = w \/ victim[v] = NoEntry

\* Whatever a remover frees itself no reader looks at.
FreeUnseen ==
  \A w \in Remover, t \in Reader : wpc[w] = "free" => found[t] # victim[w]

IndInv ==
  Types /\ CountExact /\ VictimsDiffer /\ FreeUnseen /\ FreedOnce /\ CallbacksRemembered

-----------------------------------------------------------------------------

LEMMA ReadingFinite ==
  ASSUME NEW S \in SUBSET Reader
  PROVE  /\ IsFiniteSet(S)
         /\ Cardinality(S) \in Nat
         /\ Cardinality(S) = 0 <=> S = {}
         /\ \A t \in Reader \ S : Cardinality(S \cup {t}) = Cardinality(S) + 1
         /\ \A t \in S : Cardinality(S \ {t}) = Cardinality(S) - 1
<1>1. IsFiniteSet(S)
  BY RCUAssumption, FS_Subset
<1> QED
  BY <1>1, FS_CardinalityType, FS_EmptySet, FS_AddElement, FS_RemoveElement

LEMMA InitInv == Init => IndInv
<1> SUFFICES ASSUME Init PROVE IndInv
  OBVIOUS
<1>1. Types
  BY RCUAssumption, EmptyList DEF Init, Types, TypeOK
<1>2. CountExact
  <2>1. Reading = {}
    BY DEF Init, Reading
  <2> QED
    BY <2>1, ReadingFinite DEF Init, CountExact
<1>3. VictimsDiffer /\ FreeUnseen /\ CallbacksRemembered
  BY DEF Init, VictimsDiffer, FreeUnseen, CallbacksRemembered
<1>4. FreedOnce
  BY EmptyList DEF Init, FreedOnce
<1> QED
  BY <1>1, <1>2, <1>3, <1>4 DEF IndInv

\* Whoever may take part in Reading: a step of one reader changes it by that one.
LEMMA ReadingSteps ==
  ASSUME Types, CountExact, NEW t \in Reader, NEW q, rpc' = [rpc EXCEPT ![t] = q]
  PROVE  /\ Reading' = IF q = "read" THEN Reading \cup {t} ELSE Reading \ {t}
         /\ rpc[t] = "read" /\ q # "read" => count - 1 = Cardinality(Reading')
         /\ rpc[t] # "read" /\ q = "read" => count + 1 = Cardinality(Reading')
         /\ rpc[t] # "read" /\ q # "read" => count = Cardinality(Reading')
<1>1. Reading' = IF q = "read" THEN Reading \cup {t} ELSE Reading \ {t}
  BY DEF Types, TypeOK, Reading
<1>2. Reading \in SUBSET Reader /\ (t \in Reading <=> rpc[t] = "read")
  BY DEF Reading
<1>3. rpc[t] # "read" /\ q # "read" => Reading' = Reading
  BY <1>1, <1>2
<1> QED
  BY <1>1, <1>2, <1>3, ReadingFinite DEF CountExact

\* While count is 0 no reader looks at anything.
LEMMA NobodyReads ==
  ASSUME Types, CountExact
  PROVE  /\ count = 0 <=> \A t \in Reader : rpc[t] # "read"
         /\ count = 0 => \A t \in Reader : found[t] = NoEntry
<1>1. Reading \in SUBSET Reader
  BY DEF Reading
<1>2. count = 0 <=> Reading = {}
  BY <1>1, ReadingFinite DEF CountExact
<1> QED
  BY <1>2 DEF Reading, Types

LEMMA StepInv == IndInv /\ [Next]_vars => IndInv'
<1> SUFFICES ASSUME IndInv, [Next]_vars PROVE IndInv'
  OBVIOUS
<1> USE DEF IndInv
<1>1. ASSUME NEW t \in Reader, ReadLock(t) PROVE IndInv'
  <2>1. Types'
    BY <1>1 DEF ReadLock, Types, TypeOK
  <2>2. CountExact'
    BY <1>1, ReadingSteps DEF ReadLock, CountExact
  <2>3. (VictimsDiffer /\ FreeUnseen /\ FreedOnce)'
    BY <1>1 DEF ReadLock, VictimsDiffer, FreeUnseen, FreedOnce
  <2>4. CallbacksRemembered'
    BY <1>1 DEF ReadLock, CallbacksRemembered, Types, TypeOK
  <2> QED
    BY <2>1, <2>2, <2>3, <2>4
<1>2. ASSUME NEW t \in Reader, ReadUnlock(t) PROVE IndInv'
  <2> DEFINE q == IF count' = 0 THEN "flush" ELSE "out"
  <2>1. q \in {"flush", "out"} /\ rpc' = [rpc EXCEPT ![t] = q]
    BY <1>2 DEF ReadUnlock
  <2>2. count' = Cardinality(Reading')
    BY <1>2, <2>1, ReadingSteps DEF ReadUnlock
  <2>3. Reading' \in SUBSET Reader
    BY DEF Reading
  <2>4. Types'
    <3>1. count' \in Nat
      BY <2>2, <2>3, ReadingFinite
    <3> QED
      BY <1>2, <2>1, <3>1 DEF ReadUnlock, Types, TypeOK
  <2>5. VictimsDiffer' /\ FreedOnce'
    BY <1>2 DEF ReadUnlock, VictimsDiffer, FreedOnce
  <2>6. FreeUnseen'
    <3>1. \A w \in Remover : wpc[w] = "free" => victim[w] # NoEntry
      BY DEF Types
    <3> QED
      BY <1>2, <3>1 DEF ReadUnlock, FreeUnseen, Types, TypeOK
  <2>7. CallbacksRemembered'
    <3>1. CASE count' = 0
      BY <1>2, <3>1 DEF ReadUnlock, CallbacksRemembered, Types, TypeOK
    <3>2. CASE count' # 0
      <4>1. Reading' # {}
        BY <2>2, <2>3, <3>2, ReadingFinite
      <4> QED
        BY <4>1 DEF Reading, CallbacksRemembered
    <3> QED
      BY <3>1, <3>2
  <2> QED
    BY <2>2, <2>4, <2>5, <2>6, <2>7 DEF CountExact
<1>3. ASSUME NEW t \in Reader, Flush(t) PROVE IndInv'
  <2>1. Types'
    BY <1>3, EmptyList, RCUAssumption DEF Flush, Types, TypeOK
  <2>2. CountExact'
    BY <1>3, ReadingSteps DEF Flush, CountExact
  <2>3. VictimsDiffer' /\ FreeUnseen' /\ CallbacksRemembered'
    BY <1>3 DEF Flush, VictimsDiffer, FreeUnseen, CallbacksRemembered
  <2>4. FreedOnce'
    BY <1>3, EmptyList DEF Flush, FreedOnce, Types, TypeOK
  <2> QED
    BY <2>1, <2>2, <2>3, <2>4
<1>4. ASSUME NEW t \in Reader, NEW e \in Entry, Find(t, e) PROVE IndInv'
  <2>1. Types'
    BY <1>4 DEF Find, Types, TypeOK
  <2>2. CountExact'
    BY <1>4 DEF Find, CountExact, Reading
  <2>3. VictimsDiffer' /\ FreedOnce' /\ CallbacksRemembered'
    BY <1>4 DEF Find, VictimsDiffer, FreedOnce, CallbacksRemembered
  <2>4. FreeUnseen'
    BY <1>4 DEF Find, FreeUnseen, FreedOnce, Types, TypeOK
  <2> QED
    BY <2>1, <2>2, <2>3, <2>4
<1>5. ASSUME NEW w \in Remover, NEW e \in Entry, Unhash(w, e) PROVE IndInv'
  <2>1. Types'
    BY <1>5, RCUAssumption DEF Unhash, Types, TypeOK
  <2>2. CountExact'
    BY <1>5 DEF Unhash, CountExact, Reading
  <2>3. VictimsDiffer'
    BY <1>5, RCUAssumption DEF Unhash, VictimsDiffer, FreedOnce, Types, TypeOK
  <2>4. FreeUnseen' /\ CallbacksRemembered'
    BY <1>5 DEF Unhash, FreeUnseen, CallbacksRemembered, Types, TypeOK
  <2>5. FreedOnce'
    BY <1>5, RCUAssumption, ToSetType DEF Unhash, FreedOnce, Types, TypeOK
  <2> QED
    BY <2>1, <2>2, <2>3, <2>4, <2>5
<1>6. ASSUME NEW w \in Remover, TestCount(w) PROVE IndInv'
  <2>1. Types'
    BY <1>6 DEF TestCount, Types, TypeOK
  <2>2. CountExact'
    BY <1>6 DEF TestCount, CountExact, Reading
  <2>3. VictimsDiffer' /\ FreedOnce' /\ CallbacksRemembered'
    BY <1>6 DEF TestCount, VictimsDiffer, FreedOnce, CallbacksRemembered
  <2>4. FreeUnseen'
    BY <1>6, NobodyReads DEF TestCount, FreeUnseen, Types, TypeOK
  <2> QED
    BY <2>1, <2>2, <2>3, <2>4
<1>7. ASSUME NEW w \in Remover, AddCallback(w) PROVE IndInv'
  <2> DEFINE e == victim[w]
  <2>1. e \in Entry /\ place[e] = "removed" /\ e \notin ToSet(callbacks)
    BY <1>7 DEF AddCallback, FreedOnce, Types, TypeOK
  <2>2. /\ callbacks' \in Seq(Entry) /\ Len(callbacks') <= Limit
        /\ ToSet(callbacks') \subseteq ToSet(callbacks) \cup {e}
        /\ IsInjective(callbacks')
    BY <1>7, <2>1, AppendList, RCUAssumption DEF AddCallback, FreedOnce, Types, TypeOK
  <2>3. Types'
    BY <1>7, <2>2 DEF AddCallback, Types, TypeOK
  <2>4. CountExact'
    BY <1>7 DEF AddCallback, CountExact, Reading
  <2>5. VictimsDiffer' /\ FreeUnseen'
    BY <1>7 DEF AddCallback, VictimsDiffer, FreeUnseen, Types, TypeOK
  <2>6. \A v \in Remover : v # w => victim[v] # e
    BY <2>1, RCUAssumption DEF VictimsDiffer
  <2>7. FreedOnce'
    <3>1. place' = place /\ victim' = [victim EXCEPT ![w] = NoEntry]
      BY <1>7 DEF AddCallback
    <3>2. victim' \in [Remover -> Entry \cup {NoEntry}] /\ e # NoEntry
      BY <2>1, <3>1, RCUAssumption DEF Types, TypeOK
    <3>3. \A v \in Remover : victim'[v] # e /\ (victim'[v] = victim[v] \/ victim'[v] = NoEntry)
      BY <2>6, <3>1, <3>2 DEF Types, TypeOK
    <3>4. \A f \in ToSet(callbacks) \cup {e} :
            place[f] = "removed" /\ \A v \in Remover : victim'[v] # f
      <4>1. \A f \in ToSet(callbacks) : f \in Entry
        BY ToSetType DEF Types, TypeOK
      <4> QED
        BY <2>1, <3>3, <4>1, RCUAssumption DEF FreedOnce
    <3>5. \A v \in Remover : victim'[v] # NoEntry => place[victim'[v]] = "removed"
      BY <3>3 DEF FreedOnce
    <3> QED
      BY <2>2, <3>1, <3>4, <3>5 DEF FreedOnce
  <2>8. CallbacksRemembered'
    BY <1>7, NobodyReads DEF AddCallback, CallbacksRemembered
  <2> QED
    BY <2>3, <2>4, <2>5, <2>7, <2>8
<1>8. ASSUME NEW w \in Remover, CallInstead(w) PROVE IndInv'
  <2>1. Types'
    BY <1>8 DEF CallInstead, Types, TypeOK
  <2>2. CountExact'
    BY <1>8 DEF CallInstead, CountExact, Reading
  <2>3. VictimsDiffer' /\ FreedOnce' /\ CallbacksRemembered'
    BY <1>8 DEF CallInstead, VictimsDiffer, FreedOnce, CallbacksRemembered
  <2>4. FreeUnseen'
    BY <1>8, NobodyReads DEF CallInstead, FreeUnseen, Types, TypeOK
  <2> QED
    BY <2>1, <2>2, <2>3, <2>4
<1>9. ASSUME NEW w \in Remover, Free(w) PROVE IndInv'
  <2>1. Types'
    BY <1>9 DEF Free, Types, TypeOK
  <2>2. CountExact'
    BY <1>9 DEF Free, CountExact, Reading
  <2>3. VictimsDiffer' /\ FreeUnseen' /\ CallbacksRemembered'
    BY <1>9 DEF Free, VictimsDiffer, FreeUnseen, CallbacksRemembered, Types, TypeOK
  <2>4. FreedOnce'
    <3> DEFINE e == victim[w]
    <3>1. e \in Entry /\ place' = [place EXCEPT ![e] = "freed"] /\ callbacks' = callbacks
      BY <1>9 DEF Free, Types, TypeOK
    <3>2. victim' = [victim EXCEPT ![w] = NoEntry] /\ victim'[w] = NoEntry
      BY <1>9 DEF Free, Types, TypeOK
    <3>3. \A v \in Remover : v # w => victim'[v] = victim[v] /\ victim[v] # e
      BY <3>1, <3>2, RCUAssumption DEF VictimsDiffer, Types, TypeOK
    <3>4. \A f \in ToSet(callbacks) : f \in Entry /\ f # e /\ f # NoEntry
      BY <3>1, ToSetType, RCUAssumption DEF FreedOnce, Types, TypeOK
    <3>5. \A f \in Entry : f # e => place'[f] = place[f]
      BY <3>1 DEF Types, TypeOK
    <3>6. \A f \in ToSet(callbacks) : place'[f] = "removed" /\ \A v \in Remover : victim'[v] # f
      BY <3>2, <3>3, <3>4, <3>5 DEF FreedOnce
    <3>7. \A v \in Remover : victim'[v] # NoEntry => place'[victim'[v]] = "removed"
      BY <3>2, <3>3, <3>5 DEF FreedOnce, Types, TypeOK
    <3> QED
      BY <3>1, <3>6, <3>7 DEF FreedOnce
  <2> QED
    BY <2>1, <2>2, <2>3, <2>4
<1>10. ASSUME NEW w \in Remover, NEW e \in Entry, Hash(w, e) PROVE IndInv'
  <2>1. Types'
    BY <1>10 DEF Hash, Types, TypeOK
  <2>2. CountExact'
    BY <1>10 DEF Hash, CountExact, Reading
  <2>3. VictimsDiffer' /\ FreeUnseen' /\ CallbacksRemembered'
    BY <1>10 DEF Hash, VictimsDiffer, FreeUnseen, CallbacksRemembered
  <2>4. FreedOnce'
    BY <1>10 DEF Hash, FreedOnce, Types, TypeOK
  <2> QED
    BY <2>1, <2>2, <2>3, <2>4
<1>11. ASSUME UNCHANGED vars PROVE IndInv'
  BY <1>11 DEF vars, Types, TypeOK, CountExact, Reading, VictimsDiffer, FreeUnseen,
    FreedOnce, CallbacksRemembered
<1> QED
  BY <1>1, <1>2, <1>3, <1>4, <1>5, <1>6, <1>7, <1>8, <1>9, <1>10, <1>11 DEF Next

\* The invariant holds of every run.
THEOREM IndInvHolds == Spec => []IndInv
BY InitInv, StepInv, PTL DEF Spec

-----------------------------------------------------------------------------
(* The properties.                                                         *)

\* The type invariant, the size of the array of callbacks included.
THEOREM TypeCorrect == Spec => []TypeOK
<1>1. IndInv => TypeOK
  BY DEF IndInv, Types
<1> QED
  BY <1>1, IndInvHolds, PTL

\* No entry is freed twice, with any number of readers and removers.
THEOREM EntriesAreFreedOnce == Spec => []FreedOnce
<1>1. IndInv => FreedOnce
  BY DEF IndInv
<1> QED
  BY <1>1, IndInvHolds, PTL

\* A stored callback always has a reader who will run it.
THEOREM CallbacksAreRemembered == Spec => []CallbacksRemembered
<1>1. IndInv => CallbacksRemembered
  BY DEF IndInv
<1> QED
  BY <1>1, IndInvHolds, PTL

\* Removers free nothing that a reader has found.
THEOREM RemoversAreSafe == Spec => RemoversSpareReaders
<1> DEFINE Spares ==
      \A t \in Reader, e \in Entry :
        found[t] = e /\ place[e] # "freed" /\ place'[e] = "freed" =>
          \E u \in Reader \ {t} : rpc[u] = "flush"
<1>1. ASSUME IndInv, [Next]_vars PROVE Spares
  <2> USE <1>1 DEF IndInv, Types, TypeOK
  <2>1. ASSUME NEW t \in Reader, ReadLock(t) \/ ReadUnlock(t) PROVE Spares
    BY <2>1 DEF ReadLock, ReadUnlock
  <2>2. ASSUME NEW t \in Reader, Flush(t) PROVE Spares
    BY <2>2, RCUAssumption DEF Flush
  <2>3. ASSUME NEW t \in Reader, NEW e \in Entry, Find(t, e) PROVE Spares
    BY <2>3 DEF Find
  <2>4. ASSUME NEW w \in Remover, TestCount(w) \/ AddCallback(w) \/ CallInstead(w)
        PROVE  Spares
    BY <2>4 DEF TestCount, AddCallback, CallInstead
  <2>5. ASSUME NEW w \in Remover, Free(w) PROVE Spares
    BY <2>5 DEF Free, FreeUnseen
  <2>6. ASSUME NEW w \in Remover, NEW e \in Entry, Unhash(w, e) \/ Hash(w, e)
        PROVE  Spares
    BY <2>6 DEF Unhash, Hash
  <2>7. CASE UNCHANGED vars
    BY <2>7 DEF vars
  <2> QED
    BY <2>1, <2>2, <2>3, <2>4, <2>5, <2>6, <2>7 DEF Next
<1> QED
  BY <1>1, IndInvHolds, PTL DEF Spec, RemoversSpareReaders

\* As long as a single task looks entries up, it never looks at a freed one:
\* the flush that runs the callbacks is its own.
THEOREM OneReaderIsSafe ==
  ASSUME NEW r, Reader = {r}
  PROVE  Spec => []NoFreeWhileRead
<1>1. Init => NoFreeWhileRead
  BY DEF Init, NoFreeWhileRead
<1>2. IndInv /\ NoFreeWhileRead /\ [Next]_vars => NoFreeWhileRead'
  <2> SUFFICES ASSUME IndInv, NoFreeWhileRead, [Next]_vars PROVE NoFreeWhileRead'
    OBVIOUS
  <2> USE DEF IndInv, NoFreeWhileRead, Types, TypeOK
  <2>1. ASSUME NEW t \in Reader, ReadLock(t) \/ ReadUnlock(t) PROVE NoFreeWhileRead'
    BY <2>1 DEF ReadLock, ReadUnlock
  <2>2. ASSUME NEW t \in Reader, Flush(t) PROVE NoFreeWhileRead'
    BY <2>2 DEF Flush
  <2>3. ASSUME NEW t \in Reader, NEW e \in Entry, Find(t, e) PROVE NoFreeWhileRead'
    BY <2>3 DEF Find
  <2>4. ASSUME NEW w \in Remover, TestCount(w) \/ AddCallback(w) \/ CallInstead(w)
        PROVE  NoFreeWhileRead'
    BY <2>4 DEF TestCount, AddCallback, CallInstead
  <2>5. ASSUME NEW w \in Remover, Free(w) PROVE NoFreeWhileRead'
    BY <2>5 DEF Free, FreeUnseen
  <2>6. ASSUME NEW w \in Remover, NEW e \in Entry, Unhash(w, e) \/ Hash(w, e)
        PROVE  NoFreeWhileRead'
    BY <2>6 DEF Unhash, Hash
  <2>7. CASE UNCHANGED vars
    BY <2>7 DEF vars
  <2> QED
    BY <2>1, <2>2, <2>3, <2>4, <2>5, <2>6, <2>7 DEF Next
<1> QED
  BY <1>1, <1>2, IndInvHolds, PTL DEF Spec

-----------------------------------------------------------------------------
(* The cache of directory entries.  Its tasks use the lock as RCU says,    *)
(* but for one step: an entry that is being destroyed is passed over.      *)

Passes(t) ==
  /\ found[t] # NoEntry
  /\ found' = [found EXCEPT ![t] = NoEntry]
  /\ UNCHANGED <<count, callbacks, place, rpc, wpc, victim>>

\* Where a task is, in the cache and in the lock, and what it has there.
Links(t) ==
  /\ rpc[t] = "read" <=> pc[t] \in {"look", "again"}
  /\ rpc[t] = "flush" => pc[t] \in {"down", "create", "up", "held"}
  /\ wpc[t] # "out" <=> pc[t] = "remove"
  /\ target[t] # NoEntry <=> pc[t] \in {"destroy", "marked"}
  /\ hold[t] # NoEntry => pc[t] \in {"look", "again", "up", "held"}
  /\ pc[t] = "held" => hold[t] # NoEntry
  /\ sem = t <=> pc[t] \in {"again", "create", "up"}
  /\ chain[t] # {} => rpc[t] = "read"

TasksLinked == DentriesTypeOK /\ \A t \in Reader : Links(t)

LEMMA DentriesSteps ==
  ASSUME TasksLinked, [DentriesNext]_dvars
  PROVE  [Next]_vars \/ \E t \in Reader : Passes(t)
<1>1. CASE UNCHANGED dvars
  BY <1>1 DEF dvars
<1>2. ASSUME NEW t \in Reader, NEW e \in Entry, Meet(t, e) \/ Create(t, e)
      PROVE  [Next]_vars
  BY <1>2, DentriesAssumption DEF Meet, Create, Next
<1>3. ASSUME NEW t \in Reader,
        Grab(t) \/ Leave(t) \/ RunCallbacks(t) \/ Down(t) \/ CreateFails(t) \/ Up(t)
      PROVE  [Next]_vars
  BY <1>3 DEF Grab, Leave, RunCallbacks, Down, Enter, CreateFails, Up, Next
<1>4. ASSUME NEW t \in Reader, Mark(t) \/ Drop(t) \/ Dispose(t)
      PROVE  [Next]_vars
  BY <1>4, DentriesAssumption DEF Mark, Drop, Dispose, Next
<1>5. ASSUME NEW t \in Reader, NEW n \in Name, LookUp(t, n)
      PROVE  [Next]_vars
  BY <1>5 DEF LookUp, Enter, Next
<1>6. ASSUME NEW t \in Reader, Discard(t)
      PROVE  Passes(t)
  BY <1>6 DEF Discard, Passes
<1>7. ASSUME NEW t \in Reader, TakeOut(t)
      PROVE  [Next]_vars
  <2>1. target[t] \in Entry
    BY <1>7 DEF TakeOut, At, TasksLinked, DentriesTypeOK, Links
  <2> QED
    BY <1>7, <2>1, DentriesAssumption DEF TakeOut, Next
<1> QED
  BY <1>1, <1>2, <1>3, <1>4, <1>5, <1>6, <1>7 DEF DentriesNext, Step

\* So all that is proved of the lock holds for its users.
LEMMA PassesInv == ASSUME IndInv, NEW t \in Reader, Passes(t) PROVE IndInv'
<1> USE DEF IndInv, Passes
<1>1. Types'
  BY DEF Types, TypeOK
<1>2. CountExact' /\ VictimsDiffer' /\ FreedOnce' /\ CallbacksRemembered'
  BY DEF CountExact, Reading, VictimsDiffer, FreedOnce, CallbacksRemembered
<1>3. FreeUnseen'
  <2>1. \A w \in Remover : wpc[w] = "free" => victim[w] # NoEntry
    BY DEF Types
  <2> QED
    BY <2>1 DEF FreeUnseen, Types, TypeOK
<1> QED
  BY <1>1, <1>2, <1>3

LEMMA LinkedInit == DentriesInit => TasksLinked
BY RCUAssumption, DentriesAssumption
  DEF DentriesInit, Init, TasksLinked, DentriesTypeOK, Places, Links

LEMMA LinkedStep == IndInv /\ TasksLinked /\ [DentriesNext]_dvars => TasksLinked'
<1> SUFFICES ASSUME IndInv, TasksLinked, [DentriesNext]_dvars PROVE TasksLinked'
  OBVIOUS
<1> USE RCUAssumption, DentriesAssumption
    DEF IndInv, Types, TypeOK, TasksLinked, DentriesTypeOK, Places, Links, At, Goes
<1>1. ASSUME NEW t \in Reader, NEW e \in Entry, Meet(t, e) PROVE TasksLinked'
  BY <1>1 DEF Meet, Walking, Find, vars
<1>2. ASSUME NEW t \in Reader, NEW e \in Entry, Create(t, e) PROVE TasksLinked'
  BY <1>2 DEF Create, Hash
<1>3. ASSUME NEW t \in Reader, Grab(t) PROVE TasksLinked'
  BY <1>3 DEF Grab, Walking, vars
<1>4. ASSUME NEW t \in Reader, Discard(t) PROVE TasksLinked'
  BY <1>4 DEF Discard, Walking
<1>5. ASSUME NEW t \in Reader, Leave(t) PROVE TasksLinked'
  BY <1>5 DEF Leave, ReadUnlock
<1>6. ASSUME NEW t \in Reader, RunCallbacks(t) PROVE TasksLinked'
  BY <1>6 DEF RunCallbacks, Flush
<1>7. ASSUME NEW t \in Reader, Down(t) PROVE TasksLinked'
  BY <1>7 DEF Down, Enter, ReadLock, Hashed
<1>8. ASSUME NEW t \in Reader, CreateFails(t) PROVE TasksLinked'
  BY <1>8 DEF CreateFails, vars
<1>9. ASSUME NEW t \in Reader, Up(t) PROVE TasksLinked'
  <2>1. DentriesTypeOK'
    BY <1>9 DEF Up, vars
  <2>2. Links(t)'
    BY <1>9 DEF Up, vars
  <2>3. ASSUME NEW u \in Reader, u # t PROVE Links(u)'
    <3>1. sem = t /\ pc'[u] = pc[u] /\ sem' # u
      BY <1>9, <2>3 DEF Up
    <3>2. UNCHANGED <<rpc, wpc, target, hold, chain>>
      BY <1>9 DEF Up, vars
    <3> QED
      BY <2>3, <3>1, <3>2
  <2> QED
    BY <2>1, <2>2, <2>3
<1>10. ASSUME NEW t \in Reader, Mark(t) PROVE TasksLinked'
  <2>0. t \in Reader /\ target = [target EXCEPT ![t] = target[t]] /\ target[t] # NoEntry
    BY <1>10 DEF Mark
  <2>1. PICK p \in {"marked", "out"}, d \in Entry \cup {NoEntry} :
          /\ pc' = [pc EXCEPT ![t] = p] /\ target' = [target EXCEPT ![t] = d]
          /\ d # NoEntry <=> p = "marked"
    BY <1>10, <2>0 DEF Mark
  <2>2. ref' \in [Entry -> Int]
    BY <1>10 DEF Mark
  <2>3. UNCHANGED <<name, want, chain, hold, sem, rpc, wpc>>
    BY <1>10 DEF Mark, vars
  <2>4. pc[t] = "destroy" /\ rpc[t] = "out" /\ wpc[t] = "out"
    BY <1>10 DEF Mark
  <2>5. DentriesTypeOK'
    BY <2>1, <2>2, <2>3
  <2>6. Links(t)'
    BY <2>1, <2>3, <2>4
  <2>7. ASSUME NEW u \in Reader, u # t PROVE Links(u)'
    <3>1. pc'[u] = pc[u] /\ target'[u] = target[u]
      BY <2>1, <2>7
    <3> QED
      BY <2>3, <3>1
  <2> QED
    BY <2>5, <2>6, <2>7
<1>11. ASSUME NEW t \in Reader, TakeOut(t) PROVE TasksLinked'
  BY <1>11 DEF TakeOut, Unhash
<1>12. ASSUME NEW t \in Reader, Dispose(t) PROVE TasksLinked'
  BY <1>12 DEF Dispose, TestCount, AddCallback, CallInstead, Free
<1>13. ASSUME NEW t \in Reader, Drop(t) PROVE TasksLinked'
  BY <1>13 DEF Drop, vars
<1>14. ASSUME NEW t \in Reader, NEW n \in Name, LookUp(t, n) PROVE TasksLinked'
  BY <1>14 DEF LookUp, Enter, ReadLock, Hashed
<1>15. CASE UNCHANGED dvars
  BY <1>15 DEF dvars, vars
<1> QED
  BY <1>1, <1>2, <1>3, <1>4, <1>5, <1>6, <1>7, <1>8, <1>9, <1>10, <1>11, <1>12,
    <1>13, <1>14, <1>15 DEF DentriesNext, Step

Linked == IndInv /\ TasksLinked

LEMMA LinkedInv ==
  /\ DentriesInit => Linked
  /\ Linked /\ [DentriesNext]_dvars => Linked'
<1>1. DentriesInit => Linked
  BY InitInv, LinkedInit DEF DentriesInit, Linked
<1>2. Linked /\ [DentriesNext]_dvars => Linked'
  BY StepInv, DentriesSteps, PassesInv, LinkedStep DEF Linked
<1> QED
  BY <1>1, <1>2

-----------------------------------------------------------------------------
(* The counts of the entries.                                              *)

\* Only an entry in the cache has a count, and it is the number of tasks that
\* refer to it; nobody refers to one that is being destroyed.
CountsSound ==
  \A e \in Entry :
    /\ ref[e] >= 0 => place[e] = "hashed" /\ ref[e] = Cardinality(Holders(e))
    /\ ref[e] < 0 => ref[e] = -1 /\ Holders(e) = {}

\* An entry that was marked is still in the cache, and one task will take it out.
MarkedSound ==
  \A t \in Reader : pc[t] = "marked" =>
    /\ place[target[t]] = "hashed" /\ ref[target[t]] = -1
    /\ \A u \in Reader : pc[u] = "marked" /\ target[u] = target[t] => u = t

\* There are not two entries of one name, but for those that are being destroyed.
NamesDiffer ==
  \A d, e \in Entry : ref[d] >= 0 /\ ref[e] >= 0 /\ name[d] = name[e] => d = e

Counted == CountsSound /\ MarkedSound /\ NamesDiffer

\* A step that changes no count, and frees at most entries that were removed.
Quiet ==
  /\ UNCHANGED <<ref, name, hold>>
  /\ \A e \in Entry : place'[e] = place[e] \/ place[e] = "removed"
  /\ \A t \in Reader : pc'[t] = "marked" => pc[t] = "marked" /\ target'[t] = target[t]

LEMMA QuietSteps ==
  ASSUME Linked, NEW t \in Reader,
         \/ \E e \in Entry : Meet(t, e)
         \/ Discard(t) \/ Leave(t) \/ RunCallbacks(t) \/ Down(t) \/ CreateFails(t)
         \/ Up(t) \/ Dispose(t) \/ \E n \in Name : LookUp(t, n)
  PROVE  Quiet
<1> USE RCUAssumption, DentriesAssumption
    DEF Linked, IndInv, Types, TypeOK, TasksLinked, DentriesTypeOK, Links, Goes, Quiet
<1>1. ASSUME NEW e \in Entry, Meet(t, e) PROVE Quiet
  BY <1>1 DEF Meet, Find, vars
<1>2. CASE Discard(t)
  BY <1>2 DEF Discard
<1>3. CASE Leave(t)
  BY <1>3 DEF Leave, ReadUnlock
<1>4. CASE RunCallbacks(t)
  <2>1. UNCHANGED <<ref, name, hold, pc, target>>
    BY <1>4 DEF RunCallbacks
  <2>2. \A e \in ToSet(callbacks) : place[e] = "removed"
    BY DEF FreedOnce
  <2>3. \A e \in Entry : place'[e] = place[e] \/ place[e] = "removed"
    BY <1>4, <2>2 DEF RunCallbacks, Flush
  <2> QED
    BY <2>1, <2>3
<1>5. CASE Down(t) \/ \E n \in Name : LookUp(t, n)
  BY <1>5 DEF Down, LookUp, Enter, ReadLock
<1>6. CASE CreateFails(t) \/ Up(t)
  BY <1>6 DEF CreateFails, Up, vars
<1>7. CASE Dispose(t)
  <2>1. victim[t] # NoEntry => place[victim[t]] = "removed"
    BY DEF FreedOnce
  <2>2. \A e \in Entry : place'[e] = place[e] \/ place[e] = "removed"
    BY <1>7, <2>1 DEF Dispose, TestCount, AddCallback, CallInstead, Free
  <2> QED
    BY <1>7, <2>2 DEF Dispose
<1> QED
  BY <1>1, <1>2, <1>3, <1>4, <1>5, <1>6, <1>7

LEMMA QuietInv == ASSUME Linked, Counted, Quiet PROVE Counted'
<1> USE DEF Counted, Quiet, Linked, TasksLinked, DentriesTypeOK, Links
<1>1. CountsSound'
  <2>1. \A e \in Entry : Holders(e)' = Holders(e)
    BY DEF Holders
  <2> QED
    BY <2>1 DEF CountsSound
<1>2. MarkedSound'
  BY DEF MarkedSound
<1>3. NamesDiffer'
  BY DEF NamesDiffer
<1> QED
  BY <1>1, <1>2, <1>3

LEMMA HoldersSteps ==
  ASSUME TasksLinked, NEW t \in Reader, NEW h, hold' = [hold EXCEPT ![t] = h],
         NEW e \in Entry
  PROVE  /\ Holders(e)' = IF e = h THEN Holders(e) \cup {t} ELSE Holders(e) \ {t}
         /\ Cardinality(Holders(e)) \in Nat
         /\ Cardinality(Holders(e)) = 0 <=> Holders(e) = {}
         /\ hold[t] # e /\ e = h => Cardinality(Holders(e)') = Cardinality(Holders(e)) + 1
         /\ hold[t] = e /\ e # h => Cardinality(Holders(e)') = Cardinality(Holders(e)) - 1
         /\ hold[t] # e /\ e # h => Holders(e)' = Holders(e)
<1>1. Holders(e)' = IF e = h THEN Holders(e) \cup {t} ELSE Holders(e) \ {t}
  BY DEF TasksLinked, DentriesTypeOK, Holders
<1>2. Holders(e) \in SUBSET Reader /\ (t \in Holders(e) <=> hold[t] = e)
  BY DEF Holders
<1>3. hold[t] # e /\ e # h => Holders(e)' = Holders(e)
  BY <1>1, <1>2
<1> QED
  BY <1>1, <1>2, <1>3, ReadingFinite

LEMMA CountedInit == DentriesInit => Counted
<1> SUFFICES ASSUME DentriesInit PROVE Counted
  OBVIOUS
<1>1. CountsSound
  BY RCUAssumption DEF DentriesInit, CountsSound, Holders
<1>2. MarkedSound /\ NamesDiffer
  BY DEF DentriesInit, MarkedSound, NamesDiffer
<1> QED
  BY <1>1, <1>2 DEF Counted

\* A look-up raises a count that is not -1.
LEMMA GrabCounted == ASSUME Linked, Counted, NEW t \in Reader, Grab(t) PROVE Counted'
<1>1. PICK e \in Entry :
        /\ e # NoEntry /\ ref[e] >= 0 /\ hold[t] = NoEntry
        /\ ref' = [ref EXCEPT ![e] = @ + 1] /\ hold' = [hold EXCEPT ![t] = e]
        /\ UNCHANGED <<place, name, pc, target>>
  BY DEF Grab, Walking, vars, Linked, IndInv, Types, TypeOK
<1>2. ref \in [Entry -> Int] /\ target \in [Reader -> Entry \cup {NoEntry}]
  BY DEF Linked, TasksLinked, DentriesTypeOK
<1>3. CountsSound'
  <2> SUFFICES ASSUME NEW f \in Entry
               PROVE  /\ ref'[f] >= 0 => place'[f] = "hashed" /\ ref'[f] = Cardinality(Holders(f)')
                      /\ ref'[f] < 0 => ref'[f] = -1 /\ Holders(f)' = {}
    BY DEF CountsSound
  <2>1. CASE f = e
    <3>1. Cardinality(Holders(e)') = Cardinality(Holders(e)) + 1 /\ Cardinality(Holders(e)) \in Nat
      BY <1>1, HoldersSteps DEF Linked
    <3>2. ref'[e] = ref[e] + 1 /\ place[e] = "hashed" /\ ref[e] = Cardinality(Holders(e))
      BY <1>1, <1>2 DEF Counted, CountsSound
    <3> QED
      BY <1>1, <2>1, <3>1, <3>2
  <2>2. CASE f # e
    <3>1. Holders(f)' = Holders(f)
      BY <1>1, <2>2, HoldersSteps, RCUAssumption DEF Linked
    <3> QED
      BY <1>1, <1>2, <2>2, <3>1 DEF Counted, CountsSound
  <2> QED
    BY <2>1, <2>2
<1>4. MarkedSound'
  BY <1>1, <1>2 DEF Counted, MarkedSound
<1>5. NamesDiffer'
  BY <1>1, <1>2 DEF Counted, NamesDiffer
<1> QED
  BY <1>3, <1>4, <1>5 DEF Counted

\* Giving an entry up lowers its count, at most to 0.
LEMMA DropCounted == ASSUME Linked, Counted, NEW t \in Reader, Drop(t) PROVE Counted'
<1>1. PICK e \in Entry :
        /\ e # NoEntry /\ hold[t] = e
        /\ ref' = [ref EXCEPT ![e] = @ - 1] /\ hold' = [hold EXCEPT ![t] = NoEntry]
        /\ UNCHANGED <<place, name>>
  BY DEF Drop, At, vars, Linked, TasksLinked, DentriesTypeOK, Links
<1>2. ref \in [Entry -> Int] /\ target \in [Reader -> Entry \cup {NoEntry}]
  BY DEF Linked, TasksLinked, DentriesTypeOK
<1>3. \A u \in Reader : pc'[u] = "marked" => pc[u] = "marked" /\ target'[u] = target[u]
  BY DEF Drop, Goes, Linked, TasksLinked, DentriesTypeOK
<1>4. Holders(e) # {}
  BY <1>1 DEF Holders
<1>5. ref[e] >= 1 /\ ref[e] = Cardinality(Holders(e))
  <2>1. Cardinality(Holders(e)) \in Nat \ {0}
    BY <1>1, <1>4, HoldersSteps DEF Linked
  <2> QED
    BY <1>1, <1>2, <1>4, <2>1 DEF Counted, CountsSound
<1>6. CountsSound'
  <2> SUFFICES ASSUME NEW f \in Entry
               PROVE  /\ ref'[f] >= 0 => place'[f] = "hashed" /\ ref'[f] = Cardinality(Holders(f)')
                      /\ ref'[f] < 0 => ref'[f] = -1 /\ Holders(f)' = {}
    BY DEF CountsSound
  <2>1. CASE f = e
    <3>1. Cardinality(Holders(e)') = Cardinality(Holders(e)) - 1
      BY <1>1, HoldersSteps DEF Linked
    <3>2. ref'[e] = ref[e] - 1 /\ place[e] = "hashed"
      BY <1>1, <1>2, <1>5 DEF Counted, CountsSound
    <3> QED
      BY <1>1, <1>2, <1>5, <2>1, <3>1, <3>2
  <2>2. CASE f # e
    <3>1. Holders(f)' = Holders(f)
      BY <1>1, <2>2, HoldersSteps, RCUAssumption DEF Linked
    <3> QED
      BY <1>1, <1>2, <2>2, <3>1 DEF Counted, CountsSound
  <2> QED
    BY <2>1, <2>2
<1>7. MarkedSound'
  BY <1>1, <1>2, <1>3, <1>5 DEF Counted, MarkedSound, Linked, TasksLinked, DentriesTypeOK
<1>8. NamesDiffer'
  BY <1>1, <1>2, <1>5 DEF Counted, NamesDiffer
<1> QED
  BY <1>6, <1>7, <1>8 DEF Counted

\* An entry is marked only when nobody refers to it.
LEMMA MarkCounted == ASSUME Linked, Counted, NEW t \in Reader, Mark(t) PROVE Counted'
<1> DEFINE e == target[t]
<1>1. e \in Entry /\ UNCHANGED <<place, name, hold>>
  BY DEF Mark, At, vars, Linked, TasksLinked, DentriesTypeOK, Links
<1>2. /\ ref \in [Entry -> Int] /\ target \in [Reader -> Entry \cup {NoEntry}]
      /\ pc \in [Reader -> Places]
  BY DEF Linked, TasksLinked, DentriesTypeOK
<1>3. \A f \in Entry : Holders(f)' = Holders(f)
  BY <1>1 DEF Holders
<1>4. CASE ref[e] = 0
  <2>1. /\ ref' = [ref EXCEPT ![e] = -1] /\ target' = target
        /\ pc' = [pc EXCEPT ![t] = "marked"]
    BY <1>4 DEF Mark, Goes
  <2>2. place[e] = "hashed" /\ Holders(e) = {}
    <3>1. place[e] = "hashed" /\ Cardinality(Holders(e)) = 0
      BY <1>1, <1>4 DEF Counted, CountsSound
    <3>2. Holders(e) \in SUBSET Reader
      BY DEF Holders
    <3> QED
      BY <3>1, <3>2, ReadingFinite
  <2>3. CountsSound'
    BY <1>1, <1>2, <1>3, <2>1, <2>2 DEF Counted, CountsSound
  <2>4. MarkedSound'
    BY <1>1, <1>2, <1>4, <2>1, <2>2 DEF Counted, MarkedSound, Linked, TasksLinked, Links
  <2>5. NamesDiffer'
    BY <1>1, <1>2, <2>1 DEF Counted, NamesDiffer
  <2> QED
    BY <2>3, <2>4, <2>5 DEF Counted
<1>5. CASE ref[e] # 0
  <2>1. Quiet
    BY <1>1, <1>2, <1>5 DEF Mark, Goes, Quiet
  <2> QED
    BY <2>1, QuietInv
<1> QED
  BY <1>4, <1>5

\* A marked entry leaves the cache.
LEMMA TakeOutCounted == ASSUME Linked, Counted, NEW t \in Reader, TakeOut(t) PROVE Counted'
<1> DEFINE e == target[t]
<1>1. /\ e \in Entry /\ pc[t] = "marked" /\ UNCHANGED <<ref, name, hold>>
      /\ place' = [place EXCEPT ![e] = "removed"]
      /\ target' = [target EXCEPT ![t] = NoEntry] /\ pc' = [pc EXCEPT ![t] = "remove"]
  BY DEF TakeOut, Unhash, At, Goes, Linked, TasksLinked, DentriesTypeOK, Links
<1>2. /\ ref \in [Entry -> Int] /\ target \in [Reader -> Entry \cup {NoEntry}]
      /\ pc \in [Reader -> Places] /\ DOMAIN place = Entry
  BY DEF Linked, TasksLinked, DentriesTypeOK, IndInv, Types, TypeOK
<1>3. \A f \in Entry : Holders(f)' = Holders(f)
  BY <1>1 DEF Holders
<1>4. ref[e] = -1 /\ \A u \in Reader : u # t /\ pc[u] = "marked" => target[u] # e
  BY <1>1 DEF Counted, MarkedSound
<1>5. CountsSound'
  BY <1>1, <1>2, <1>3, <1>4 DEF Counted, CountsSound
<1>6. MarkedSound'
  BY <1>1, <1>2, <1>4 DEF Counted, MarkedSound
<1>7. NamesDiffer'
  BY <1>1 DEF Counted, NamesDiffer
<1> QED
  BY <1>5, <1>6, <1>7 DEF Counted

-----------------------------------------------------------------------------
(* The search for a name under the semaphore of the directory.             *)

\* Who has looked again and found nothing will still come to every entry of the
\* name that is in use; when it is about to create one there is none.
Searched(t) ==
  \A e \in Entry : ref[e] >= 0 /\ name[e] = want[t] =>
    /\ pc[t] # "create"
    /\ pc[t] = "again" /\ hold[t] = NoEntry => e \in chain[t] \/ found[t] = e

SearchComplete == \A t \in Reader : Searched(t)

\* No entry comes into use but by Create, and a task's search is its own.
Alone(t) ==
  /\ \A e \in Entry : ref'[e] >= 0 => ref[e] >= 0 /\ name'[e] = name[e]
  /\ \A u \in Reader : u # t =>
       /\ pc'[u] = pc[u] /\ want'[u] = want[u] /\ hold'[u] = hold[u]
       /\ chain'[u] = chain[u] /\ found'[u] = found[u]

LEMMA AloneInv ==
  ASSUME Linked, SearchComplete, NEW t \in Reader, Alone(t), Searched(t)'
  PROVE  SearchComplete'
<1> SUFFICES ASSUME NEW u \in Reader, u # t PROVE Searched(u)'
  BY DEF SearchComplete
<1> QED
  BY DEF SearchComplete, Searched, Alone

\* Where a step leaves its task is seldom the search.
LEMMA NotSearching ==
  ASSUME NEW t \in Reader, pc'[t] \notin {"again", "create"}
  PROVE  Searched(t)'
BY DEF Searched

LEMMA MarkLowers ==
  ASSUME TasksLinked, NEW t \in Reader, Mark(t)
  PROVE  \A e \in Entry : ref'[e] >= 0 => ref[e] >= 0
<1>1. ref \in [Entry -> Int] /\ (ref' = ref \/ ref' = [ref EXCEPT ![target[t]] = -1])
  BY DEF TasksLinked, DentriesTypeOK, Mark
<1> QED
  BY <1>1

LEMMA SearchStep ==
  ASSUME Linked, Counted, SearchComplete, NEW t \in Reader,
         \/ \E e \in Entry : Meet(t, e)
         \/ Grab(t) \/ Discard(t) \/ Leave(t) \/ RunCallbacks(t) \/ Down(t)
         \/ CreateFails(t) \/ Up(t) \/ Mark(t) \/ TakeOut(t) \/ Dispose(t) \/ Drop(t)
         \/ \E n \in Name : LookUp(t, n)
  PROVE  SearchComplete'
<1> USE DEF Linked, IndInv, Types, TypeOK, TasksLinked, DentriesTypeOK, Places
<1>1. ASSUME NEW e \in Entry, Meet(t, e) PROVE SearchComplete'
  <2>1. Alone(t)
    BY <1>1 DEF Meet, Find, vars, Alone
  <2>2. Searched(t)'
    <3>1. UNCHANGED <<ref, name, pc, want, hold>>
      BY <1>1 DEF Meet
    <3>2. chain'[t] = chain[t] \ {e} /\ found[t] = NoEntry /\ (found'[t] = e \/ ref[e] < 0)
      BY <1>1 DEF Meet, Find, Counted, CountsSound
    <3>3. \A d \in Entry : d # NoEntry
      BY RCUAssumption
    <3> QED
      BY <3>1, <3>2, <3>3 DEF Searched, SearchComplete
  <2> QED
    BY <2>1, <2>2, AloneInv
<1>2. CASE Grab(t)
  <2>1. Alone(t)
    BY <1>2 DEF Grab, Walking, vars, Alone
  <2>2. Searched(t)'
    BY <1>2, <2>1 DEF Grab, Walking, vars, Searched, SearchComplete, Alone
  <2> QED
    BY <2>1, <2>2, AloneInv
<1>3. CASE Discard(t)
  <2>1. Alone(t)
    BY <1>3 DEF Discard, Alone
  <2>2. Searched(t)'
    BY <1>3 DEF Discard, Walking, Searched, SearchComplete
  <2> QED
    BY <2>1, <2>2, AloneInv
<1>4. CASE Leave(t)
  <2>1. Alone(t)
    BY <1>4 DEF Leave, ReadUnlock, Goes, Alone
  <2>2. Searched(t)'
    <3>1. UNCHANGED <<ref, name, want, hold>>
      BY <1>4 DEF Leave
    <3>2. pc'[t] = "create" => pc[t] = "again" /\ hold[t] = NoEntry
      BY <1>4 DEF Leave, Goes
    <3>3. pc'[t] # "again"
      BY <1>4 DEF Leave, Goes
    <3>4. hold[t] = NoEntry => chain[t] = {} /\ found[t] = NoEntry
      BY <1>4 DEF Leave
    <3>5. \A e \in Entry : e # NoEntry
      BY RCUAssumption
    <3>6. ASSUME pc'[t] = "create", NEW e \in Entry
          PROVE  ~(ref[e] >= 0 /\ name[e] = want[t])
      <4>1. pc[t] = "again" /\ hold[t] = NoEntry /\ e \notin chain[t] /\ found[t] # e
        BY <3>2, <3>4, <3>5, <3>6
      <4>2. Searched(t)
        BY DEF SearchComplete
      <4> QED
        BY <4>1, <4>2 DEF Searched
    <3> QED
      BY <3>1, <3>3, <3>6 DEF Searched
  <2> QED
    BY <2>1, <2>2, AloneInv
<1>5. CASE RunCallbacks(t)
  <2>1. UNCHANGED <<ref, name, pc, want, hold, chain, found>>
    BY <1>5 DEF RunCallbacks, Flush
  <2> QED
    BY <2>1 DEF SearchComplete, Searched
<1>6. CASE Down(t)
  <2>1. Alone(t)
    BY <1>6 DEF Down, Enter, ReadLock, Goes, Alone
  <2>2. Searched(t)'
    BY <1>6 DEF Down, Enter, ReadLock, Goes, Searched, Hashed, Counted, CountsSound
  <2> QED
    BY <2>1, <2>2, AloneInv
<1>7. CASE CreateFails(t) \/ Up(t)
  <2>1. Alone(t)
    BY <1>7 DEF CreateFails, Up, Goes, vars, Alone
  <2>2. pc'[t] \notin {"again", "create"}
    BY <1>7 DEF CreateFails, Up, Goes
  <2> QED
    BY <2>1, <2>2, NotSearching, AloneInv
<1>8. CASE Mark(t)
  <2>1. Alone(t)
    <3>1. \A e \in Entry : ref'[e] >= 0 => ref[e] >= 0
      BY <1>8, MarkLowers
    <3>2. \A u \in Reader : u # t => pc'[u] = pc[u]
      BY <1>8 DEF Mark, Goes
    <3> QED
      BY <1>8, <3>1, <3>2 DEF Mark, vars, Alone
  <2>2. pc'[t] \notin {"again", "create"}
    BY <1>8 DEF Mark, Goes
  <2> QED
    BY <2>1, <2>2, NotSearching, AloneInv
<1>9. CASE TakeOut(t) \/ Dispose(t)
  <2>1. Alone(t)
    BY <1>9 DEF TakeOut, Unhash, Dispose, TestCount, AddCallback, CallInstead, Free, Goes,
      Alone
  <2>2. pc'[t] \notin {"again", "create"}
    BY <1>9 DEF TakeOut, Dispose, Goes
  <2> QED
    BY <2>1, <2>2, NotSearching, AloneInv
<1>10. CASE Drop(t)
  <2>1. Alone(t)
    <3>1. hold[t] \in Entry /\ ref' = [ref EXCEPT ![hold[t]] = @ - 1] /\ name' = name
      BY <1>10 DEF Drop, At, Links
    <3>2. \A e \in Entry : ref'[e] >= 0 => ref[e] >= 0 /\ name'[e] = name[e]
      BY <3>1
    <3> QED
      BY <1>10, <3>2 DEF Drop, Goes, vars, Alone
  <2>2. pc'[t] \notin {"again", "create"}
    BY <1>10 DEF Drop, Goes
  <2> QED
    BY <2>1, <2>2, NotSearching, AloneInv
<1>11. ASSUME NEW n \in Name, LookUp(t, n) PROVE SearchComplete'
  <2>1. Alone(t)
    BY <1>11 DEF LookUp, Enter, ReadLock, Goes, Alone
  <2>2. pc'[t] \notin {"again", "create"}
    BY <1>11 DEF LookUp, Enter, Goes
  <2> QED
    BY <2>1, <2>2, NotSearching, AloneInv
<1> QED
  BY <1>1, <1>2, <1>3, <1>4, <1>5, <1>6, <1>7, <1>8, <1>9, <1>10, <1>11

\* The new entry is the only one of its name.
LEMMA CreateInv ==
  ASSUME Linked, Counted, SearchComplete, NEW t \in Reader, NEW e \in Entry, Create(t, e)
  PROVE  Counted' /\ SearchComplete'
<1>1. /\ pc[t] = "create" /\ place[e] = "freed" /\ place' = [place EXCEPT ![e] = "hashed"]
      /\ ref' = [ref EXCEPT ![e] = 1] /\ name' = [name EXCEPT ![e] = want[t]]
      /\ hold' = [hold EXCEPT ![t] = e] /\ pc' = [pc EXCEPT ![t] = "up"]
      /\ UNCHANGED <<target, want>>
  BY DEF Create, Hash, At, Goes
<1>2. /\ ref \in [Entry -> Int] /\ DOMAIN name = Entry /\ DOMAIN place = Entry
      /\ pc \in [Reader -> Places] /\ hold[t] = NoEntry /\ hold[t] # e
  <2>1. hold[t] = NoEntry
    BY <1>1 DEF Linked, TasksLinked, Links
  <2>2. hold[t] # e
    BY <2>1, RCUAssumption
  <2> QED
    BY <2>1, <2>2 DEF Linked, TasksLinked, DentriesTypeOK, IndInv, Types, TypeOK
<1>3. ref[e] = -1 /\ Holders(e) = {}
  BY <1>1, <1>2 DEF Counted, CountsSound
<1>4. CountsSound'
  <2> SUFFICES ASSUME NEW f \in Entry
               PROVE  /\ ref'[f] >= 0 => place'[f] = "hashed" /\ ref'[f] = Cardinality(Holders(f)')
                      /\ ref'[f] < 0 => ref'[f] = -1 /\ Holders(f)' = {}
    BY DEF CountsSound
  <2>1. CASE f = e
    <3>1. Cardinality(Holders(e)') = Cardinality(Holders(e)) + 1 /\ Cardinality(Holders(e)) = 0
      BY <1>1, <1>2, <1>3, HoldersSteps DEF Linked
    <3> QED
      BY <1>1, <1>2, <2>1, <3>1
  <2>2. CASE f # e
    <3>1. Holders(f)' = Holders(f)
      BY <1>1, <1>2, <2>2, HoldersSteps, RCUAssumption DEF Linked
    <3> QED
      BY <1>1, <1>2, <2>2, <3>1 DEF Counted, CountsSound
  <2> QED
    BY <2>1, <2>2
<1>5. MarkedSound'
  BY <1>1, <1>2 DEF Counted, MarkedSound
<1>6. \A f \in Entry : ref[f] >= 0 => name[f] # want[t]
  BY <1>1 DEF SearchComplete, Searched
<1>7. NamesDiffer'
  BY <1>1, <1>2, <1>3, <1>6 DEF Counted, NamesDiffer
<1>8. SearchComplete'
  <2>1. ASSUME NEW u \in Reader PROVE pc'[u] \notin {"again", "create"}
    BY <1>1, <1>2, DentriesAssumption DEF Linked, TasksLinked, Links
  <2> QED
    BY <2>1 DEF SearchComplete, Searched
<1> QED
  BY <1>4, <1>5, <1>7, <1>8 DEF Counted

\* The inductive invariant of the cache.
DentriesInv == Linked /\ Counted /\ SearchComplete

LEMMA DentriesInvInit == DentriesInit => DentriesInv
<1>1. DentriesInit => SearchComplete
  BY DEF DentriesInit, SearchComplete, Searched
<1> QED
  BY <1>1, LinkedInv, CountedInit DEF DentriesInv

LEMMA DentriesInvStep == DentriesInv /\ [DentriesNext]_dvars => DentriesInv'
<1> SUFFICES ASSUME DentriesInv, [DentriesNext]_dvars PROVE DentriesInv'
  OBVIOUS
<1> USE DEF DentriesInv
<1>1. Linked'
  BY LinkedInv
<1>2. CASE UNCHANGED dvars
  <2>1. Counted'
    <3>1. Quiet
      BY <1>2 DEF dvars, vars, Quiet
    <3> QED
      BY <3>1, QuietInv
  <2>2. SearchComplete'
    BY <1>2 DEF dvars, vars, SearchComplete, Searched
  <2> QED
    BY <1>1, <2>1, <2>2
<1>3. ASSUME NEW t \in Reader, NEW e \in Entry, Meet(t, e) \/ Create(t, e)
      PROVE  Counted' /\ SearchComplete'
  BY <1>3, QuietSteps, QuietInv, SearchStep, CreateInv
<1>4. ASSUME NEW t \in Reader, Step(t), \A e \in Entry : ~Meet(t, e) /\ ~Create(t, e)
      PROVE  Counted' /\ SearchComplete'
  BY <1>4, QuietSteps, QuietInv, GrabCounted, MarkCounted, TakeOutCounted, SearchStep DEF Step
<1>5. ASSUME NEW t \in Reader, Drop(t) \/ \E n \in Name : LookUp(t, n)
      PROVE  Counted' /\ SearchComplete'
  BY <1>5, QuietSteps, QuietInv, DropCounted, SearchStep
<1> QED
  BY <1>1, <1>2, <1>3, <1>4, <1>5 DEF DentriesNext

LEMMA DentriesInvHolds == DentriesSpec => []DentriesInv
BY DentriesInvInit, DentriesInvStep, PTL DEF DentriesSpec

\* Two tasks that miss one name never make two entries of it, whatever the
\* number of tasks, entries and names.
THEOREM EntriesAreUnique == DentriesSpec => []OneEntryPerName
<1>1. DentriesInv => OneEntryPerName
  <2> SUFFICES ASSUME DentriesInv, NEW n \in Name
               PROVE  Cardinality({e \in Hashed(n) : ref[e] >= 0}) <= 1
    BY DEF OneEntryPerName
  <2> DEFINE S == {e \in Hashed(n) : ref[e] >= 0}
  <2>1. \A d, e \in S : d = e
    BY DEF DentriesInv, Counted, NamesDiffer, Hashed
  <2>2. CASE S = {}
    BY <2>2, FS_EmptySet
  <2>3. CASE S # {}
    <3>1. PICK e \in S : S = {e}
      BY <2>1, <2>3
    <3>2. Cardinality({e}) = 1
      BY FS_Singleton
    <3> QED
      BY <3>1, <3>2
  <2> QED
    BY <2>2, <2>3
<1> QED
  BY <1>1, DentriesInvHolds, PTL

\* An entry is in the cache as long as it has a count, and the count is the
\* number of tasks that refer to it.
THEOREM CountsAreHolders == DentriesSpec => []CountsSound
<1>1. DentriesInv => CountsSound
  BY DEF DentriesInv, Counted
<1> QED
  BY <1>1, DentriesInvHolds, PTL

-----------------------------------------------------------------------------
(* What a task refers to has the name it asked for.  With three tasks the  *)
(* memory of an entry can be freed, and used for another one, between the  *)
(* moment a look-up comes to it and the moment it raises the count: one    *)
(* task brings the count of the lock to 0, the second one comes to the     *)
(* entry, the third one has its callback stored, and the first one runs    *)
(* it.  Two tasks cannot do this.                                          *)

\* The entries a look-up has come to or may still come to.
Seen(t) == chain[t] \cup ({found[t]} \ {NoEntry})

SeenKept(t) == \A e \in Seen(t) : place[e] # "freed" /\ name[e] = want[t]

HeldNamed(t) == hold[t] # NoEntry => name[hold[t]] = want[t]

\* Nobody is about to free one of them.
SeenSpared(t) ==
  /\ \A w \in Remover : wpc[w] = "free" => victim[w] \notin Seen(t)
  /\ \A u \in Reader : rpc[u] = "flush" => ToSet(callbacks) \cap Seen(t) = {}

SeenSound == \A t \in Reader : SeenKept(t) /\ HeldNamed(t) /\ SeenSpared(t)

SeenFacts ==
  \A t \in Reader :
    /\ Seen(t) \subseteq Entry
    /\ Seen(t) # {} => rpc[t] = "read" /\ wpc[t] = "out" /\ count # 0

LEMMA SeenWhere == Linked => SeenFacts
<1> SUFFICES ASSUME Linked PROVE SeenFacts
  OBVIOUS
<1>1. count = 0 => \A t \in Reader : rpc[t] # "read"
  BY NobodyReads DEF Linked, IndInv
<1> SUFFICES ASSUME NEW t \in Reader
             PROVE  /\ Seen(t) \subseteq Entry
                    /\ Seen(t) # {} => rpc[t] = "read" /\ wpc[t] = "out" /\ count # 0
  BY DEF SeenFacts
<1>2. Seen(t) \subseteq Entry
  BY DEF Linked, TasksLinked, DentriesTypeOK, IndInv, Types, TypeOK, Seen
<1>3. Seen(t) # {} => chain[t] # {} \/ found[t] # NoEntry
  BY DEF Seen
<1>4. Seen(t) # {} => rpc[t] = "read"
  BY <1>3 DEF Linked, TasksLinked, Links, IndInv, Types
<1>5. rpc[t] = "read" => wpc[t] = "out"
  BY DEF Linked, TasksLinked, Links
<1> QED
  BY <1>1, <1>2, <1>4, <1>5

\* Who sees no more than before, of entries that were not freed, is safe.
LEMMA SeenShrinks ==
  ASSUME Linked, SeenSound, NEW t \in Reader,
         Seen(t)' \subseteq Seen(t), Seen(t)' # {} => want'[t] = want[t],
         \A e \in Seen(t) : place'[e] # "freed" /\ name'[e] = name[e],
         \A w \in Remover : wpc'[w] = "free" => wpc[w] = "free" /\ victim'[w] = victim[w],
         \A u \in Reader : rpc'[u] = "flush" => rpc[u] = "flush",
         ToSet(callbacks') \subseteq ToSet(callbacks)
  PROVE  SeenKept(t)' /\ SeenSpared(t)'
<1>1. SeenKept(t)'
  BY DEF SeenSound, SeenKept
<1>2. SeenSpared(t)'
  BY DEF SeenSound, SeenSpared
<1> QED
  BY <1>1, <1>2

LEMMA SeesNothing ==
  ASSUME NEW t \in Reader, Seen(t)' = {}
  PROVE  SeenKept(t)' /\ SeenSpared(t)'
BY DEF SeenKept, SeenSpared

\* While a task keeps what it refers to nobody renames it.
LEMMA HeldStays ==
  ASSUME DentriesInv, SeenSound, NEW t \in Reader,
         hold'[t] = hold[t], hold[t] # NoEntry => want'[t] = want[t],
         \A e \in Entry : ref[e] >= 0 => name'[e] = name[e]
  PROVE  HeldNamed(t)'
<1>1. hold[t] # NoEntry => hold[t] \in Entry /\ t \in Holders(hold[t])
  BY DEF DentriesInv, Linked, TasksLinked, DentriesTypeOK, Holders
<1>2. hold[t] # NoEntry => ref[hold[t]] >= 0
  <2>1. \A e \in Entry : ref[e] \in Int
    BY DEF DentriesInv, Linked, TasksLinked, DentriesTypeOK
  <2> QED
    BY <1>1, <2>1 DEF DentriesInv, Counted, CountsSound
<1> QED
  BY <1>1, <1>2 DEF SeenSound, HeldNamed

LEMMA SeenStepQuiet ==
  ASSUME DentriesInv, SeenSound, NEW t \in Reader,
         \/ \E e \in Entry : Meet(t, e) \/ Create(t, e)
         \/ Grab(t) \/ Discard(t) \/ RunCallbacks(t) \/ CreateFails(t) \/ Up(t)
         \/ Mark(t) \/ TakeOut(t) \/ Drop(t)
  PROVE  SeenSound'
<1> SUFFICES ASSUME NEW u \in Reader PROVE (SeenKept(u) /\ HeldNamed(u) /\ SeenSpared(u))'
  BY DEF SeenSound
<1>1. Linked /\ DentriesTypeOK /\ TypeOK /\ Links(t)
  BY DEF DentriesInv, Linked, TasksLinked, IndInv, Types
<1>2. SeenKept(u) /\ SeenSpared(u) /\ HeldNamed(u)
  BY DEF SeenSound
<1>3. ASSUME NEW e \in Entry, Meet(t, e)
      PROVE  (SeenKept(u) /\ HeldNamed(u) /\ SeenSpared(u))'
  <2>1. UNCHANGED <<place, name, want, hold, wpc, victim, rpc, callbacks>>
    BY <1>3 DEF Meet, Find, vars
  <2>2. Seen(u)' \subseteq Seen(u)
    BY <1>1, <1>3 DEF Meet, Find, vars, Seen, TypeOK, DentriesTypeOK
  <2>3. SeenKept(u)' /\ SeenSpared(u)'
    BY <1>1, <1>2, <2>1, <2>2, SeenShrinks DEF SeenKept
  <2> QED
    BY <2>1, <2>3, HeldStays
<1>4. ASSUME NEW e \in Entry, Create(t, e)
      PROVE  (SeenKept(u) /\ HeldNamed(u) /\ SeenSpared(u))'
  <2>1. /\ place[e] = "freed" /\ place' = [place EXCEPT ![e] = "hashed"]
        /\ name' = [name EXCEPT ![e] = want[t]] /\ hold' = [hold EXCEPT ![t] = e]
        /\ UNCHANGED <<want, wpc, victim, rpc, callbacks, chain, found>>
    BY <1>4 DEF Create, Hash
  <2>2. Seen(u)' = Seen(u) /\ e \notin Seen(u)
    BY <1>2, <2>1 DEF Seen, SeenKept
  <2>3. Seen(u) \subseteq Entry
    BY <1>1, SeenWhere DEF SeenFacts
  <2>4. SeenKept(u)' /\ SeenSpared(u)'
    BY <1>1, <1>2, <2>1, <2>2, <2>3, SeenShrinks DEF SeenKept, DentriesTypeOK, TypeOK
  <2>5. CASE u = t
    BY <1>1, <2>1, <2>4, <2>5 DEF HeldNamed, DentriesTypeOK
  <2>6. CASE u # t
    <3>1. \A f \in Entry : ref[f] >= 0 => f # e
      BY <2>1 DEF DentriesInv, Counted, CountsSound
    <3>2. \A f \in Entry : ref[f] >= 0 => name'[f] = name[f]
      BY <1>1, <2>1, <3>1 DEF DentriesTypeOK
    <3>3. hold'[u] = hold[u]
      BY <1>1, <2>1, <2>6 DEF DentriesTypeOK
    <3> QED
      BY <2>1, <2>4, <3>2, <3>3, HeldStays
  <2> QED
    BY <2>5, <2>6
<1>5. CASE Grab(t)
  <2>1. /\ UNCHANGED <<place, name, want, wpc, victim, rpc, callbacks, chain, found>>
        /\ found[t] # NoEntry /\ hold' = [hold EXCEPT ![t] = found[t]]
    BY <1>5 DEF Grab, Walking, vars
  <2>2. Seen(u)' = Seen(u)
    BY <2>1 DEF Seen
  <2>3. SeenKept(u)' /\ SeenSpared(u)'
    BY <1>1, <1>2, <2>1, <2>2, SeenShrinks DEF SeenKept
  <2>4. CASE u = t
    <3>1. name[found[t]] = want[t]
      BY <2>1 DEF SeenSound, SeenKept, Seen
    <3> QED
      BY <1>1, <2>1, <2>3, <2>4, <3>1 DEF HeldNamed, DentriesTypeOK
  <2>5. CASE u # t
    <3>1. hold'[u] = hold[u]
      BY <1>1, <2>1, <2>5 DEF DentriesTypeOK
    <3> QED
      BY <2>1, <2>3, <3>1, HeldStays
  <2> QED
    BY <2>4, <2>5
<1>6. CASE Discard(t)
  <2>1. /\ UNCHANGED <<place, name, want, hold, wpc, victim, rpc, callbacks, chain>>
        /\ found' = [found EXCEPT ![t] = NoEntry]
    BY <1>6 DEF Discard
  <2>2. Seen(u)' \subseteq Seen(u)
    BY <1>1, <2>1 DEF Seen, TypeOK
  <2>3. SeenKept(u)' /\ SeenSpared(u)'
    BY <1>1, <1>2, <2>1, <2>2, SeenShrinks DEF SeenKept
  <2> QED
    BY <2>1, <2>3, HeldStays
<1>7. CASE RunCallbacks(t)
  <2>1. /\ place' = [e \in Entry |-> IF e \in ToSet(callbacks) THEN "freed" ELSE place[e]]
        /\ callbacks' = <<>> /\ rpc[t] = "flush" /\ rpc' = [rpc EXCEPT ![t] = "out"]
        /\ UNCHANGED <<name, want, hold, wpc, victim, chain, found>>
    BY <1>7 DEF RunCallbacks, Flush
  <2>2. Seen(u)' = Seen(u) /\ Seen(u) \subseteq Entry
    BY <1>1, <2>1, SeenWhere DEF Seen, SeenFacts
  <2>3. ToSet(callbacks) \cap Seen(u) = {}
    BY <1>2, <2>1 DEF SeenSpared
  <2>4. \A e \in Seen(u) : place'[e] # "freed"
    BY <1>2, <2>1, <2>2, <2>3 DEF SeenKept
  <2>5. \A v \in Reader : rpc'[v] = "flush" => rpc[v] = "flush"
    BY <1>1, <2>1 DEF TypeOK
  <2>6. SeenKept(u)' /\ SeenSpared(u)'
    BY <1>1, <2>1, <2>2, <2>4, <2>5, SeenShrinks, EmptyList
  <2> QED
    BY <2>1, <2>6, HeldStays
<1>8. CASE CreateFails(t) \/ Mark(t)
  <2>1. UNCHANGED <<place, name, want, hold, wpc, victim, rpc, callbacks, chain, found>>
    BY <1>8 DEF CreateFails, Mark, vars
  <2>2. Seen(u)' = Seen(u)
    BY <2>1 DEF Seen
  <2>3. SeenKept(u)' /\ SeenSpared(u)'
    BY <1>1, <1>2, <2>1, <2>2, SeenShrinks DEF SeenKept
  <2> QED
    BY <2>1, <2>3, HeldStays
<1>9. CASE Up(t) \/ Drop(t)
  <2>1. /\ UNCHANGED <<place, name, wpc, victim, rpc, callbacks, chain, found>>
        /\ rpc[t] = "out"
    BY <1>9 DEF Up, Drop, At, vars
  <2>2. Seen(u)' = Seen(u) /\ (u = t => Seen(u) = {})
    BY <1>1, <2>1, SeenWhere DEF Seen, SeenFacts
  <2>3. u # t => want'[u] = want[u]
    BY <1>1, <1>9 DEF Up, Drop, DentriesTypeOK
  <2>4. SeenKept(u)' /\ SeenSpared(u)'
    BY <1>1, <1>2, <2>1, <2>2, <2>3, SeenShrinks DEF SeenKept
  <2>5. \/ hold'[u] = NoEntry
        \/ hold'[u] = hold[u] /\ (hold[u] # NoEntry => want'[u] = want[u])
    BY <1>1, <1>9 DEF Up, Drop, DentriesTypeOK
  <2>6. HeldNamed(u)'
    BY <2>1, <2>5, HeldStays DEF HeldNamed
  <2> QED
    BY <2>4, <2>6
<1>10. CASE TakeOut(t)
  <2>1. /\ target[t] \in Entry /\ place' = [place EXCEPT ![target[t]] = "removed"]
        /\ wpc' = [wpc EXCEPT ![t] = "unhashed"]
        /\ victim' = [victim EXCEPT ![t] = target[t]]
        /\ UNCHANGED <<name, want, hold, rpc, callbacks, chain, found>>
    BY <1>1, <1>10 DEF TakeOut, Unhash, At, DentriesTypeOK, Links
  <2>2. Seen(u)' = Seen(u) /\ Seen(u) \subseteq Entry
    BY <1>1, <2>1, SeenWhere DEF Seen, SeenFacts
  <2>3. \A e \in Seen(u) : place'[e] # "freed"
    BY <1>1, <1>2, <2>1, <2>2 DEF SeenKept, TypeOK
  <2>4. \A w \in Remover : wpc'[w] = "free" => wpc[w] = "free" /\ victim'[w] = victim[w]
    BY <1>1, <2>1 DEF TypeOK
  <2>5. SeenKept(u)' /\ SeenSpared(u)'
    BY <1>1, <2>1, <2>2, <2>3, <2>4, SeenShrinks
  <2> QED
    BY <2>1, <2>5, HeldStays
<1> QED
  BY <1>3, <1>4, <1>5, <1>6, <1>7, <1>8, <1>9, <1>10

\* A look-up begins: whatever is in the cache is not being freed.
LEMMA SeenStepEnter ==
  ASSUME DentriesInv, SeenSound, NEW t \in Reader, Down(t) \/ \E n \in Name : LookUp(t, n)
  PROVE  SeenSound'
<1> SUFFICES ASSUME NEW u \in Reader PROVE (SeenKept(u) /\ HeldNamed(u) /\ SeenSpared(u))'
  BY DEF SeenSound
<1>1. Linked /\ DentriesTypeOK /\ TypeOK /\ Links(t) /\ Types /\ FreedOnce
  BY DEF DentriesInv, Linked, TasksLinked, IndInv, Types
<1>2. PICK n : /\ want' = [want EXCEPT ![t] = n] /\ chain' = [chain EXCEPT ![t] = Hashed(n)]
               /\ rpc' = [rpc EXCEPT ![t] = "read"] /\ rpc[t] = "out"
               /\ pc[t] \in {"out", "down"}
               /\ UNCHANGED <<place, name, wpc, victim, callbacks, found, hold>>
  BY DEF Down, LookUp, Enter, ReadLock, At
<1>3. CASE u = t
  <2>1. Seen(t)' = Hashed(n)
    BY <1>1, <1>2 DEF Seen, Types, DentriesTypeOK
  <2>2. \A e \in Hashed(n) : e \in Entry /\ place[e] = "hashed" /\ name[e] = n
    BY DEF Hashed
  <2>3. SeenKept(t)'
    BY <1>1, <1>2, <2>1, <2>2 DEF SeenKept, DentriesTypeOK
  <2>4. SeenSpared(t)'
    <3>1. \A w \in Remover : wpc[w] = "free" => victim[w] \notin Hashed(n)
      BY <1>1, <2>2, RCUAssumption DEF Types, FreedOnce
    <3>2. ToSet(callbacks) \cap Hashed(n) = {}
      BY <1>1, <2>2 DEF FreedOnce
    <3> QED
      BY <1>2, <2>1, <3>1, <3>2 DEF SeenSpared
  <2>5. HeldNamed(t)'
    BY <1>1, <1>2 DEF Links, HeldNamed
  <2> QED
    BY <1>3, <2>3, <2>4, <2>5
<1>4. CASE u # t
  <2>1. Seen(u)' = Seen(u) /\ want'[u] = want[u]
    BY <1>1, <1>2, <1>4 DEF Seen, DentriesTypeOK
  <2>2. \A v \in Reader : rpc'[v] = "flush" => rpc[v] = "flush"
    BY <1>1, <1>2 DEF TypeOK
  <2>3. SeenKept(u)' /\ SeenSpared(u)'
    BY <1>1, <1>2, <2>1, <2>2, SeenShrinks DEF SeenSound, SeenKept
  <2> QED
    BY <1>2, <2>1, <2>3, HeldStays
<1> QED
  BY <1>3, <1>4

\* A look-up ends: if its task is to run the callbacks nobody is looking.
LEMMA SeenStepLeave ==
  ASSUME DentriesInv, Linked', SeenSound, NEW t \in Reader, Leave(t)
  PROVE  SeenSound'
<1> SUFFICES ASSUME NEW u \in Reader PROVE (SeenKept(u) /\ HeldNamed(u) /\ SeenSpared(u))'
  BY DEF SeenSound
<1>1. Linked /\ DentriesTypeOK /\ TypeOK
  BY DEF DentriesInv, Linked, TasksLinked, IndInv, Types
<1>2. /\ chain' = [chain EXCEPT ![t] = {}] /\ found' = [found EXCEPT ![t] = NoEntry]
      /\ rpc' = [rpc EXCEPT ![t] = IF count' = 0 THEN "flush" ELSE "out"]
      /\ UNCHANGED <<place, name, want, hold, wpc, victim, callbacks>>
  BY DEF Leave, ReadUnlock
<1>3. HeldNamed(u)'
  BY <1>2, HeldStays
<1>4. SeenFacts'
  BY SeenWhere, PTL
<1>5. CASE count' = 0
  BY <1>3, <1>4, <1>5, SeesNothing DEF SeenFacts
<1>6. CASE count' # 0
  <2>1. Seen(u)' \subseteq Seen(u)
    BY <1>1, <1>2 DEF Seen, DentriesTypeOK, TypeOK
  <2>2. \A v \in Reader : rpc'[v] = "flush" => rpc[v] = "flush"
    BY <1>1, <1>2, <1>6 DEF TypeOK
  <2>3. SeenKept(u)' /\ SeenSpared(u)'
    BY <1>1, <1>2, <2>1, <2>2, SeenShrinks DEF SeenSound, SeenKept
  <2> QED
    BY <1>3, <2>3
<1> QED
  BY <1>5, <1>6

AtMostTwo == \A t, u, v \in Reader : t = u \/ u = v \/ t = v

\* addRCUCallback(): a task that stores a callback, a task that looks at the
\* entry and a task that is to run the callbacks would be three.
LEMMA SeenStepDispose ==
  ASSUME AtMostTwo, DentriesInv, SeenSound, NEW w \in Reader, Dispose(w)
  PROVE  SeenSound'
<1> SUFFICES ASSUME NEW u \in Reader PROVE (SeenKept(u) /\ HeldNamed(u) /\ SeenSpared(u))'
  BY DEF SeenSound
<1>1. Linked /\ DentriesTypeOK /\ TypeOK /\ Types /\ SeenFacts /\ w \in Remover
  BY SeenWhere, DentriesAssumption
    DEF DentriesInv, Linked, TasksLinked, IndInv, Types
<1>2. UNCHANGED <<name, want, hold, chain, found, rpc, count>>
  BY DEF Dispose, TestCount, AddCallback, CallInstead, Free
<1>3. HeldNamed(u)'
  BY <1>2, HeldStays
<1>4. Seen(u)' = Seen(u) /\ Seen(u) \subseteq Entry
  BY <1>1, <1>2 DEF Seen, SeenFacts
<1>5. CASE Seen(u) = {}
  BY <1>3, <1>4, <1>5, SeesNothing
<1>6. CASE Seen(u) # {}
  <2>1. rpc[u] = "read" /\ wpc[u] = "out" /\ count # 0
    BY <1>1, <1>6 DEF SeenFacts
  <2>2. SeenKept(u) /\ SeenSpared(u)
    BY DEF SeenSound
  <2>3. CASE TestCount(w)
    <3>1. /\ wpc' = [wpc EXCEPT ![w] = "busy"] /\ UNCHANGED <<place, victim, callbacks>>
      BY <2>1, <2>3 DEF TestCount
    <3> QED
      BY <1>1, <1>2, <1>3, <1>4, <2>2, <3>1, SeenShrinks DEF SeenKept, TypeOK
  <2>4. CASE CallInstead(w)
    BY <2>1, <2>4 DEF CallInstead
  <2>5. CASE Free(w)
    <3>1. /\ place' = [place EXCEPT ![victim[w]] = "freed"]
          /\ wpc' = [wpc EXCEPT ![w] = "out"] /\ wpc[w] = "free"
          /\ victim' = [victim EXCEPT ![w] = NoEntry] /\ callbacks' = callbacks
      BY <2>5 DEF Free
    <3>2. victim[w] \notin Seen(u)
      BY <1>1, <2>2, <3>1 DEF SeenSpared
    <3>3. \A e \in Seen(u) : place'[e] # "freed"
      BY <1>1, <1>4, <2>2, <3>1, <3>2 DEF SeenKept, TypeOK
    <3>4. \A v \in Remover : wpc'[v] = "free" => wpc[v] = "free" /\ victim'[v] = victim[v]
      BY <1>1, <3>1 DEF TypeOK
    <3> QED
      BY <1>1, <1>2, <1>3, <1>4, <3>1, <3>3, <3>4, SeenShrinks
  <2>6. CASE AddCallback(w)
    <3>1. /\ wpc[w] = "busy" /\ wpc' = [wpc EXCEPT ![w] = "out"] /\ place' = place
          /\ victim' = [victim EXCEPT ![w] = NoEntry]
      BY <2>6 DEF AddCallback
    <3>2. rpc[w] # "flush" /\ w # u
      BY <1>1, <2>1, <3>1 DEF Linked, TasksLinked, Links
    <3>3. \A v \in Reader : rpc[v] # "flush"
      BY <2>1, <3>2 DEF AtMostTwo
    <3>4. SeenSpared(u)'
      BY <1>1, <1>2, <1>4, <2>2, <3>1, <3>3 DEF SeenSpared, TypeOK
    <3>5. SeenKept(u)'
      BY <1>2, <1>4, <2>2, <3>1 DEF SeenKept
    <3> QED
      BY <1>3, <3>4, <3>5
  <2> QED
    BY <2>3, <2>4, <2>5, <2>6 DEF Dispose
<1> QED
  BY <1>5, <1>6

LEMMA SeenStep ==
  AtMostTwo => (DentriesInv /\ SeenSound /\ [DentriesNext]_dvars => SeenSound')
<1> SUFFICES ASSUME AtMostTwo, DentriesInv, SeenSound, [DentriesNext]_dvars
             PROVE  SeenSound'
  OBVIOUS
<1>1. Linked'
  BY DentriesInvStep DEF DentriesInv
<1>2. CASE UNCHANGED dvars
  BY <1>2 DEF dvars, vars, SeenSound, SeenKept, HeldNamed, SeenSpared, Seen
<1>3. ASSUME NEW t \in Reader, Step(t) PROVE SeenSound'
  BY <1>1, <1>3, SeenStepQuiet, SeenStepEnter, SeenStepLeave, SeenStepDispose DEF Step
<1>4. ASSUME NEW t \in Reader, Drop(t) \/ \E n \in Name : LookUp(t, n) PROVE SeenSound'
  BY <1>4, SeenStepQuiet, SeenStepEnter
<1> QED
  BY <1>2, <1>3, <1>4 DEF DentriesNext

\* With at most two tasks, and any number of entries and names, what a task
\* refers to is in the cache under the name it asked for, and the counts are
\* the numbers of tasks that refer to the entries.
THEOREM TwoTasksAreSafe ==
  ASSUME AtMostTwo
  PROVE  DentriesSpec => []ReferencesSound
<1>1. DentriesInit => SeenSound
  BY EmptyList DEF DentriesInit, Init, SeenSound, SeenKept, HeldNamed, SeenSpared, Seen
<1>2. DentriesInv /\ SeenSound => ReferencesSound
  <2> SUFFICES ASSUME DentriesInv, SeenSound, NEW e \in Entry
               PROVE  IF place[e] = "hashed" /\ ref[e] >= 0
                      THEN /\ ref[e] = Cardinality(Holders(e))
                           /\ \A t \in Holders(e) : name[e] = want[t]
                      ELSE Holders(e) = {}
    BY DEF ReferencesSound
  <2>1. ref[e] \in Int
    BY DEF DentriesInv, Linked, TasksLinked, DentriesTypeOK
  <2>2. \A t \in Holders(e) : t \in Reader /\ name[e] = want[t]
    BY RCUAssumption DEF Holders, SeenSound, HeldNamed
  <2>3. /\ ref[e] >= 0 => place[e] = "hashed" /\ ref[e] = Cardinality(Holders(e))
        /\ ref[e] < 0 => Holders(e) = {}
    BY DEF DentriesInv, Counted, CountsSound
  <2> QED
    BY <2>1, <2>2, <2>3
<1>3. DentriesInv /\ SeenSound /\ [DentriesNext]_dvars => SeenSound'
  BY SeenStep
<1> QED
  BY <1>1, <1>2, <1>3, DentriesInvHolds, PTL DEF DentriesSpec

\* The lock keeps its promises to the cache as well.
THEOREM CacheFreesOnce == DentriesSpec => [](FreedOnce /\ CallbacksRemembered)
<1>1. DentriesInv => FreedOnce /\ CallbacksRemembered
  BY DEF DentriesInv, Linked, IndInv
<1> QED
  BY <1>1, DentriesInvHolds, PTL

=============================================================================
