--------------------------- MODULE SemaphoreProofs ---------------------------
(***************************************************************************)
(* Proofs about Semaphore, for any finite set of tasks.                    *)
(*                                                                         *)
(* Surplus compares count with what the tasks inside the semaphore account *)
(* for.  It never gets negative: this is why no waiting task is forgotten, *)
(* with or without interruptible waits.  An interrupted wait is the only   *)
(* step that can raise it; without one it stays 0 and the semaphore is a   *)
(* mutex.                                                                  *)
(***************************************************************************)
EXTENDS Semaphore, ListLemmas, FiniteSetTheorems

Held == Cardinality(At("held"))
Slow == Cardinality(At("slow"))
Surplus == count + sleepers + Held + Slow - 1

\* What holds only if nobody calls downSemaphoreInterruptible().
Exact ==
  /\ Surplus = 0
  /\ Held <= 1
  /\ sleepers = 1 => queue # <<>>

IndInv ==
  /\ TypeOK
  /\ sleepers \in {0, 1}
  /\ Surplus >= 0
  /\ QueueSound
  /\ NoLostWakeUp
  /\ Interruptible = {} => Exact

-----------------------------------------------------------------------------
(* How many tasks are where.                                               *)

\* The places are finite sets of tasks.
LEMMA PlaceFinite ==
  ASSUME NEW p
  PROVE  /\ IsFiniteSet(At(p))
         /\ Cardinality(At(p)) \in Nat
         /\ Cardinality(At(p)) = 0 <=> At(p) = {}
<1>1. At(p) \in SUBSET Task
  BY DEF At
<1>2. IsFiniteSet(At(p))
  BY <1>1, FS_Subset, SemaphoreAssumption
<1>3. QED BY <1>2, FS_CardinalityType, FS_EmptySet

\* A task that goes from one place to another is counted in the second.
LEMMA PlaceMoves ==
  ASSUME TypeOK, NEW t \in Task, NEW p \in Place, p # pc[t],
         pc' = [pc EXCEPT ![t] = p]
  PROVE  \A q \in Place :
           /\ At(q)' = IF q = p THEN At(q) \cup {t} ELSE At(q) \ {t}
           /\ Cardinality(At(q)') =
                IF q = p THEN Cardinality(At(q)) + 1
                ELSE IF q = pc[t] THEN Cardinality(At(q)) - 1
                ELSE Cardinality(At(q))
<1> SUFFICES ASSUME NEW q \in Place
             PROVE  /\ At(q)' = IF q = p THEN At(q) \cup {t} ELSE At(q) \ {t}
                    /\ Cardinality(At(q)') =
                         IF q = p THEN Cardinality(At(q)) + 1
                         ELSE IF q = pc[t] THEN Cardinality(At(q)) - 1
                         ELSE Cardinality(At(q))
  OBVIOUS
<1>1. At(q)' = IF q = p THEN At(q) \cup {t} ELSE At(q) \ {t}
  BY DEF At, TypeOK
<1>2. t \in At(q) <=> q = pc[t]
  BY DEF At
<1>3. IsFiniteSet(At(q))
  BY PlaceFinite
<1>4. CASE q = p
  <2>1. Cardinality(At(q) \cup {t}) = Cardinality(At(q)) + 1
    BY <1>2, <1>3, <1>4, FS_AddElement
  <2>2. QED BY <2>1, <1>1, <1>4
<1>5. CASE q # p
  <2>1. Cardinality(At(q) \ {t}) =
          IF q = pc[t] THEN Cardinality(At(q)) - 1 ELSE Cardinality(At(q))
    BY <1>2, <1>3, FS_RemoveElement
  <2>2. QED BY <2>1, <1>1, <1>5
<1>6. QED BY <1>4, <1>5

\* Steps that leave pc alone leave the places alone.
LEMMA PlaceStays == ASSUME UNCHANGED pc PROVE \A q : At(q)' = At(q)
BY DEF At

\* A queue that is woken up: its head runs, nobody else changes.
LEMMA WakeHeadType ==
  ASSUME NEW q \in Seq(Task), TypeOK
  PROVE  /\ WakeHead(q, state) \in [Task -> {"Running", "Interruptible", "Uninterruptible"}]
         /\ q # <<>> => Head(q) \in ToSet(q) /\ WakeHead(q, state)[Head(q)] = "Running"
<1>1. CASE q = <<>>
  BY <1>1 DEF WakeHead, TypeOK
<1>2. CASE q # <<>>
  <2>1. Head(q) \in Task /\ Head(q) \in ToSet(q)
    BY <1>2 DEF ToSet
  <2>2. QED BY <2>1, <1>2 DEF WakeHead, TypeOK
<1>3. QED BY <1>1, <1>2

-----------------------------------------------------------------------------

\* initSemaphore() establishes the invariant.
LEMMA InitIndInv == Init => IndInv
<1> SUFFICES ASSUME Init PROVE IndInv
  OBVIOUS
<1>1. \A p \in Place : At(p) = IF p = "out" THEN Task ELSE {}
  BY DEF Init, At, Place
<1>2. Held = 0 /\ Slow = 0
  BY <1>1, FS_EmptySet DEF Held, Slow, Place
<1>3. TypeOK
  BY EmptyList DEF Init, TypeOK, Place
<1>4. QueueSound
  BY <1>1, EmptyList DEF Init, QueueSound, Place
<1>5. NoLostWakeUp
  BY DEF Init, NoLostWakeUp
<1>6. Surplus = 0 /\ sleepers = 0
  BY <1>2 DEF Init, Surplus
<1>7. QED BY <1>2, <1>3, <1>4, <1>5, <1>6 DEF IndInv, Exact

-----------------------------------------------------------------------------
(* The steps.                                                              *)

\* The two counts before and after a move.
LEMMA Counted ==
  ASSUME TypeOK, NEW t \in Task, NEW p \in Place, p # pc[t],
         pc' = [pc EXCEPT ![t] = p]
  PROVE  /\ Held \in Nat /\ Slow \in Nat /\ Held' \in Nat /\ Slow' \in Nat
         /\ Held' = IF p = "held" THEN Held + 1
                    ELSE IF pc[t] = "held" THEN Held - 1 ELSE Held
         /\ Slow' = IF p = "slow" THEN Slow + 1
                    ELSE IF pc[t] = "slow" THEN Slow - 1 ELSE Slow
         /\ At("held")' = {} <=> Held' = 0
         /\ At("slow")' = {} <=> Slow' = 0
<1>1. /\ IsFiniteSet(At("held")) /\ Held \in Nat
      /\ IsFiniteSet(At("slow")) /\ Slow \in Nat
  BY PlaceFinite DEF Held, Slow
<1>2. \A q \in {"held", "slow"} :
        /\ IsFiniteSet(At(q)')
        /\ Cardinality(At(q)') \in Nat
        /\ Cardinality(At(q)') = 0 <=> At(q)' = {}
  <2>1. ASSUME NEW q \in {"held", "slow"}
        PROVE  /\ IsFiniteSet(At(q)')
               /\ Cardinality(At(q)') \in Nat
               /\ Cardinality(At(q)') = 0 <=> At(q)' = {}
    <3>1. At(q)' \in SUBSET Task
      BY DEF At
    <3>2. IsFiniteSet(At(q)')
      BY <3>1, FS_Subset, SemaphoreAssumption
    <3>3. QED BY <3>2, FS_CardinalityType, FS_EmptySet
  <2>2. QED BY <2>1
<1>3. \A q \in {"held", "slow"} :
        Cardinality(At(q)') =
          IF q = p THEN Cardinality(At(q)) + 1
          ELSE IF q = pc[t] THEN Cardinality(At(q)) - 1
          ELSE Cardinality(At(q))
  BY PlaceMoves DEF Place
<1>4. Held' = Cardinality(At("held")') /\ Slow' = Cardinality(At("slow")')
  BY DEF Held, Slow
<1>5. QED BY <1>1, <1>2, <1>3, <1>4 DEF Held, Slow

\* The same without a move.
LEMMA CountedStays ==
  ASSUME TypeOK, UNCHANGED pc
  PROVE  /\ Held' = Held /\ Slow' = Slow
         /\ Held \in Nat /\ Slow \in Nat
         /\ At("held") = {} <=> Held = 0
         /\ At("slow") = {} <=> Slow = 0
         /\ \A q \in Place : At(q)' = At(q)
BY PlaceStays, PlaceFinite DEF Held, Slow

\* Who is in a place is counted there.
LEMMA CountedAt ==
  ASSUME NEW t \in Task
  PROVE  /\ pc[t] = "held" => Held >= 1
         /\ pc[t] = "slow" => Slow >= 1
         /\ At("held") = {} <=> Held = 0
         /\ At("slow") = {} <=> Slow = 0
         /\ Held \in Nat /\ Slow \in Nat
<1>1. pc[t] = "held" => At("held") # {}
  BY DEF At
<1>2. pc[t] = "slow" => At("slow") # {}
  BY DEF At
<1>3. QED BY <1>1, <1>2, PlaceFinite DEF Held, Slow

\* downSemaphore(), fast path: count was positive, so nobody had it.
LEMMA DownFastStep ==
  ASSUME IndInv, NEW t \in Task, DownFast(t) PROVE IndInv'
<1>1. TypeOK /\ pc[t] = "out" /\ count \in Int /\ sleepers \in {0, 1}
  BY DEF IndInv, DownFast, TypeOK
<1> DEFINE p == IF count - 1 >= 0 THEN "held" ELSE "slow"
<1>2. p \in Place /\ p # pc[t] /\ pc' = [pc EXCEPT ![t] = p] /\ count' = count - 1
  BY <1>1 DEF DownFast, Place
<1>3. /\ Held \in Nat /\ Slow \in Nat
      /\ Held' = IF p = "held" THEN Held + 1 ELSE Held
      /\ Slow' = IF p = "slow" THEN Slow + 1 ELSE Slow
      /\ At("held")' = {} <=> Held' = 0
      /\ At("slow")' = {} <=> Slow' = 0
  BY <1>1, <1>2, Counted
<1>4. At("wait")' = At("wait")
  BY <1>1, <1>2 DEF At, TypeOK
<1>5. TypeOK'
  BY <1>1, <1>2 DEF TypeOK, DownFast
<1>6. sleepers' = sleepers /\ queue' = queue
  BY DEF DownFast
<1>7. QueueSound'
  BY <1>4, <1>6 DEF IndInv, QueueSound
<1>8. NoLostWakeUp'
  BY <1>3 DEF NoLostWakeUp
<1>9. Surplus' = Surplus
  BY <1>1, <1>2, <1>3, <1>6 DEF Surplus
<1>10. Surplus = 0 /\ Held <= 1 => Held' <= 1
  BY <1>1, <1>2, <1>3, <1>9 DEF Surplus
<1>11. QED
  BY <1>5, <1>6, <1>7, <1>8, <1>9, <1>10 DEF IndInv, Exact

\* The queue with which the loop is entered, from the fast path or from the
\* wait: the task is in it, and with it those that wait.
LoopEntry(t, s, q) ==
  \/ pc[t] = "slow" /\ s = sleepers + 1 /\ q = Cons(t, queue)
  \/ pc[t] = "wait" /\ s = sleepers /\ q = queue

LEMMA LoopQueue ==
  ASSUME IndInv, NEW t \in Task, NEW s, NEW q, LoopEntry(t, s, q)
  PROVE  /\ q \in Seq(Task)
         /\ IsInjective(q)
         /\ ToSet(q) = At("wait") \cup {t}
<1>1. queue \in Seq(Task) /\ IsInjective(queue) /\ ToSet(queue) = At("wait")
  BY DEF IndInv, TypeOK, QueueSound
<1>2. CASE pc[t] = "slow" /\ q = Cons(t, queue)
  <2>1. t \notin ToSet(queue)
    BY <1>1, <1>2 DEF At
  <2>2. /\ Cons(t, queue) \in Seq(Task)
        /\ ToSet(Cons(t, queue)) = {t} \cup ToSet(queue)
        /\ IsInjective(Cons(t, queue))
    BY <1>1, <2>1, ConsList
  <2>3. QED BY <1>1, <1>2, <2>2
<1>3. CASE pc[t] = "wait" /\ q = queue
  BY <1>1, <1>3 DEF At
<1>4. QED BY <1>2, <1>3 DEF LoopEntry

\* The loop ends: nobody had the semaphore.
LEMMA AcquireStep ==
  ASSUME IndInv, NEW t \in Task, NEW s, NEW q, LoopEntry(t, s, q),
         Acquire(t, s, q), UNCHANGED pending
  PROVE  IndInv'
<1>1. TypeOK /\ count \in Int /\ sleepers \in {0, 1} /\ s \in Nat
  BY DEF IndInv, TypeOK, LoopEntry
<1>2. /\ pc[t] \in {"slow", "wait"} /\ "held" # pc[t] /\ "held" \in Place
      /\ pc' = [pc EXCEPT ![t] = "held"]
      /\ count' = count + s - 1 /\ sleepers' = 0
      /\ count + s - 1 >= 0
      /\ queue' = ListDelete(q, t)
      /\ state' = WakeHead(queue', state)
  BY DEF LoopEntry, Acquire, Place
<1>3. /\ Held \in Nat /\ Slow \in Nat
      /\ Held' = Held + 1
      /\ Slow' = IF pc[t] = "slow" THEN Slow - 1 ELSE Slow
      /\ At("held")' = {} <=> Held' = 0
  BY <1>1, <1>2, Counted
<1>4. queue' \in Seq(Task) /\ IsInjective(queue') /\ ToSet(queue') = (At("wait") \cup {t}) \ {t}
  BY <1>2, LoopQueue, DeleteList
<1>5. At("wait")' = At("wait") \ {t}
  BY <1>1, <1>2 DEF At, TypeOK
<1>6. QueueSound'
  BY <1>4, <1>5 DEF QueueSound
<1>7. TypeOK'
  <2>1. state' \in [Task -> {"Running", "Interruptible", "Uninterruptible"}]
    BY <1>1, <1>2, <1>4, WakeHeadType
  <2>2. pc' \in [Task -> Place] /\ pending' \in [Task -> BOOLEAN]
    BY <1>1, <1>2 DEF TypeOK
  <2>3. count' \in Int /\ sleepers' \in Nat
    BY <1>1, <1>2
  <2>4. QED BY <1>4, <2>1, <2>2, <2>3 DEF TypeOK
<1>8. NoLostWakeUp'
  BY <1>3 DEF NoLostWakeUp
<1>9. s - sleepers = IF pc[t] = "slow" THEN 1 ELSE 0
  BY <1>1 DEF LoopEntry
<1>10. Surplus' = Surplus
  BY <1>1, <1>2, <1>3, <1>9 DEF Surplus
<1>11. Surplus = 0 => Held' <= 1
  <2>1. pc[t] = "slow" => Slow >= 1
    BY CountedAt
  <2>2. QED BY <1>1, <1>2, <1>3, <1>9, <2>1 DEF Surplus
<1>12. QED
  BY <1>2, <1>6, <1>7, <1>8, <1>10, <1>11 DEF IndInv, Exact

\* It goes on: somebody has the semaphore, or is on his way to it.
LEMMA FallAsleepStep ==
  ASSUME IndInv, NEW t \in Task, NEW s, NEW q, LoopEntry(t, s, q),
         FallAsleep(t, s, q), UNCHANGED pending
  PROVE  IndInv'
<1>1. TypeOK /\ count \in Int /\ sleepers \in {0, 1} /\ s \in Nat /\ Surplus >= 0
  BY DEF IndInv, TypeOK, LoopEntry
<1>2. /\ pc[t] \in {"slow", "wait"} /\ "wait" \in Place
      /\ pc' = [pc EXCEPT ![t] = "wait"]
      /\ count' = count + s - 1 /\ sleepers' = 1
      /\ count + s - 1 < 0
      /\ queue' = q
      /\ state' = [state EXCEPT ![t] = SleepState(t)]
  BY DEF LoopEntry, FallAsleep, Place
<1>3. /\ Held \in Nat /\ Slow \in Nat
      /\ Held' = Held
      /\ Slow' = IF pc[t] = "slow" THEN Slow - 1 ELSE Slow
      /\ At("held")' = {} <=> Held = 0
      /\ At("slow")' = {} <=> Slow' = 0
  <2>1. CASE pc[t] = "slow"
    BY <1>1, <1>2, <2>1, Counted
  <2>2. CASE pc[t] = "wait"
    <3>1. pc' = pc
      BY <1>1, <1>2, <2>2 DEF TypeOK
    <3>2. QED BY <1>1, <2>2, <3>1, CountedStays DEF Place
  <2>3. QED BY <1>2, <2>1, <2>2
<1>4. queue' \in Seq(Task) /\ IsInjective(queue') /\ ToSet(queue') = At("wait") \cup {t}
  BY <1>2, LoopQueue
<1>5. At("wait")' = At("wait") \cup {t}
  BY <1>1, <1>2 DEF At, TypeOK
<1>6. QueueSound'
  BY <1>4, <1>5 DEF QueueSound
<1>7. TypeOK'
  BY <1>1, <1>2, <1>4 DEF TypeOK, SleepState
<1>8. s - sleepers = IF pc[t] = "slow" THEN 1 ELSE 0
  BY <1>1 DEF LoopEntry
<1>9. NoLostWakeUp'
  <2>1. Held = 0 => Slow' # 0
    BY <1>1, <1>2, <1>3, <1>8 DEF Surplus
  <2>2. QED BY <2>1, <1>3 DEF NoLostWakeUp
<1>10. Surplus' = Surplus
  BY <1>1, <1>2, <1>3, <1>8 DEF Surplus
<1>11. queue' # <<>>
  BY <1>4, EmptyList
<1>12. QED
  BY <1>2, <1>3, <1>6, <1>7, <1>9, <1>10, <1>11 DEF IndInv, Exact

\* A signal ends the wait: who waits behind is woken, or its place is given
\* back to count.
LEMMA InterruptedStep ==
  ASSUME IndInv, NEW t \in Task, Interrupted(t) PROVE IndInv'
<1>1. TypeOK /\ count \in Int /\ sleepers \in {0, 1} /\ Surplus >= 0
  BY DEF IndInv, TypeOK
<1>2. /\ pc[t] = "wait" /\ t \in Interruptible
      /\ pc' = [pc EXCEPT ![t] = "out"] /\ "out" \in Place
      /\ queue' = ListDelete(queue, t)
      /\ state' = WakeHead(queue', state)
      /\ count' = IF queue' = <<>> THEN count + 1 ELSE count
      /\ UNCHANGED <<sleepers, pending>>
  BY DEF Interrupted, Place
<1>3. /\ Held \in Nat /\ Slow \in Nat /\ Held' = Held /\ Slow' = Slow
  BY <1>1, <1>2, Counted
<1>4. queue \in Seq(Task) /\ IsInjective(queue) /\ ToSet(queue) = At("wait")
  BY <1>1 DEF IndInv, QueueSound, TypeOK
<1>5. queue' \in Seq(Task) /\ IsInjective(queue') /\ ToSet(queue') = At("wait") \ {t}
  BY <1>2, <1>4, DeleteList
<1>6. At("wait")' = At("wait") \ {t}
  BY <1>1, <1>2 DEF At, TypeOK
<1>7. /\ state' \in [Task -> {"Running", "Interruptible", "Uninterruptible"}]
      /\ queue' # <<>> => Head(queue') \in ToSet(queue') /\ state'[Head(queue')] = "Running"
  BY <1>1, <1>2, <1>5, WakeHeadType
<1>8. TypeOK'
  <2>1. pc' \in [Task -> Place] /\ pending' \in [Task -> BOOLEAN]
    BY <1>1, <1>2 DEF TypeOK
  <2>2. count' \in Int /\ sleepers' \in Nat
    BY <1>1, <1>2
  <2>3. QED BY <1>5, <1>7, <2>1, <2>2 DEF TypeOK
<1>9. QueueSound' /\ NoLostWakeUp'
  BY <1>5, <1>6, <1>7 DEF QueueSound, NoLostWakeUp, Runs
<1>10. Surplus' >= 0
  BY <1>1, <1>2, <1>3 DEF Surplus
<1>11. QED BY <1>1, <1>2, <1>8, <1>9, <1>10 DEF IndInv

\* upSemaphore(), first half: if it leaves count negative there are others on
\* their way to the queue, and they look again.
LEMMA UpCountStep ==
  ASSUME IndInv, NEW t \in Task, UpCount(t) PROVE IndInv'
<1>1. TypeOK /\ pc[t] = "held" /\ count \in Int /\ sleepers \in {0, 1} /\ Surplus >= 0
  BY DEF IndInv, UpCount, TypeOK
<1> DEFINE p == IF count + 1 >= 0 THEN "up" ELSE "out"
<1>2. /\ p \in Place /\ p # pc[t] /\ pc' = [pc EXCEPT ![t] = p]
      /\ count' = count + 1
      /\ UNCHANGED <<sleepers, queue, state, pending>>
  BY <1>1 DEF UpCount, Place
<1>3. /\ Held \in Nat /\ Slow \in Nat
      /\ Held' = Held - 1 /\ Slow' = Slow
      /\ At("held")' = {} <=> Held' = 0
      /\ At("slow")' = {} <=> Slow' = 0
  <2>1. p # "held" /\ p # "slow"
    OBVIOUS
  <2> HIDE DEF p
  <2>2. QED BY <1>1, <1>2, <2>1, Counted
<1>4. At("wait")' = At("wait")
  BY <1>1, <1>2 DEF At, TypeOK
<1>5. TypeOK'
  BY <1>1, <1>2 DEF TypeOK
<1>6. QueueSound'
  BY <1>2, <1>4 DEF IndInv, QueueSound
<1>7. NoLostWakeUp'
  <2>1. CASE count + 1 >= 0
    <3>1. t \in At("up")'
      BY <1>1, <1>2, <2>1 DEF At, TypeOK
    <3>2. QED BY <3>1 DEF NoLostWakeUp
  <2>2. CASE count + 1 < 0
    <3>1. Held' = 0 => Slow' # 0
      BY <1>1, <1>3, <2>2 DEF Surplus
    <3>2. QED BY <3>1, <1>3 DEF NoLostWakeUp
  <2>3. QED BY <1>1, <2>1, <2>2
<1>8. Surplus' = Surplus
  BY <1>1, <1>2, <1>3 DEF Surplus
<1>9. Held <= 1 => Held' <= 1
  BY <1>3
<1>10. QED
  BY <1>2, <1>5, <1>6, <1>7, <1>8, <1>9 DEF IndInv, Exact

\* Steps that only wake tasks, mark signals or leave the last place.
LEMMA HarmlessStep ==
  ASSUME IndInv, TypeOK',
         UNCHANGED <<count, sleepers, queue>>,
         \A p \in {"held", "slow", "wait"} : At(p)' = At(p),
         NoLostWakeUp'
  PROVE  IndInv'
<1>1. Held' = Held /\ Slow' = Slow
  BY DEF Held, Slow
<1>2. Surplus' = Surplus
  BY <1>1 DEF Surplus
<1>3. QueueSound'
  BY DEF IndInv, QueueSound
<1>4. QED BY <1>1, <1>2, <1>3 DEF IndInv, Exact

\* upSemaphore(), second half.
LEMMA UpWakeStep ==
  ASSUME IndInv, NEW t \in Task, UpWake(t) PROVE IndInv'
<1>1. TypeOK /\ queue \in Seq(Task)
  BY DEF IndInv, TypeOK
<1>2. /\ pc[t] = "up" /\ pc' = [pc EXCEPT ![t] = "out"]
      /\ state' = WakeHead(queue, state)
      /\ UNCHANGED <<count, sleepers, queue, pending>>
  BY DEF UpWake
<1>3. \A p \in {"held", "slow", "wait"} : At(p)' = At(p)
  BY <1>1, <1>2 DEF At, TypeOK
<1>4. /\ state' \in [Task -> {"Running", "Interruptible", "Uninterruptible"}]
      /\ queue # <<>> => Head(queue) \in ToSet(queue) /\ state'[Head(queue)] = "Running"
  BY <1>1, <1>2, WakeHeadType
<1>5. TypeOK'
  <2>1. pc' \in [Task -> Place]
    BY <1>1, <1>2 DEF TypeOK, Place
  <2>2. QED BY <1>1, <1>2, <1>4, <2>1 DEF TypeOK
<1>6. NoLostWakeUp'
  BY <1>2, <1>4 DEF NoLostWakeUp, Runs
<1>7. QED BY <1>2, <1>3, <1>5, <1>6, HarmlessStep

\* doKill(), the signal's delivery and a spurious wake-up: whoever ran still
\* runs.
LEMMA OutsideStep ==
  ASSUME IndInv, NEW t \in Task, Signal(t) \/ TakeSignal(t) \/ SpuriousWake(t)
  PROVE  IndInv'
<1>1. TypeOK /\ NoLostWakeUp
  BY DEF IndInv
<1>2. UNCHANGED <<count, sleepers, queue, pc>>
  BY DEF Signal, TakeSignal, SpuriousWake
<1>3. TypeOK' /\ \A u \in Task : state[u] = "Running" => state'[u] = "Running"
  <2>1. CASE Signal(t)
    BY <1>1, <2>1 DEF TypeOK, Signal
  <2>2. CASE TakeSignal(t)
    BY <1>1, <2>2 DEF TypeOK, TakeSignal
  <2>3. CASE SpuriousWake(t)
    BY <1>1, <2>3 DEF TypeOK, SpuriousWake
  <2>4. QED BY <2>1, <2>2, <2>3
<1>4. \A p : At(p)' = At(p)
  BY <1>2, PlaceStays
<1>5. ToSet(queue) \subseteq Task
  BY <1>1, ToSetType DEF TypeOK
<1>6. NoLostWakeUp'
  BY <1>1, <1>2, <1>3, <1>4, <1>5 DEF NoLostWakeUp, Runs
<1>7. QED BY <1>2, <1>3, <1>4, <1>6, HarmlessStep

\* Every step preserves the invariant.
LEMMA NextIndInv == IndInv /\ [Next]_vars => IndInv'
<1> SUFFICES ASSUME IndInv, [Next]_vars PROVE IndInv'
  OBVIOUS
<1>1. ASSUME NEW t \in Task, DownSlow(t) PROVE IndInv'
  <2>1. LoopEntry(t, sleepers + 1, Cons(t, queue)) /\ UNCHANGED pending
    BY <1>1 DEF LoopEntry, DownSlow
  <2>2. QED BY <1>1, <2>1, AcquireStep, FallAsleepStep DEF DownSlow
<1>2. ASSUME NEW t \in Task, Retry(t) PROVE IndInv'
  <2>1. LoopEntry(t, sleepers, queue) /\ UNCHANGED pending
    BY <1>2 DEF LoopEntry, Retry
  <2>2. QED BY <1>2, <2>1, AcquireStep, FallAsleepStep DEF Retry
<1>3. CASE UNCHANGED vars
  <2>1. UNCHANGED <<count, sleepers, queue, state, pending, pc>>
    BY <1>3 DEF vars
  <2>2. TypeOK' /\ NoLostWakeUp'
    BY <2>1 DEF IndInv, TypeOK, NoLostWakeUp, At, Runs
  <2>3. QED BY <2>1, <2>2, PlaceStays, HarmlessStep
<1>4. QED
  BY <1>1, <1>2, <1>3, DownFastStep, InterruptedStep, UpCountStep, UpWakeStep,
     OutsideStep
  DEF Next, Step

-----------------------------------------------------------------------------
(* The theorems.                                                           *)

\* The invariant holds in every reachable state.
THEOREM IndInvHolds == Spec => []IndInv
<1>1. QED BY InitIndInv, NextIndInv, PTL DEF Spec

\* Every variable keeps its type, whoever waits interruptibly.
THEOREM TypeCorrect == Spec => []TypeOK
<1>1. IndInv => TypeOK
  BY DEF IndInv
<1>2. QED BY <1>1, IndInvHolds, PTL

\* The wait queue holds exactly the tasks that wait (waitqueue.h keeps the
\* entries on their stacks), also when signals end waits.
THEOREM QueueIsSound == Spec => []QueueSound
<1>1. IndInv => QueueSound
  BY DEF IndInv
<1>2. QED BY <1>1, IndInvHolds, PTL

\* A free semaphore with tasks waiting has somebody under way to it: neither
\* upSemaphore() nor an interrupted wait loses the wake-up.
THEOREM WakeUpsAreNotLost == Spec => []NoLostWakeUp
<1>1. IndInv => NoLostWakeUp
  BY DEF IndInv
<1>2. QED BY <1>1, IndInvHolds, PTL

\* Without interruptible waits count is exact ...
THEOREM CountIsExact ==
  ASSUME Interruptible = {}
  PROVE  Spec => []CountAccounts
<1>1. IndInv => CountAccounts
  <2>1. IndInv => Held \in Nat /\ Slow \in Nat /\ count \in Int /\ sleepers \in {0, 1}
    BY PlaceFinite DEF IndInv, TypeOK, Held, Slow
  <2>2. QED BY <2>1 DEF IndInv, Exact, Surplus, CountAccounts, Held, Slow
<1>2. QED BY <1>1, IndInvHolds, PTL

\* ... and at most one task has the semaphore.
LEMMA AtMostOneHolds ==
  ASSUME IndInv, Interruptible = {}
  PROVE  MutualExclusion
<1>1. SUFFICES ASSUME NEW t \in At("held"), NEW u \in At("held"), t # u
               PROVE  FALSE
  BY DEF MutualExclusion
<1>2. IsFiniteSet(At("held")) /\ Held \in Nat /\ Held <= 1 /\ At("held") # {}
  BY <1>1, PlaceFinite DEF IndInv, Exact, Held
<1>3. Held = 1
  BY <1>2, PlaceFinite DEF Held
<1>4. PICK x : At("held") = {x}
  BY <1>2, <1>3, FS_Singleton DEF Held
<1>5. QED BY <1>1, <1>4

THEOREM SemaphoreExcludes ==
  ASSUME Interruptible = {}
  PROVE  Spec => []MutualExclusion
<1>1. IndInv => MutualExclusion
  BY AtMostOneHolds
<1>2. QED BY <1>1, IndInvHolds, PTL

-----------------------------------------------------------------------------
(* The semaphore as a Mutex.                                               *)

Want == At("slow") \cup At("wait")

\* Who has the semaphore is the owner.
LEMMA OwnerHolds ==
  ASSUME MutualExclusion
  PROVE  /\ At("held") = {} => Owner = NoTask
         /\ \A t \in Task : pc[t] = "held" => Owner = t
         /\ \A t \in Task : Owner = t => pc[t] = "held"
<1>1. At("held") = {} => Owner = NoTask
  BY DEF Owner
<1>2. ASSUME NEW t \in Task, pc[t] = "held" PROVE Owner = t
  BY <1>2 DEF MutualExclusion, Owner, At
<1>3. ASSUME NEW t \in Task, Owner = t PROVE pc[t] = "held"
  <2>1. At("held") # {}
    BY <1>1, <1>3, SemaphoreAssumption
  <2>2. QED BY <2>1, <1>3 DEF Owner, At
<1>4. QED BY <1>1, <1>2, <1>3

\* The initial states are those of Mutex.
LEMMA InitMutex == Init => M!Init
<1> SUFFICES ASSUME Init PROVE M!Init
  OBVIOUS
<1>1. At("held") = {} /\ At("slow") = {} /\ At("wait") = {}
  BY DEF Init, At
<1>2. QED BY <1>1 DEF M!Init, Owner

\* While nobody takes the semaphore or gives it back, the owner stays.
LEMMA OwnerStays ==
  ASSUME MutualExclusion, At("held")' = At("held")
  PROVE  Owner' = Owner
<1>1. CASE At("held") = {}
  BY <1>1 DEF Owner
<1>2. CASE At("held") # {}
  <2>1. PICK u \in Task : u \in At("held")
    BY <1>2 DEF At
  <2>2. \A t \in Task : pc'[t] = "held" <=> t = u
    BY <2>1 DEF MutualExclusion, At
  <2>3. Owner' = u
    BY <2>1, <2>2, <1>2 DEF Owner
  <2>4. Owner = u
    BY <2>1, OwnerHolds DEF At
  <2>5. QED BY <2>3, <2>4
<1>3. QED BY <1>1, <1>2

\* A step that moves nobody into or out of "held", "slow" or "wait".
LEMMA StutterMutex ==
  ASSUME MutualExclusion, \A p \in {"held", "slow", "wait"} : At(p)' = At(p)
  PROVE  UNCHANGED M!vars
<1>1. /\ At("held")' = At("held")
      /\ At("slow")' = At("slow")
      /\ At("wait")' = At("wait")
  OBVIOUS
<1>2. Owner' = Owner
  BY <1>1, OwnerStays
<1>3. QED BY <1>1, <1>2 DEF M!vars

\* downSemaphore() that succeeds, at once or after waiting.
LEMMA AcquireMutex ==
  ASSUME TypeOK, MutualExclusion, MutualExclusion', NEW t \in Task,
         At("held") = {}, pc' = [pc EXCEPT ![t] = "held"]
  PROVE  M!Next
<1>1. pc'[t] = "held"
  BY DEF TypeOK
<1>2. Owner = NoTask
  BY OwnerHolds
<1>3. Owner' = t
  BY <1>1 DEF MutualExclusion, Owner, At
<1>4. Want' = Want \ {t}
  BY DEF Want, At, TypeOK
<1>5. QED BY <1>2, <1>3, <1>4 DEF M!Next, M!Acquire, Want

\* A step of the semaphore is a step of Mutex, or none.
LEMMA NextMutex ==
  ASSUME IndInv, MutualExclusion, MutualExclusion', Interruptible = {}, [Next]_vars
  PROVE  [M!Next]_(M!vars)
<1>1. /\ TypeOK /\ MutualExclusion /\ MutualExclusion' /\ Exact
      /\ count \in Int /\ sleepers \in {0, 1}
      /\ QueueSound
  BY DEF IndInv, TypeOK
<1>2. ASSUME NEW t \in Task, DownFast(t) PROVE M!Next
  <2>1. pc[t] = "out" /\ Owner # t /\ t \notin Want
    BY <1>1, <1>2, OwnerHolds DEF DownFast, Want, At
  <2>2. CASE count - 1 >= 0
    <3>1. Held = 0
      BY <1>1, <2>2, CountedAt DEF Exact, Surplus
    <3>2. At("held") = {}
      BY <3>1, CountedAt
    <3>3. pc' = [pc EXCEPT ![t] = "held"]
      BY <1>1, <1>2, <2>2 DEF DownFast
    <3>4. QED BY <1>1, <3>2, <3>3, AcquireMutex
  <2>3. CASE count - 1 < 0
    <3>1. pc' = [pc EXCEPT ![t] = "slow"]
      <4>1. count' = count - 1 /\ ~(count' >= 0)
        BY <1>1, <1>2, <2>3 DEF DownFast
      <4>2. QED BY <1>2, <4>1 DEF DownFast
    <3>2. Want' = Want \cup {t} /\ At("held")' = At("held")
      BY <1>1, <2>1, <3>1 DEF Want, At, TypeOK
    <3>3. Owner' = Owner
      BY <3>2, <1>1, OwnerStays
    <3>4. At("held") = {} => Want # {}
      <4>1. Held = 0 => Slow # 0 \/ sleepers = 1
        BY <1>1, <2>3, CountedAt DEF Exact, Surplus
      <4>2. sleepers = 1 => At("wait") # {}
        <5>1. queue # <<>> => Head(queue) \in ToSet(queue)
          <6>1. queue \in Seq(Task)
            BY <1>1 DEF TypeOK
          <6>2. QED BY <6>1 DEF ToSet
        <5>2. QED BY <1>1, <5>1 DEF Exact, QueueSound
      <4>3. QED BY <4>1, <4>2, CountedAt DEF Want
    <3>5. M!Request(t) \/ M!Collide(t)
      <4>1. CASE At("held") = {}
        <5>1. Owner = NoTask
          BY <1>1, <4>1, OwnerHolds
        <5>2. QED BY <2>1, <3>2, <3>3, <3>4, <4>1, <5>1 DEF M!Collide, Want
      <4>2. CASE At("held") # {}
        <5>1. Owner # NoTask
          <6>1. PICK u \in Task : pc[u] = "held"
            BY <4>2 DEF At
          <6>2. QED BY <1>1, <6>1, OwnerHolds, SemaphoreAssumption
        <5>2. QED BY <2>1, <3>2, <3>3, <5>1 DEF M!Request, Want
      <4>3. QED BY <4>1, <4>2
    <3>6. QED BY <3>5 DEF M!Next
  <2>4. QED BY <1>1, <2>2, <2>3
<1>3. ASSUME NEW t \in Task, NEW s, NEW q, LoopEntry(t, s, q), Acquire(t, s, q)
      PROVE  M!Next
  <2>1. Held = 0
    <3>1. pc[t] = "slow" => Slow >= 1
      BY CountedAt
    <3>2. count + s - 1 >= 0
      BY <1>3 DEF Acquire
    <3>3. (pc[t] = "slow" /\ s = sleepers + 1) \/ s = sleepers
      BY <1>3 DEF LoopEntry
    <3>4. QED BY <1>1, <3>1, <3>2, <3>3, CountedAt DEF Exact, Surplus
  <2>2. At("held") = {}
    BY <2>1, CountedAt
  <2>3. QED BY <1>1, <1>3, <2>2, AcquireMutex DEF Acquire
<1>4. ASSUME NEW t \in Task, NEW s, NEW q, LoopEntry(t, s, q), FallAsleep(t, s, q)
      PROVE  UNCHANGED M!vars
  <2>1. pc[t] \in {"slow", "wait"} /\ pc' = [pc EXCEPT ![t] = "wait"]
    BY <1>4 DEF LoopEntry, FallAsleep
  <2>2. Want' = Want /\ At("held")' = At("held")
    BY <1>1, <2>1 DEF Want, At, TypeOK
  <2>3. Owner' = Owner
    BY <1>1, <2>2, OwnerStays
  <2>4. QED BY <2>2, <2>3 DEF M!vars, Want
<1>5. ASSUME NEW t \in Task, UpCount(t) PROVE M!Next
  <2>1. pc[t] = "held" /\ pc'[t] # "held" /\ \A u \in Task \ {t} : pc'[u] = pc[u]
    BY <1>1, <1>5 DEF UpCount, TypeOK
  <2>2. Owner = t
    BY <1>1, <2>1, OwnerHolds
  <2>3. At("held")' = {}
    BY <1>1, <2>1 DEF At, MutualExclusion
  <2>4. Want' = Want
    BY <1>1, <1>5, <2>1 DEF Want, At, UpCount, TypeOK
  <2>5. QED BY <2>2, <2>3, <2>4 DEF M!Next, M!Release, Want, Owner
<1>6. ASSUME NEW t \in Task, UpWake(t) PROVE UNCHANGED M!vars
  <2>1. \A p \in {"held", "slow", "wait"} : At(p)' = At(p)
    BY <1>1, <1>6 DEF UpWake, At, TypeOK
  <2>2. QED BY <1>1, <2>1, StutterMutex
<1>7. CASE UNCHANGED pc
  <2>1. \A p \in {"held", "slow", "wait"} : At(p)' = At(p)
    BY <1>7, PlaceStays
  <2>2. QED BY <1>1, <2>1, StutterMutex
<1>8. ASSUME NEW t \in Task, DownSlow(t) PROVE [M!Next]_(M!vars)
  <2>1. LoopEntry(t, sleepers + 1, Cons(t, queue))
    BY <1>8 DEF LoopEntry, DownSlow
  <2>2. QED BY <1>3, <1>4, <1>8, <2>1 DEF DownSlow
<1>9. ASSUME NEW t \in Task, Retry(t) PROVE [M!Next]_(M!vars)
  <2>1. LoopEntry(t, sleepers, queue)
    BY <1>9 DEF LoopEntry, Retry
  <2>2. QED BY <1>3, <1>4, <1>9, <2>1 DEF Retry
<1>10. ASSUME NEW t \in Task, Interrupted(t) PROVE FALSE
  BY <1>10 DEF Interrupted
<1>11. ASSUME NEW t \in Task, Signal(t) \/ TakeSignal(t) \/ SpuriousWake(t)
       PROVE  UNCHANGED pc
  BY <1>11 DEF Signal, TakeSignal, SpuriousWake
<1>12. UNCHANGED vars => UNCHANGED pc
  BY DEF vars
<1>13. QED
  BY <1>2, <1>5, <1>6, <1>7, <1>8, <1>9, <1>10, <1>11, <1>12 DEF Next, Step

\* What downSemaphore() and upSemaphore() promise: one owner at a time, who
\* got it while it was free.  (That somebody gets it is left to TLC.)
THEOREM SemaphoreIsMutex ==
  ASSUME Interruptible = {}
  PROVE  Spec => M!Spec
<1>1. /\ IndInv /\ MutualExclusion /\ MutualExclusion' /\ [Next]_vars
      => [M!Next]_(M!vars)
  BY NextMutex
<1>2. QED
  BY <1>1, InitMutex, IndInvHolds, SemaphoreExcludes, PTL DEF Spec, M!Spec

=============================================================================
