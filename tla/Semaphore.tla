------------------------------ MODULE Semaphore ------------------------------
(***************************************************************************)
(* downSemaphore(), downSemaphoreInterruptible() and upSemaphore()         *)
(* (semaphore.c) with their wait queue (waitqueue.h).                      *)
(*                                                                         *)
(* The fast paths are one atomic instruction on count.  What runs under    *)
(* queue.lock is one step: a spin lock holds preemption off and interrupt  *)
(* handlers do not touch semaphores.  Between two steps any other task can *)
(* run.  A task whose state is not "Running" takes no step (Scheduler);    *)
(* setting it and calling schedule() is one step, because a task that is   *)
(* not "Running" is not preempted.                                         *)
(*                                                                         *)
(* count starts at 1.  A task that finds the semaphore taken has counted   *)
(* itself (pc "slow") until it gets to the wait queue, where all waiting   *)
(* tasks together are counted by sleepers.                                 *)
(***************************************************************************)
EXTENDS Integers, FiniteSets, KernelList

CONSTANTS
  Task,            \* the tasks that use the semaphore
  Interruptible,   \* those that call downSemaphoreInterruptible()
  NoTask

ASSUME SemaphoreAssumption ==
  /\ IsFiniteSet(Task)
  /\ Interruptible \subseteq Task
  /\ NoTask \notin Task

VARIABLES
  count,     \* Semaphore.count
  sleepers,  \* Semaphore.sleepers
  queue,     \* Semaphore.queue, head first
  state,     \* Task.state: "Running" or asleep
  pending,   \* taskSignalPending()
  pc         \* where the task is

vars == <<count, sleepers, queue, state, pending, pc>>

(***************************************************************************)
(* "out"   outside, without the semaphore                                  *)
(* "slow"  the fast path failed, the queue lock comes next                 *)
(* "wait"  in schedule(), its WaitQueue entry in the queue                 *)
(* "held"  it has the semaphore                                            *)
(* "up"    upSemaphore() has added to count and will wake somebody         *)
(***************************************************************************)
Place == {"out", "slow", "wait", "held", "up"}
At(p) == {t \in Task : pc[t] = p}

\* The state of a task in schedule(), which returns at once to a task that
\* sleeps interruptibly with a signal pending.
SleepState(t) ==
  IF t \notin Interruptible THEN "Uninterruptible"
  ELSE IF pending[t] THEN "Running" ELSE "Interruptible"

TypeOK ==
  /\ count \in Int
  /\ sleepers \in Nat
  /\ queue \in Seq(Task)
  /\ state \in [Task -> {"Running", "Interruptible", "Uninterruptible"}]
  /\ pending \in [Task -> BOOLEAN]
  /\ pc \in [Task -> Place]

\* initSemaphore()
Init ==
  /\ count = 1
  /\ sleepers = 0
  /\ queue = <<>>
  /\ state = [t \in Task |-> "Running"]
  /\ pending = [t \in Task |-> FALSE]
  /\ pc = [t \in Task |-> "out"]

-----------------------------------------------------------------------------

Runs(t) == state[t] = "Running"

\* wakeUpLocked() on a queue that holds the tasks of q: the head runs again.
WakeHead(q, s) == IF q = <<>> THEN s ELSE [s EXCEPT ![Head(q)] = "Running"]

\* atomicAddRet(&sem->count, -1)
DownFast(t) ==
  /\ pc[t] = "out" /\ Runs(t)
  /\ count' = count - 1
  /\ pc' = [pc EXCEPT ![t] = IF count' >= 0 THEN "held" ELSE "slow"]
  /\ UNCHANGED <<sleepers, queue, state, pending>>

\* The loop body under the queue lock, s being sleepers when it is entered
\* and q the queue: the task gets the semaphore and wakes the next one ...
Acquire(t, s, q) ==
  /\ count + s - 1 >= 0
  /\ count' = count + s - 1
  /\ sleepers' = 0
  /\ queue' = ListDelete(q, t)
  /\ state' = WakeHead(queue', state)
  /\ pc' = [pc EXCEPT ![t] = "held"]

\* A slip: sleepers adds up.
FallAsleepAdding(t, s, q) ==
  /\ count + s - 1 < 0
  /\ count' = count + s - 1
  /\ sleepers' = s
  /\ queue' = q
  /\ state' = [state EXCEPT ![t] = SleepState(t)]
  /\ pc' = [pc EXCEPT ![t] = "wait"]

\* ... or goes to sleep.
FallAsleep(t, s, q) ==
  /\ count + s - 1 < 0
  /\ count' = count + s - 1
  /\ sleepers' = 1
  /\ queue' = q
  /\ state' = [state EXCEPT ![t] = SleepState(t)]
  /\ pc' = [pc EXCEPT ![t] = "wait"]

\* It enters the queue at its head: addToWaitQueueLocked() is listAdd().
DownSlow(t) ==
  /\ pc[t] = "slow" /\ Runs(t)
  /\ \/ Acquire(t, sleepers + 1, Cons(t, queue))
     \/ FallAsleep(t, sleepers + 1, Cons(t, queue))
  /\ UNCHANGED pending

\* Woken up: once more.
Retry(t) ==
  /\ pc[t] = "wait" /\ Runs(t)
  /\ ~(t \in Interruptible /\ pending[t])
  /\ Acquire(t, sleepers, queue) \/ FallAsleep(t, sleepers, queue)
  /\ UNCHANGED pending

\* The same with a signal pending, in downSemaphoreInterruptible().
Interrupted(t) ==
  /\ pc[t] = "wait" /\ Runs(t)
  /\ t \in Interruptible /\ pending[t]
  /\ queue' = ListDelete(queue, t)
  /\ state' = WakeHead(queue', state)
  /\ count' = IF queue' = <<>> THEN count + 1 ELSE count
  /\ pc' = [pc EXCEPT ![t] = "out"]
  /\ UNCHANGED <<sleepers, pending>>

\* A slip: > for >=.
UpCountPositive(t) ==
  /\ pc[t] = "held" /\ Runs(t)
  /\ count' = count + 1
  /\ pc' = [pc EXCEPT ![t] = IF count' > 0 THEN "up" ELSE "out"]
  /\ UNCHANGED <<sleepers, queue, state, pending>>

\* upSemaphore(): atomicAddRet(&sem->count, 1)
UpCount(t) ==
  /\ pc[t] = "held" /\ Runs(t)
  /\ count' = count + 1
  /\ pc' = [pc EXCEPT ![t] = IF count' >= 0 THEN "up" ELSE "out"]
  /\ UNCHANGED <<sleepers, queue, state, pending>>

\* wakeUp(&sem->queue)
UpWake(t) ==
  /\ pc[t] = "up" /\ Runs(t)
  /\ state' = WakeHead(queue, state)
  /\ pc' = [pc EXCEPT ![t] = "out"]
  /\ UNCHANGED <<count, sleepers, queue, pending>>

\* doKill(): only an interruptible sleep ends.
Signal(t) ==
  /\ t \in Interruptible
  /\ pending' = [pending EXCEPT ![t] = TRUE]
  /\ state' = [state EXCEPT ![t] = IF @ = "Interruptible" THEN "Running" ELSE @]
  /\ UNCHANGED <<count, sleepers, queue, pc>>

\* The task takes the signal outside.
TakeSignal(t) ==
  /\ pc[t] = "out" /\ pending[t]
  /\ pending' = [pending EXCEPT ![t] = FALSE]
  /\ UNCHANGED <<count, sleepers, queue, state, pc>>

\* schedule() comes back although nobody called wakeUpTask() for this wait:
\* its stale local variable (Scheduler), or a child of a parent whose
\* waiting flag was left set (task.c:388).
SpuriousWake(t) ==
  /\ ~Runs(t)
  /\ state' = [state EXCEPT ![t] = "Running"]
  /\ UNCHANGED <<count, sleepers, queue, pending, pc>>

Step(t) ==
  \/ DownSlow(t) \/ Retry(t) \/ Interrupted(t) \/ UpCount(t) \/ UpWake(t)

Next ==
  \E t \in Task :
    Step(t) \/ DownFast(t) \/ Signal(t) \/ TakeSignal(t) \/ SpuriousWake(t)

Spec == Init /\ [][Next]_vars

\* A task that may run gets the CPU again (RunQueue); the code between
\* downSemaphore() and upSemaphore() ends.
FairSpec == Spec /\ \A t \in Task : WF_vars(Step(t))

-----------------------------------------------------------------------------
(* Properties.                                                             *)

\* "If unlock, just lock it and return": at most one task has it.
MutualExclusion == \A t, u \in At("held") : t = u

\* count, read without the lock by whoever comes next, always accounts for
\* the holder, for each task on its way to the queue and once for all the
\* waiting ones.
CountAccounts ==
  /\ sleepers \in {0, 1}
  /\ count = 1 - Cardinality(At("held")) - Cardinality(At("slow")) - sleepers

\* The queue holds exactly the waiting tasks: their entries live on their
\* stacks, so that one left behind would be read after its function returned.
QueueSound ==
  /\ IsInjective(queue)
  /\ ToSet(queue) = At("wait")

\* While the semaphore is free and somebody waits for it, somebody is on the
\* way who will take it or wake a waiting task.
NoLostWakeUp ==
  queue # <<>> /\ At("held") = {}
    => \/ At("slow") # {} \/ At("up") # {}
       \/ \E t \in ToSet(queue) : Runs(t)

\* A semaphore is a mutex: one owner, and a free one that is wanted is taken.
Owner == IF At("held") = {} THEN NoTask ELSE CHOOSE t \in Task : pc[t] = "held"
M == INSTANCE Mutex WITH owner <- Owner, want <- At("slow") \cup At("wait")
ImplementsMutex == M!FairSpec

=============================================================================
