------------------------------ MODULE TaskFamily ------------------------------
(***************************************************************************)
(* Parents and children: doFork(), doExit() and doWaitPID() (task.c), with *)
(* the signals that end a wait (signal.c) and the one call of doExit()     *)
(* that may block, the close function of a devfs directory (devfs.c).      *)
(*                                                                         *)
(* There is one CPU, and a task whose state is not TaskRunning is not      *)
(* preempted (Scheduler): what a task does between setting its state and   *)
(* calling schedule() is one step, and only a task that runs takes steps.  *)
(***************************************************************************)
EXTENDS Naturals, FiniteSets

CONSTANTS
  Task,        \* pages for Task structures, used again and again
  Idle,        \* idleTask: the root of the tree, it neither waits nor exits
  AnyChild,    \* pid 0 of doWaitPID()
  Signalled,   \* the tasks that get signals
  DevReader,   \* the tasks that have the root directory of devfs open
  Careless     \* the tasks whose pointer for the exit code may be bad

ASSUME FamilyAssumption ==
  /\ Idle \notin Task
  /\ AnyChild \notin Task
  /\ Signalled \subseteq Task /\ DevReader \subseteq Task /\ Careless \subseteq Task

VARIABLES
  state,     \* Task.state, "None" while the page is no task
  parent,    \* Task.parent
  children,  \* Task.children, linked through Task.sibling
  waiting,   \* Task.waiting
  pending,   \* taskSignalPending()
  pc,        \* where in the kernel a task is
  who,       \* the pid argument of doWaitPID(), then the child it has found
  holder     \* who has the semaphore of the devfs directory, Idle for nobody

vars == <<state, parent, children, waiting, pending, pc, who, holder>>

(***************************************************************************)
(* "out" of these calls, in the "wait" of doWaitPID(), "reap" when it has  *)
(* taken a zombie off its list, "sleep" in a driver, "close" in doExit()   *)
(* waiting for the semaphore, "dead" once doExit() has called schedule().  *)
(***************************************************************************)
TypeOK ==
  /\ state \in [Task -> {"None", "Running", "Interruptible", "Uninterruptible", "Zombie"}]
  /\ parent \in [Task -> Task \cup {Idle}]
  /\ children \in [Task \cup {Idle} -> SUBSET Task]
  /\ waiting \in [Task -> BOOLEAN]
  /\ pending \in [Task -> BOOLEAN]
  /\ pc \in [Task -> {"out", "wait", "reap", "sleep", "close", "dead"}]
  /\ who \in [Task -> Task \cup {AnyChild}]
  /\ holder \in Task \cup {Idle}

\* idle() has created one task, kinit.
Init ==
  \E kinit \in Task :
    /\ state = [t \in Task |-> IF t = kinit THEN "Running" ELSE "None"]
    /\ parent = [t \in Task |-> Idle]
    /\ children = [t \in Task \cup {Idle} |-> IF t = Idle THEN {kinit} ELSE {}]
    /\ waiting = [t \in Task |-> FALSE]
    /\ pending = [t \in Task |-> FALSE]
    /\ pc = [t \in Task |-> "out"]
    /\ who = [t \in Task |-> AnyChild]
    /\ holder = Idle

-----------------------------------------------------------------------------

\* t runs and is at place p.
At(t, p) == state[t] = "Running" /\ pc[t] = p

\* wakeUpTask(t, 0), which Idle does not need.
WakeUp(s, t) ==
  IF t # Idle /\ s[t] \in {"Interruptible", "Uninterruptible"}
  THEN [s EXCEPT ![t] = "Running"]
  ELSE s

\* doFork(): the child is linked, and then woken.  One that fails (no memory)
\* leaves nothing behind.
Fork(t, c) ==
  /\ At(t, "out") /\ state[c] = "None"
  /\ state' = [state EXCEPT ![c] = "Running"]
  /\ parent' = [parent EXCEPT ![c] = t]
  /\ children' = [children EXCEPT ![t] = @ \cup {c}]
  /\ UNCHANGED <<waiting, pending, pc, who, holder>>

-----------------------------------------------------------------------------
(* doWaitPID()                                                             *)

Wanted(t, w) == IF w = AnyChild THEN children[t] ELSE children[t] \cap {w}

Zombies(t, w) == {c \in Wanted(t, w) : state[c] = "Zombie"}

\* A zombie is found and taken off the list.
FindZombie(t, w) ==
  \E c \in Zombies(t, w) :
    /\ waiting' = [waiting EXCEPT ![t] = FALSE]
    /\ children' = [children EXCEPT ![t] = @ \ {c}]
    /\ who' = [who EXCEPT ![t] = c]
    /\ pc' = [pc EXCEPT ![t] = "reap"]
    /\ UNCHANGED state

\* There is no child to wait for (-ECHILD), or the caller will not (-ETIMEDOUT).
GiveUp(t, w, nowait) ==
  /\ Zombies(t, w) = {} /\ (nowait \/ Wanted(t, w) = {})
  /\ waiting' = [waiting EXCEPT ![t] = FALSE]
  /\ pc' = [pc EXCEPT ![t] = "out"]
  /\ who' = [who EXCEPT ![t] = AnyChild]
  /\ UNCHANGED <<state, children>>

\* A slip: waiting is not set.
SleepForChildUnflagged(t, w) ==
  /\ Zombies(t, w) = {} /\ Wanted(t, w) # {}
  /\ state' = [state EXCEPT ![t] = IF pending[t] THEN "Running" ELSE "Interruptible"]
  /\ pc' = [pc EXCEPT ![t] = "wait"]
  /\ who' = [who EXCEPT ![t] = w]
  /\ UNCHANGED <<waiting, children>>

\* It sleeps; with a signal pending schedule() returns at once.
SleepForChild(t, w) ==
  /\ Zombies(t, w) = {} /\ Wanted(t, w) # {}
  /\ waiting' = [waiting EXCEPT ![t] = TRUE]
  /\ state' = [state EXCEPT ![t] = IF pending[t] THEN "Running" ELSE "Interruptible"]
  /\ pc' = [pc EXCEPT ![t] = "wait"]
  /\ who' = [who EXCEPT ![t] = w]
  /\ UNCHANGED children

\* The call: one look at the children under taskFamilyLock.
WaitPID(t, w, nowait) ==
  /\ At(t, "out") /\ holder # t
  /\ \/ FindZombie(t, w)
     \/ GiveUp(t, w, nowait)
     \/ ~nowait /\ SleepForChild(t, w)
  /\ UNCHANGED <<parent, pending, holder>>

\* Woken without a signal: retry.
Retry(t) ==
  /\ At(t, "wait") /\ ~pending[t]
  /\ FindZombie(t, who[t]) \/ GiveUp(t, who[t], FALSE) \/ SleepForChild(t, who[t])
  /\ UNCHANGED <<parent, pending, holder>>

\* -EINTR; waiting stays set.
WaitInterrupted(t) ==
  /\ At(t, "wait") /\ pending[t]
  /\ pc' = [pc EXCEPT ![t] = "out"]
  /\ who' = [who EXCEPT ![t] = AnyChild]
  /\ UNCHANGED <<state, parent, children, waiting, pending, holder>>

\* destoryTask() frees the page; memset() of allocTask() clears it.
Reap(t) ==
  /\ At(t, "reap")
  /\ state' = [state EXCEPT ![who[t]] = "None"]
  /\ parent' = [parent EXCEPT ![who[t]] = Idle]
  /\ waiting' = [waiting EXCEPT ![who[t]] = FALSE]
  /\ pending' = [pending EXCEPT ![who[t]] = FALSE]
  /\ pc' = [pc EXCEPT ![t] = "out", ![who[t]] = "out"]
  /\ who' = [who EXCEPT ![t] = AnyChild, ![who[t]] = AnyChild]
  /\ UNCHANGED <<children, holder>>

\* putUser32Safe() fails (-EFAULT): the child is on no list and not freed.
ReapFaults(t) ==
  /\ At(t, "reap")
  /\ pc' = [pc EXCEPT ![t] = "out"]
  /\ who' = [who EXCEPT ![t] = AnyChild]
  /\ UNCHANGED <<state, parent, children, waiting, pending, holder>>

-----------------------------------------------------------------------------
(* doExit()                                                                *)

\* Slips: the children keep their parent pointers, they are taken off the list
\* only, the parent is not woken, or it is woken whether it waits or not.
LeaveFamilyOrphans(t, s) ==
  LET p == parent[t] IN
  /\ children' = [children EXCEPT ![p] = @ \cup children[t], ![t] = {}]
  /\ state' = IF p # Idle /\ waiting[p] THEN WakeUp(s, p) ELSE s
  /\ pc' = [pc EXCEPT ![t] = "dead"]
  /\ UNCHANGED <<parent, waiting, pending, who, holder>>
LeaveFamilyDropping(t, s) ==
  LET p == parent[t] IN
  /\ children' = [children EXCEPT ![t] = {}]
  /\ parent' = [c \in Task |-> IF c \in children[t] THEN p ELSE parent[c]]
  /\ state' = IF p # Idle /\ waiting[p] THEN WakeUp(s, p) ELSE s
  /\ pc' = [pc EXCEPT ![t] = "dead"]
  /\ UNCHANGED <<waiting, pending, who, holder>>
LeaveFamilySilently(t, s) ==
  LET p == parent[t] IN
  /\ children' = [children EXCEPT ![p] = @ \cup children[t], ![t] = {}]
  /\ parent' = [c \in Task |-> IF c \in children[t] THEN p ELSE parent[c]]
  /\ state' = s
  /\ pc' = [pc EXCEPT ![t] = "dead"]
  /\ UNCHANGED <<waiting, pending, who, holder>>
LeaveFamilyLoudly(t, s) ==
  LET p == parent[t] IN
  /\ children' = [children EXCEPT ![p] = @ \cup children[t], ![t] = {}]
  /\ parent' = [c \in Task |-> IF c \in children[t] THEN p ELSE parent[c]]
  /\ state' = WakeUp(s, p)
  /\ pc' = [pc EXCEPT ![t] = "dead"]
  /\ UNCHANGED <<waiting, pending, who, holder>>

\* The rest of doExit() after the files are closed, with s the states at that
\* point: the children go to the parent, which is woken if it is waiting.
LeaveFamily(t, s) ==
  LET p == parent[t] IN
  /\ children' = [children EXCEPT ![p] = @ \cup children[t], ![t] = {}]
  /\ parent' = [c \in Task |-> IF c \in children[t] THEN p ELSE parent[c]]
  /\ state' = IF p # Idle /\ waiting[p] THEN WakeUp(s, p) ELSE s
  /\ pc' = [pc EXCEPT ![t] = "dead"]
  /\ UNCHANGED <<waiting, pending, who, holder>>

\* doExit() that need not wait for the directory's semaphore.
Exit(t) ==
  /\ At(t, "out") /\ holder # t
  /\ t \in DevReader => holder = Idle
  /\ LeaveFamily(t, [state EXCEPT ![t] = "Zombie"])

\* devfsClose() sleeps in downSemaphore(), which replaces TaskZombie ...
ExitBlocks(t) ==
  /\ At(t, "out") /\ holder \notin {t, Idle} /\ t \in DevReader
  /\ state' = [state EXCEPT ![t] = "Uninterruptible"]
  /\ pc' = [pc EXCEPT ![t] = "close"]
  /\ UNCHANGED <<parent, children, waiting, pending, who, holder>>

\* ... and doExit() goes on as a running task.
ExitGoesOn(t) == At(t, "close") /\ LeaveFamily(t, state)

-----------------------------------------------------------------------------
(* The rest of the kernel.                                                 *)

\* A task works on the directory; upSemaphore() wakes one that waits for it.
TakeDirectory(t) ==
  /\ At(t, "out") /\ holder = Idle /\ DevReader # {}
  /\ holder' = t
  /\ UNCHANGED <<state, parent, children, waiting, pending, pc, who>>

LeaveDirectory(t) ==
  /\ At(t, "out") /\ holder = t
  /\ holder' = Idle
  /\ LET closing == {c \in Task : pc[c] = "close" /\ state[c] # "Running"} IN
     IF closing = {} THEN UNCHANGED state ELSE \E c \in closing : state' = WakeUp(state, c)
  /\ UNCHANGED <<parent, children, waiting, pending, pc, who>>

\* A driver puts the task to sleep until its device answers.
DriverSleeps(t) ==
  /\ At(t, "out")
  /\ state' = [state EXCEPT ![t] = "Uninterruptible"]
  /\ pc' = [pc EXCEPT ![t] = "sleep"]
  /\ UNCHANGED <<parent, children, waiting, pending, who, holder>>

DeviceAnswers(t) ==
  /\ pc[t] = "sleep" /\ state[t] = "Uninterruptible"
  /\ state' = WakeUp(state, t)
  /\ UNCHANGED <<parent, children, waiting, pending, pc, who, holder>>

DriverReturns(t) ==
  /\ At(t, "sleep")
  /\ pc' = [pc EXCEPT ![t] = "out"]
  /\ UNCHANGED <<state, parent, children, waiting, pending, who, holder>>

\* doKill(): the signal is marked, and an interruptible task is woken.
Kill(t) ==
  /\ state[t] # "None" /\ pc[t] # "dead"
  /\ pending' = [pending EXCEPT ![t] = TRUE]
  /\ state' = IF state[t] = "Interruptible" THEN WakeUp(state, t) ELSE state
  /\ UNCHANGED <<parent, children, waiting, pc, who, holder>>

\* handleSignal(): the task's handler is run (otherwise Exit).
HandleSignal(t) ==
  /\ At(t, "out") /\ pending[t]
  /\ pending' = [pending EXCEPT ![t] = FALSE]
  /\ UNCHANGED <<state, parent, children, waiting, pc, who, holder>>

-----------------------------------------------------------------------------

TaskStep(t) ==
  \/ \E c \in Task : Fork(t, c)
  \/ \E w \in Task \cup {AnyChild}, nowait \in BOOLEAN : WaitPID(t, w, nowait)
  \/ Retry(t) \/ WaitInterrupted(t) \/ Reap(t)
  \/ Exit(t) \/ ExitBlocks(t) \/ ExitGoesOn(t)
  \/ TakeDirectory(t) \/ LeaveDirectory(t)
  \/ DriverSleeps(t) \/ DriverReturns(t) \/ HandleSignal(t)

Next ==
  \/ \E t \in Task : TaskStep(t) \/ DeviceAnswers(t)
  \/ \E t \in Careless : ReapFaults(t)
  \/ \E t \in Signalled : Kill(t)

Spec == Init /\ [][Next]_vars

\* Tasks that run get the CPU (RunQueue), and devices answer.
FairSpec ==
  /\ Spec
  /\ \A t \in Task : /\ WF_vars(Retry(t) \/ WaitInterrupted(t) \/ Reap(t))
                     /\ WF_vars(DeviceAnswers(t)) /\ WF_vars(DriverReturns(t))

-----------------------------------------------------------------------------
(* Properties.                                                             *)

\* A task is on the list of its parent and on no other; who has exited has no
\* children left: the parent of a living task is alive, or idleTask.
FamilySound ==
  /\ \A c \in Task, p \in Task \cup {Idle} :
       c \in children[p] => parent[c] = p /\ state[c] # "None"
  /\ \A c \in Task : state[c] \notin {"None", "Zombie"} => c \in children[parent[c]]
  /\ \A t \in Task : pc[t] = "dead" \/ state[t] = "None" => children[t] = {}

\* "Destory the child": a zombie stays on the list of its parent until somebody
\* takes it off to free it.  None is left over on no list, except by a parent
\* that gave doWaitPID() a bad pointer.
NoTaskLeaks ==
  \A c \in Task : state[c] = "Zombie" =>
    \/ c \in children[parent[c]]
    \/ \E p \in Task : pc[p] = "reap" /\ who[p] = c
    \/ parent[c] \in Careless

\* Nobody frees a task that somebody else frees, or that may still run.
ReapedOnce ==
  \A p, q \in Task : pc[p] = "reap" =>
    /\ state[who[p]] = "Zombie"
    /\ q # p /\ pc[q] = "reap" => who[q] # who[p]

\* No wake-up is lost: nobody sleeps in doWaitPID() while a child it waits for
\* has exited, whether its own or one it was given by a child that exited.
NoSleepOnZombie ==
  \A t \in Task : pc[t] = "wait" /\ state[t] # "Running" => Zombies(t, who[t]) = {}

\* "If parent is waiting,wake up": an exit does not wake a parent that sleeps
\* in a driver.  (It may when a signal ended a wait: waiting stays set.)
ExitWakesWaiters ==
  [][\A t \in Task, p \in Task \ Signalled :
       pc'[t] = "dead" /\ pc[t] # "dead" /\ state'[p] = "Running" /\ state[p] # "Running"
         => pc[p] = "wait"]_vars

\* "Set current to a zombie task": after its last schedule() a task is a zombie
\* until it is freed.  schedule() must not come back to doExit() ...
ExitIsFinal == \A t \in Task \ DevReader : pc[t] = "dead" => state[t] = "Zombie"

\* ... also when the task has a directory of devfs open.
ExitIsAlwaysFinal == \A t \in Task : pc[t] = "dead" => state[t] = "Zombie"

\* A parent that waits for a child gets it once the child has exited.
WaitReturns ==
  \A t, c \in Task :
    (pc[t] = "wait" /\ c \in Wanted(t, who[t]) /\ state[c] = "Zombie") ~> pc[t] # "wait"

=============================================================================
