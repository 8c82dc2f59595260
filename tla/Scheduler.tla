------------------------------ MODULE Scheduler ------------------------------
(***************************************************************************)
(* The scheduler of the kernel: schedule(), wakeUpTask(), the local timer  *)
(* tick and the preemption counters (task.c, task.h, localtime.c,          *)
(* interrupt.c).  There is one CPU.  A step of this module is what that    *)
(* CPU does between two places where an interrupt can come in.             *)
(*                                                                         *)
(* A task that calls schedule() with interrupts open (a blocking call, or  *)
(* enablePreemption()) comes back to schedule() with interrupts open while *)
(* it still holds preemption off, and only then tests needSchedule and     *)
(* perhaps starts again at "repeat:".  at[t] tells these windows apart:    *)
(*   "out"    in ordinary kernel or user code                              *)
(*   "resume" interrupts restored, before enablePreemptionNoScheduling()   *)
(*   "check"  preemption on again, before the test of needSchedule         *)
(*   "new"    created by doFork() and not yet run (retFromFork)            *)
(*   "halt"   the CPU ran the ud2 of doExit(), or a stack that was freed   *)
(* A schedule() called at the end of an interrupt runs with interrupts     *)
(* closed, has no such window, and leaves at[t] as it was.                 *)
(***************************************************************************)
EXTENDS Naturals, Sequences, SequencesExt

CONSTANTS Task,     \* the tasks a doFork() can create
          Idle,     \* idleTask
          NoTask,   \* the null pointer
          UserTask, \* the tasks with a TaskSignal: kernel tasks get no signal
          Mortal,   \* the tasks whose program calls doExit()
          Sleeps    \* the states their blocking calls use

Asleep == {"Interruptible", "Uninterruptible", "Stopping"}

ASSUME TaskAssumption ==
  /\ Idle \notin Task
  /\ NoTask \notin Task \cup {Idle}
  /\ UserTask \subseteq Task
  /\ Mortal \subseteq Task
  /\ Sleeps \subseteq Asleep

Tasks == Task \cup {Idle}
TaskState == {"None", "Running", "Zombie"} \cup Asleep

\* The state argument of wakeUpTask(): 0, SIGxxx, SIGCONT/SIGKILL, the port
\* handler of the IDE driver.
DefaultMask == {"Interruptible", "Uninterruptible"}
Masks == {DefaultMask, {"Interruptible"}, {"Interruptible", "Stopping"},
          {"Uninterruptible"}}

VARIABLES
  state,        \* Task.state; "None" for a page that is no task
  runnable,     \* runnableTaskList
  current,      \* the task whose stack the CPU is on
  needSchedule, \* Task.needSchedule
  pending,      \* taskSignalPending()
  critical,     \* current->preemption > 0: it is inside a spin lock
  at,           \* where the task is with respect to schedule()
  intent,       \* what it does next: "run" on, "call" schedule(), "exit", "dead"
  next          \* the local variable of the task's open call of schedule()

vars == <<state, runnable, current, needSchedule, pending, critical, at,
          intent, next>>

OnList(t) == t \in ToSet(runnable)
Halted == at[current] = "halt"

TypeOK ==
  /\ state \in [Tasks -> TaskState]
  /\ runnable \in Seq(Tasks)
  /\ current \in Tasks
  /\ needSchedule \in [Tasks -> BOOLEAN]
  /\ pending \in [Tasks -> BOOLEAN]
  /\ critical \in BOOLEAN
  /\ at \in [Tasks -> {"out", "resume", "check", "new", "halt"}]
  /\ intent \in [Tasks -> {"run", "call", "exit", "dead"}]
  /\ next \in [Tasks -> Tasks \cup {NoTask}]

\* idle() has created kinit, started the interrupts and is about to call
\* schedule() for the first time.
Init ==
  \E kinit \in Task :
    /\ state = [t \in Tasks |-> IF t \in {kinit, Idle} THEN "Running" ELSE "None"]
    /\ runnable = <<kinit>>
    /\ current = Idle
    /\ needSchedule = [t \in Tasks |-> FALSE]
    /\ pending = [t \in Tasks |-> FALSE]
    /\ critical = FALSE
    /\ at = [t \in Tasks |-> IF t = Idle THEN "out" ELSE "new"]
    /\ intent = [t \in Tasks |-> IF t = Idle THEN "call" ELSE "run"]
    /\ next = [t \in Tasks |-> NoTask]

-----------------------------------------------------------------------------
(* The body of schedule() under runnableTaskLock, up to the switch.        *)

\* The state of the caller after the test for a pending signal.
Awakened(t) ==
  IF state[t] = "Interruptible" /\ pending[t] THEN "Running" ELSE state[t]

\* The task schedule() switches to: the head of the list, else what the local
\* variable held before (old), else the caller if it may run, else idleTask.
Choice(t, old) ==
  CASE runnable # <<>>         -> Head(runnable)
    [] runnable = <<>> /\ old # NoTask -> old
    [] runnable = <<>> /\ old = NoTask /\ Awakened(t) = "Running" -> t
    [] OTHER                   -> Idle

AfterDelete == IF runnable = <<>> THEN <<>> ELSE Tail(runnable)

\* Slips in putting the caller back: its state is the one it came with, or it
\* goes to the head.
RequeueEarlyState(t) ==
  IF t # Idle /\ state[t] = "Running" /\ t \notin ToSet(AfterDelete)
  THEN Append(AfterDelete, t)
  ELSE AfterDelete

RequeueAtHead(t) ==
  IF t # Idle /\ Awakened(t) = "Running" /\ t \notin ToSet(AfterDelete)
  THEN Cons(t, AfterDelete)
  ELSE AfterDelete

\* The caller goes to the tail if it may still run and is not listed already.
Requeue(t) ==
  IF /\ t # Idle
     /\ Awakened(t) = "Running"
     /\ t \notin ToSet(AfterDelete)
  THEN Append(AfterDelete, t)
  ELSE AfterDelete

\* Where the chosen task continues.  A page that is no task any more has no
\* stack to return to.
Landing(n) ==
  IF state[n] = "None" THEN "halt" ELSE IF at[n] = "new" THEN "out" ELSE at[n]

\* t is in schedule(), its local variable is old, and it will be at back
\* when it runs again.
SwitchFrom(t, old, back) ==
  LET n == Choice(t, old) IN
  /\ needSchedule' = [needSchedule EXCEPT ![t] = FALSE]
  /\ IF n = t
     THEN /\ state' = [state EXCEPT ![t] = Awakened(t)]
          /\ runnable' = AfterDelete
          /\ at' = [at EXCEPT ![t] = back]
          /\ UNCHANGED current
     ELSE /\ state' = [state EXCEPT ![t] = Awakened(t),
                                    ![n] = IF @ = "None" THEN @ ELSE "Running"]
          /\ runnable' = Requeue(t)
          /\ at' = [at EXCEPT ![t] = back, ![n] = Landing(n)]
          /\ current' = n

-----------------------------------------------------------------------------
(* What the current task does.                                             *)

\* lockSpinLock() and unlockSpinLock() of any lock: disablePreemption() and
\* enablePreemption().
Lock ==
  /\ at[current] = "out" /\ ~critical /\ current # Idle
  /\ critical' = TRUE
  /\ UNCHANGED <<state, runnable, current, needSchedule, pending, at, intent, next>>

Unlock ==
  /\ at[current] = "out" /\ critical
  /\ ~(state[current] = "Running" /\ needSchedule[current])
  /\ critical' = FALSE
  /\ UNCHANGED <<state, runnable, current, needSchedule, pending, at, intent, next>>

\* enablePreemption() finds that a tick came in between.
UnlockSchedules ==
  /\ at[current] = "out" /\ critical
  /\ state[current] = "Running" /\ needSchedule[current]
  /\ critical' = FALSE
  /\ SwitchFrom(current, NoTask, "resume")
  /\ next' = [next EXCEPT ![current] = Choice(current, NoTask)]
  /\ UNCHANGED <<pending, intent>>

\* A blocking call puts its state down, usually under the lock of its wait
\* queue, and will call schedule().
Sleep(s) ==
  /\ at[current] = "out" /\ intent[current] = "run" /\ current # Idle
  /\ state' = [state EXCEPT ![current] = s]
  /\ intent' = [intent EXCEPT ![current] = "call"]
  /\ UNCHANGED <<runnable, current, needSchedule, pending, critical, at, next>>

\* doExit() up to its call of schedule().
Exit ==
  /\ at[current] = "out" /\ intent[current] = "run" /\ current \in Mortal
  /\ ~critical
  /\ state' = [state EXCEPT ![current] = "Zombie"]
  /\ intent' = [intent EXCEPT ![current] = "exit"]
  /\ UNCHANGED <<runnable, current, needSchedule, pending, critical, at, next>>

\* A blocking task or an exiting one calls schedule().
AfterCall == IF intent[current] = "exit" THEN "dead" ELSE "run"

Interrupted ==
  /\ at[current] = "out" /\ intent[current] = "call" /\ ~critical
  /\ state[current] = "Interruptible" /\ pending[current] /\ ~needSchedule[current]
  /\ state' = [state EXCEPT ![current] = "Running"]
  /\ at' = [at EXCEPT ![current] = "resume"]
  /\ intent' = [intent EXCEPT ![current] = "run"]
  /\ next' = [next EXCEPT ![current] = NoTask]
  /\ UNCHANGED <<runnable, current, needSchedule, pending, critical>>

CallSchedule ==
  /\ at[current] = "out" /\ intent[current] \in {"call", "exit"} /\ ~critical
  /\ ~(/\ state[current] = "Interruptible"
       /\ pending[current]
       /\ ~needSchedule[current])
  /\ SwitchFrom(current, NoTask, "resume")
  /\ next' = [next EXCEPT ![current] = Choice(current, NoTask)]
  /\ intent' = [intent EXCEPT ![current] = AfterCall]
  /\ UNCHANGED <<pending, critical>>

\* done: enablePreemptionNoScheduling()
Done ==
  /\ at[current] = "resume"
  /\ at' = [at EXCEPT ![current] = "check"]
  /\ UNCHANGED <<state, runnable, current, needSchedule, pending, critical, intent, next>>

\* if(prev->needSchedule) goto repeat: next keeps its value.
Repeat ==
  /\ at[current] = "check" /\ needSchedule[current]
  /\ SwitchFrom(current, next[current], "resume")
  /\ next' = [next EXCEPT ![current] = Choice(current, next[current])]
  /\ UNCHANGED <<pending, critical, intent>>

\* A slip: needSchedule is not tested after preemption is on again.
ReturnUntested ==
  /\ at[current] = "check"
  /\ at' = [at EXCEPT ![current] = IF intent[current] = "dead" THEN "halt" ELSE "out"]
  /\ next' = [next EXCEPT ![current] = NoTask]
  /\ UNCHANGED <<state, runnable, current, needSchedule, pending, critical, intent>>

\* schedule() returns; after the one of doExit() comes ud2.
Return ==
  /\ at[current] = "check" /\ ~needSchedule[current]
  /\ at' = [at EXCEPT ![current] = IF intent[current] = "dead" THEN "halt" ELSE "out"]
  /\ next' = [next EXCEPT ![current] = NoTask]
  /\ UNCHANGED <<state, runnable, current, needSchedule, pending, critical, intent>>

\* A slip: a woken task is put behind the others.
WakeUpTaskAtTail(n, mask) ==
  /\ state[n] \in mask
  /\ state' = [state EXCEPT ![n] = "Running"]
  /\ runnable' = IF OnList(n) THEN runnable ELSE Append(runnable, n)
  /\ UNCHANGED <<current, needSchedule, pending, critical, at, intent, next>>

\* wakeUpTask(n, mask) under runnableTaskLock.
WakeUpTask(n, mask) ==
  /\ state[n] \in mask
  /\ state' = [state EXCEPT ![n] = "Running"]
  /\ runnable' = IF OnList(n) THEN runnable ELSE Cons(n, runnable)
  /\ UNCHANGED <<current, needSchedule, pending, critical, at, intent, next>>

TaskWakes(n, mask) ==
  /\ at[current] = "out" /\ intent[current] \in {"run", "exit"} /\ n # current
  /\ WakeUpTask(n, mask)

\* doFork(): the new task cannot run before its creator wakes it.
Fork(n) ==
  /\ at[current] = "out" /\ intent[current] = "run" /\ current # Idle
  /\ state[n] = "None"
  /\ state' = [state EXCEPT ![n] = "Uninterruptible"]
  /\ UNCHANGED <<runnable, current, needSchedule, pending, critical, at, intent, next>>

\* doWaitPID() frees a zombie.  What the freed page holds means nothing, so
\* the other fields are set to what allocTask() gives them in its next life.
Reap(n) ==
  /\ at[current] = "out" /\ intent[current] = "run" /\ n # current
  /\ state[n] = "Zombie"
  /\ state' = [state EXCEPT ![n] = "None"]
  /\ needSchedule' = [needSchedule EXCEPT ![n] = FALSE]
  /\ pending' = [pending EXCEPT ![n] = FALSE]
  /\ at' = [at EXCEPT ![n] = "new"]
  /\ intent' = [intent EXCEPT ![n] = "run"]
  /\ next' = [next EXCEPT ![n] = NoTask]
  /\ UNCHANGED <<runnable, current, critical>>

\* doKill() marks the signal; its wakeUpTask() is a TaskWakes step.
PostSignal(n) ==
  /\ at[current] = "out" /\ intent[current] = "run"
  /\ state[n] \notin {"None", "Zombie"} /\ at[n] # "new" /\ n \in UserTask
  /\ pending' = [pending EXCEPT ![n] = TRUE]
  /\ UNCHANGED <<state, runnable, current, needSchedule, critical, at, intent, next>>

\* getPendingSignal() takes the last signal.
TakeSignal ==
  /\ at[current] = "out" /\ intent[current] = "run" /\ pending[current]
  /\ pending' = [pending EXCEPT ![current] = FALSE]
  /\ UNCHANGED <<state, runnable, current, needSchedule, critical, at, intent, next>>

-----------------------------------------------------------------------------
(* Interrupts.                                                             *)

\* The handler of a device or of the timer wakes a task, perhaps the very one
\* it interrupted between putting its state down and calling schedule().
IrqWakes(n) == ~Halted /\ WakeUpTask(n, DefaultMask)

\* A slip: the preemption counter is not tested.
PreemptibleAnywhere ==
  /\ at[current] \in {"out", "check"}
  /\ state[current] = "Running"

\* preemptionSchedule() may switch: no lock held, not inside schedule()'s own
\* window, and the task has not put itself to sleep.
Preemptible ==
  /\ at[current] \in {"out", "check"}
  /\ ~critical
  /\ state[current] = "Running"

\* The local timer sets needSchedule, and that is all it can do ...
TickMarks ==
  /\ ~Halted /\ ~Preemptible
  /\ needSchedule' = [needSchedule EXCEPT ![current] = TRUE]
  /\ UNCHANGED <<state, runnable, current, pending, critical, at, intent, next>>

\* ... or doIRQ() calls schedule() on its way out, with interrupts closed.
TickPreempts ==
  /\ ~Halted /\ Preemptible
  /\ SwitchFrom(current, NoTask, at[current])
  /\ UNCHANGED <<pending, critical, intent, next>>

-----------------------------------------------------------------------------

Next ==
  \/ Lock \/ Unlock \/ UnlockSchedules
  \/ \E s \in Sleeps : Sleep(s)
  \/ Exit \/ Interrupted \/ CallSchedule \/ Done \/ Repeat \/ Return
  \/ \E n \in Task, mask \in Masks : TaskWakes(n, mask)
  \/ \E n \in Task : Fork(n) \/ Reap(n) \/ PostSignal(n) \/ IrqWakes(n)
  \/ TakeSignal
  \/ TickMarks \/ TickPreempts

Spec == Init /\ [][Next]_vars

-----------------------------------------------------------------------------
(* Properties.                                                             *)

\* The list holds tasks that may run, none twice, never idleTask, and the
\* current task only if an interrupt woke it before it reached schedule().
RunnableListSound ==
  /\ IsInjective(runnable)
  /\ \A t \in ToSet(runnable) :
       /\ t # Idle
       /\ state[t] = "Running"
       /\ t = current => intent[t] = "call" /\ at[t] = "out"

\* No task is lost: whoever may run and is not running is on the list, so
\* that a wake-up that comes between "state = ..." and schedule() counts.
NoTaskLost ==
  \A t \in Task : state[t] = "Running" /\ t # current => OnList(t)

\* A task that runs with preemption on has no reschedule outstanding: neither
\* the test at the end of schedule() nor enablePreemption() misses a tick.
NoTickLost ==
  (/\ at[current] = "out"
   /\ intent[current] = "run"
   /\ ~critical)
  => ~needSchedule[current]

\* Only the task that runs holds preemption off: nobody is switched out
\* inside a spin lock.
NoSwitchInsideLock ==
  [][current' # current => ~critical']_vars

\* A task that waits for the CPU keeps its turn: only a task that is woken gets
\* ahead of it, never one that was preempted.
Ahead(t, list) ==
  {list[i] : i \in {j \in DOMAIN list : \A k \in 1..j : list[k] # t}}
KeepsItsTurn ==
  [][\A t \in ToSet(runnable) \cap ToSet(runnable') :
       \A u \in Ahead(t, runnable') \ Ahead(t, runnable) : state[u] # "Running"]_vars

\* The run queue the rest of the kernel relies on: RunQueue describes it
\* without schedule()'s windows, the tick and the preemption counter.
RQ == INSTANCE RunQueue
ImplementsRunQueue == RQ!Spec

=============================================================================
