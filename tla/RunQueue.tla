------------------------------- MODULE RunQueue -------------------------------
(***************************************************************************)
(* What schedule() and wakeUpTask() (task.c) promise to the rest of the    *)
(* kernel, without the windows in which interrupts come in: one CPU, the   *)
(* tasks that may run in a list, a woken task put at its head, a task that *)
(* is preempted put at its tail.  Scheduler implements this specification. *)
(***************************************************************************)
EXTENDS Naturals, Sequences, SequencesExt

CONSTANTS Task, Idle, Sleeps

Tasks == Task \cup {Idle}
TaskState == {"None", "Running", "Zombie", "Interruptible", "Uninterruptible",
              "Stopping"}

ASSUME RunQueueAssumption == Idle \notin Task /\ Sleeps \subseteq TaskState

VARIABLES state, runnable, current

vars == <<state, runnable, current>>

OnList(t) == t \in ToSet(runnable)

Init ==
  \E kinit \in Task :
    /\ state = [t \in Tasks |-> IF t \in {kinit, Idle} THEN "Running" ELSE "None"]
    /\ runnable = <<kinit>>
    /\ current = Idle

\* The current task stops: it waits, is stopped by a signal or exits.
Block(s) ==
  /\ current # Idle
  /\ state' = [state EXCEPT ![current] = s]
  /\ UNCHANGED <<runnable, current>>

\* A signal is pending when it is about to wait.
Interrupted ==
  /\ state[current] = "Interruptible"
  /\ state' = [state EXCEPT ![current] = "Running"]
  /\ UNCHANGED <<runnable, current>>

Wake(n) ==
  /\ state[n] \in {"Interruptible", "Uninterruptible", "Stopping"}
  /\ state' = [state EXCEPT ![n] = "Running"]
  /\ runnable' = IF OnList(n) THEN runnable ELSE Cons(n, runnable)
  /\ UNCHANGED current

Create(n) ==
  /\ state[n] = "None"
  /\ state' = [state EXCEPT ![n] = "Uninterruptible"]
  /\ UNCHANGED <<runnable, current>>

Reap(n) ==
  /\ state[n] = "Zombie" /\ n # current
  /\ state' = [state EXCEPT ![n] = "None"]
  /\ UNCHANGED <<runnable, current>>

-----------------------------------------------------------------------------

\* The head of the list leaves it and runs; the task that ran goes to the
\* tail if it may still run.  An interrupt may have put it there already.
Behind == Tail(runnable)

Requeue(mayRun, list) ==
  IF mayRun /\ current # Idle /\ current \notin ToSet(list)
  THEN Append(list, current)
  ELSE list

SwitchToHead(mayRun) ==
  /\ runnable # <<>>
  /\ state' = [state EXCEPT ![current] = IF mayRun THEN "Running" ELSE @,
                            ![Head(runnable)] = "Running"]
  /\ runnable' = IF Head(runnable) = current THEN Behind ELSE Requeue(mayRun, Behind)
  /\ current' = Head(runnable)

\* Nobody waits.  The promise would be idleTask; the code may also go back to
\* the task its local variable names (see Scheduler).
SwitchToOther(mayRun) ==
  /\ runnable = <<>>
  /\ \E n \in Tasks \ {current} :
       /\ state' = [state EXCEPT ![current] = IF mayRun THEN "Running" ELSE @,
                                 ![n] = IF @ = "None" THEN @ ELSE "Running"]
       /\ current' = n
  /\ runnable' = Requeue(mayRun, <<>>)

Switch(mayRun) == SwitchToHead(mayRun) \/ SwitchToOther(mayRun)

\* A task that waits gives the CPU away; one that may run is preempted.  A
\* waiting task with a signal pending counts as one that may run.
GiveUp == state[current] # "Running" /\ Switch(FALSE)
Preempt == state[current] \in {"Running", "Interruptible"} /\ Switch(TRUE)

Next ==
  \/ \E s \in Sleeps \cup {"Zombie"} : Block(s)
  \/ \E n \in Task : Wake(n) \/ Create(n) \/ Reap(n)
  \/ Interrupted \/ GiveUp \/ Preempt

Spec == Init /\ [][Next]_vars

\* The CPU runs a task (not the garbage a switch to a freed page leads to).
Alive == state[current] # "None"

\* The timer preempts a running task again and again, not only in the moment
\* of a blocking call when an interrupt has listed the task again; and a
\* blocking call reaches schedule(), whether or not the task still waits.
Fairness ==
  /\ SF_vars(Preempt /\ Alive /\ runnable # <<>> /\ ~OnList(current))
  /\ SF_vars(Preempt /\ Alive /\ OnList(current))
  /\ SF_vars((Interrupted \/ GiveUp) /\ runnable # <<>>)

=============================================================================
