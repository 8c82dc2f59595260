------------------------------- MODULE Signals -------------------------------
(***************************************************************************)
(* Signals (signal.c): doKill(), handleSignal() on the way back to user    *)
(* mode, doSignalReturn(), and the exit, the execution of a new program    *)
(* and the fork that they meet.                                            *)
(*                                                                         *)
(* A step is the code between two places where its task may be preempted.  *)
(* A Task structure is a page: doKill() keeps its address while the task   *)
(* exits, is reaped and another task gets the page.                        *)
(*                                                                         *)
(* Masks are sets of signal numbers, with the width that the expressions   *)
(* of the code have: 1 << i is an int, and so is the result of             *)
(* taskSignalPending().  Of the registers only rip is kept.                *)
(***************************************************************************)
EXTENDS Integers, FiniteSets, Sequences

CONSTANTS
  TaskPage,  \* Task structures (pages)
  Sender,    \* tasks that call doKill()
  Sends,     \* the signals each of them sends
  Sig,       \* the signals in use
  Catch,     \* those that programs install a handler for or ignore
  Mask       \* sa_mask of each handler

SIGKILL == 9
SIGCHLD == 17
SIGCONT == 18
SIGSTOP == 19
SIGURG == 23
SIGWINCH == 28

\* "sa_mask = {{(1 << SIGINT)}}": a handler blocks its own signal.  A signal
\* beyond 31 can be mistaken for 31.
ASSUME SignalsAssumption ==
  /\ Sig \subseteq 1..63 /\ {SIGKILL, SIGCONT, SIGSTOP} \subseteq Sig
  /\ (\E s \in Sig : s > 31) => 31 \in Sig
  /\ Catch \subseteq Sig \ {SIGKILL, SIGSTOP} /\ IsFiniteSet(Catch)
  /\ Mask \in [Catch -> SUBSET Sig]
  /\ \A s \in Catch : s \in Mask[s]
  /\ Sends \in [Sender -> SUBSET Sig]

VARIABLES
  task,      \* each task
  kill,      \* what each sender's doKill() is at
  panic      \* handleException() has stopped the machine

signalsVars == <<task, kill, panic>>

(***************************************************************************)
(* "user"      user mode          "deliver"  in the loop of handleSignal() *)
(* "kernel"    in a system call   "stopping" has taken SIGSTOP             *)
(* "blocked"   in schedule()      "stopped"  in schedule() because of it   *)
(* "zombie"    exited             "free"     the page is free              *)
(*                                                                         *)
(* frames are the SignalContents on the user stack, outermost first; rip   *)
(* is the handler that runs in user mode, by its signal, or 0, the program. *)
(***************************************************************************)
Place == {"user", "kernel", "blocked", "deliver", "stopping", "stopped",
          "zombie", "free"}
State == {"Running", "Interruptible", "Uninterruptible", "Stopping", "Zombie"}
Handler == {"SIG_DFL", "SIG_IGN", "handler"}
Content == [rip : {0} \cup Catch, blocked : SUBSET (Sig \ {SIGKILL, SIGSTOP})]
TaskType ==
  [pc : Place, state : State, pending : SUBSET Sig,
   blocked : SUBSET (Sig \ {SIGKILL, SIGSTOP}), actions : [Catch -> Handler],
   frames : Seq(Content), rip : {0} \cup Catch]

Alive(t) == task[t].pc \notin {"zombie", "free"}

NoKill == [at |-> "idle"]
KillCall == {NoKill} \cup [at : {"found", "posted"}, task : TaskPage, sig : Sig]

SignalsTypeOK ==
  /\ task \in [TaskPage -> TaskType]
  /\ \A t \in TaskPage : Len(task[t].frames) <= Cardinality(Catch)
  /\ kill \in [Sender -> KillCall]
  /\ panic \in BOOLEAN

Default == [s \in Catch |-> "SIG_DFL"]
Fresh(pc, state, actions) ==
  [pc |-> pc, state |-> state, pending |-> {}, blocked |-> {},
   actions |-> actions, frames |-> <<>>, rip |-> 0]

SignalsInit ==
  /\ task = [t \in TaskPage |-> Fresh("user", "Running", Default)]
  /\ kill = [k \in Sender |-> NoKill]
  /\ panic = FALSE

Is(t, pc) == task[t].pc = pc
Becomes(t, new) == task' = [task EXCEPT ![t] = new]
Goes(t, pc) == task' = [task EXCEPT ![t].pc = pc]

-----------------------------------------------------------------------------
(* Masks.                                                                  *)

\* 1 << i, sign-extended to an unsigned long.
Bit(i) == IF i = 31 THEN 31..63 ELSE {i}

\* taskSignalPending(), an int.
SignalPending(x) == \E s \in x.pending \ x.blocked : s <= 31

\* The signals the loop of getPendingSignal() stops at.  For i > 31 the
\* processor shifts by i % 32, and the loop tests the same bits again.
Ready(x) == {i \in 1..31 : /\ Bit(i) \cap x.pending # {}
                           /\ Bit(i) \cap x.blocked = {}}

\* getPendingSignal() takes the signal s, or 0 if there is none.
Takes(t, s) ==
  LET x == task[t]
  IN /\ Is(t, "deliver")
     /\ IF SIGKILL \in x.pending THEN s = SIGKILL
        ELSE IF SIGSTOP \in x.pending THEN s = SIGSTOP
        ELSE IF SignalPending(x) /\ Ready(x) # {}
             THEN s \in Ready(x) /\ \A i \in Ready(x) : s <= i
             ELSE s = 0
Without(t, s) == [task[t] EXCEPT !.pending = @ \ Bit(s)]

-----------------------------------------------------------------------------
(* The task in user mode and in system calls.                              *)

SystemCall(t) == Is(t, "user") /\ Goes(t, "kernel")

\* handleSignalCheck() on the way back to user mode, at the end of
\* doSystemCall() and in doIRQ().
ReturnPlace(x) == IF SignalPending(x) THEN "deliver" ELSE "user"
Return(t) == Is(t, "kernel") /\ Goes(t, ReturnPlace(task[t]))
Interrupt(t) == Is(t, "user") /\ SignalPending(task[t]) /\ Goes(t, "deliver")

\* A slip: schedule() does not look for signals.
BlockBlindly(t, s) ==
  Is(t, "kernel") /\ Becomes(t, [task[t] EXCEPT !.pc = "blocked", !.state = s])

\* The call sets the state and calls schedule(), which puts an interruptible
\* sleep with a signal pending off.
Block(t, s) ==
  LET off == s = "Interruptible" /\ SignalPending(task[t])
  IN /\ Is(t, "kernel")
     /\ Becomes(t, [task[t] EXCEPT !.pc = "blocked",
                                   !.state = IF off THEN "Running" ELSE s])

\* What the call waits for happens.
Answered(t) == Is(t, "blocked") /\ Becomes(t, [task[t] EXCEPT !.state = "Running"])
Unblock(t) == Is(t, "blocked") /\ task[t].state = "Running" /\ Goes(t, "kernel")

\* doSignalAction()
SignalAction(t, s, handler) ==
  Is(t, "kernel") /\ Becomes(t, [task[t] EXCEPT !.actions[s] = handler])

\* doExecve(): a new program, new signal actions, the old masks.
Execve(t) ==
  /\ Is(t, "kernel")
  /\ Becomes(t, [task[t] EXCEPT !.actions = Default, !.frames = <<>>, !.rip = 0])

\* doExit(): sig and mm become null pointers.  What else is left in the page
\* is not looked at before createTask() clears it.
Dies(t) == Becomes(t, Fresh("zombie", "Zombie", Default))
DoExit(t) == Is(t, "kernel") /\ Dies(t)

\* destoryTask()
DestroyTask(t) == Is(t, "zombie") /\ Goes(t, "free")

\* doFork() copies the actions of the parent, which does not fork inside a
\* handler.
DoFork(t) ==
  Is(t, "free") /\ \E a \in [Catch -> Handler] : Becomes(t, Fresh("user", "Running", a))

-----------------------------------------------------------------------------
(* handleSignal() and doSignalReturn()                                     *)

Harmless == {SIGCHLD, SIGCONT, SIGURG, SIGWINCH}
ActionOf(t, s) == IF s \in Catch THEN task[t].actions[s] ELSE "SIG_DFL"

\* The signal ends the task.
TakeFatal(t, s) ==
  /\ Takes(t, s) /\ s # SIGSTOP
  /\ s # SIGKILL => ActionOf(t, s) = "SIG_DFL" /\ s \notin Harmless
  /\ Dies(t)

\* The signal is ignored.
TakeIgnored(t, s) ==
  /\ Takes(t, s) /\ s \notin {SIGKILL, SIGSTOP}
  /\ \/ ActionOf(t, s) = "SIG_IGN"
     \/ ActionOf(t, s) = "SIG_DFL" /\ s \in Harmless
  /\ Becomes(t, Without(t, s))

\* A slip: rip is saved too late.
TakeCaughtLate(t, s) ==
  LET saved == [rip |-> s, blocked |-> task[t].blocked]
  IN /\ Takes(t, s) /\ ActionOf(t, s) = "handler"
     /\ Becomes(t, [Without(t, s) EXCEPT
                      !.frames = Append(@, saved), !.rip = s,
                      !.blocked = (@ \cup Mask[s]) \ {SIGKILL, SIGSTOP}])

\* A frame on the user stack makes the handler run.
TakeCaught(t, s) ==
  LET saved == [rip |-> task[t].rip, blocked |-> task[t].blocked]
  IN /\ Takes(t, s) /\ ActionOf(t, s) = "handler"
     /\ Becomes(t, [Without(t, s) EXCEPT
                      !.frames = Append(@, saved), !.rip = s,
                      !.blocked = (@ \cup Mask[s]) \ {SIGKILL, SIGSTOP}])

\* SIGSTOP is no longer pending; the state is stored next.
TakeStop(t) ==
  Takes(t, SIGSTOP) /\ Becomes(t, [Without(t, SIGSTOP) EXCEPT !.pc = "stopping"])
Stop(t) ==
  /\ Is(t, "stopping")
  /\ Becomes(t, [task[t] EXCEPT !.pc = "stopped", !.state = "Stopping"])
Continue(t) == Is(t, "stopped") /\ task[t].state = "Running" /\ Goes(t, "deliver")

\* The loop finds nothing more.
Delivered(t) == Takes(t, 0) /\ Goes(t, "user")

\* The handler returns to vkernelSignalReturn, which calls doSignalReturn().
SignalReturn(t) ==
  LET content == task[t].frames[Len(task[t].frames)]
      new == [task[t] EXCEPT
                !.frames = SubSeq(@, 1, Len(@) - 1), !.rip = content.rip,
                !.blocked = content.blocked \ {SIGKILL, SIGSTOP}]
  IN /\ Is(t, "user") /\ task[t].frames # <<>>
     /\ Becomes(t, [new EXCEPT !.pc = ReturnPlace(new)])

-----------------------------------------------------------------------------
(* doKill()                                                                *)

\* lookForTaskByPID() finds the task.
KillFinds(k, t, s) ==
  /\ kill[k] = NoKill /\ Alive(t)
  /\ kill' = [kill EXCEPT ![k] = [at |-> "found", task |-> t, sig |-> s]]
  /\ UNCHANGED <<task, panic>>

\* It makes the signal pending, whatever has become of the task: without its
\* sig the lock is at address 0.
KillPosts(k) ==
  /\ kill[k].at = "found"
  /\ IF Alive(kill[k].task)
     THEN /\ task' = [task EXCEPT ![kill[k].task].pending = @ \cup {kill[k].sig}]
          /\ kill' = [kill EXCEPT ![k].at = "posted"]
          /\ UNCHANGED panic
     ELSE panic' = TRUE /\ UNCHANGED <<task, kill>>

\* A slip: SIGKILL wakes nobody.
KillWakesCont(k) ==
  /\ kill[k].at = "posted"
  /\ task' = [task EXCEPT ![kill[k].task].state =
                IF \/ @ = "Interruptible" /\ kill[k].sig # SIGKILL
                   \/ @ = "Stopping" /\ kill[k].sig = SIGCONT
                THEN "Running" ELSE @]
  /\ kill' = [kill EXCEPT ![k] = NoKill]
  /\ UNCHANGED panic

\* It wakes the task.
KillWakes(k) ==
  /\ kill[k].at = "posted"
  /\ task' = [task EXCEPT ![kill[k].task].state =
                IF \/ @ = "Interruptible"
                   \/ @ = "Stopping" /\ kill[k].sig \in {SIGCONT, SIGKILL}
                THEN "Running" ELSE @]
  /\ kill' = [kill EXCEPT ![k] = NoKill]
  /\ UNCHANGED panic

-----------------------------------------------------------------------------

Loop(t) ==
  \/ \E s \in Sig : TakeFatal(t, s) \/ TakeIgnored(t, s) \/ TakeCaught(t, s)
  \/ TakeStop(t) \/ Stop(t) \/ Continue(t) \/ Delivered(t)

SignalsStep(t) ==
  \/ Loop(t) \/ Return(t) \/ Interrupt(t) \/ Answered(t) \/ Unblock(t)
  \/ SystemCall(t) \/ DoExit(t) \/ Execve(t) \/ SignalReturn(t)
  \/ \E s \in {"Interruptible", "Uninterruptible"} : Block(t, s)
  \/ \E s \in Catch, h \in Handler : SignalAction(t, s, h)
  \/ DestroyTask(t) \/ DoFork(t)

Rest == ~panic /\ UNCHANGED <<kill, panic>>

SignalsNext ==
  \/ \E t \in TaskPage : SignalsStep(t) /\ Rest
  \/ \E k \in Sender :
       /\ ~panic
       /\ \/ \E t \in TaskPage, s \in Sends[k] : KillFinds(k, t, s)
          \/ KillPosts(k) \/ KillWakes(k)

SignalsSpec == SignalsInit /\ [][SignalsNext]_signalsVars

\* Tasks that may run do; ticks come in user mode; a device answers; a system
\* call that is let run ends, though it may block several times.
SignalsFairSpec ==
  /\ SignalsSpec
  /\ \A t \in TaskPage :
       /\ WF_signalsVars(Rest /\ (Loop(t) \/ Unblock(t)))
       /\ WF_signalsVars(Rest /\ Interrupt(t))
       /\ WF_signalsVars(Rest /\ task[t].state = "Uninterruptible" /\ Answered(t))
       /\ SF_signalsVars(Rest /\ Return(t))
  /\ \A k \in Sender : WF_signalsVars(~panic /\ (KillPosts(k) \/ KillWakes(k)))

-----------------------------------------------------------------------------
(* Properties.                                                             *)

\* A task sleeps interruptibly with a signal pending only until the doKill()
\* that posted it gets to its wakeUpTask().
NoSignalSleptOn ==
  \A t \in TaskPage :
    task[t].state = "Interruptible" /\ SignalPending(task[t])
      => \E k \in Sender : kill[k].at = "posted" /\ kill[k].task = t

\* Stacked handlers are what was interrupted, one by the other: each content
\* holds the handler below it, the program is at the bottom, and the mask of
\* every handler that has not returned is blocked, so that none is re-entered.
Interrupter(t, i) ==
  IF i = Len(task[t].frames) THEN task[t].rip ELSE task[t].frames[i + 1].rip
HandlersNest ==
  \A t \in TaskPage :
    LET frames == task[t].frames
    IN /\ IF frames = <<>> THEN task[t].rip = 0 ELSE frames[1].rip = 0
       /\ \A i \in DOMAIN frames :
            /\ Interrupter(t, i) # 0
            /\ Mask[Interrupter(t, i)] \ {SIGKILL, SIGSTOP} \subseteq task[t].blocked
       /\ \A i, j \in DOMAIN frames : Interrupter(t, i) = Interrupter(t, j) => i = j

\* SIGKILL, and any other signal that no program catches, no mask blocks and
\* no lower signal that the task survives goes before, ends its task, unless
\* the task is stopped: no sleep, no handler and no run of other signals keeps
\* it away.  A SIGKILL whose doKill() gets to wakeUpTask() after the stop ends
\* a stopped task too.
Survived == Catch \cup Harmless
Fatal == {SIGKILL} \cup
  {s \in 1..30 \ (Survived \cup {SIGSTOP}) :
     \A c \in Survived : s < c /\ (c \in Catch => s \notin Mask[c])}
FatalSignalEnds ==
  /\ \A t \in TaskPage, s \in Sig \cap Fatal :
       Alive(t) /\ s \in task[t].pending
         ~> ~Alive(t) \/ task[t].pc \in {"stopping", "stopped"} \/ panic
  /\ \A t \in TaskPage, k \in Sender :
       (/\ task[t].state = "Stopping" /\ SIGKILL \in task[t].pending
        /\ kill[k] = [at |-> "posted", task |-> t, sig |-> SIGKILL])
         ~> ~Alive(t) \/ panic

=============================================================================
