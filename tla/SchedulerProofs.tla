--------------------------- MODULE SchedulerProofs ---------------------------
(***************************************************************************)
(* Proofs about Scheduler, for any set of tasks.  The inductive invariant  *)
(* adds to the properties of Scheduler what each window of schedule()      *)
(* knows about the current task, and that no task that does not run has    *)
(* needSchedule set: this is why a task never comes back from a switch     *)
(* with an old tick.                                                       *)
(***************************************************************************)
EXTENDS Scheduler, ListLemmas

\* What the state of the current task says about where it is.
CurrentSound ==
  /\ state[current] \in Asleep => intent[current] = "call" /\ at[current] = "out"
  /\ state[current] = "Zombie" => intent[current] = "exit" /\ at[current] = "out"
  /\ state[current] = "None" => at[current] = "halt"
  /\ critical => at[current] = "out"

FlagsOfOthers == \A t \in Tasks : t # current => ~needSchedule[t]

IndInv ==
  /\ TypeOK
  /\ RunnableListSound
  /\ NoTaskLost
  /\ NoTickLost
  /\ state[Idle] = "Running"
  /\ CurrentSound
  /\ FlagsOfOthers

-----------------------------------------------------------------------------

\* The initial states satisfy the inductive invariant.
LEMMA InitIndInv == Init => IndInv
<1> SUFFICES ASSUME NEW kinit \in Task,
                    state = [t \in Tasks |-> IF t \in {kinit, Idle} THEN "Running" ELSE "None"],
                    runnable = <<kinit>>,
                    current = Idle,
                    needSchedule = [t \in Tasks |-> FALSE],
                    pending = [t \in Tasks |-> FALSE],
                    critical = FALSE,
                    at = [t \in Tasks |-> IF t = Idle THEN "out" ELSE "new"],
                    intent = [t \in Tasks |-> IF t = Idle THEN "call" ELSE "run"],
                    next = [t \in Tasks |-> NoTask]
             PROVE  IndInv
  BY DEF Init
<1>1. kinit # Idle /\ kinit \in Tasks /\ Idle \in Tasks
  BY TaskAssumption DEF Tasks
<1>2. runnable \in Seq(Tasks) /\ ToSet(runnable) = {kinit} /\ IsInjective(runnable)
  BY <1>1 DEF ToSet, IsInjective
<1>3. TypeOK
  BY <1>1, <1>2 DEF TypeOK, TaskState, Asleep
<1>4. RunnableListSound
  BY <1>1, <1>2 DEF RunnableListSound
<1>5. NoTaskLost
  BY <1>1, <1>2 DEF NoTaskLost, OnList, Tasks
<1>6. QED
  BY <1>1, <1>3, <1>4, <1>5
  DEF IndInv, NoTickLost, CurrentSound, FlagsOfOthers, Asleep

-----------------------------------------------------------------------------
(* Taking the first task off the list, putting the caller back.            *)

\* The list after the choice holds everybody but the chosen task.
LEMMA AfterDeleteList ==
  ASSUME TypeOK, IsInjective(runnable)
  PROVE  /\ AfterDelete \in Seq(Tasks)
         /\ IsInjective(AfterDelete)
         /\ runnable = <<>> => ToSet(AfterDelete) = {} /\ ToSet(runnable) = {}
         /\ runnable # <<>> => /\ Head(runnable) \in ToSet(runnable)
                               /\ Head(runnable) \in Tasks
                               /\ ToSet(AfterDelete) = ToSet(runnable) \ {Head(runnable)}
<1>1. runnable \in Seq(Tasks)
  BY DEF TypeOK
<1>2. CASE runnable = <<>>
  BY <1>2, EmptyList DEF AfterDelete
<1>3. CASE runnable # <<>>
  BY <1>1, <1>3, TailList DEF AfterDelete
<1>4. QED BY <1>2, <1>3

\* The caller is listed after the switch exactly if it may still run.
LEMMA RequeueList ==
  ASSUME TypeOK, IsInjective(runnable), NEW t \in Tasks
  PROVE  /\ Requeue(t) \in Seq(Tasks)
         /\ IsInjective(Requeue(t))
         /\ t # Idle /\ Awakened(t) = "Running"
              => ToSet(Requeue(t)) = ToSet(AfterDelete) \cup {t}
         /\ ~(t # Idle /\ Awakened(t) = "Running")
              => ToSet(Requeue(t)) = ToSet(AfterDelete)
<1>1. AfterDelete \in Seq(Tasks) /\ IsInjective(AfterDelete)
  BY AfterDeleteList
<1>2. CASE t # Idle /\ Awakened(t) = "Running" /\ t \notin ToSet(AfterDelete)
  BY <1>1, <1>2, AppendList DEF Requeue
<1>3. CASE ~(t # Idle /\ Awakened(t) = "Running" /\ t \notin ToSet(AfterDelete))
  BY <1>1, <1>3 DEF Requeue
<1>4. QED BY <1>2, <1>3

\* Whom schedule() chooses: a listed task; or, if none is, the task of the
\* local variable, the caller if it may run, or idleTask.
LEMMA ChoiceIs ==
  ASSUME IndInv, NEW old \in Tasks \cup {NoTask}
  PROVE  /\ Choice(current, old) \in Tasks
         /\ runnable # <<>> => Choice(current, old) = Head(runnable)
         /\ runnable = <<>> /\ old = NoTask /\ Choice(current, old) = current
              => Awakened(current) = "Running"
<1>1. Idle \in Tasks /\ current \in Tasks /\ NoTask \notin Tasks
  BY TaskAssumption DEF IndInv, TypeOK, Tasks
<1>2. CASE runnable # <<>>
  BY <1>2, AfterDeleteList DEF Choice, IndInv, RunnableListSound
<1>3. CASE runnable = <<>> /\ old # NoTask
  BY <1>3, <1>1 DEF Choice
<1>4. CASE runnable = <<>> /\ old = NoTask
  BY <1>4, <1>1 DEF Choice, Awakened, IndInv
<1>5. QED BY <1>2, <1>3, <1>4

\* A switch keeps the invariant, whoever is chosen.  back is where the caller
\* will be when it runs again; the callers of this lemma are the four places
\* that enter schedule().
LEMMA SwitchKeepsIndInv ==
  ASSUME IndInv,
         NEW old \in Tasks \cup {NoTask},
         NEW back \in {"out", "resume", "check"},
         SwitchFrom(current, old, back),
         old # NoTask => state[current] = "Running",
         critical' = FALSE,
         pending' = pending,
         intent' \in [Tasks -> {"run", "call", "exit", "dead"}],
         \A t \in Tasks : t # current => intent'[t] = intent[t],
         next' \in [Tasks -> Tasks \cup {NoTask}]
  PROVE  IndInv'
<1> DEFINE n == Choice(current, old)
<1>1. /\ Idle \in Tasks /\ current \in Tasks /\ n \in Tasks
      /\ Task \subseteq Tasks
      /\ runnable # <<>> => n = Head(runnable)
      /\ runnable = <<>> /\ old = NoTask /\ n = current => Awakened(current) = "Running"
  BY ChoiceIs DEF IndInv, TypeOK, Tasks
<1>2. /\ TypeOK /\ IsInjective(runnable)
      /\ \A t \in ToSet(runnable) : t # Idle /\ state[t] = "Running" /\ t \in Tasks
  BY ToSetType DEF IndInv, RunnableListSound, TypeOK
<1>3. Awakened(current) \in TaskState /\ (state[current] = "Running" => Awakened(current) = "Running")
  BY <1>1, <1>2 DEF Awakened, TypeOK, TaskState
<1>4. /\ AfterDelete \in Seq(Tasks) /\ IsInjective(AfterDelete)
      /\ ToSet(AfterDelete) = ToSet(runnable) \ {n}
      /\ runnable # <<>> => n \in ToSet(runnable)
      /\ runnable = <<>> => ToSet(runnable) = {}
  BY <1>1, <1>2, AfterDeleteList
<1>5. CASE n = current
  <2>1. /\ state' = [state EXCEPT ![current] = Awakened(current)]
        /\ runnable' = AfterDelete
        /\ at' = [at EXCEPT ![current] = back]
        /\ current' = current
        /\ needSchedule' = [needSchedule EXCEPT ![current] = FALSE]
    BY <1>5 DEF SwitchFrom
  <2>2. Awakened(current) = "Running"
    BY <1>1, <1>2, <1>3, <1>4, <1>5
  <2>3. TypeOK'
    BY <2>1, <1>1, <1>2, <1>3, <1>4 DEF TypeOK, TaskState
  <2>4. \A t \in ToSet(runnable') : t # Idle /\ state'[t] = "Running" /\ t # current'
    BY <2>1, <1>2, <1>4, <1>5 DEF TypeOK
  <2>5. RunnableListSound'
    BY <2>1, <2>4, <1>4 DEF RunnableListSound
  <2>6. NoTaskLost'
    BY <2>1, <1>1, <1>2, <1>4, <1>5 DEF NoTaskLost, OnList, IndInv, TypeOK
  <2>7. NoTickLost' /\ FlagsOfOthers'
    BY <2>1, <1>1, <1>2 DEF NoTickLost, FlagsOfOthers, IndInv, TypeOK
  <2>8. state'[Idle] = "Running" /\ CurrentSound'
    BY <2>1, <2>2, <1>1, <1>2 DEF IndInv, CurrentSound, TypeOK, Asleep
  <2>9. QED BY <2>3, <2>5, <2>6, <2>7, <2>8 DEF IndInv
<1>6. CASE n # current
  <2>1. /\ state' = [state EXCEPT ![current] = Awakened(current),
                                  ![n] = IF @ = "None" THEN @ ELSE "Running"]
        /\ runnable' = Requeue(current)
        /\ at' = [at EXCEPT ![current] = back, ![n] = Landing(n)]
        /\ current' = n
        /\ needSchedule' = [needSchedule EXCEPT ![current] = FALSE]
    BY <1>6 DEF SwitchFrom
  <2>2. /\ state'[current] = Awakened(current)
        /\ state'[n] = IF state[n] = "None" THEN "None" ELSE "Running"
        /\ \A t \in Tasks : t # current /\ t # n => state'[t] = state[t]
        /\ state' \in [Tasks -> TaskState]
    BY <2>1, <1>1, <1>2, <1>3, <1>6 DEF TypeOK, TaskState
  <2>3. /\ runnable' \in Seq(Tasks) /\ IsInjective(runnable')
        /\ current # Idle /\ Awakened(current) = "Running"
              => ToSet(runnable') = (ToSet(runnable) \ {n}) \cup {current}
        /\ ~(current # Idle /\ Awakened(current) = "Running")
              => ToSet(runnable') = ToSet(runnable) \ {n}
    BY <2>1, <1>1, <1>2, <1>4, RequeueList
  <2>4. Landing(n) \in {"out", "resume", "check", "halt"} \/ Landing(n) = at[n]
    BY DEF Landing
  <2>5. TypeOK'
    BY <2>1, <2>2, <2>3, <2>4, <1>1, <1>2 DEF TypeOK
  <2>6. \A t \in ToSet(runnable') : t # Idle /\ state'[t] = "Running" /\ t # current'
    BY <2>1, <2>2, <2>3, <1>1, <1>2, <1>3, <1>6
  <2>7. RunnableListSound'
    BY <2>3, <2>6 DEF RunnableListSound
  <2>8. NoTaskLost'
    <3> SUFFICES ASSUME NEW t \in Task, state'[t] = "Running", t # n
                 PROVE  t \in ToSet(runnable')
      BY <2>1 DEF NoTaskLost, OnList
    <3>1. CASE t = current
      BY <3>1, <2>2, <2>3, TaskAssumption
    <3>2. CASE t # current
      BY <3>2, <2>2, <2>3, <1>1 DEF IndInv, NoTaskLost, OnList
    <3>3. QED BY <3>1, <3>2
  <2>9. NoTickLost' /\ FlagsOfOthers'
    BY <2>1, <1>1, <1>2, <1>6 DEF NoTickLost, FlagsOfOthers, IndInv, TypeOK
  <2>10. state'[Idle] = "Running"
    BY <2>2, <1>1, <1>3, <1>6 DEF IndInv
  <2>11. CurrentSound'
    <3>1. at'[n] = Landing(n)
      BY <2>1, <1>1, <1>2, <1>6 DEF TypeOK
    <3>2. state[n] = "None" => Landing(n) = "halt"
      BY DEF Landing
    <3>3. QED BY <2>1, <2>2, <3>1, <3>2 DEF CurrentSound, Asleep
  <2>12. QED BY <2>5, <2>7, <2>8, <2>9, <2>10, <2>11 DEF IndInv
<1>7. QED BY <1>5, <1>6

-----------------------------------------------------------------------------

\* wakeUpTask() keeps the invariant; a task that an interrupt wakes before it
\* calls schedule() is listed although it is the current one.
LEMMA WakeKeepsIndInv ==
  ASSUME IndInv, NEW n \in Task, NEW mask \in SUBSET Asleep, WakeUpTask(n, mask)
  PROVE  IndInv'
<1>1. /\ n \in Tasks /\ n # Idle /\ Idle \in Tasks /\ current \in Tasks
      /\ state[n] \in Asleep /\ Task \subseteq Tasks
  BY TaskAssumption DEF WakeUpTask, Tasks, IndInv, TypeOK
<1>2. n \notin ToSet(runnable)
  BY <1>1 DEF IndInv, RunnableListSound, Asleep
<1>3. /\ state' = [state EXCEPT ![n] = "Running"]
      /\ runnable' = Cons(n, runnable)
      /\ UNCHANGED <<current, needSchedule, pending, critical, at, intent, next>>
  BY <1>2 DEF WakeUpTask, OnList
<1>4. /\ runnable' \in Seq(Tasks) /\ IsInjective(runnable')
      /\ ToSet(runnable') = ToSet(runnable) \cup {n}
  <2>1. runnable \in Seq(Tasks) /\ IsInjective(runnable)
    BY DEF IndInv, TypeOK, RunnableListSound
  <2>2. /\ Cons(n, runnable) \in Seq(Tasks)
        /\ ToSet(Cons(n, runnable)) = {n} \cup ToSet(runnable)
        /\ IsInjective(Cons(n, runnable))
    BY <2>1, <1>1, <1>2, ConsList
  <2>3. QED BY <2>2, <1>3
<1>5. TypeOK'
  BY <1>1, <1>3, <1>4 DEF IndInv, TypeOK, TaskState
<1>6. RunnableListSound'
  <2> SUFFICES ASSUME NEW t \in ToSet(runnable')
               PROVE  /\ t # Idle
                      /\ state'[t] = "Running"
                      /\ t = current' => intent'[t] = "call" /\ at'[t] = "out"
    BY <1>4 DEF RunnableListSound
  <2>1. CASE t = n
    BY <2>1, <1>1, <1>3 DEF IndInv, TypeOK, CurrentSound
  <2>2. CASE t # n
    <3>1. t \in ToSet(runnable) /\ t \in Tasks
      BY <2>2, <1>4, ToSetType DEF IndInv, TypeOK
    <3>2. QED BY <3>1, <2>2, <1>3 DEF IndInv, TypeOK, RunnableListSound
  <2>3. QED BY <2>1, <2>2
<1>7. NoTaskLost'
  BY <1>1, <1>3, <1>4 DEF IndInv, TypeOK, NoTaskLost, OnList
<1>8. NoTickLost' /\ FlagsOfOthers' /\ state'[Idle] = "Running"
  BY <1>1, <1>3 DEF IndInv, TypeOK, NoTickLost, FlagsOfOthers
<1>9. CurrentSound'
  BY <1>1, <1>3 DEF IndInv, TypeOK, CurrentSound, Asleep
<1>10. QED BY <1>5, <1>6, <1>7, <1>8, <1>9 DEF IndInv

\* A current task that is in ordinary code and about to do something else than
\* call schedule() may run, and nobody has listed it.
LEMMA CurrentRuns ==
  ASSUME IndInv, at[current] = "out", intent[current] = "run"
  PROVE  state[current] = "Running" /\ ~OnList(current)
BY DEF IndInv, TypeOK, CurrentSound, RunnableListSound, OnList, TaskState, Asleep

\* A state change of one task that is neither on the list nor made runnable.
LEMMA OtherStateKeepsList ==
  ASSUME IndInv, NEW n \in Task, ~OnList(n), NEW s \in TaskState, s # "Running",
         state' = [state EXCEPT ![n] = s],
         UNCHANGED <<runnable, current>>,
         UNCHANGED <<at, intent>> \/ ~OnList(current)
  PROVE  RunnableListSound' /\ NoTaskLost' /\ state'[Idle] = "Running"
<1>1. n # Idle /\ n \in Tasks /\ Idle \in Tasks /\ Task \subseteq Tasks
  BY TaskAssumption DEF Tasks
<1>2. ToSet(runnable) \subseteq Tasks
  BY ToSetType DEF IndInv, TypeOK
<1>3. RunnableListSound'
  BY <1>1, <1>2 DEF IndInv, TypeOK, RunnableListSound, OnList
<1>4. NoTaskLost'
  BY <1>1 DEF IndInv, TypeOK, NoTaskLost, OnList
<1>5. QED BY <1>1, <1>3, <1>4 DEF IndInv, TypeOK

\* Every step keeps the inductive invariant.
LEMMA StepIndInv == IndInv /\ [Next]_vars => IndInv'
<1> SUFFICES ASSUME IndInv, [Next]_vars PROVE IndInv'
  OBVIOUS
<1>0. /\ TypeOK /\ current \in Tasks /\ Idle \in Tasks /\ Task \subseteq Tasks
      /\ NoTask \notin Tasks /\ Idle \notin Task
      /\ Sleeps \subseteq Asleep /\ Mortal \subseteq Task
  BY TaskAssumption DEF IndInv, TypeOK, Tasks
<1>1. CASE Lock
  BY <1>1, <1>0 DEF Lock, IndInv, TypeOK, RunnableListSound, NoTaskLost, OnList,
     NoTickLost, CurrentSound, FlagsOfOthers
<1>2. CASE Unlock
  <2>1. /\ UNCHANGED <<state, runnable, current, needSchedule, pending, at, intent, next>>
        /\ critical' = FALSE
        /\ ~(state[current] = "Running" /\ needSchedule[current])
        /\ at[current] = "out"
    BY <1>2 DEF Unlock
  <2>2. NoTickLost'
    BY <2>1, CurrentRuns DEF NoTickLost
  <2>3. QED BY <2>1, <2>2 DEF IndInv, TypeOK, RunnableListSound, NoTaskLost, OnList,
            CurrentSound, FlagsOfOthers
<1>3. CASE UnlockSchedules
  <2>1. next' \in [Tasks -> Tasks \cup {NoTask}]
    BY <1>3, <1>0, ChoiceIs DEF UnlockSchedules, TypeOK
  <2>2. QED BY <1>3, <2>1, <1>0, SwitchKeepsIndInv DEF UnlockSchedules, TypeOK
<1>4. ASSUME NEW s \in Sleeps, Sleep(s) PROVE IndInv'
  <2>1. /\ at[current] = "out" /\ intent[current] = "run" /\ current \in Task
        /\ s \in TaskState /\ s # "Running" /\ s \in Asleep
        /\ state' = [state EXCEPT ![current] = s]
        /\ intent' = [intent EXCEPT ![current] = "call"]
        /\ UNCHANGED <<runnable, current, needSchedule, pending, critical, at, next>>
    BY <1>4, <1>0 DEF Sleep, TaskState, Asleep, Tasks
  <2>2. ~OnList(current)
    BY <2>1, CurrentRuns
  <2>3. RunnableListSound' /\ NoTaskLost' /\ state'[Idle] = "Running"
    BY <2>1, <2>2, OtherStateKeepsList
  <2>4. TypeOK' /\ NoTickLost' /\ CurrentSound' /\ FlagsOfOthers'
    BY <2>1, <1>0 DEF IndInv, TypeOK, NoTickLost, CurrentSound, FlagsOfOthers, Asleep
  <2>5. QED BY <2>3, <2>4 DEF IndInv
<1>5. CASE Exit
  <2>1. /\ at[current] = "out" /\ intent[current] = "run" /\ current \in Task
        /\ "Zombie" \in TaskState
        /\ state' = [state EXCEPT ![current] = "Zombie"]
        /\ intent' = [intent EXCEPT ![current] = "exit"]
        /\ UNCHANGED <<runnable, current, needSchedule, pending, critical, at, next>>
    BY <1>5, <1>0 DEF Exit, TaskState
  <2>2. ~OnList(current)
    BY <2>1, CurrentRuns
  <2>3. RunnableListSound' /\ NoTaskLost' /\ state'[Idle] = "Running"
    BY <2>1, <2>2, OtherStateKeepsList
  <2>4. TypeOK' /\ NoTickLost' /\ CurrentSound' /\ FlagsOfOthers'
    BY <2>1, <1>0 DEF IndInv, TypeOK, NoTickLost, CurrentSound, FlagsOfOthers, Asleep
  <2>5. QED BY <2>3, <2>4 DEF IndInv
<1>6. CASE Interrupted
  <2>1. /\ state[current] = "Interruptible" /\ ~needSchedule[current]
        /\ state' = [state EXCEPT ![current] = "Running"]
        /\ at' = [at EXCEPT ![current] = "resume"]
        /\ intent' = [intent EXCEPT ![current] = "run"]
        /\ next' = [next EXCEPT ![current] = NoTask]
        /\ ~critical
        /\ UNCHANGED <<runnable, current, needSchedule, pending, critical>>
    BY <1>6 DEF Interrupted
  <2>2. current \notin ToSet(runnable) /\ ToSet(runnable) \subseteq Tasks /\ current # Idle
    BY <2>1, ToSetType DEF IndInv, RunnableListSound, TypeOK
  <2>3. RunnableListSound' /\ NoTaskLost' /\ state'[Idle] = "Running"
    BY <2>1, <2>2, <1>0 DEF IndInv, TypeOK, RunnableListSound, NoTaskLost, OnList
  <2>4. TypeOK' /\ NoTickLost' /\ CurrentSound' /\ FlagsOfOthers'
    BY <2>1, <1>0 DEF IndInv, TypeOK, TaskState, NoTickLost, CurrentSound, FlagsOfOthers, Asleep
  <2>5. QED BY <2>3, <2>4 DEF IndInv
<1>7. CASE CallSchedule
  <2>1. next' \in [Tasks -> Tasks \cup {NoTask}] /\ critical' = FALSE
    BY <1>7, <1>0, ChoiceIs DEF CallSchedule, TypeOK
  <2>2. /\ intent' \in [Tasks -> {"run", "call", "exit", "dead"}]
        /\ \A t \in Tasks : t # current => intent'[t] = intent[t]
    BY <1>7, <1>0 DEF CallSchedule, AfterCall, TypeOK
  <2>3. QED BY <1>7, <2>1, <2>2, SwitchKeepsIndInv DEF CallSchedule
<1>8. CASE Done
  <2>1. /\ at[current] = "resume"
        /\ at' = [at EXCEPT ![current] = "check"]
        /\ UNCHANGED <<state, runnable, current, needSchedule, pending, critical, intent, next>>
    BY <1>8 DEF Done
  <2>2. current \notin ToSet(runnable) /\ ToSet(runnable) \subseteq Tasks
    BY <2>1, ToSetType DEF IndInv, RunnableListSound, TypeOK
  <2>3. RunnableListSound' /\ NoTaskLost'
    BY <2>1, <2>2, <1>0 DEF IndInv, TypeOK, RunnableListSound, NoTaskLost, OnList
  <2>4. TypeOK' /\ NoTickLost' /\ CurrentSound' /\ FlagsOfOthers'
    BY <2>1, <1>0 DEF IndInv, TypeOK, NoTickLost, CurrentSound, FlagsOfOthers, Asleep
  <2>5. QED BY <2>1, <2>3, <2>4 DEF IndInv
<1>9. CASE Repeat
  <2>1. /\ at[current] = "check" /\ SwitchFrom(current, next[current], "resume")
        /\ next' = [next EXCEPT ![current] = Choice(current, next[current])]
        /\ UNCHANGED <<pending, critical, intent>>
    BY <1>9 DEF Repeat
  <2>2. state[current] = "Running" /\ critical = FALSE
    BY <2>1, <1>0 DEF IndInv, TypeOK, CurrentSound, TaskState, Asleep
  <2>3. next[current] \in Tasks \cup {NoTask}
    BY <1>0 DEF TypeOK
  <2>4. next' \in [Tasks -> Tasks \cup {NoTask}]
    BY <2>1, <2>3, <1>0, ChoiceIs DEF TypeOK
  <2>5. QED BY <2>1, <2>2, <2>3, <2>4, <1>0, SwitchKeepsIndInv DEF TypeOK
<1>10. CASE Return
  <2>1. /\ at[current] = "check" /\ ~needSchedule[current]
        /\ at' = [at EXCEPT ![current] = IF intent[current] = "dead" THEN "halt" ELSE "out"]
        /\ next' = [next EXCEPT ![current] = NoTask]
        /\ UNCHANGED <<state, runnable, current, needSchedule, pending, critical, intent>>
    BY <1>10 DEF Return
  <2>2. current \notin ToSet(runnable) /\ ToSet(runnable) \subseteq Tasks
    BY <2>1, ToSetType DEF IndInv, RunnableListSound, TypeOK
  <2>3. RunnableListSound' /\ NoTaskLost'
    BY <2>1, <2>2, <1>0 DEF IndInv, TypeOK, RunnableListSound, NoTaskLost, OnList
  <2>4. TypeOK' /\ NoTickLost' /\ CurrentSound' /\ FlagsOfOthers'
    BY <2>1, <1>0 DEF IndInv, TypeOK, NoTickLost, CurrentSound, FlagsOfOthers, Asleep
  <2>5. QED BY <2>1, <2>3, <2>4 DEF IndInv
<1>11. ASSUME NEW n \in Task, NEW mask \in Masks, TaskWakes(n, mask) PROVE IndInv'
  <2>1. mask \in SUBSET Asleep
    BY DEF Masks, DefaultMask, Asleep
  <2>2. QED BY <2>1, <1>11, WakeKeepsIndInv DEF TaskWakes
<1>12. ASSUME NEW n \in Task, IrqWakes(n) PROVE IndInv'
  <2>1. DefaultMask \in SUBSET Asleep
    BY DEF DefaultMask, Asleep
  <2>2. QED BY <2>1, <1>12, WakeKeepsIndInv DEF IrqWakes
<1>13. ASSUME NEW n \in Task, Fork(n) PROVE IndInv'
  <2>1. /\ at[current] = "out" /\ intent[current] = "run"
        /\ state[n] = "None" /\ "Uninterruptible" \in TaskState
        /\ state' = [state EXCEPT ![n] = "Uninterruptible"]
        /\ UNCHANGED <<runnable, current, needSchedule, pending, critical, at, intent, next>>
    BY <1>13 DEF Fork, TaskState, Asleep
  <2>2. ~OnList(n) /\ n # current
    BY <2>1 DEF IndInv, RunnableListSound, OnList, CurrentSound
  <2>3. RunnableListSound' /\ NoTaskLost' /\ state'[Idle] = "Running"
    BY <2>1, <2>2, OtherStateKeepsList
  <2>4. TypeOK' /\ NoTickLost' /\ CurrentSound' /\ FlagsOfOthers'
    BY <2>1, <2>2, <1>0 DEF IndInv, TypeOK, NoTickLost, CurrentSound, FlagsOfOthers, Asleep
  <2>5. QED BY <2>3, <2>4 DEF IndInv
<1>14. ASSUME NEW n \in Task, Reap(n) PROVE IndInv'
  <2>1. /\ n # current /\ state[n] = "Zombie" /\ "None" \in TaskState
        /\ state' = [state EXCEPT ![n] = "None"]
        /\ needSchedule' = [needSchedule EXCEPT ![n] = FALSE]
        /\ pending' = [pending EXCEPT ![n] = FALSE]
        /\ at' = [at EXCEPT ![n] = "new"]
        /\ intent' = [intent EXCEPT ![n] = "run"]
        /\ next' = [next EXCEPT ![n] = NoTask]
        /\ UNCHANGED <<runnable, current, critical>>
        /\ at[current] = "out" /\ intent[current] = "run"
    BY <1>14 DEF Reap, TaskState
  <2>2. ~OnList(n) /\ ~OnList(current)
    BY <2>1, CurrentRuns DEF IndInv, RunnableListSound, OnList
  <2>3. RunnableListSound' /\ NoTaskLost' /\ state'[Idle] = "Running"
    BY <2>1, <2>2, OtherStateKeepsList
  <2>4. TypeOK' /\ NoTickLost' /\ CurrentSound' /\ FlagsOfOthers'
    BY <2>1, <1>0 DEF IndInv, TypeOK, NoTickLost, CurrentSound, FlagsOfOthers, Asleep
  <2>5. QED BY <2>3, <2>4 DEF IndInv
<1>15. ASSUME NEW n \in Task, PostSignal(n) PROVE IndInv'
  BY <1>15, <1>0 DEF PostSignal, IndInv, TypeOK, RunnableListSound, NoTaskLost, OnList,
     NoTickLost, CurrentSound, FlagsOfOthers
<1>16. CASE TakeSignal
  BY <1>16, <1>0 DEF TakeSignal, IndInv, TypeOK, RunnableListSound, NoTaskLost, OnList,
     NoTickLost, CurrentSound, FlagsOfOthers
<1>17. CASE TickMarks
  <2>1. /\ ~Preemptible
        /\ needSchedule' = [needSchedule EXCEPT ![current] = TRUE]
        /\ UNCHANGED <<state, runnable, current, pending, critical, at, intent, next>>
    BY <1>17 DEF TickMarks
  <2>2. NoTickLost'
    BY <2>1, CurrentRuns DEF NoTickLost, Preemptible
  <2>3. TypeOK' /\ FlagsOfOthers'
    BY <2>1, <1>0 DEF IndInv, TypeOK, FlagsOfOthers
  <2>4. QED BY <2>1, <2>2, <2>3 DEF IndInv, RunnableListSound, NoTaskLost, OnList, CurrentSound
<1>18. CASE TickPreempts
  <2>1. /\ at[current] \in {"out", "check"} /\ critical = FALSE
        /\ SwitchFrom(current, NoTask, at[current])
        /\ UNCHANGED <<pending, critical, intent, next>>
    BY <1>18, <1>0 DEF TickPreempts, Preemptible, TypeOK
  <2>2. /\ intent' \in [Tasks -> {"run", "call", "exit", "dead"}]
        /\ \A t \in Tasks : t # current => intent'[t] = intent[t]
        /\ next' \in [Tasks -> Tasks \cup {NoTask}]
        /\ critical' = FALSE /\ pending' = pending
        /\ at[current] \in {"out", "resume", "check"}
    BY <2>1, <1>0 DEF TypeOK
  <2>3. QED BY <2>1, <2>2, SwitchKeepsIndInv
<1>19. CASE UNCHANGED vars
  BY <1>19 DEF vars, IndInv, TypeOK, RunnableListSound, NoTaskLost, OnList,
     NoTickLost, CurrentSound, FlagsOfOthers
<1>20. QED
  BY <1>1, <1>2, <1>3, <1>4, <1>5, <1>6, <1>7, <1>8, <1>9, <1>10, <1>11, <1>12,
     <1>13, <1>14, <1>15, <1>16, <1>17, <1>18, <1>19 DEF Next

-----------------------------------------------------------------------------
(* The theorems.                                                           *)

\* Everything the inductive invariant says holds in every reachable state.
THEOREM IndInvHolds == Spec => []IndInv
<1>1. Init => IndInv
  BY InitIndInv
<1>2. IndInv /\ [Next]_vars => IndInv'
  BY StepIndInv
<1>3. QED BY <1>1, <1>2, PTL DEF Spec

\* schedule() and wakeUpTask() keep every field in its range.
THEOREM TypeCorrect == Spec => []TypeOK
<1>1. IndInv => TypeOK
  BY DEF IndInv
<1>2. QED BY <1>1, IndInvHolds, PTL

\* The runnable list never holds a task that may not run, nor one twice.
THEOREM RunnableListIsSound == Spec => []RunnableListSound
<1>1. IndInv => RunnableListSound
  BY DEF IndInv
<1>2. QED BY <1>1, IndInvHolds, PTL

\* A task that may run is the current one or is on the list: no wake-up is
\* lost between "state = ..." and the call of schedule().
THEOREM NoTaskIsLost == Spec => []NoTaskLost
<1>1. IndInv => NoTaskLost
  BY DEF IndInv
<1>2. QED BY <1>1, IndInvHolds, PTL

\* No tick is forgotten: preemption on means no reschedule outstanding.
THEOREM NoTickIsLost == Spec => []NoTickLost
<1>1. IndInv => NoTickLost
  BY DEF IndInv
<1>2. QED BY <1>1, IndInvHolds, PTL

\* The CPU changes hands only outside spin locks.
THEOREM LocksAreNotSwitchedOut == Spec => NoSwitchInsideLock
<1>1. IndInv /\ [Next]_vars => [current' # current => ~critical']_vars
  <2> SUFFICES ASSUME IndInv, Next, current' # current PROVE ~critical'
    BY DEF vars
  <2>1. CASE UnlockSchedules
    BY <2>1 DEF UnlockSchedules
  <2>2. CASE CallSchedule
    BY <2>2 DEF CallSchedule
  <2>3. CASE Repeat
    BY <2>3 DEF Repeat, IndInv, CurrentSound
  <2>4. CASE TickPreempts
    BY <2>4 DEF TickPreempts, Preemptible
  <2>5. QED BY <2>1, <2>2, <2>3, <2>4
    DEF Next, Lock, Unlock, Sleep, Exit, Interrupted, Done, Return, TaskWakes,
        IrqWakes, WakeUpTask, Fork, Reap, PostSignal, TakeSignal, TickMarks
<1>2. QED BY <1>1, IndInvHolds, PTL DEF Spec, NoSwitchInsideLock

-----------------------------------------------------------------------------
(* A task that waits keeps its turn.                                       *)

\* Taking the head off brings nobody ahead of those that stay.
LEMMA AheadOfTail ==
  ASSUME NEW S, NEW s \in Seq(S), s # <<>>, IsInjective(s), NEW t \in ToSet(Tail(s))
  PROVE  Ahead(t, Tail(s)) \subseteq Ahead(t, s)
<1> DEFINE c == Tail(s)
<1>1. /\ Len(s) \in Nat /\ Len(s) >= 1 /\ Len(c) = Len(s) - 1
      /\ \A i \in 1..Len(c) : c[i] = s[i + 1]
      /\ DOMAIN c = 1..Len(c) /\ DOMAIN s = 1..Len(s)
  OBVIOUS
<1>2. s[1] # t
  <2>1. ToSet(c) = ToSet(s) \ {Head(s)} /\ Head(s) = s[1]
    BY TailList
  <2>2. QED BY <2>1
<1> HIDE DEF c
<1>3. ASSUME NEW u \in Ahead(t, c) PROVE u \in Ahead(t, s)
  <2>1. PICK i \in 1..Len(c) : u = c[i] /\ \A k \in 1..i : c[k] # t
    BY <1>1 DEF Ahead
  <2>2. i + 1 \in DOMAIN s /\ u = s[i + 1]
    BY <2>1, <1>1
  <2>3. ASSUME NEW k \in 1..(i + 1) PROVE s[k] # t
    <3>1. CASE k = 1
      BY <3>1, <1>2
    <3>2. CASE k # 1
      <4>1. k - 1 \in 1..i /\ k - 1 \in 1..Len(c) /\ (k - 1) + 1 = k
        BY <3>2, <2>1, <1>1
      <4>2. c[k - 1] = s[k] /\ c[k - 1] # t
        BY <4>1, <2>1, <1>1
      <4>3. QED BY <4>2
    <3>3. QED BY <3>1, <3>2
  <2>4. QED BY <2>2, <2>3 DEF Ahead
<1>4. QED BY <1>3 DEF c

\* Who comes to the tail is ahead of nobody.
LEMMA AheadOfAppend ==
  ASSUME NEW S, NEW s \in Seq(S), NEW x \in S, NEW t \in ToSet(s)
  PROVE  Ahead(t, Append(s, x)) \subseteq Ahead(t, s)
<1> DEFINE c == Append(s, x)
<1>1. /\ Len(s) \in Nat /\ \A i \in 1..Len(s) : c[i] = s[i]
      /\ DOMAIN c = 1..(Len(s) + 1) /\ DOMAIN s = 1..Len(s)
  OBVIOUS
<1> HIDE DEF c
<1>2. ASSUME NEW u \in Ahead(t, c) PROVE u \in Ahead(t, s)
  <2>1. PICK i \in 1..(Len(s) + 1) : u = c[i] /\ \A k \in 1..i : c[k] # t
    BY <1>1 DEF Ahead
  <2>2. PICK j \in 1..Len(s) : s[j] = t
    BY <1>1 DEF ToSet
  <2>3. i # Len(s) + 1
    BY <2>1, <2>2, <1>1
  <2>4. i \in 1..Len(s) /\ \A k \in 1..i : c[k] = s[k]
    BY <2>1, <2>3, <1>1
  <2>5. u = s[i] /\ \A k \in 1..i : s[k] # t
    BY <2>1, <2>4
  <2>6. QED BY <2>4, <2>5, <1>1 DEF Ahead
<1>3. QED BY <1>2 DEF c

\* Only who is put at the head comes to be ahead of the others.
LEMMA AheadOfCons ==
  ASSUME NEW S, NEW s \in Seq(S), NEW x \in S, NEW t \in ToSet(s)
  PROVE  Ahead(t, Cons(x, s)) \subseteq {x} \cup Ahead(t, s)
<1> DEFINE c == Cons(x, s)
<1>1. /\ Len(s) \in Nat /\ c[1] = x
      /\ \A i \in 1..Len(s) : c[i + 1] = s[i]
      /\ DOMAIN c = 1..(Len(s) + 1) /\ DOMAIN s = 1..Len(s)
  BY DEF Cons
<1> HIDE DEF c
<1>2. ASSUME NEW u \in Ahead(t, c), u # x PROVE u \in Ahead(t, s)
  <2>1. PICK i \in 1..(Len(s) + 1) : u = c[i] /\ \A k \in 1..i : c[k] # t
    BY <1>1 DEF Ahead
  <2>2. i - 1 \in 1..Len(s) /\ (i - 1) + 1 = i
    BY <2>1, <1>2, <1>1
  <2>3. u = s[i - 1]
    BY <2>1, <2>2, <1>1
  <2>4. ASSUME NEW k \in 1..(i - 1) PROVE s[k] # t
    <3>1. k + 1 \in 1..i /\ k \in 1..Len(s)
      BY <2>2
    <3>2. c[k + 1] = s[k]
      BY <3>1, <1>1
    <3>3. QED BY <3>1, <3>2, <2>1
  <2>5. QED BY <2>2, <2>3, <2>4, <1>1 DEF Ahead
<1>3. QED BY <1>2 DEF c

\* schedule() takes a task from the head and puts its caller at the tail: none
\* of those that go on waiting loses its turn.
LEMMA SwitchKeepsTurns ==
  ASSUME IndInv,
         NEW old \in Tasks \cup {NoTask}, NEW back,
         SwitchFrom(current, old, back),
         NEW t \in ToSet(runnable) \cap ToSet(runnable')
  PROVE  Ahead(t, runnable') \subseteq Ahead(t, runnable)
<1>1. /\ runnable \in Seq(Tasks) /\ IsInjective(runnable) /\ current \in Tasks
      /\ runnable # <<>>
      /\ AfterDelete = Tail(runnable)
      /\ AfterDelete \in Seq(Tasks)
      /\ ToSet(AfterDelete) = ToSet(runnable) \ {Head(runnable)}
      /\ Choice(current, old) = Head(runnable)
  <2>1. /\ TypeOK /\ IsInjective(runnable)
        /\ runnable \in Seq(Tasks) /\ current \in Tasks
    BY DEF IndInv, TypeOK, RunnableListSound
  <2>2. runnable # <<>>
    BY EmptyList
  <2>3. QED BY <2>1, <2>2, AfterDeleteList, ChoiceIs DEF AfterDelete
<1>2. runnable' \in {AfterDelete, Requeue(current)}
  BY DEF SwitchFrom
<1>3. t \in ToSet(AfterDelete)
  <2>1. CASE Choice(current, old) = current
    BY <2>1 DEF SwitchFrom
  <2>2. CASE Choice(current, old) # current
    <3>1. ToSet(runnable') \subseteq ToSet(AfterDelete) \cup {current}
      BY <1>1, <1>2, RequeueList DEF IndInv
    <3>2. QED BY <3>1, <2>2, <1>1
  <2>3. QED BY <2>1, <2>2
<1>4. Ahead(t, AfterDelete) \subseteq Ahead(t, runnable)
  BY <1>1, <1>3, AheadOfTail
<1>5. CASE runnable' = AfterDelete
  BY <1>4, <1>5
<1>6. CASE runnable' = Append(AfterDelete, current)
  BY <1>1, <1>3, <1>4, <1>6, AheadOfAppend
<1>7. QED BY <1>2, <1>5, <1>6 DEF Requeue

\* Nobody who runs gets ahead of a task that waits for the CPU: a preempted task
\* goes to the tail, and only wake-ups put tasks at the head.
THEOREM TurnsAreKept == Spec => KeepsItsTurn
<1> DEFINE Kept == \A t \in ToSet(runnable) \cap ToSet(runnable') :
                     \A u \in Ahead(t, runnable') \ Ahead(t, runnable) : state[u] # "Running"
<1>1. IndInv /\ [Next]_vars => [Kept]_vars
  <2> SUFFICES ASSUME IndInv, Next PROVE Kept
    BY DEF vars
  <2>1. TypeOK /\ current \in Tasks /\ runnable \in Seq(Tasks) /\ Task \subseteq Tasks
    BY DEF IndInv, TypeOK, Tasks
  <2>2. CASE UNCHANGED runnable
    BY <2>2
  <2>3. ASSUME NEW old \in Tasks \cup {NoTask}, NEW back, SwitchFrom(current, old, back)
        PROVE  Kept
    BY <2>3, SwitchKeepsTurns
  <2>4. ASSUME NEW n \in Task, NEW mask \in SUBSET Asleep, WakeUpTask(n, mask)
        PROVE  Kept
    <3>1. state[n] # "Running"
      BY <2>4 DEF WakeUpTask, Asleep
    <3>2. CASE OnList(n)
      BY <3>2, <2>2, <2>4 DEF WakeUpTask
    <3>3. CASE ~OnList(n)
      <4>1. runnable' = Cons(n, runnable)
        BY <3>3, <2>4 DEF WakeUpTask
      <4>2. \A t \in ToSet(runnable) : Ahead(t, runnable') \subseteq {n} \cup Ahead(t, runnable)
        BY <4>1, <2>1, AheadOfCons
      <4>3. QED BY <4>2, <3>1
    <3>4. QED BY <3>2, <3>3
  <2>5. CASE UnlockSchedules \/ CallSchedule
    BY <2>5, <2>3 DEF UnlockSchedules, CallSchedule
  <2>6. CASE Repeat
    <3>1. next[current] \in Tasks \cup {NoTask}
      BY <2>1 DEF TypeOK
    <3>2. QED BY <3>1, <2>3, <2>6 DEF Repeat
  <2>7. CASE TickPreempts
    BY <2>7, <2>3 DEF TickPreempts
  <2>8. ASSUME NEW n \in Task, NEW mask \in Masks, TaskWakes(n, mask) PROVE Kept
    <3>1. mask \in SUBSET Asleep
      BY DEF Masks, DefaultMask, Asleep
    <3>2. QED BY <3>1, <2>4, <2>8 DEF TaskWakes
  <2>9. ASSUME NEW n \in Task, IrqWakes(n) PROVE Kept
    <3>1. DefaultMask \in SUBSET Asleep
      BY DEF DefaultMask, Asleep
    <3>2. QED BY <3>1, <2>4, <2>9 DEF IrqWakes
  <2> HIDE DEF Kept
  <2>10. QED BY <2>2, <2>5, <2>6, <2>7, <2>8, <2>9
    DEF Next, Lock, Unlock, Sleep, Exit, Interrupted, Done, Return, Fork, Reap,
        PostSignal, TakeSignal, TickMarks
<1>2. QED BY <1>1, IndInvHolds, PTL DEF Spec, KeepsItsTurn

-----------------------------------------------------------------------------
(* Scheduler implements RunQueue.                                          *)

\* Each place that enters schedule() takes a step of the run queue, or none
\* when the caller goes on.
LEMMA SwitchRefines ==
  ASSUME IndInv,
         NEW old \in Tasks \cup {NoTask},
         NEW back \in {"out", "resume", "check"},
         SwitchFrom(current, old, back),
         old # NoTask => state[current] = "Running"
  PROVE  [RQ!Next]_(RQ!vars)
<1> DEFINE n == Choice(current, old)
           mayRun == Awakened(current) = "Running"
<1>1. /\ current \in Tasks /\ n \in Tasks /\ Tasks = RQ!Tasks
      /\ state \in [Tasks -> TaskState]
      /\ runnable \in Seq(Tasks)
      /\ runnable # <<>> => n = Head(runnable) /\ state[n] = "Running"
      /\ runnable = <<>> /\ old = NoTask /\ n = current => mayRun
      /\ state[Idle] = "Running"
  BY ChoiceIs, AfterDeleteList DEF IndInv, TypeOK, RunnableListSound, RQ!Tasks, Tasks
<1>2. /\ mayRun => state[current] \in {"Running", "Interruptible"}
      /\ ~mayRun => state[current] # "Running" /\ Awakened(current) = state[current]
  BY DEF Awakened
<1>3. CASE n = current /\ runnable # <<>>
  <2>1. state' = state /\ runnable' = Tail(runnable) /\ current' = current
    BY <1>3, <1>1 DEF SwitchFrom, AfterDelete, Awakened
  <2>2. RQ!SwitchToHead(TRUE)
    BY <2>1, <1>3, <1>1 DEF RQ!SwitchToHead, RQ!Behind
  <2>3. QED BY <2>2, <1>1, <1>3 DEF RQ!Next, RQ!Preempt, RQ!Switch
<1>4. CASE n = current /\ runnable = <<>>
  <2>1. /\ state' = [state EXCEPT ![current] = Awakened(current)]
        /\ runnable' = runnable /\ current' = current
    BY <1>4 DEF SwitchFrom, AfterDelete
  <2>2. CASE state[current] = "Running"
    <3>1. state' = state
      BY <2>1, <2>2, <1>1 DEF Awakened
    <3>2. QED BY <3>1, <2>1 DEF RQ!vars
  <2>3. CASE state[current] # "Running"
    <3>1. mayRun
      BY <2>3, <1>1, <1>4
    <3>2. RQ!Interrupted
      BY <3>1, <2>1, <2>3, <1>2 DEF RQ!Interrupted
    <3>3. QED BY <3>2 DEF RQ!Next
  <2>4. QED BY <2>2, <2>3
<1>5. CASE n # current
  <2>1. /\ state' = [state EXCEPT ![current] = Awakened(current),
                                  ![n] = IF @ = "None" THEN @ ELSE "Running"]
        /\ runnable' = Requeue(current)
        /\ current' = n
    BY <1>5 DEF SwitchFrom
  <2>2. state' = [state EXCEPT ![current] = IF mayRun THEN "Running" ELSE @,
                               ![n] = IF @ = "None" THEN @ ELSE "Running"]
    BY <2>1, <1>1, <1>2, <1>5
  <2>3. runnable' = RQ!Requeue(mayRun, AfterDelete)
    BY <2>1 DEF Requeue, RQ!Requeue, ToSet, RQ!ToSet
  <2>4. CASE runnable # <<>>
    <3>1. AfterDelete = RQ!Behind
      BY <2>4 DEF AfterDelete, RQ!Behind
    <3>2. state' = [state EXCEPT ![current] = IF mayRun THEN "Running" ELSE @,
                                 ![Head(runnable)] = "Running"]
      BY <2>2, <2>4, <1>1, <1>5
    <3>3. RQ!SwitchToHead(mayRun)
      BY <3>1, <3>2, <2>1, <2>3, <2>4, <1>1, <1>5 DEF RQ!SwitchToHead
    <3>4. RQ!Preempt \/ RQ!GiveUp
      <4>1. CASE mayRun
        BY <4>1, <3>3, <1>2 DEF RQ!Preempt, RQ!Switch
      <4>2. CASE ~mayRun
        BY <4>2, <3>3, <1>2 DEF RQ!GiveUp, RQ!Switch
      <4>3. QED BY <4>1, <4>2
    <3>5. QED BY <3>4 DEF RQ!Next
  <2>5. CASE runnable = <<>>
    <3>1. AfterDelete = <<>>
      BY <2>5 DEF AfterDelete
    <3>2. n \in RQ!Tasks \ {current}
      BY <1>1, <1>5
    <3> HIDE DEF n, mayRun
    <3>3. RQ!SwitchToOther(mayRun)
      BY <3>1, <3>2, <2>1, <2>2, <2>3, <2>5 DEF RQ!SwitchToOther
    <3> USE DEF n, mayRun
    <3>4. RQ!Preempt \/ RQ!GiveUp
      <4>1. CASE mayRun
        BY <4>1, <3>3, <1>2 DEF RQ!Preempt, RQ!Switch
      <4>2. CASE ~mayRun
        BY <4>2, <3>3, <1>2 DEF RQ!GiveUp, RQ!Switch
      <4>3. QED BY <4>1, <4>2
    <3>5. QED BY <3>4 DEF RQ!Next
  <2>6. QED BY <2>4, <2>5
<1>6. QED BY <1>3, <1>4, <1>5

\* A wake-up, by a task or by an interrupt.
LEMMA WakeRefines ==
  ASSUME NEW n \in Task, NEW mask \in SUBSET Asleep, WakeUpTask(n, mask)
  PROVE  RQ!Next
<1>1. RQ!Wake(n)
  BY DEF WakeUpTask, RQ!Wake, OnList, RQ!OnList, Asleep, Cons, RQ!Cons, ToSet, RQ!ToSet
<1>2. QED BY <1>1 DEF RQ!Next

\* Every step is a step of the run queue or leaves it alone.
LEMMA StepRefines == IndInv /\ [Next]_vars => [RQ!Next]_(RQ!vars)
<1> SUFFICES ASSUME IndInv, [Next]_vars PROVE [RQ!Next]_(RQ!vars)
  OBVIOUS
<1>0. /\ TypeOK /\ current \in Tasks /\ Idle \in Tasks
      /\ Mortal \subseteq Task
      /\ current # Idle => current \in Task
  BY TaskAssumption DEF IndInv, TypeOK, Tasks
<1>1. CASE Lock \/ Unlock \/ Done \/ Return \/ TakeSignal \/ TickMarks
           \/ (\E n \in Task : PostSignal(n)) \/ UNCHANGED vars
  <2>1. UNCHANGED <<state, runnable, current>>
    BY <1>1 DEF Lock, Unlock, Done, Return, TakeSignal, TickMarks, PostSignal, vars
  <2>2. QED BY <2>1 DEF RQ!vars
<1>2. CASE UnlockSchedules
  BY <1>2, SwitchRefines DEF UnlockSchedules
<1>3. ASSUME NEW s \in Sleeps, Sleep(s) PROVE RQ!Next
  <2>1. RQ!Block(s)
    BY <1>3 DEF Sleep, RQ!Block
  <2>2. QED BY <2>1 DEF RQ!Next
<1>4. CASE Exit
  <2>1. RQ!Block("Zombie")
    BY <1>4, <1>0, TaskAssumption DEF Exit, RQ!Block
  <2>2. QED BY <2>1 DEF RQ!Next
<1>5. CASE Interrupted
  <2>1. RQ!Interrupted
    BY <1>5 DEF Interrupted, RQ!Interrupted
  <2>2. QED BY <2>1 DEF RQ!Next
<1>6. CASE CallSchedule
  BY <1>6, SwitchRefines DEF CallSchedule
<1>7. CASE Repeat
  <2>1. state[current] = "Running"
    BY <1>7, <1>0 DEF Repeat, IndInv, TypeOK, CurrentSound, TaskState, Asleep
  <2>2. next[current] \in Tasks \cup {NoTask} /\ SwitchFrom(current, next[current], "resume")
    BY <1>7, <1>0 DEF TypeOK, Repeat
  <2>3. QED BY <2>1, <2>2, SwitchRefines
<1>8. ASSUME NEW n \in Task, NEW mask \in Masks, TaskWakes(n, mask) PROVE RQ!Next
  <2>1. mask \in SUBSET Asleep
    BY DEF Masks, DefaultMask, Asleep
  <2>2. QED BY <2>1, <1>8, WakeRefines DEF TaskWakes
<1>9. ASSUME NEW n \in Task, IrqWakes(n) PROVE RQ!Next
  <2>1. DefaultMask \in SUBSET Asleep
    BY DEF DefaultMask, Asleep
  <2>2. QED BY <2>1, <1>9, WakeRefines DEF IrqWakes
<1>10. ASSUME NEW n \in Task, Fork(n) \/ Reap(n) PROVE RQ!Next
  <2>1. RQ!Create(n) \/ RQ!Reap(n)
    BY <1>10 DEF Fork, Reap, RQ!Create, RQ!Reap
  <2>2. QED BY <2>1 DEF RQ!Next
<1>11. CASE TickPreempts
  <2>1. at[current] \in {"out", "resume", "check"} /\ SwitchFrom(current, NoTask, at[current])
    BY <1>11 DEF TickPreempts, Preemptible
  <2>2. QED BY <2>1, SwitchRefines
<1>12. QED
  BY <1>1, <1>2, <1>3, <1>4, <1>5, <1>6, <1>7, <1>8, <1>9, <1>10, <1>11 DEF Next

\* schedule() with its windows, its local variable and the tick is a run queue:
\* whatever holds of RunQueue's safety holds of it.
THEOREM SchedulerImplementsRunQueue == Spec => ImplementsRunQueue
<1>1. Init => RQ!Init
  BY DEF Init, RQ!Init, Tasks, RQ!Tasks
<1>2. IndInv /\ [Next]_vars => [RQ!Next]_(RQ!vars)
  BY StepRefines
<1>3. QED BY <1>1, <1>2, IndInvHolds, PTL DEF Spec, RQ!Spec, ImplementsRunQueue

=============================================================================
