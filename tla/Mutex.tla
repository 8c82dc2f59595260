-------------------------------- MODULE Mutex --------------------------------
(***************************************************************************)
(* What the users of a semaphore (semaphore.h) rely on: at most one task   *)
(* has it, and when it is free and wanted, somebody gets it.  Nothing is   *)
(* promised about who.                                                     *)
(***************************************************************************)
CONSTANTS Task, NoTask

VARIABLES
  owner,   \* the task that has the semaphore, or NoTask
  want     \* the tasks inside downSemaphore()

vars == <<owner, want>>

TypeOK == owner \in Task \cup {NoTask} /\ want \in SUBSET Task

Init == owner = NoTask /\ want = {}

\* downSemaphore() finds the semaphore taken.
Request(t) ==
  /\ t \notin want /\ owner \notin {t, NoTask}
  /\ want' = want \cup {t}
  /\ UNCHANGED owner

\* The count of another task's attempt is still out: wait although it is free.
Collide(t) ==
  /\ t \notin want /\ owner = NoTask /\ want # {}
  /\ want' = want \cup {t}
  /\ UNCHANGED owner

\* At once, or after waiting.
Acquire(t) ==
  /\ owner = NoTask
  /\ owner' = t
  /\ want' = want \ {t}

\* upSemaphore().
Release(t) ==
  /\ owner = t
  /\ owner' = NoTask
  /\ UNCHANGED want

Next == \E t \in Task : Request(t) \/ Collide(t) \/ Acquire(t) \/ Release(t)

Spec == Init /\ [][Next]_vars

\* A semaphore that is free and wanted does not stay so.
FairSpec == Spec /\ WF_vars(\E t \in want : Acquire(t))

=============================================================================
