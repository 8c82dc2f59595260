----------------------------- MODULE TaskProofs -----------------------------
(***************************************************************************)
(* What holds of parents and children for any tasks, with any of them      *)
(* killed or closing the devfs directory; and of signals for any tasks,    *)
(* senders, signals and handlers.                                          *)
(*                                                                         *)
(* A step of Signals changes one task, so that its invariant is one of     *)
(* each task's record.  HandlersNest alone is not inductive: when a        *)
(* handler returns, the mask that comes back must still block the handlers *)
(* below it, so that the masks saved in the frames count too.              *)
(***************************************************************************)
EXTENDS TaskFamily, Signals, SequenceTheorems, FiniteSetTheorems, TLAPS

-----------------------------------------------------------------------------
(* Parents and children: the inductive invariant.                          *)

\* How the place of a task, its state and its fields go together.
Places ==
  \A t \in Task :
    /\ state[t] = "None" => pc[t] = "out"
    /\ state[t] = "Zombie" => pc[t] = "dead"
    /\ pc[t] = "wait" => state[t] \in {"Running", "Interruptible"} /\ waiting[t]

\* A task on a list has the owner of the list as parent.
Listed ==
  \A c \in Task, p \in Task \cup {Idle} :
    c \in children[p] => parent[c] = p /\ state[c] # "None"

\* A living task is on the list of its parent.
Owned ==
  \A c \in Task : state[c] \notin {"None", "Zombie"} => c \in children[parent[c]]

\* Who frees a task has taken it off its list, and runs.
Reaping ==
  \A p \in Task : pc[p] = "reap" =>
    /\ state[p] = "Running"
    /\ who[p] \in Task /\ parent[who[p]] = p
    /\ state[who[p]] = "Zombie" /\ who[p] \notin children[p]

\* Tasks that are gone have no children.
Childless == \A t \in Task : pc[t] = "dead" \/ state[t] = "None" => children[t] = {}

\* Following the parents of living tasks one never comes back.
Acyclic ==
  \E r \in [Task -> Nat] :
    \A c \in Task : state[c] \notin {"None", "Zombie"} /\ parent[c] # Idle =>
      r[parent[c]] < r[c]

IndInv ==
  /\ TypeOK /\ Places /\ Listed /\ Owned /\ Reaping /\ Childless /\ Acyclic
  /\ NoSleepOnZombie

-----------------------------------------------------------------------------

LEMMA InitInv == Init => IndInv
<1> SUFFICES ASSUME Init PROVE IndInv
  OBVIOUS
<1> USE FamilyAssumption DEF Init
<1>1. TypeOK
  BY DEF TypeOK
<1>2. Places /\ Listed /\ Owned /\ Reaping /\ Childless
  BY DEF Places, Listed, Owned, Reaping, Childless
<1>3. Acyclic
  <2> DEFINE r == [t \in Task |-> 0]
  <2>1. r \in [Task -> Nat]
    OBVIOUS
  <2>2. \A c \in Task : parent[c] = Idle
    OBVIOUS
  <2> QED
    BY <2>1, <2>2 DEF Acyclic
<1>4. NoSleepOnZombie
  BY DEF NoSleepOnZombie
<1> QED
  BY <1>1, <1>2, <1>3, <1>4 DEF IndInv

\* A parent that is a task has not exited, and is not its own child.
LEMMA Parents ==
  ASSUME IndInv, NEW t \in Task, state[t] \notin {"None", "Zombie"}
  PROVE  /\ t \in children[parent[t]]
         /\ parent[t] # t
         /\ parent[t] \in Task =>
              state[parent[t]] \notin {"None", "Zombie"} /\ pc[parent[t]] # "dead"
         /\ \A c \in children[t] : c # t /\ c # parent[t]
<1> USE FamilyAssumption DEF IndInv, TypeOK
<1>1. t \in children[parent[t]]
  BY DEF Owned
<1>2. PICK r \in [Task -> Nat] :
        \A c \in Task : state[c] \notin {"None", "Zombie"} /\ parent[c] # Idle =>
          r[parent[c]] < r[c]
  BY DEF Acyclic
<1>3. parent[t] # t
  BY <1>2
<1>4. parent[t] \in Task =>
        state[parent[t]] \notin {"None", "Zombie"} /\ pc[parent[t]] # "dead"
  BY <1>1 DEF Childless, Places
<1>5. \A c \in children[t] : c \in Task /\ parent[c] = t /\ state[c] # "None"
  BY DEF Listed
<1>6. \A c \in children[t] : c # t /\ c # parent[t]
  <2> SUFFICES ASSUME NEW c \in children[t] PROVE c # t /\ c # parent[t]
    OBVIOUS
  <2>1. CASE state[c] = "Zombie"
    BY <1>4, <2>1
  <2>2. CASE state[c] # "Zombie"
    <3>1. r[t] < r[c] /\ r[t] \in Nat /\ r[c] \in Nat
      BY <1>2, <1>5, <2>2
    <3>2. parent[t] \in Task => r[parent[t]] < r[t]
      BY <1>2
    <3> QED
      BY <3>1, <3>2
  <2> QED
    BY <2>1, <2>2
<1> QED
  BY <1>1, <1>3, <1>4, <1>6

-----------------------------------------------------------------------------
(* The steps, one lemma for each part of doWaitPID() and doExit().         *)

LEMMA FindZombieInv ==
  ASSUME IndInv, NEW t \in Task, state[t] = "Running", pc[t] \in {"out", "wait"},
         NEW w \in Task \cup {AnyChild}, FindZombie(t, w),
         UNCHANGED <<parent, pending, holder>>
  PROVE  IndInv'
<1> USE FamilyAssumption DEF IndInv
<1>1. PICK c \in Task :
        /\ c \in children[t] /\ state[c] = "Zombie"
        /\ waiting' = [waiting EXCEPT ![t] = FALSE]
        /\ children' = [children EXCEPT ![t] = @ \ {c}]
        /\ who' = [who EXCEPT ![t] = c]
        /\ pc' = [pc EXCEPT ![t] = "reap"]
        /\ state' = state
  BY DEF FindZombie, Zombies, Wanted, TypeOK
<1>2. TypeOK'
  BY <1>1 DEF TypeOK
<1>3. Places'
  BY <1>1 DEF TypeOK, Places
<1>4. Listed' /\ Childless'
  BY <1>1 DEF TypeOK, Listed, Childless
<1>5. parent[c] = t
  BY <1>1 DEF Listed
<1>6. Owned'
  BY <1>1, <1>5 DEF TypeOK, Owned
<1>7. Reaping'
  BY <1>1, <1>5 DEF TypeOK, Reaping
<1>8. Acyclic'
  BY <1>1 DEF Acyclic
<1>9. NoSleepOnZombie'
  BY <1>1 DEF TypeOK, NoSleepOnZombie, Zombies, Wanted
<1> QED
  BY <1>2, <1>3, <1>4, <1>6, <1>7, <1>8, <1>9

LEMMA GiveUpInv ==
  ASSUME IndInv, NEW t \in Task, state[t] = "Running", pc[t] \in {"out", "wait"},
         NEW w \in Task \cup {AnyChild}, NEW nowait \in BOOLEAN, GiveUp(t, w, nowait),
         UNCHANGED <<parent, pending, holder>>
  PROVE  IndInv'
<1> USE FamilyAssumption DEF IndInv
<1>1. /\ waiting' = [waiting EXCEPT ![t] = FALSE]
      /\ pc' = [pc EXCEPT ![t] = "out"]
      /\ who' = [who EXCEPT ![t] = AnyChild]
      /\ state' = state /\ children' = children
  BY DEF GiveUp
<1>2. TypeOK' /\ Places' /\ Listed' /\ Childless'
  BY <1>1 DEF TypeOK, Places, Listed, Childless
<1>3. Owned' /\ Reaping'
  BY <1>1 DEF TypeOK, Owned, Reaping
<1>4. Acyclic'
  BY <1>1 DEF Acyclic
<1>5. NoSleepOnZombie'
  BY <1>1 DEF TypeOK, NoSleepOnZombie, Zombies, Wanted
<1> QED
  BY <1>2, <1>3, <1>4, <1>5

LEMMA SleepForChildInv ==
  ASSUME IndInv, NEW t \in Task, state[t] = "Running", pc[t] \in {"out", "wait"},
         NEW w \in Task \cup {AnyChild}, SleepForChild(t, w),
         UNCHANGED <<parent, pending, holder>>
  PROVE  IndInv'
<1> USE FamilyAssumption DEF IndInv
<1>1. /\ waiting' = [waiting EXCEPT ![t] = TRUE]
      /\ state' = [state EXCEPT ![t] = IF pending[t] THEN "Running" ELSE "Interruptible"]
      /\ pc' = [pc EXCEPT ![t] = "wait"]
      /\ who' = [who EXCEPT ![t] = w]
      /\ children' = children
  BY DEF SleepForChild
<1>2. TypeOK'
  BY <1>1 DEF TypeOK
<1>3. Places' /\ Listed' /\ Childless'
  BY <1>1 DEF TypeOK, Places, Listed, Childless
<1>4. Owned' /\ Reaping'
  BY <1>1 DEF TypeOK, Owned, Reaping
<1>5. Acyclic'
  BY <1>1 DEF TypeOK, Acyclic
<1>6. NoSleepOnZombie'
  <2> SUFFICES ASSUME NEW u \in Task, pc'[u] = "wait", state'[u] # "Running"
               PROVE  Zombies(u, who[u])' = {}
    BY DEF NoSleepOnZombie
  <2>1. CASE u = t
    BY <1>1, <2>1 DEF TypeOK, SleepForChild, Zombies, Wanted
  <2>2. CASE u # t
    BY <1>1, <2>2 DEF TypeOK, NoSleepOnZombie, Zombies, Wanted
  <2> QED
    BY <2>1, <2>2
<1> QED
  BY <1>2, <1>3, <1>4, <1>5, <1>6

LEMMA LeaveFamilyInv ==
  ASSUME IndInv, NEW t \in Task, state[t] = "Running", pc[t] \in {"out", "close"},
         NEW s \in {state, [state EXCEPT ![t] = "Zombie"]}, LeaveFamily(t, s)
  PROVE  IndInv'
<1> USE FamilyAssumption DEF IndInv
<1> DEFINE p == parent[t]
<1>1. /\ children' = [children EXCEPT ![p] = @ \cup children[t], ![t] = {}]
      /\ parent' = [c \in Task |-> IF c \in children[t] THEN p ELSE parent[c]]
      /\ pc' = [pc EXCEPT ![t] = "dead"]
      /\ waiting' = waiting /\ pending' = pending /\ who' = who /\ holder' = holder
  BY DEF LeaveFamily
<1>2. /\ t \in children[p] /\ p # t /\ p \in Task \cup {Idle}
      /\ p \in Task => state[p] \notin {"None", "Zombie"} /\ pc[p] # "dead"
      /\ \A c \in children[t] : c \in Task /\ c # t /\ c # p
  BY Parents DEF TypeOK
<1>3. /\ state' \in [Task -> {"None", "Running", "Interruptible", "Uninterruptible", "Zombie"}]
      /\ \A u \in Task : u # t /\ u # p => state'[u] = state[u]
      /\ state'[t] = s[t] /\ s[t] \in {"Running", "Zombie"}
      /\ p \in Task => state'[p] = state[p] \/ state'[p] = "Running"
      /\ p \in Task /\ waiting[p] => state'[p] = "Running"
  BY <1>2 DEF LeaveFamily, WakeUp, TypeOK, Places
<1>4. /\ \A q \in Task \cup {Idle} : q # t /\ q # p => children'[q] = children[q]
      /\ children'[t] = {} /\ children'[p] = children[p] \cup children[t]
      /\ children' \in [Task \cup {Idle} -> SUBSET Task]
  BY <1>1, <1>2 DEF TypeOK
<1>5. /\ parent' \in [Task -> Task \cup {Idle}]
      /\ \A c \in Task : c \in children[t] => parent'[c] = p /\ parent[c] = t
      /\ \A c \in Task : c \notin children[t] => parent'[c] = parent[c]
      /\ parent'[t] = p
  BY <1>1, <1>2 DEF TypeOK, Listed
<1>6. TypeOK'
  BY <1>1, <1>3, <1>4, <1>5 DEF TypeOK
<1>7. Places'
  BY <1>1, <1>2, <1>3 DEF TypeOK, Places
<1>8. Listed'
  BY <1>2, <1>3, <1>4, <1>5 DEF Listed, TypeOK
<1>9. Childless'
  BY <1>1, <1>2, <1>3, <1>4 DEF Childless, TypeOK
<1>10. Reaping'
  <2> SUFFICES ASSUME NEW q \in Task, pc'[q] = "reap"
               PROVE  /\ state'[q] = "Running"
                      /\ who[q] \in Task /\ parent'[who[q]] = q
                      /\ state'[who[q]] = "Zombie" /\ who[q] \notin children'[q]
    BY <1>1 DEF Reaping
  <2>1. q # t /\ pc[q] = "reap"
    BY <1>1 DEF TypeOK
  <2>2. /\ state[q] = "Running" /\ who[q] \in Task /\ parent[who[q]] = q
        /\ state[who[q]] = "Zombie" /\ who[q] \notin children[q]
    BY <2>1 DEF Reaping
  <2>3. who[q] # t /\ who[q] # p /\ who[q] \notin children[t]
    BY <1>2, <1>5, <2>1, <2>2
  <2> QED
    BY <1>2, <1>3, <1>4, <1>5, <2>1, <2>2, <2>3
<1>11. Owned'
  <2> SUFFICES ASSUME NEW c \in Task, state'[c] \notin {"None", "Zombie"}
               PROVE  c \in children'[parent'[c]]
    BY <1>1 DEF Owned
  <2>1. state[c] \notin {"None", "Zombie"}
    BY <1>2, <1>3
  <2>2. CASE c \in children[t]
    BY <1>4, <1>5, <2>2
  <2>3. CASE c \notin children[t]
    <3>1. parent[c] # t
      BY <2>1, <2>3 DEF Owned
    <3> QED
      BY <1>1, <1>2, <1>4, <1>5, <2>1, <2>3, <3>1 DEF Owned, TypeOK
  <2> QED
    BY <2>2, <2>3
<1>12. Acyclic'
  <2>1. PICK r \in [Task -> Nat] :
          \A c \in Task : state[c] \notin {"None", "Zombie"} /\ parent[c] # Idle =>
            r[parent[c]] < r[c]
    BY DEF Acyclic
  <2>2. ASSUME NEW c \in Task, state'[c] \notin {"None", "Zombie"}, parent'[c] # Idle
        PROVE  r[parent'[c]] < r[c]
    <3>1. state[c] \notin {"None", "Zombie"}
      BY <1>2, <1>3, <2>2
    <3>2. CASE c \notin children[t]
      BY <1>5, <2>1, <2>2, <3>1, <3>2
    <3>3. CASE c \in children[t]
      <4>1. r[t] < r[c] /\ r[p] < r[t] /\ parent'[c] = p /\ p \in Task
        BY <1>2, <1>5, <2>1, <2>2, <3>1, <3>3
      <4>2. r[t] \in Nat /\ r[p] \in Nat /\ r[c] \in Nat
        BY <2>1, <4>1
      <4> QED
        BY <4>1, <4>2
    <3> QED
      BY <3>2, <3>3
  <2> QED
    BY <2>2 DEF Acyclic
<1>13. NoSleepOnZombie'
  <2> SUFFICES ASSUME NEW u \in Task, pc'[u] = "wait", state'[u] # "Running"
               PROVE  Zombies(u, who[u])' = {}
    BY DEF NoSleepOnZombie
  <2>1. u # t /\ pc[u] = "wait" /\ waiting[u]
    BY <1>1 DEF TypeOK, Places
  <2>2. u # p /\ state'[u] = state[u] /\ children'[u] = children[u]
    BY <1>3, <1>4, <2>1
  <2>3. Zombies(u, who[u]) = {}
    BY <2>1, <2>2 DEF NoSleepOnZombie
  <2>4. t \notin children[u]
    BY <2>1, <2>2 DEF Listed
  <2>5. \A c \in children[u] : state'[c] = "Zombie" => state[c] = "Zombie"
    BY <1>3, <2>4 DEF TypeOK
  <2> QED
    BY <1>1, <2>2, <2>3, <2>5 DEF Zombies, Wanted, TypeOK
<1> QED
  BY <1>6, <1>7, <1>8, <1>9, <1>10, <1>11, <1>12, <1>13

LEMMA ForkInv ==
  ASSUME IndInv, NEW t \in Task, NEW c \in Task, Fork(t, c)
  PROVE  IndInv'
<1> USE FamilyAssumption DEF IndInv, At
<1>1. /\ state[t] = "Running" /\ pc[t] = "out" /\ state[c] = "None" /\ c # t
      /\ pc[c] = "out"
      /\ state' = [state EXCEPT ![c] = "Running"]
      /\ parent' = [parent EXCEPT ![c] = t]
      /\ children' = [children EXCEPT ![t] = @ \cup {c}]
      /\ waiting' = waiting /\ pending' = pending /\ pc' = pc /\ who' = who
      /\ holder' = holder
  BY DEF Fork, Places
<1>2. /\ children[c] = {}
      /\ \A p \in Task \cup {Idle} : c \notin children[p]
      /\ \A p \in Task : pc[p] = "reap" => who[p] # c
  BY <1>1 DEF Childless, Listed, Reaping
<1>3. TypeOK' /\ Places'
  BY <1>1 DEF TypeOK, Places
<1>4. Listed' /\ Childless'
  BY <1>1, <1>2 DEF TypeOK, Listed, Childless
<1>5. Owned'
  BY <1>1, <1>2 DEF TypeOK, Owned
<1>6. Reaping'
  BY <1>1, <1>2 DEF TypeOK, Reaping
<1>7. Acyclic'
  <2>1. PICK r \in [Task -> Nat] :
          \A x \in Task : state[x] \notin {"None", "Zombie"} /\ parent[x] # Idle =>
            r[parent[x]] < r[x]
    BY DEF Acyclic
  <2> DEFINE q == [r EXCEPT ![c] = r[t] + 1]
  <2>2. q \in [Task -> Nat] /\ q[c] = r[t] + 1 /\ \A x \in Task : x # c => q[x] = r[x]
    BY <2>1
  <2> HIDE DEF q
  <2>3. ASSUME NEW x \in Task, state'[x] \notin {"None", "Zombie"}, parent'[x] # Idle
        PROVE  q[parent'[x]] < q[x]
    <3>1. CASE x = c
      BY <1>1, <2>1, <2>2, <3>1 DEF TypeOK
    <3>2. CASE x # c
      <4>1. state[x] \notin {"None", "Zombie"} /\ parent'[x] = parent[x] /\ parent[x] \in Task
        BY <1>1, <2>3, <3>2 DEF TypeOK
      <4>2. parent[x] # c
        BY <1>1, <1>2, <4>1 DEF Owned
      <4> QED
        BY <2>1, <2>2, <2>3, <3>2, <4>1, <4>2
    <3> QED
      BY <3>1, <3>2
  <2> QED
    BY <2>2, <2>3 DEF Acyclic
<1>8. NoSleepOnZombie'
  BY <1>1 DEF TypeOK, NoSleepOnZombie, Zombies, Wanted
<1> QED
  BY <1>3, <1>4, <1>5, <1>6, <1>7, <1>8

LEMMA ReapInv ==
  ASSUME IndInv, NEW t \in Task, Reap(t)
  PROVE  IndInv'
<1> USE FamilyAssumption DEF IndInv, At
<1> DEFINE c == who[t]
<1>1. /\ state[t] = "Running" /\ pc[t] = "reap"
      /\ c \in Task /\ c # t /\ state[c] = "Zombie" /\ parent[c] = t /\ c \notin children[t]
      /\ pc[c] = "dead" /\ children[c] = {}
      /\ state' = [state EXCEPT ![c] = "None"]
      /\ parent' = [parent EXCEPT ![c] = Idle]
      /\ waiting' = [waiting EXCEPT ![c] = FALSE]
      /\ pending' = [pending EXCEPT ![c] = FALSE]
      /\ pc' = [pc EXCEPT ![t] = "out", ![c] = "out"]
      /\ who' = [who EXCEPT ![t] = AnyChild, ![c] = AnyChild]
      /\ children' = children /\ holder' = holder
  BY DEF Reap, Reaping, Places, Childless
<1>2. \A p \in Task \cup {Idle} : c \notin children[p]
  BY <1>1 DEF Listed
<1>3. TypeOK'
  BY <1>1 DEF TypeOK
<1>4. Places' /\ Childless'
  BY <1>1 DEF TypeOK, Places, Childless
<1>5. Listed'
  BY <1>1, <1>2 DEF TypeOK, Listed
<1>6. Owned'
  BY <1>1 DEF TypeOK, Owned
<1>7. Reaping'
  BY <1>1 DEF TypeOK, Reaping
<1>8. Acyclic'
  <2>1. \A x \in Task : state'[x] \notin {"None", "Zombie"} =>
          state[x] \notin {"None", "Zombie"} /\ parent'[x] = parent[x]
    BY <1>1 DEF TypeOK
  <2> QED
    BY <2>1 DEF Acyclic
<1>9. NoSleepOnZombie'
  BY <1>1 DEF TypeOK, NoSleepOnZombie, Zombies, Wanted
<1> QED
  BY <1>3, <1>4, <1>5, <1>6, <1>7, <1>8, <1>9

LEMMA ExitBlocksInv ==
  ASSUME IndInv, NEW t \in Task, ExitBlocks(t)
  PROVE  IndInv'
<1> USE FamilyAssumption DEF IndInv, At
<1>1. TypeOK' /\ Places' /\ Listed' /\ Childless'
  BY DEF ExitBlocks, TypeOK, Places, Listed, Childless
<1>2. Owned' /\ Reaping'
  BY DEF ExitBlocks, TypeOK, Owned, Reaping
<1>3. Acyclic'
  BY DEF ExitBlocks, TypeOK, Acyclic
<1>4. NoSleepOnZombie'
  BY DEF ExitBlocks, TypeOK, NoSleepOnZombie, Zombies, Wanted
<1> QED
  BY <1>1, <1>2, <1>3, <1>4

\* Steps that change nothing of the family: what a sleeping or running task
\* does in a driver, with the directory, or with its signals.
LEMMA OtherStepInv ==
  ASSUME IndInv, NEW t \in Task,
         \/ WaitInterrupted(t) \/ ReapFaults(t) \/ TakeDirectory(t) \/ LeaveDirectory(t)
         \/ DriverSleeps(t) \/ DeviceAnswers(t) \/ DriverReturns(t)
         \/ Kill(t) \/ HandleSignal(t)
  PROVE  IndInv'
<1> USE FamilyAssumption DEF IndInv, At
<1>1. /\ children' = children /\ parent' = parent /\ waiting' = waiting
      /\ pending' \in [Task -> BOOLEAN] /\ holder' \in Task \cup {Idle}
  BY DEF TypeOK, WaitInterrupted, ReapFaults, TakeDirectory, LeaveDirectory, DriverSleeps,
    DeviceAnswers, DriverReturns, Kill, HandleSignal
<1>2. \/ /\ state' = state /\ who' = [who EXCEPT ![t] = AnyChild]
         /\ pc[t] \in {"wait", "reap"} /\ pc' = [pc EXCEPT ![t] = "out"]
      \/ state' = state /\ pc' = pc /\ who' = who
      \/ /\ state[t] = "Running" /\ pc[t] = "out" /\ who' = who
         /\ state' = [state EXCEPT ![t] = "Uninterruptible"]
         /\ pc' = [pc EXCEPT ![t] = "sleep"]
      \/ /\ state[t] = "Running" /\ pc[t] = "sleep" /\ who' = who /\ state' = state
         /\ pc' = [pc EXCEPT ![t] = "out"]
      \/ \E c \in Task : /\ state[c] \in {"Interruptible", "Uninterruptible"}
                        /\ state' = [state EXCEPT ![c] = "Running"]
                        /\ pc' = pc /\ who' = who
  BY DEF TypeOK, WaitInterrupted, ReapFaults, TakeDirectory, LeaveDirectory, DriverSleeps,
    DeviceAnswers, DriverReturns, Kill, HandleSignal, WakeUp
<1>3. TypeOK'
  BY <1>1, <1>2 DEF TypeOK
<1>4. Places'
  BY <1>1, <1>2 DEF TypeOK, Places
<1>5. Listed' /\ Childless'
  BY <1>1, <1>2 DEF TypeOK, Listed, Childless
<1>6. Owned'
  BY <1>1, <1>2 DEF TypeOK, Owned
<1>7. Reaping'
  BY <1>1, <1>2 DEF TypeOK, Reaping
<1>8. Acyclic'
  <2>1. \A x \in Task :
          state'[x] \notin {"None", "Zombie"} => state[x] \notin {"None", "Zombie"}
    BY <1>2 DEF TypeOK
  <2> QED
    BY <1>1, <2>1 DEF Acyclic
<1>9. NoSleepOnZombie'
  BY <1>1, <1>2 DEF TypeOK, NoSleepOnZombie, Zombies, Wanted
<1> QED
  BY <1>3, <1>4, <1>5, <1>6, <1>7, <1>8, <1>9

LEMMA StepInv == IndInv /\ [Next]_vars => IndInv'
<1> SUFFICES ASSUME IndInv, [Next]_vars PROVE IndInv'
  OBVIOUS
<1>1. ASSUME NEW t \in Task, NEW c \in Task, Fork(t, c) PROVE IndInv'
  BY <1>1, ForkInv
<1>2. ASSUME NEW t \in Task, NEW w \in Task \cup {AnyChild}, NEW nowait \in BOOLEAN,
             WaitPID(t, w, nowait)
      PROVE  IndInv'
  BY <1>2, FindZombieInv, GiveUpInv, SleepForChildInv DEF WaitPID, At
<1>3. ASSUME NEW t \in Task, Retry(t) PROVE IndInv'
  <2>1. who[t] \in Task \cup {AnyChild}
    BY DEF IndInv, TypeOK
  <2> QED
    BY <1>3, <2>1, FindZombieInv, GiveUpInv, SleepForChildInv DEF Retry, At
<1>4. ASSUME NEW t \in Task, Reap(t) PROVE IndInv'
  BY <1>4, ReapInv
<1>5. ASSUME NEW t \in Task, Exit(t) PROVE IndInv'
  BY <1>5, LeaveFamilyInv DEF Exit, At
<1>6. ASSUME NEW t \in Task, ExitBlocks(t) PROVE IndInv'
  BY <1>6, ExitBlocksInv
<1>7. ASSUME NEW t \in Task, ExitGoesOn(t) PROVE IndInv'
  BY <1>7, LeaveFamilyInv DEF ExitGoesOn, At
<1>8. ASSUME NEW t \in Task,
             \/ WaitInterrupted(t) \/ ReapFaults(t) \/ TakeDirectory(t) \/ LeaveDirectory(t)
             \/ DriverSleeps(t) \/ DeviceAnswers(t) \/ DriverReturns(t)
             \/ Kill(t) \/ HandleSignal(t)
      PROVE  IndInv'
  BY <1>8, OtherStepInv
<1>9. CASE UNCHANGED vars
  BY <1>9 DEF vars, IndInv, TypeOK, Places, Listed, Owned, Reaping, Childless, Acyclic,
    NoSleepOnZombie, Zombies, Wanted
<1> QED
  BY <1>1, <1>2, <1>3, <1>4, <1>5, <1>6, <1>7, <1>8, <1>9, FamilyAssumption
    DEF Next, TaskStep

\* The invariant holds of every run.
THEOREM IndInvHolds == Spec => []IndInv
BY InitInv, StepInv, PTL DEF Spec

-----------------------------------------------------------------------------
(* The properties.                                                         *)

\* Every variable keeps its type.
THEOREM TypeCorrect == Spec => []TypeOK
<1>1. IndInv => TypeOK
  BY DEF IndInv
<1> QED
  BY <1>1, IndInvHolds, PTL

\* The lists of children and the parent pointers agree, and who has exited has
\* left its children to its parent, also when doExit() blocks.
THEOREM FamilyIsSound == Spec => []FamilySound
<1>1. IndInv => FamilySound
  BY DEF IndInv, FamilySound, Listed, Owned, Childless
<1> QED
  BY <1>1, IndInvHolds, PTL

\* No task is freed by two parents, or while it may run.
THEOREM TasksAreReapedOnce == Spec => []ReapedOnce
<1>1. IndInv => ReapedOnce
  BY DEF IndInv, ReapedOnce, Reaping
<1> QED
  BY <1>1, IndInvHolds, PTL

\* doWaitPID() never sleeps on a child that has exited: it looks at the
\* children and sets waiting under the lock under which a child leaves.
THEOREM NobodySleepsOnAZombie == Spec => []NoSleepOnZombie
<1>1. IndInv => NoSleepOnZombie
  BY DEF IndInv
<1> QED
  BY <1>1, IndInvHolds, PTL

-----------------------------------------------------------------------------
(* What holds of the tasks that do not meet one of the defects.            *)

\* A task that has no file whose close function sleeps stays a zombie.
THEOREM ExitsAreFinal == Spec => []ExitIsFinal
<1> DEFINE Inv == ExitIsFinal /\ \A t \in Task \ DevReader : pc[t] # "close"
<1>1. Init => Inv
  BY DEF Init, ExitIsFinal
<1>2. IndInv /\ Inv /\ [Next]_vars => Inv'
  <2> SUFFICES ASSUME IndInv, Inv, [Next]_vars PROVE Inv'
    OBVIOUS
  <2> USE FamilyAssumption DEF IndInv, TypeOK, ExitIsFinal, At
  <2>1. ASSUME NEW t \in Task, NEW c \in Task, Fork(t, c) PROVE Inv'
    BY <2>1 DEF Fork
  <2>2. ASSUME NEW t \in Task, NEW w \in Task \cup {AnyChild}, NEW nowait \in BOOLEAN,
               WaitPID(t, w, nowait)
        PROVE  Inv'
    BY <2>2 DEF WaitPID, FindZombie, GiveUp, SleepForChild
  <2>3. ASSUME NEW t \in Task, Retry(t) PROVE Inv'
    BY <2>3 DEF Retry, FindZombie, GiveUp, SleepForChild
  <2>4. ASSUME NEW t \in Task, Reap(t) PROVE Inv'
    BY <2>4 DEF Reap, Reaping
  <2>5. ASSUME NEW t \in Task, Exit(t) PROVE Inv'
    BY <2>5 DEF Exit, LeaveFamily, WakeUp
  <2>6. ASSUME NEW t \in Task, ExitBlocks(t) \/ ExitGoesOn(t) PROVE Inv'
    BY <2>6 DEF ExitBlocks, ExitGoesOn, LeaveFamily, WakeUp
  <2>7. ASSUME NEW t \in Task,
               \/ WaitInterrupted(t) \/ ReapFaults(t) \/ TakeDirectory(t) \/ LeaveDirectory(t)
               \/ DriverSleeps(t) \/ DeviceAnswers(t) \/ DriverReturns(t)
               \/ Kill(t) \/ HandleSignal(t)
        PROVE  Inv'
    BY <2>7 DEF WaitInterrupted, ReapFaults, TakeDirectory, LeaveDirectory, DriverSleeps,
      DeviceAnswers, DriverReturns, Kill, HandleSignal, WakeUp
  <2>8. CASE UNCHANGED vars
    BY <2>8 DEF vars
  <2> QED
    BY <2>1, <2>2, <2>3, <2>4, <2>5, <2>6, <2>7, <2>8 DEF Next, TaskStep
<1>3. Inv => ExitIsFinal
  OBVIOUS
<1> QED
  BY <1>1, <1>2, <1>3, IndInvHolds, PTL DEF Spec

\* Of a task without signals waiting says that it waits, and an exit does not
\* disturb it when it sleeps elsewhere.
THEOREM ExitsWakeWaiters == Spec => ExitWakesWaiters
<1> DEFINE Inv == \A t \in Task \ Signalled :
                    ~pending[t] /\ (waiting[t] => pc[t] = "wait")
           Quiet == \A t \in Task, p \in Task \ Signalled :
                      pc'[t] = "dead" /\ pc[t] # "dead"
                      /\ state'[p] = "Running" /\ state[p] # "Running"
                        => pc[p] = "wait"
<1>1. Init => Inv
  BY DEF Init
<1>2. ASSUME IndInv, Inv, [Next]_vars
      PROVE  Inv' /\ Quiet
  <2> USE <1>2, FamilyAssumption DEF IndInv, TypeOK, At
  <2>1. ASSUME NEW t \in Task, NEW c \in Task, Fork(t, c) PROVE Inv' /\ Quiet
    BY <2>1 DEF Fork
  <2>2. ASSUME NEW t \in Task, NEW w \in Task \cup {AnyChild}, NEW nowait \in BOOLEAN,
               WaitPID(t, w, nowait)
        PROVE  Inv' /\ Quiet
    BY <2>2 DEF WaitPID, FindZombie, GiveUp, SleepForChild
  <2>3. ASSUME NEW t \in Task, Retry(t) PROVE Inv' /\ Quiet
    BY <2>3 DEF Retry, FindZombie, GiveUp, SleepForChild
  <2>4. ASSUME NEW t \in Task, Reap(t) PROVE Inv' /\ Quiet
    BY <2>4 DEF Reap, Reaping, Places
  <2>5. ASSUME NEW t \in Task, Exit(t) \/ ExitGoesOn(t) PROVE Inv' /\ Quiet
    <3>1. Inv'
      BY <2>5 DEF Exit, ExitGoesOn, LeaveFamily
    <3>2. \A p \in Task : state'[p] = "Running" /\ state[p] # "Running" =>
            p = parent[t] /\ waiting[p]
      BY <2>5 DEF Exit, ExitGoesOn, LeaveFamily, WakeUp
    <3> QED
      BY <3>1, <3>2
  <2>6. ASSUME NEW t \in Task, ExitBlocks(t) PROVE Inv' /\ Quiet
    BY <2>6 DEF ExitBlocks
  <2>7. ASSUME NEW t \in Task,
               \/ WaitInterrupted(t) \/ ReapFaults(t) \/ TakeDirectory(t) \/ LeaveDirectory(t)
               \/ DriverSleeps(t) \/ DeviceAnswers(t) \/ DriverReturns(t)
               \/ HandleSignal(t)
        PROVE  Inv' /\ Quiet
    BY <2>7 DEF WaitInterrupted, ReapFaults, TakeDirectory, LeaveDirectory, DriverSleeps,
      DeviceAnswers, DriverReturns, HandleSignal
  <2>9. ASSUME NEW t \in Signalled, Kill(t) PROVE Inv' /\ Quiet
    BY <2>9 DEF Kill
  <2>8. CASE UNCHANGED vars
    BY <2>8 DEF vars
  <2> QED
    BY <2>1, <2>2, <2>3, <2>4, <2>5, <2>6, <2>7, <2>8, <2>9 DEF Next, TaskStep
<1> QED
  BY <1>1, <1>2, IndInvHolds, PTL DEF Spec, ExitWakesWaiters

\* No zombie is left on no list, except by a parent that gave doWaitPID() a bad
\* pointer.
THEOREM NoTasksLeak == Spec => []NoTaskLeaks
<1>1. Init => NoTaskLeaks
  BY FamilyAssumption DEF Init, NoTaskLeaks
<1>2. ASSUME IndInv, NoTaskLeaks, [Next]_vars
      PROVE  NoTaskLeaks'
  <2> USE <1>2, FamilyAssumption DEF IndInv, TypeOK, NoTaskLeaks, At
  <2>1. ASSUME NEW t \in Task, NEW c \in Task, Fork(t, c) PROVE NoTaskLeaks'
    BY <2>1 DEF Fork
  <2>2. ASSUME NEW t \in Task, NEW w \in Task \cup {AnyChild}, FindZombie(t, w),
               state[t] = "Running", pc[t] \in {"out", "wait"}, UNCHANGED parent
        PROVE  NoTaskLeaks'
    BY <2>2 DEF FindZombie, Zombies, Wanted, Listed
  <2>3. ASSUME NEW t \in Task, NEW w \in Task \cup {AnyChild}, NEW nowait \in BOOLEAN,
               GiveUp(t, w, nowait) \/ SleepForChild(t, w),
               state[t] = "Running", pc[t] \in {"out", "wait"}, UNCHANGED parent
        PROVE  NoTaskLeaks'
    BY <2>3 DEF GiveUp, SleepForChild
  <2>4. ASSUME NEW t \in Task, NEW w \in Task \cup {AnyChild}, NEW nowait \in BOOLEAN,
               WaitPID(t, w, nowait)
        PROVE  NoTaskLeaks'
    BY <2>2, <2>3, <2>4 DEF WaitPID
  <2>5. ASSUME NEW t \in Task, Retry(t) PROVE NoTaskLeaks'
    BY <2>2, <2>3, <2>5 DEF Retry
  <2>6. ASSUME NEW t \in Task, Reap(t) PROVE NoTaskLeaks'
    BY <2>6 DEF Reap, Reaping, Places
  <2>7. ASSUME NEW t \in Task, Exit(t) \/ ExitGoesOn(t) PROVE NoTaskLeaks'
    <3> DEFINE p == parent[t]
    <3>1. /\ children' = [children EXCEPT ![p] = @ \cup children[t], ![t] = {}]
          /\ parent' = [c \in Task |-> IF c \in children[t] THEN p ELSE parent[c]]
          /\ pc' = [pc EXCEPT ![t] = "dead"] /\ who' = who
          /\ \A c \in Task : state'[c] = "Zombie" => state[c] = "Zombie" \/ c = t
          /\ state[t] = "Running" /\ pc[t] \in {"out", "close"}
      BY <2>7 DEF Exit, ExitGoesOn, LeaveFamily, WakeUp
    <3>2. t \in children[p] /\ p # t /\ p \in Task \cup {Idle}
          /\ \A c \in children[t] : c # t /\ c # p
      BY <3>1, Parents
    <3>3. ASSUME NEW c \in Task, state'[c] = "Zombie"
          PROVE  \/ c \in children'[parent'[c]]
                 \/ \E q \in Task : pc'[q] = "reap" /\ who'[q] = c
                 \/ parent'[c] \in Careless
      <4>1. CASE c = t
        BY <3>1, <3>2, <4>1
      <4>2. CASE c # t /\ c \in children[t]
        BY <3>1, <3>2, <4>2
      <4>3. CASE c # t /\ c \notin children[t]
        <5>1. state[c] = "Zombie" /\ parent'[c] = parent[c]
          BY <3>1, <3>3, <4>3
        <5>2. CASE c \in children[parent[c]]
          BY <3>1, <3>2, <4>3, <5>1, <5>2
        <5>3. CASE \E q \in Task : pc[q] = "reap" /\ who[q] = c
          BY <3>1, <5>3
        <5>4. CASE parent[c] \in Careless
          BY <5>1, <5>4
        <5> QED
          BY <5>1, <5>2, <5>3, <5>4
      <4> QED
        BY <4>1, <4>2, <4>3
    <3> QED
      BY <3>3
  <2>8. ASSUME NEW t \in Task, ExitBlocks(t) PROVE NoTaskLeaks'
    BY <2>8 DEF ExitBlocks
  <2>11. ASSUME NEW t \in Careless, ReapFaults(t) PROVE NoTaskLeaks'
    BY <2>11 DEF ReapFaults, Reaping
  <2>9. ASSUME NEW t \in Task,
               \/ WaitInterrupted(t) \/ TakeDirectory(t) \/ LeaveDirectory(t)
               \/ DriverSleeps(t) \/ DeviceAnswers(t) \/ DriverReturns(t)
               \/ Kill(t) \/ HandleSignal(t)
        PROVE  NoTaskLeaks'
    BY <2>9 DEF WaitInterrupted, TakeDirectory, LeaveDirectory, DriverSleeps,
      DeviceAnswers, DriverReturns, Kill, HandleSignal, WakeUp
  <2>10. CASE UNCHANGED vars
    BY <2>10 DEF vars
  <2> QED
    BY <2>1, <2>4, <2>5, <2>6, <2>7, <2>8, <2>9, <2>10, <2>11 DEF Next, TaskStep
<1> QED
  BY <1>1, <1>2, IndInvHolds, PTL DEF Spec

-----------------------------------------------------------------------------
(* Signals: the inductive invariant.                                       *)

\* What interrupted the i-th frame of x, and what the stack looks like.
Over(x, i) == IF i = Len(x.frames) THEN x.rip ELSE x.frames[i + 1].rip
BlockedBy(h) == Mask[h] \ {SIGKILL, SIGSTOP}

Nest(x) ==
  /\ IF x.frames = <<>> THEN x.rip = 0 ELSE x.frames[1].rip = 0
  /\ \A i \in DOMAIN x.frames : Over(x, i) # 0 /\ BlockedBy(Over(x, i)) \subseteq x.blocked
  /\ \A i, j \in DOMAIN x.frames : Over(x, i) = Over(x, j) => i = j
  /\ \A i, j \in DOMAIN x.frames : i < j => BlockedBy(Over(x, i)) \subseteq x.frames[j].blocked

Good(x) ==
  /\ x \in TaskType
  /\ Nest(x)
  /\ x.state = "Interruptible" => x.pc = "blocked"

\* A task that sleeps although it should not.
SleepsOn(x) == x.state = "Interruptible" /\ SignalPending(x)

SignalsInv ==
  /\ task \in [TaskPage -> TaskType] /\ \A t \in TaskPage : Good(task[t])
  /\ kill \in [Sender -> KillCall] /\ panic \in BOOLEAN
  /\ NoSignalSleptOn

-----------------------------------------------------------------------------
(* Sequences of frames.                                                    *)

\* Putting a frame on top of the stack.
LEMMA PushFrame ==
  ASSUME NEW q \in Seq(Content), NEW c \in Content
  PROVE  /\ Append(q, c) \in Seq(Content) /\ Append(q, c) # <<>>
         /\ Len(Append(q, c)) = Len(q) + 1 /\ Len(q) \in Nat
         /\ DOMAIN Append(q, c) = 1..(Len(q) + 1) /\ DOMAIN q = 1..Len(q)
         /\ \A i \in 1..Len(q) : Append(q, c)[i] = q[i]
         /\ Append(q, c)[Len(q) + 1] = c
         /\ q = <<>> <=> Len(q) = 0
OBVIOUS

\* Taking the top frame off.
LEMMA PopFrame ==
  ASSUME NEW q \in Seq(Content), q # <<>>
  PROVE  /\ SubSeq(q, 1, Len(q) - 1) \in Seq(Content)
         /\ Len(SubSeq(q, 1, Len(q) - 1)) = Len(q) - 1
         /\ DOMAIN SubSeq(q, 1, Len(q) - 1) = 1..(Len(q) - 1)
         /\ DOMAIN q = 1..Len(q) /\ Len(q) \in Nat /\ Len(q) >= 1
         /\ q[Len(q)] \in Content
         /\ \A i \in 1..(Len(q) - 1) : SubSeq(q, 1, Len(q) - 1)[i] = q[i]
         /\ SubSeq(q, 1, Len(q) - 1) = <<>> <=> Len(q) = 1
<1> DEFINE n == Len(q) - 1
           p == SubSeq(q, 1, n)
<1>1. Len(q) \in Nat /\ Len(q) >= 1 /\ DOMAIN q = 1..Len(q) /\ n \in Nat /\ n + 1 = Len(q)
  OBVIOUS
<1>2. \A i \in 1..n : q[i] \in Content
  BY <1>1
<1> HIDE DEF n
<1>3. /\ p \in Seq(Content)
      /\ Len(p) = IF 1 <= n THEN n - 1 + 1 ELSE 0
      /\ \A i \in 1..(n - 1 + 1) : p[i] = q[1 + i - 1]
  BY <1>1, <1>2, SubSeqProperties
<1> HIDE DEF p
<1>4. Len(p) = n
  BY <1>1, <1>3
<1>5. ASSUME NEW i \in 1..n PROVE p[i] = q[i]
  <2>1. i \in 1..(n - 1 + 1) /\ 1 + i - 1 = i
    BY <1>1
  <2>2. QED BY <2>1, <1>3
<1>6. DOMAIN p = 1..n
  BY <1>3, <1>4
<1>7. p = <<>> <=> Len(q) = 1
  <2>1. p = <<>> <=> Len(p) = 0
    BY <1>3
  <2>2. QED BY <2>1, <1>1, <1>4
<1>8. q[Len(q)] \in Content
  BY <1>1
<1>9. QED BY <1>1, <1>3, <1>4, <1>5, <1>6, <1>7, <1>8 DEF p, n

\* A stack without frames.
LEMMA EmptyStack ==
  ASSUME NEW x, x.frames = <<>>, x.rip = 0
  PROVE  Nest(x)
BY DEF Nest

\* Only frames, rip and the mask matter for the stack.
LEMMA NestKept ==
  ASSUME NEW x, NEW y, Nest(x),
         y.frames = x.frames, y.rip = x.rip, y.blocked = x.blocked
  PROVE  Nest(y)
BY DEF Nest, Over

-----------------------------------------------------------------------------
(* Records.                                                                *)

\* The assumptions in the form in which the steps need them.
LEMMA Constants ==
  /\ Catch \subseteq Sig /\ Catch \subseteq 1..63 /\ IsFiniteSet(Catch)
  /\ SIGKILL \notin Catch /\ SIGSTOP \notin Catch /\ 0 \notin Catch
  /\ \A h \in Catch : Mask[h] \subseteq Sig /\ h \in Mask[h] /\ h \in BlockedBy(h)
  /\ Sends \in [Sender -> SUBSET Sig]
BY SignalsAssumption DEF BlockedBy, SIGKILL, SIGSTOP

\* A new task's record.
LEMMA FreshGood ==
  ASSUME NEW p \in Place, NEW s \in State \ {"Interruptible"},
         NEW a \in [Catch -> Handler]
  PROVE  Good(Fresh(p, s, a)) /\ ~SleepsOn(Fresh(p, s, a))
<1> DEFINE x == Fresh(p, s, a)
<1>1. x \in TaskType
  BY DEF Fresh, TaskType, Content
<1>2. x.frames = <<>> /\ x.rip = 0 /\ x.state = s
  BY DEF Fresh
<1> HIDE DEF x
<1>3. Nest(x)
  BY <1>2, EmptyStack
<1>4. QED BY <1>1, <1>2, <1>3 DEF Good, SleepsOn, x

\* A task whose stack and mask stay as they are.
LEMMA GoodKept ==
  ASSUME NEW x, NEW y \in TaskType, Good(x),
         y.frames = x.frames, y.rip = x.rip, y.blocked = x.blocked,
         y.state = "Interruptible" => y.pc = "blocked"
  PROVE  Good(y)
BY NestKept DEF Good

\* One task's record changes.
LEMMA OneTask ==
  ASSUME SignalsInv, NEW t \in TaskPage, NEW y, Becomes(t, y), Good(y),
         SleepsOn(y) => SleepsOn(task[t]), UNCHANGED <<kill, panic>>
  PROVE  SignalsInv'
<1>1. /\ task' \in [TaskPage -> TaskType] /\ task'[t] = y
      /\ \A u \in TaskPage \ {t} : task'[u] = task[u]
  BY DEF SignalsInv, Becomes, Good
<1>2. NoSignalSleptOn'
  BY <1>1 DEF SignalsInv, NoSignalSleptOn, SleepsOn
<1>3. QED BY <1>1, <1>2 DEF SignalsInv

\* Only its place changes.
LEMMA PlaceOnly ==
  ASSUME SignalsInv, NEW t \in TaskPage, NEW p \in Place, Goes(t, p),
         task[t].pc # "blocked" \/ task[t].state = "Running", UNCHANGED <<kill, panic>>
  PROVE  SignalsInv'
<1> DEFINE x == task[t]
           y == [x EXCEPT !.pc = p]
<1>1. x \in TaskType /\ Good(x) /\ x.state # "Interruptible"
  BY DEF SignalsInv, Good
<1>2. Becomes(t, y)
  BY DEF Goes, Becomes
<1>3. /\ y \in TaskType /\ y.state = x.state
      /\ y.frames = x.frames /\ y.rip = x.rip /\ y.blocked = x.blocked
  BY <1>1 DEF TaskType
<1> HIDE DEF x, y
<1>4. Good(y) /\ ~SleepsOn(y)
  BY <1>1, <1>3, GoodKept DEF SleepsOn
<1>5. QED BY <1>2, <1>4, OneTask

-----------------------------------------------------------------------------
(* Handlers on the stack.                                                  *)

\* A handler runs only for a signal that is not blocked.
LEMMA CaughtUnblocked ==
  ASSUME NEW t, NEW s \in Catch, Takes(t, s)
  PROVE  s \notin task[t].blocked
<1>1. s \in Ready(task[t])
  BY Constants DEF Takes
<1>2. s \in Bit(s)
  BY <1>1 DEF Ready, Bit
<1>3. QED BY <1>1, <1>2 DEF Ready

\* The frame of a handler that starts goes on top of a sound stack.
LEMMA NestPushed ==
  ASSUME NEW x \in TaskType, NEW y \in TaskType, Nest(x),
         NEW h \in Catch, h \notin x.blocked,
         y.frames = Append(x.frames, [rip |-> x.rip, blocked |-> x.blocked]),
         y.rip = h, y.blocked = (x.blocked \cup Mask[h]) \ {SIGKILL, SIGSTOP}
  PROVE  Nest(y)
<1> DEFINE q == x.frames
           c == [rip |-> x.rip, blocked |-> x.blocked]
           r == y.frames
           n == Len(q)
<1>1. q \in Seq(Content) /\ c \in Content /\ x.blocked \subseteq Sig \ {SIGKILL, SIGSTOP}
  BY DEF TaskType, Content
<1>2. /\ r # <<>> /\ Len(r) = n + 1 /\ n \in Nat
      /\ DOMAIN r = 1..(n + 1) /\ DOMAIN q = 1..n
      /\ \A i \in 1..n : r[i] = q[i]
      /\ r[n + 1] = c
      /\ q = <<>> <=> n = 0
  BY <1>1, PushFrame
<1>3. c.rip = x.rip /\ c.blocked = x.blocked
  OBVIOUS
<1> HIDE DEF q, r, c, n
<1>4. ASSUME NEW i \in 1..n PROVE Over(y, i) = Over(x, i)
  <2>1. CASE i = n
    BY <2>1, <1>2, <1>3 DEF Over, q, r, n
  <2>2. CASE i # n
    <3>1. i + 1 \in 1..n /\ i # n + 1
      BY <2>2, <1>2
    <3>2. QED BY <3>1, <2>2, <1>2 DEF Over, q, r, n
  <2>3. QED BY <2>1, <2>2
<1>5. Over(y, n + 1) = h
  BY <1>2 DEF Over, r
<1>6. ASSUME NEW i \in 1..n PROVE Over(x, i) # h
  <2>1. BlockedBy(Over(x, i)) \subseteq x.blocked
    BY <1>2 DEF Nest, q
  <2>2. QED BY <2>1, Constants
<1>7. r[1].rip = 0
  BY <1>2, <1>3 DEF Nest, q
<1>8. ASSUME NEW i \in 1..(n + 1)
      PROVE  Over(y, i) # 0 /\ BlockedBy(Over(y, i)) \subseteq y.blocked
  <2>1. CASE i = n + 1
    BY <2>1, <1>5, Constants DEF BlockedBy
  <2>2. CASE i \in 1..n
    <3>1. Over(x, i) # 0 /\ BlockedBy(Over(x, i)) \subseteq x.blocked
      BY <2>2, <1>2 DEF Nest, q
    <3>2. QED BY <3>1, <2>2, <1>4, <1>1
  <2>3. QED BY <2>1, <2>2, <1>2
<1>9. ASSUME NEW i \in 1..(n + 1), NEW j \in 1..(n + 1), Over(y, i) = Over(y, j)
      PROVE  i = j
  <2>1. CASE i \in 1..n /\ j \in 1..n
    BY <2>1, <1>9, <1>4, <1>2 DEF Nest, q
  <2>2. CASE i = n + 1 \/ j = n + 1
    <3>1. i \notin 1..n \/ j \notin 1..n
      BY <2>2, <1>2
    <3>2. QED BY <1>2, <1>4, <1>5, <1>6, <1>9, <3>1
  <2>3. QED BY <2>1, <2>2, <1>2
<1>10. ASSUME NEW i \in 1..(n + 1), NEW j \in 1..(n + 1), i < j
       PROVE  BlockedBy(Over(y, i)) \subseteq r[j].blocked
  <2>1. i \in 1..n
    BY <1>10, <1>2
  <2>2. CASE j = n + 1
    <3>1. BlockedBy(Over(x, i)) \subseteq x.blocked
      BY <2>1, <1>2 DEF Nest, q
    <3>2. QED BY <3>1, <2>1, <2>2, <1>2, <1>3, <1>4
  <2>3. CASE j # n + 1
    <3>1. j \in 1..n
      BY <2>3, <1>2
    <3>2. BlockedBy(Over(x, i)) \subseteq q[j].blocked
      BY <2>1, <3>1, <1>2, <1>10 DEF Nest, q
    <3>3. QED BY <3>1, <3>2, <2>1, <1>2, <1>4
  <2>4. QED BY <2>2, <2>3
<1>11. QED BY <1>2, <1>7, <1>8, <1>9, <1>10 DEF Nest, r

\* The frame of a handler that returns leaves a sound stack.
LEMMA NestPopped ==
  ASSUME NEW x \in TaskType, NEW y, Nest(x), x.frames # <<>>,
         y.frames = SubSeq(x.frames, 1, Len(x.frames) - 1),
         y.rip = x.frames[Len(x.frames)].rip,
         y.blocked = x.frames[Len(x.frames)].blocked \ {SIGKILL, SIGSTOP}
  PROVE  Nest(y)
<1> DEFINE q == x.frames
           r == y.frames
           n == Len(q)
<1>1. q \in Seq(Content)
  BY DEF TaskType
<1>2. /\ n \in Nat /\ n >= 1 /\ DOMAIN q = 1..n /\ q[n] \in Content
      /\ Len(r) = n - 1 /\ DOMAIN r = 1..(n - 1)
      /\ \A i \in 1..(n - 1) : r[i] = q[i]
      /\ r = <<>> <=> n = 1
  BY <1>1, PopFrame
<1>3. q[n].blocked \subseteq Sig \ {SIGKILL, SIGSTOP}
  BY <1>2 DEF Content
<1>4. /\ y.rip = q[n].rip /\ y.blocked = q[n].blocked /\ q # <<>>
  BY <1>3
<1> HIDE DEF q, r, n
<1>5. ASSUME NEW i \in 1..(n - 1) PROVE Over(y, i) = Over(x, i) /\ i \in 1..n /\ i < n
  <2>1. i \in 1..n /\ i < n
    BY <1>2
  <2>2. CASE i = n - 1
    BY <2>1, <2>2, <1>2, <1>4 DEF Over, q, r, n
  <2>3. CASE i # n - 1
    <3>1. i + 1 \in 1..(n - 1) /\ i # n
      BY <2>3, <1>2
    <3>2. QED BY <3>1, <2>1, <2>3, <1>2 DEF Over, q, r, n
  <2>4. QED BY <2>1, <2>2, <2>3
<1>6. q[1].rip = 0
  BY <1>4 DEF Nest, q
<1>7. IF r = <<>> THEN y.rip = 0 ELSE r[1].rip = 0
  <2>1. CASE n = 1
    BY <2>1, <1>2, <1>4, <1>6
  <2>2. CASE n # 1
    <3>1. 1 \in 1..(n - 1)
      BY <2>2, <1>2
    <3>2. QED BY <3>1, <2>2, <1>2, <1>6
  <2>3. QED BY <2>1, <2>2
<1>8. n \in DOMAIN q
  BY <1>2
<1>9. ASSUME NEW i \in 1..(n - 1)
      PROVE  Over(y, i) # 0 /\ BlockedBy(Over(y, i)) \subseteq y.blocked
  <2>1. Over(x, i) # 0 /\ BlockedBy(Over(x, i)) \subseteq q[n].blocked
    BY <1>2, <1>5, <1>8 DEF Nest, q
  <2>2. QED BY <2>1, <1>4, <1>5
<1>10. ASSUME NEW i \in 1..(n - 1), NEW j \in 1..(n - 1), Over(y, i) = Over(y, j)
       PROVE  i = j
  BY <1>2, <1>5, <1>10 DEF Nest, q
<1>11. ASSUME NEW i \in 1..(n - 1), NEW j \in 1..(n - 1), i < j
       PROVE  BlockedBy(Over(y, i)) \subseteq r[j].blocked
  <2>1. BlockedBy(Over(x, i)) \subseteq q[j].blocked
    BY <1>2, <1>5, <1>11 DEF Nest, q
  <2>2. QED BY <2>1, <1>2, <1>5
<1>12. QED BY <1>2, <1>7, <1>9, <1>10, <1>11 DEF Nest, r

-----------------------------------------------------------------------------
(* The steps of a task.                                                    *)

\* Every step of a task keeps the invariant.
LEMMA TaskStepKeeps ==
  ASSUME SignalsInv, NEW t \in TaskPage, SignalsStep(t), UNCHANGED <<kill, panic>>
  PROVE  SignalsInv'
<1> DEFINE x == task[t]
<1>1. /\ x \in TaskType /\ Good(x) /\ Nest(x)
      /\ x.pc # "blocked" => x.state # "Interruptible"
  BY DEF SignalsInv, Good
<1>2. ASSUME Dies(t) PROVE SignalsInv'
  <2>1. Default \in [Catch -> Handler]
    BY DEF Default, Handler
  <2>2. Good(Fresh("zombie", "Zombie", Default)) /\ ~SleepsOn(Fresh("zombie", "Zombie", Default))
    BY <2>1, FreshGood DEF Place, State
  <2>3. QED BY <1>2, <2>2, OneTask DEF Dies
<1>3. CASE SystemCall(t)
  BY <1>3, PlaceOnly DEF SystemCall, Is, Place
<1>4. CASE Return(t)
  <2>1. ReturnPlace(x) \in Place
    BY DEF ReturnPlace, Place
  <2>2. QED BY <1>4, <2>1, PlaceOnly DEF Return, Is
<1>5. CASE Interrupt(t)
  BY <1>5, PlaceOnly DEF Interrupt, Is, Place
<1>6. ASSUME NEW s \in {"Interruptible", "Uninterruptible"}, Block(t, s)
      PROVE  SignalsInv'
  <2> DEFINE off == s = "Interruptible" /\ SignalPending(x)
             v == IF off THEN "Running" ELSE s
             y == [x EXCEPT !.pc = "blocked", !.state = v]
  <2>1. v \in State /\ (v = "Interruptible" => ~SignalPending(x))
    BY DEF State
  <2>2. Becomes(t, y)
    BY <1>6 DEF Block, Becomes
  <2> HIDE DEF v
  <2>3. /\ y \in TaskType /\ y.state = v /\ y.pc = "blocked"
        /\ y.frames = x.frames /\ y.rip = x.rip
        /\ y.blocked = x.blocked /\ y.pending = x.pending
    BY <1>1, <2>1 DEF TaskType, Place
  <2> HIDE DEF x, y
  <2>4. Good(y) /\ ~SleepsOn(y)
    BY <1>1, <2>1, <2>3, GoodKept DEF SleepsOn, SignalPending
  <2>5. QED BY <2>2, <2>4, OneTask
<1>7. CASE Answered(t)
  <2> DEFINE y == [x EXCEPT !.state = "Running"]
  <2>1. Becomes(t, y)
    BY <1>7 DEF Answered, Becomes
  <2>2. /\ y \in TaskType /\ y.state = "Running"
        /\ y.frames = x.frames /\ y.rip = x.rip /\ y.blocked = x.blocked
    BY <1>1 DEF TaskType, State
  <2> HIDE DEF x, y
  <2>3. Good(y) /\ ~SleepsOn(y)
    BY <1>1, <2>2, GoodKept DEF SleepsOn
  <2>4. QED BY <2>1, <2>3, OneTask
<1>8. CASE Unblock(t)
  BY <1>8, PlaceOnly DEF Unblock, Is, Place
<1>9. ASSUME NEW s \in Catch, NEW h \in Handler, SignalAction(t, s, h)
      PROVE  SignalsInv'
  <2> DEFINE y == [x EXCEPT !.actions[s] = h]
  <2>1. Becomes(t, y) /\ x.pc = "kernel"
    BY <1>9 DEF SignalAction, Becomes, Is
  <2>2. /\ y \in TaskType /\ y.state = x.state
        /\ y.frames = x.frames /\ y.rip = x.rip /\ y.blocked = x.blocked
    BY <1>1 DEF TaskType
  <2> HIDE DEF x, y
  <2>3. Good(y) /\ ~SleepsOn(y)
    BY <1>1, <2>1, <2>2, GoodKept DEF SleepsOn
  <2>4. QED BY <2>1, <2>3, OneTask
<1>10. CASE Execve(t)
  <2> DEFINE y == [x EXCEPT !.actions = Default, !.frames = <<>>, !.rip = 0]
  <2>1. Becomes(t, y) /\ x.pc = "kernel"
    BY <1>10 DEF Execve, Becomes, Is
  <2>2. Default \in [Catch -> Handler] /\ <<>> \in Seq(Content)
    BY DEF Default, Handler
  <2>3. y \in TaskType /\ y.state = x.state /\ y.frames = <<>> /\ y.rip = 0
    BY <1>1, <2>2 DEF TaskType
  <2> HIDE DEF x, y
  <2>4. Good(y) /\ ~SleepsOn(y)
    BY <1>1, <2>1, <2>3, EmptyStack DEF Good, SleepsOn
  <2>5. QED BY <2>1, <2>4, OneTask
<1>11. CASE DoExit(t)
  BY <1>2, <1>11 DEF DoExit
<1>12. CASE DestroyTask(t)
  BY <1>12, PlaceOnly DEF DestroyTask, Is, Place
<1>13. CASE DoFork(t)
  <2>1. PICK a \in [Catch -> Handler] : Becomes(t, Fresh("user", "Running", a))
    BY <1>13 DEF DoFork
  <2>2. Good(Fresh("user", "Running", a)) /\ ~SleepsOn(Fresh("user", "Running", a))
    BY FreshGood DEF Place, State
  <2>3. QED BY <2>1, <2>2, OneTask
<1>14. ASSUME NEW s \in Sig, TakeFatal(t, s) PROVE SignalsInv'
  BY <1>2, <1>14 DEF TakeFatal
<1>15. ASSUME NEW s, Without(t, s) = [x EXCEPT !.pending = @ \ Bit(s)], x.pc = "deliver"
       PROVE  /\ Without(t, s) \in TaskType
              /\ Without(t, s).state = x.state /\ Without(t, s).pc = x.pc
              /\ Without(t, s).frames = x.frames /\ Without(t, s).rip = x.rip
              /\ Without(t, s).blocked = x.blocked
  BY <1>1, <1>15 DEF TaskType
<1>16. ASSUME NEW s \in Sig, TakeIgnored(t, s) PROVE SignalsInv'
  <2> DEFINE y == Without(t, s)
  <2>1. Becomes(t, y) /\ x.pc = "deliver"
    BY <1>16 DEF TakeIgnored, Takes, Is
  <2>2. /\ y \in TaskType /\ y.state = x.state /\ y.pc = x.pc
        /\ y.frames = x.frames /\ y.rip = x.rip /\ y.blocked = x.blocked
    BY <1>15, <2>1 DEF Without
  <2> HIDE DEF x, y
  <2>3. Good(y) /\ ~SleepsOn(y)
    BY <1>1, <2>1, <2>2, GoodKept DEF SleepsOn
  <2>4. QED BY <2>1, <2>3, OneTask
<1>17. ASSUME NEW s \in Sig, TakeCaught(t, s) PROVE SignalsInv'
  <2> DEFINE saved == [rip |-> x.rip, blocked |-> x.blocked]
             w == Without(t, s)
             y == [w EXCEPT !.frames = Append(@, saved), !.rip = s,
                            !.blocked = (@ \cup Mask[s]) \ {SIGKILL, SIGSTOP}]
  <2>1. Becomes(t, y) /\ x.pc = "deliver" /\ Takes(t, s)
    BY <1>17 DEF TakeCaught, Takes, Is
  <2>2. s \in Catch
    BY <1>17 DEF TakeCaught, ActionOf
  <2>3. s \notin x.blocked
    BY <2>1, <2>2, CaughtUnblocked
  <2>4. /\ w \in TaskType /\ w.state = x.state /\ w.pc = x.pc
        /\ w.frames = x.frames /\ w.rip = x.rip /\ w.blocked = x.blocked
    BY <1>15, <2>1 DEF Without
  <2>5. saved \in Content /\ Append(x.frames, saved) \in Seq(Content)
    BY <1>1, PushFrame DEF TaskType, Content
  <2>6. (x.blocked \cup Mask[s]) \ {SIGKILL, SIGSTOP} \in SUBSET (Sig \ {SIGKILL, SIGSTOP})
    BY <1>1, <2>2, Constants DEF TaskType
  <2> HIDE DEF w, saved, x
  <2>7. /\ y \in TaskType /\ y.state = x.state /\ y.pc = x.pc
        /\ y.frames = Append(x.frames, saved) /\ y.rip = s
        /\ y.blocked = (x.blocked \cup Mask[s]) \ {SIGKILL, SIGSTOP}
    BY <2>2, <2>4, <2>5, <2>6 DEF TaskType
  <2> HIDE DEF y
  <2>8. Nest(y)
    BY <1>1, <2>2, <2>3, <2>7, NestPushed DEF saved
  <2>9. Good(y) /\ ~SleepsOn(y)
    BY <1>1, <2>1, <2>7, <2>8 DEF Good, SleepsOn
  <2>10. QED BY <2>1, <2>9, OneTask
<1>18. CASE TakeStop(t)
  <2> DEFINE w == Without(t, SIGSTOP)
             y == [w EXCEPT !.pc = "stopping"]
  <2>1. Becomes(t, y) /\ x.pc = "deliver"
    BY <1>18 DEF TakeStop, Takes, Is
  <2>2. /\ w \in TaskType /\ w.state = x.state
        /\ w.frames = x.frames /\ w.rip = x.rip /\ w.blocked = x.blocked
    BY <1>15, <2>1 DEF Without
  <2> HIDE DEF w, x
  <2>3. /\ y \in TaskType /\ y.state = x.state
        /\ y.frames = x.frames /\ y.rip = x.rip /\ y.blocked = x.blocked
    BY <2>2 DEF TaskType, Place
  <2> HIDE DEF y
  <2>4. Good(y) /\ ~SleepsOn(y)
    BY <1>1, <2>1, <2>3, GoodKept DEF SleepsOn
  <2>5. QED BY <2>1, <2>4, OneTask
<1>19. CASE Stop(t)
  <2> DEFINE y == [x EXCEPT !.pc = "stopped", !.state = "Stopping"]
  <2>1. Becomes(t, y)
    BY <1>19 DEF Stop
  <2>2. /\ y \in TaskType /\ y.state = "Stopping"
        /\ y.frames = x.frames /\ y.rip = x.rip /\ y.blocked = x.blocked
    BY <1>1 DEF TaskType, State, Place
  <2> HIDE DEF x, y
  <2>3. Good(y) /\ ~SleepsOn(y)
    BY <1>1, <2>2, GoodKept DEF SleepsOn
  <2>4. QED BY <2>1, <2>3, OneTask
<1>20. CASE Continue(t)
  BY <1>20, PlaceOnly DEF Continue, Is, Place
<1>21. CASE Delivered(t)
  BY <1>21, PlaceOnly DEF Delivered, Takes, Is, Place
<1>22. CASE SignalReturn(t)
  <2> DEFINE content == x.frames[Len(x.frames)]
             new == [x EXCEPT
                       !.frames = SubSeq(@, 1, Len(@) - 1), !.rip = content.rip,
                       !.blocked = content.blocked \ {SIGKILL, SIGSTOP}]
             y == [new EXCEPT !.pc = ReturnPlace(new)]
  <2>1. Becomes(t, y) /\ x.pc = "user" /\ x.frames # <<>>
    BY <1>22 DEF SignalReturn, Is
  <2>2. content \in Content /\ SubSeq(x.frames, 1, Len(x.frames) - 1) \in Seq(Content)
    BY <1>1, <2>1, PopFrame DEF TaskType
  <2>3. content.rip \in {0} \cup Catch /\ content.blocked \ {SIGKILL, SIGSTOP} \in SUBSET (Sig \ {SIGKILL, SIGSTOP})
    BY <2>2 DEF Content
  <2> HIDE DEF content
  <2>4. /\ new \in TaskType /\ new.state = x.state
        /\ new.frames = SubSeq(x.frames, 1, Len(x.frames) - 1)
        /\ new.rip = content.rip /\ new.blocked = content.blocked \ {SIGKILL, SIGSTOP}
    BY <1>1, <2>2, <2>3 DEF TaskType
  <2>5. ReturnPlace(new) \in Place
    BY DEF ReturnPlace, Place
  <2> HIDE DEF new, x
  <2>6. /\ y \in TaskType /\ y.state = x.state
        /\ y.frames = SubSeq(x.frames, 1, Len(x.frames) - 1)
        /\ y.rip = content.rip /\ y.blocked = content.blocked \ {SIGKILL, SIGSTOP}
    BY <2>4, <2>5 DEF TaskType
  <2> HIDE DEF y
  <2>7. Nest(y)
    BY <1>1, <2>1, <2>6, NestPopped DEF content
  <2>8. Good(y) /\ ~SleepsOn(y)
    BY <1>1, <2>1, <2>6, <2>7 DEF Good, SleepsOn
  <2>9. QED BY <2>1, <2>8, OneTask
<1>23. QED
  BY <1>3, <1>4, <1>5, <1>6, <1>7, <1>8, <1>9, <1>10, <1>11, <1>12, <1>13, <1>14,
     <1>16, <1>17, <1>18, <1>19, <1>20, <1>21, <1>22 DEF SignalsStep, Loop

-----------------------------------------------------------------------------
(* doKill(), and the theorems.                                             *)

\* Every step of doKill() keeps the invariant.
LEMMA KillStepKeeps ==
  ASSUME SignalsInv, NEW k \in Sender,
         \/ \E t \in TaskPage, s \in Sends[k] : KillFinds(k, t, s)
         \/ KillPosts(k) \/ KillWakes(k)
  PROVE  SignalsInv'
<1>1. kill[k] = NoKill \/ (kill[k].task \in TaskPage /\ kill[k].sig \in Sig)
  BY DEF SignalsInv, KillCall
<1>2. NoKill.at = "idle"
  BY DEF NoKill
<1>3. CASE \E t \in TaskPage, s \in Sends[k] : KillFinds(k, t, s)
  <2>1. PICK t \in TaskPage, s \in Sends[k] : KillFinds(k, t, s)
    BY <1>3
  <2>2. s \in Sig
    BY Constants
  <2>3. kill' \in [Sender -> KillCall]
    BY <2>1, <2>2 DEF KillFinds, SignalsInv, KillCall
  <2>4. \A l \in Sender : kill[l].at = "posted" => kill'[l] = kill[l]
    BY <2>1, <1>2 DEF KillFinds, SignalsInv
  <2>5. NoSignalSleptOn'
    BY <2>1, <2>4 DEF KillFinds, SignalsInv, NoSignalSleptOn
  <2>6. QED BY <2>1, <2>3, <2>5 DEF SignalsInv, KillFinds
<1>4. CASE KillPosts(k)
  <2>1. CASE ~Alive(kill[k].task)
    BY <1>4, <2>1 DEF KillPosts, SignalsInv, NoSignalSleptOn
  <2>2. CASE Alive(kill[k].task)
    <3> DEFINE t == kill[k].task
               x == task[t]
               y == [x EXCEPT !.pending = @ \cup {kill[k].sig}]
    <3>1. t \in TaskPage /\ kill[k].sig \in Sig /\ kill[k].at = "found"
      BY <1>1, <1>2, <1>4 DEF KillPosts
    <3>2. Becomes(t, y) /\ kill' = [kill EXCEPT ![k].at = "posted"] /\ UNCHANGED panic
      BY <1>4, <2>2 DEF KillPosts, Becomes
    <3>3. x \in TaskType /\ Good(x)
      BY <3>1 DEF SignalsInv, Good
    <3>4. /\ y \in TaskType /\ y.state = x.state /\ y.pc = x.pc
          /\ y.frames = x.frames /\ y.rip = x.rip /\ y.blocked = x.blocked
      BY <3>1, <3>3 DEF TaskType
    <3>5. /\ kill' \in [Sender -> KillCall]
          /\ kill'[k].at = "posted" /\ kill'[k].task = t
          /\ \A l \in Sender \ {k} : kill'[l] = kill[l]
      BY <3>1, <3>2 DEF SignalsInv, KillCall, NoKill
    <3>6. /\ task' \in [TaskPage -> TaskType] /\ task'[t] = y
          /\ \A u \in TaskPage \ {t} : task'[u] = task[u]
      BY <3>1, <3>2, <3>4 DEF Becomes, SignalsInv
    <3> HIDE DEF t, x, y
    <3>7. Good(y)
      BY <3>3, <3>4, GoodKept DEF Good
    <3>8. NoSignalSleptOn'
      <4> SUFFICES ASSUME NEW u \in TaskPage,
                          task'[u].state = "Interruptible", SignalPending(task'[u])
                   PROVE  \E l \in Sender : kill'[l].at = "posted" /\ kill'[l].task = u
        BY DEF NoSignalSleptOn
      <4>1. CASE u = t
        BY <4>1, <3>5
      <4>2. CASE u # t
        <5>1. PICK l \in Sender : kill[l].at = "posted" /\ kill[l].task = u
          BY <4>2, <3>6 DEF SignalsInv, NoSignalSleptOn
        <5>2. l # k
          BY <5>1, <3>1
        <5>3. QED BY <5>1, <5>2, <3>5
      <4>3. QED BY <4>1, <4>2
    <3>9. QED BY <3>2, <3>5, <3>6, <3>7, <3>8 DEF SignalsInv
  <2>3. QED BY <2>1, <2>2
<1>5. CASE KillWakes(k)
  <2> DEFINE t == kill[k].task
             x == task[t]
             v == IF \/ x.state = "Interruptible"
                     \/ x.state = "Stopping" /\ kill[k].sig \in {SIGCONT, SIGKILL}
                  THEN "Running" ELSE x.state
             y == [x EXCEPT !.state = v]
  <2>1. t \in TaskPage /\ kill[k].at = "posted"
    BY <1>1, <1>2, <1>5 DEF KillWakes
  <2>2. x \in TaskType /\ Good(x) /\ x.state \in State
    BY <2>1 DEF SignalsInv, Good, TaskType
  <2>3. Becomes(t, y) /\ kill' = [kill EXCEPT ![k] = NoKill] /\ UNCHANGED panic
    BY <1>5 DEF KillWakes, Becomes
  <2>4. v \in State /\ v # "Interruptible"
    BY <2>2 DEF State
  <2> HIDE DEF v
  <2>5. /\ y \in TaskType /\ y.state = v /\ y.pc = x.pc
        /\ y.frames = x.frames /\ y.rip = x.rip /\ y.blocked = x.blocked
    BY <2>2, <2>4 DEF TaskType
  <2>6. kill' \in [Sender -> KillCall] /\ \A l \in Sender \ {k} : kill'[l] = kill[l]
    BY <2>3 DEF SignalsInv, KillCall
  <2>7. /\ task' \in [TaskPage -> TaskType] /\ task'[t] = y
        /\ \A u \in TaskPage \ {t} : task'[u] = task[u]
    BY <2>1, <2>3, <2>5 DEF Becomes, SignalsInv
  <2>8. kill[k].task = t
    OBVIOUS
  <2> HIDE DEF t, x, y
  <2>9. Good(y)
    BY <2>2, <2>4, <2>5, GoodKept
  <2>10. NoSignalSleptOn'
    <3> SUFFICES ASSUME NEW u \in TaskPage,
                        task'[u].state = "Interruptible", SignalPending(task'[u])
                 PROVE  \E l \in Sender : kill'[l].at = "posted" /\ kill'[l].task = u
      BY DEF NoSignalSleptOn
    <3>1. u # t
      BY <2>4, <2>5, <2>7
    <3>2. PICK l \in Sender : kill[l].at = "posted" /\ kill[l].task = u
      BY <3>1, <2>7 DEF SignalsInv, NoSignalSleptOn
    <3>3. l # k
      BY <3>1, <3>2, <2>8
    <3>4. QED BY <3>2, <3>3, <2>6
  <2>11. QED BY <2>3, <2>6, <2>7, <2>9, <2>10 DEF SignalsInv
<1>6. QED BY <1>3, <1>4, <1>5

\* The invariant holds at first.
LEMMA SignalsInitInv == SignalsInit => SignalsInv
<1> SUFFICES ASSUME SignalsInit PROVE SignalsInv
  OBVIOUS
<1>1. Default \in [Catch -> Handler]
  BY DEF Default, Handler
<1>2. Good(Fresh("user", "Running", Default)) /\ ~SleepsOn(Fresh("user", "Running", Default))
  BY <1>1, FreshGood DEF Place, State
<1>3. \A t \in TaskPage : task[t] = Fresh("user", "Running", Default)
  BY DEF SignalsInit
<1>4. task \in [TaskPage -> TaskType] /\ kill \in [Sender -> KillCall] /\ panic \in BOOLEAN
  BY <1>2 DEF SignalsInit, KillCall, Good
<1>5. QED BY <1>2, <1>3, <1>4 DEF SignalsInv, NoSignalSleptOn, SleepsOn

\* It holds in every state.
LEMMA Inductive == SignalsSpec => []SignalsInv
<1>1. SignalsInv /\ [SignalsNext]_signalsVars => SignalsInv'
  <2> SUFFICES ASSUME SignalsInv, [SignalsNext]_signalsVars PROVE SignalsInv'
    OBVIOUS
  <2>1. CASE \E t \in TaskPage : SignalsStep(t) /\ Rest
    BY <2>1, TaskStepKeeps DEF Rest
  <2>2. CASE \E k \in Sender :
               /\ ~panic
               /\ \/ \E t \in TaskPage, s \in Sends[k] : KillFinds(k, t, s)
                  \/ KillPosts(k) \/ KillWakes(k)
    BY <2>2, KillStepKeeps
  <2>3. CASE UNCHANGED signalsVars
    BY <2>3 DEF signalsVars, SignalsInv, NoSignalSleptOn
  <2>4. QED BY <2>1, <2>2, <2>3 DEF SignalsNext
<1>2. QED BY <1>1, SignalsInitInv, PTL DEF SignalsSpec

\* No task sleeps interruptibly through a signal whose doKill() is over: the
\* test in schedule() and the wake-up of doKill() leave no gap.
THEOREM SignalsAreNotSleptOn == SignalsSpec => []NoSignalSleptOn
<1>1. SignalsInv => NoSignalSleptOn
  BY DEF SignalsInv
<1>2. QED BY <1>1, Inductive, PTL

\* Handlers nest, whatever their masks and however often they interrupt each
\* other.
THEOREM HandlersAreNested == SignalsSpec => []HandlersNest
<1>1. SignalsInv => HandlersNest
  BY DEF SignalsInv, Good, Nest, Over, BlockedBy, HandlersNest, Interrupter
<1>2. QED BY <1>1, Inductive, PTL

\* Every variable keeps its type; there are never more frames on a stack than
\* signals with a handler.
THEOREM SignalsTypeCorrect == SignalsSpec => []SignalsTypeOK
<1>1. ASSUME SignalsInv, NEW t \in TaskPage PROVE Len(task[t].frames) <= Cardinality(Catch)
  <2> DEFINE x == task[t]
             n == Len(x.frames)
             f == [i \in 1..n |-> Over(x, i)]
  <2>1. x \in TaskType /\ Nest(x)
    BY <1>1 DEF SignalsInv, Good
  <2>2. /\ x.frames \in Seq(Content) /\ x.rip \in {0} \cup Catch
        /\ n \in Nat /\ DOMAIN x.frames = 1..n
    BY <2>1 DEF TaskType
  <2> HIDE DEF x
  <2>3. ASSUME NEW i \in 1..n PROVE Over(x, i) \in Catch
    <3>1. Over(x, i) # 0
      BY <2>1, <2>2 DEF Nest
    <3>2. CASE i = n
      BY <3>1, <3>2, <2>2 DEF Over
    <3>3. CASE i # n
      <4>1. i + 1 \in 1..n
        BY <3>3, <2>2
      <4>2. x.frames[i + 1] \in Content
        BY <4>1, <2>2
      <4>3. QED BY <3>1, <3>3, <4>2 DEF Over, Content
    <3>4. QED BY <3>2, <3>3
  <2>4. f \in Injection(1..n, Catch)
    <3>1. f \in [1..n -> Catch]
      BY <2>3
    <3>2. \A i, j \in 1..n : f[i] = f[j] => i = j
      BY <2>1, <2>2 DEF Nest
    <3>3. QED BY <3>1, <3>2 DEF Injection, IsInjective
  <2>5. Cardinality(1..n) <= Cardinality(Catch)
    BY <2>4, FS_Injection, Constants
  <2>6. Cardinality(1..n) = n
    <3>1. Cardinality(1..n) = IF 1 > n THEN 0 ELSE n - 1 + 1
      BY <2>2, FS_Interval
    <3>2. QED BY <3>1, <2>2
  <2>7. QED BY <2>5, <2>6 DEF x
<1>2. SignalsInv => SignalsTypeOK
  BY <1>1 DEF SignalsInv, SignalsTypeOK
<1>3. QED BY <1>2, Inductive, PTL

=============================================================================
