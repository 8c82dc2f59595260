------------------------------- MODULE Dentries -------------------------------
(***************************************************************************)
(* The cache of directory entries (virtual.c): look-ups without a lock     *)
(* that take a reference, the creation of an entry under the semaphore of  *)
(* its directory, and the way out of it for an entry nobody refers to, by  *)
(* way of the RCU lock, whose module this one extends.                     *)
(*                                                                         *)
(* The entries are those of one directory.  A task holds at most one of    *)
(* them; every task both looks up and destroys.                            *)
(***************************************************************************)
EXTENDS RCU, Integers

CONSTANTS Name, NoName, NoTask

ASSUME DentriesAssumption ==
  Remover = Reader /\ NoTask \notin Reader /\ NoName \notin Name

VARIABLES
  ref,    \* VFSDentry.ref, -1 for an entry that is being destroyed
  name,   \* VFSDentry.name
  pc,     \* where a task is
  want,   \* the name it looks up or has found
  chain,  \* the entries of that name it has still to pass
  hold,   \* the entry it has a reference to
  target, \* the entry whose count it has brought to 0
  sem     \* who has the semaphore of the directory

dvars == <<vars, ref, name, pc, want, chain, hold, target, sem>>

(***************************************************************************)
(* "out"; "look" and "again", walking the chain before and after the       *)
(* semaphore was taken; "down" and "create" after a miss; "up" before the  *)
(* semaphore is released; "held"; "destroy" when the count became 0;       *)
(* "marked" when it is -1; "remove" inside addRCUCallback().               *)
(***************************************************************************)
Places == {"out", "look", "again", "down", "create", "up", "held", "destroy",
           "marked", "remove"}

DentriesTypeOK ==
  /\ ref \in [Entry -> Int] /\ name \in [Entry -> Name \cup {NoName}]
  /\ pc \in [Reader -> Places] /\ want \in [Reader -> Name \cup {NoName}]
  /\ chain \in [Reader -> SUBSET Entry]
  /\ hold \in [Reader -> Entry \cup {NoEntry}]
  /\ target \in [Reader -> Entry \cup {NoEntry}]
  /\ sem \in Reader \cup {NoTask}

DentriesInit ==
  /\ Init /\ place = [e \in Entry |-> "freed"]
  /\ ref = [e \in Entry |-> -1]
  /\ name = [e \in Entry |-> NoName]
  /\ pc = [t \in Reader |-> "out"]
  /\ want = [t \in Reader |-> NoName]
  /\ chain = [t \in Reader |-> {}]
  /\ hold = [t \in Reader |-> NoEntry]
  /\ target = [t \in Reader |-> NoEntry]
  /\ sem = NoTask

At(t, where) == pc[t] = where /\ rpc[t] = "out" /\ wpc[t] = "out"
Goes(t, where) == pc' = [pc EXCEPT ![t] = where]
Hashed(n) == {e \in Entry : place[e] = "hashed" /\ name[e] = n}

-----------------------------------------------------------------------------
(* vfsDentryCacheLookUp()                                                  *)

\* It enters the chain of the bucket.  What is hashed later comes in at the
\* head, behind its back.
Enter(t, n, where) ==
  /\ ReadLock(t)
  /\ want' = [want EXCEPT ![t] = n]
  /\ chain' = [chain EXCEPT ![t] = Hashed(n)]
  /\ Goes(t, where)
  /\ UNCHANGED <<ref, name, hold, target>>

LookUp(t, n) == At(t, "out") /\ Enter(t, n, "look") /\ UNCHANGED sem

Walking(t) == pc[t] \in {"look", "again"} /\ rpc[t] = "read" /\ hold[t] = NoEntry

\* It comes to an entry of that name, or finds that it has left the chain.
Meet(t, e) ==
  /\ Walking(t) /\ found[t] = NoEntry /\ e \in chain[t]
  /\ chain' = [chain EXCEPT ![t] = @ \ {e}]
  /\ \/ Find(t, e)
     \/ place[e] # "hashed" /\ UNCHANGED vars
  /\ UNCHANGED <<ref, name, pc, want, hold, target, sem>>

\* A slip: an entry that is being destroyed is taken like any other.
GrabDying(t) ==
  /\ Walking(t) /\ found[t] # NoEntry
  /\ ref' = [ref EXCEPT ![found[t]] = @ + 1]
  /\ hold' = [hold EXCEPT ![t] = found[t]]
  /\ UNCHANGED <<vars, name, pc, want, chain, target, sem>>

\* The compare-and-exchange that raises the count.
Grab(t) ==
  /\ Walking(t) /\ found[t] # NoEntry /\ ref[found[t]] >= 0
  /\ ref' = [ref EXCEPT ![found[t]] = @ + 1]
  /\ hold' = [hold EXCEPT ![t] = found[t]]
  /\ UNCHANGED <<vars, name, pc, want, chain, target, sem>>

\* "The dentry is destorying, discard it!"
Discard(t) ==
  /\ Walking(t) /\ found[t] # NoEntry /\ ref[found[t]] < 0
  /\ found' = [found EXCEPT ![t] = NoEntry]
  /\ UNCHANGED <<count, callbacks, place, rpc, wpc, victim>>
  /\ UNCHANGED <<ref, name, pc, want, chain, hold, target, sem>>

\* The way out, with an entry or at the end of the chain.
Leave(t) ==
  /\ pc[t] \in {"look", "again"} /\ rpc[t] = "read"
  /\ hold[t] # NoEntry \/ (chain[t] = {} /\ found[t] = NoEntry)
  /\ ReadUnlock(t)
  /\ chain' = [chain EXCEPT ![t] = {}]
  /\ Goes(t, IF pc[t] = "look" THEN (IF hold[t] # NoEntry THEN "held" ELSE "down")
             ELSE (IF hold[t] # NoEntry THEN "up" ELSE "create"))
  /\ UNCHANGED <<ref, name, want, hold, target, sem>>

RunCallbacks(t) ==
  /\ Flush(t)
  /\ UNCHANGED <<ref, name, pc, want, chain, hold, target, sem>>

-----------------------------------------------------------------------------
(* The end of vfsLookUp(): "Look for the dentry cache again."              *)

\* A slip: the first look is trusted.
DownTrusting(t) ==
  /\ At(t, "down") /\ sem = NoTask
  /\ sem' = t
  /\ Goes(t, "create")
  /\ UNCHANGED <<vars, ref, name, want, chain, hold, target>>

Down(t) ==
  /\ At(t, "down") /\ sem = NoTask
  /\ sem' = t
  /\ Enter(t, want[t], "again")

\* createDentry(), the file system's lookUp, vfsHashDentry()
Create(t, e) ==
  /\ At(t, "create") /\ Hash(t, e)
  /\ ref' = [ref EXCEPT ![e] = 1]
  /\ name' = [name EXCEPT ![e] = want[t]]
  /\ hold' = [hold EXCEPT ![t] = e]
  /\ Goes(t, "up")
  /\ UNCHANGED <<want, chain, target, sem>>

\* There is no such file, or no memory.
CreateFails(t) ==
  /\ At(t, "create")
  /\ Goes(t, "up")
  /\ UNCHANGED <<vars, ref, name, want, chain, hold, target, sem>>

Up(t) ==
  /\ At(t, "up")
  /\ sem' = NoTask
  /\ Goes(t, IF hold[t] = NoEntry THEN "out" ELSE "held")
  /\ want' = [want EXCEPT ![t] = IF hold[t] = NoEntry THEN NoName ELSE @]
  /\ UNCHANGED <<vars, ref, name, chain, hold, target>>

-----------------------------------------------------------------------------
(* vfsLookUpClear() and destoryDentry().                                   *)

\* A slip: nobody looks whether the count is 0.
DropQuietly(t) ==
  /\ At(t, "held")
  /\ ref' = [ref EXCEPT ![hold[t]] = @ - 1]
  /\ hold' = [hold EXCEPT ![t] = NoEntry]
  /\ want' = [want EXCEPT ![t] = NoName]
  /\ Goes(t, "out")
  /\ UNCHANGED <<vars, name, chain, target, sem>>

Drop(t) ==
  /\ At(t, "held")
  /\ ref' = [ref EXCEPT ![hold[t]] = @ - 1]
  /\ hold' = [hold EXCEPT ![t] = NoEntry]
  /\ want' = [want EXCEPT ![t] = NoName]
  /\ target' = [target EXCEPT ![t] = IF ref'[hold[t]] = 0 THEN hold[t] ELSE NoEntry]
  /\ Goes(t, IF ref'[hold[t]] = 0 THEN "destroy" ELSE "out")
  /\ UNCHANGED <<vars, name, chain, sem>>

\* 0 becomes -1, unless somebody was faster: -EBUSY.  By now the entry may be
\* gone; a free object keeps what it holds, and the memory of an entry is taken
\* to be used for entries only.
Mark(t) ==
  /\ At(t, "destroy")
  /\ IF ref[target[t]] = 0
     THEN /\ ref' = [ref EXCEPT ![target[t]] = -1]
          /\ Goes(t, "marked")
          /\ UNCHANGED target
     ELSE /\ target' = [target EXCEPT ![t] = NoEntry]
          /\ Goes(t, "out")
          /\ UNCHANGED ref
  /\ UNCHANGED <<vars, name, want, chain, hold, sem>>

TakeOut(t) ==
  /\ At(t, "marked") /\ Unhash(t, target[t])
  /\ target' = [target EXCEPT ![t] = NoEntry]
  /\ Goes(t, "remove")
  /\ UNCHANGED <<ref, name, want, chain, hold, sem>>

\* addRCUCallback()
Dispose(t) ==
  /\ pc[t] = "remove"
  /\ TestCount(t) \/ AddCallback(t) \/ CallInstead(t) \/ Free(t)
  /\ Goes(t, IF wpc'[t] = "out" THEN "out" ELSE "remove")
  /\ UNCHANGED <<ref, name, want, chain, hold, target, sem>>

-----------------------------------------------------------------------------

Step(t) ==
  \/ \E e \in Entry : Meet(t, e) \/ Create(t, e)
  \/ Grab(t) \/ Discard(t) \/ Leave(t) \/ RunCallbacks(t)
  \/ Down(t) \/ CreateFails(t) \/ Up(t)
  \/ Mark(t) \/ TakeOut(t) \/ Dispose(t)

DentriesNext ==
  \E t \in Reader : Step(t) \/ Drop(t) \/ \E n \in Name : LookUp(t, n)

\* Inside its calls a task goes on; nothing is assumed of when it drops what
\* it holds or looks something up.
DentriesSpec == DentriesInit /\ [][DentriesNext]_dvars /\ \A t \in Reader : WF_dvars(Step(t))

-----------------------------------------------------------------------------
(* Properties.                                                             *)

Holders(e) == {t \in Reader : hold[t] = e}

\* A count is the number of tasks that refer to the entry, and what a task
\* refers to is in the cache under the name it asked for, whatever look-ups
\* and removals were under way when it got it (virtual.c:202 and 145).
ReferencesSound ==
  \A e \in Entry :
    IF place[e] = "hashed" /\ ref[e] >= 0
    THEN ref[e] = Cardinality(Holders(e)) /\ \A t \in Holders(e) : name[e] = want[t]
    ELSE Holders(e) = {}

\* Two tasks that miss the same name do not make two entries of it, and while
\* one is being destroyed there is at most one to replace it (virtual.c:405).
OneEntryPerName ==
  \A n \in Name : Cardinality({e \in Hashed(n) : ref[e] >= 0}) <= 1

\* An entry nobody refers to is destroyed or found again.
UnusedEntriesGo == \A e \in Entry : (ref[e] = 0) ~> (ref[e] # 0)

=============================================================================
