---------------------------------- MODULE RCU ----------------------------------
(***************************************************************************)
(* lockRCUReadLock(), unlockRCUReadLock() and addRCUCallback() (rcu.c) as  *)
(* the cache of directory entries uses them (virtual.c): a reader looks    *)
(* entries up between lock and unlock, a remover unhashes an entry and has *)
(* its memory freed by a callback.                                         *)
(*                                                                         *)
(* count is changed by atomic instructions; what runs under RCULock.lock   *)
(* is one step.  Between the steps any other task can run.                 *)
(***************************************************************************)
EXTENDS Naturals, FiniteSets, KernelList

CONSTANTS
  Reader,    \* the tasks that look entries up
  Remover,   \* the tasks that destroy entries
  Entry,     \* the entries of the cache
  NoEntry,
  Limit      \* the size of RCULock.callbacks (20)

ASSUME RCUAssumption ==
  /\ IsFiniteSet(Reader)
  /\ NoEntry \notin Entry
  /\ Limit \in Nat \ {0}

VARIABLES
  count,      \* RCULock.count
  callbacks,  \* the entries whose callbacks are stored in RCULock
  place,      \* where an entry is: "hashed", "removed" or "freed"
  rpc,        \* where a reader is
  found,      \* the entry it looks at
  wpc,        \* where a remover is
  victim      \* the entry it removes

vars == <<count, callbacks, place, rpc, found, wpc, victim>>

(***************************************************************************)
(* Readers: "out", "read" between lock and unlock, "flush" when its unlock *)
(* brought count to 0 and it will run the callbacks.                       *)
(* Removers: "out", "unhashed", "busy" when it has seen count # 0 and is   *)
(* about to take the lock, "free" when it will run the callback itself.    *)
(***************************************************************************)
TypeOK ==
  /\ count \in Nat
  /\ callbacks \in Seq(Entry) /\ Len(callbacks) <= Limit
  /\ place \in [Entry -> {"hashed", "removed", "freed"}]
  /\ rpc \in [Reader -> {"out", "read", "flush"}]
  /\ found \in [Reader -> Entry \cup {NoEntry}]
  /\ wpc \in [Remover -> {"out", "unhashed", "busy", "free"}]
  /\ victim \in [Remover -> Entry \cup {NoEntry}]

\* initRCULock(); some entries are there, the memory of others is free.
Init ==
  /\ count = 0
  /\ callbacks = <<>>
  /\ place \in [Entry -> {"hashed", "freed"}]
  /\ rpc = [t \in Reader |-> "out"]
  /\ found = [t \in Reader |-> NoEntry]
  /\ wpc = [w \in Remover |-> "out"]
  /\ victim = [w \in Remover |-> NoEntry]

-----------------------------------------------------------------------------
(* Readers: vfsDentryCacheLookUp().                                        *)

\* lockRCUReadLock()
ReadLock(t) ==
  /\ rpc[t] = "out"
  /\ count' = count + 1
  /\ rpc' = [rpc EXCEPT ![t] = "read"]
  /\ UNCHANGED <<callbacks, place, found, wpc, victim>>

\* It comes to an entry on its way through the hash list.
Find(t, e) ==
  /\ rpc[t] = "read" /\ place[e] = "hashed"
  /\ found' = [found EXCEPT ![t] = e]
  /\ UNCHANGED <<count, callbacks, place, rpc, wpc, victim>>

\* unlockRCUReadLock(): atomicAddRet(&lock->count,-1)
ReadUnlock(t) ==
  /\ rpc[t] = "read"
  /\ count' = count - 1
  /\ found' = [found EXCEPT ![t] = NoEntry]
  /\ rpc' = [rpc EXCEPT ![t] = IF count' = 0 THEN "flush" ELSE "out"]
  /\ UNCHANGED <<callbacks, place, wpc, victim>>

\* A slip: ccount is not reset.
FlushKeeping(t) ==
  /\ rpc[t] = "flush"
  /\ place' = [e \in Entry |-> IF e \in ToSet(callbacks) THEN "freed" ELSE place[e]]
  /\ rpc' = [rpc EXCEPT ![t] = "out"]
  /\ UNCHANGED <<count, callbacks, found, wpc, victim>>

\* The callbacks under the lock.
Flush(t) ==
  /\ rpc[t] = "flush"
  /\ place' = [e \in Entry |-> IF e \in ToSet(callbacks) THEN "freed" ELSE place[e]]
  /\ callbacks' = <<>>
  /\ rpc' = [rpc EXCEPT ![t] = "out"]
  /\ UNCHANGED <<count, found, wpc, victim>>

-----------------------------------------------------------------------------
(* Removers: destoryDentry() and addRCUCallback().                         *)

\* The reference count goes from 0 to -1, the entry leaves the hash list.
Unhash(w, e) ==
  /\ wpc[w] = "out" /\ place[e] = "hashed"
  /\ place' = [place EXCEPT ![e] = "removed"]
  /\ victim' = [victim EXCEPT ![w] = e]
  /\ wpc' = [wpc EXCEPT ![w] = "unhashed"]
  /\ UNCHANGED <<count, callbacks, rpc, found>>

\* "Unlocked, just call it."
TestCount(w) ==
  /\ wpc[w] = "unhashed"
  /\ wpc' = [wpc EXCEPT ![w] = IF count = 0 THEN "free" ELSE "busy"]
  /\ UNCHANGED <<count, callbacks, place, rpc, found, victim>>

\* A slip: the second look at count, under the lock, is left out.
AddCallbackUntested(w) ==
  /\ wpc[w] = "busy"
  /\ callbacks' =
       IF Len(callbacks) = Limit THEN callbacks ELSE Append(callbacks, victim[w])
  /\ wpc' = [wpc EXCEPT ![w] = "out"]
  /\ victim' = [victim EXCEPT ![w] = NoEntry]
  /\ UNCHANGED <<count, place, rpc, found>>

\* Under the lock, still read-locked: the callback is stored.  When there is
\* no room it is refused (-EBUSY), and nobody will free the entry.
AddCallback(w) ==
  /\ wpc[w] = "busy" /\ count # 0
  /\ callbacks' =
       IF Len(callbacks) = Limit THEN callbacks ELSE Append(callbacks, victim[w])
  /\ wpc' = [wpc EXCEPT ![w] = "out"]
  /\ victim' = [victim EXCEPT ![w] = NoEntry]
  /\ UNCHANGED <<count, place, rpc, found>>

\* "call:" the readers have gone in the meantime.
CallInstead(w) ==
  /\ wpc[w] = "busy" /\ count = 0
  /\ wpc' = [wpc EXCEPT ![w] = "free"]
  /\ UNCHANGED <<count, callbacks, place, rpc, found, victim>>

\* A slip: the callback is run as soon as it is asked for.
FreeAtOnce(w) ==
  /\ wpc[w] \in {"unhashed", "free"}
  /\ place' = [place EXCEPT ![victim[w]] = "freed"]
  /\ wpc' = [wpc EXCEPT ![w] = "out"]
  /\ victim' = [victim EXCEPT ![w] = NoEntry]
  /\ UNCHANGED <<count, callbacks, rpc, found>>

\* The remover runs the callback: __destoryDentry().
Free(w) ==
  /\ wpc[w] = "free"
  /\ place' = [place EXCEPT ![victim[w]] = "freed"]
  /\ wpc' = [wpc EXCEPT ![w] = "out"]
  /\ victim' = [victim EXCEPT ![w] = NoEntry]
  /\ UNCHANGED <<count, callbacks, rpc, found>>

\* A new entry is made and hashed (createDentry, vfsHashDentry), perhaps in
\* the memory of a freed one.
Hash(w, e) ==
  /\ wpc[w] = "out" /\ place[e] = "freed"
  /\ place' = [place EXCEPT ![e] = "hashed"]
  /\ UNCHANGED <<count, callbacks, rpc, found, wpc, victim>>

Next ==
  \/ \E t \in Reader : ReadLock(t) \/ ReadUnlock(t) \/ Flush(t)
  \/ \E t \in Reader, e \in Entry : Find(t, e)
  \/ \E w \in Remover : TestCount(w) \/ AddCallback(w) \/ CallInstead(w) \/ Free(w)
  \/ \E w \in Remover, e \in Entry : Unhash(w, e) \/ Hash(w, e)

Spec == Init /\ [][Next]_vars

-----------------------------------------------------------------------------
(* Properties.                                                             *)

\* What rcu.c is for: no entry is freed while a reader looks at it.
NoFreeWhileRead ==
  \A t \in Reader : found[t] # NoEntry => place[found[t]] # "freed"

\* What it achieves: a remover never frees what a reader has found, whenever
\* the reader came.  Only another reader, who has just brought count to 0 and
\* runs the callbacks, may do so.
RemoversSpareReaders ==
  [][\A t \in Reader, e \in Entry :
       found[t] = e /\ place[e] # "freed" /\ place'[e] = "freed" =>
         \E u \in Reader \ {t} : rpc[u] = "flush"]_vars

\* An entry is freed by one party only: its callback is stored at most once,
\* not while its remover still has it, and not once it is freed.
FreedOnce ==
  /\ IsInjective(callbacks)
  /\ \A e \in ToSet(callbacks) :
       place[e] = "removed" /\ \A w \in Remover : victim[w] # e
  /\ \A w \in Remover : victim[w] # NoEntry => place[victim[w]] = "removed"

\* Stored callbacks are not forgotten: there is a reader who will bring count
\* to 0, or one who has and is about to run them.
CallbacksRemembered ==
  callbacks # <<>> => \E t \in Reader : rpc[t] \in {"read", "flush"}

=============================================================================
