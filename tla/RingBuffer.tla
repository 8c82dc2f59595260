------------------------------ MODULE RingBuffer ------------------------------
(***************************************************************************)
(* outRingBuffer(), inRingBuffer() and waitForRingBuffer() (ringbuffer.c): *)
(* the buffers between the keyboard interrupt, the keyboard task and the   *)
(* readers of the terminal (tty.c).                                        *)
(*                                                                         *)
(* Everything happens under wait.lock with interrupts closed, so that a    *)
(* call is one step up to the place where it sleeps.  Positions count      *)
(* unsigned ints, size / 4 = Slots of them.                                *)
(***************************************************************************)
EXTENDS Naturals, KernelList

CONSTANTS
  Reader,      \* the tasks that call inRingBuffer()
  Signalled,   \* those of them that get signals (user tasks)
  Data,        \* characters
  Nothing,     \* what a reader has before it gets a character
  Garbage,     \* what is found in memory outside the buffer
  Slots,
  Overruns     \* whether the buffer may get full while the oldest character
               \* has the last slot: the reading position then leaves it

ASSUME RingBufferAssumption ==
  /\ Signalled \subseteq Reader
  /\ Slots \in Nat /\ Slots >= 2
  /\ Overruns \in BOOLEAN

VARIABLES
  buffer, reader, writer,   \* the fields of RingBuffer
  queue,                    \* RingBuffer.wait, head first
  state, pending,           \* Task.state, taskSignalPending()
  pc,                       \* "out" of inRingBuffer() or in its "wait"
  got                       \* what the last call has got

vars == <<buffer, reader, writer, queue, state, pending, pc, got>>

TypeOK ==
  /\ buffer \in [0..(Slots - 1) -> Data \cup {Nothing}]
  /\ reader \in 0..(Slots - 1) /\ writer \in 0..(Slots - 1)
  /\ queue \in Seq(Reader)
  /\ state \in [Reader -> {"Running", "Interruptible"}]
  /\ pending \in [Reader -> BOOLEAN]
  /\ pc \in [Reader -> {"out", "wait"}]
  /\ got \in [Reader -> Data \cup {Nothing}]

\* initRingBuffer()
Init ==
  /\ buffer = [i \in 0..(Slots - 1) |-> Nothing]
  /\ reader = 0 /\ writer = 0
  /\ queue = <<>>
  /\ state = [t \in Reader |-> "Running"]
  /\ pending = [t \in Reader |-> FALSE]
  /\ pc = [t \in Reader |-> "out"]
  /\ got = [t \in Reader |-> Nothing]

-----------------------------------------------------------------------------

Runs(t) == state[t] = "Running"
Unread == (writer + 2 * Slots - reader) % Slots

Empty == writer = reader

\* The position after p, back at the start when it reaches the end.
Roll(p) == IF p + 1 = Slots THEN 0 ELSE p + 1

\* A slip: the oldest character stays, and the full buffer looks empty.
AfterPutStaying(w) == reader

\* The reading position after a character has been put and the writer is at w.
AfterPut(w) == IF w = reader THEN reader + 1 ELSE reader

\* A slip: nobody is woken.
WakeNobody == state

\* wakeUpLocked(): the head of the queue runs again, and stays in it.
WakeHead == IF queue = <<>> THEN state ELSE [state EXCEPT ![Head(queue)] = "Running"]

\* outRingBuffer(), from the keyboard interrupt or from the keyboard task.
Out(c) ==
  /\ Overruns \/ ~(Roll(writer) = reader /\ reader = Slots - 1)
  /\ buffer' = [buffer EXCEPT ![writer] = c]
  /\ writer' = Roll(writer)
  /\ reader' = AfterPut(writer')
  /\ state' = WakeHead
  /\ UNCHANGED <<queue, pending, pc, got>>

\* The data is there.
Take(t) ==
  /\ ~Empty
  /\ got' = [got EXCEPT ![t] = IF reader < Slots THEN buffer[reader] ELSE Garbage]
  /\ reader' = Roll(reader)
  /\ pc' = [pc EXCEPT ![t] = "out"]

\* waitForRingBuffer() up to schedule(), which returns at once to a task with
\* a signal pending.  The entry goes to the head of the queue.
Wait(t, q) ==
  /\ Empty
  /\ queue' = Cons(t, q)
  /\ got' = [got EXCEPT ![t] = Nothing]
  /\ state' = [state EXCEPT ![t] = IF pending[t] THEN "Running" ELSE "Interruptible"]
  /\ pc' = [pc EXCEPT ![t] = "wait"]

\* inRingBuffer()
In(t) ==
  /\ pc[t] = "out" /\ Runs(t)
  /\ \/ Take(t) /\ UNCHANGED <<queue, state>>
     \/ Wait(t, queue) /\ UNCHANGED reader
  /\ UNCHANGED <<buffer, writer, pending>>

\* waitForRingBuffer() after schedule(): with a signal pending inRingBuffer()
\* returns -EINTR, otherwise it looks again.
Woken(t) ==
  /\ pc[t] = "wait" /\ Runs(t) /\ ~pending[t]
  /\ \/ Take(t) /\ queue' = ListDelete(queue, t) /\ UNCHANGED state
     \/ Wait(t, ListDelete(queue, t)) /\ UNCHANGED reader
  /\ UNCHANGED <<buffer, writer, pending>>

\* A slip: the entry of an interrupted wait stays in the queue.
InterruptedListed(t) ==
  /\ pc[t] = "wait" /\ Runs(t) /\ pending[t]
  /\ pc' = [pc EXCEPT ![t] = "out"]
  /\ UNCHANGED <<buffer, reader, writer, queue, state, pending, got>>

Interrupted(t) ==
  /\ pc[t] = "wait" /\ Runs(t) /\ pending[t]
  /\ queue' = ListDelete(queue, t)
  /\ pc' = [pc EXCEPT ![t] = "out"]
  /\ UNCHANGED <<buffer, reader, writer, state, pending, got>>

\* doKill(), and the task taking the signal.
Signal(t) ==
  /\ pending' = [pending EXCEPT ![t] = TRUE]
  /\ state' = [state EXCEPT ![t] = "Running"]
  /\ UNCHANGED <<buffer, reader, writer, queue, pc, got>>

TakeSignal(t) ==
  /\ pc[t] = "out" /\ pending[t]
  /\ pending' = [pending EXCEPT ![t] = FALSE]
  /\ UNCHANGED <<buffer, reader, writer, queue, state, pc, got>>

\* schedule() comes back although nobody woke the task (see Scheduler).
SpuriousWake(t) ==
  /\ ~Runs(t)
  /\ state' = [state EXCEPT ![t] = "Running"]
  /\ UNCHANGED <<buffer, reader, writer, queue, pending, pc, got>>

Next ==
  \/ \E c \in Data : Out(c)
  \/ \E t \in Reader : In(t) \/ Woken(t) \/ Interrupted(t) \/ SpuriousWake(t)
  \/ \E t \in Signalled : Signal(t) \/ TakeSignal(t)

Spec == Init /\ [][Next]_vars

-----------------------------------------------------------------------------
(* Properties.                                                             *)

\* The queue holds exactly the waiting readers, each once: its entries are on
\* their stacks.
QueueSound ==
  /\ IsInjective(queue)
  /\ ToSet(queue) = {t \in Reader : pc[t] = "wait"}

\* "Wait until the ring buffer has data": the readers do not all sleep while
\* there is a character.  (One of several may: two characters can wake the
\* same reader twice.)
NoSleepOnData == ~Empty => \E t \in Reader : Runs(t)

\* A queue of characters that loses only the oldest ones, and only when it is
\* full ("We just drop the oldest data.").
Content == [i \in 1..Unread |-> buffer[(reader + i - 1) % Slots]]
F == INSTANCE Fifo WITH content <- Content, Capacity <- Slots - 1
DropsOldest == F!Spec

=============================================================================
