------------------------------ MODULE FileProofs ------------------------------
(***************************************************************************)
(* What holds of a terminal and of the table of open files.  RingBuffer,   *)
(* and Terminal, which goes on from it, for any readers, characters and    *)
(* sizes: the theorems about RingBuffer are stated for its own             *)
(* specification; Terminal takes only steps of it.  Files for any tasks,   *)
(* descriptors, look-ups and trees: its counts are exact, and it           *)
(* implements Descriptors.                                                 *)
(***************************************************************************)
EXTENDS Terminal, Files, ListLemmas, FiniteSetTheorems, WellFoundedInduction


-----------------------------------------------------------------------------
(* The readers of a RingBuffer and its queue.                              *)

Readers ==
  /\ queue \in Seq(Reader)
  /\ state \in [Reader -> {"Running", "Interruptible"}]
  /\ pending \in [Reader -> BOOLEAN]
  /\ pc \in [Reader -> {"out", "wait"}]

\* Only who waits sleeps.
SleepersWait == \A t \in Reader : Runs(t) \/ pc[t] = "wait"

QueueInv == Readers /\ QueueSound /\ SleepersWait

LEMMA QueueInit == Init => QueueInv
BY EmptyList DEF Init, QueueInv, Readers, QueueSound, SleepersWait, Runs

\* A reader that begins to wait, or waits again.
LEMMA WaitQueues ==
  ASSUME QueueInv, NEW t \in Reader, Runs(t),
         pc[t] = "out" \/ pc[t] = "wait",
         NEW q \in Seq(Reader), IsInjective(q), ToSet(q) = ToSet(queue) \ {t}, Wait(t, q),
         UNCHANGED pending
  PROVE  QueueInv'
<1>1. /\ queue' = Cons(t, q)
      /\ state' = [state EXCEPT ![t] = IF pending[t] THEN "Running" ELSE "Interruptible"]
      /\ pc' = [pc EXCEPT ![t] = "wait"]
  BY DEF Wait
<1>2. /\ queue' \in Seq(Reader) /\ IsInjective(queue')
      /\ ToSet(queue') = {t} \cup ToSet(queue)
  <2>1. t \notin ToSet(q) /\ {t} \cup ToSet(q) = {t} \cup ToSet(queue)
    OBVIOUS
  <2> QED
    BY <1>1, <2>1, ConsList
<1>3. Readers' /\ SleepersWait'
  BY <1>1, <1>2 DEF QueueInv, Readers, SleepersWait, Runs
<1>4. {u \in Reader : pc'[u] = "wait"} = {t} \cup {u \in Reader : pc[u] = "wait"}
  BY <1>1 DEF QueueInv, Readers
<1> QED
  BY <1>2, <1>3, <1>4 DEF QueueInv, QueueSound

\* A reader that leaves inRingBuffer(): its entry is taken out of the queue.
LEMMA LeavesQueue ==
  ASSUME QueueInv, NEW t \in Reader, Runs(t),
         queue' = ListDelete(queue, t), pc' = [pc EXCEPT ![t] = "out"],
         UNCHANGED <<state, pending>>
  PROVE  QueueInv'
<1>1. /\ queue' \in Seq(Reader) /\ IsInjective(queue')
      /\ ToSet(queue') = ToSet(queue) \ {t}
  BY DeleteList DEF QueueInv, Readers, QueueSound
<1>2. Readers' /\ SleepersWait'
  BY <1>1 DEF QueueInv, Readers, SleepersWait, Runs
<1>3. {u \in Reader : pc'[u] = "wait"} = {u \in Reader : pc[u] = "wait"} \ {t}
  BY DEF QueueInv, Readers
<1> QED
  BY <1>1, <1>2, <1>3 DEF QueueInv, QueueSound

LEMMA QueueStep == QueueInv /\ [Next]_vars => QueueInv'
<1> SUFFICES ASSUME QueueInv, [Next]_vars PROVE QueueInv'
  OBVIOUS
<1>1. ASSUME NEW c \in Data, Out(c) PROVE QueueInv'
  <2>1. state' \in [Reader -> {"Running", "Interruptible"}]
        /\ \A t \in Reader : Runs(t) => state'[t] = "Running"
    BY <1>1, HeadTailProperties DEF Out, WakeHead, QueueInv, Readers, Runs
  <2> QED
    BY <1>1, <2>1 DEF Out, QueueInv, Readers, QueueSound, SleepersWait, Runs
<1>2. ASSUME NEW t \in Reader, In(t) PROVE QueueInv'
  <2>1. CASE Take(t) /\ UNCHANGED <<queue, state>>
    <3>1. pc' = pc
      BY <1>2, <2>1 DEF In, Take, QueueInv, Readers
    <3> QED
      BY <1>2, <2>1, <3>1 DEF In, QueueInv, Readers, QueueSound, SleepersWait, Runs
  <2>2. CASE Wait(t, queue)
    <3>1. t \notin ToSet(queue) /\ queue \in Seq(Reader) /\ IsInjective(queue)
      BY <1>2 DEF In, QueueInv, QueueSound, Readers
    <3> QED
      BY <1>2, <2>2, <3>1, WaitQueues DEF In
  <2> QED
    BY <1>2, <2>1, <2>2 DEF In
<1>3. ASSUME NEW t \in Reader, Woken(t) PROVE QueueInv'
  <2>1. CASE Take(t) /\ queue' = ListDelete(queue, t) /\ UNCHANGED state
    BY <1>3, <2>1, LeavesQueue DEF Woken, Take
  <2>2. CASE Wait(t, ListDelete(queue, t))
    <3>1. /\ ListDelete(queue, t) \in Seq(Reader) /\ IsInjective(ListDelete(queue, t))
          /\ ToSet(ListDelete(queue, t)) = ToSet(queue) \ {t}
      BY DeleteList DEF QueueInv, QueueSound, Readers
    <3> QED
      BY <1>3, <2>2, <3>1, WaitQueues DEF Woken
  <2> QED
    BY <1>3, <2>1, <2>2 DEF Woken
<1>4. ASSUME NEW t \in Reader, Interrupted(t) PROVE QueueInv'
  BY <1>4, LeavesQueue DEF Interrupted
<1>5. ASSUME NEW t \in Reader, Signal(t) \/ TakeSignal(t) \/ SpuriousWake(t)
      PROVE  QueueInv'
  BY <1>5 DEF Signal, TakeSignal, SpuriousWake, QueueInv, Readers, QueueSound,
    SleepersWait, Runs
<1>6. CASE UNCHANGED vars
  BY <1>6 DEF vars, QueueInv, Readers, QueueSound, SleepersWait, Runs
<1> QED
  BY <1>1, <1>2, <1>3, <1>4, <1>5, <1>6, RingBufferAssumption DEF Next

\* The queue is right, with any readers and even if the cursor leaves the buffer.
THEOREM QueueIsSound == Spec => []QueueSound
<1>1. QueueInv => QueueSound
  BY DEF QueueInv
<1> QED
  BY <1>1, QueueInit, QueueStep, PTL DEF Spec

\* While there is a character, some reader runs: outRingBuffer() wakes the head
\* of the queue, and who takes a character goes on.
THEOREM NobodySleepsOnData ==
  ASSUME Reader # {}
  PROVE  Spec => []NoSleepOnData
<1>1. Init => NoSleepOnData
  BY DEF Init, NoSleepOnData, Empty
<1>2. QueueInv /\ NoSleepOnData /\ [Next]_vars => NoSleepOnData'
  <2> SUFFICES ASSUME QueueInv, NoSleepOnData, [Next]_vars, ~Empty'
               PROVE  \E t \in Reader : Runs(t)'
    BY DEF NoSleepOnData
  <2> USE DEF QueueInv, Readers, Runs
  <2>1. ASSUME NEW c \in Data, Out(c) PROVE \E t \in Reader : Runs(t)'
    <3>1. CASE queue = <<>>
      <4>1. \A t \in Reader : Runs(t)
        BY <3>1, EmptyList DEF QueueSound, SleepersWait
      <4> QED
        BY <2>1, <3>1, <4>1 DEF Out, WakeHead
    <3>2. CASE queue # <<>>
      <4>1. Head(queue) \in Reader
        BY <3>2, HeadTailProperties
      <4> QED
        BY <2>1, <3>2, <4>1 DEF Out, WakeHead
    <3> QED
      BY <3>1, <3>2
  <2>2. ASSUME NEW t \in Reader, In(t) \/ Woken(t) \/ Interrupted(t)
        PROVE  \E u \in Reader : Runs(u)'
    BY <2>2 DEF In, Woken, Interrupted, Take, Wait, Empty
  <2>3. ASSUME NEW t \in Reader, Signal(t) \/ SpuriousWake(t)
        PROVE  \E u \in Reader : Runs(u)'
    BY <2>3 DEF Signal, SpuriousWake
  <2>4. ASSUME NEW t \in Reader, TakeSignal(t) PROVE \E u \in Reader : Runs(u)'
    BY <2>4 DEF TakeSignal, NoSleepOnData, Empty
  <2>5. CASE UNCHANGED vars
    BY <2>5 DEF vars, NoSleepOnData, Empty
  <2> QED
    BY <2>1, <2>2, <2>3, <2>4, <2>5, RingBufferAssumption DEF Next
<1> QED
  BY <1>1, <1>2, QueueInit, QueueStep, PTL DEF Spec

-----------------------------------------------------------------------------
(* The characters.                                                         *)

\* The cursors stay in the buffer.  ~Overruns leaves out the one step where
\* the code lets the reading position leave it.
CursorInv ==
  /\ buffer \in [0..(Slots - 1) -> Data \cup {Nothing}]
  /\ reader \in 0..(Slots - 1) /\ writer \in 0..(Slots - 1)

\* What the remainder is for the positions that occur: the division has one of
\* three results.
LEMMA Remainder ==
  ASSUME NEW a \in Nat, a < 3 * Slots
  PROVE  a % Slots = IF a < Slots THEN a
                     ELSE IF a < 2 * Slots THEN a - Slots ELSE a - 2 * Slots
<1>1. Slots \in Nat /\ Slots >= 2
  BY RingBufferAssumption
<1>2. CASE a < Slots
  BY <1>1, <1>2
<1>3. CASE a >= Slots /\ a < 2 * Slots
  BY <1>1, <1>3
<1>4. CASE a >= 2 * Slots
  BY <1>1, <1>4
<1> QED
  BY <1>1, <1>2, <1>3, <1>4

\* How many characters are unread.
UnreadFacts ==
  /\ Unread = IF writer >= reader THEN writer - reader ELSE writer + Slots - reader
  /\ Unread \in Nat /\ Unread < Slots
  /\ Unread = 0 <=> Empty

LEMMA UnreadIs == CursorInv => UnreadFacts
<1> SUFFICES ASSUME CursorInv PROVE UnreadFacts
  OBVIOUS
<1> DEFINE a == writer + 2 * Slots - reader
<1>1. /\ Slots \in Nat /\ Slots >= 2
      /\ reader \in Nat /\ writer \in Nat /\ reader < Slots /\ writer < Slots
  BY RingBufferAssumption DEF CursorInv
<1>2. a \in Nat /\ a < 3 * Slots /\ a >= Slots
  BY <1>1
<1>3. Unread = IF a < 2 * Slots THEN a - Slots ELSE a - 2 * Slots
  BY <1>2, <1>1, Remainder DEF Unread
<1> QED
  BY <1>1, <1>3 DEF Empty, UnreadFacts

\* The slot of the i-th unread character.
SlotOf(i) == IF reader + i - 1 < Slots THEN reader + i - 1 ELSE reader + i - 1 - Slots

ContentFacts ==
  /\ Content \in Seq(Data \cup {Nothing}) /\ Len(Content) = Unread
  /\ \A i \in 1..Unread : SlotOf(i) \in 0..(Slots - 1) /\ Content[i] = buffer[SlotOf(i)]

LEMMA ContentIs == CursorInv => ContentFacts
<1> SUFFICES ASSUME CursorInv PROVE ContentFacts
  OBVIOUS
<1>1. /\ Slots \in Nat /\ Slots >= 2
      /\ reader \in Nat /\ reader < Slots
      /\ Unread \in Nat /\ Unread < Slots
  BY RingBufferAssumption, UnreadIs DEF CursorInv, UnreadFacts
<1>2. ASSUME NEW i \in 1..Unread
      PROVE  (reader + i - 1) % Slots = SlotOf(i) /\ SlotOf(i) \in 0..(Slots - 1)
  <2>1. reader + i - 1 \in Nat /\ reader + i - 1 < 2 * Slots
    BY <1>1
  <2> QED
    BY <2>1, <1>1, Remainder DEF SlotOf
<1>3. Content \in [1..Unread -> Data \cup {Nothing}]
  BY <1>2 DEF Content, CursorInv
<1>4. Content \in Seq(Data \cup {Nothing}) /\ Len(Content) = Unread
  BY <1>1, <1>3, SeqDef
<1> QED
  BY <1>2, <1>4 DEF Content, ContentFacts

LEMMA CursorInit == ~Overruns /\ Init => CursorInv
BY RingBufferAssumption DEF Init, CursorInv

\* A character is put: it becomes the last one, and when there was no room the
\* first one goes.
LEMMA OutPuts ==
  ASSUME ~Overruns, CursorInv, NEW c \in Data, Out(c)
  PROVE  CursorInv' /\ F!Put(c)
<1>1. /\ Slots \in Nat /\ Slots >= 2
      /\ reader \in Nat /\ reader < Slots /\ writer \in Nat /\ writer < Slots
  BY RingBufferAssumption DEF CursorInv
<1>2. /\ buffer' = [buffer EXCEPT ![writer] = c]
      /\ writer' = IF writer + 1 = Slots THEN 0 ELSE writer + 1
      /\ reader' = IF writer' = reader THEN reader + 1 ELSE reader
      /\ ~(writer' = reader /\ reader = Slots - 1)
      /\ got' = got
  BY DEF Out, Roll, AfterPut
<1>3. CursorInv'
  BY <1>1, <1>2 DEF CursorInv
<1> DEFINE S == Data \cup {Nothing}
<1>4. /\ Content \in Seq(S) /\ Len(Content) = Unread
      /\ \A i \in 1..Unread : SlotOf(i) \in 0..(Slots - 1) /\ Content[i] = buffer[SlotOf(i)]
  BY ContentIs DEF ContentFacts
<1>5. /\ Content' \in Seq(S) /\ Len(Content') = Unread'
      /\ \A i \in 1..Unread' : /\ SlotOf(i)' \in 0..(Slots - 1)
                               /\ Content'[i] = buffer'[SlotOf(i)']
  <2>1. ContentFacts'
    BY <1>3, ContentIs, PTL
  <2> QED
    BY <2>1 DEF ContentFacts
<1>6. /\ Unread = IF writer >= reader THEN writer - reader ELSE writer + Slots - reader
      /\ Unread \in Nat /\ Unread < Slots
  BY <1>1, UnreadIs DEF UnreadFacts
<1>7. /\ Unread' = IF writer' >= reader' THEN writer' - reader' ELSE writer' + Slots - reader'
      /\ Unread' \in Nat
  <2>1. UnreadFacts'
    BY <1>3, UnreadIs, PTL
  <2> QED
    BY <2>1 DEF UnreadFacts
<1> HIDE DEF S
<1>8. CASE writer' # reader
  <2>1. Unread' = Unread + 1 /\ Unread < Slots - 1 /\ reader' = reader
    BY <1>1, <1>2, <1>6, <1>7, <1>8
  <2>2. ASSUME NEW i \in 1..Unread PROVE Content'[i] = Content[i]
    <3>1. SlotOf(i)' = SlotOf(i) /\ SlotOf(i) # writer
      BY <2>1, <1>1, <1>6 DEF SlotOf
    <3> QED
      BY <2>1, <3>1, <1>2, <1>4, <1>5, <1>6 DEF CursorInv
  <2>3. Content'[Unread + 1] = c
    <3>1. SlotOf(Unread)' = writer
      BY <2>1, <1>1, <1>6 DEF SlotOf
    <3> QED
      BY <2>1, <3>1, <1>1, <1>2, <1>5, <1>6 DEF CursorInv
  <2>4. c \in S
    BY DEF S
  <2>5. Content' = Append(Content, c)
    <3>1. /\ Append(Content, c) \in Seq(S) /\ Len(Append(Content, c)) = Unread + 1
          /\ \A i \in 1..Unread : Append(Content, c)[i] = Content[i]
          /\ Append(Content, c)[Unread + 1] = c
      BY <1>4, <2>4, AppendProperties
    <3>2. \A i \in 1..Len(Content') : Content'[i] = Append(Content, c)[i]
      BY <1>5, <1>6, <2>1, <2>2, <2>3, <3>1
    <3> QED
      BY <1>5, <2>1, <3>1, <3>2, SeqEqual
  <2> QED
    BY <1>2, <1>3, <1>4, <2>1, <2>5 DEF F!Put
<1>9. CASE writer' = reader
  <2>1. Unread = Slots - 1 /\ Unread' = Unread /\ reader' = reader + 1
    BY <1>1, <1>2, <1>6, <1>7, <1>9
  <2>2. Content # <<>>
    BY <1>1, <1>4, <2>1
  <2>3. /\ Tail(Content) \in Seq(S) /\ Len(Tail(Content)) = Unread - 1
        /\ \A i \in 1..(Unread - 1) : Tail(Content)[i] = Content[i + 1]
    BY <1>4, <2>2, HeadTailProperties
  <2>4. ASSUME NEW i \in 1..(Unread - 1) PROVE Content'[i] = Content[i + 1]
    <3>1. i + 1 \in 1..Unread /\ SlotOf(i)' = SlotOf(i + 1) /\ SlotOf(i + 1) # writer
      BY <2>1, <1>1, <1>2, <1>6, <1>9 DEF SlotOf
    <3> QED
      BY <2>1, <3>1, <1>2, <1>4, <1>5, <1>6 DEF CursorInv
  <2>5. Content'[Unread] = c
    <3>1. SlotOf(Unread)' = writer /\ Unread \in 1..Unread'
      BY <2>1, <1>1, <1>2, <1>6, <1>9 DEF SlotOf
    <3> QED
      BY <2>1, <3>1, <1>1, <1>2, <1>5, <1>6 DEF CursorInv
  <2>6. c \in S
    BY DEF S
  <2>7. Content' = Append(Tail(Content), c)
    <3>1. /\ Append(Tail(Content), c) \in Seq(S) /\ Len(Append(Tail(Content), c)) = Unread
          /\ \A i \in 1..(Unread - 1) : Append(Tail(Content), c)[i] = Tail(Content)[i]
          /\ Append(Tail(Content), c)[Unread] = c
      BY <1>6, <2>3, <2>6, AppendProperties
    <3>2. ASSUME NEW i \in 1..Unread PROVE Content'[i] = Append(Tail(Content), c)[i]
      <4>1. CASE i = Unread
        BY <2>5, <3>1, <4>1
      <4>2. CASE i # Unread
        <5>1. i \in 1..(Unread - 1)
          BY <1>6, <4>2
        <5> QED
          BY <2>3, <2>4, <3>1, <5>1
      <4> QED
        BY <4>1, <4>2
    <3> QED
      BY <1>5, <2>1, <3>1, <3>2, SeqEqual
  <2> QED
    BY <1>1, <1>2, <1>3, <1>4, <2>1, <2>7 DEF F!Put
<1> QED
  BY <1>8, <1>9

\* A reader takes the first character.
LEMMA TakeTakes ==
  ASSUME CursorInv, NEW t \in Reader, Take(t), UNCHANGED <<buffer, writer>>
  PROVE  CursorInv' /\ F!Take(t)
<1>1. /\ Slots \in Nat /\ Slots >= 2
      /\ reader \in Nat /\ reader < Slots /\ writer \in Nat /\ writer < Slots
  BY RingBufferAssumption DEF CursorInv
<1>2. /\ writer # reader
      /\ got' = [got EXCEPT ![t] = buffer[reader]]
      /\ reader' = IF reader + 1 = Slots THEN 0 ELSE reader + 1
      /\ buffer' = buffer /\ writer' = writer
  BY <1>1 DEF Take, Empty, Roll
<1>3. CursorInv'
  BY <1>1, <1>2 DEF CursorInv
<1> DEFINE S == Data \cup {Nothing}
<1>4. /\ Content \in Seq(S) /\ Len(Content) = Unread
      /\ \A i \in 1..Unread : SlotOf(i) \in 0..(Slots - 1) /\ Content[i] = buffer[SlotOf(i)]
  BY ContentIs DEF ContentFacts
<1>5. /\ Content' \in Seq(S) /\ Len(Content') = Unread'
      /\ \A i \in 1..Unread' : /\ SlotOf(i)' \in 0..(Slots - 1)
                               /\ Content'[i] = buffer'[SlotOf(i)']
  <2>1. ContentFacts'
    BY <1>3, ContentIs, PTL
  <2> QED
    BY <2>1 DEF ContentFacts
<1>6. /\ Unread = IF writer >= reader THEN writer - reader ELSE writer + Slots - reader
      /\ Unread \in Nat /\ Unread < Slots
  BY <1>1, UnreadIs DEF UnreadFacts
<1>7. /\ Unread' = IF writer' >= reader' THEN writer' - reader' ELSE writer' + Slots - reader'
      /\ Unread' \in Nat
  <2>1. UnreadFacts'
    BY <1>3, UnreadIs, PTL
  <2> QED
    BY <2>1 DEF UnreadFacts
<1> HIDE DEF S
<1>8. Unread' = Unread - 1 /\ Unread >= 1
  BY <1>1, <1>2, <1>6, <1>7
<1>9. Content # <<>> /\ Head(Content) = buffer[reader]
  <2>1. SlotOf(1) = reader
    BY <1>1 DEF SlotOf
  <2> QED
    BY <2>1, <1>4, <1>6, <1>8
<1>10. Content' = Tail(Content)
  <2>1. /\ Tail(Content) \in Seq(S) /\ Len(Tail(Content)) = Unread - 1
        /\ \A i \in 1..(Unread - 1) : Tail(Content)[i] = Content[i + 1]
    BY <1>4, <1>9, HeadTailProperties
  <2>2. ASSUME NEW i \in 1..(Unread - 1) PROVE Content'[i] = Content[i + 1]
    <3>1. i + 1 \in 1..Unread /\ SlotOf(i)' = SlotOf(i + 1)
      BY <1>1, <1>2, <1>6, <1>8 DEF SlotOf
    <3> QED
      BY <1>2, <1>4, <1>5, <1>8, <3>1
  <2> QED
    BY <1>5, <1>8, <2>1, <2>2, SeqEqual
<1> QED
  BY <1>2, <1>3, <1>9, <1>10 DEF F!Take

\* What neither puts nor takes leaves the content alone.
LEMMA ContentKept ==
  ASSUME CursorInv, UNCHANGED <<buffer, reader, writer>>
  PROVE  CursorInv' /\ Content' = Content
BY DEF CursorInv, Content, Unread

LEMMA FifoStep ==
  ~Overruns /\ CursorInv /\ [Next]_vars => CursorInv' /\ [F!Next]_(F!vars)
<1> SUFFICES ASSUME ~Overruns, CursorInv, [Next]_vars
             PROVE  CursorInv' /\ [F!Next]_(F!vars)
  OBVIOUS
<1>1. ASSUME NEW c \in Data, Out(c) PROVE CursorInv' /\ F!Next
  BY <1>1, OutPuts DEF F!Next
<1>2. ASSUME NEW t \in Reader, In(t) PROVE CursorInv' /\ F!Next
  <2>1. CASE Take(t)
    BY <1>2, <2>1, TakeTakes DEF In, F!Next
  <2>2. CASE Wait(t, queue) /\ UNCHANGED reader
    BY <1>2, <2>2, ContentKept DEF In, Wait, F!Next, F!Ask
  <2> QED
    BY <1>2, <2>1, <2>2 DEF In
<1>3. ASSUME NEW t \in Reader, Woken(t) PROVE CursorInv' /\ F!Next
  <2>1. CASE Take(t)
    BY <1>3, <2>1, TakeTakes DEF Woken, F!Next
  <2>2. CASE Wait(t, ListDelete(queue, t)) /\ UNCHANGED reader
    BY <1>3, <2>2, ContentKept DEF Woken, Wait, F!Next, F!Ask
  <2> QED
    BY <1>3, <2>1, <2>2 DEF Woken
<1>4. ASSUME NEW t \in Reader,
             Interrupted(t) \/ Signal(t) \/ TakeSignal(t) \/ SpuriousWake(t)
      PROVE  CursorInv' /\ UNCHANGED F!vars
  <2>1. UNCHANGED <<buffer, reader, writer, got>>
    BY <1>4 DEF Interrupted, Signal, TakeSignal, SpuriousWake
  <2> QED
    BY <2>1, ContentKept DEF F!vars
<1>5. CASE UNCHANGED vars
  <2>1. UNCHANGED <<buffer, reader, writer, got>>
    BY <1>5 DEF vars
  <2> QED
    BY <2>1, ContentKept DEF F!vars
<1> QED
  BY <1>1, <1>2, <1>3, <1>4, <1>5, RingBufferAssumption DEF Next

\* A RingBuffer is the queue that Fifo describes: characters come out in order,
\* each to one reader, and only a full buffer drops one, the oldest.
THEOREM RingBufferIsFifo ==
  ASSUME ~Overruns
  PROVE  Spec => DropsOldest
<1>1. Init => F!Init
  <2> SUFFICES ASSUME Init PROVE F!Init
    OBVIOUS
  <2>1. CursorInv /\ Empty
    BY CursorInit DEF Init, Empty
  <2>2. Content \in Seq(Data \cup {Nothing}) /\ Len(Content) = 0
    BY <2>1, UnreadIs, ContentIs DEF UnreadFacts, ContentFacts
  <2> QED
    BY <2>2, EmptySeq DEF Init, F!Init
<1> QED
  BY <1>1, CursorInit, FifoStep, PTL DEF Spec, DropsOldest, F!Spec

-----------------------------------------------------------------------------
(* Terminal takes only steps of its RingBuffer, so that what holds of one  *)
(* holds of the other.                                                     *)

LEMMA TerminalStep == [TerminalNext]_tvars => [Next]_vars
<1> SUFFICES ASSUME [TerminalNext]_tvars PROVE [Next]_vars
  OBVIOUS
<1> USE DEF Next
<1>1. CASE \/ \E k \in Key : Press(k)
           \/ \E resend \in BOOLEAN : Answers(resend)
  BY <1>1 DEF Press, Answers
<1>2. CASE KeyboardTask
  <2>1. CASE HearModifier
    BY <2>1 DEF HearModifier
  <2>2. CASE SetLED
    BY <2>2 DEF SetLED, Send
  <2>3. CASE HearInterrupt
    BY <2>3 DEF HearInterrupt
  <2>4. CASE HearCharacter
    BY <2>4, TerminalAssumption DEF HearCharacter
  <2> QED
    BY <1>2, <2>1, <2>2, <2>3, <2>4 DEF KeyboardTask
<1>3. ASSUME NEW t \in Reader,
             \/ \E n \in Sizes : Read(t, n)
             \/ NextCharacter(t) \/ ReadInterrupted(t) \/ ReadReturns(t)
             \/ SpuriousWake(t) /\ Others
      PROVE  [Next]_vars
  BY <1>3 DEF Read, NextCharacter, ReadInterrupted, ReadReturns
<1>4. ASSUME NEW t \in Signalled,
             \/ Signal(t) /\ Others
             \/ place[t] = "out" /\ TakeSignal(t) /\ Others
      PROVE  [Next]_vars
  BY <1>4
<1>5. CASE UNCHANGED tvars
  BY <1>5 DEF tvars
<1> QED
  BY <1>1, <1>2, <1>3, <1>4, <1>5 DEF TerminalNext

THEOREM TerminalIsRingBuffer == TerminalSpec => Spec
<1>1. TerminalInit => Init
  BY DEF TerminalInit
<1> QED
  BY <1>1, TerminalStep, PTL DEF TerminalSpec, Spec

\* The readers' queue is right, however lines are read, edited and interrupted.
THEOREM TerminalQueueIsSound == TerminalSpec => []QueueSound
BY TerminalIsRingBuffer, QueueIsSound, PTL

\* No reader of the terminal sleeps with all others on an unread character.
THEOREM NobodySleepsOnTyping ==
  ASSUME Reader # {}
  PROVE  TerminalSpec => []NoSleepOnData
BY TerminalIsRingBuffer, NobodySleepsOnData, PTL

\* What was typed is read in that order, and only the oldest is lost.
THEOREM TypingIsFifo ==
  ASSUME ~Overruns
  PROVE  TerminalSpec => DropsOldest
BY TerminalIsRingBuffer, RingBufferIsFifo, PTL

-----------------------------------------------------------------------------
(* ttyRead().                                                              *)

\* What a read has stored of its line, and the room that is left: in the loop
\* there is always room for a character, the line feed and the final 0.
LineOf(t) ==
  /\ size[t] \in Nat /\ data[t] \in Nat /\ count[t] \in Nat
  /\ place[t] = "out" => count[t] = 0
  /\ place[t] = "line" => data[t] >= 3 /\ data[t] + count[t] = size[t]
  /\ place[t] = "end" => count[t] < size[t]

LineInv ==
  /\ place \in [Reader -> {"out", "line", "end"}]
  /\ size \in [Reader -> Nat] /\ data \in [Reader -> Nat] /\ count \in [Reader -> Nat]
  /\ \A t \in Reader : LineOf(t)

LEMMA ReturnsKeepLine ==
  ASSUME LineInv, NEW t \in Reader, Returns(t)
  PROVE  LineInv'
BY DEF Returns, LineInv, LineOf

LEMMA EditKeepsLine ==
  ASSUME LineInv, NEW t \in Reader, NEW c, place[t] = "line", Edit(t, c)
  PROVE  LineInv'
<1>1. /\ size[t] \in Nat /\ data[t] \in Nat /\ count[t] \in Nat
      /\ data[t] >= 3 /\ data[t] + count[t] = size[t]
  BY DEF LineInv, LineOf
<1>2. CASE Returns(t)
  BY <1>2, ReturnsKeepLine
<1>3. CASE count[t] > 0 /\ Erase(t)
  BY <1>1, <1>3 DEF Erase, LineInv, LineOf
<1>4. CASE UNCHANGED readVars
  BY <1>4 DEF readVars, LineInv, LineOf
<1>5. CASE Store(t, c)
  <2>1. CASE data[t] = 3 \/ c = Newline
    <3>1. /\ place' = [place EXCEPT ![t] = "end"] /\ size' = size
          /\ data' = [data EXCEPT ![t] = @ - 1]
          /\ count' = [count EXCEPT ![t] = @ + 1] \/ count' = [count EXCEPT ![t] = @ + 2]
      BY <1>5, <2>1 DEF Store
    <3>2. count[t] + 2 < size[t]
      BY <1>1
    <3> QED
      BY <1>1, <3>1, <3>2 DEF LineInv, LineOf
  <2>2. CASE ~(data[t] = 3 \/ c = Newline)
    <3>1. /\ place' = [place EXCEPT ![t] = "line"] /\ size' = size
          /\ data' = [data EXCEPT ![t] = @ - 1]
          /\ count' = [count EXCEPT ![t] = @ + 1]
      BY <1>5, <2>2 DEF Store
    <3> QED
      BY <1>1, <2>2, <3>1 DEF LineInv, LineOf
  <2> QED
    BY <2>1, <2>2
<1> QED
  BY <1>2, <1>3, <1>4, <1>5 DEF Edit

LEMMA LineStep == LineInv /\ [TerminalNext]_tvars => LineInv'
<1> SUFFICES ASSUME LineInv, [TerminalNext]_tvars PROVE LineInv'
  OBVIOUS
<1>1. CASE UNCHANGED readVars
  BY <1>1 DEF readVars, LineInv, LineOf
<1>2. ASSUME NEW t \in Reader, NEW n \in Sizes, Read(t, n) PROVE LineInv'
  <2>1. n \in Nat /\ n >= 3
    BY <1>2, TerminalAssumption DEF Read
  <2> QED
    BY <1>2, <2>1 DEF Read, LineInv, LineOf
<1>3. ASSUME NEW t \in Reader, NextCharacter(t) PROVE LineInv'
  BY <1>1, <1>3, EditKeepsLine DEF NextCharacter
<1>4. ASSUME NEW t \in Reader, ReadInterrupted(t) \/ ReadReturns(t) PROVE LineInv'
  BY <1>4, ReturnsKeepLine DEF ReadInterrupted, ReadReturns
<1>5. ASSUME \/ \E k \in Key : Press(k)
             \/ \E resend \in BOOLEAN : Answers(resend)
             \/ KeyboardTask
             \/ Others
      PROVE  UNCHANGED readVars
  BY <1>5 DEF Press, Answers, KeyboardTask, HearModifier, SetLED, Send, HearInterrupt,
    HearCharacter, Others
<1>6. CASE UNCHANGED tvars
  BY <1>1, <1>6 DEF tvars
<1> QED
  BY <1>1, <1>2, <1>3, <1>4, <1>5, <1>6 DEF TerminalNext

\* A read stays within the program's buffer, however long the buffer is, how the
\* line is edited and where it is interrupted.
THEOREM ReadsFit == TerminalSpec => []ReadFits
<1>1. TerminalInit => LineInv
  BY DEF TerminalInit, LineInv, LineOf
<1>2. LineInv => ReadFits
  BY DEF LineInv, LineOf, ReadFits
<1> QED
  BY <1>1, <1>2, LineStep, PTL DEF TerminalSpec

-----------------------------------------------------------------------------
(* Files: counting.                                                        *)

LEMMA FilesFinite == IsFiniteSet(Task) /\ IsFiniteSet(Fd) /\ IsFiniteSet(FileId)
BY FilesAssumption

\* 1 for a member, else 0.
Has(x, A) == IF x \in A THEN 1 ELSE 0

\* Sets that differ at one element at most.
LEMMA CountChange ==
  ASSUME NEW T, IsFiniteSet(T), NEW A \in SUBSET T, NEW B \in SUBSET T, NEW x,
         \A y \in T : y # x => (y \in A <=> y \in B)
  PROVE  /\ Cardinality(A) \in Nat /\ Cardinality(B) \in Nat
         /\ Cardinality(B) = Cardinality(A) - Has(x, A) + Has(x, B)
<1> DEFINE C == A \ {x}
<1>1. IsFiniteSet(A) /\ IsFiniteSet(B)
  BY FS_Subset
<1>2. B \ {x} = C
  OBVIOUS
<1>3. Cardinality(A) \in Nat /\ Cardinality(B) \in Nat
  BY <1>1, FS_CardinalityType
<1>4. Cardinality(C) = Cardinality(A) - Has(x, A)
  <2>1. Cardinality(A \ {x}) = IF x \in A THEN Cardinality(A) - 1 ELSE Cardinality(A)
    BY <1>1, FS_RemoveElement
  <2> QED
    BY <1>3, <2>1 DEF Has
<1>5. Cardinality(C) = Cardinality(B) - Has(x, B)
  <2>1. Cardinality(B \ {x}) = IF x \in B THEN Cardinality(B) - 1 ELSE Cardinality(B)
    BY <1>1, FS_RemoveElement
  <2> QED
    BY <1>2, <1>3, <2>1 DEF Has
<1> HIDE DEF C
<1>6. Has(x, A) \in Nat /\ Has(x, B) \in Nat
  BY DEF Has
<1> QED
  BY <1>3, <1>4, <1>5, <1>6

\* Where a table of descriptors has f, in all and in the row of t.
Table(H, f) == {x \in Task \X Fd : H[x[1]][x[2]] = f}
Line(H, t, f) == {i \in Fd : H[t][i] = f}

\* Tables that differ in one row at most.
Alike(Was, Now, t) == \A u \in Task : u # t => Was[u] = Now[u]

LEMMA RowChange ==
  ASSUME NEW Was, NEW Now, NEW t \in Task, NEW f, Alike(Was, Now, t)
  PROVE  /\ Cardinality(Table(Was, f)) \in Nat /\ Cardinality(Table(Now, f)) \in Nat
         /\ Cardinality(Line(Was, t, f)) \in Nat /\ Cardinality(Line(Now, t, f)) \in Nat
         /\ Cardinality(Table(Now, f)) =
              Cardinality(Table(Was, f)) - Cardinality(Line(Was, t, f)) + Cardinality(Line(Now, t, f))
<1> DEFINE S == Task
           I == Fd
           All(H) == Table(H, f)
           Row(H) == Line(H, t, f)
           Rest(H) == {x \in S \X I : x[1] # t /\ H[x[1]][x[2]] = f}
<1>1. IsFiniteSet(S \X I) /\ IsFiniteSet(I)
  BY FilesFinite, FS_Product
<1>2. ASSUME NEW H
      PROVE  /\ Cardinality(All(H)) = Cardinality(Rest(H)) + Cardinality(Row(H))
             /\ Cardinality(All(H)) \in Nat /\ Cardinality(Rest(H)) \in Nat
             /\ Cardinality(Row(H)) \in Nat
  <2> DEFINE P == {t} \X Row(H)
  <2>1. IsFiniteSet(Rest(H)) /\ IsFiniteSet(Row(H)) /\ IsFiniteSet(All(H))
    <3>1. Rest(H) \subseteq S \X I /\ Row(H) \subseteq I /\ All(H) \subseteq S \X I
      BY DEF Table, Line
    <3> QED
      BY <1>1, <3>1, FS_Subset
  <2>2. All(H) = Rest(H) \cup P /\ Rest(H) \cap P = {}
    <3>1. ASSUME NEW x \in All(H) PROVE x \in Rest(H) \cup P
      <4>1. x = <<x[1], x[2]>> /\ x[1] \in S /\ x[2] \in I /\ H[x[1]][x[2]] = f
        BY DEF Table
      <4>2. CASE x[1] = t
        BY <4>1, <4>2 DEF Line
      <4>3. CASE x[1] # t
        BY <4>1, <4>3
      <4> QED
        BY <4>2, <4>3
    <3>2. ASSUME NEW x \in P PROVE x \in All(H) /\ x \notin Rest(H)
      <4>1. PICK i \in Row(H) : x = <<t, i>>
        OBVIOUS
      <4>2. x[1] = t /\ x[2] = i /\ x \in S \X I /\ H[t][i] = f
        BY <4>1 DEF Line
      <4> QED
        BY <4>1, <4>2 DEF Table
    <3>3. Rest(H) \subseteq All(H)
      BY DEF Table
    <3> QED
      BY <3>1, <3>2, <3>3
  <2>3. IsFiniteSet(P) /\ Cardinality(P) = Cardinality(Row(H))
    <3>1. IsFiniteSet({t}) /\ Cardinality({t}) = 1
      BY FS_Singleton
    <3>2. IsFiniteSet(P) /\ Cardinality(P) = Cardinality({t}) * Cardinality(Row(H))
      BY <2>1, <3>1, FS_Product
    <3>3. Cardinality(Row(H)) \in Nat
      BY <2>1, FS_CardinalityType
    <3> HIDE DEF P, Row
    <3> QED
      BY <3>1, <3>2, <3>3
  <2>4. Cardinality(Rest(H)) \in Nat /\ Cardinality(Row(H)) \in Nat /\ Cardinality(All(H)) \in Nat
    BY <2>1, FS_CardinalityType
  <2> HIDE DEF P, Rest, Row, All
  <2>5. Cardinality(Rest(H) \cup P) =
          Cardinality(Rest(H)) + Cardinality(P) - Cardinality(Rest(H) \cap P)
    BY <2>1, <2>3, FS_Union
  <2>6. Cardinality(Rest(H) \cap P) = 0
    BY <2>2, FS_EmptySet
  <2>7. Cardinality(All(H)) = Cardinality(Rest(H)) + Cardinality(Row(H))
    BY <2>2, <2>3, <2>4, <2>5, <2>6
  <2> QED
    BY <2>4, <2>7
<1>3. Rest(Was) = Rest(Now)
  <2>1. ASSUME NEW x \in S \X I, x[1] # t PROVE Was[x[1]] = Now[x[1]]
    BY <2>1 DEF Alike
  <2> QED
    BY <2>1
<1> HIDE DEF All, Row, Rest
<1>4. /\ Cardinality(All(Was)) = Cardinality(Rest(Was)) + Cardinality(Row(Was))
      /\ Cardinality(All(Was)) \in Nat /\ Cardinality(Rest(Was)) \in Nat
      /\ Cardinality(Row(Was)) \in Nat
  BY <1>2
<1>5. /\ Cardinality(All(Now)) = Cardinality(Rest(Now)) + Cardinality(Row(Now))
      /\ Cardinality(Row(Now)) \in Nat
  BY <1>2
<1>6. Cardinality(All(Now)) = Cardinality(All(Was)) - Cardinality(Row(Was)) + Cardinality(Row(Now))
  BY <1>3, <1>4, <1>5
<1> QED
  BY <1>4, <1>5, <1>6 DEF All, Row

-----------------------------------------------------------------------------
(* The tree, and the entries a reference counts in.                        *)

LEMMA PlaceType == \A n \in Node : Place(n) \in Node
BY FilesAssumption, TreeAssumption DEF Place

LEMMA CountedNowhere == Counted[NoNode] = {} /\ \A d : Load(NoNode, d) = 0
BY DEF Counted, Load

LEMMA CountedType == \A n \in Node \cup {NoNode} : Counted[n] \subseteq Node
BY DEF Counted

\* A reference counts at its place, and wherever one to what is above counts.
LEMMA CountedUp ==
  ASSUME NEW n \in Node
  PROVE  Counted[n] = {Place(n)} \cup Counted[Up[Place(n)]]
<1> DEFINE p == Place(n)
           m == Up[p]
<1>1. p \in Node /\ m \in Node \cup {NoNode}
  BY PlaceType, TreeAssumption
<1> HIDE DEF p, m
<1>2. \A x \in Node, d \in Node :
        d \in Counted[x] <=> \A S \in SUBSET Node : Place(x) \in S /\ GoesUp(S) => d \in S
  BY FilesAssumption DEF Counted
<1>3. p = Place(n) /\ m = Up[p]
  BY DEF p, m
<1>4. ASSUME NEW d \in Counted[n] PROVE d \in {p} \cup Counted[m]
  <2> DEFINE U == {p} \cup Counted[m]
  <2>1. U \in SUBSET Node /\ p \in U
    BY <1>1, CountedType
  <2>2. ASSUME NEW e \in U, Up[e] # NoNode PROVE Place(Up[e]) \in U
    <3>0. e \in Node /\ Up[e] \in Node /\ Place(Up[e]) \in Node
      BY <2>1, <2>2, PlaceType, TreeAssumption
    <3>1. CASE e = p
      <4>1. m \in Node /\ Up[e] = m
        BY <1>3, <3>0, <3>1
      <4> QED
        BY <1>2, <3>0, <4>1
    <3>2. CASE e \in Counted[m]
      <4>1. m \in Node
        BY <1>1, <3>2, CountedNowhere
      <4>2. ASSUME NEW S \in SUBSET Node, Place(m) \in S, GoesUp(S) PROVE Place(Up[e]) \in S
        <5>1. e \in S
          BY <1>2, <3>0, <3>2, <4>1, <4>2
        <5> QED
          BY <2>2, <4>2, <5>1 DEF GoesUp
      <4> QED
        BY <1>2, <3>0, <4>1, <4>2
    <3> QED
      BY <2>2, <3>1, <3>2
  <2>3. GoesUp(U)
    BY <2>2 DEF GoesUp
  <2>4. d \in Node
    BY <1>4, CountedType
  <2> HIDE DEF U
  <2>5. d \in U
    BY <1>2, <1>3, <1>4, <2>1, <2>3, <2>4
  <2> QED
    BY <2>5 DEF U
<1>5. p \in Counted[n]
  BY <1>1, <1>2, <1>3
<1>6. ASSUME NEW d \in Counted[m] PROVE d \in Counted[n]
  <2>1. m \in Node /\ d \in Node
    BY <1>1, <1>6, CountedNowhere, CountedType
  <2>2. ASSUME NEW S \in SUBSET Node, p \in S, GoesUp(S) PROVE d \in S
    <3>1. m # NoNode
      BY <2>1, FilesAssumption
    <3>2. Place(m) \in S
      BY <1>3, <2>2, <3>1 DEF GoesUp
    <3> QED
      BY <1>2, <1>6, <2>1, <2>2, <3>2
  <2> QED
    BY <1>2, <1>3, <2>1, <2>2
<1> QED
  BY <1>3, <1>4, <1>5, <1>6

\* What the steps of a walk do to the count of an entry.
LEMMA Loads ==
  ASSUME NEW d \in Node
  PROVE  /\ \A n \in Node \cup {NoNode} : Load(n, d) \in {0, 1}
         /\ Load(Root, d) = IF d = Base THEN 1 ELSE 0
         /\ \A n \in Node \ {Base, Root, DevRoot} :
              Load(n, d) = Load(Up[n], d) + (IF d = n THEN 1 ELSE 0)
         /\ Load(DevRoot, d) =
              Load(Up[Point[DevRoot]], d) + (IF d = Point[DevRoot] THEN 1 ELSE 0)
<1>1. \A n \in Node \cup {NoNode} : Load(n, d) \in {0, 1}
  BY DEF Load
<1>2. Load(Root, d) = IF d = Base THEN 1 ELSE 0
  <2>1. Root \in Node /\ Place(Root) = Base /\ Up[Base] = NoNode
    BY FilesAssumption, TreeAssumption DEF Place
  <2>2. Counted[Root] = {Base}
    BY <2>1, CountedUp, CountedNowhere
  <2> QED
    BY <2>2 DEF Load
<1>3. ASSUME NEW n \in Node \ {Base, Root, DevRoot}
      PROVE  Load(n, d) = Load(Up[n], d) + (IF d = n THEN 1 ELSE 0)
  <2>1. Place(n) = n /\ n \notin Counted[Up[n]]
    BY TreeAssumption DEF Place
  <2>2. Counted[n] = {n} \cup Counted[Up[n]]
    BY <2>1, CountedUp
  <2> QED
    BY <2>1, <2>2 DEF Load
<1>4. Load(DevRoot, d) = Load(Up[Point[DevRoot]], d) + (IF d = Point[DevRoot] THEN 1 ELSE 0)
  <2> DEFINE p == Point[DevRoot]
  <2>1. p \in Node \ {Base, Root, DevRoot} /\ DevRoot \in Node /\ Place(DevRoot) = p
    BY FilesAssumption, TreeAssumption DEF Place
  <2>2. p \notin Counted[Up[p]]
    BY <2>1, TreeAssumption
  <2>3. Counted[DevRoot] = {p} \cup Counted[Up[p]]
    BY <2>1, CountedUp
  <2> HIDE DEF p
  <2>4. Load(DevRoot, d) = Load(Up[p], d) + (IF d = p THEN 1 ELSE 0)
    BY <2>2, <2>3 DEF Load
  <2> QED
    BY <2>4 DEF p
<1> QED
  BY <1>1, <1>2, <1>3, <1>4

-----------------------------------------------------------------------------
(* Files: the inductive invariant.                                         *)

\* Where tasks stand: never at Base, on which Root is mounted.
Stand == (Node \ {Base}) \cup {NoNode}

FilesType ==
  /\ Root \in mounts /\ mounts \subseteq {Root, DevRoot}
  /\ ref \in [Node -> Int] /\ stray \in [Node -> Nat]
  /\ pwd \in [Task -> Stand]
  /\ fd \in [Task -> [Fd -> FileId \cup {NoFile}]]
  /\ exec \in [Task -> FileId \cup {NoFile}]
  /\ file \in [FileId -> [ref : Nat, node : Stand, seek : Int, cloexec : BOOLEAN]]
  /\ walk \in [Task -> [kind : {"none", "open", "exec", "chdir"},
                        mode : {"read", "write", "directory", "cloexec"},
                        at : Stand, rest : Seq(Node \cup {".."})]]

\* Who does not exist has nothing, who walks is somewhere and has room for what
\* it opens, and what is not open has no entry.
FilesSound ==
  /\ \A t \in Task : ~Alive(t) =>
       walk[t] = NoWalk /\ exec[t] = NoFile /\ \A i \in Fd : fd[t][i] = NoFile
  /\ \A t \in Task : walk[t] # NoWalk => walk[t].at # NoNode
  /\ \A t \in Task : walk[t].kind = "open" => FreeFd(t) # {}
  /\ \A f \in FileId : file[f].ref = 0 <=> file[f].node = NoNode

\* The parts of CountsExact.
Roots(d) == {t \in Task : Alive(t) /\ d \in Counted[Root]}
Dirs(d) == {t \in Task : d \in Counted[pwd[t]]}
Paths(d) == {t \in Task : d \in Counted[walk[t].at]}
Opened(d) == {f \in FileId : d \in Counted[file[f].node]}
MountPoints(d) == {m \in mounts \ {Root} : d \in Counted[Point[m]]}
EntriesExact ==
  \A d \in Node :
    ref[d] = (IF d = Base THEN 1 ELSE 0) + stray[d]
             + Cardinality(Roots(d)) + Cardinality(Dirs(d)) + Cardinality(Paths(d))
             + Cardinality(Opened(d)) + Cardinality(MountPoints(d))

Descs(f) == {x \in Task \X Fd : fd[x[1]][x[2]] = f}
Progs(f) == {t \in Task : exec[t] = f}
FilesExact == \A f \in FileId : file[f].ref = Cardinality(Descs(f)) + Cardinality(Progs(f))

FilesInv == FilesType /\ FilesSound /\ EntriesExact /\ FilesExact

LEMMA CountsParts == CountsExact <=> EntriesExact /\ FilesExact
BY DEF CountsExact, EntriesExact, FilesExact, Roots, Dirs, Paths, Opened, MountPoints, Descs, Progs

-----------------------------------------------------------------------------
(* What a step changes in the counts of the entries.                       *)

Tallies(d) ==
  /\ Cardinality(Roots(d)) \in Nat /\ Cardinality(Dirs(d)) \in Nat
  /\ Cardinality(Paths(d)) \in Nat /\ Cardinality(Opened(d)) \in Nat
  /\ Cardinality(MountPoints(d)) \in Nat

LEMMA SizesNat == ASSUME FilesType, NEW d PROVE Tallies(d)
<1>1. /\ Roots(d) \in SUBSET Task /\ Dirs(d) \in SUBSET Task /\ Paths(d) \in SUBSET Task
      /\ Opened(d) \in SUBSET FileId /\ MountPoints(d) \in SUBSET {Root, DevRoot}
  BY DEF Roots, Dirs, Paths, Opened, MountPoints, FilesType
<1>2. IsFiniteSet({Root, DevRoot})
  <2>1. {Root, DevRoot} = {Root} \cup {DevRoot}
    OBVIOUS
  <2>2. IsFiniteSet({Root}) /\ IsFiniteSet({DevRoot})
    BY FS_Singleton
  <2>3. IsFiniteSet({Root} \cup {DevRoot})
    BY <2>2, FS_Union
  <2> QED
    BY <2>1, <2>3
<1>3. /\ IsFiniteSet(Roots(d)) /\ IsFiniteSet(Dirs(d)) /\ IsFiniteSet(Paths(d))
      /\ IsFiniteSet(Opened(d)) /\ IsFiniteSet(MountPoints(d))
  BY <1>1, <1>2, FilesFinite, FS_Subset
<1> QED
  BY <1>3, FS_CardinalityType DEF Tallies

\* Only t walks on.
LEMMA PathsStep ==
  ASSUME FilesType, FilesType', NEW t \in Task, \A u \in Task : u # t => walk'[u] = walk[u], NEW d
  PROVE  Cardinality(Paths(d)') = Cardinality(Paths(d)) - Load(walk[t].at, d) + Load(walk'[t].at, d)
<1>1. Paths(d) \in SUBSET Task /\ Paths(d)' \in SUBSET Task
  BY DEF Paths
<1>2. \A u \in Task : u # t => (u \in Paths(d) <=> u \in Paths(d)')
  BY DEF Paths
<1>3. Has(t, Paths(d)) = Load(walk[t].at, d) /\ Has(t, Paths(d)') = Load(walk'[t].at, d)
  BY DEF Has, Paths, Load
<1> HIDE DEF Paths
<1> QED
  BY <1>1, <1>2, <1>3, FilesFinite, CountChange

LEMMA DirsStep ==
  ASSUME FilesType, FilesType', NEW t \in Task, \A u \in Task : u # t => pwd'[u] = pwd[u], NEW d
  PROVE  /\ Cardinality(Dirs(d)') = Cardinality(Dirs(d)) - Load(pwd[t], d) + Load(pwd'[t], d)
         /\ Cardinality(Roots(d)') = Cardinality(Roots(d))
              - (IF Alive(t) THEN Load(Root, d) ELSE 0) + (IF Alive(t)' THEN Load(Root, d) ELSE 0)
<1>1. /\ Dirs(d) \in SUBSET Task /\ Dirs(d)' \in SUBSET Task
      /\ Roots(d) \in SUBSET Task /\ Roots(d)' \in SUBSET Task
  BY DEF Dirs, Roots
<1>2. /\ \A u \in Task : u # t => (u \in Dirs(d) <=> u \in Dirs(d)')
      /\ \A u \in Task : u # t => (u \in Roots(d) <=> u \in Roots(d)')
  BY DEF Dirs, Roots, Alive
<1>3. Has(t, Dirs(d)) = Load(pwd[t], d) /\ Has(t, Dirs(d)') = Load(pwd'[t], d)
  BY DEF Has, Dirs, Load
<1>4. /\ Has(t, Roots(d)) = IF Alive(t) THEN Load(Root, d) ELSE 0
      /\ Has(t, Roots(d)') = IF Alive(t)' THEN Load(Root, d) ELSE 0
  BY DEF Has, Roots, Load
<1>5. Cardinality(Dirs(d)') = Cardinality(Dirs(d)) - Load(pwd[t], d) + Load(pwd'[t], d)
  BY <1>1, <1>2, <1>3, FilesFinite, CountChange
<1>6. Cardinality(Roots(d)') = Cardinality(Roots(d)) - Has(t, Roots(d)) + Has(t, Roots(d)')
  BY <1>1, <1>2, FilesFinite, CountChange
<1> QED
  BY <1>4, <1>5, <1>6

\* Only f is opened.
LEMMA OpenedStep ==
  ASSUME FilesType, FilesType', NEW f \in FileId,
         \A g \in FileId : g # f => file'[g].node = file[g].node, NEW d
  PROVE  Cardinality(Opened(d)') =
           Cardinality(Opened(d)) - Load(file[f].node, d) + Load(file'[f].node, d)
<1>1. Opened(d) \in SUBSET FileId /\ Opened(d)' \in SUBSET FileId
  BY DEF Opened
<1>2. \A g \in FileId : g # f => (g \in Opened(d) <=> g \in Opened(d)')
  BY DEF Opened
<1>3. Has(f, Opened(d)) = Load(file[f].node, d) /\ Has(f, Opened(d)') = Load(file'[f].node, d)
  BY DEF Has, Opened, Load
<1> QED
  BY <1>1, <1>2, <1>3, FilesFinite, CountChange

LEMMA EntriesStay ==
  /\ UNCHANGED walk => \A d : Paths(d)' = Paths(d)
  /\ UNCHANGED pwd => \A d : Dirs(d)' = Dirs(d) /\ Roots(d)' = Roots(d)
  /\ (\A f \in FileId : file'[f].node = file[f].node) => \A d : Opened(d)' = Opened(d)
  /\ UNCHANGED mounts => \A d : MountPoints(d)' = MountPoints(d)
<1>1. UNCHANGED walk => \A d : Paths(d)' = Paths(d)
  BY DEF Paths
<1>2. UNCHANGED pwd => \A d : Dirs(d)' = Dirs(d) /\ Roots(d)' = Roots(d)
  BY DEF Dirs, Roots, Alive
<1>3. (\A f \in FileId : file'[f].node = file[f].node) => \A d : Opened(d)' = Opened(d)
  BY DEF Opened
<1>4. UNCHANGED mounts => \A d : MountPoints(d)' = MountPoints(d)
  BY DEF MountPoints
<1> QED
  BY <1>1, <1>2, <1>3, <1>4

-----------------------------------------------------------------------------
(* Walking a path.                                                         *)

\* Steps that move t along its path, and the counts with it.
Walks(t) ==
  /\ \A u \in Task : u # t => walk'[u] = walk[u]
  /\ UNCHANGED <<mounts, stray, pwd, fd, exec, file>>

LEMMA WalkCounts ==
  ASSUME FilesInv, FilesType', NEW t \in Task, Walks(t),
         \A d \in Node : ref'[d] = ref[d] - Load(walk[t].at, d) + Load(walk'[t].at, d)
  PROVE  EntriesExact' /\ FilesExact'
<1>1. ASSUME NEW d \in Node
      PROVE  ref'[d] = (IF d = Base THEN 1 ELSE 0) + stray'[d]
                + Cardinality(Roots(d)') + Cardinality(Dirs(d)') + Cardinality(Paths(d)')
                + Cardinality(Opened(d)') + Cardinality(MountPoints(d)')
  <2> DEFINE r == Cardinality(Roots(d))
             p == Cardinality(Dirs(d))
             w == Cardinality(Paths(d))
             o == Cardinality(Opened(d))
             m == Cardinality(MountPoints(d))
             b == IF d = Base THEN 1 ELSE 0
             x == Load(walk[t].at, d)
             y == Load(walk'[t].at, d)
  <2>1. /\ Cardinality(Roots(d)') = r /\ Cardinality(Dirs(d)') = p
        /\ Cardinality(Opened(d)') = o /\ Cardinality(MountPoints(d)') = m
    BY EntriesStay DEF Walks
  <2>2. Cardinality(Paths(d)') = w - x + y
    BY PathsStep DEF FilesInv, Walks
  <2>3. r \in Nat /\ p \in Nat /\ w \in Nat /\ o \in Nat /\ m \in Nat
    BY SizesNat DEF FilesInv, Tallies
  <2>4. walk[t].at \in Node \cup {NoNode} /\ walk'[t].at \in Node \cup {NoNode}
    BY DEF FilesInv, FilesType, Stand
  <2>5. x \in {0, 1} /\ y \in {0, 1}
    BY <2>4, Loads
  <2>6. ref[d] = b + stray[d] + r + p + w + o + m /\ stray[d] \in Nat /\ b \in Nat
    BY DEF FilesInv, FilesType, EntriesExact
  <2>7. ref'[d] = ref[d] - x + y /\ stray'[d] = stray[d]
    BY DEF Walks
  <2> HIDE DEF r, p, w, o, m, b, x, y
  <2>8. ref'[d] = b + stray'[d] + r + p + (w - x + y) + o + m
    BY <2>3, <2>5, <2>6, <2>7
  <2> QED
    BY <2>1, <2>2, <2>8 DEF b
<1>2. FilesExact'
  BY DEF FilesInv, FilesExact, Walks, Descs, Progs
<1> QED
  BY <1>1, <1>2 DEF EntriesExact

WalkRecord == [kind : {"none", "open", "exec", "chdir"},
               mode : {"read", "write", "directory", "cloexec"},
               at : Stand, rest : Seq(Node \cup {".."})]

LEMMA WalkInv ==
  ASSUME FilesInv, NEW t \in Task, Walks(t), ref' \in [Node -> Int], walk' \in [Task -> WalkRecord],
         walk'[t] # NoWalk => Alive(t) /\ walk'[t].at # NoNode,
         walk'[t].kind = "open" => FreeFd(t) # {},
         \A d \in Node : ref'[d] = ref[d] - Load(walk[t].at, d) + Load(walk'[t].at, d)
  PROVE  FilesInv'
<1>1. FilesType'
  BY DEF FilesInv, FilesType, Walks, WalkRecord
<1>2. FilesSound'
  <2>1. ASSUME NEW u \in Task, ~Alive(u)'
        PROVE  walk'[u] = NoWalk /\ exec'[u] = NoFile /\ \A i \in Fd : fd'[u][i] = NoFile
    <3>1. ~Alive(u)
      BY <2>1 DEF Walks, Alive
    <3>2. walk[u] = NoWalk /\ exec'[u] = NoFile /\ \A i \in Fd : fd'[u][i] = NoFile
      BY <3>1 DEF FilesInv, FilesSound, Walks
    <3>3. walk'[u] = NoWalk
      BY <3>1, <3>2 DEF Walks
    <3> QED
      BY <3>2, <3>3
  <2>2. ASSUME NEW u \in Task, walk'[u] # NoWalk PROVE walk'[u].at # NoNode
    BY <2>2 DEF FilesInv, FilesSound, Walks
  <2>3. \A f \in FileId : file'[f].ref = 0 <=> file'[f].node = NoNode
    BY DEF FilesInv, FilesSound, Walks
  <2>4. ASSUME NEW u \in Task, walk'[u].kind = "open" PROVE FreeFd(u)' # {}
    <3>1. FreeFd(u)' = FreeFd(u)
      BY DEF FreeFd, Walks
    <3> QED
      BY <2>4, <3>1 DEF FilesInv, FilesSound, Walks
  <2> QED
    BY <2>1, <2>2, <2>3, <2>4 DEF FilesSound
<1>3. EntriesExact' /\ FilesExact'
  BY <1>1, WalkCounts
<1> QED
  BY <1>1, <1>2, <1>3 DEF FilesInv

\* What a task that walks or is idle looks like.
LEMMA WalkFacts ==
  ASSUME FilesInv, NEW t \in Task
  PROVE  /\ walk \in [Task -> WalkRecord] /\ ref \in [Node -> Int]
         /\ pwd[t] \in Stand /\ Root \in Stand /\ NoWalk \in WalkRecord
         /\ walk[t] # NoWalk => Alive(t) /\ walk[t].at \in Node \ {Base}
         /\ walk[t] = NoWalk => walk[t].at = NoNode
         /\ NoWalk.at = NoNode /\ NoWalk.kind = "none"
         /\ walk[t].kind = "open" => FreeFd(t) # {}
<1>1. walk \in [Task -> WalkRecord] /\ ref \in [Node -> Int] /\ pwd[t] \in Stand
  BY DEF FilesInv, FilesType, WalkRecord
<1>2. Root \in Stand
  BY FilesAssumption, TreeAssumption DEF Stand
<1>3. NoWalk \in WalkRecord /\ NoWalk.at = NoNode /\ NoWalk.kind = "none"
  BY EmptyList DEF NoWalk, WalkRecord, Stand
<1>4. walk[t] # NoWalk => Alive(t) /\ walk[t].at \in Node \ {Base}
  <2>1. walk[t].at \in Stand
    BY <1>1 DEF WalkRecord
  <2> QED
    BY <2>1 DEF FilesInv, FilesSound, Stand
<1>5. walk[t].kind = "open" => FreeFd(t) # {}
  BY DEF FilesInv, FilesSound
<1> QED
  BY <1>1, <1>2, <1>3, <1>4, <1>5

LEMMA BeginInv == ASSUME FilesInv, NEW t \in Task, NEW r \in Request, Begin(t, r) PROVE FilesInv'
<1> DEFINE start == IF r.absolute THEN Root ELSE pwd[t]
           w == [kind |-> r.kind, mode |-> r.mode, at |-> start, rest |-> r.steps]
<1>1. /\ Alive(t) /\ walk[t] = NoWalk
      /\ Refer(start) /\ walk' = [walk EXCEPT ![t] = w]
      /\ UNCHANGED <<mounts, stray, pwd, fd, exec, file>>
      /\ r.kind = "open" => FreeFd(t) # {}
  BY DEF Begin, Idle
<1>2. walk \in [Task -> WalkRecord] /\ ref \in [Node -> Int] /\ walk[t].at = NoNode
  BY <1>1, WalkFacts
<1>3. start \in Stand /\ start # NoNode
  BY <1>1, WalkFacts, FilesAssumption DEF Alive
<1>4. w \in WalkRecord /\ w.at = start /\ w.kind = r.kind
  BY <1>3, FilesAssumption DEF WalkRecord
<1>5. \A d \in Node : ref'[d] = ref[d] + Load(start, d)
  BY <1>1 DEF Refer
<1>6. \A d \in Node : Load(start, d) \in {0, 1}
  BY <1>3, Loads DEF Stand
<1>7. ref' \in [Node -> Int]
  <2>1. \A d \in Node : ref[d] + Load(start, d) \in Int
    BY <1>2, <1>6
  <2> QED
    BY <1>1, <2>1 DEF Refer
<1> HIDE DEF w, start
<1>8. walk' \in [Task -> WalkRecord] /\ walk'[t] = w /\ Walks(t)
  BY <1>1, <1>2, <1>4 DEF Walks
<1>9. ASSUME NEW d \in Node PROVE ref'[d] = ref[d] - Load(walk[t].at, d) + Load(walk'[t].at, d)
  <2>1. Load(walk[t].at, d) = 0
    BY <1>2, CountedNowhere
  <2>2. walk'[t].at = start
    BY <1>4, <1>8
  <2> QED
    BY <1>2, <1>5, <1>6, <2>1, <2>2
<1> QED
  BY <1>1, <1>3, <1>4, <1>7, <1>8, <1>9, WalkInv

\* The look-up, or what it was for, ends without a result.
LEMMA WalkEndsInv ==
  ASSUME FilesInv, NEW t \in Task, walk[t] # NoWalk, Clear(walk[t].at),
         walk' = [walk EXCEPT ![t] = NoWalk], UNCHANGED <<mounts, stray, pwd, fd, exec, file>>
  PROVE  FilesInv'
<1>1. /\ walk \in [Task -> WalkRecord] /\ ref \in [Node -> Int] /\ NoWalk \in WalkRecord
      /\ NoWalk.at = NoNode /\ walk[t].at \in Node /\ NoWalk.kind = "none"
  BY WalkFacts
<1>2. \A d \in Node : Load(walk[t].at, d) \in {0, 1}
  BY <1>1, Loads
<1>3. ref' \in [Node -> Int]
  <2>1. \A d \in Node : ref[d] - Load(walk[t].at, d) \in Int
    BY <1>1, <1>2
  <2> QED
    BY <2>1 DEF Clear
<1>4. walk' \in [Task -> WalkRecord] /\ walk'[t] = NoWalk /\ Walks(t)
  BY <1>1 DEF Walks
<1>5. ASSUME NEW d \in Node PROVE ref'[d] = ref[d] - Load(walk[t].at, d) + Load(walk'[t].at, d)
  <2>1. Load(walk'[t].at, d) = 0
    BY <1>1, <1>4, CountedNowhere
  <2>2. ref'[d] = ref[d] - Load(walk[t].at, d)
    BY DEF Clear
  <2>3. ref[d] - Load(walk[t].at, d) \in Int
    BY <1>1, <1>2
  <2> QED
    BY <2>1, <2>2, <2>3
<1>6. walk'[t].kind # "open"
  BY <1>1, <1>4
<1> QED
  BY <1>3, <1>4, <1>5, <1>6, WalkInv

\* One step along the path, which moves the count of one entry.
LEMMA MovesInv ==
  ASSUME FilesInv, NEW t \in Task, Walking(t), NEW n \in Node \ {Base}, Moves(t, n),
         UNCHANGED <<mounts, stray, pwd, fd, exec, file>>, ref' \in [Node -> Int],
         \A d \in Node : ref'[d] = ref[d] - Load(walk[t].at, d) + Load(n, d)
  PROVE  FilesInv'
<1>1. /\ walk \in [Task -> WalkRecord] /\ ref \in [Node -> Int] /\ walk[t] # NoWalk
      /\ Alive(t) /\ walk[t].rest # <<>>
  BY WalkFacts DEF Walking
<1>2. walk[t] \in WalkRecord /\ walk[t].rest \in Seq(Node \cup {".."})
  BY <1>1 DEF WalkRecord
<1>3. Tail(walk[t].rest) \in Seq(Node \cup {".."})
  BY <1>1, <1>2
<1>4. walk'[t] = [walk[t] EXCEPT !.at = n, !.rest = Tail(walk[t].rest)]
  BY <1>1 DEF Moves
<1>5. [walk[t] EXCEPT !.at = n, !.rest = Tail(walk[t].rest)] \in WalkRecord
  BY <1>2, <1>3 DEF WalkRecord, Stand
<1>6. walk'[t].at = n /\ n # NoNode /\ walk'[t].kind = walk[t].kind
  BY <1>2, <1>4, FilesAssumption DEF WalkRecord
<1>7. walk' \in [Task -> WalkRecord] /\ Walks(t)
  BY <1>1, <1>5 DEF Walks, Moves
<1>8. \A d \in Node : ref'[d] = ref[d] - Load(walk[t].at, d) + Load(walk'[t].at, d)
  BY <1>6
<1>9. walk'[t].kind = "open" => FreeFd(t) # {}
  BY <1>6, WalkFacts
<1> QED
  BY <1>1, <1>6, <1>7, <1>8, <1>9, WalkInv

LEMMA AscendInv == ASSUME FilesInv, NEW t \in Task, Ascend(t) PROVE FilesInv'
<1> DEFINE n == walk[t].at
<1>1. /\ Walking(t) /\ n \in Node \ {Base} /\ ref \in [Node -> Int]
      /\ UNCHANGED <<mounts, stray, pwd, fd, exec, file>>
  BY WalkFacts DEF Ascend, Walking
<1>2. \/ Up[n] # NoNode /\ ref' = [ref EXCEPT ![n] = @ - 1] /\ Moves(t, Up[n])
      \/ /\ Up[n] = NoNode /\ n # Root
         /\ ref' = [ref EXCEPT ![Point[n]] = @ - 1] /\ Moves(t, Up[Point[n]])
      \/ n = Root /\ Moves(t, n) /\ UNCHANGED ref
  BY DEF Ascend
<1> HIDE DEF n
<1>3. \A x \in Node \cup {NoNode}, d \in Node : Load(x, d) \in {0, 1}
  BY Loads
<1>4. CASE Up[n] # NoNode /\ ref' = [ref EXCEPT ![n] = @ - 1] /\ Moves(t, Up[n])
  <2>1. n \in Node \ {Base, Root, DevRoot} /\ Up[n] \in Node \ {Base}
    BY <1>1, <1>4, TreeAssumption
  <2>2. ref' \in [Node -> Int]
    BY <1>1, <1>4
  <2>3. ASSUME NEW d \in Node PROVE ref'[d] = ref[d] - Load(n, d) + Load(Up[n], d)
    <3>1. ref'[d] = ref[d] - (IF d = n THEN 1 ELSE 0)
      BY <1>1, <1>4
    <3>2. Load(n, d) = Load(Up[n], d) + (IF d = n THEN 1 ELSE 0)
      BY <2>1, Loads
    <3>3. Load(Up[n], d) \in {0, 1} /\ ref[d] \in Int
      BY <1>1, <1>3, <2>1
    <3> QED
      BY <3>1, <3>2, <3>3
  <2> QED
    BY <1>1, <1>4, <2>1, <2>2, <2>3, MovesInv DEF n
<1>5. CASE /\ Up[n] = NoNode /\ n # Root
           /\ ref' = [ref EXCEPT ![Point[n]] = @ - 1] /\ Moves(t, Up[Point[n]])
  <2>1. n = DevRoot
    BY <1>1, <1>5, TreeAssumption, FilesAssumption
  <2> DEFINE p == Point[DevRoot]
  <2>2. p \in Node /\ Up[p] \in Node \ {Base} /\ p = Point[n]
    BY <2>1, TreeAssumption
  <2> HIDE DEF p
  <2>3. ref' = [ref EXCEPT ![p] = @ - 1] /\ Moves(t, Up[p])
    BY <1>5, <2>2
  <2>4. ref' \in [Node -> Int]
    BY <1>1, <2>2, <2>3
  <2>5. ASSUME NEW d \in Node PROVE ref'[d] = ref[d] - Load(n, d) + Load(Up[p], d)
    <3>1. ref'[d] = ref[d] - (IF d = p THEN 1 ELSE 0)
      BY <1>1, <2>3
    <3>2. Load(n, d) = Load(Up[p], d) + (IF d = p THEN 1 ELSE 0)
      BY <2>1, Loads DEF p
    <3>3. Load(Up[p], d) \in {0, 1} /\ ref[d] \in Int
      BY <1>1, <1>3, <2>2
    <3> QED
      BY <3>1, <3>2, <3>3
  <2> QED
    BY <1>1, <2>2, <2>3, <2>4, <2>5, MovesInv DEF n
<1>6. CASE n = Root /\ Moves(t, n) /\ UNCHANGED ref
  <2>1. ASSUME NEW d \in Node PROVE ref'[d] = ref[d] - Load(n, d) + Load(n, d)
    <3>1. Load(n, d) \in {0, 1} /\ ref[d] \in Int /\ ref'[d] = ref[d]
      BY <1>1, <1>3, <1>6
    <3> QED
      BY <3>1
  <2>2. ref' \in [Node -> Int]
    BY <1>1, <1>6
  <2> QED
    BY <1>1, <1>6, <2>1, <2>2, MovesInv DEF n
<1> QED
  BY <1>2, <1>4, <1>5, <1>6

LEMMA DescendInv == ASSUME FilesInv, NEW t \in Task, Descend(t) PROVE FilesInv'
<1> DEFINE n == walk[t].at
           c == Head(walk[t].rest)
<1>1. /\ Walking(t) /\ n \in Node \ {Base} /\ ref \in [Node -> Int]
      /\ ref' = [ref EXCEPT ![c] = @ + 1] /\ Moves(t, MountedOn(c))
      /\ UNCHANGED <<mounts, stray, pwd, fd, exec, file>>
  BY WalkFacts DEF Descend, Walking
<1>2. c \in Node /\ Up[c] = n
  <2>1. walk[t].rest \in Seq(Node \cup {".."}) /\ walk[t].rest # <<>>
    BY <1>1, WalkFacts DEF WalkRecord, Walking
  <2>2. Head(walk[t].rest) \in Node \cup {".."}
    BY <2>1
  <2> QED
    BY <2>2 DEF Descend, Leads
<1> HIDE DEF n, c
<1>3. c \in Node \ {Base, Root, DevRoot}
  BY <1>1, <1>2, TreeAssumption, FilesAssumption
<1>4. MountedOn(c) \in {c, DevRoot} /\ (MountedOn(c) = DevRoot => c = Point[DevRoot])
  <2>1. \A m \in mounts : m \in {Root, DevRoot}
    BY DEF FilesInv, FilesType
  <2>2. CASE \E m \in mounts : Point[m] = c
    <3>1. PICK k \in mounts : MountedOn(c) = k /\ Point[k] = c
      BY <2>2 DEF MountedOn
    <3> QED
      BY <1>3, <2>1, <3>1, TreeAssumption
  <2>3. CASE ~\E m \in mounts : Point[m] = c
    BY <1>3, <2>3 DEF MountedOn
  <2> QED
    BY <2>2, <2>3
<1> DEFINE m == MountedOn(c)
<1>5. m \in Node \ {Base}
  BY <1>3, <1>4, FilesAssumption, TreeAssumption
<1>6. ASSUME NEW d \in Node PROVE Load(m, d) = Load(n, d) + (IF d = c THEN 1 ELSE 0)
  <2>1. CASE m = c
    BY <1>2, <1>3, <2>1, Loads
  <2>2. CASE m = DevRoot
    BY <1>2, <1>4, <2>2, Loads
  <2> QED
    BY <1>4, <2>1, <2>2
<1> HIDE DEF m
<1>7. ref' \in [Node -> Int] /\ Moves(t, m)
  BY <1>1, <1>2 DEF m
<1>8. ASSUME NEW d \in Node PROVE ref'[d] = ref[d] - Load(n, d) + Load(m, d)
  <2>1. ref'[d] = ref[d] + (IF d = c THEN 1 ELSE 0)
    BY <1>1
  <2>2. Load(n, d) \in {0, 1} /\ ref[d] \in Int
    BY <1>1, Loads
  <2> QED
    BY <1>6, <2>1, <2>2
<1> QED
  BY <1>1, <1>5, <1>7, <1>8, MovesInv DEF n

-----------------------------------------------------------------------------
(* Directories and mounts.                                                 *)

\* The count of an entry follows its parts.
LEMMA EntrySum ==
  ASSUME FilesInv, NEW d \in Node, NEW s \in Int, NEW r \in Int, NEW p \in Int, NEW w \in Int,
         NEW o \in Int, NEW m \in Int, stray'[d] = stray[d] + s,
         Cardinality(Roots(d)') = Cardinality(Roots(d)) + r,
         Cardinality(Dirs(d)') = Cardinality(Dirs(d)) + p,
         Cardinality(Paths(d)') = Cardinality(Paths(d)) + w,
         Cardinality(Opened(d)') = Cardinality(Opened(d)) + o,
         Cardinality(MountPoints(d)') = Cardinality(MountPoints(d)) + m,
         ref'[d] = ref[d] + s + r + p + w + o + m
  PROVE  ref'[d] = (IF d = Base THEN 1 ELSE 0) + stray'[d]
            + Cardinality(Roots(d)') + Cardinality(Dirs(d)') + Cardinality(Paths(d)')
            + Cardinality(Opened(d)') + Cardinality(MountPoints(d)')
<1> DEFINE cr == Cardinality(Roots(d))
           cp == Cardinality(Dirs(d))
           cw == Cardinality(Paths(d))
           co == Cardinality(Opened(d))
           cm == Cardinality(MountPoints(d))
           b == IF d = Base THEN 1 ELSE 0
<1>1. cr \in Nat /\ cp \in Nat /\ cw \in Nat /\ co \in Nat /\ cm \in Nat
  BY SizesNat DEF FilesInv, Tallies
<1>2. ref[d] = b + stray[d] + cr + cp + cw + co + cm /\ stray[d] \in Nat /\ b \in Nat
  BY DEF FilesInv, FilesType, EntriesExact
<1> HIDE DEF cr, cp, cw, co, cm, b
<1>3. ref'[d] = b + (stray[d] + s) + (cr + r) + (cp + p) + (cw + w) + (co + o) + (cm + m)
  BY <1>1, <1>2
<1> QED
  BY <1>3 DEF cr, cp, cw, co, cm, b

\* Nothing changes but what a task walks, where it is, and what is lost.
LEMMA SoundSteps ==
  ASSUME FilesInv, NEW t \in Task, Alive(t), UNCHANGED <<mounts, fd, exec, file>>,
         walk' = [walk EXCEPT ![t] = NoWalk], stray' \in [Node -> Nat], ref' \in [Node -> Int],
         pwd' \in [Task -> Stand], \A u \in Task : Alive(u)' <=> Alive(u)
  PROVE  FilesType' /\ FilesSound' /\ FilesExact'
<1>1. walk \in [Task -> WalkRecord] /\ NoWalk \in WalkRecord /\ NoWalk.kind = "none"
  BY WalkFacts
<1>2. FilesType'
  BY <1>1 DEF FilesInv, FilesType, WalkRecord
<1>3. FilesSound'
  <2>1. ASSUME NEW u \in Task, ~Alive(u)'
        PROVE  walk'[u] = NoWalk /\ exec'[u] = NoFile /\ \A i \in Fd : fd'[u][i] = NoFile
    <3>1. walk[u] = NoWalk /\ exec'[u] = NoFile /\ \A i \in Fd : fd'[u][i] = NoFile
      BY <2>1 DEF FilesInv, FilesSound
    <3>2. walk'[u] = NoWalk
      BY <1>1, <3>1
    <3> QED
      BY <3>1, <3>2
  <2>2. ASSUME NEW u \in Task, walk'[u] # NoWalk PROVE walk'[u].at # NoNode
    <3>1. walk'[u] = walk[u]
      BY <1>1, <2>2
    <3> QED
      BY <2>2, <3>1 DEF FilesInv, FilesSound
  <2>3. \A f \in FileId : file'[f].ref = 0 <=> file'[f].node = NoNode
    BY DEF FilesInv, FilesSound
  <2>4. ASSUME NEW u \in Task, walk'[u].kind = "open" PROVE FreeFd(u)' # {}
    <3>1. FreeFd(u)' = FreeFd(u) /\ walk'[u] = walk[u]
      BY <1>1, <2>4 DEF FreeFd
    <3> QED
      BY <2>4, <3>1 DEF FilesInv, FilesSound
  <2> QED
    BY <2>1, <2>2, <2>3, <2>4 DEF FilesSound
<1>4. FilesExact'
  BY DEF FilesInv, FilesExact, Descs, Progs
<1> QED
  BY <1>2, <1>3, <1>4

LEMMA OpenStraysInv == ASSUME FilesInv, NEW t \in Task, OpenStrays(t) PROVE FilesInv'
<1> DEFINE n == walk[t].at
<1>1. /\ walk[t] # NoWalk /\ stray' = [d \in Node |-> stray[d] + Load(n, d)]
      /\ walk' = [walk EXCEPT ![t] = NoWalk] /\ UNCHANGED <<mounts, ref, pwd, fd, exec, file>>
  BY DEF OpenStrays, Arrived
<1>2. Alive(t) /\ n \in Node /\ ref \in [Node -> Int] /\ NoWalk.at = NoNode
      /\ walk \in [Task -> WalkRecord]
  BY <1>1, WalkFacts
<1>3. stray \in [Node -> Nat] /\ pwd \in [Task -> Stand]
  BY DEF FilesInv, FilesType
<1> HIDE DEF n
<1>4. \A d \in Node : Load(n, d) \in {0, 1}
  BY <1>2, Loads
<1>5. stray' \in [Node -> Nat]
  <2>1. \A d \in Node : stray[d] + Load(n, d) \in Nat
    BY <1>3, <1>4
  <2> QED
    BY <1>1, <2>1
<1>6. FilesType' /\ FilesSound' /\ FilesExact'
  <2>1. ref' \in [Node -> Int] /\ pwd' \in [Task -> Stand] /\ \A u \in Task : Alive(u)' <=> Alive(u)
    BY <1>1, <1>2, <1>3 DEF Alive
  <2> QED
    BY <1>1, <1>2, <1>5, <2>1, SoundSteps
<1>7. ASSUME NEW d \in Node
      PROVE  ref'[d] = (IF d = Base THEN 1 ELSE 0) + stray'[d]
                + Cardinality(Roots(d)') + Cardinality(Dirs(d)') + Cardinality(Paths(d)')
                + Cardinality(Opened(d)') + Cardinality(MountPoints(d)')
  <2> DEFINE x == Load(n, d)
  <2>1. x \in {0, 1} /\ stray'[d] = stray[d] + x /\ ref'[d] = ref[d] /\ ref[d] \in Int
    BY <1>1, <1>2, <1>4
  <2>2. \A u \in Task : u # t => walk'[u] = walk[u]
    BY <1>1, <1>2
  <2>3. Load(walk'[t].at, d) = 0
    BY <1>1, <1>2, CountedNowhere
  <2>4. Cardinality(Paths(d)') = Cardinality(Paths(d)) - x + 0
    BY <1>6, <2>2, <2>3, PathsStep DEF FilesInv, n
  <2>5. Tallies(d)
    BY SizesNat DEF FilesInv
  <2> HIDE DEF x
  <2>6. /\ Cardinality(Roots(d)') = Cardinality(Roots(d)) + 0
        /\ Cardinality(Dirs(d)') = Cardinality(Dirs(d)) + 0
        /\ Cardinality(Opened(d)') = Cardinality(Opened(d)) + 0
        /\ Cardinality(MountPoints(d)') = Cardinality(MountPoints(d)) + 0
    <3>1. /\ Roots(d)' = Roots(d) /\ Dirs(d)' = Dirs(d) /\ Opened(d)' = Opened(d)
          /\ MountPoints(d)' = MountPoints(d)
      BY <1>1, EntriesStay
    <3> QED
      BY <2>5, <3>1 DEF Tallies
  <2>7. Cardinality(Paths(d)') = Cardinality(Paths(d)) + (-x)
    BY <2>1, <2>4, <2>5 DEF Tallies
  <2>8. ref'[d] = ref[d] + x + 0 + 0 + (-x) + 0 + 0
    BY <2>1
  <2>9. x \in Int /\ -x \in Int /\ 0 \in Int
    BY <2>1
  <2> QED
    BY <2>1, <2>6, <2>7, <2>8, <2>9, EntrySum
<1> QED
  BY <1>6, <1>7 DEF FilesInv, EntriesExact

LEMMA ChdirInv == ASSUME FilesInv, NEW t \in Task, Chdir(t) PROVE FilesInv'
<1> DEFINE n == walk[t].at
           new == IF n \in Directory THEN n ELSE pwd[t]
           old == IF n \in Directory THEN pwd[t] ELSE n
<1>1. /\ walk[t] # NoWalk /\ Clear(old) /\ pwd' = [pwd EXCEPT ![t] = new]
      /\ walk' = [walk EXCEPT ![t] = NoWalk] /\ UNCHANGED <<mounts, stray, fd, exec, file>>
  BY DEF Chdir, Arrived
<1>2. Alive(t) /\ n \in Node \ {Base} /\ ref \in [Node -> Int] /\ NoWalk.at = NoNode
      /\ walk \in [Task -> WalkRecord] /\ pwd[t] \in Stand
  BY <1>1, WalkFacts
<1>3. stray \in [Node -> Nat] /\ pwd \in [Task -> Stand]
  BY DEF FilesInv, FilesType
<1>4. old \in Node \cup {NoNode} /\ new \in Stand /\ new # NoNode /\ pwd[t] # NoNode
  BY <1>2, FilesAssumption DEF Stand, Alive
<1>5. ASSUME NEW d \in Node
      PROVE  /\ Load(old, d) = Load(n, d) + Load(pwd[t], d) - Load(new, d)
             /\ Load(n, d) \in {0, 1} /\ Load(pwd[t], d) \in {0, 1} /\ Load(new, d) \in {0, 1}
             /\ Load(old, d) \in {0, 1}
  <2>1. \A x \in Node \cup {NoNode} : Load(x, d) \in {0, 1}
    BY Loads
  <2>2. Load(n, d) \in {0, 1} /\ Load(pwd[t], d) \in {0, 1}
    BY <1>2, <2>1 DEF Stand
  <2>3. CASE n \in Directory
    BY <2>2, <2>3
  <2>4. CASE n \notin Directory
    BY <2>2, <2>4
  <2> QED
    BY <2>3, <2>4
<1> HIDE DEF n, new, old
<1>6. ref' \in [Node -> Int] /\ \A d \in Node : ref'[d] = ref[d] - Load(old, d)
  <2>1. \A d \in Node : ref[d] - Load(old, d) \in Int
    BY <1>2, <1>5
  <2> QED
    BY <1>1, <2>1 DEF Clear
<1>7. FilesType' /\ FilesSound' /\ FilesExact'
  <2>1. pwd' \in [Task -> Stand] /\ stray' \in [Node -> Nat]
    BY <1>1, <1>3, <1>4
  <2>2. \A u \in Task : Alive(u)' <=> Alive(u)
    BY <1>1, <1>2, <1>3, <1>4 DEF Alive
  <2> QED
    BY <1>1, <1>2, <1>6, <2>1, <2>2, SoundSteps
<1>8. ASSUME NEW d \in Node
      PROVE  ref'[d] = (IF d = Base THEN 1 ELSE 0) + stray'[d]
                + Cardinality(Roots(d)') + Cardinality(Dirs(d)') + Cardinality(Paths(d)')
                + Cardinality(Opened(d)') + Cardinality(MountPoints(d)')
  <2> DEFINE x == Load(n, d)
             y == Load(pwd[t], d)
             z == Load(new, d)
             q == Load(Root, d)
  <2>1. /\ x \in {0, 1} /\ y \in {0, 1} /\ z \in {0, 1} /\ ref[d] \in Int /\ stray[d] \in Nat
        /\ stray'[d] = stray[d] /\ ref'[d] = ref[d] - (x + y - z)
    BY <1>1, <1>2, <1>3, <1>5, <1>6
  <2>2. (\A u \in Task : u # t => walk'[u] = walk[u]) /\ \A u \in Task : u # t => pwd'[u] = pwd[u]
    BY <1>1, <1>2, <1>3
  <2>3. Load(walk'[t].at, d) = 0 /\ pwd'[t] = new /\ walk[t].at = n
    BY <1>1, <1>2, <1>3, CountedNowhere DEF n
  <2>4. Cardinality(Paths(d)') = Cardinality(Paths(d)) - x + 0
    BY <1>7, <2>2, <2>3, PathsStep DEF FilesInv
  <2>5. Cardinality(Dirs(d)') = Cardinality(Dirs(d)) - y + z
    BY <1>7, <2>2, <2>3, DirsStep DEF FilesInv
  <2>6. Cardinality(Roots(d)') = Cardinality(Roots(d)) - q + q
    <3>1. Alive(t) /\ Alive(t)'
      BY <1>2, <1>4, <2>3 DEF Alive
    <3> QED
      BY <1>7, <2>2, <3>1, DirsStep DEF FilesInv
  <2>7. q \in {0, 1}
    BY Loads, FilesAssumption
  <2>8. Tallies(d)
    BY SizesNat DEF FilesInv
  <2> HIDE DEF x, y, z, q
  <2>9. /\ Cardinality(Opened(d)') = Cardinality(Opened(d)) + 0
        /\ Cardinality(MountPoints(d)') = Cardinality(MountPoints(d)) + 0
    <3>1. Opened(d)' = Opened(d) /\ MountPoints(d)' = MountPoints(d)
      BY <1>1, EntriesStay
    <3> QED
      BY <2>8, <3>1 DEF Tallies
  <2>10. /\ Cardinality(Paths(d)') = Cardinality(Paths(d)) + (-x)
         /\ Cardinality(Dirs(d)') = Cardinality(Dirs(d)) + (z - y)
         /\ Cardinality(Roots(d)') = Cardinality(Roots(d)) + 0
    BY <2>1, <2>4, <2>5, <2>6, <2>7, <2>8 DEF Tallies
  <2>11. /\ ref'[d] = ref[d] + 0 + 0 + (z - y) + (-x) + 0 + 0 /\ stray'[d] = stray[d] + 0
         /\ -x \in Int /\ z - y \in Int /\ 0 \in Int
    BY <2>1
  <2> QED
    BY <2>9, <2>10, <2>11, EntrySum
<1> QED
  BY <1>7, <1>8 DEF FilesInv, EntriesExact

LEMMA MountInv == ASSUME FilesInv, Mount PROVE FilesInv'
<1> DEFINE p == Point[DevRoot]
<1>1. /\ DevRoot \notin mounts /\ Refer(p) /\ mounts' = mounts \cup {DevRoot}
      /\ UNCHANGED <<stray, pwd, fd, exec, file, walk>>
  BY DEF Mount
<1>2. mounts = {Root} /\ mounts' = {Root, DevRoot} /\ ref \in [Node -> Int] /\ stray \in [Node -> Nat]
  BY <1>1 DEF FilesInv, FilesType
<1>3. p \in Node
  BY TreeAssumption
<1>4. \A d \in Node : Load(p, d) \in {0, 1}
  BY <1>3, Loads
<1>5. ref' \in [Node -> Int] /\ \A d \in Node : ref'[d] = ref[d] + Load(p, d)
  <2>1. \A d \in Node : ref[d] + Load(p, d) \in Int
    BY <1>2, <1>4
  <2> QED
    BY <1>1, <2>1 DEF Refer
<1>6. FilesType'
  BY <1>1, <1>2, <1>5 DEF FilesInv, FilesType
<1>7. FilesSound' /\ FilesExact'
  BY <1>1 DEF FilesInv, FilesSound, FilesExact, Descs, Progs, Alive, FreeFd
<1>8. ASSUME NEW d \in Node
      PROVE  ref'[d] = (IF d = Base THEN 1 ELSE 0) + stray'[d]
                + Cardinality(Roots(d)') + Cardinality(Dirs(d)') + Cardinality(Paths(d)')
                + Cardinality(Opened(d)') + Cardinality(MountPoints(d)')
  <2>1. Tallies(d)
    BY SizesNat DEF FilesInv
  <2>2. Cardinality(MountPoints(d)) = 0 /\ Cardinality(MountPoints(d)') = Load(p, d)
    <3>1. MountPoints(d) = {}
      BY <1>2 DEF MountPoints
    <3>2. MountPoints(d)' = IF d \in Counted[p] THEN {DevRoot} ELSE {}
      BY <1>2, TreeAssumption DEF MountPoints
    <3>3. Cardinality({DevRoot}) = 1 /\ Cardinality({}) = 0
      BY FS_Singleton, FS_EmptySet
    <3> QED
      BY <3>1, <3>2, <3>3 DEF Load
  <2> DEFINE x == Load(p, d)
  <2>3. x \in {0, 1} /\ ref'[d] = ref[d] + x /\ ref[d] \in Int /\ stray'[d] = stray[d] /\ stray[d] \in Nat
    BY <1>1, <1>2, <1>4, <1>5
  <2> HIDE DEF x
  <2>4. /\ Cardinality(Roots(d)') = Cardinality(Roots(d)) + 0
        /\ Cardinality(Dirs(d)') = Cardinality(Dirs(d)) + 0
        /\ Cardinality(Paths(d)') = Cardinality(Paths(d)) + 0
        /\ Cardinality(Opened(d)') = Cardinality(Opened(d)) + 0
    <3>1. /\ Roots(d)' = Roots(d) /\ Dirs(d)' = Dirs(d) /\ Opened(d)' = Opened(d)
          /\ Paths(d)' = Paths(d)
      BY <1>1, EntriesStay
    <3> QED
      BY <2>1, <3>1 DEF Tallies
  <2>5. Cardinality(MountPoints(d)') = Cardinality(MountPoints(d)) + x
    BY <2>2, <2>3 DEF x
  <2>6. ref'[d] = ref[d] + 0 + 0 + 0 + 0 + 0 + x /\ x \in Int /\ 0 \in Int /\ stray'[d] = stray[d] + 0
    BY <2>3
  <2> QED
    BY <2>4, <2>5, <2>6, EntrySum
<1> QED
  BY <1>6, <1>7, <1>8 DEF FilesInv, EntriesExact

-----------------------------------------------------------------------------
(* References to files.                                                    *)

Row(t, f) == {i \in Fd : fd[t][i] = f}

LEMMA RowsFinite ==
  ASSUME NEW t, NEW f
  PROVE  /\ IsFiniteSet(Row(t, f)) /\ Cardinality(Row(t, f)) \in Nat
         /\ IsFiniteSet(Row(t, f)') /\ Cardinality(Row(t, f)') \in Nat
         /\ Uses(t, f) = Cardinality(Row(t, f)) + (IF exec[t] = f THEN 1 ELSE 0)
         /\ Uses(t, f)' = Cardinality(Row(t, f)') + (IF exec'[t] = f THEN 1 ELSE 0)
         /\ Uses(t, f) \in Nat /\ Uses(t, f)' \in Nat
<1>1. Row(t, f) \in SUBSET Fd /\ Row(t, f)' \in SUBSET Fd
  BY DEF Row
<1>2. IsFiniteSet(Row(t, f)) /\ IsFiniteSet(Row(t, f)')
  BY <1>1, FilesFinite, FS_Subset
<1>3. Cardinality(Row(t, f)) \in Nat /\ Cardinality(Row(t, f)') \in Nat
  BY <1>2, FS_CardinalityType
<1>4. /\ Uses(t, f) = Cardinality(Row(t, f)) + (IF exec[t] = f THEN 1 ELSE 0)
      /\ Uses(t, f)' = Cardinality(Row(t, f)') + (IF exec'[t] = f THEN 1 ELSE 0)
  BY DEF Uses, Row
<1>5. Uses(t, f) \in Nat /\ Uses(t, f)' \in Nat
  BY <1>3, <1>4
<1> QED
  BY <1>2, <1>3, <1>4, <1>5

\* The references of one task are among those that are counted.
LEMMA UsesCounted ==
  ASSUME FilesInv, NEW t \in Task, NEW f \in FileId
  PROVE  /\ Uses(t, f) <= file[f].ref
         /\ exec[t] = f \/ (\E i \in Fd : fd[t][i] = f) => Uses(t, f) > 0
<1> DEFINE G == [u \in Task |-> IF u = t THEN [i \in Fd |-> NoFile] ELSE fd[u]]
<1>1. Alike(fd, G, t)
  BY DEF Alike
<1>2. Line(G, t, f) = {}
  BY FilesAssumption DEF Line
<1> HIDE DEF G
<1>3. /\ Cardinality(Descs(f)) \in Nat /\ Cardinality(Row(t, f)) \in Nat
      /\ Cardinality(Table(G, f)) \in Nat
      /\ Cardinality(Table(G, f)) =
           Cardinality(Descs(f)) - Cardinality(Row(t, f)) + Cardinality(Line(G, t, f))
  <2>1. Descs(f) = Table(fd, f) /\ Row(t, f) = Line(fd, t, f)
    BY DEF Descs, Row, Table, Line
  <2> QED
    BY <1>1, <2>1, RowChange
<1>4. Cardinality(Line(G, t, f)) = 0
  BY <1>2, FS_EmptySet
<1>5. Cardinality(Row(t, f)) <= Cardinality(Descs(f))
  BY <1>3, <1>4
<1>6. (IF exec[t] = f THEN 1 ELSE 0) <= Cardinality(Progs(f)) /\ Cardinality(Progs(f)) \in Nat
  <2>1. IsFiniteSet(Progs(f)) /\ IsFiniteSet(Progs(f) \ {t})
    <3>1. Progs(f) \subseteq Task
      BY DEF Progs
    <3> QED
      BY <3>1, FilesFinite, FS_Subset
  <2>2. Cardinality(Progs(f)) \in Nat /\ Cardinality(Progs(f) \ {t}) \in Nat
    BY <2>1, FS_CardinalityType
  <2>3. Cardinality(Progs(f) \ {t}) =
          IF t \in Progs(f) THEN Cardinality(Progs(f)) - 1 ELSE Cardinality(Progs(f))
    BY <2>1, FS_RemoveElement
  <2>4. t \in Progs(f) <=> exec[t] = f
    BY DEF Progs
  <2> QED
    BY <2>2, <2>3, <2>4
<1>7. file[f].ref = Cardinality(Descs(f)) + Cardinality(Progs(f))
  BY DEF FilesInv, FilesExact
<1>8. Uses(t, f) <= file[f].ref
  BY <1>3, <1>5, <1>6, <1>7, RowsFinite
<1>9. ASSUME exec[t] = f \/ \E i \in Fd : fd[t][i] = f PROVE Uses(t, f) > 0
  <2>1. CASE exec[t] = f
    BY <2>1, RowsFinite
  <2>2. CASE \E i \in Fd : fd[t][i] = f
    <3>1. Row(t, f) # {}
      BY <2>2 DEF Row
    <3>2. Cardinality(Row(t, f)) # 0 /\ Cardinality(Row(t, f)) \in Nat
      BY <3>1, RowsFinite, FS_EmptySet
    <3> QED
      BY <3>2, RowsFinite
  <2> QED
    BY <1>9, <2>1, <2>2
<1> QED
  BY <1>8, <1>9

\* Only t refers to other files than before.
Refers(t) == \A u \in Task : u # t => fd'[u] = fd[u] /\ exec'[u] = exec[u]

LEMMA FilesExactStep ==
  ASSUME FilesInv, NEW t \in Task, Refers(t),
         \A f \in FileId : file'[f].ref = file[f].ref - Uses(t, f) + Uses(t, f)'
  PROVE  FilesExact'
<1>1. ASSUME NEW f \in FileId PROVE file'[f].ref = Cardinality(Descs(f)') + Cardinality(Progs(f)')
  <2>1. /\ Cardinality(Descs(f)) \in Nat
        /\ Cardinality(Descs(f)') =
             Cardinality(Descs(f)) - Cardinality(Row(t, f)) + Cardinality(Row(t, f)')
    <3>1. Alike(fd, fd', t)
      BY DEF Refers, Alike
    <3>2. /\ Descs(f) = Table(fd, f) /\ Descs(f)' = Table(fd', f)
          /\ Row(t, f) = Line(fd, t, f) /\ Row(t, f)' = Line(fd', t, f)
      BY DEF Descs, Row, Table, Line
    <3> QED
      BY <3>1, <3>2, RowChange
  <2>2. /\ Cardinality(Progs(f)) \in Nat
        /\ Cardinality(Progs(f)') =
             Cardinality(Progs(f)) - Has(t, Progs(f)) + Has(t, Progs(f)')
    <3>1. Progs(f) \in SUBSET Task /\ Progs(f)' \in SUBSET Task
      BY DEF Progs
    <3>2. \A u \in Task : u # t => (u \in Progs(f) <=> u \in Progs(f)')
      BY DEF Progs, Refers
    <3> QED
      BY <3>1, <3>2, FilesFinite, CountChange
  <2>3. /\ Has(t, Progs(f)) = (IF exec[t] = f THEN 1 ELSE 0)
        /\ Has(t, Progs(f)') = (IF exec'[t] = f THEN 1 ELSE 0)
    BY DEF Has, Progs
  <2>4. file[f].ref = Cardinality(Descs(f)) + Cardinality(Progs(f))
    BY DEF FilesInv, FilesExact
  <2>5. /\ Cardinality(Row(t, f)) \in Nat /\ Cardinality(Row(t, f)') \in Nat
        /\ Uses(t, f) = Cardinality(Row(t, f)) + (IF exec[t] = f THEN 1 ELSE 0)
        /\ Uses(t, f)' = Cardinality(Row(t, f)') + (IF exec'[t] = f THEN 1 ELSE 0)
    BY RowsFinite
  <2>6. file'[f].ref = file[f].ref - Uses(t, f) + Uses(t, f)'
    OBVIOUS
  <2> QED
    BY <2>1, <2>2, <2>3, <2>4, <2>5, <2>6
<1> QED
  BY <1>1 DEF FilesExact

-----------------------------------------------------------------------------
(* Closing files.                                                          *)

\* What is dropped is at most what is counted.
Droppable(drop) ==
  \A f \in FileId : drop[f] \in Int /\ drop[f] <= file[f].ref /\ (file[f].ref = 0 => drop[f] = 0)

LEMMA CloseFacts ==
  ASSUME FilesInv, NEW drop, Droppable(drop), NEW f \in FileId,
         file'[f] = IF f \in Closed(drop) THEN NotOpen ELSE [file[f] EXCEPT !.ref = @ - drop[f]]
  PROVE  /\ file'[f] \in [ref : Nat, node : Stand, seek : Int, cloexec : BOOLEAN]
         /\ file'[f].ref = file[f].ref - drop[f]
         /\ file'[f].node = IF f \in Closed(drop) THEN NoNode ELSE file[f].node
         /\ file'[f].ref = 0 <=> file'[f].node = NoNode
<1>1. file[f] \in [ref : Nat, node : Stand, seek : Int, cloexec : BOOLEAN]
      /\ (file[f].ref = 0 <=> file[f].node = NoNode)
  BY DEF FilesInv, FilesType, FilesSound
<1>2. drop[f] \in Int /\ drop[f] <= file[f].ref /\ (file[f].ref = 0 => drop[f] = 0)
  BY DEF Droppable
<1>3. f \in Closed(drop) <=> drop[f] > 0 /\ file[f].ref = drop[f]
  BY DEF Closed
<1>4. CASE f \in Closed(drop)
  BY <1>1, <1>2, <1>3, <1>4 DEF NotOpen, Stand
<1>5. CASE f \notin Closed(drop)
  <2>1. file[f].ref - drop[f] \in Nat /\ (file[f].ref - drop[f] = 0 <=> file[f].ref = 0)
    BY <1>1, <1>2, <1>3, <1>5
  <2>2. /\ file'[f].ref = file[f].ref - drop[f] /\ file'[f].node = file[f].node
        /\ file'[f] \in [ref : Nat, node : Stand, seek : Int, cloexec : BOOLEAN]
    BY <1>1, <1>5, <2>1
  <2> QED
    BY <1>1, <1>5, <2>1, <2>2
<1> QED
  BY <1>4, <1>5

\* The entries of closed files.
Left(drop, d) == {f \in Closed(drop) : d \in Counted[file[f].node]}

LEMMA LeftFacts ==
  ASSUME FilesType, NEW drop, NEW d
  PROVE  /\ Left(drop, d) \subseteq Opened(d) /\ IsFiniteSet(Opened(d))
         /\ IsFiniteSet(Opened(d) \ Left(drop, d))
         /\ Dropped(drop, d) \in Nat
         /\ Cardinality(Opened(d) \ Left(drop, d)) = Cardinality(Opened(d)) - Dropped(drop, d)
<1> DEFINE A == Opened(d)
           L == Left(drop, d)
<1>1. L \subseteq A /\ A \subseteq FileId
  BY DEF Left, Closed, Opened
<1>2. Dropped(drop, d) = Cardinality(L)
  BY DEF Dropped, Left
<1> HIDE DEF A, L
<1>3. IsFiniteSet(A) /\ IsFiniteSet(L) /\ IsFiniteSet(A \ L)
  <2>1. IsFiniteSet(A)
    BY <1>1, FilesFinite, FS_Subset
  <2> QED
    BY <1>1, <2>1, FS_Subset
<1>4. Cardinality(A) \in Nat /\ Cardinality(L) \in Nat /\ Cardinality(A \ L) \in Nat
  BY <1>3, FS_CardinalityType
<1>5. (A \ L) \cup L = A /\ (A \ L) \cap L = {}
  BY <1>1
<1>6. Cardinality((A \ L) \cup L) =
        Cardinality(A \ L) + Cardinality(L) - Cardinality((A \ L) \cap L)
  BY <1>3, FS_Union
<1>7. Cardinality((A \ L) \cap L) = 0
  BY <1>5, FS_EmptySet
<1> DEFINE R == A \ L
<1>8. Cardinality(R) = Cardinality(A) - Cardinality(L)
  <2>1. /\ Cardinality(R) \in Nat
        /\ Cardinality(A) = Cardinality(R) + Cardinality(L) - Cardinality(R \cap L)
        /\ Cardinality(R \cap L) = 0
    BY <1>4, <1>5, <1>6, <1>7
  <2> HIDE DEF R
  <2> QED
    BY <1>4, <2>1
<1> QED
  BY <1>1, <1>2, <1>3, <1>4, <1>8 DEF A, L

LEMMA OpenedDrop ==
  ASSUME FilesType, NEW drop, NEW d,
         \A f \in FileId : file'[f].node = IF f \in Closed(drop) THEN NoNode ELSE file[f].node
  PROVE  /\ Dropped(drop, d) \in Nat
         /\ Cardinality(Opened(d)') = Cardinality(Opened(d)) - Dropped(drop, d)
<1>1. Opened(d)' = Opened(d) \ Left(drop, d)
  BY CountedNowhere DEF Opened, Left
<1> QED
  BY <1>1, LeftFacts

-----------------------------------------------------------------------------
(* The calls about descriptors.                                            *)

FileRecord == [ref : Nat, node : Stand, seek : Int, cloexec : BOOLEAN]
Tables ==
  fd' \in [Task -> [Fd -> FileId \cup {NoFile}]] /\ exec' \in [Task -> FileId \cup {NoFile}]

\* A task gives references to files back, or takes more: what it drops is what
\* it has less than before.
Gives(t, drop) ==
  \A f \in FileId : drop[f] = Uses(t, f) - Uses(t, f)' /\ (file[f].ref = 0 => Uses(t, f)' = 0)

LEMMA GivesFacts ==
  ASSUME FilesInv, NEW t \in Task, NEW drop, Gives(t, drop)
  PROVE  Droppable(drop)
<1>1. ASSUME NEW f \in FileId
      PROVE  drop[f] \in Int /\ drop[f] <= file[f].ref /\ (file[f].ref = 0 => drop[f] = 0)
  <2>1. Uses(t, f) \in Nat /\ Uses(t, f)' \in Nat /\ Uses(t, f) <= file[f].ref
    BY RowsFinite, UsesCounted
  <2>2. file[f].ref \in Nat
    BY DEF FilesInv, FilesType
  <2>3. drop[f] = Uses(t, f) - Uses(t, f)' /\ (file[f].ref = 0 => Uses(t, f)' = 0)
    BY DEF Gives
  <2> QED
    BY <2>1, <2>2, <2>3
<1> QED
  BY <1>1 DEF Droppable

\* What becomes of the files.
LEMMA GivesFiles ==
  ASSUME FilesInv, NEW t \in Task, NEW drop, Gives(t, drop), Refers(t),
         file' = [f \in FileId |-> IF f \in Closed(drop) THEN NotOpen
                                   ELSE [file[f] EXCEPT !.ref = @ - drop[f]]]
  PROVE  /\ file' \in [FileId -> FileRecord]
         /\ \A f \in FileId : file'[f].ref = 0 <=> file'[f].node = NoNode
         /\ FilesExact'
         /\ \A d : Dropped(drop, d) \in Nat
         /\ \A d : Cardinality(Opened(d)') = Cardinality(Opened(d)) - Dropped(drop, d)
<1>1. ASSUME NEW f \in FileId
      PROVE  /\ file'[f] \in FileRecord /\ file'[f].ref = file[f].ref - drop[f]
             /\ file'[f].node = IF f \in Closed(drop) THEN NoNode ELSE file[f].node
             /\ file'[f].ref = 0 <=> file'[f].node = NoNode
  <2>1. Droppable(drop)
    BY GivesFacts
  <2>2. file'[f] = IF f \in Closed(drop) THEN NotOpen ELSE [file[f] EXCEPT !.ref = @ - drop[f]]
    OBVIOUS
  <2>3. /\ file'[f] \in [ref : Nat, node : Stand, seek : Int, cloexec : BOOLEAN]
        /\ file'[f].ref = file[f].ref - drop[f]
        /\ file'[f].node = IF f \in Closed(drop) THEN NoNode ELSE file[f].node
        /\ file'[f].ref = 0 <=> file'[f].node = NoNode
    BY <2>1, <2>2, CloseFacts
  <2> QED
    BY <2>3 DEF FileRecord
<1>2. \A f \in FileId : file'[f].node = IF f \in Closed(drop) THEN NoNode ELSE file[f].node
  BY <1>1
<1>3. ASSUME NEW d
      PROVE  Dropped(drop, d) \in Nat /\ Cardinality(Opened(d)') = Cardinality(Opened(d)) - Dropped(drop, d)
  BY <1>2, OpenedDrop DEF FilesInv
<1>4. file' \in [FileId -> FileRecord]
  <2>1. \A f \in FileId : file'[f] \in FileRecord
    BY <1>1
  <2>2. file' = [f \in FileId |-> file'[f]]
    OBVIOUS
  <2> QED
    BY <2>1, <2>2
<1>5. FilesExact'
  <2>1. ASSUME NEW f \in FileId PROVE file'[f].ref = file[f].ref - Uses(t, f) + Uses(t, f)'
    <3>1. file'[f].ref = file[f].ref - drop[f] /\ drop[f] = Uses(t, f) - Uses(t, f)'
      BY <1>1 DEF Gives
    <3>2. Uses(t, f) \in Nat /\ Uses(t, f)' \in Nat /\ file[f].ref \in Nat
      BY RowsFinite DEF FilesInv, FilesType
    <3> QED
      BY <3>1, <3>2
  <2> QED
    BY <2>1, FilesExactStep
<1> QED
  BY <1>1, <1>3, <1>4, <1>5

\* Only t, which walks nowhere, has other descriptors or another program.
LEMMA RefersSound ==
  ASSUME FilesInv, NEW t \in Task, Refers(t), UNCHANGED walk, walk[t] = NoWalk,
         \A u \in Task : u # t => pwd'[u] = pwd[u],
         ~Alive(t)' => exec'[t] = NoFile /\ \A i \in Fd : fd'[t][i] = NoFile,
         \A f \in FileId : file'[f].ref = 0 <=> file'[f].node = NoNode
  PROVE  FilesSound'
<1>1. ASSUME NEW u \in Task, ~Alive(u)'
      PROVE  walk'[u] = NoWalk /\ exec'[u] = NoFile /\ \A i \in Fd : fd'[u][i] = NoFile
  <2>1. CASE u = t
    BY <1>1, <2>1
  <2>2. CASE u # t
    <3>1. ~Alive(u)
      BY <1>1, <2>2 DEF Alive
    <3>2. walk[u] = NoWalk /\ exec[u] = NoFile /\ \A i \in Fd : fd[u][i] = NoFile
      BY <3>1 DEF FilesInv, FilesSound
    <3> QED
      BY <2>2, <3>2 DEF Refers
  <2> QED
    BY <2>1, <2>2
<1>2. \A u \in Task : walk'[u] # NoWalk => walk'[u].at # NoNode
  BY DEF FilesInv, FilesSound
<1>3. ASSUME NEW u \in Task, walk'[u].kind = "open" PROVE FreeFd(u)' # {}
  <2>1. walk[u].kind = "open" /\ u # t
    BY <1>3, WalkFacts
  <2>2. FreeFd(u)' = FreeFd(u)
    BY <2>1 DEF FreeFd, Refers
  <2> QED
    BY <2>1, <2>2 DEF FilesInv, FilesSound
<1> QED
  BY <1>1, <1>2, <1>3 DEF FilesSound

LEMMA GivesInv ==
  ASSUME FilesInv, NEW t \in Task, Idle(t), NEW drop, Gives(t, drop), Refers(t), Tables,
         file' = [f \in FileId |-> IF f \in Closed(drop) THEN NotOpen
                                   ELSE [file[f] EXCEPT !.ref = @ - drop[f]]],
         ref' = [d \in Node |-> ref[d] - Dropped(drop, d)],
         UNCHANGED <<mounts, stray, pwd, walk>>
  PROVE  FilesInv'
<1>1. /\ file' \in [FileId -> FileRecord]
      /\ \A f \in FileId : file'[f].ref = 0 <=> file'[f].node = NoNode
      /\ FilesExact'
  BY GivesFiles
<1>2. \A d : Dropped(drop, d) \in Nat
  BY GivesFiles
<1>3. \A d : Cardinality(Opened(d)') = Cardinality(Opened(d)) - Dropped(drop, d)
  BY GivesFiles
<1>4. ref \in [Node -> Int]
  BY DEF FilesInv, FilesType
<1>5. ref' \in [Node -> Int]
  <2>1. \A d \in Node : ref[d] - Dropped(drop, d) \in Int
    BY <1>2, <1>4
  <2> QED
    BY <2>1
<1>6. FilesType'
  BY <1>1, <1>5 DEF FilesInv, FilesType, Tables, FileRecord
<1>7. FilesSound'
  BY <1>1, RefersSound DEF Idle, Alive
<1>8. ASSUME NEW d \in Node
      PROVE  ref'[d] = (IF d = Base THEN 1 ELSE 0) + stray'[d]
                + Cardinality(Roots(d)') + Cardinality(Dirs(d)') + Cardinality(Paths(d)')
                + Cardinality(Opened(d)') + Cardinality(MountPoints(d)')
  <2> DEFINE x == Dropped(drop, d)
  <2>1. x \in Nat /\ Cardinality(Opened(d)') = Cardinality(Opened(d)) - x /\ ref'[d] = ref[d] - x
    BY <1>2, <1>3
  <2>2. stray'[d] = stray[d] + 0 /\ ref[d] \in Int
    BY <1>4 DEF FilesInv, FilesType
  <2>3. Tallies(d)
    BY SizesNat DEF FilesInv
  <2>4. /\ Roots(d)' = Roots(d) /\ Dirs(d)' = Dirs(d) /\ Paths(d)' = Paths(d)
        /\ MountPoints(d)' = MountPoints(d)
    BY EntriesStay
  <2> HIDE DEF x
  <2>5. /\ Cardinality(Roots(d)') = Cardinality(Roots(d)) + 0
        /\ Cardinality(Dirs(d)') = Cardinality(Dirs(d)) + 0
        /\ Cardinality(Paths(d)') = Cardinality(Paths(d)) + 0
        /\ Cardinality(MountPoints(d)') = Cardinality(MountPoints(d)) + 0
    BY <2>3, <2>4 DEF Tallies
  <2>6. Cardinality(Opened(d)') = Cardinality(Opened(d)) + (-x)
    BY <2>1, <2>3 DEF Tallies
  <2>7. ref'[d] = ref[d] + 0 + 0 + 0 + 0 + (-x) + 0 /\ -x \in Int /\ 0 \in Int
    BY <2>1, <2>2
  <2> QED
    BY <2>2, <2>5, <2>6, <2>7, EntrySum
<1> QED
  BY <1>1, <1>6, <1>7, <1>8 DEF FilesInv, EntriesExact

\* One descriptor changes.
LEMMA RowSet ==
  ASSUME FilesInv, NEW t \in Task, NEW j \in Fd, NEW g \in FileId \cup {NoFile},
         fd' = [fd EXCEPT ![t][j] = g], UNCHANGED exec
  PROVE  /\ Refers(t) /\ Tables
         /\ \A f \in FileId : Uses(t, f)' = Uses(t, f) - (IF f = fd[t][j] THEN 1 ELSE 0)
                                                       + (IF f = g THEN 1 ELSE 0)
<1>1. fd \in [Task -> [Fd -> FileId \cup {NoFile}]] /\ exec \in [Task -> FileId \cup {NoFile}]
  BY DEF FilesInv, FilesType
<1>2. Refers(t) /\ Tables
  BY <1>1 DEF Refers, Tables
<1>3. fd'[t][j] = g /\ \A i \in Fd : i # j => fd'[t][i] = fd[t][i]
  BY <1>1
<1>4. ASSUME NEW f \in FileId
      PROVE  Uses(t, f)' = Uses(t, f) - (IF f = fd[t][j] THEN 1 ELSE 0) + (IF f = g THEN 1 ELSE 0)
  <2>1. Row(t, f) \in SUBSET Fd /\ Row(t, f)' \in SUBSET Fd
    BY DEF Row
  <2>2. \A i \in Fd : i # j => (i \in Row(t, f) <=> i \in Row(t, f)')
    BY <1>3 DEF Row
  <2>3. /\ Has(j, Row(t, f)) = (IF f = fd[t][j] THEN 1 ELSE 0)
        /\ Has(j, Row(t, f)') = (IF f = g THEN 1 ELSE 0)
    BY <1>3 DEF Has, Row
  <2>4. Cardinality(Row(t, f)') = Cardinality(Row(t, f)) - Has(j, Row(t, f)) + Has(j, Row(t, f)')
    BY <2>1, <2>2, FilesFinite, CountChange
  <2>5. /\ Cardinality(Row(t, f)) \in Nat /\ Cardinality(Row(t, f)') \in Nat
        /\ Uses(t, f) = Cardinality(Row(t, f)) + (IF exec[t] = f THEN 1 ELSE 0)
        /\ Uses(t, f)' = Cardinality(Row(t, f)') + (IF exec'[t] = f THEN 1 ELSE 0)
    BY RowsFinite
  <2> QED
    BY <2>3, <2>4, <2>5
<1> QED
  BY <1>2, <1>4

LEMMA CloseInv == ASSUME FilesInv, NEW t \in Task, NEW i \in Fd, Close(t, i) PROVE FilesInv'
<1> DEFINE g == fd[t][i]
           drop == One(g)
<1>1. /\ Idle(t) /\ g # NoFile /\ fd' = [fd EXCEPT ![t][i] = NoFile] /\ UNCHANGED exec
      /\ CloseFiles(drop) /\ ref' = [d \in Node |-> ref[d] - Dropped(drop, d)]
      /\ UNCHANGED <<mounts, stray, pwd, walk>>
  BY DEF Close
<1>2. g \in FileId
  BY <1>1 DEF FilesInv, FilesType
<1>3. drop = [f \in FileId |-> IF f = g THEN 1 ELSE 0]
  BY DEF One, NoDrop
<1>4. /\ Refers(t) /\ Tables
      /\ \A f \in FileId : Uses(t, f)' = Uses(t, f) - (IF f = g THEN 1 ELSE 0)
                                                    + (IF f = NoFile THEN 1 ELSE 0)
  BY <1>1, RowSet
<1>5. Gives(t, drop)
  <2>1. ASSUME NEW f \in FileId
        PROVE  drop[f] = Uses(t, f) - Uses(t, f)' /\ (file[f].ref = 0 => Uses(t, f)' = 0)
    <3>1. Uses(t, f) \in Nat /\ Uses(t, f)' \in Nat /\ Uses(t, f) <= file[f].ref
      BY RowsFinite, UsesCounted
    <3>2. /\ f # NoFile /\ drop[f] = IF f = g THEN 1 ELSE 0
          /\ Uses(t, f)' = Uses(t, f) - (IF f = g THEN 1 ELSE 0) + (IF f = NoFile THEN 1 ELSE 0)
      BY <1>3, <1>4, FilesAssumption
    <3> HIDE DEF drop, g
    <3>3. Uses(t, f)' = Uses(t, f) - drop[f] /\ drop[f] \in {0, 1}
      BY <3>1, <3>2
    <3> QED
      BY <3>1, <3>3
  <2> QED
    BY <2>1 DEF Gives
<1> HIDE DEF drop, g
<1> QED
  BY <1>1, <1>4, <1>5, GivesInv DEF CloseFiles

LEMMA Dup2Inv ==
  ASSUME FilesInv, NEW t \in Task, NEW i \in Fd, NEW j \in Fd, Dup2(t, i, j) PROVE FilesInv'
<1> DEFINE new == fd[t][i]
           old == fd[t][j]
           drop == [g \in FileId |-> (IF g = old THEN 1 ELSE 0) - (IF g = new THEN 1 ELSE 0)]
<1>1. /\ Idle(t) /\ new # NoFile /\ fd' = [fd EXCEPT ![t][j] = new] /\ UNCHANGED exec
      /\ CloseFiles(drop) /\ ref' = [d \in Node |-> ref[d] - Dropped(drop, d)]
      /\ UNCHANGED <<mounts, stray, pwd, walk>>
  BY DEF Dup2
<1>2. new \in FileId
  BY <1>1 DEF FilesInv, FilesType
<1>3. /\ Refers(t) /\ Tables
      /\ \A f \in FileId : Uses(t, f)' = Uses(t, f) - (IF f = old THEN 1 ELSE 0)
                                                    + (IF f = new THEN 1 ELSE 0)
  BY <1>1, <1>2, RowSet
<1>4. Gives(t, drop)
  <2>1. ASSUME NEW f \in FileId
        PROVE  drop[f] = Uses(t, f) - Uses(t, f)' /\ (file[f].ref = 0 => Uses(t, f)' = 0)
    <3>1. Uses(t, f) \in Nat /\ Uses(t, f)' \in Nat /\ Uses(t, f) <= file[f].ref
      BY RowsFinite, UsesCounted
    <3>2. f = new => Uses(t, f) > 0
      BY UsesCounted
    <3>3. /\ Uses(t, f)' = Uses(t, f) - (IF f = old THEN 1 ELSE 0) + (IF f = new THEN 1 ELSE 0)
          /\ drop[f] = (IF f = old THEN 1 ELSE 0) - (IF f = new THEN 1 ELSE 0)
      BY <1>3
    <3> HIDE DEF drop, new, old
    <3>4. drop[f] = Uses(t, f) - Uses(t, f)'
      BY <3>1, <3>3
    <3>5. file[f].ref = 0 => Uses(t, f)' = 0
      BY <3>1, <3>2, <3>3
    <3> QED
      BY <3>4, <3>5
  <2> QED
    BY <2>1 DEF Gives
<1> HIDE DEF drop, new, old
<1> QED
  BY <1>1, <1>3, <1>4, GivesInv DEF CloseFiles

LEMMA GetDentsInv ==
  ASSUME FilesInv, NEW t \in Task, NEW i \in Fd, NEW room \in Room, GetDents(t, i, room)
  PROVE FilesInv'
<1> DEFINE g == fd[t][i]
<1>1. /\ g # NoFile /\ (DevfsReadDir(g, room) \/ Iso9660ReadDir(g, room))
      /\ UNCHANGED <<mounts, ref, stray, pwd, fd, exec, walk>>
  BY DEF GetDents
<1>2. g \in FileId
  BY <1>1 DEF FilesInv, FilesType
<1>3. file[g] \in FileRecord
  BY <1>2 DEF FilesInv, FilesType, FileRecord
<1>4. \E s \in Int : file' = [file EXCEPT ![g].seek = s]
  <2>1. file[g].seek \in Int /\ Len(IsoOrder) \in Int /\ room \in Int
    BY <1>3, FilesAssumption DEF FileRecord
  <2>2. ASSUME DevfsReadDir(g, room) PROVE \E s \in Int : file' = [file EXCEPT ![g].seek = s]
    <3>1. Smaller(2, file[g].seek + room) \in Int
      BY <2>1 DEF Smaller
    <3> QED
      BY <2>2, <3>1 DEF DevfsReadDir
  <2>3. ASSUME Iso9660ReadDir(g, room) PROVE \E s \in Int : file' = [file EXCEPT ![g].seek = s]
    <3>1. Smaller(Smaller(file[g].seek + room, Len(IsoOrder)) + 1, Len(IsoOrder)) \in Int
      BY <2>1 DEF Smaller
    <3> QED
      BY <2>3, <3>1 DEF Iso9660ReadDir
  <2> QED
    BY <1>1, <2>2, <2>3
<1> HIDE DEF g
<1>5. PICK s \in Int : file' = [file EXCEPT ![g].seek = s]
  BY <1>4
<1>6. file \in [FileId -> FileRecord]
  BY DEF FilesInv, FilesType, FileRecord
<1>7. file' \in [FileId -> FileRecord]
  BY <1>2, <1>5, <1>6 DEF FileRecord
<1>8. \A f \in FileId : file'[f].ref = file[f].ref /\ file'[f].node = file[f].node
  BY <1>2, <1>5, <1>6 DEF FileRecord
<1>9. FilesType'
  BY <1>1, <1>7 DEF FilesInv, FilesType, FileRecord
<1>10. FilesSound'
  <2>1. \A f \in FileId : file'[f].ref = 0 <=> file'[f].node = NoNode
    BY <1>8 DEF FilesInv, FilesSound
  <2> QED
    BY <1>1, <2>1 DEF FilesInv, FilesSound, Alive, FreeFd
<1>11. FilesExact'
  BY <1>1, <1>8 DEF FilesInv, FilesExact, Descs, Progs
<1>12. EntriesExact'
  <2>1. ASSUME NEW d \in Node
        PROVE  /\ Roots(d)' = Roots(d) /\ Dirs(d)' = Dirs(d) /\ Paths(d)' = Paths(d)
               /\ Opened(d)' = Opened(d) /\ MountPoints(d)' = MountPoints(d)
    BY <1>1, <1>8, EntriesStay
  <2>2. ref' = ref /\ stray' = stray
    BY <1>1
  <2> QED
    BY <2>1, <2>2 DEF FilesInv, EntriesExact
<1> QED
  BY <1>9, <1>10, <1>11, <1>12 DEF FilesInv

-----------------------------------------------------------------------------
(* fork() and exit().                                                      *)

\* Only c has another working directory, and is not walking.
LEMMA DirectoriesStep ==
  ASSUME FilesInv, FilesType', NEW c \in Task, \A u \in Task : u # c => pwd'[u] = pwd[u],
         NEW d \in Node, NEW o \in Int, Cardinality(Opened(d)') = Cardinality(Opened(d)) + o,
         UNCHANGED <<mounts, stray, walk>>,
         ref'[d] = ref[d] - Load(pwd[c], d) + Load(pwd'[c], d)
                   - (IF Alive(c) THEN Load(Root, d) ELSE 0)
                   + (IF Alive(c)' THEN Load(Root, d) ELSE 0) + o
  PROVE  ref'[d] = (IF d = Base THEN 1 ELSE 0) + stray'[d]
            + Cardinality(Roots(d)') + Cardinality(Dirs(d)') + Cardinality(Paths(d)')
            + Cardinality(Opened(d)') + Cardinality(MountPoints(d)')
<1> DEFINE x == Load(pwd[c], d)
           y == Load(pwd'[c], d)
           r == IF Alive(c) THEN Load(Root, d) ELSE 0
           s == IF Alive(c)' THEN Load(Root, d) ELSE 0
<1>1. x \in {0, 1} /\ y \in {0, 1} /\ r \in {0, 1} /\ s \in {0, 1}
  <2>1. pwd[c] \in Node \cup {NoNode} /\ pwd'[c] \in Node \cup {NoNode} /\ Root \in Node
    BY FilesAssumption DEF FilesInv, FilesType, Stand
  <2> QED
    BY <2>1, Loads
<1>2. /\ Cardinality(Dirs(d)') = Cardinality(Dirs(d)) - x + y
      /\ Cardinality(Roots(d)') = Cardinality(Roots(d)) - r + s
  BY DirsStep DEF FilesInv
<1>3. ref'[d] = ref[d] - x + y - r + s + o
  OBVIOUS
<1>4. ref[d] \in Int /\ stray[d] \in Nat /\ stray'[d] = stray[d]
  BY DEF FilesInv, FilesType
<1>5. Tallies(d)
  BY SizesNat DEF FilesInv
<1>6. /\ Cardinality(Paths(d)') = Cardinality(Paths(d)) + 0
      /\ Cardinality(MountPoints(d)') = Cardinality(MountPoints(d)) + 0
  <2>1. Paths(d)' = Paths(d) /\ MountPoints(d)' = MountPoints(d)
    BY EntriesStay
  <2> QED
    BY <1>5, <2>1 DEF Tallies
<1> HIDE DEF x, y, r, s
<1>7. /\ Cardinality(Dirs(d)') = Cardinality(Dirs(d)) + (y - x)
      /\ Cardinality(Roots(d)') = Cardinality(Roots(d)) + (s - r)
  BY <1>1, <1>2, <1>5 DEF Tallies
<1>8. /\ ref'[d] = ref[d] + 0 + (s - r) + (y - x) + 0 + o + 0 /\ stray'[d] = stray[d] + 0
      /\ y - x \in Int /\ s - r \in Int /\ 0 \in Int
  BY <1>1, <1>3, <1>4
<1> QED
  BY <1>6, <1>7, <1>8, EntrySum

\* Who does not exist refers to no file.
LEMMA NoUses ==
  ASSUME FilesInv, NEW c \in Task, ~Alive(c), NEW f \in FileId
  PROVE  Uses(c, f) = 0
<1>1. exec[c] = NoFile /\ \A i \in Fd : fd[c][i] = NoFile
  BY DEF FilesInv, FilesSound
<1>2. Row(c, f) = {} /\ exec[c] # f
  BY <1>1, FilesAssumption DEF Row
<1> QED
  BY <1>2, RowsFinite, FS_EmptySet

LEMMA ForkInv == ASSUME FilesInv, NEW t \in Task, NEW c \in Task, Fork(t, c) PROVE FilesInv'
<1>1. /\ Alive(t) /\ ~Alive(c) /\ c # t
      /\ pwd' = [pwd EXCEPT ![c] = pwd[t]] /\ fd' = [fd EXCEPT ![c] = fd[t]]
      /\ exec' = [exec EXCEPT ![c] = exec[t]]
      /\ file' = [f \in FileId |-> [file[f] EXCEPT !.ref = @ + Uses(t, f)]]
      /\ ref' = [d \in Node |-> ref[d] + Load(Root, d) + Load(pwd[t], d)]
      /\ UNCHANGED <<mounts, stray, walk>>
  BY DEF Fork, Idle
<1>2. /\ pwd \in [Task -> Stand] /\ ref \in [Node -> Int] /\ Tables
      /\ file \in [FileId -> FileRecord]
      /\ fd \in [Task -> [Fd -> FileId \cup {NoFile}]] /\ exec \in [Task -> FileId \cup {NoFile}]
  BY <1>1 DEF FilesInv, FilesType, Tables, FileRecord
<1>3. /\ pwd[c] = NoNode /\ pwd'[c] = pwd[t] /\ pwd[t] # NoNode /\ pwd' \in [Task -> Stand]
      /\ \A u \in Task : u # c => pwd'[u] = pwd[u]
  BY <1>1, <1>2 DEF Alive
<1>4. Refers(c) /\ fd'[c] = fd[t] /\ exec'[c] = exec[t]
  BY <1>1, <1>2 DEF Refers
<1>5. ASSUME NEW f \in FileId
      PROVE  /\ Uses(t, f) \in Nat /\ Uses(t, f) <= file[f].ref
             /\ Uses(c, f) = 0 /\ Uses(c, f)' = Uses(t, f)
  <2>1. Uses(t, f) \in Nat /\ Uses(t, f) <= file[f].ref
    BY RowsFinite, UsesCounted
  <2>2. Uses(c, f)' = Uses(t, f)
    BY <1>4 DEF Uses
  <2> QED
    BY <1>1, <2>1, <2>2, NoUses
<1>6. ASSUME NEW f \in FileId
      PROVE  /\ file'[f] \in FileRecord /\ file'[f].node = file[f].node
             /\ file'[f].ref = file[f].ref + Uses(t, f)
             /\ file'[f].ref = 0 <=> file'[f].node = NoNode
  <2>1. file[f] \in FileRecord /\ (file[f].ref = 0 <=> file[f].node = NoNode)
    BY <1>2 DEF FilesInv, FilesSound
  <2>2. file[f].ref \in Nat
    BY <2>1 DEF FileRecord
  <2>3. file[f].ref + Uses(t, f) \in Nat /\ (file[f].ref + Uses(t, f) = 0 <=> file[f].ref = 0)
    BY <1>5, <2>2
  <2>4. file'[f] = [file[f] EXCEPT !.ref = file[f].ref + Uses(t, f)]
    BY <1>1
  <2> QED
    BY <2>1, <2>3, <2>4 DEF FileRecord
<1>7. FilesExact'
  <2>1. ASSUME NEW f \in FileId PROVE file'[f].ref = file[f].ref - Uses(c, f) + Uses(c, f)'
    <3>1. file[f].ref \in Nat
      BY <1>2 DEF FileRecord
    <3> QED
      BY <1>5, <1>6, <3>1
  <2> QED
    BY <1>4, <2>1, FilesExactStep
<1>8. FilesSound'
  <2>1. walk[c] = NoWalk
    BY <1>1 DEF FilesInv, FilesSound
  <2>2. Alive(c)'
    BY <1>3 DEF Alive
  <2> QED
    BY <1>1, <1>3, <1>4, <1>6, <2>1, <2>2, RefersSound
<1>9. ASSUME NEW d \in Node
      PROVE  /\ Load(Root, d) \in {0, 1} /\ Load(pwd[t], d) \in {0, 1} /\ ref[d] \in Int
             /\ ref'[d] = ref[d] + Load(Root, d) + Load(pwd[t], d) /\ ref'[d] \in Int
  <2>1. Root \in Node \cup {NoNode} /\ pwd[t] \in Node \cup {NoNode}
    BY <1>2, FilesAssumption DEF Stand
  <2>2. Load(Root, d) \in {0, 1} /\ Load(pwd[t], d) \in {0, 1}
    BY <2>1, Loads
  <2> QED
    BY <1>1, <1>2, <2>2
<1>10. FilesType'
  <2>1. file' \in [FileId -> FileRecord]
    BY <1>1, <1>6
  <2>2. ref' \in [Node -> Int]
    BY <1>1, <1>9
  <2> QED
    BY <1>1, <1>2, <1>3, <2>1, <2>2 DEF FilesInv, FilesType, Tables, FileRecord
<1>11. ASSUME NEW d \in Node
       PROVE  ref'[d] = (IF d = Base THEN 1 ELSE 0) + stray'[d]
                + Cardinality(Roots(d)') + Cardinality(Dirs(d)') + Cardinality(Paths(d)')
                + Cardinality(Opened(d)') + Cardinality(MountPoints(d)')
  <2>1. Cardinality(Opened(d)') = Cardinality(Opened(d)) + 0
    <3>1. Opened(d)' = Opened(d)
      BY <1>6, EntriesStay
    <3> QED
      BY <3>1, SizesNat DEF FilesInv, Tallies
  <2>2. Load(pwd[c], d) = 0 /\ Load(pwd'[c], d) = Load(pwd[t], d) /\ Alive(c)'
    BY <1>3, CountedNowhere DEF Alive
  <2>3. ref'[d] = ref[d] - Load(pwd[c], d) + Load(pwd'[c], d)
                  - (IF Alive(c) THEN Load(Root, d) ELSE 0)
                  + (IF Alive(c)' THEN Load(Root, d) ELSE 0) + 0
    BY <1>1, <1>9, <2>2
  <2>4. 0 \in Int
    OBVIOUS
  <2> QED
    BY <1>1, <1>3, <1>10, <2>1, <2>3, <2>4, DirectoriesStep
<1> QED
  BY <1>7, <1>8, <1>10, <1>11 DEF FilesInv, EntriesExact

LEMMA ExitInv == ASSUME FilesInv, NEW t \in Task, Exit(t) PROVE FilesInv'
<1> DEFINE drop == [f \in FileId |-> Uses(t, f)]
<1>1. /\ Idle(t) /\ pwd' = [pwd EXCEPT ![t] = NoNode]
      /\ fd' = [fd EXCEPT ![t] = [i \in Fd |-> NoFile]] /\ exec' = [exec EXCEPT ![t] = NoFile]
      /\ CloseFiles(drop)
      /\ ref' = [d \in Node |-> ref[d] - Load(Root, d) - Load(pwd[t], d) - Dropped(drop, d)]
      /\ UNCHANGED <<mounts, stray, walk>>
  BY DEF Exit
<1>2. /\ pwd \in [Task -> Stand] /\ ref \in [Node -> Int]
      /\ fd \in [Task -> [Fd -> FileId \cup {NoFile}]] /\ exec \in [Task -> FileId \cup {NoFile}]
  BY DEF FilesInv, FilesType
<1>3. Tables /\ Refers(t) /\ exec'[t] = NoFile /\ \A i \in Fd : fd'[t][i] = NoFile
  BY <1>1, <1>2 DEF Tables, Refers
<1>4. /\ Alive(t) /\ walk[t] = NoWalk /\ pwd'[t] = NoNode /\ pwd' \in [Task -> Stand]
      /\ \A u \in Task : u # t => pwd'[u] = pwd[u]
  BY <1>1, <1>2 DEF Idle, Stand
<1>5. Gives(t, drop)
  <2>1. ASSUME NEW f \in FileId
        PROVE  drop[f] = Uses(t, f) - Uses(t, f)' /\ (file[f].ref = 0 => Uses(t, f)' = 0)
    <3>1. Row(t, f)' = {} /\ exec'[t] # f
      BY <1>3, FilesAssumption DEF Row
    <3>2. Uses(t, f)' = 0
      BY <3>1, RowsFinite, FS_EmptySet
    <3>3. Uses(t, f) \in Nat
      BY RowsFinite
    <3> QED
      BY <3>2, <3>3
  <2> QED
    BY <2>1 DEF Gives
<1> HIDE DEF drop
<1>6. file' = [f \in FileId |-> IF f \in Closed(drop) THEN NotOpen
                                ELSE [file[f] EXCEPT !.ref = @ - drop[f]]]
  BY <1>1 DEF CloseFiles
<1>7. /\ file' \in [FileId -> FileRecord]
      /\ \A f \in FileId : file'[f].ref = 0 <=> file'[f].node = NoNode
      /\ FilesExact'
  BY <1>3, <1>5, <1>6, GivesFiles
<1>8. \A d : Dropped(drop, d) \in Nat
  BY <1>3, <1>5, <1>6, GivesFiles
<1>9. \A d : Cardinality(Opened(d)') = Cardinality(Opened(d)) - Dropped(drop, d)
  BY <1>3, <1>5, <1>6, GivesFiles
<1>10. ASSUME NEW d \in Node
       PROVE  /\ Load(Root, d) \in {0, 1} /\ Load(pwd[t], d) \in {0, 1} /\ ref[d] \in Int
              /\ Dropped(drop, d) \in Nat
              /\ ref'[d] = ref[d] - Load(Root, d) - Load(pwd[t], d) - Dropped(drop, d)
              /\ ref'[d] \in Int
  <2>1. Root \in Node \cup {NoNode} /\ pwd[t] \in Node \cup {NoNode}
    BY <1>2, FilesAssumption DEF Stand
  <2>2. Load(Root, d) \in {0, 1} /\ Load(pwd[t], d) \in {0, 1}
    BY <2>1, Loads
  <2> QED
    BY <1>1, <1>2, <1>8, <2>2
<1>11. FilesType'
  <2>1. ref' \in [Node -> Int]
    BY <1>1, <1>10
  <2> QED
    BY <1>1, <1>3, <1>4, <1>7, <2>1 DEF FilesInv, FilesType, Tables, FileRecord
<1>12. FilesSound'
  BY <1>1, <1>3, <1>4, <1>7, RefersSound
<1>13. ASSUME NEW d \in Node
       PROVE  ref'[d] = (IF d = Base THEN 1 ELSE 0) + stray'[d]
                + Cardinality(Roots(d)') + Cardinality(Dirs(d)') + Cardinality(Paths(d)')
                + Cardinality(Opened(d)') + Cardinality(MountPoints(d)')
  <2> DEFINE o == -Dropped(drop, d)
  <2>1. o \in Int /\ Cardinality(Opened(d)') = Cardinality(Opened(d)) + o
    <3>1. Cardinality(Opened(d)) \in Nat
      BY SizesNat DEF FilesInv, Tallies
    <3> QED
      BY <1>8, <1>9, <3>1
  <2>2. Load(pwd'[t], d) = 0 /\ ~Alive(t)'
    BY <1>4, CountedNowhere DEF Alive
  <2>3. ref'[d] = ref[d] - Load(pwd[t], d) + Load(pwd'[t], d)
                  - (IF Alive(t) THEN Load(Root, d) ELSE 0)
                  + (IF Alive(t)' THEN Load(Root, d) ELSE 0) + o
    BY <1>4, <1>10, <2>2
  <2> HIDE DEF o
  <2> QED
    BY <1>1, <1>4, <1>11, <2>1, <2>3, DirectoriesStep
<1> QED
  BY <1>7, <1>11, <1>12, <1>13 DEF FilesInv, EntriesExact

-----------------------------------------------------------------------------
(* open() and execve().                                                    *)

\* t opens f for what its path leads to, and closes other files.
Opens(t, f, drop) ==
  /\ file[f].ref = 0 /\ drop[f] = 0 /\ Uses(t, f)' = 1
  /\ file'[f] = NewFile(t, f)
  /\ \A g \in FileId \ {f} :
       /\ drop[g] = Uses(t, g) - Uses(t, g)' /\ (file[g].ref = 0 => Uses(t, g)' = 0)
       /\ file'[g] \in FileRecord /\ file'[g].ref = file[g].ref - drop[g]
       /\ file'[g].node = IF g \in Closed(drop) THEN NoNode ELSE file[g].node
       /\ file'[g].ref = 0 <=> file'[g].node = NoNode

LEMMA OpensFiles ==
  ASSUME FilesInv, NEW t \in Task, walk[t] # NoWalk, NEW f \in FileId, NEW drop,
         Opens(t, f, drop), Refers(t)
  PROVE  /\ \A g \in FileId : file'[g] \in FileRecord
         /\ \A g \in FileId : file'[g].ref = 0 <=> file'[g].node = NoNode
         /\ FilesExact'
<1>1. /\ file'[f] \in FileRecord /\ file'[f].ref = 1 /\ file'[f].node # NoNode
  <2>1. walk[t] \in WalkRecord /\ walk[t].at \in Node \ {Base}
    BY WalkFacts
  <2>2. file'[f] = [ref |-> 1, node |-> walk[t].at, seek |-> 0, cloexec |-> walk[t].mode = "cloexec"]
    BY DEF Opens, NewFile
  <2> QED
    BY <2>1, <2>2, FilesAssumption DEF FileRecord, Stand
<1>2. \A g \in FileId : file'[g] \in FileRecord
  BY <1>1 DEF Opens
<1>3. \A g \in FileId : file'[g].ref = 0 <=> file'[g].node = NoNode
  BY <1>1 DEF Opens
<1>4. ASSUME NEW g \in FileId PROVE file'[g].ref = file[g].ref - Uses(t, g) + Uses(t, g)'
  <2>1. Uses(t, g) \in Nat /\ Uses(t, g)' \in Nat /\ Uses(t, g) <= file[g].ref
    BY RowsFinite, UsesCounted
  <2>2. file[g].ref \in Nat
    BY DEF FilesInv, FilesType
  <2>3. CASE g = f
    BY <1>1, <2>1, <2>2, <2>3 DEF Opens
  <2>4. CASE g # f
    <3>1. file'[g].ref = file[g].ref - drop[g] /\ drop[g] = Uses(t, g) - Uses(t, g)'
      BY <2>4 DEF Opens
    <3> QED
      BY <2>1, <2>2, <3>1
  <2> QED
    BY <2>3, <2>4
<1>5. FilesExact'
  BY <1>4, FilesExactStep
<1> QED
  BY <1>2, <1>3, <1>5

LEMMA OpensOpened ==
  ASSUME FilesInv, NEW t \in Task, NEW f \in FileId, NEW drop, Opens(t, f, drop), NEW d
  PROVE  /\ Dropped(drop, d) \in Nat
         /\ Cardinality(Opened(d)') =
              Cardinality(Opened(d)) - Dropped(drop, d) + Load(walk[t].at, d)
<1> DEFINE A == Opened(d) \ Left(drop, d)
           B == Opened(d)'
<1>1. /\ Dropped(drop, d) \in Nat
      /\ Cardinality(A) = Cardinality(Opened(d)) - Dropped(drop, d)
  BY LeftFacts DEF FilesInv
<1>2. A \in SUBSET FileId /\ B \in SUBSET FileId
  BY DEF Opened
<1>3. \A g \in FileId : g # f => (g \in A <=> g \in B)
  <2>1. ASSUME NEW g \in FileId, g # f
        PROVE  file'[g].node = IF g \in Closed(drop) THEN NoNode ELSE file[g].node
    BY <2>1 DEF Opens
  <2> QED
    BY <2>1, CountedNowhere DEF Opened, Left
<1>4. Has(f, A) = 0
  <2>1. file[f].node = NoNode
    BY DEF Opens, FilesInv, FilesSound
  <2> QED
    BY <2>1, CountedNowhere DEF Has, Opened
<1>5. Has(f, B) = Load(walk[t].at, d)
  <2>1. file'[f].node = walk[t].at
    BY DEF Opens, NewFile
  <2> QED
    BY <2>1 DEF Has, Opened, Load
<1> HIDE DEF A, B
<1>6. Cardinality(A) \in Nat /\ Cardinality(B) = Cardinality(A) - Has(f, A) + Has(f, B)
  BY <1>2, <1>3, FilesFinite, CountChange
<1>7. Cardinality(B) = Cardinality(A) + Load(walk[t].at, d)
  BY <1>4, <1>5, <1>6
<1> QED
  BY <1>1, <1>7 DEF B

LEMMA OpensInv ==
  ASSUME FilesInv, NEW t \in Task, walk[t] # NoWalk, NEW f \in FileId, NEW drop,
         Opens(t, f, drop), Refers(t), Tables, file' = [g \in FileId |-> file'[g]],
         walk' = [walk EXCEPT ![t] = NoWalk], UNCHANGED <<mounts, stray, pwd>>,
         ref' = [d \in Node |-> ref[d] - Dropped(drop, d)]
  PROVE  FilesInv'
<1>1. /\ \A g \in FileId : file'[g] \in FileRecord
      /\ \A g \in FileId : file'[g].ref = 0 <=> file'[g].node = NoNode
      /\ FilesExact'
  BY OpensFiles
<1>2. /\ walk \in [Task -> WalkRecord] /\ NoWalk \in WalkRecord /\ NoWalk.kind = "none"
      /\ ref \in [Node -> Int] /\ Alive(t) /\ walk[t].at \in Node /\ NoWalk.at = NoNode
  BY WalkFacts
<1>3. walk' \in [Task -> WalkRecord] /\ walk'[t] = NoWalk /\ \A u \in Task : u # t => walk'[u] = walk[u]
  BY <1>2
<1>4. \A d : Dropped(drop, d) \in Nat
  BY OpensOpened
<1>5. FilesType'
  <2>1. file' \in [FileId -> FileRecord]
    BY <1>1
  <2>2. \A d \in Node : ref[d] - Dropped(drop, d) \in Int
    BY <1>2, <1>4
  <2>3. ref' \in [Node -> Int]
    BY <2>2
  <2> QED
    BY <1>3, <2>1, <2>3 DEF FilesInv, FilesType, Tables, FileRecord, WalkRecord
<1>6. FilesSound'
  <2>1. ASSUME NEW u \in Task, ~Alive(u)'
        PROVE  walk'[u] = NoWalk /\ exec'[u] = NoFile /\ \A i \in Fd : fd'[u][i] = NoFile
    <3>1. ~Alive(u) /\ u # t
      BY <1>2, <2>1 DEF Alive
    <3>2. walk[u] = NoWalk /\ exec[u] = NoFile /\ \A i \in Fd : fd[u][i] = NoFile
      BY <3>1 DEF FilesInv, FilesSound
    <3> QED
      BY <1>3, <3>1, <3>2 DEF Refers
  <2>2. ASSUME NEW u \in Task, walk'[u] # NoWalk PROVE walk'[u].at # NoNode
    <3>1. walk'[u] = walk[u]
      BY <1>3, <2>2
    <3> QED
      BY <2>2, <3>1 DEF FilesInv, FilesSound
  <2>3. ASSUME NEW u \in Task, walk'[u].kind = "open" PROVE FreeFd(u)' # {}
    <3>1. walk[u].kind = "open" /\ u # t
      BY <1>2, <1>3, <2>3
    <3>2. FreeFd(u)' = FreeFd(u)
      BY <3>1 DEF FreeFd, Refers
    <3> QED
      BY <3>1, <3>2 DEF FilesInv, FilesSound
  <2> QED
    BY <1>1, <2>1, <2>2, <2>3 DEF FilesSound
<1>7. ASSUME NEW d \in Node
      PROVE  ref'[d] = (IF d = Base THEN 1 ELSE 0) + stray'[d]
                + Cardinality(Roots(d)') + Cardinality(Dirs(d)') + Cardinality(Paths(d)')
                + Cardinality(Opened(d)') + Cardinality(MountPoints(d)')
  <2> DEFINE x == Load(walk[t].at, d)
             y == Dropped(drop, d)
  <2>1. x \in {0, 1} /\ y \in Nat /\ ref[d] \in Int /\ ref'[d] = ref[d] - y
    BY <1>2, <1>4, Loads
  <2>2. Cardinality(Opened(d)') = Cardinality(Opened(d)) - y + x
    BY OpensOpened
  <2>3. Cardinality(Paths(d)') = Cardinality(Paths(d)) - x + 0
    <3>1. Load(walk'[t].at, d) = 0
      BY <1>2, <1>3, CountedNowhere
    <3> QED
      BY <1>3, <1>5, <3>1, PathsStep DEF FilesInv
  <2>4. Tallies(d)
    BY SizesNat DEF FilesInv
  <2>5. stray'[d] = stray[d] + 0
    BY DEF FilesInv, FilesType
  <2> HIDE DEF x, y
  <2>6. /\ Cardinality(Roots(d)') = Cardinality(Roots(d)) + 0
        /\ Cardinality(Dirs(d)') = Cardinality(Dirs(d)) + 0
        /\ Cardinality(MountPoints(d)') = Cardinality(MountPoints(d)) + 0
    <3>1. Roots(d)' = Roots(d) /\ Dirs(d)' = Dirs(d) /\ MountPoints(d)' = MountPoints(d)
      BY EntriesStay
    <3> QED
      BY <2>4, <3>1 DEF Tallies
  <2>7. /\ Cardinality(Opened(d)') = Cardinality(Opened(d)) + (x - y)
        /\ Cardinality(Paths(d)') = Cardinality(Paths(d)) + (-x)
    BY <2>1, <2>2, <2>3, <2>4 DEF Tallies
  <2>8. /\ ref'[d] = ref[d] + 0 + 0 + 0 + (-x) + (x - y) + 0
        /\ x - y \in Int /\ -x \in Int /\ 0 \in Int
    BY <2>1
  <2> QED
    BY <2>5, <2>6, <2>7, <2>8, EntrySum
<1> QED
  BY <1>1, <1>5, <1>6, <1>7 DEF FilesInv, EntriesExact

\* The numbers below another are well-founded: a set of them has a least one.
Below(R) == \A x, y \in Nat : <<x, y>> \in R <=> x < y

LEMMA MinIn ==
  ASSUME NEW S, S \subseteq Nat, S # {}
  PROVE  Min(S) \in S
<1>1. \E R : IsWellFoundedOn(R, Nat) /\ Below(R)
  <2> DEFINE Q == OpToRel(<, Nat)
  <2>1. IsWellFoundedOn(Q, Nat)
    BY NatLessThanWellFounded
  <2>2. \A x, y \in Nat : <<x, y>> \in Q <=> x < y
    BY DEF OpToRel
  <2> QED
    BY <2>1, <2>2 DEF Below
<1>2. PICK R : IsWellFoundedOn(R, Nat) /\ Below(R)
  BY <1>1
<1>3. IsWellFoundedOn(R, Nat)
  BY <1>2
<1>4. \E x \in S : \A y \in S : ~ (<<y, x>> \in R)
  BY <1>3, WFMin
<1>5. PICK x \in S : \A y \in S : ~ (<<y, x>> \in R)
  BY <1>4
<1>6. ASSUME NEW y \in S PROVE x <= y
  <2>1. x \in Nat /\ y \in Nat
    OBVIOUS
  <2>2. ~(y < x)
    BY <1>2, <1>5, <2>1 DEF Below
  <2> QED
    BY <2>1, <2>2
<1> QED
  BY <1>6 DEF Min

LEMMA OpenInv == ASSUME FilesInv, NEW t \in Task, NEW f \in FileId, Open(t, f) PROVE FilesInv'
<1> DEFINE j == Min(FreeFd(t))
<1>1. /\ walk[t] # NoWalk /\ walk[t].kind = "open" /\ file[f].ref = 0
      /\ fd' = [fd EXCEPT ![t][j] = f] /\ file' = [file EXCEPT ![f] = NewFile(t, f)]
      /\ walk' = [walk EXCEPT ![t] = NoWalk] /\ UNCHANGED <<mounts, ref, stray, pwd, exec>>
  BY DEF Open, Arrived
<1>2. j \in Fd /\ fd[t][j] = NoFile
  <2>1. FreeFd(t) # {} /\ FreeFd(t) \subseteq Nat
    BY <1>1, WalkFacts, FilesAssumption DEF FreeFd
  <2>2. j \in FreeFd(t)
    BY <2>1, MinIn
  <2> QED
    BY <2>2 DEF FreeFd
<1> HIDE DEF j
<1>3. /\ Refers(t) /\ Tables
      /\ \A g \in FileId : Uses(t, g)' = Uses(t, g) - (IF g = fd[t][j] THEN 1 ELSE 0)
                                                    + (IF g = f THEN 1 ELSE 0)
  BY <1>1, <1>2, RowSet
<1>4. file \in [FileId -> FileRecord] /\ ref \in [Node -> Int]
  BY DEF FilesInv, FilesType, FileRecord
<1>5. \A g \in FileId : NoDrop[g] = 0 /\ g \notin Closed(NoDrop)
  BY DEF NoDrop, Closed
<1>6. ASSUME NEW g \in FileId
      PROVE  /\ Uses(t, g) \in Nat /\ Uses(t, g)' \in Nat /\ Uses(t, g) <= file[g].ref
             /\ Uses(t, g)' = Uses(t, g) + (IF g = f THEN 1 ELSE 0) /\ file[g].ref \in Nat
  <2>1. g # fd[t][j]
    BY <1>2, FilesAssumption
  <2>2. Uses(t, g) \in Nat /\ Uses(t, g)' \in Nat /\ Uses(t, g) <= file[g].ref
    BY RowsFinite, UsesCounted
  <2>3. file[g].ref \in Nat
    BY <1>4 DEF FileRecord
  <2> QED
    BY <1>3, <2>1, <2>2, <2>3
<1>7. Opens(t, f, NoDrop)
  <2>1. NoDrop[f] = 0 /\ Uses(t, f)' = 1 /\ file'[f] = NewFile(t, f)
    BY <1>1, <1>4, <1>5, <1>6
  <2>2. ASSUME NEW g \in FileId, g # f
        PROVE  /\ NoDrop[g] = Uses(t, g) - Uses(t, g)' /\ (file[g].ref = 0 => Uses(t, g)' = 0)
               /\ file'[g] \in FileRecord /\ file'[g].ref = file[g].ref - NoDrop[g]
               /\ file'[g].node = IF g \in Closed(NoDrop) THEN NoNode ELSE file[g].node
               /\ file'[g].ref = 0 <=> file'[g].node = NoNode
    <3>1. file'[g] = file[g] /\ file[g] \in FileRecord
      BY <1>1, <1>4, <2>2
    <3>2. file[g].ref = 0 <=> file[g].node = NoNode
      BY DEF FilesInv, FilesSound
    <3> QED
      BY <1>5, <1>6, <2>2, <3>1, <3>2
  <2> QED
    BY <1>1, <2>1, <2>2 DEF Opens
<1>8. ref' = [d \in Node |-> ref[d] - Dropped(NoDrop, d)]
  <2>1. ASSUME NEW d \in Node PROVE Dropped(NoDrop, d) = 0
    <3>1. Left(NoDrop, d) = {} /\ Dropped(NoDrop, d) = Cardinality(Left(NoDrop, d))
      BY <1>5 DEF Left, Closed, Dropped
    <3> QED
      BY <3>1, FS_EmptySet
  <2> QED
    BY <1>1, <1>4, <2>1
<1>9. file' = [g \in FileId |-> file'[g]]
  BY <1>1, <1>4
<1> QED
  BY <1>1, <1>3, <1>7, <1>8, <1>9, OpensInv

LEMMA ExecInv == ASSUME FilesInv, NEW t \in Task, NEW f \in FileId, Exec(t, f) PROVE FilesInv'
<1> DEFINE closing == {i \in Fd : fd[t][i] # NoFile /\ file[fd[t][i]].cloexec}
           drop == [g \in FileId |-> Cardinality({i \in closing : fd[t][i] = g})
                                     + (IF exec[t] = g THEN 1 ELSE 0)]
<1>1. /\ walk[t] # NoWalk /\ file[f].ref = 0
      /\ fd' = [fd EXCEPT ![t] = [i \in Fd |-> IF i \in closing THEN NoFile ELSE @[i]]]
      /\ exec' = [exec EXCEPT ![t] = f]
      /\ file' = [g \in FileId |->
           IF g = f THEN NewFile(t, f)
           ELSE IF g \in Closed(drop) THEN NotOpen ELSE [file[g] EXCEPT !.ref = @ - drop[g]]]
      /\ ref' = [d \in Node |-> ref[d] - Dropped(drop, d)]
      /\ walk' = [walk EXCEPT ![t] = NoWalk] /\ UNCHANGED <<mounts, stray, pwd>>
  BY DEF Exec, Arrived
<1>2. closing \subseteq Fd /\ \A g \in FileId : drop[g] =
        Cardinality({i \in closing : fd[t][i] = g}) + (IF exec[t] = g THEN 1 ELSE 0)
  OBVIOUS
<1> HIDE DEF closing, drop
<1>3. fd \in [Task -> [Fd -> FileId \cup {NoFile}]] /\ exec \in [Task -> FileId \cup {NoFile}]
  BY DEF FilesInv, FilesType
<1>4. /\ fd'[t] = [i \in Fd |-> IF i \in closing THEN NoFile ELSE fd[t][i]]
      /\ exec'[t] = f /\ Refers(t)
  BY <1>1, <1>3 DEF Refers
<1>5. Tables
  <2>1. [i \in Fd |-> IF i \in closing THEN NoFile ELSE fd[t][i]] \in [Fd -> FileId \cup {NoFile}]
    BY <1>3
  <2> QED
    BY <1>1, <1>3, <2>1 DEF Tables
<1>6. ASSUME NEW g \in FileId
      PROVE  /\ Uses(t, g) \in Nat /\ Uses(t, g)' \in Nat /\ Uses(t, g) <= file[g].ref
             /\ file[g].ref \in Nat /\ drop[g] \in Int
             /\ drop[g] = Uses(t, g) - Uses(t, g)' + (IF g = f THEN 1 ELSE 0)
  <2> DEFINE A == {i \in closing : fd[t][i] = g}
             x == IF exec[t] = g THEN 1 ELSE 0
             y == IF g = f THEN 1 ELSE 0
  <2>1. A \subseteq Row(t, g) /\ Row(t, g)' = Row(t, g) \ A
    BY <1>2, <1>4, FilesAssumption DEF Row
  <2>2. IsFiniteSet(Row(t, g)) /\ Cardinality(Row(t, g)) \in Nat
    BY RowsFinite
  <2>3. /\ Uses(t, g) = Cardinality(Row(t, g)) + x
        /\ Uses(t, g)' = Cardinality(Row(t, g)') + y
    BY <1>4, RowsFinite
  <2>4. Uses(t, g) \in Nat /\ Uses(t, g)' \in Nat /\ Uses(t, g) <= file[g].ref
    BY RowsFinite, UsesCounted
  <2>5. file[g].ref \in Nat
    BY DEF FilesInv, FilesType
  <2>6. drop[g] = Cardinality(A) + x
    BY <1>2
  <2>7. x \in {0, 1} /\ y \in {0, 1}
    OBVIOUS
  <2> HIDE DEF A, x
  <2> DEFINE R == Row(t, g)
             B == R \ A
  <2>8. IsFiniteSet(A) /\ Cardinality(A) \in Nat /\ IsFiniteSet(B) /\ Cardinality(B) \in Nat
    <3>1. IsFiniteSet(A) /\ IsFiniteSet(B)
      BY <2>1, <2>2, FS_Subset
    <3> QED
      BY <3>1, FS_CardinalityType
  <2>9. Cardinality(R) = Cardinality(B) + Cardinality(A)
    <3>1. B \cup A = R /\ B \cap A = {}
      BY <2>1
    <3> HIDE DEF B, R
    <3>2. Cardinality(B \cup A) = Cardinality(B) + Cardinality(A) - Cardinality(B \cap A)
      BY <2>8, FS_Union
    <3>3. Cardinality(B \cap A) = 0
      BY <3>1, FS_EmptySet
    <3> QED
      BY <2>8, <3>1, <3>2, <3>3
  <2>10. Row(t, g)' = B
    BY <2>1
  <2> HIDE DEF B, y
  <2>11. Uses(t, g) = Cardinality(B) + Cardinality(A) + x /\ Uses(t, g)' = Cardinality(B) + y
    BY <2>3, <2>9, <2>10
  <2>12. drop[g] \in Int /\ drop[g] = Uses(t, g) - Uses(t, g)' + y
    BY <2>6, <2>7, <2>8, <2>11
  <2> QED
    BY <2>4, <2>5, <2>12 DEF y
<1>7. Uses(t, f)' = 1 /\ drop[f] = 0
  <2>1. Row(t, f)' = {}
    <3>1. Uses(t, f) = 0
      BY <1>1, <1>6
    <3>2. \A i \in Fd : fd[t][i] # f
      BY <3>1, UsesCounted
    <3> QED
      BY <1>4, <3>2, FilesAssumption DEF Row
  <2>2. Uses(t, f)' = 1
    BY <1>4, <2>1, RowsFinite, FS_EmptySet
  <2>3. Uses(t, f) = 0
    BY <1>1, <1>6
  <2>4. drop[f] = Uses(t, f) - Uses(t, f)' + 1
    BY <1>6
  <2> QED
    BY <2>2, <2>3, <2>4
<1>8. ASSUME NEW g \in FileId, g # f
      PROVE  drop[g] = Uses(t, g) - Uses(t, g)' /\ (file[g].ref = 0 => Uses(t, g)' = 0)
  <2>1. /\ Uses(t, g) \in Nat /\ Uses(t, g)' \in Nat /\ Uses(t, g) <= file[g].ref
        /\ file[g].ref \in Nat /\ drop[g] = Uses(t, g) - Uses(t, g)' + (IF g = f THEN 1 ELSE 0)
    BY <1>6
  <2>2. drop[g] = Uses(t, g) - Uses(t, g)'
    BY <1>8, <2>1
  <2>3. ASSUME file[g].ref = 0 PROVE Uses(t, g)' = 0
    <3>1. \A i \in Fd : fd[t][i] # g
      BY <2>1, <2>3, UsesCounted
    <3>2. Row(t, g)' = {}
      BY <1>4, <3>1, FilesAssumption DEF Row
    <3> QED
      BY <1>4, <1>8, <3>2, RowsFinite, FS_EmptySet
  <2> QED
    BY <2>2, <2>3
<1>9. Droppable(drop)
  <2>1. ASSUME NEW g \in FileId
        PROVE  drop[g] \in Int /\ drop[g] <= file[g].ref /\ (file[g].ref = 0 => drop[g] = 0)
    <3>1. /\ Uses(t, g) \in Nat /\ Uses(t, g)' \in Nat /\ Uses(t, g) <= file[g].ref
          /\ file[g].ref \in Nat /\ drop[g] \in Int
      BY <1>6
    <3>2. CASE g = f
      BY <1>1, <1>7, <3>2
    <3>3. CASE g # f
      <4>1. drop[g] = Uses(t, g) - Uses(t, g)' /\ (file[g].ref = 0 => Uses(t, g)' = 0)
        BY <1>8, <3>3
      <4> QED
        BY <3>1, <4>1
    <3> QED
      BY <3>2, <3>3
  <2> QED
    BY <2>1 DEF Droppable
<1>10. Opens(t, f, drop)
  <2>1. file'[f] = NewFile(t, f)
    BY <1>1
  <2>2. ASSUME NEW g \in FileId, g # f
        PROVE  /\ file'[g] \in FileRecord /\ file'[g].ref = file[g].ref - drop[g]
               /\ file'[g].node = IF g \in Closed(drop) THEN NoNode ELSE file[g].node
               /\ file'[g].ref = 0 <=> file'[g].node = NoNode
    <3>1. file'[g] = IF g \in Closed(drop) THEN NotOpen ELSE [file[g] EXCEPT !.ref = @ - drop[g]]
      BY <1>1, <2>2
    <3>2. /\ file'[g] \in [ref : Nat, node : Stand, seek : Int, cloexec : BOOLEAN]
          /\ file'[g].ref = file[g].ref - drop[g]
          /\ file'[g].node = IF g \in Closed(drop) THEN NoNode ELSE file[g].node
          /\ file'[g].ref = 0 <=> file'[g].node = NoNode
      BY <1>9, <3>1, CloseFacts
    <3> QED
      BY <3>2 DEF FileRecord
  <2> QED
    BY <1>1, <1>7, <1>8, <2>1, <2>2 DEF Opens
<1>11. file' = [g \in FileId |-> file'[g]]
  BY <1>1
<1> QED
  BY <1>1, <1>4, <1>5, <1>10, <1>11, OpensInv

-----------------------------------------------------------------------------
(* Files: the theorems.                                                    *)

LEMMA FilesInitInv == ASSUME FilesInit PROVE FilesInv
<1>1. /\ mounts = {Root} /\ ref = [d \in Node |-> IF d = Base THEN 3 ELSE 0]
      /\ stray = [d \in Node |-> 0] /\ pwd = [t \in Task |-> IF t = Kinit THEN Root ELSE NoNode]
      /\ fd = [t \in Task |-> [i \in Fd |-> NoFile]] /\ exec = [t \in Task |-> NoFile]
      /\ file = [f \in FileId |-> NotOpen] /\ walk = [t \in Task |-> NoWalk]
  BY DEF FilesInit
<1>2. Kinit \in Task /\ Root \in Node \ {Base} /\ Root # NoNode /\ NoFile \notin FileId
  BY FilesAssumption, TreeAssumption
<1>3. NoWalk \in WalkRecord /\ NoWalk.at = NoNode /\ NoWalk.kind = "none"
  BY EmptyList DEF NoWalk, WalkRecord, Stand
<1>4. NotOpen \in FileRecord /\ NotOpen.ref = 0 /\ NotOpen.node = NoNode
  BY DEF NotOpen, FileRecord, Stand
<1>5. FilesType
  <2>1. pwd \in [Task -> Stand]
    BY <1>1, <1>2 DEF Stand
  <2>2. walk \in [Task -> WalkRecord] /\ file \in [FileId -> FileRecord]
    BY <1>1, <1>3, <1>4
  <2>3. /\ ref \in [Node -> Int] /\ stray \in [Node -> Nat]
        /\ fd \in [Task -> [Fd -> FileId \cup {NoFile}]] /\ exec \in [Task -> FileId \cup {NoFile}]
    BY <1>1
  <2> QED
    BY <1>1, <2>1, <2>2, <2>3 DEF FilesType, WalkRecord, FileRecord
<1>6. FilesSound
  BY <1>1, <1>3, <1>4 DEF FilesSound
<1>7. ASSUME NEW d \in Node
      PROVE  ref[d] = (IF d = Base THEN 1 ELSE 0) + stray[d]
               + Cardinality(Roots(d)) + Cardinality(Dirs(d)) + Cardinality(Paths(d))
               + Cardinality(Opened(d)) + Cardinality(MountPoints(d))
  <2> DEFINE A == IF d = Base THEN {Kinit} ELSE {}
  <2>1. d \in Counted[Root] <=> d = Base
    BY Loads DEF Load
  <2>2. Roots(d) = A
    BY <1>1, <1>2, <2>1 DEF Roots, Alive
  <2>3. Dirs(d) = A
    BY <1>1, <1>2, <2>1, CountedNowhere DEF Dirs
  <2>4. Paths(d) = {} /\ Opened(d) = {} /\ MountPoints(d) = {}
    BY <1>1, <1>3, <1>4, CountedNowhere DEF Paths, Opened, MountPoints
  <2>5. Cardinality({Kinit}) = 1 /\ Cardinality({}) = 0
    BY FS_Singleton, FS_EmptySet
  <2>6. Cardinality(A) = IF d = Base THEN 1 ELSE 0
    BY <2>5
  <2>7. ref[d] = (IF d = Base THEN 3 ELSE 0) /\ stray[d] = 0
    BY <1>1
  <2> HIDE DEF A
  <2>8. CASE d = Base
    BY <2>2, <2>3, <2>4, <2>5, <2>6, <2>7, <2>8
  <2>9. CASE d # Base
    BY <2>2, <2>3, <2>4, <2>5, <2>6, <2>7, <2>9
  <2> QED
    BY <2>8, <2>9
<1>8. ASSUME NEW f \in FileId
      PROVE  file[f].ref = Cardinality(Descs(f)) + Cardinality(Progs(f))
  <2>1. Descs(f) = {} /\ Progs(f) = {} /\ file[f].ref = 0
    BY <1>1, <1>2, <1>4 DEF Descs, Progs
  <2> QED
    BY <2>1, FS_EmptySet
<1> QED
  BY <1>5, <1>6, <1>7, <1>8 DEF FilesInv, EntriesExact, FilesExact

LEMMA FilesStep == ASSUME FilesInv, [FilesNext]_filesVars PROVE FilesInv'
<1>1. CASE Mount
  BY <1>1, MountInv
<1>2. ASSUME NEW t \in Task, Call(t) PROVE FilesInv'
  <2>1. ASSUME NEW i \in Fd, Close(t, i) \/ Dup(t, i) \/ \E j \in Fd : Dup2(t, i, j)
        PROVE  FilesInv'
    <3>1. CASE Close(t, i)
      BY <3>1, CloseInv
    <3>2. CASE Dup(t, i)
      BY <3>2, Dup2Inv, FilesAssumption DEF Dup
    <3>3. CASE \E j \in Fd : Dup2(t, i, j)
      BY <3>3, Dup2Inv
    <3> QED
      BY <2>1, <3>1, <3>2, <3>3
  <2>2. ASSUME NEW i \in Fd, NEW room \in Room, GetDents(t, i, room) PROVE FilesInv'
    BY <2>2, GetDentsInv
  <2>3. ASSUME NEW r \in Request, Begin(t, r) PROVE FilesInv'
    BY <2>3, BeginInv
  <2>4. CASE Exit(t)
    BY <2>4, ExitInv
  <2>5. ASSUME NEW c \in Task, Fork(t, c) PROVE FilesInv'
    BY <2>5, ForkInv
  <2> QED
    BY <1>2, <2>1, <2>2, <2>3, <2>4, <2>5 DEF Call
<1>3. ASSUME NEW t \in Task, Continue(t) PROVE FilesInv'
  <2>1. CASE Ascend(t)
    BY <2>1, AscendInv
  <2>2. CASE Descend(t)
    BY <2>2, DescendInv
  <2>3. CASE LookUpFails(t) \/ OpenFails(t) \/ ExecFails(t)
    <3>1. /\ walk[t] # NoWalk /\ Clear(walk[t].at) /\ walk' = [walk EXCEPT ![t] = NoWalk]
          /\ UNCHANGED <<mounts, stray, pwd, fd, exec, file>>
      BY <2>3 DEF LookUpFails, OpenFails, ExecFails, Walking, Arrived
    <3> QED
      BY <3>1, WalkEndsInv
  <2>4. CASE OpenStrays(t)
    BY <2>4, OpenStraysInv
  <2>5. CASE Chdir(t)
    BY <2>5, ChdirInv
  <2>6. ASSUME NEW f \in FileId, Open(t, f) PROVE FilesInv'
    BY <2>6, OpenInv
  <2>7. ASSUME NEW f \in FileId, Exec(t, f) PROVE FilesInv'
    BY <2>7, ExecInv
  <2> QED
    BY <1>3, <2>1, <2>2, <2>3, <2>4, <2>5, <2>6, <2>7 DEF Continue
<1>4. CASE UNCHANGED filesVars
  <2>1. UNCHANGED <<mounts, ref, stray, pwd, fd, exec, file, walk>>
    BY <1>4 DEF filesVars
  <2>2. FilesType'
    BY <2>1 DEF FilesInv, FilesType
  <2>3. FilesSound'
    BY <2>1 DEF FilesInv, FilesSound, Alive, FreeFd
  <2>4. FilesExact'
    BY <2>1 DEF FilesInv, FilesExact, Descs, Progs
  <2>5. EntriesExact'
    BY <2>1, EntriesStay DEF FilesInv, EntriesExact
  <2> QED
    BY <2>2, <2>3, <2>4, <2>5 DEF FilesInv
<1> QED
  BY <1>1, <1>2, <1>3, <1>4 DEF FilesNext

LEMMA FilesInvariant == FilesSpec => []FilesInv
<1>1. FilesInit => FilesInv
  BY FilesInitInv
<1>2. FilesInv /\ [FilesNext]_filesVars => FilesInv'
  BY FilesStep
<1> QED
  BY <1>1, <1>2, PTL DEF FilesSpec

\* What file[f].ref and VFSDentry.ref count is exactly what there is, whatever
\* calls are cut short, and for every tree (vfsLookUp, closeFile, doDup2,
\* doFork, doExecve, doExit).
THEOREM FilesCountsExact == FilesSpec => []CountsExact
<1>1. FilesInv => CountsExact
  BY CountsParts DEF FilesInv
<1> QED
  BY <1>1, FilesInvariant, PTL

-----------------------------------------------------------------------------
(* Scans of directories.                                                   *)

\* The list of devfs has the devices and the cursors of the open scans, and
\* only a scan has returned something.
ScansSound ==
  /\ devList \in Seq(Device \cup FileId) /\ IsInjective(devList)
  /\ ToSet(devList) = Device \cup {f \in FileId : file[f].node = DevRoot}
  /\ listed \in [FileId -> [Node -> Nat]]
  /\ \A f \in FileId : file[f].seek >= 0
  /\ \A f \in FileId : file[f].node \notin {Root, DevRoot} => listed[f] = Unlisted

ScansInv == ScansSound /\ ScansExact

LEMMA ScansConstants ==
  /\ Device \cap FileId = {} /\ Device \subseteq Node /\ Unlisted \in [Node -> Nat]
  /\ Root \in Node /\ DevRoot \in Node /\ NoNode \notin Node /\ Root # DevRoot
  /\ IsoOrder \in Seq(Node) /\ IsInjective(IsoOrder)
BY FilesAssumption, TreeAssumption DEF Unlisted

\* A step that closes the files of K; others it leaves alone or opens elsewhere.
Shrinks(K) ==
  /\ devList' \in Seq(Device \cup FileId) /\ IsInjective(devList')
  /\ ToSet(devList') = ToSet(devList) \ K
  /\ \A x, y : Precedes(x, y, devList') <=> Precedes(x, y, devList) /\ x \notin K /\ y \notin K
  /\ listed' \in [FileId -> [Node -> Nat]]
  /\ \A f \in K : listed'[f] = Unlisted /\ file'[f].node = NoNode /\ file'[f].seek = 0
  /\ \A f \in FileId \ K :
       /\ listed'[f] = listed[f]
       /\ \/ file'[f].node = file[f].node /\ file'[f].seek = file[f].seek
          \/ file[f].node = NoNode /\ file'[f].node # DevRoot /\ file'[f].seek = 0

LEMMA ShrinksInv ==
  ASSUME ScansInv, NEW K \in SUBSET FileId, Shrinks(K)
  PROVE  ScansInv'
<1>1. ASSUME NEW f \in FileId
      PROVE  /\ file'[f].node = DevRoot <=> file[f].node = DevRoot /\ f \notin K
             /\ file'[f].seek >= 0
             /\ file'[f].node \notin {Root, DevRoot} => listed'[f] = Unlisted
  <2>1. /\ file[f].seek >= 0
        /\ file[f].node \notin {Root, DevRoot} => listed[f] = Unlisted
        /\ NoNode # Root /\ NoNode # DevRoot
    BY ScansConstants DEF ScansInv, ScansSound
  <2>2. CASE f \in K
    <3>1. listed'[f] = Unlisted /\ file'[f].node = NoNode /\ file'[f].seek = 0
      BY <2>2 DEF Shrinks
    <3> QED
      BY <2>1, <2>2, <3>1
  <2>3. CASE f \notin K
    <3>1. /\ listed'[f] = listed[f]
          /\ \/ file'[f].node = file[f].node /\ file'[f].seek = file[f].seek
             \/ file[f].node = NoNode /\ file'[f].node # DevRoot /\ file'[f].seek = 0
      BY <2>3 DEF Shrinks
    <3>2. CASE file'[f].node = file[f].node /\ file'[f].seek = file[f].seek
      BY <2>1, <2>3, <3>1, <3>2
    <3>3. CASE file[f].node = NoNode /\ file'[f].node # DevRoot /\ file'[f].seek = 0
      BY <2>1, <2>3, <3>1, <3>3
    <3> QED
      BY <3>1, <3>2, <3>3
  <2> QED
    BY <2>2, <2>3
<1>2. ToSet(devList') = Device \cup {f \in FileId : file'[f].node = DevRoot}
  <2>1. ToSet(devList) = Device \cup {f \in FileId : file[f].node = DevRoot}
    BY DEF ScansInv, ScansSound
  <2>2. ToSet(devList') = ToSet(devList) \ K
    BY DEF Shrinks
  <2> QED
    BY <1>1, <2>1, <2>2, ScansConstants
<1>3. ScansSound'
  BY <1>1, <1>2 DEF Shrinks, ScansSound
<1>4. ASSUME NEW f \in FileId, file'[f].node = DevRoot, NEW d \in Device
      PROVE  listed'[f][d] = IF Precedes(d, f, devList') THEN 1 ELSE 0
  <2>1. f \notin K /\ file[f].node = DevRoot /\ listed'[f] = listed[f] /\ d \notin K
    BY <1>1, <1>4, ScansConstants DEF Shrinks
  <2>2. listed[f][d] = IF Precedes(d, f, devList) THEN 1 ELSE 0
    BY <2>1 DEF ScansInv, ScansExact
  <2> QED
    BY <2>1, <2>2 DEF Shrinks
<1>5. ASSUME NEW f \in FileId, file'[f].node = Root, NEW k \in DOMAIN IsoOrder
      PROVE  listed'[f][IsoOrder[k]] <= IF k <= file'[f].seek THEN 1 ELSE 0
  <2>1. f \in FileId \ K /\ listed'[f] = listed[f]
    BY <1>5, ScansConstants DEF Shrinks
  <2>2. CASE file'[f].node = file[f].node /\ file'[f].seek = file[f].seek
    BY <1>5, <2>1, <2>2 DEF ScansInv, ScansExact
  <2>3. CASE file[f].node = NoNode
    <3>1. listed[f] = Unlisted
      BY <2>3, ScansConstants DEF ScansInv, ScansSound
    <3>2. IsoOrder[k] \in Node
      BY ScansConstants
    <3> QED
      BY <2>1, <3>1, <3>2 DEF Unlisted
  <2> QED
    BY <2>1, <2>2, <2>3 DEF Shrinks
<1> QED
  BY <1>3, <1>4, <1>5 DEF ScansInv, ScansExact

\* Most steps have nothing to do with scans.
LEMMA ScansStay ==
  ASSUME ScansInv, UNCHANGED <<devList, listed>>,
         \A f \in FileId : file'[f].node = file[f].node /\ file'[f].seek = file[f].seek
  PROVE  ScansInv'
<1>1. Shrinks({})
  BY DEF Shrinks, ScansInv, ScansSound
<1> QED
  BY <1>1, ShrinksInv

LEMMA ScansClose ==
  ASSUME ScansInv, NEW K \in SUBSET FileId, devList' = Without(devList, K),
         listed' = [f \in FileId |-> IF f \in K THEN Unlisted ELSE listed[f]],
         \A f \in K : file'[f].node = NoNode /\ file'[f].seek = 0,
         \A f \in FileId \ K :
           \/ file'[f].node = file[f].node /\ file'[f].seek = file[f].seek
           \/ file[f].node = NoNode /\ file'[f].node # DevRoot /\ file'[f].seek = 0
  PROVE  ScansInv'
<1>1. devList \in Seq(Device \cup FileId) /\ IsInjective(devList) /\ listed \in [FileId -> [Node -> Nat]]
  BY DEF ScansInv, ScansSound
<1>2. /\ devList' \in Seq(Device \cup FileId) /\ IsInjective(devList')
      /\ ToSet(devList') = ToSet(devList) \ K
      /\ \A x, y : Precedes(x, y, devList') <=> Precedes(x, y, devList) /\ x \notin K /\ y \notin K
  BY <1>1, WithoutList
<1>3. /\ listed' \in [FileId -> [Node -> Nat]]
      /\ \A f \in K : listed'[f] = Unlisted
      /\ \A f \in FileId \ K : listed'[f] = listed[f]
  BY <1>1, ScansConstants
<1>4. Shrinks(K)
  BY <1>2, <1>3 DEF Shrinks
<1> QED
  BY <1>4, ShrinksInv

LEMMA FilesRecords ==
  ASSUME FilesInv
  PROVE  /\ file \in [FileId -> FileRecord]
         /\ \A f \in FileId : file[f].ref = 0 <=> file[f].node = NoNode
BY DEF FilesInv, FilesType, FilesSound, FileRecord

LEMMA CloseFilesScans ==
  ASSUME FilesInv, ScansInv, NEW drop, CloseFiles(drop)
  PROVE  ScansInv'
<1>1. Closed(drop) \in SUBSET FileId
  BY DEF Closed
<1>2. \A f \in Closed(drop) : file'[f].node = NoNode /\ file'[f].seek = 0
  BY <1>1 DEF CloseFiles, NotOpen
<1>3. \A f \in FileId \ Closed(drop) : file'[f].node = file[f].node /\ file'[f].seek = file[f].seek
  BY FilesRecords DEF CloseFiles, FileRecord
<1> QED
  BY <1>1, <1>2, <1>3, ScansClose DEF CloseFiles

LEMMA ExecScans ==
  ASSUME FilesInv, ScansInv, NEW t \in Task, NEW f \in FileId, Exec(t, f)
  PROVE  ScansInv'
<1> DEFINE closing == {i \in Fd : fd[t][i] # NoFile /\ file[fd[t][i]].cloexec}
           drop == [g \in FileId |-> Cardinality({i \in closing : fd[t][i] = g})
                                     + (IF exec[t] = g THEN 1 ELSE 0)]
           K == Closed(drop)
<1>1. /\ walk[t].at \in Runnable /\ file[f].ref = 0
      /\ file' = [g \in FileId |->
           IF g = f THEN NewFile(t, f)
           ELSE IF g \in K THEN NotOpen ELSE [file[g] EXCEPT !.ref = @ - drop[g]]]
      /\ devList' = Without(devList, K)
      /\ listed' = [g \in FileId |-> IF g \in K THEN Unlisted ELSE listed[g]]
  BY DEF Exec
<1>2. K \in SUBSET FileId /\ f \notin K
  <2> HIDE DEF drop
  <2>1. \A g \in K : g \in FileId /\ drop[g] > 0 /\ file[g].ref = drop[g]
    BY DEF Closed
  <2>2. file[f].ref = 0
    BY <1>1
  <2> HIDE DEF K
  <2>3. ASSUME f \in K PROVE FALSE
    <3>1. drop[f] > 0 /\ drop[f] = 0
      BY <2>1, <2>2, <2>3
    <3> QED
      BY <3>1
  <2> QED
    BY <2>1, <2>3
<1> HIDE DEF drop, K
<1>3. walk[t].at # DevRoot
  BY <1>1, FilesAssumption
<1>4. file[f].node = NoNode /\ file'[f].node # DevRoot /\ file'[f].seek = 0
  BY <1>1, <1>3, FilesRecords DEF NewFile
<1>5. \A g \in K : file'[g].node = NoNode /\ file'[g].seek = 0
  BY <1>1, <1>2 DEF NotOpen
<1>6. \A g \in FileId \ K : g # f => file'[g].node = file[g].node /\ file'[g].seek = file[g].seek
  BY <1>1, FilesRecords DEF FileRecord
<1> QED
  BY <1>1, <1>2, <1>4, <1>5, <1>6, ScansClose

\* A new scan has all devices before it: its cursor is put before them.
LEMMA OpenScans ==
  ASSUME FilesInv, ScansInv, NEW t \in Task, NEW f \in FileId, Open(t, f)
  PROVE  ScansInv'
<1>1. /\ file[f].ref = 0 /\ file' = [file EXCEPT ![f] = NewFile(t, f)] /\ listed' = listed
      /\ devList' = IF walk[t].at = DevRoot THEN Cons(f, devList) ELSE devList
  BY DEF Open
<1>2. /\ file'[f].node = walk[t].at /\ file'[f].seek = 0 /\ file[f].node = NoNode
      /\ \A g \in FileId : g # f => file'[g] = file[g]
  BY <1>1, FilesRecords DEF NewFile
<1>3. /\ devList \in Seq(Device \cup FileId) /\ IsInjective(devList)
      /\ ToSet(devList) = Device \cup {g \in FileId : file[g].node = DevRoot}
      /\ listed \in [FileId -> [Node -> Nat]] /\ listed[f] = Unlisted
  BY <1>2, ScansConstants DEF ScansInv, ScansSound
<1>4. CASE walk[t].at # DevRoot
  <2>1. Shrinks({})
    BY <1>1, <1>2, <1>3, <1>4 DEF Shrinks
  <2> QED
    BY <2>1, ShrinksInv
<1>5. CASE walk[t].at = DevRoot
  <2>1. f \notin ToSet(devList) /\ f \notin Device
    BY <1>2, <1>3, ScansConstants
  <2>2. devList' = Cons(f, devList)
    BY <1>1, <1>5
  <2>3. /\ devList' \in Seq(Device \cup FileId) /\ IsInjective(devList')
        /\ ToSet(devList') = {f} \cup ToSet(devList)
    <3>1. f \in Device \cup FileId
      OBVIOUS
    <3>2. /\ Cons(f, devList) \in Seq(Device \cup FileId)
          /\ IsInjective(Cons(f, devList))
          /\ ToSet(Cons(f, devList)) = {f} \cup ToSet(devList)
      BY <1>3, <2>1, <3>1, ConsList
    <3> QED
      BY <2>2, <3>2
  <2>4. \A x, y : Precedes(x, y, devList') <=> Precedes(x, y, devList) \/ (x = f /\ y \in ToSet(devList))
    <3>1. f \in Device \cup FileId
      OBVIOUS
    <3>2. \A x, y : Precedes(x, y, Cons(f, devList)) <=>
                     Precedes(x, y, devList) \/ (x = f /\ y \in ToSet(devList))
      BY <1>3, <3>1, ConsOrder
    <3> QED
      BY <2>2, <3>2
  <2>5. ScansSound'
    <3>1. ToSet(devList') = Device \cup {g \in FileId : file'[g].node = DevRoot}
      BY <1>2, <1>3, <1>5, <2>3
    <3>2. \A g \in FileId : file'[g].seek >= 0 /\
            (file'[g].node \notin {Root, DevRoot} => listed'[g] = Unlisted)
      BY <1>1, <1>2, <1>5 DEF ScansInv, ScansSound
    <3> QED
      BY <1>1, <1>3, <2>3, <3>1, <3>2 DEF ScansSound
  <2>6. ASSUME NEW g \in FileId, file'[g].node = DevRoot, NEW d \in Device
        PROVE  listed'[g][d] = IF Precedes(d, g, devList') THEN 1 ELSE 0
    <3>1. Precedes(d, g, devList') <=> Precedes(d, g, devList)
      BY <2>1, <2>4
    <3>2. CASE g = f
      <4>1. ~Precedes(d, f, devList)
        BY <1>3, <2>1, ListOrder
      <4>2. d \in Node
        BY ScansConstants
      <4> QED
        BY <1>1, <1>3, <3>1, <3>2, <4>1, <4>2 DEF Unlisted
    <3>3. CASE g # f
      <4>1. file[g].node = DevRoot
        BY <1>2, <2>6, <3>3
      <4>2. listed[g][d] = IF Precedes(d, g, devList) THEN 1 ELSE 0
        BY <4>1 DEF ScansInv, ScansExact
      <4> QED
        BY <1>1, <3>1, <4>2
    <3> QED
      BY <3>2, <3>3
  <2>7. ASSUME NEW g \in FileId, file'[g].node = Root, NEW k \in DOMAIN IsoOrder
        PROVE  listed'[g][IsoOrder[k]] <= IF k <= file'[g].seek THEN 1 ELSE 0
    <3>1. g # f
      BY <1>2, <1>5, <2>7, ScansConstants
    <3>2. file'[g] = file[g]
      BY <1>2, <3>1
    <3> QED
      BY <1>1, <2>7, <3>2 DEF ScansInv, ScansExact
  <2> QED
    BY <2>5, <2>6, <2>7 DEF ScansInv, ScansExact
<1> QED
  BY <1>4, <1>5

\* What is left of a scan.
LEMMA RemainingList ==
  ASSUME ScansSound, NEW f \in FileId
  PROVE  /\ Remaining(f) \in Seq(Device \cup FileId) /\ IsInjective(Remaining(f))
         /\ ToSet(Remaining(f)) = {d \in Device : ~Precedes(d, f, devList)}
         /\ \A x, y \in ToSet(Remaining(f)) :
              Precedes(x, y, Remaining(f)) <=> Precedes(x, y, devList)
<1> DEFINE S == FileId \cup {d \in Device : Precedes(d, f, devList)}
<1>1. /\ devList \in Seq(Device \cup FileId) /\ IsInjective(devList)
      /\ ToSet(devList) = Device \cup {g \in FileId : file[g].node = DevRoot}
  BY DEF ScansSound
<1>2. Remaining(f) = Without(devList, S)
  BY DEF Remaining
<1> HIDE DEF S
<1>3. /\ Remaining(f) \in Seq(Device \cup FileId) /\ IsInjective(Remaining(f))
      /\ ToSet(Remaining(f)) = ToSet(devList) \ S
      /\ \A x, y : Precedes(x, y, Remaining(f)) <=>
                     Precedes(x, y, devList) /\ x \notin S /\ y \notin S
  BY <1>1, <1>2, WithoutList
<1>4. ToSet(devList) \ S = {d \in Device : ~Precedes(d, f, devList)}
  BY <1>1, ScansConstants DEF S
<1> QED
  BY <1>3, <1>4

\* The cursor passes exactly the devices that have been stored.
LEMMA CursorMoves ==
  ASSUME ScansSound, NEW f \in FileId, file[f].node = DevRoot,
         NEW n \in 0..Len(Remaining(f)), MoveCursor(f, n)
  PROVE  /\ devList' \in Seq(Device \cup FileId) /\ IsInjective(devList')
         /\ ToSet(devList') = ToSet(devList)
         /\ \A x, y : f \notin {x, y} => (Precedes(x, y, devList') <=> Precedes(x, y, devList))
         /\ \A d \in Device :
              LET stored == d \in ToSet(SubSeq(Remaining(f), 1, n))
              IN /\ Precedes(d, f, devList') <=> Precedes(d, f, devList) \/ stored
                 /\ stored => ~Precedes(d, f, devList)
<1> DEFINE R == Remaining(f)
           others == Without(devList, {f})
           later == SubSeq(R, n + 1, Len(R))
           stored == ToSet(SubSeq(R, 1, n))
<1>1. /\ devList \in Seq(Device \cup FileId) /\ IsInjective(devList)
      /\ Device \subseteq ToSet(devList) /\ f \in ToSet(devList) /\ f \notin Device
  BY ScansConstants DEF ScansSound
<1>2. /\ R \in Seq(Device \cup FileId) /\ IsInjective(R)
      /\ ToSet(R) = {d \in Device : ~Precedes(d, f, devList)}
      /\ \A x, y \in ToSet(R) : Precedes(x, y, R) <=> Precedes(x, y, devList)
  BY RemainingList
<1>3. /\ others \in Seq(Device \cup FileId) /\ IsInjective(others)
      /\ ToSet(others) = ToSet(devList) \ {f}
      /\ \A x, y : f \notin {x, y} => (Precedes(x, y, others) <=> Precedes(x, y, devList))
  BY <1>1, WithoutList
<1>4. devList' = IF later = <<>> THEN Append(others, f)
                 ELSE InsertAt(others, CHOOSE k \in DOMAIN others : others[k] = Head(later), f)
  BY DEF MoveCursor
<1>5. n \in 0..Len(R)
  OBVIOUS
<1>6. stored \subseteq ToSet(R)
  BY <1>2, <1>5, SplitList
<1> HIDE DEF R, others
<1>7. CASE n = Len(R)
  <2>1. later = <<>>
    <3>1. later \in Seq(Device \cup FileId) /\ Len(later) = Len(R) - n
      BY <1>2, <1>5, SplitList
    <3> HIDE DEF later
    <3> QED
      BY <1>2, <1>7, <3>1
  <2>2. stored = ToSet(R)
    <3>1. ToSet(later) = ToSet(R) \ stored
      BY <1>2, <1>5, SplitList
    <3> HIDE DEF later, stored
    <3>2. ToSet(R) \ stored = {}
      BY <2>1, <3>1, EmptyList
    <3> QED
      BY <1>6, <3>2
  <2>3. devList' = Append(others, f)
    BY <1>4, <2>1
  <2> HIDE DEF later, stored
  <2>4. /\ devList' \in Seq(Device \cup FileId) /\ IsInjective(devList')
        /\ ToSet(devList') = ToSet(others) \cup {f}
    BY <1>3, <2>3, AppendList
  <2>5. \A x, y : Precedes(x, y, devList') <=> Precedes(x, y, others) \/ (y = f /\ x \in ToSet(others))
    BY <1>3, <2>3, AppendOrder
  <2>6. \A d \in Device : Precedes(d, f, devList')
    BY <1>1, <1>3, <2>5
  <2>7. \A x, y : f \notin {x, y} => (Precedes(x, y, devList') <=> Precedes(x, y, devList))
    BY <1>3, <2>5
  <2> QED
    BY <1>1, <1>2, <1>3, <2>2, <2>4, <2>6, <2>7 DEF R, stored
<1>8. CASE n < Len(R)
  <2> DEFINE h == R[n + 1]
             k == CHOOSE i \in DOMAIN others : others[i] = h
  <2>1. later # <<>> /\ Head(later) = h /\ stored = {x \in ToSet(R) : Precedes(x, h, R)}
    BY <1>2, <1>5, <1>8, SplitOrder
  <2>2. h \in ToSet(R)
    BY <1>2, <1>5, <1>8 DEF ToSet
  <2>3. devList' = InsertAt(others, k, f)
    BY <1>4, <2>1
  <2> HIDE DEF h, later, stored
  <2>4. h \in Device /\ h # f /\ h \in ToSet(others) /\ ~Precedes(h, f, devList)
    BY <1>1, <1>2, <1>3, <2>2
  <2>5. k \in 1..Len(others) /\ others[k] = h
    BY <1>3, <2>4 DEF ToSet
  <2> HIDE DEF k
  <2>6. /\ devList' \in Seq(Device \cup FileId) /\ IsInjective(devList')
        /\ ToSet(devList') = ToSet(others) \cup {f}
        /\ \A x, y : f \notin {x, y} => (Precedes(x, y, devList') <=> Precedes(x, y, others))
        /\ \A x \in Device \cup FileId : Precedes(x, f, devList') <=> Precedes(x, others[k], others)
    <3>1. f \in Device \cup FileId /\ f \notin ToSet(others)
      BY <1>3
    <3>2. /\ InsertAt(others, k, f) \in Seq(Device \cup FileId)
          /\ ToSet(InsertAt(others, k, f)) = ToSet(others) \cup {f}
          /\ IsInjective(InsertAt(others, k, f))
          /\ \A x, y : f \notin {x, y} =>
               (Precedes(x, y, InsertAt(others, k, f)) <=> Precedes(x, y, others))
          /\ \A x \in Device \cup FileId :
               Precedes(x, f, InsertAt(others, k, f)) <=> Precedes(x, others[k], others)
      BY <1>3, <2>5, <3>1, InsertOrder
    <3> QED
      BY <2>3, <3>2
  <2>7. /\ \A x, y, z : Precedes(x, y, devList) /\ Precedes(y, z, devList) => Precedes(x, z, devList)
        /\ Precedes(f, h, devList)
    BY <1>1, <2>4, ListOrder
  <2>8. ASSUME NEW d \in Device
        PROVE  Precedes(d, f, devList') <=> Precedes(d, f, devList) \/ d \in stored
    <3>1. Precedes(d, f, devList') <=> Precedes(d, h, devList)
      BY <1>1, <1>3, <2>4, <2>5, <2>6
    <3>2. CASE Precedes(d, f, devList)
      BY <2>7, <3>1, <3>2
    <3>3. CASE ~Precedes(d, f, devList)
      <4>1. d \in ToSet(R)
        BY <1>2, <3>3
      <4>2. d \in stored <=> Precedes(d, h, devList)
        BY <1>2, <2>1, <2>2, <4>1
      <4> QED
        BY <3>1, <3>3, <4>2
    <3> QED
      BY <3>2, <3>3
  <2>9. \A x, y : f \notin {x, y} => (Precedes(x, y, devList') <=> Precedes(x, y, devList))
    BY <1>3, <2>6
  <2>10. ToSet(devList') = ToSet(devList)
    BY <1>1, <1>3, <2>6
  <2>11. \A d \in Device : d \in stored => ~Precedes(d, f, devList)
    BY <1>2, <1>6 DEF stored
  <2> QED
    BY <2>6, <2>8, <2>9, <2>10, <2>11 DEF R, stored
<1> QED
  BY <1>2, <1>5, <1>7, <1>8

\* A call returns the next devices of a scan.
LEMMA DevfsScans ==
  ASSUME FilesInv, ScansInv, NEW f \in FileId, NEW room \in Room, DevfsReadDir(f, room)
  PROVE  ScansInv'
<1> DEFINE seek == file[f].seek
           dots == Smaller(2, seek + room)
           left == room - (dots - seek)
           n == Smaller(left, Len(Remaining(f)))
           stored == SubSeq(Remaining(f), 1, n)
<1>1. /\ file[f].node = DevRoot /\ file' = [file EXCEPT ![f].seek = dots]
      /\ IF dots = 2 THEN MoveCursor(f, n) /\ Lists(f, stored) ELSE UNCHANGED <<devList, listed>>
  BY DEF DevfsReadDir
<1>2. seek \in Int /\ seek >= 0 /\ room \in Nat
  BY FilesRecords, FilesAssumption DEF FileRecord, ScansInv, ScansSound
<1>3. dots \in Int /\ dots >= 0 /\ dots <= seek + room
  BY <1>2 DEF Smaller
<1>4. ScansSound /\ Remaining(f) \in Seq(Device \cup FileId)
  BY RemainingList DEF ScansInv
<1>5. n \in 0..Len(Remaining(f))
  <2>1. left \in Nat /\ Len(Remaining(f)) \in Nat
    BY <1>2, <1>3, <1>4
  <2> HIDE DEF left
  <2> QED
    BY <2>1 DEF Smaller
<1> HIDE DEF seek, dots, n
<1>6. /\ file'[f].node = DevRoot /\ file'[f].seek >= 0
      /\ \A g \in FileId : file'[g].node = file[g].node /\ (g # f => file'[g] = file[g])
  BY <1>1, <1>3, FilesRecords DEF FileRecord
<1>7. CASE dots = 2
  <2>1. MoveCursor(f, n) /\ Lists(f, stored)
    BY <1>1, <1>7
  <2>2. /\ devList' \in Seq(Device \cup FileId) /\ IsInjective(devList')
        /\ ToSet(devList') = ToSet(devList)
        /\ \A x, y : f \notin {x, y} => (Precedes(x, y, devList') <=> Precedes(x, y, devList))
        /\ \A d \in Device :
             /\ Precedes(d, f, devList') <=> Precedes(d, f, devList) \/ d \in ToSet(stored)
             /\ d \in ToSet(stored) => ~Precedes(d, f, devList)
    BY <1>1, <1>4, <1>5, <2>1, CursorMoves
  <2> HIDE DEF stored
  <2>3. listed \in [FileId -> [Node -> Nat]]
    BY <1>4 DEF ScansSound
  <2>4. /\ listed' \in [FileId -> [Node -> Nat]]
        /\ \A g \in FileId : g # f => listed'[g] = listed[g]
        /\ \A d \in Node : listed'[f][d] = listed[f][d] + (IF d \in ToSet(stored) THEN 1 ELSE 0)
    BY <2>1, <2>3 DEF Lists
  <2>5. ScansSound'
    <3>1. ToSet(devList') = Device \cup {g \in FileId : file'[g].node = DevRoot}
      BY <1>4, <1>6, <2>2 DEF ScansSound
    <3>2. \A g \in FileId : file'[g].seek >= 0 /\
            (file'[g].node \notin {Root, DevRoot} => listed'[g] = Unlisted)
      BY <1>4, <1>6, <2>4 DEF ScansSound
    <3> QED
      BY <2>2, <2>4, <3>1, <3>2 DEF ScansSound
  <2>6. ASSUME NEW g \in FileId, file'[g].node = DevRoot, NEW d \in Device
        PROVE  listed'[g][d] = IF Precedes(d, g, devList') THEN 1 ELSE 0
    <3>1. listed[g][d] = IF Precedes(d, g, devList) THEN 1 ELSE 0
      BY <1>6, <2>6 DEF ScansInv, ScansExact
    <3>2. CASE g = f
      <4>1. d \in Node
        BY ScansConstants
      <4> QED
        BY <2>2, <2>4, <3>1, <3>2, <4>1
    <3>3. CASE g # f
      <4>1. f \notin {d, g}
        BY <3>3, ScansConstants
      <4> QED
        BY <2>2, <2>4, <3>1, <3>3, <4>1
    <3> QED
      BY <3>2, <3>3
  <2>7. ASSUME NEW g \in FileId, file'[g].node = Root, NEW k \in DOMAIN IsoOrder
        PROVE  listed'[g][IsoOrder[k]] <= IF k <= file'[g].seek THEN 1 ELSE 0
    <3>1. g # f
      BY <1>6, <2>7, ScansConstants
    <3>2. file'[g] = file[g] /\ listed'[g] = listed[g]
      BY <1>6, <2>4, <3>1
    <3> QED
      BY <2>7, <3>2 DEF ScansInv, ScansExact
  <2> QED
    BY <2>5, <2>6, <2>7 DEF ScansInv, ScansExact
<1>8. CASE dots # 2
  <2>1. UNCHANGED <<devList, listed>>
    BY <1>1, <1>8
  <2>2. ScansSound'
    BY <1>4, <1>6, <2>1 DEF ScansSound
  <2>3. ASSUME NEW g \in FileId, file'[g].node = Root PROVE file'[g] = file[g]
    BY <1>6, <2>3, ScansConstants
  <2> QED
    BY <1>6, <2>1, <2>2, <2>3 DEF ScansInv, ScansExact
<1> QED
  BY <1>7, <1>8

\* An ISO 9660 directory is read from the place where the last call stopped.
LEMMA IsoScans ==
  ASSUME FilesInv, ScansInv, NEW f \in FileId, NEW room \in Room, Iso9660ReadDir(f, room)
  PROVE  ScansInv'
<1> DEFINE seek == file[f].seek
           N == Len(IsoOrder)
           last == Smaller(seek + room, N)
           stored == SubSeq(IsoOrder, seek + 1, last)
<1>1. /\ file[f].node = Root /\ file' = [file EXCEPT ![f].seek = Smaller(last + 1, N)]
      /\ Lists(f, stored) /\ devList' = devList
  BY DEF Iso9660ReadDir
<1>2. /\ seek \in Int /\ seek >= 0 /\ room \in Nat /\ N \in Nat
      /\ DOMAIN IsoOrder = 1..N /\ \A k \in 1..N : IsoOrder[k] \in Node
  BY FilesRecords, FilesAssumption DEF FileRecord, ScansInv, ScansSound
<1>3. /\ last \in Nat /\ last <= N /\ last <= seek + room /\ Smaller(last + 1, N) >= 0
      /\ \A k \in 1..N : k <= seek \/ k <= last => k <= Smaller(last + 1, N)
  BY <1>2 DEF Smaller
<1> HIDE DEF N
<1>4. ASSUME NEW k \in 1..N, IsoOrder[k] \in ToSet(stored) PROVE k > seek /\ k <= last
  <2>1. \A i \in (seek + 1)..last : IsoOrder[i] \in Node
    BY <1>2, <1>3
  <2>2. /\ stored \in Seq(Node)
        /\ Len(stored) = IF seek + 1 <= last THEN last - (seek + 1) + 1 ELSE 0
        /\ \A i \in 1..(last - (seek + 1) + 1) : stored[i] = IsoOrder[seek + 1 + i - 1]
    <3>1. seek + 1 \in Int /\ last \in Int
      BY <1>2, <1>3
    <3> QED
      BY <2>1, <3>1, SubSeqProperties
  <2> HIDE DEF stored, last
  <2>3. PICK i \in 1..Len(stored) : IsoOrder[k] = stored[i]
    BY <1>4, <2>2 DEF ToSet
  <2>4. seek \in Int /\ last \in Int
    BY <1>2, <1>3
  <2> HIDE DEF seek
  <2>5. i \in 1..(last - (seek + 1) + 1) /\ seek + 1 <= last
    BY <2>2, <2>3, <2>4
  <2>6. IsoOrder[k] = IsoOrder[seek + 1 + i - 1] /\ seek + 1 + i - 1 = seek + i
    BY <2>2, <2>3, <2>4, <2>5
  <2>7. seek + i \in 1..N
    BY <1>2, <1>3, <2>4, <2>5
  <2>8. k = seek + i
    BY <1>2, <2>6, <2>7, ScansConstants DEF IsInjective
  <2> QED
    BY <2>4, <2>5, <2>8
<1>5. listed \in [FileId -> [Node -> Nat]] /\ ScansSound
  BY DEF ScansInv, ScansSound
<1>6. /\ listed' \in [FileId -> [Node -> Nat]]
      /\ \A g \in FileId : g # f => listed'[g] = listed[g]
      /\ \A d \in Node : listed'[f][d] = listed[f][d] + (IF d \in ToSet(stored) THEN 1 ELSE 0)
  BY <1>1, <1>5 DEF Lists
<1>7. /\ file'[f].node = Root /\ file'[f].seek = Smaller(last + 1, N)
      /\ \A g \in FileId : file'[g].node = file[g].node /\ (g # f => file'[g] = file[g])
  BY <1>1, FilesRecords DEF FileRecord
<1> HIDE DEF stored, last
<1>8. ScansSound'
  BY <1>1, <1>3, <1>5, <1>6, <1>7 DEF ScansSound
<1>9. ASSUME NEW g \in FileId, file'[g].node = DevRoot PROVE file'[g] = file[g] /\ listed'[g] = listed[g]
  BY <1>6, <1>7, <1>9, ScansConstants
<1>10. ASSUME NEW k \in 1..N
       PROVE  listed'[f][IsoOrder[k]] <= IF k <= file'[f].seek THEN 1 ELSE 0
  <2>1. /\ IsoOrder[k] \in Node /\ listed[f][IsoOrder[k]] \in Nat
        /\ listed[f][IsoOrder[k]] <= IF k <= seek THEN 1 ELSE 0
    BY <1>1, <1>2, <1>5 DEF ScansInv, ScansExact
  <2>2. CASE IsoOrder[k] \in ToSet(stored)
    BY <1>2, <1>3, <1>4, <1>6, <1>7, <2>1, <2>2
  <2>3. CASE IsoOrder[k] \notin ToSet(stored)
    BY <1>2, <1>3, <1>6, <1>7, <2>1, <2>3
  <2> QED
    BY <2>2, <2>3
<1>11. ASSUME NEW g \in FileId, file'[g].node = Root, NEW k \in DOMAIN IsoOrder
       PROVE  listed'[g][IsoOrder[k]] <= IF k <= file'[g].seek THEN 1 ELSE 0
  <2>1. CASE g = f
    BY <1>2, <1>10, <2>1
  <2>2. CASE g # f
    BY <1>6, <1>7, <1>11, <2>2 DEF ScansInv, ScansExact
  <2> QED
    BY <2>1, <2>2
<1>12. ASSUME NEW g \in FileId, file'[g].node = DevRoot, NEW d \in Device
       PROVE  listed'[g][d] = IF Precedes(d, g, devList') THEN 1 ELSE 0
  BY <1>1, <1>9, <1>12 DEF ScansInv, ScansExact
<1> QED
  BY <1>8, <1>11, <1>12 DEF ScansInv, ScansExact

LEMMA ScansInit == ASSUME FilesInit PROVE ScansInv
<1>1. /\ devList = SetToSeq(Device) /\ file = [f \in FileId |-> NotOpen]
      /\ listed = [f \in FileId |-> Unlisted]
  BY DEF FilesInit
<1>2. devList \in Seq(Device) /\ IsInjective(devList) /\ ToSet(devList) = Device
  <2> DEFINE n == Cardinality(Device)
  <2>1. n \in Nat /\ ExistsBijection(1..n, Device)
    BY FilesAssumption, FS_CardinalityType
  <2>2. \E g \in [1..n -> Device] : IsInjective(g)
    BY <2>1 DEF ExistsBijection, Bijection, Injection
  <2>3. devList \in [1..n -> Device] /\ IsInjective(devList)
    BY <1>1, <2>2 DEF SetToSeq
  <2>4. devList \in Surjection(1..n, Device)
    <3>1. devList \in Injection(1..n, Device)
      BY <2>3 DEF Injection
    <3>2. Cardinality(1..n) = n
      BY <2>1, FS_Interval
    <3> QED
      BY <2>1, <3>1, <3>2, FilesAssumption, FS_Injection
  <2>5. \A d \in Device : \E k \in 1..n : devList[k] = d
    BY <2>4 DEF Surjection
  <2> HIDE DEF n
  <2>6. devList \in Seq(Device) /\ DOMAIN devList = 1..n
    BY <2>1, <2>3
  <2> QED
    BY <2>3, <2>5, <2>6 DEF ToSet
<1>3. \A f \in FileId : file[f].node = NoNode /\ file[f].seek = 0 /\ listed[f] = Unlisted
  BY <1>1 DEF NotOpen
<1>4. devList \in Seq(Device \cup FileId)
  BY <1>2
<1>5. ScansSound
  BY <1>1, <1>2, <1>3, <1>4, ScansConstants DEF ScansSound
<1> QED
  BY <1>3, <1>5, ScansConstants DEF ScansInv, ScansExact

LEMMA ScansStep == ASSUME FilesInv, ScansInv, [FilesNext]_filesVars PROVE ScansInv'
<1>1. ASSUME UNCHANGED <<file, devList, listed>> PROVE ScansInv'
  BY <1>1, ScansStay
<1>2. ASSUME NEW t \in Task, Call(t) PROVE ScansInv'
  <2>1. ASSUME NEW i \in Fd, Close(t, i) \/ Dup(t, i) \/ \E j \in Fd : Dup2(t, i, j)
        PROVE  ScansInv'
    <3>1. \E drop : CloseFiles(drop)
      BY <2>1 DEF Close, Dup, Dup2
    <3> QED
      BY <3>1, CloseFilesScans
  <2>2. ASSUME NEW i \in Fd, NEW room \in Room, GetDents(t, i, room) PROVE ScansInv'
    <3>1. fd[t][i] \in FileId
      BY <2>2 DEF GetDents, FilesInv, FilesType
    <3> QED
      BY <2>2, <3>1, DevfsScans, IsoScans DEF GetDents
  <2>3. ASSUME NEW r \in Request, Begin(t, r) PROVE ScansInv'
    BY <1>1, <2>3 DEF Begin
  <2>4. CASE Exit(t)
    <3>1. \E drop : CloseFiles(drop)
      BY <2>4 DEF Exit
    <3> QED
      BY <3>1, CloseFilesScans
  <2>5. ASSUME NEW c \in Task, Fork(t, c) PROVE ScansInv'
    <3>1. /\ file' = [f \in FileId |-> [file[f] EXCEPT !.ref = @ + Uses(t, f)]]
          /\ UNCHANGED <<devList, listed>>
      BY <2>5 DEF Fork
    <3>2. \A f \in FileId : file'[f].node = file[f].node /\ file'[f].seek = file[f].seek
      BY <3>1, FilesRecords DEF FileRecord
    <3> QED
      BY <3>1, <3>2, ScansStay
  <2> QED
    BY <1>2, <2>1, <2>2, <2>3, <2>4, <2>5 DEF Call
<1>3. ASSUME NEW t \in Task, Continue(t) PROVE ScansInv'
  <2>1. CASE Ascend(t) \/ Descend(t) \/ LookUpFails(t)
    BY <1>1, <2>1 DEF Ascend, Descend, LookUpFails
  <2>2. CASE OpenStrays(t) \/ OpenFails(t) \/ Chdir(t) \/ ExecFails(t)
    BY <1>1, <2>2 DEF OpenStrays, OpenFails, Chdir, ExecFails
  <2>3. ASSUME NEW f \in FileId, Open(t, f) PROVE ScansInv'
    BY <2>3, OpenScans
  <2>4. ASSUME NEW f \in FileId, Exec(t, f) PROVE ScansInv'
    BY <2>4, ExecScans
  <2> QED
    BY <1>3, <2>1, <2>2, <2>3, <2>4 DEF Continue
<1>4. CASE Mount
  BY <1>1, <1>4 DEF Mount
<1>5. CASE UNCHANGED filesVars
  BY <1>1, <1>5 DEF filesVars
<1> QED
  BY <1>2, <1>3, <1>4, <1>5 DEF FilesNext

\* Whatever scans go on and wherever their calls are cut, each returns every
\* device once, and no entry of an ISO 9660 directory twice (devfsReadDir,
\* devfsOpen, devfsClose, iso9660ReadDir).
THEOREM FilesScansExact == FilesSpec => []ScansExact
<1>1. FilesInit => FilesInv /\ ScansInv
  BY FilesInitInv, ScansInit
<1>2. (FilesInv /\ ScansInv) /\ [FilesNext]_filesVars => (FilesInv /\ ScansInv)'
  BY FilesStep, ScansStep
<1>3. ScansInv => ScansExact
  BY DEF ScansInv
<1> QED
  BY <1>1, <1>2, <1>3, PTL DEF FilesSpec

-----------------------------------------------------------------------------
(* Files implement descriptors.                                            *)

OpenFiles == {f \in FileId : file[f].ref > 0}

\* A file is open if and only if it is used.
OpenExact == \A f \in FileId : f \in OpenFiles <=> f \in D!Used(fd, exec)

LEMMA OpenIsUsed == FilesInv => OpenExact
<1> SUFFICES ASSUME FilesInv, NEW f \in FileId
             PROVE  f \in OpenFiles <=> f \in D!Used(fd, exec)
  BY DEF OpenExact
<1>1. IsFiniteSet(Descs(f)) /\ IsFiniteSet(Progs(f))
  <2>1. IsFiniteSet(Task \X Fd)
    BY FilesFinite, FS_Product
  <2>2. Descs(f) \subseteq Task \X Fd /\ Progs(f) \subseteq Task
    BY DEF Descs, Progs
  <2> QED
    BY <2>1, <2>2, FilesFinite, FS_Subset
<1>2. /\ Cardinality(Descs(f)) \in Nat /\ (Cardinality(Descs(f)) = 0 <=> Descs(f) = {})
      /\ Cardinality(Progs(f)) \in Nat /\ (Cardinality(Progs(f)) = 0 <=> Progs(f) = {})
  BY <1>1, FS_CardinalityType, FS_EmptySet
<1>3. file[f].ref = Cardinality(Descs(f)) + Cardinality(Progs(f))
  BY DEF FilesInv, FilesExact
<1>4. file[f].ref > 0 <=> Descs(f) # {} \/ Progs(f) # {}
  BY <1>2, <1>3
<1>5. Descs(f) # {} <=> \E t \in Task, i \in Fd : fd[t][i] = f
  <2>1. ASSUME NEW t \in Task, NEW i \in Fd, fd[t][i] = f PROVE <<t, i>> \in Descs(f)
    BY <2>1 DEF Descs
  <2>2. ASSUME NEW x \in Descs(f) PROVE x[1] \in Task /\ x[2] \in Fd /\ fd[x[1]][x[2]] = f
    BY DEF Descs
  <2> QED
    BY <2>1, <2>2
<1>6. f \in D!Used(fd, exec) <=>
        (\E t \in Task, i \in Fd : fd[t][i] = f) \/ \E t \in Task : exec[t] = f
  BY DEF D!Used
<1> QED
  BY <1>4, <1>5, <1>6 DEF OpenFiles, Progs

\* Calls that close files, and open none.
LEMMA Keeps ==
  ASSUME FilesInv, FilesInv', NEW drop, CloseFiles(drop),
         D!Used(fd', exec') \subseteq D!Used(fd, exec) \cup {NoFile}
  PROVE  D!Keeping
<1>1. OpenExact /\ OpenExact'
  BY OpenIsUsed, PTL
<1>2. OpenFiles' = OpenFiles \cap D!Used(fd', exec')
  <2>1. OpenFiles' \subseteq FileId /\ OpenFiles \subseteq FileId /\ NoFile \notin FileId
    BY FilesAssumption DEF OpenFiles
  <2>2. \A f \in FileId : f \in OpenFiles' <=> f \in D!Used(fd', exec')
    BY <1>1 DEF OpenExact
  <2>3. \A f \in FileId : f \in OpenFiles <=> f \in D!Used(fd, exec)
    BY <1>1 DEF OpenExact
  <2> QED
    BY <2>1, <2>2, <2>3
<1>3. ASSUME NEW f \in OpenFiles' PROVE file'[f].node = file[f].node
  <2>1. f \in FileId /\ file'[f].ref > 0
    BY DEF OpenFiles
  <2>2. file'[f] = IF f \in Closed(drop) THEN NotOpen ELSE [file[f] EXCEPT !.ref = @ - drop[f]]
    BY <2>1 DEF CloseFiles
  <2>3. file[f] \in FileRecord
    BY <2>1 DEF FilesInv, FilesType, FileRecord
  <2>4. f \notin Closed(drop)
    BY <2>1, <2>2 DEF NotOpen
  <2> QED
    BY <2>2, <2>3, <2>4 DEF FileRecord
<1> QED
  BY <1>2, <1>3 DEF D!Keeping, D!Only, OpenFiles

\* A row of the table of descriptors, and what it says of the files in use.
LEMMA UsedRow ==
  ASSUME NEW t \in Task, Refers(t),
         \A i \in Fd : fd'[t][i] \in D!Used(fd, exec) \cup {NoFile},
         exec'[t] \in D!Used(fd, exec) \cup {NoFile}
  PROVE  D!Used(fd', exec') \subseteq D!Used(fd, exec) \cup {NoFile}
<1>1. ASSUME NEW u \in Task, NEW i \in Fd PROVE fd'[u][i] \in D!Used(fd, exec) \cup {NoFile}
  BY DEF Refers, D!Used
<1>2. ASSUME NEW u \in Task PROVE exec'[u] \in D!Used(fd, exec) \cup {NoFile}
  BY DEF Refers, D!Used
<1> QED
  BY <1>1, <1>2 DEF D!Used

LEMMA UsedHere ==
  ASSUME NEW t \in Task
  PROVE  exec[t] \in D!Used(fd, exec) /\ \A i \in Fd : fd[t][i] \in D!Used(fd, exec)
BY DEF D!Used

LEMMA CloseImplements ==
  ASSUME FilesInv, FilesInv', NEW t \in Task, NEW i \in Fd, Close(t, i)
  PROVE  D!Close(t, i)
<1>1. fd' = [fd EXCEPT ![t][i] = NoFile] /\ UNCHANGED exec /\ CloseFiles(One(fd[t][i]))
  BY DEF Close
<1>2. fd \in [Task -> [Fd -> FileId \cup {NoFile}]]
  BY DEF FilesInv, FilesType
<1>3. Refers(t) /\ \A k \in Fd : fd'[t][k] \in {fd[t][k], NoFile}
  BY <1>1, <1>2 DEF Refers
<1>4. D!Used(fd', exec') \subseteq D!Used(fd, exec) \cup {NoFile}
  BY <1>1, <1>3, UsedRow, UsedHere
<1>5. D!Keeping
  BY <1>1, <1>4, Keeps
<1> QED
  BY <1>1, <1>5 DEF D!Close

LEMMA DupImplements ==
  ASSUME FilesInv, FilesInv', NEW t \in Task, NEW i \in Fd, NEW j \in Fd, Dup2(t, i, j)
  PROVE  D!Dup(t, i, j)
<1>1. PICK drop : /\ fd[t][i] # NoFile /\ fd' = [fd EXCEPT ![t][j] = fd[t][i]]
                  /\ UNCHANGED exec /\ CloseFiles(drop)
  BY DEF Dup2
<1>2. fd \in [Task -> [Fd -> FileId \cup {NoFile}]]
  BY DEF FilesInv, FilesType
<1>3. Refers(t) /\ \A k \in Fd : fd'[t][k] \in {fd[t][k], fd[t][i]}
  BY <1>1, <1>2 DEF Refers
<1>4. D!Used(fd', exec') \subseteq D!Used(fd, exec) \cup {NoFile}
  BY <1>1, <1>3, UsedRow, UsedHere
<1>5. D!Keeping
  BY <1>1, <1>4, Keeps
<1> QED
  BY <1>1, <1>5 DEF D!Dup

LEMMA ExitImplements ==
  ASSUME FilesInv, FilesInv', NEW t \in Task, Exit(t)
  PROVE  D!Exit(t)
<1>1. PICK drop : /\ fd' = [fd EXCEPT ![t] = [i \in Fd |-> NoFile]]
                  /\ exec' = [exec EXCEPT ![t] = NoFile] /\ CloseFiles(drop)
  BY DEF Exit
<1>2. fd \in [Task -> [Fd -> FileId \cup {NoFile}]] /\ exec \in [Task -> FileId \cup {NoFile}]
  BY DEF FilesInv, FilesType
<1>3. Refers(t) /\ exec'[t] = NoFile /\ \A k \in Fd : fd'[t][k] = NoFile
  BY <1>1, <1>2 DEF Refers
<1>4. D!Used(fd', exec') \subseteq D!Used(fd, exec) \cup {NoFile}
  BY <1>3, UsedRow
<1>5. D!Keeping
  BY <1>1, <1>4, Keeps
<1> QED
  BY <1>1, <1>5 DEF D!Exit, D!NoFds

LEMMA ForkImplements ==
  ASSUME FilesInv, NEW t \in Task, NEW c \in Task, Fork(t, c)
  PROVE  D!Fork(t, c)
<1>1. /\ ~Alive(c) /\ fd' = [fd EXCEPT ![c] = fd[t]] /\ exec' = [exec EXCEPT ![c] = exec[t]]
      /\ file' = [f \in FileId |-> [file[f] EXCEPT !.ref = @ + Uses(t, f)]]
  BY DEF Fork
<1>2. fd[c] = D!NoFds /\ exec[c] = NoFile
  <2>1. exec[c] = NoFile /\ \A i \in Fd : fd[c][i] = NoFile
    BY <1>1 DEF FilesInv, FilesSound
  <2>2. fd[c] \in [Fd -> FileId \cup {NoFile}]
    BY DEF FilesInv, FilesType
  <2> QED
    BY <2>1, <2>2 DEF D!NoFds
<1>3. ASSUME NEW f \in FileId
      PROVE  (file'[f].ref > 0 <=> file[f].ref > 0) /\ file'[f].node = file[f].node
  <2>1. file[f] \in FileRecord
    BY DEF FilesInv, FilesType, FileRecord
  <2>2. Uses(t, f) \in Nat /\ Uses(t, f) <= file[f].ref /\ file[f].ref \in Nat
    BY <2>1, RowsFinite, UsesCounted DEF FileRecord
  <2>3. file'[f].ref = file[f].ref + Uses(t, f) /\ file'[f].node = file[f].node
    BY <1>1, <2>1 DEF FileRecord
  <2> QED
    BY <2>2, <2>3
<1>4. UNCHANGED [f \in {g \in FileId : file[g].ref > 0} |-> file[f].node]
  BY <1>3
<1> QED
  BY <1>1, <1>2, <1>4 DEF D!Fork

LEMMA OpenImplements ==
  ASSUME FilesInv, NEW t \in Task, NEW f \in FileId, Open(t, f)
  PROVE  \E i \in Fd, n \in Node : D!Open(t, i, f, n)
<1>1. PICK j : /\ j = Min(FreeFd(t))
               /\ walk[t] # NoWalk /\ walk[t].kind = "open" /\ file[f].ref = 0 /\ UNCHANGED exec
               /\ fd' = [fd EXCEPT ![t][j] = f] /\ file' = [file EXCEPT ![f] = NewFile(t, f)]
  BY DEF Open, Arrived
<1>2. j \in Fd /\ fd[t][j] = NoFile
  <2>1. FreeFd(t) # {} /\ FreeFd(t) \subseteq Nat
    BY <1>1, WalkFacts, FilesAssumption DEF FreeFd
  <2>2. j \in FreeFd(t)
    BY <1>1, <2>1, MinIn
  <2> QED
    BY <2>2 DEF FreeFd
<1>3. PICK n \in Node : n = walk[t].at
  BY <1>1, WalkFacts
<1>4. file \in [FileId -> FileRecord]
  BY DEF FilesInv, FilesType, FileRecord
<1>5. file'[f].ref = 1 /\ file'[f].node = n /\ \A g \in FileId : g # f => file'[g] = file[g]
  BY <1>1, <1>3, <1>4 DEF NewFile
<1>6. OpenFiles' = OpenFiles \cup {f} /\ f \notin OpenFiles
  BY <1>1, <1>5 DEF OpenFiles
<1>7. [g \in OpenFiles' |-> file'[g].node] =
        [g \in OpenFiles \cup {f} |-> IF g = f THEN n ELSE [k \in OpenFiles |-> file[k].node][g]]
  <2>1. \A g \in OpenFiles \cup {f} :
          file'[g].node = IF g = f THEN n ELSE [k \in OpenFiles |-> file[k].node][g]
    BY <1>5 DEF OpenFiles
  <2> QED
    BY <1>6, <2>1
<1>8. D!Open(t, j, f, n)
  BY <1>1, <1>2, <1>6, <1>7 DEF D!Open, OpenFiles
<1> QED
  BY <1>2, <1>8

\* What execve() changes, with what it closes.
Execs(t, f, closing, drop) ==
  /\ fd' = [fd EXCEPT ![t] = [i \in Fd |-> IF i \in closing THEN NoFile ELSE @[i]]]
  /\ file' = [g \in FileId |->
       IF g = f THEN NewFile(t, f)
       ELSE IF g \in Closed(drop) THEN NotOpen ELSE [file[g] EXCEPT !.ref = @ - drop[g]]]

LEMMA ExecImplements ==
  ASSUME FilesInv, FilesInv', NEW t \in Task, NEW f \in FileId, Exec(t, f)
  PROVE  \E n \in Node, closing \in SUBSET Fd : D!Exec(t, f, n, closing)
<1>1. PICK closing, drop :
        /\ walk[t] # NoWalk /\ file[f].ref = 0 /\ exec' = [exec EXCEPT ![t] = f]
        /\ Execs(t, f, closing, drop) /\ closing \in SUBSET Fd
  <2> DEFINE C == {i \in Fd : fd[t][i] # NoFile /\ file[fd[t][i]].cloexec}
             N == [g \in FileId |-> Cardinality({i \in C : fd[t][i] = g})
                                    + (IF exec[t] = g THEN 1 ELSE 0)]
  <2>1. /\ walk[t] # NoWalk /\ file[f].ref = 0 /\ exec' = [exec EXCEPT ![t] = f]
        /\ fd' = [fd EXCEPT ![t] = [i \in Fd |-> IF i \in C THEN NoFile ELSE @[i]]]
        /\ file' = [g \in FileId |->
             IF g = f THEN NewFile(t, f)
             ELSE IF g \in Closed(N) THEN NotOpen ELSE [file[g] EXCEPT !.ref = @ - N[g]]]
        /\ C \in SUBSET Fd
    BY DEF Exec, Arrived
  <2> HIDE DEF C, N
  <2>2. PICK closing, drop : closing = C /\ drop = N
    OBVIOUS
  <2>3. /\ fd' = [fd EXCEPT ![t] = [i \in Fd |-> IF i \in closing THEN NoFile ELSE @[i]]]
        /\ closing \in SUBSET Fd
    BY <2>1, <2>2
  <2>4. file' = [g \in FileId |->
             IF g = f THEN NewFile(t, f)
             ELSE IF g \in Closed(drop) THEN NotOpen ELSE [file[g] EXCEPT !.ref = @ - drop[g]]]
    BY <2>1, <2>2 DEF Closed
  <2>5. Execs(t, f, closing, drop)
    BY <2>3, <2>4 DEF Execs
  <2> QED
    BY <2>1, <2>3, <2>5
<1>2. PICK n \in Node : n = walk[t].at
  BY <1>1, WalkFacts
<1>3. /\ fd \in [Task -> [Fd -> FileId \cup {NoFile}]] /\ exec \in [Task -> FileId \cup {NoFile}]
      /\ file \in [FileId -> FileRecord]
  BY DEF FilesInv, FilesType, FileRecord
<1>4. file'[f].ref = 1 /\ file'[f].node = n
  BY <1>1, <1>2 DEF NewFile, Execs
<1>5. Refers(t) /\ exec'[t] = f /\ \A i \in Fd : fd'[t][i] \in {fd[t][i], NoFile}
  BY <1>1, <1>3 DEF Refers, Execs
<1>6. OpenExact /\ OpenExact'
  BY OpenIsUsed, PTL
<1>7. ASSUME NEW g \in FileId, g # f
      PROVE  g \in OpenFiles' <=> g \in OpenFiles /\ g \in D!Used(fd', exec')
  <2>1. g \in OpenFiles <=> g \in D!Used(fd, exec)
    BY <1>6 DEF OpenExact
  <2>2. g \in OpenFiles' <=> g \in D!Used(fd', exec')
    BY <1>6 DEF OpenExact
  <2>3. ASSUME g \in D!Used(fd', exec') PROVE g \in D!Used(fd, exec)
    <3>1. \/ \E u \in Task, i \in Fd : g = fd'[u][i]
          \/ \E u \in Task : g = exec'[u]
      BY <2>3 DEF D!Used
    <3>2. g # NoFile
      BY FilesAssumption
    <3>3. ASSUME NEW u \in Task, NEW i \in Fd, g = fd'[u][i] PROVE g = fd[u][i]
      BY <1>5, <3>2, <3>3 DEF Refers
    <3>4. ASSUME NEW u \in Task, g = exec'[u] PROVE g = exec[u]
      BY <1>5, <1>7, <3>4 DEF Refers
    <3> QED
      BY <3>1, <3>3, <3>4 DEF D!Used
  <2> QED
    BY <2>1, <2>2, <2>3
<1>8. OpenFiles' = (OpenFiles \cap D!Used(fd', exec')) \cup {f}
  <2>1. OpenFiles' \subseteq FileId /\ OpenFiles \subseteq FileId /\ f \in OpenFiles'
    BY <1>4 DEF OpenFiles
  <2>2. f \notin OpenFiles
    BY <1>1 DEF OpenFiles
  <2> QED
    BY <1>7, <2>1, <2>2
<1>9. ASSUME NEW g \in OpenFiles', g # f PROVE file'[g].node = file[g].node
  <2>1. g \in FileId /\ file'[g].ref > 0
    BY DEF OpenFiles
  <2>2. file'[g] = IF g \in Closed(drop) THEN NotOpen ELSE [file[g] EXCEPT !.ref = @ - drop[g]]
    BY <1>1, <1>9, <2>1 DEF Execs
  <2>3. g \notin Closed(drop)
    BY <2>1, <2>2 DEF NotOpen
  <2> QED
    BY <1>3, <2>1, <2>2, <2>3 DEF FileRecord
<1>10. [g \in OpenFiles' |-> file'[g].node] =
         [g \in (OpenFiles \cap D!Used(fd', exec')) \cup {f} |->
            IF g = f THEN n ELSE [k \in OpenFiles |-> file[k].node][g]]
  BY <1>4, <1>8, <1>9
<1>11. f \notin OpenFiles
  BY <1>1 DEF OpenFiles
<1>12. D!Exec(t, f, n, closing)
  BY <1>1, <1>10, <1>11 DEF D!Exec, OpenFiles, Execs
<1> QED
  BY <1>1, <1>12

\* Calls that read a directory do nothing to what is open.
LEMMA GetDentsStutters ==
  ASSUME FilesInv, NEW t \in Task, NEW i \in Fd, NEW room \in Room, GetDents(t, i, room)
  PROVE  UNCHANGED D!vars
<1>1. /\ fd[t][i] # NoFile /\ UNCHANGED <<fd, exec>>
      /\ DevfsReadDir(fd[t][i], room) \/ Iso9660ReadDir(fd[t][i], room)
  BY DEF GetDents
<1>2. PICK g \in FileId : g = fd[t][i]
  BY <1>1 DEF FilesInv, FilesType
<1>3. \E s : file' = [file EXCEPT ![g].seek = s]
  BY <1>1, <1>2 DEF DevfsReadDir, Iso9660ReadDir
<1>4. PICK s : file' = [file EXCEPT ![g].seek = s]
  BY <1>3
<1>5. file \in [FileId -> FileRecord]
  BY DEF FilesInv, FilesType, FileRecord
<1>6. \A f \in FileId : file'[f].ref = file[f].ref /\ file'[f].node = file[f].node
  BY <1>4, <1>5 DEF FileRecord
<1>7. UNCHANGED [f \in {k \in FileId : file[k].ref > 0} |-> file[f].node]
  BY <1>6
<1> QED
  BY <1>1, <1>7 DEF D!vars

LEMMA DescriptorsStep ==
  ASSUME FilesInv, FilesInv', [FilesNext]_filesVars
  PROVE  [D!Next]_(D!vars)
<1>1. ASSUME UNCHANGED <<fd, exec, file>> PROVE UNCHANGED D!vars
  BY <1>1 DEF D!vars
<1>2. CASE Mount \/ UNCHANGED filesVars
  BY <1>1, <1>2 DEF Mount, filesVars
<1>3. ASSUME NEW t \in Task, Call(t) PROVE [D!Next]_(D!vars)
  <2>1. ASSUME NEW i \in Fd, Close(t, i) PROVE D!Next
    BY <2>1, CloseImplements DEF D!Next
  <2>2. ASSUME NEW i \in Fd, NEW j \in Fd, Dup2(t, i, j) PROVE D!Next
    BY <2>2, DupImplements DEF D!Next
  <2>3. ASSUME NEW i \in Fd, Dup(t, i) PROVE D!Next
    BY <2>2, <2>3, FilesAssumption DEF Dup
  <2>4. ASSUME NEW i \in Fd, NEW room \in Room, GetDents(t, i, room) PROVE UNCHANGED D!vars
    BY <2>4, GetDentsStutters
  <2>5. ASSUME NEW r \in Request, Begin(t, r) PROVE UNCHANGED D!vars
    BY <1>1, <2>5 DEF Begin
  <2>6. CASE Exit(t)
    BY <2>6, ExitImplements DEF D!Next
  <2>7. ASSUME NEW c \in Task, Fork(t, c) PROVE D!Next
    BY <2>7, ForkImplements DEF D!Next
  <2> QED
    BY <1>3, <2>1, <2>2, <2>3, <2>4, <2>5, <2>6, <2>7 DEF Call
<1>4. ASSUME NEW t \in Task, Continue(t) PROVE [D!Next]_(D!vars)
  <2>1. ASSUME Ascend(t) \/ Descend(t) \/ LookUpFails(t) PROVE UNCHANGED D!vars
    BY <1>1, <2>1 DEF Ascend, Descend, LookUpFails
  <2>2. ASSUME OpenStrays(t) \/ OpenFails(t) \/ Chdir(t) \/ ExecFails(t) PROVE UNCHANGED D!vars
    BY <1>1, <2>2 DEF OpenStrays, OpenFails, Chdir, ExecFails
  <2>3. ASSUME NEW f \in FileId, Open(t, f) PROVE D!Next
    BY <2>3, OpenImplements DEF D!Next
  <2>4. ASSUME NEW f \in FileId, Exec(t, f) PROVE D!Next
    BY <2>4, ExecImplements DEF D!Next
  <2> QED
    BY <1>4, <2>1, <2>2, <2>3, <2>4 DEF Continue
<1> QED
  BY <1>2, <1>3, <1>4 DEF FilesNext

\* open(), dup(), close(), fork(), execve() and exit() keep what they promise:
\* a file is open as long as it is referred to, and no longer, and stays the
\* same file, although the code only counts (closeFile, doDup2, taskForkFiles,
\* taskExitFiles, doExecve).
THEOREM FilesImplementDescriptors == FilesSpec => ImplementsDescriptors
<1>1. FilesInit => D!Init
  <2>1. ASSUME FilesInit
        PROVE  [f \in {g \in FileId : file[g].ref > 0} |-> file[f].node] =
                 [f \in {} |-> CHOOSE n \in Node : TRUE]
    <3>1. \A g \in FileId : file[g].ref = 0
      BY <2>1 DEF FilesInit, NotOpen
    <3>2. {g \in FileId : file[g].ref > 0} = {}
      BY <3>1
    <3> QED
      BY <3>2
  <2> QED
    BY <2>1 DEF FilesInit, D!Init, D!NoFds
<1>2. FilesInv /\ FilesInv' /\ [FilesNext]_filesVars => [D!Next]_(D!vars)
  BY DescriptorsStep
<1> QED
  BY <1>1, <1>2, FilesInvariant, PTL DEF FilesSpec, ImplementsDescriptors, D!Spec
=============================================================================
