---------------------------------- MODULE Fifo ----------------------------------
(***************************************************************************)
(* What the users of a RingBuffer (ringbuffer.h) rely on: characters come  *)
(* out in the order in which they went in, each to one reader, and when    *)
(* there is no room the oldest one is dropped.                             *)
(***************************************************************************)
EXTENDS Naturals, Sequences

CONSTANTS Reader, Data, Nothing, Capacity

VARIABLES
  content,   \* the characters not yet read, oldest first
  got        \* the last character each reader was given

vars == <<content, got>>

Init == content = <<>> /\ got = [t \in Reader |-> Nothing]

\* outRingBuffer()
Put(c) ==
  /\ content' = IF Len(content) < Capacity THEN Append(content, c)
                ELSE Append(Tail(content), c)
  /\ UNCHANGED got

\* inRingBuffer()
Take(t) ==
  /\ content # <<>>
  /\ got' = [got EXCEPT ![t] = Head(content)]
  /\ content' = Tail(content)

\* A reader that has to wait has nothing.
Ask(t) ==
  /\ got' = [got EXCEPT ![t] = Nothing]
  /\ UNCHANGED content

Next ==
  \/ \E c \in Data : Put(c)
  \/ \E t \in Reader : Take(t) \/ Ask(t)

Spec == Init /\ [][Next]_vars

=============================================================================
