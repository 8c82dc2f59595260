------------------------------- MODULE Terminal -------------------------------
(***************************************************************************)
(* The terminal (tty.c) and the keyboard (keyboard.c): the interrupt puts  *)
(* scan codes into ttyKeyboardBuffer, the keyboard task makes characters   *)
(* and signals of them, and ttyRead() takes the characters and edits a     *)
(* line in the memory of the program.                                      *)
(*                                                                         *)
(* RingBuffer, which this module extends, is ttyReadBuffer.  Of the other  *)
(* buffer only what Fifo promises is used.  What is written to the screen  *)
(* is left out, and with it ttyWrite() and the screen's semaphore, whose   *)
(* holders do not wait for anything.                                       *)
(***************************************************************************)
EXTENDS RingBuffer, Integers

CONSTANTS
  Newline, Backspace, Eof, Tab,  \* characters that mean something
  Ctrl, CapsLock,   \* keys that do; the others are their character
  KeyCapacity,      \* the size of ttyKeyboardBuffer
  Sizes             \* the lengths programs pass to read()

ASSUME TerminalAssumption ==
  /\ {Newline, Backspace, Eof} \subseteq Data
  /\ KeyCapacity \in Nat \ {0} /\ Sizes \subseteq Nat \ {2}

VARIABLES
  typed,     \* the scan codes in ttyKeyboardBuffer
  kpc,       \* where ttyKeyboardTask() is
  ctrl,      \* KeyboardState.ctrl
  asked,     \* the keyboard has still to answer a byte
  status,    \* whether status is not 0
  place,     \* where a task is in ttyRead()
  size, data, count   \* its argument, data and i

keyVars == <<typed, kpc, ctrl, asked, status>>
readVars == <<place, size, data, count>>
tvars == <<vars, keyVars, readVars>>

Key == (Data \ {Eof}) \cup {Ctrl, CapsLock}
Plain == Data \ {Newline, Backspace, Eof, Tab}

TerminalTypeOK ==
  /\ TypeOK
  /\ typed \in Seq(Key) /\ Len(typed) <= KeyCapacity
  /\ kpc \in {"read", "led1", "led2"}
  /\ ctrl \in BOOLEAN /\ asked \in BOOLEAN /\ status \in BOOLEAN
  /\ place \in [Reader -> {"out", "line", "end"}]
  /\ size \in [Reader -> Sizes \cup {0}]
  /\ data \in [Reader -> Int] /\ count \in [Reader -> Nat]

\* initTTY()
TerminalInit ==
  /\ Init
  /\ typed = <<>> /\ kpc = "read" /\ ctrl = FALSE
  /\ asked = FALSE /\ status = TRUE
  /\ place = [t \in Reader |-> "out"]
  /\ size = [t \in Reader |-> 0] /\ data = size /\ count = size

-----------------------------------------------------------------------------
(* keyboardIRQ()                                                           *)

\* outRingBuffer(): the oldest code goes when there is no room.  A keyboard that
\* has been sent KB_CMD_LED looks at its keys again when it has the data.
Press(k) ==
  /\ kpc = "read"
  /\ typed' = Append(IF Len(typed) < KeyCapacity THEN typed ELSE Tail(typed), k)
  /\ UNCHANGED <<vars, kpc, ctrl, asked, status, readVars>>

\* A slip: KB_DATA_RESEND is no answer.
AnswersAckOnly(resend) ==
  /\ asked /\ asked' = FALSE
  /\ status' = ~resend
  /\ UNCHANGED <<vars, typed, kpc, ctrl, readVars>>

\* KB_DATA_ACK, or KB_DATA_RESEND, which is taken for the same.
Answers(resend) ==
  /\ asked /\ asked' = FALSE
  /\ status' = TRUE
  /\ UNCHANGED <<vars, typed, kpc, ctrl, readVars>>

-----------------------------------------------------------------------------
(* ttyKeyboardTask() and keyboardCallback()                                *)

Hears(k) == kpc = "read" /\ typed # <<>> /\ Head(typed) = k /\ typed' = Tail(typed)

\* The code of Ctrl, or the one of its release.
HearModifier ==
  /\ Hears(Ctrl)
  /\ ctrl' \in BOOLEAN
  /\ UNCHANGED <<vars, kpc, asked, status, readVars>>

\* keyboardSetLED(): a command and its data, each waits for an answer.
Send(next) ==
  /\ status' = FALSE /\ asked' = TRUE
  /\ kpc' = next
  /\ UNCHANGED <<vars, ctrl, readVars>>

SetLED ==
  \/ Hears(CapsLock) /\ Send("led1")
  \/ kpc = "led1" /\ status /\ Send("led2") /\ UNCHANGED typed
  \/ /\ kpc = "led2" /\ status
     /\ kpc' = "read"
     /\ UNCHANGED <<vars, typed, ctrl, asked, status, readVars>>

\* Ctrl with 'c' or '\': "^C" is written, then the task that TIOCSPGRP has set
\* last gets its signal, if it is still there.
HearInterrupt ==
  /\ ctrl /\ \E c \in Plain : Hears(c)
  /\ UNCHANGED vars \/ \E t \in Signalled : Signal(t)
  /\ UNCHANGED <<kpc, ctrl, asked, status, readVars>>

\* A key without Ctrl is its character; with Ctrl 'd' is the end of the file,
\* and the others are dropped.
HearCharacter ==
  /\ \E c \in Data \ {Eof} :
       /\ Hears(c)
       /\ \/ ~ctrl /\ Out(c)
          \/ ctrl /\ c \in Plain /\ Out(Eof)
          \/ ctrl /\ UNCHANGED vars
  /\ UNCHANGED <<kpc, ctrl, asked, status, readVars>>

KeyboardTask ==
  HearModifier \/ SetLED \/ HearInterrupt \/ HearCharacter

-----------------------------------------------------------------------------
(* ttyRead()                                                               *)

Returns(t) ==
  /\ place' = [place EXCEPT ![t] = "out"]
  /\ size' = [size EXCEPT ![t] = 0]
  /\ data' = [data EXCEPT ![t] = 0]
  /\ count' = [count EXCEPT ![t] = 0]

\* With a length of 0 or 1 it returns at once.  One of 2 is not modelled: data is
\* 1 after the first character, and line 376 looks for a 2 that does not come
\* again, so that the rest of the line leaves the buffer.
Read(t, n) ==
  /\ place[t] = "out" /\ n > 1
  /\ size' = [size EXCEPT ![t] = n]
  /\ data' = [data EXCEPT ![t] = n]
  /\ place' = [place EXCEPT ![t] = "line"]
  /\ UNCHANGED <<vars, keyVars, count>>

\* A slip: room is kept for one byte only.
StoreLate(t, c) ==
  LET full == data[t] = 2
  IN /\ count' = [count EXCEPT ![t] = @ + (IF full /\ c # Newline THEN 2 ELSE 1)]
     /\ data' = [data EXCEPT ![t] = @ - 1]
     /\ place' = [place EXCEPT ![t] = IF full \/ c = Newline THEN "end" ELSE "line"]
     /\ UNCHANGED size

\* The character goes to the program, and a line feed after it when there is
\* only room for that and the final 0.
Store(t, c) ==
  LET full == data[t] = 3
  IN /\ count' = [count EXCEPT ![t] = @ + (IF full /\ c # Newline THEN 2 ELSE 1)]
     /\ data' = [data EXCEPT ![t] = @ - 1]
     /\ place' = [place EXCEPT ![t] = IF full \/ c = Newline THEN "end" ELSE "line"]
     /\ UNCHANGED size

Erase(t) ==
  /\ data' = [data EXCEPT ![t] = @ + 1]
  /\ count' = [count EXCEPT ![t] = @ - 1]
  /\ UNCHANGED <<place, size>>

\* Only the first character can be the end of the file.  A store may fail:
\* -EFAULT.
Edit(t, c) ==
  \/ c = Eof /\ count[t] = 0 /\ Returns(t)
  \/ c = Backspace /\ count[t] > 0 /\ Erase(t)
  \/ c = Tab /\ UNCHANGED readVars
  \/ c = Eof /\ count[t] > 0 /\ UNCHANGED readVars
  \/ c = Backspace /\ count[t] = 0 /\ UNCHANGED readVars
  \/ c \notin {Eof, Backspace, Tab} /\ (Store(t, c) \/ Returns(t))

NextCharacter(t) ==
  /\ place[t] = "line"
  /\ In(t) \/ Woken(t)
  /\ IF pc'[t] = "wait" THEN UNCHANGED readVars ELSE Edit(t, got'[t])
  /\ UNCHANGED <<keyVars>>

\* -EINTR
ReadInterrupted(t) ==
  /\ Interrupted(t) /\ Returns(t)
  /\ UNCHANGED <<keyVars>>

\* The final 0.
ReadReturns(t) ==
  /\ place[t] = "end" /\ Returns(t)
  /\ UNCHANGED <<vars, keyVars>>

-----------------------------------------------------------------------------

Others == UNCHANGED <<keyVars, readVars>>

TerminalNext ==
  \/ \E k \in Key : Press(k)
  \/ \E resend \in BOOLEAN : Answers(resend)
  \/ KeyboardTask
  \/ \E t \in Reader :
       \/ \E n \in Sizes : Read(t, n)
       \/ NextCharacter(t) \/ ReadInterrupted(t) \/ ReadReturns(t)
       \/ SpuriousWake(t) /\ Others
  \/ \E t \in Signalled :
       \/ Signal(t) /\ Others
       \/ place[t] = "out" /\ TakeSignal(t) /\ Others

TerminalSpec == TerminalInit /\ [][TerminalNext]_tvars

\* The keyboard answers what it is sent, and the keyboard task, which nothing
\* can end, gets the CPU (RunQueue).  Nothing is assumed of programs.
FairTerminalSpec ==
  /\ TerminalSpec
  /\ WF_tvars(KeyboardTask)
  /\ WF_tvars(\E resend \in BOOLEAN : Answers(resend))

-----------------------------------------------------------------------------
(* Properties.                                                             *)

\* A read stays within the buffer of the program: what it has stored, and the 0
\* to come, fit, however the line is edited (tty.c:359, 376); and data is what
\* is left.
ReadFits ==
  \A t \in Reader :
    /\ place[t] # "out" => count[t] < size[t]
    /\ place[t] = "line" => data[t] + count[t] = size[t]

\* The keyboard task comes back for the next key: no answer of the keyboard is
\* missed (keyboard.c:93).
KeyboardServes == (kpc # "read") ~> (kpc = "read")

=============================================================================
