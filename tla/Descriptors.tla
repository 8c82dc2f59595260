----------------------------- MODULE Descriptors -----------------------------
(***************************************************************************)
(* What open(), dup(), close(), fork(), execve() and exit() promise a      *)
(* program: an open file is there as long as a descriptor of some task or  *)
(* the memory of a task that runs the file refers to it, no longer, and is *)
(* the same file all the time.  There are no counts here.                  *)
(***************************************************************************)
EXTENDS Naturals

CONSTANTS Task, Fd, FileId, Node, NoFile

VARIABLES
  fd,    \* the descriptors of each task
  exec,  \* the file its memory was loaded from
  open   \* the open files: what each of them is a file of

vars == <<fd, exec, open>>

NoFds == [i \in Fd |-> NoFile]
Used(table, mem) == {table[t][i] : t \in Task, i \in Fd} \cup {mem[t] : t \in Task}

\* What nobody refers to any more is closed.
Only(files, f) == [g \in DOMAIN f \cap files |-> f[g]]
Keeping == open' = Only(Used(fd', exec'), open)

Init ==
  /\ fd = [t \in Task |-> NoFds]
  /\ exec = [t \in Task |-> NoFile]
  /\ open = [f \in {} |-> CHOOSE n \in Node : TRUE]

Open(t, i, f, n) ==
  /\ fd[t][i] = NoFile /\ f \notin DOMAIN open
  /\ fd' = [fd EXCEPT ![t][i] = f]
  /\ open' = [g \in DOMAIN open \cup {f} |-> IF g = f THEN n ELSE open[g]]
  /\ UNCHANGED exec

Close(t, i) ==
  /\ fd' = [fd EXCEPT ![t][i] = NoFile]
  /\ UNCHANGED exec /\ Keeping

Dup(t, i, j) ==
  /\ fd[t][i] # NoFile
  /\ fd' = [fd EXCEPT ![t][j] = fd[t][i]]
  /\ UNCHANGED exec /\ Keeping

Fork(t, c) ==
  /\ fd[c] = NoFds /\ exec[c] = NoFile
  /\ fd' = [fd EXCEPT ![c] = fd[t]]
  /\ exec' = [exec EXCEPT ![c] = exec[t]]
  /\ UNCHANGED open

\* Some of the descriptors are closed with it.
Exec(t, f, n, closing) ==
  /\ f \notin DOMAIN open
  /\ exec' = [exec EXCEPT ![t] = f]
  /\ fd' = [fd EXCEPT ![t] = [i \in Fd |-> IF i \in closing THEN NoFile ELSE @[i]]]
  /\ open' = [g \in (DOMAIN open \cap Used(fd', exec')) \cup {f} |->
                IF g = f THEN n ELSE open[g]]

Exit(t) ==
  /\ fd' = [fd EXCEPT ![t] = NoFds]
  /\ exec' = [exec EXCEPT ![t] = NoFile]
  /\ Keeping

Next ==
  \E t \in Task :
    \/ \E i \in Fd, f \in FileId, n \in Node : Open(t, i, f, n)
    \/ \E i \in Fd : Close(t, i) \/ \E j \in Fd : Dup(t, i, j)
    \/ \E c \in Task : Fork(t, c)
    \/ \E f \in FileId, n \in Node, closing \in SUBSET Fd : Exec(t, f, n, closing)
    \/ Exit(t)

Spec == Init /\ [][Next]_vars

=============================================================================
