------------------------------- MODULE MCDisk -------------------------------
(* A small instance of Disk for TLC. *)
EXTENDS Disk, TLC

CONSTANT i

\* One file, or a directory of two pages.
Requests ==
  {[for |-> "read", inode |-> i, todo |-> <<0>>],
   [for |-> "readdir", inode |-> i, todo |-> <<0, 1>>],
   [for |-> "lookup", inode |-> i, todo |-> <<0>>]}

Volumes == <<16, 17>>

=============================================================================
