----------------------------- MODULE MCTaskFamily -----------------------------
(* Small instances of TaskFamily for TLC. *)
EXTENDS TaskFamily, TLC

=============================================================================
