------------------------------ MODULE MCDentries ------------------------------
(* Small instances of Dentries for TLC. *)
EXTENDS Dentries, TLC

=============================================================================
