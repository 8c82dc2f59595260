------------------------------- MODULE MCBuddy -------------------------------
(* Small instances of Buddy for TLC. *)
EXTENDS Buddy, TLC

MCUsable == PageIndex \ {0}

=============================================================================
