------------------------------ MODULE MCSignals ------------------------------
(* A small instance of Signals for TLC: the handler of SIGCONT (18) blocks *)
(* itself and a signal beyond the width of an int, that of SIGSYS (31)     *)
(* blocks both; one sender kills, the other one does not.                  *)
EXTENDS Signals, TLC

CONSTANTS k, l

MCMask == (18 :> {18, 40}) @@ (31 :> {18, 31})
MCSends == (k :> Sig \ {SIGKILL}) @@ (l :> {SIGKILL})

=============================================================================
