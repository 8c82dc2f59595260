------------------------------- MODULE MCSlab -------------------------------
(* Small instances of Slab for TLC. *)
EXTENDS Slab, TLC

Blocks == Permutations(Block)

=============================================================================
