---------------------------- MODULE MCAddressSpace ----------------------------
(* Small instances of AddressSpace for TLC. *)
EXTENDS AddressSpace, TLC

A(start, length, file, write) == [start |-> start, length |-> length, file |-> file, write |-> write]
\* Zeroed data across the end of a table, and text; data in two tables.
Programs == {<<A(1, 2, FALSE, TRUE), A(0, 1, TRUE, FALSE)>>, <<A(0, 3, TRUE, TRUE)>>}
Alike == Permutations(Mem) \cup Permutations(Frame) \cup Permutations(User)

=============================================================================
