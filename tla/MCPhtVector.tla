----------------------------- MODULE MCPhtVector ----------------------------
(* PhtVector with few entries; the capacity grows past their number.       *)
EXTENDS PhtVector, TLC
BadIndex == {"bad_index"}
ToCapacity == {"to_capacity"}
Symmetry == Permutations(Entries)
=============================================================================
