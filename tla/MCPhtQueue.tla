----------------------------- MODULE MCPhtQueue -----------------------------
(* PhtQueue with few entries and nodes, which it allocates again and again. *)
EXTENDS PhtQueue, TLC
Symmetry == Permutations(Nodes) \cup Permutations(Entries)
=============================================================================
