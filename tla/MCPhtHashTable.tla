---------------------------- MODULE MCPhtHashTable --------------------------
(* PhtHashTable with keys that collide at every size the table grows to.   *)
EXTENDS PhtHashTable, TLC
IntKey(n) == [key |-> Null, hash |-> n]
StrKey(s, h) == [key |-> s, hash |-> h]
(* 0, -4 and "a" share a home up to size 4, 1 and "b" do too; -4 has the   *)
(* hash of "a", and 1 is the hash of a tombstone.                          *)
Colliding == {IntKey(0), IntKey(1), IntKey(-4), StrKey("a", -4), StrKey("b", -3)}
BadOffset == {"bad_offset"}
Symmetry == Permutations(Entries)
=============================================================================
