------------------------------ MODULE EntryMap ------------------------------
(* What pht\HashTable promises to a program that holds its lock: a map     *)
(* from keys to entries and, for each call, the entry it returned.         *)
EXTENDS Functions

CONSTANTS Keys, Entries, Nothing, Error

VARIABLES map, out

vars == <<map, out>>

Init == map = [k \in {} |-> Nothing] /\ out = Nothing

Write(k, e) ==
  /\ e \notin Range(map)
  /\ map' = [j \in DOMAIN map \cup {k} |-> IF j = k THEN e ELSE map[j]]
  /\ out' = Nothing
Unset(k) == map' = Restrict(map, DOMAIN map \ {k}) /\ out' = Nothing
Read(k) == out' = (IF k \in DOMAIN map THEN map[k] ELSE Error) /\ UNCHANGED map
Fail == out' = Error /\ UNCHANGED map

Next == Fail \/ \E k \in Keys : Unset(k) \/ Read(k) \/ \E e \in Entries : Write(k, e)
Spec == Init /\ [][Next]_vars
=============================================================================
