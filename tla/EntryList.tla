------------------------------ MODULE EntryList -----------------------------
(***************************************************************************)
(* What pht\Queue and pht\Vector promise to a program that holds their     *)
(* lock: a list of entries and, for each call, the entry it returned.      *)
(***************************************************************************)
EXTENDS Naturals, Sequences, SequencesExt

CONSTANTS Entries, \* the entries a program may store
          Nothing, \* what a call without a result returns
          Error    \* a call that throws

VARIABLES content, out

vars == <<content, out>>

Fresh(e) == e \in Entries /\ e \notin ToSet(content)

Init == content = <<>> /\ out = Nothing

Insert(i, e) == /\ i \in 1..Len(content) + 1 /\ Fresh(e)
                /\ content' = InsertAt(content, i, e) /\ out' = Nothing
Take(i) == /\ i \in DOMAIN content
           /\ content' = RemoveAt(content, i) /\ out' = content[i]
Delete(i) == /\ i \in DOMAIN content
             /\ content' = RemoveAt(content, i) /\ out' = Nothing
Read(i) == /\ i \in DOMAIN content /\ out' = content[i] /\ UNCHANGED content
Replace(i, e) == /\ i \in DOMAIN content /\ Fresh(e)
                 /\ content' = ReplaceAt(content, i, e) /\ out' = Nothing
(* The first n entries stay; new ones fill the list up to n.  The call has *)
(* no result: out records the length that was asked for.                   *)
Resize(n) == /\ out' = n
             /\ IF n <= Len(content)
                  THEN content' = SubSeq(content, 1, n)
                  ELSE \E fill \in [1..n - Len(content) -> {e \in Entries : Fresh(e)}] :
                         IsInjective(fill) /\ content' = content \o fill
Fail == out' = Error /\ UNCHANGED content

(* First in, first out.                                                    *)
QueueNext == \/ \E e \in Entries : Insert(Len(content) + 1, e)
             \/ Take(1) \/ Read(1) \/ Fail
QueueSpec == Init /\ [][QueueNext]_vars

(* Any position, counted from 1 here and from 0 in the code.               *)
VectorNext ==
  \/ \E i \in 1..Len(content) + 1, e \in Entries : Insert(i, e) \/ Replace(i, e)
  \/ \E i \in DOMAIN content : Take(i) \/ Delete(i) \/ Read(i)
  \/ \E n \in 0..Cardinality(Entries) : Resize(n)
  \/ Fail
VectorSpec == Init /\ [][VectorNext]_vars
=============================================================================
