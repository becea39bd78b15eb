------------------------ MODULE EntryConversionProofs ------------------------
(***************************************************************************)
(* EntryConversion for all values, callables, cells, blocks and bounds:    *)
(* each block has one owner that finds in it what was written, and what    *)
(* another thread reads is what was sent.                                  *)
(***************************************************************************)
EXTENDS EntryConversion, SequenceTheorems, WellFoundedInduction, TLAPS

(* What the variables hold.                                                *)
Task == {t \in Seq(Entries) : Len(t) \in 1..MaxArgs + 1}
Shape ==
  /\ heap \in [Blocks -> Values \cup Callables \cup {None}]
  /\ tasks \in Seq(Task) /\ Len(tasks) <= MaxTasks
  /\ running \in Task \cup {<<>>}
  /\ cells \in [Cells -> Entries \cup {None}]
  /\ gone \subseteq Values \cup Callables /\ orphans \subseteq Blocks

(* An entry is what EntryFor makes, with a block if what it stores is one. *)
Legit(e) ==
  /\ e \in Entries /\ (e.block # None => Allocates(e.sent))
  /\ e.type = IF e.sent.type = "closure" THEN "func" ELSE e.sent.type
  /\ e.sent.type = "long" => e.num = ToInt(e.sent.nums[1])

(* A slot's block holds what was sent, no other slot has it, and every     *)
(* block that is not free is a slot's, an orphan's or an object's.         *)
Holds(s) == /\ Legit(EntryIn(s))
            /\ EntryIn(s).block # None => heap[EntryIn(s).block] = EntryIn(s).sent
Share(r, s) == EntryIn(r).block = EntryIn(s).block /\ EntryIn(s).block # None
Owned(b) == \E s \in Slots : Used(s) /\ EntryIn(s).block = b
Exact ==
  /\ \A s \in Slots : Used(s) => Holds(s)
  /\ \A r, s \in Slots : Used(r) /\ Used(s) /\ Share(r, s) => r = s
  /\ \A b \in Blocks : heap[b] # None => heap[b].type = "object" \/ b \in orphans \/ Owned(b)

-----------------------------------------------------------------------------
(* The slots, kind by kind.                                                *)
LEMMA SlotKinds ==
  ASSUME NEW s \in Slots
  PROVE  \/ \E i \in 1..MaxTasks, j \in 1..MaxArgs + 1 : s = <<"task", i, j>>
         \/ \E j \in 1..MaxArgs + 1 : s = <<"run", j>>
         \/ \E c \in Cells : s = <<"cell", c>>
BY DEF Slots
(* The slots of an argument of a task in the list.                         *)
LEMMA TaskSlot ==
  ASSUME Shape, NEW i, NEW j
  PROVE  /\ i \in 1..MaxTasks /\ j \in 1..MaxArgs + 1 => <<"task", i, j>> \in Slots
         /\ Used(<<"task", i, j>>) <=> i \in 1..Len(tasks) /\ j \in 1..Len(tasks[i])
         /\ EntryIn(<<"task", i, j>>) = tasks[i][j]
BY DEF Shape, Slots, Used, EntryIn, Task
(* The slots of an argument of the running task.                           *)
LEMMA RunSlot ==
  ASSUME Shape, NEW j
  PROVE  /\ j \in 1..MaxArgs + 1 => <<"run", j>> \in Slots
         /\ Used(<<"run", j>>) <=> j \in 1..Len(running)
         /\ EntryIn(<<"run", j>>) = running[j]
BY DEF Shape, Slots, Used, EntryIn, Task
(* The slot of a cell of a structure.                                      *)
LEMMA CellSlot ==
  ASSUME NEW c
  PROVE  /\ c \in Cells => <<"cell", c>> \in Slots
         /\ Used(<<"cell", c>>) <=> cells[c] # None
         /\ EntryIn(<<"cell", c>>) = cells[c]
BY DEF Slots, Used, EntryIn

(* Most steps leave every slot but those of dying, which are emptied, and  *)
(* those of fresh, which are filled, with blocks that were free.           *)
Fills(s) == Used(s)' /\ Holds(s)' /\ (EntryIn(s)'.block # None => EntryIn(s)'.block \in Free)
SlotsChange(dying, fresh) ==
  /\ fresh \subseteq Slots /\ orphans \subseteq orphans'
  /\ \A s \in Slots : s \notin fresh /\ Used(s)' => Used(s) /\ s \notin dying /\ EntryIn(s)' = EntryIn(s)
  /\ \A s \in Slots : Used(s) => s \in dying \/ (s \notin fresh /\ Used(s)')
  /\ \A s \in fresh : Fills(s)
  /\ \A r, s \in fresh : Share(r, s)' => r = s
BlocksChange(dying, fresh) ==
  \A b \in Blocks :
    /\ heap[b] # None =>
         heap'[b] = IF \E s \in Slots : s \in dying /\ Used(s) /\ Frees(EntryIn(s)) /\ EntryIn(s).block = b
                      THEN None ELSE heap[b]
    /\ heap[b] = None /\ heap'[b] # None =>
         heap'[b].type = "object" \/ b \in orphans' \/ \E s \in fresh : EntryIn(s)'.block = b
(* Such a step keeps every block with one holder.                          *)
LEMMA SlotStep ==
  ASSUME Exact, NEW dying, NEW fresh, SlotsChange(dying, fresh), BlocksChange(dying, fresh)
  PROVE  Exact'
<1> USE DEF SlotsChange, BlocksChange, Fills
<1>1. ASSUME NEW s \in Slots, Used(s), EntryIn(s).block # None
      PROVE  EntryIn(s).block \in Blocks /\ heap[EntryIn(s).block] = EntryIn(s).sent
             /\ heap[EntryIn(s).block] # None
  BY <1>1, NoneAssumption DEF Exact, Holds, Legit, Entries
<1>2. ASSUME NEW s \in Slots, s \notin fresh, Used(s)' PROVE Holds(s)'
  <2>1. Used(s) /\ s \notin dying /\ EntryIn(s)' = EntryIn(s)  BY <1>2
  <2>2. Holds(s)  BY <2>1 DEF Exact
  <2>3. ASSUME EntryIn(s).block # None PROVE heap'[EntryIn(s).block] = heap[EntryIn(s).block]
    <3>1. \A r \in Slots : Used(r) /\ EntryIn(r).block = EntryIn(s).block => r = s
      BY <2>1, <2>3 DEF Exact, Share
    <3>2. EntryIn(s).block \in Blocks /\ heap[EntryIn(s).block] # None  BY <1>1, <2>1, <2>3
    <3> QED  BY <2>1, <3>1, <3>2
  <2> QED  BY <2>1, <2>2, <2>3 DEF Holds
<1>3. \A s \in Slots : Used(s)' => Holds(s)'
  BY <1>2
<1>4. ASSUME NEW r \in Slots, NEW s \in Slots, Used(r)', Used(s)', Share(r, s)' PROVE r = s
  <2>1. CASE r \notin fresh /\ s \notin fresh
    BY <1>4, <2>1 DEF Exact, Share
  <2>2. CASE r \in fresh /\ s \in fresh
    BY <1>4, <2>2
  <2>3. ASSUME NEW x \in Slots, NEW y \in Slots, x \in fresh, y \notin fresh, Used(y)', Share(x, y)'
        PROVE FALSE
    <3>1. Used(y) /\ EntryIn(y)' = EntryIn(y)  BY <2>3
    <3>2. EntryIn(y).block # None /\ EntryIn(x)'.block = EntryIn(y).block  BY <2>3, <3>1 DEF Share
    <3>3. heap[EntryIn(y).block] # None  BY <1>1, <3>1, <3>2
    <3> QED  BY <2>3, <3>2, <3>3 DEF Free
  <2>4. Share(s, r)'  BY <1>4 DEF Share
  <2> QED  BY <1>4, <2>1, <2>2, <2>3, <2>4
<1>5. ASSUME NEW b \in Blocks, heap'[b] # None
      PROVE  heap'[b].type = "object" \/ b \in orphans' \/ Owned(b)'
  <2>1. CASE heap[b] = None
    BY <1>5, <2>1 DEF Owned
  <2>2. CASE heap[b] # None
    <3>1. heap'[b] = heap[b]  BY <1>5, <2>2
    <3>2. ASSUME NEW s \in Slots, Used(s), EntryIn(s).block = b
          PROVE  heap'[b].type = "object" \/ Owned(b)'
      <4>1. CASE s \in dying
        <5>1. ~Frees(EntryIn(s))  BY <1>5, <2>2, <3>2, <4>1
        <5>2. heap[b] = EntryIn(s).sent  BY <1>1, <3>2, NoneAssumption
        <5>3. Legit(EntryIn(s))  BY <3>2 DEF Exact, Holds
        <5> QED  BY <3>1, <3>2, <5>1, <5>2, <5>3, NoneAssumption DEF Legit, Frees, Allocates
      <4>2. CASE s \notin dying
        BY <3>2, <4>2 DEF Owned
      <4> QED  BY <4>1, <4>2
    <3> QED  BY <2>2, <3>1, <3>2 DEF Exact, Owned
  <2> QED  BY <2>1, <2>2
<1> QED  BY <1>3, <1>4, <1>5 DEF Exact
-----------------------------------------------------------------------------
(* What EntryFor makes is an entry, and its block is the one that is given. *)
LEMMA EntryForLegit ==
  ASSUME NEW v \in Values \cup Callables, v.type # "resource",
         NEW b \in Blocks \cup {None}, b # None => Allocates(v)
  PROVE  Legit(EntryFor(v, b)) /\ EntryFor(v, b).block = b /\ EntryFor(v, b).sent = v
<1>1. /\ v.type \in ZvalTypes /\ v.nums \in Seq(Int)
      /\ v.type = "long" => Len(v.nums) = 1
  BY ValuesAssumption
<1>2. v.type = "long" => ToInt(v.nums[1]) \in Int
  <2> SUFFICES ASSUME v.type = "long" PROVE ToInt(v.nums[1]) \in Int  OBVIOUS
  <2>1. v.nums[1] \in Int  BY <1>1
  <2> HIDE DEF ToInt
  <2>2. \A n \in Int : ToInt(n) \in Int  BY IntAssumption DEF ToInt, Low
  <2> QED  BY <2>1, <2>2
<1>3. EntryFor(v, b) \in Entries  BY <1>1, <1>2 DEF EntryFor, Entries, EntryTypes
<1> QED  BY <1>3 DEF EntryFor, Legit

(* malloc returns free blocks, each of them once.                          *)
LEMMA PlacesFree ==
  ASSUME NEW need, need \subseteq Int, NEW at \in Places(need)
  PROVE  /\ at \in [need -> Free] /\ \A i, j \in need : at[i] = at[j] => i = j
<1>1. at \in [need -> Free] /\ \A i, j \in need : i < j => at[i] < at[j]  BY DEF Places
<1>2. \A i \in need : at[i] \in Nat
  <2>1. \A b \in Free : b \in Blocks  BY DEF Free
  <2>2. \A b \in Blocks : b \in Nat  BY BlocksAssumption
  <2> QED  BY <1>1, <2>1, <2>2
<1>3. ASSUME NEW i \in need, NEW j \in need, at[i] = at[j] PROVE i = j
  BY <1>1, <1>2, <1>3
<1> QED  BY <1>1, <1>3

(* What is in a block after an allocation and after a deletion.            *)
LEMMA WrittenAt ==
  ASSUME NEW need, NEW at, DOMAIN at = need, \A i, j \in need : at[i] = at[j] => i = j,
         NEW vs, NEW b \in Blocks
  PROVE  /\ \A i \in need : at[i] = b => Written(at, vs)[b] = vs[i]
         /\ (\A i \in need : at[i] # b) => Written(at, vs)[b] = heap[b]
BY DEF Written
(* pht_entry_delete_value empties the blocks of the entries it frees.      *)
LEMMA DeletedAt ==
  ASSUME NEW h, NEW es, NEW b \in Blocks
  PROVE  Deleted(h, es)[b] = IF \E e \in es : Frees(e) /\ e.block = b THEN None ELSE h[b]
BY DEF Deleted

(* offsetUnset, pop and the like.                                          *)
LEMMA RemoveStep ==
  ASSUME Shape, Exact, NEW c \in Cells, Remove(c)
  PROVE  Shape' /\ Exact'
<1>1. /\ cells[c] # None /\ heap' = Deleted(heap, {cells[c]}) /\ cells' = [cells EXCEPT ![c] = None]
      /\ UNCHANGED <<tasks, running, gone, orphans>>
  BY DEF Remove, Old
<1>2. Shape'
  <2>1. heap' \in [Blocks -> Values \cup Callables \cup {None}]  BY <1>1 DEF Shape, Deleted
  <2> QED  BY <1>1, <2>1 DEF Shape
<1> DEFINE dying == {<<"cell", c>>}
<1>3. ASSUME NEW s \in Slots
      PROVE  /\ Used(s)' <=> Used(s) /\ s \notin dying
             /\ s \notin dying => EntryIn(s)' = EntryIn(s)
  BY <1>1 DEF Slots, Used, EntryIn, Shape
<1>4. <<"cell", c>> \in Slots /\ Used(<<"cell", c>>) /\ EntryIn(<<"cell", c>>) = cells[c]
  BY <1>1, CellSlot
<1>5. ASSUME NEW b \in Blocks
      PROVE  heap'[b] = IF \E s \in Slots : s \in dying /\ Used(s) /\ Frees(EntryIn(s)) /\ EntryIn(s).block = b
                          THEN None ELSE heap[b]
  BY <1>1, <1>4, DeletedAt
<1> HIDE DEF dying
<1>6. SlotsChange(dying, {}) /\ BlocksChange(dying, {})
  BY <1>1, <1>3, <1>5 DEF SlotsChange, BlocksChange
<1>7. Exact'  BY <1>6, SlotStep
<1> QED  BY <1>2, <1>7

(* task_delete.                                                            *)
LEMMA TaskDeleteStep ==
  ASSUME Shape, Exact, TaskDelete
  PROVE  Shape' /\ Exact'
<1>1. /\ heap' = Deleted(heap, {running[i] : i \in DOMAIN running}) /\ running' = <<>>
      /\ UNCHANGED <<tasks, cells, gone, orphans>>
  BY DEF TaskDelete
<1>2. Shape'
  <2>1. heap' \in [Blocks -> Values \cup Callables \cup {None}]  BY <1>1 DEF Shape, Deleted
  <2> QED  BY <1>1, <2>1 DEF Shape
<1> DEFINE dying == {"run"} \X (1..MaxArgs + 1)
<1>3. ASSUME NEW s \in Slots
      PROVE  /\ Used(s)' <=> Used(s) /\ s \notin dying
             /\ s \notin dying => EntryIn(s)' = EntryIn(s)
  BY <1>1 DEF Slots, Used, EntryIn
<1>4. ASSUME NEW b \in Blocks
      PROVE  heap'[b] = IF \E s \in Slots : s \in dying /\ Used(s) /\ Frees(EntryIn(s)) /\ EntryIn(s).block = b
                          THEN None ELSE heap[b]
  <2>1. DOMAIN running = 1..Len(running) /\ DOMAIN running \subseteq 1..MaxArgs + 1
    <3>1. MaxArgs \in Nat  BY BlocksAssumption
    <3>2. CASE running = <<>>  BY <3>1, <3>2
    <3>3. CASE running \in Seq(Entries) /\ Len(running) \in 1..MaxArgs + 1  BY <3>1, <3>3
    <3> QED  BY <3>2, <3>3 DEF Shape, Task
  <2>2. \A s \in dying : \E i \in 1..MaxArgs + 1 : s = <<"run", i>>  OBVIOUS
  <2>3. \A i \in 1..MaxArgs + 1 : <<"run", i>> \in dying  OBVIOUS
  <2> HIDE DEF dying
  <2>4. (\E e \in {running[i] : i \in DOMAIN running} : Frees(e) /\ e.block = b)
        <=> \E s \in Slots : s \in dying /\ Used(s) /\ Frees(EntryIn(s)) /\ EntryIn(s).block = b
    BY <2>1, <2>2, <2>3, RunSlot
  <2> QED  BY <1>1, <2>4, DeletedAt
<1> HIDE DEF dying
<1>5. SlotsChange(dying, {}) /\ BlocksChange(dying, {})
  BY <1>1, <1>3, <1>4 DEF SlotsChange, BlocksChange
<1>6. Exact'  BY <1>5, SlotStep
<1> QED  BY <1>2, <1>6

(* A cell is written.                                                      *)
LEMMA PutStep ==
  ASSUME Shape, Exact, NEW c \in Cells, NEW v \in Values, Put(c, v), ~Refused(v, FALSE)
  PROVE  Shape' /\ Exact'
<1> DEFINE need == IF Allocates(v) THEN {1} ELSE {}
<1>1. PICK at \in Places(need) :
        /\ heap' = Deleted(Written(at, <<v>>), Old(c))
        /\ cells' = [cells EXCEPT ![c] = EntryFor(v, IF Allocates(v) THEN at[1] ELSE None)]
  BY DEF Put
<1>2. UNCHANGED <<tasks, running, gone, orphans>>  BY DEF Put
<1>3. /\ at \in [need -> Free] /\ \A i, j \in need : at[i] = at[j] => i = j
  BY PlacesFree
<1> DEFINE block == IF Allocates(v) THEN at[1] ELSE None
           new == EntryFor(v, block)
           slot == <<"cell", c>>
<1>4. block \in Blocks \cup {None} /\ (block # None => Allocates(v) /\ block \in Free)
  BY <1>3 DEF Free
<1>5. Legit(new) /\ new.block = block /\ new.sent = v /\ new \in Entries
  BY <1>4, EntryForLegit DEF Refused, Legit
<1>6. \A b \in Blocks : Written(at, <<v>>)[b] = IF b = block THEN v ELSE heap[b]
  <2> SUFFICES ASSUME NEW b \in Blocks PROVE Written(at, <<v>>)[b] = IF b = block THEN v ELSE heap[b]
    OBVIOUS
  <2>1. \A i \in need : i = 1 /\ <<v>>[i] = v  OBVIOUS
  <2> HIDE DEF need
  <2>2. /\ \A i \in need : at[i] = b => Written(at, <<v>>)[b] = <<v>>[i]
        /\ (\A i \in need : at[i] # b) => Written(at, <<v>>)[b] = heap[b]
    BY <1>3, WrittenAt
  <2>3. Allocates(v) <=> 1 \in need  BY DEF need
  <2>4. b # None  BY NoneAssumption
  <2> QED  BY <2>1, <2>2, <2>3, <2>4
<1>7. \A b \in Blocks : heap'[b] = IF cells[c] # None /\ Frees(cells[c]) /\ cells[c].block = b THEN None
                                   ELSE IF b = block THEN v ELSE heap[b]
  <2> HIDE DEF block
  <2> QED  BY <1>1, <1>6, DeletedAt DEF Old
<1> HIDE DEF need, block, new
<1>8. Shape'
  <2>1. heap' = [b \in Blocks |-> heap'[b]]  BY <1>1 DEF Deleted
  <2>2. heap' \in [Blocks -> Values \cup Callables \cup {None}]  BY <1>7, <2>1 DEF Shape
  <2>3. cells' \in [Cells -> Entries \cup {None}]  BY <1>1, <1>5 DEF Shape, new, block
  <2> QED  BY <1>2, <2>2, <2>3 DEF Shape
<1>9. cells' = [cells EXCEPT ![c] = new] /\ new # None
  BY <1>1, <1>5, NoneAssumption DEF new, block
<1>10. ASSUME NEW s \in Slots, s # slot
       PROVE  (Used(s)' <=> Used(s)) /\ EntryIn(s)' = EntryIn(s)
  BY <1>2, <1>9, <1>10 DEF Slots, Used, EntryIn, Shape
<1>11. slot \in Slots /\ (Used(slot) <=> cells[c] # None) /\ EntryIn(slot) = cells[c]
  BY CellSlot
<1>12. Used(slot)' /\ EntryIn(slot)' = new
  BY <1>9 DEF Used, EntryIn, Shape
<1>13. new.block # None => new.block \in Free /\ heap'[new.block] = v
  <2> SUFFICES ASSUME new.block # None PROVE new.block \in Free /\ heap'[new.block] = v  OBVIOUS
  <2>1. block \in Free  BY <1>4, <1>5
  <2>2. ASSUME cells[c] # None, cells[c].block = block PROVE FALSE
    <3>1. Holds(slot)  BY <1>11, <2>2 DEF Exact
    <3>2. heap[block] = cells[c].sent /\ cells[c] \in Entries
      BY <1>5, <1>11, <2>2, <3>1 DEF Holds, Legit
    <3> QED  BY <2>1, <3>2, NoneAssumption DEF Free, Entries
  <2> QED  BY <1>5, <1>7, <2>1, <2>2 DEF Free
<1>14. Holds(slot)'
  BY <1>5, <1>12, <1>13 DEF Holds
<1> DEFINE dying == {slot}  fresh == {slot}
<1> HIDE DEF slot
<1>15. \A b \in Blocks : heap[b] # None =>
         heap'[b] = IF \E s \in Slots : s \in dying /\ Used(s) /\ Frees(EntryIn(s)) /\ EntryIn(s).block = b
                      THEN None ELSE heap[b]
  <2> SUFFICES ASSUME NEW b \in Blocks, heap[b] # None
               PROVE heap'[b] = IF cells[c] # None /\ Frees(cells[c]) /\ cells[c].block = b THEN None
                                ELSE heap[b]
    BY <1>11
  <2>1. b # block  BY <1>4, NoneAssumption DEF Free
  <2> QED  BY <1>7, <2>1
<1>16. \A b \in Blocks : heap[b] = None /\ heap'[b] # None => \E s \in fresh : EntryIn(s)'.block = b
  BY <1>5, <1>7, <1>12
<1>17. /\ fresh \subseteq Slots
       /\ \A s \in fresh : Used(s)' /\ Holds(s)' /\ (EntryIn(s)'.block # None => EntryIn(s)'.block \in Free)
       /\ \A r, s \in fresh : Share(r, s)' => r = s
  BY <1>11, <1>12, <1>13, <1>14
<1>18. \A s \in Slots : s \notin fresh => (Used(s)' <=> Used(s)) /\ EntryIn(s)' = EntryIn(s)
  BY <1>10
<1>19. \A s \in Slots : s \in dying <=> s \in fresh  OBVIOUS
<1> HIDE DEF dying, fresh
<1>20. SlotsChange(dying, fresh)
  BY <1>2, <1>17, <1>18, <1>19 DEF SlotsChange, Fills
<1>21. BlocksChange(dying, fresh)
  BY <1>2, <1>15, <1>16 DEF BlocksChange
<1>22. Exact'  BY <1>20, <1>21, SlotStep
<1> QED  BY <1>8, <1>22
-----------------------------------------------------------------------------
(* A set of numbers has a least one.                                       *)
LEMMA LeastNumber ==
  ASSUME NEW T, T \subseteq Nat, T # {}
  PROVE  \E m \in T : \A k \in T : m <= k
<1> DEFINE R == {ss \in Nat \X Nat : ss[1] < ss[2]}
<1>1. IsWellFoundedOn(R, Nat)  BY NatLessThanWellFounded DEF OpToRel
<1>2. PICK m \in T : \A k \in T : ~(<<k, m>> \in R)
  <2> HIDE DEF R
  <2> QED  BY <1>1, WFMin
<1>3. ASSUME NEW k \in T PROVE m <= k
  <2>1. k \in Nat /\ m \in Nat  OBVIOUS
  <2>2. k < m => <<k, m>> \in R  BY <2>1
  <2> QED  BY <1>2, <2>1, <2>2
<1> QED  BY <1>3

(* addFunctionTask: the values it converts, up to the first that is        *)
(* refused, none of which is a resource.                                   *)
Bad(vs) == {i \in 2..Len(vs) : Refused(vs[i], Refused(vs[1], FALSE))}
Count(vs) == IF Bad(vs) = {} THEN Len(vs) ELSE (CHOOSE i \in Bad(vs) : \A j \in Bad(vs) : i <= j) - 1
Need(vs) == {i \in 1..Count(vs) : Allocates(vs[i]) /\ (i = 1 => ~Refused(vs[1], FALSE))}
Made(vs, at) == [i \in 1..Count(vs) |-> EntryFor(vs[i], IF i \in Need(vs) THEN at[i] ELSE None)]
IsCall(vs) == /\ vs \in Seq(Values \cup Callables) /\ Len(vs) \in 1..MaxArgs + 1
              /\ vs[1] \in Callables /\ \A i \in 2..Len(vs) : vs[i] \in Values
(* What is converted is no resource, and what allocates is among it.       *)
LEMMA CallConverts ==
  ASSUME NEW vs, IsCall(vs)
  PROVE  /\ Count(vs) \in 1..Len(vs) /\ (Bad(vs) = {} => Count(vs) = Len(vs))
         /\ \A i \in 1..Count(vs) : vs[i] \in Values \cup Callables /\ vs[i].type # "resource"
         /\ Need(vs) \subseteq Int /\ \A i \in Need(vs) : Allocates(vs[i]) /\ i \in 1..Count(vs)
<1>1. Len(vs) \in Nat \ {0}  BY BlocksAssumption DEF IsCall
<1>2. Count(vs) \in 1..Len(vs) /\ \A i \in 2..Count(vs) : i \notin Bad(vs)
  <2>1. CASE Bad(vs) = {}  BY <1>1, <2>1 DEF Count
  <2>2. CASE Bad(vs) # {}
    <3>1. Bad(vs) \subseteq 2..Len(vs) /\ Bad(vs) \subseteq Nat
      <4>1. \A i \in Bad(vs) : i \in 2..Len(vs)  BY DEF Bad
      <4>2. \A i \in 2..Len(vs) : i \in Nat  BY <1>1
      <4> QED  BY <4>1, <4>2
    <3> DEFINE first == CHOOSE i \in Bad(vs) : \A j \in Bad(vs) : i <= j
    <3>2. \E i \in Bad(vs) : \A j \in Bad(vs) : i <= j  BY <2>2, <3>1, LeastNumber
    <3>3. first \in Bad(vs) /\ \A j \in Bad(vs) : first <= j  BY <3>2
    <3>4. Count(vs) = first - 1  BY <2>2 DEF Count
    <3> HIDE DEF first
    <3> QED  BY <1>1, <3>1, <3>3, <3>4
  <2> QED  BY <2>1, <2>2
<1>3. ASSUME NEW i \in 1..Count(vs) PROVE vs[i] \in Values \cup Callables /\ vs[i].type # "resource"
  <2>1. i \in 1..Len(vs)  BY <1>1, <1>2
  <2>2. CASE i = 1  BY <2>1, <2>2, ValuesAssumption DEF IsCall
  <2>3. CASE i # 1
    <3>1. i \in 2..Len(vs) /\ i \notin Bad(vs)  BY <1>1, <1>2, <2>1, <2>3
    <3> QED  BY <2>1, <3>1 DEF Bad, Refused, IsCall
  <2> QED  BY <2>2, <2>3
<1>4. Need(vs) \subseteq Int /\ \A i \in Need(vs) : Allocates(vs[i]) /\ i \in 1..Count(vs)
  <2>1. \A i \in Need(vs) : Allocates(vs[i]) /\ i \in 1..Count(vs)  BY DEF Need
  <2>2. \A i \in 1..Count(vs) : i \in Int  OBVIOUS
  <2> QED  BY <2>1, <2>2
<1>5. Bad(vs) = {} => Count(vs) = Len(vs)  BY DEF Count
<1> QED  BY <1>2, <1>3, <1>4, <1>5

(* What addFunctionTask does, and the entries it makes.                    *)
LEMMA AddShape ==
  ASSUME NEW vs, IsCall(vs), AddFunctionTask(vs)
  PROVE  \E at \in Places(Need(vs)) :
           /\ heap' = Deleted(Written(at, vs), Undone(Made(vs, at), Bad(vs)))
           /\ tasks' = IF Bad(vs) = {} THEN Append(tasks, Made(vs, at)) ELSE tasks
           /\ orphans' = IF Bad(vs) # {} /\ 1 \in Need(vs) THEN orphans \cup {at[1]} ELSE orphans
BY DEF AddFunctionTask, Bad, Count, Need, Made
(* The entries made stand for the values and have their own blocks.        *)
LEMMA MadeLegit ==
  ASSUME NEW vs, IsCall(vs), NEW at \in Places(Need(vs))
  PROVE  /\ Made(vs, at) \in Seq(Entries) /\ Len(Made(vs, at)) = Count(vs)
         /\ \A i \in 1..Count(vs) :
              /\ Legit(Made(vs, at)[i]) /\ Made(vs, at)[i].sent = vs[i]
              /\ Made(vs, at)[i].block = IF i \in Need(vs) THEN at[i] ELSE None
<1>1. /\ Count(vs) \in 1..Len(vs)
      /\ \A i \in 1..Count(vs) : vs[i] \in Values \cup Callables /\ vs[i].type # "resource"
      /\ Need(vs) \subseteq Int /\ \A i \in Need(vs) : Allocates(vs[i])
  BY CallConverts
<1>2. at \in [Need(vs) -> Free]  BY <1>1, PlacesFree
<1>3. ASSUME NEW i \in 1..Count(vs)
      PROVE  /\ Legit(Made(vs, at)[i]) /\ Made(vs, at)[i].sent = vs[i]
             /\ Made(vs, at)[i].block = IF i \in Need(vs) THEN at[i] ELSE None
  <2> DEFINE b == IF i \in Need(vs) THEN at[i] ELSE None
  <2>1. b \in Blocks \cup {None} /\ (b # None => Allocates(vs[i]))  BY <1>1, <1>2 DEF Free
  <2>2. Made(vs, at)[i] = EntryFor(vs[i], b)  BY DEF Made
  <2> HIDE DEF b
  <2>3. Legit(EntryFor(vs[i], b)) /\ EntryFor(vs[i], b).block = b /\ EntryFor(vs[i], b).sent = vs[i]
    BY <1>1, <2>1, EntryForLegit
  <2> QED  BY <2>2, <2>3 DEF b
<1>4. Made(vs, at) \in Seq(Entries) /\ Len(Made(vs, at)) = Count(vs)
  <2>1. Made(vs, at) \in [1..Count(vs) -> Entries]
    <3>1. \A i \in 1..Count(vs) : Made(vs, at)[i] \in Entries  BY <1>3 DEF Legit
    <3> QED  BY <3>1 DEF Made
  <2>2. Count(vs) \in Nat  BY <1>1 DEF IsCall
  <2> QED  BY <2>1, <2>2
<1> QED  BY <1>3, <1>4

(* addFunctionTask.                                                        *)
LEMMA AddStep ==
  ASSUME Shape, Exact, NEW vs, IsCall(vs), AddFunctionTask(vs)
  PROVE  Shape' /\ Exact'
<1> DEFINE N == Count(vs)
<1>1. PICK at \in Places(Need(vs)) :
        /\ heap' = Deleted(Written(at, vs), Undone(Made(vs, at), Bad(vs)))
        /\ tasks' = IF Bad(vs) = {} THEN Append(tasks, Made(vs, at)) ELSE tasks
        /\ orphans' = IF Bad(vs) # {} /\ 1 \in Need(vs) THEN orphans \cup {at[1]} ELSE orphans
  BY AddShape
<1> DEFINE es == Made(vs, at)
<1>2. UNCHANGED <<running, cells, gone>> /\ Len(tasks) < MaxTasks  BY DEF AddFunctionTask
<1>3. /\ N \in 1..Len(vs) /\ Need(vs) \subseteq Int
      /\ \A i \in Need(vs) : Allocates(vs[i]) /\ i \in 1..N
      /\ \A i \in 1..N : vs[i] \in Values \cup Callables
  BY CallConverts
<1>4. /\ at \in [Need(vs) -> Free] /\ \A i, j \in Need(vs) : at[i] = at[j] => i = j
  BY <1>3, PlacesFree
<1>5. /\ es \in Seq(Entries) /\ Len(es) = N
      /\ \A i \in 1..N : /\ Legit(es[i]) /\ es[i].sent = vs[i]
                         /\ es[i].block = IF i \in Need(vs) THEN at[i] ELSE None
  BY MadeLegit
<1>6. N \in 1..MaxArgs + 1
  <2>1. Len(vs) \in 1..MaxArgs + 1 /\ MaxArgs \in Nat  BY BlocksAssumption DEF IsCall
  <2> QED  BY <1>3, <2>1
<1> HIDE DEF N, es
<1>7. \A e \in Undone(es, Bad(vs)) : \E i \in 1..N : e = es[i] /\ i >= 2 /\ Bad(vs) # {}
  BY <1>3, <1>5, <1>6 DEF Undone
<1>8. heap' = Deleted(Written(at, vs), Undone(es, Bad(vs)))  BY <1>1 DEF es
<1>9. ASSUME NEW b \in Blocks, heap[b] # None PROVE heap'[b] = heap[b]
  <2>1. b \notin Free  BY <1>9 DEF Free
  <2>2. Written(at, vs)[b] = heap[b]  BY <1>4, <2>1, WrittenAt
  <2>3. \A e \in Undone(es, Bad(vs)) : e.block # b
    BY <1>4, <1>5, <1>7, <2>1, NoneAssumption
  <2> QED  BY <1>8, <2>2, <2>3, DeletedAt
<1>10. ASSUME NEW i \in Need(vs)
       PROVE  heap'[at[i]] = IF \E e \in Undone(es, Bad(vs)) : Frees(e) /\ e.block = at[i] THEN None ELSE vs[i]
  <2>1. at[i] \in Blocks  BY <1>4 DEF Free
  <2>2. Written(at, vs)[at[i]] = vs[i]  BY <1>4, <2>1, WrittenAt
  <2> QED  BY <1>8, <2>1, <2>2, DeletedAt
<1>11. ASSUME NEW b \in Blocks, heap[b] = None, heap'[b] # None
       PROVE  \E i \in Need(vs) : b = at[i] /\ heap'[b] = vs[i]
  <2>1. Written(at, vs)[b] # None  BY <1>8, <1>11, DeletedAt
  <2>2. PICK i \in Need(vs) : b = at[i]  BY <1>4, <1>11, <2>1, WrittenAt
  <2> QED  BY <1>10, <1>11, <2>2
<1>12. heap' \in [Blocks -> Values \cup Callables \cup {None}]
  <2>1. heap' = [b \in Blocks |-> heap'[b]]  BY <1>8 DEF Deleted
  <2>2. ASSUME NEW b \in Blocks PROVE heap'[b] \in Values \cup Callables \cup {None}
    BY <1>3, <1>9, <1>11 DEF Shape
  <2> QED  BY <2>1, <2>2
<1>13. CASE Bad(vs) = {}
  <2>1. tasks' = Append(tasks, es) /\ orphans' = orphans /\ N = Len(vs)
    BY <1>1, <1>13, CallConverts DEF es, N
  <2>2. es \in Task  BY <1>5, <1>6 DEF Task
  <2>3. tasks \in Seq(Task) /\ Len(tasks) \in Nat  BY DEF Shape
  <2>4. /\ tasks' \in Seq(Task) /\ Len(tasks') = Len(tasks) + 1
        /\ \A i \in 1..Len(tasks) : tasks'[i] = tasks[i]
        /\ tasks'[Len(tasks) + 1] = es
    BY <2>1, <2>2, <2>3, AppendProperties
  <2>5. Shape'
    <3>1. Len(tasks') <= MaxTasks  BY <1>2, <2>3, <2>4, BlocksAssumption
    <3> QED  BY <1>2, <1>12, <2>1, <2>4, <3>1 DEF Shape
  <2>0. PICK k \in Nat : k = Len(tasks) + 1  BY <2>3
  <2> DEFINE fresh == {<<"task", k, j>> : j \in 1..N}
  <2>6. k \in 1..MaxTasks /\ k \in 1..Len(tasks') /\ k \notin 1..Len(tasks)
        /\ \A i \in 1..Len(tasks') : i = k \/ i \in 1..Len(tasks)
    BY <1>2, <2>0, <2>3, <2>4, BlocksAssumption
  <2>7. ASSUME NEW j \in 1..N
        PROVE  /\ <<"task", k, j>> \in Slots /\ Used(<<"task", k, j>>)' /\ ~Used(<<"task", k, j>>)
               /\ EntryIn(<<"task", k, j>>)' = es[j]
    <3>1. j \in 1..MaxArgs + 1  BY <1>6, BlocksAssumption
    <3>2. (Shape => /\ Used(<<"task", k, j>>) <=> k \in 1..Len(tasks) /\ j \in 1..Len(tasks[k])
                    /\ EntryIn(<<"task", k, j>>) = tasks[k][j])
      BY TaskSlot
    <3>3. <<"task", k, j>> \in Slots  BY <2>6, <3>1, TaskSlot
    <3>4. /\ DOMAIN tasks' = 1..Len(tasks') /\ DOMAIN es = 1..N /\ tasks'[k] = es
      BY <1>5, <2>0, <2>4
    <3>5. Used(<<"task", k, j>>)'  BY <2>6, <3>4 DEF Used
    <3>6. EntryIn(<<"task", k, j>>)' = es[j]  BY <3>4 DEF EntryIn
    <3> QED  BY <2>6, <3>2, <3>3, <3>5, <3>6
  <2>8. ASSUME NEW s \in Slots, s \notin fresh
        PROVE  (Used(s)' <=> Used(s)) /\ (Used(s) => EntryIn(s)' = EntryIn(s))
    <3>1. CASE \E i \in 1..MaxTasks, j \in 1..MaxArgs + 1 : s = <<"task", i, j>>
      <4>1. PICK i \in 1..MaxTasks, j \in 1..MaxArgs + 1 : s = <<"task", i, j>>  BY <3>1
      <4>2. /\ DOMAIN tasks' = 1..Len(tasks') /\ DOMAIN tasks = 1..Len(tasks)
            /\ DOMAIN es = 1..N /\ tasks'[k] = es
        BY <1>5, <2>0, <2>3, <2>4
      <4>3. i = k => j \notin DOMAIN es  BY <2>8, <4>1, <4>2
      <4>4. i \in 1..Len(tasks) => tasks'[i] = tasks[i]  BY <2>4
      <4>5. i \in DOMAIN tasks' /\ j \in DOMAIN tasks'[i] <=> i \in DOMAIN tasks /\ j \in DOMAIN tasks[i]
        <5>1. CASE i = k  BY <2>6, <4>2, <4>3, <5>1
        <5>2. CASE i # k  BY <2>6, <4>2, <4>4, <5>2
        <5> QED  BY <5>1, <5>2
      <4>6. Used(s)' <=> Used(s)  BY <4>1, <4>5 DEF Used
      <4>7. Used(s) => i \in 1..Len(tasks)  BY <4>1, <4>2 DEF Used
      <4>8. Used(s) => EntryIn(s)' = EntryIn(s)  BY <4>1, <4>4, <4>7 DEF EntryIn
      <4> QED  BY <4>6, <4>8
    <3>2. CASE ~\E i \in 1..MaxTasks, j \in 1..MaxArgs + 1 : s = <<"task", i, j>>
      BY <1>2, <3>2, SlotKinds DEF Used, EntryIn
    <3> QED  BY <3>1, <3>2
  <2>9. ASSUME NEW s \in fresh PROVE Fills(s)
    <3>1. PICK j \in 1..N : s = <<"task", k, j>>  OBVIOUS
    <3>2. Used(s)' /\ EntryIn(s)' = es[j]  BY <2>7, <3>1
    <3>3. j \in Need(vs) => heap'[at[j]] = vs[j]  BY <1>7, <1>10, <1>13
    <3>4. es[j].block # None => j \in Need(vs) /\ es[j].block = at[j]  BY <1>5
    <3>5. es[j].block # None => es[j].block \in Free  BY <1>4, <3>4
    <3> QED  BY <1>5, <3>2, <3>3, <3>4, <3>5 DEF Fills, Holds
  <2>10. ASSUME NEW r \in fresh, NEW s \in fresh, Share(r, s)' PROVE r = s
    <3>1. PICK i \in 1..N : r = <<"task", k, i>>  OBVIOUS
    <3>2. PICK j \in 1..N : s = <<"task", k, j>>  OBVIOUS
    <3>3. EntryIn(r)' = es[i] /\ EntryIn(s)' = es[j]  BY <2>7, <3>1, <3>2
    <3>4. es[i].block = es[j].block /\ es[j].block # None  BY <2>10, <3>3 DEF Share
    <3>5. i = j  BY <1>4, <1>5, <3>4
    <3> QED  BY <3>1, <3>2, <3>5
  <2>11. SlotsChange({}, fresh)
    <3>1. \A s \in fresh : s \in Slots /\ ~Used(s)  BY <2>7
    <3> HIDE DEF fresh
    <3> QED  BY <2>1, <2>8, <2>9, <2>10, <3>1 DEF SlotsChange
  <2>12. BlocksChange({}, fresh)
    <3>1. ASSUME NEW b \in Blocks, heap[b] = None, heap'[b] # None
          PROVE  \E s \in fresh : EntryIn(s)'.block = b
      <4>1. PICK i \in Need(vs) : b = at[i]  BY <1>11, <3>1
      <4>2. i \in 1..N /\ es[i].block = b  BY <1>3, <1>5, <4>1
      <4> QED  BY <2>7, <4>2
    <3> HIDE DEF fresh
    <3> QED  BY <1>9, <3>1 DEF BlocksChange
  <2> HIDE DEF fresh
  <2> QED  BY <2>5, <2>11, <2>12, SlotStep
<1>14. CASE Bad(vs) # {}
  <2>1. /\ tasks' = tasks
        /\ orphans' = IF 1 \in Need(vs) THEN orphans \cup {at[1]} ELSE orphans
    BY <1>1, <1>14
  <2>2. orphans' \subseteq Blocks  BY <1>4, <2>1 DEF Shape, Free
  <2>3. Shape'  BY <1>2, <1>12, <2>1, <2>2 DEF Shape
  <2>4. ASSUME NEW s \in Slots PROVE (Used(s)' <=> Used(s)) /\ EntryIn(s)' = EntryIn(s)
    BY <1>2, <2>1 DEF Used, EntryIn
  <2>5. SlotsChange({}, {})  BY <2>1, <2>4 DEF SlotsChange
  <2>6. ASSUME NEW b \in Blocks, heap[b] = None, heap'[b] # None
        PROVE  heap'[b].type = "object" \/ b \in orphans'
    <3>1. PICK i \in Need(vs) : b = at[i] /\ heap'[b] = vs[i]  BY <1>11, <2>6
    <3>2. CASE i = 1  BY <2>1, <3>1, <3>2
    <3>3. CASE i # 1
      <4>1. i \in 1..N /\ i \in 2..N  BY <1>3, <3>1, <3>3
      <4>2. es[i] \in Undone(es, Bad(vs))  BY <1>5, <1>14, <4>1 DEF Undone
      <4>3. ~Frees(es[i])
        <5>1. es[i].block = at[i]  BY <1>5, <4>1
        <5> QED  BY <1>10, <2>6, <3>1, <4>2, <5>1
      <4>4. Legit(es[i]) /\ es[i].sent = vs[i] /\ es[i].block = b /\ b # None
        BY <1>5, <3>1, <4>1, NoneAssumption
      <4> QED  BY <3>1, <4>3, <4>4 DEF Legit, Frees, Allocates
    <3> QED  BY <3>2, <3>3
  <2>7. BlocksChange({}, {})  BY <1>9, <2>6 DEF BlocksChange
  <2> QED  BY <2>3, <2>5, <2>7, SlotStep
<1> QED  BY <1>13, <1>14

(* handle_function_task: each task but the first moves up, the first is    *)
(* the one that runs.                                                      *)
LEMMA HandleStep ==
  ASSUME Shape, Exact, HandleFunctionTask
  PROVE  Shape' /\ Exact'
<1>1. /\ running = <<>> /\ tasks # <<>> /\ running' = Head(tasks) /\ tasks' = Tail(tasks)
      /\ UNCHANGED <<heap, cells, gone, orphans>>
  BY DEF HandleFunctionTask
<1>2. /\ tasks \in Seq(Task) /\ Len(tasks) \in Nat \ {0} /\ Head(tasks) = tasks[1] /\ tasks[1] \in Task
      /\ Tail(tasks) \in Seq(Task) /\ Len(Tail(tasks)) = Len(tasks) - 1
      /\ \A i \in 1..Len(tasks) - 1 : Tail(tasks)[i] = tasks[i + 1]
  BY <1>1, HeadTailProperties DEF Shape
<1>3. Shape'
  <2>1. Len(tasks') <= MaxTasks  BY <1>1, <1>2, BlocksAssumption DEF Shape
  <2> QED  BY <1>1, <1>2, <2>1 DEF Shape
<1>4. /\ \A i : i \in DOMAIN tasks' <=> i \in 1..Len(tasks) - 1
      /\ \A i : i \in DOMAIN tasks <=> i \in 1..Len(tasks)
      /\ \A i \in 1..Len(tasks) - 1 : tasks'[i] = tasks[i + 1]
      /\ DOMAIN running = {} /\ running' = tasks[1]
  BY <1>1, <1>2
<1> DEFINE From(s) == IF s[1] = "task" THEN <<"task", s[2] + 1, s[3]>>
                      ELSE IF s[1] = "run" THEN <<"task", 1, s[2]>> ELSE s
(* The slot that an entry comes from.                                      *)
<1>5. ASSUME NEW s \in Slots, Used(s)'
      PROVE  From(s) \in Slots /\ Used(From(s)) /\ EntryIn(s)' = EntryIn(From(s))
  <2>1. CASE \E i \in 1..MaxTasks, j \in 1..MaxArgs + 1 : s = <<"task", i, j>>
    <3>1. PICK i \in 1..MaxTasks, j \in 1..MaxArgs + 1 : s = <<"task", i, j>>  BY <2>1
    <3>2. i \in DOMAIN tasks' /\ j \in DOMAIN tasks'[i] /\ EntryIn(s)' = tasks'[i][j]
      BY <1>5, <3>1 DEF Used, EntryIn
    <3>3. i \in 1..Len(tasks) - 1 /\ tasks'[i] = tasks[i + 1] /\ i + 1 \in 1..Len(tasks)
      BY <1>2, <1>4, <3>2
    <3>4. i + 1 \in 1..MaxTasks  BY <1>2, <3>3, BlocksAssumption DEF Shape
    <3>5. From(s) = <<"task", i + 1, j>>  BY <3>1
    <3>6. <<"task", i + 1, j>> \in Slots  BY <3>4 DEF Slots
    <3>7. Used(<<"task", i + 1, j>>) /\ EntryIn(<<"task", i + 1, j>>) = tasks[i + 1][j]
      BY <1>4, <3>2, <3>3 DEF Used, EntryIn
    <3> HIDE DEF From
    <3> QED  BY <3>2, <3>3, <3>5, <3>6, <3>7
  <2>2. CASE \E j \in 1..MaxArgs + 1 : s = <<"run", j>>
    <3>1. PICK j \in 1..MaxArgs + 1 : s = <<"run", j>>  BY <2>2
    <3>2. j \in DOMAIN tasks[1] /\ EntryIn(s)' = tasks[1][j]
      BY <1>4, <1>5, <3>1 DEF Used, EntryIn
    <3>3. 1 \in DOMAIN tasks /\ 1 \in 1..MaxTasks  BY <1>2, <1>4, BlocksAssumption DEF Shape
    <3>4. From(s) = <<"task", 1, j>>  BY <3>1
    <3>5. <<"task", 1, j>> \in Slots  BY <3>3 DEF Slots
    <3>6. Used(<<"task", 1, j>>) /\ EntryIn(<<"task", 1, j>>) = tasks[1][j]
      BY <3>2, <3>3 DEF Used, EntryIn
    <3> HIDE DEF From
    <3> QED  BY <3>2, <3>4, <3>5, <3>6
  <2>3. CASE \E c \in Cells : s = <<"cell", c>>
    <3>1. From(s) = s  BY <2>3
    <3>2. Used(s) /\ EntryIn(s)' = EntryIn(s)  BY <1>1, <1>5, <2>3 DEF Used, EntryIn
    <3> HIDE DEF From
    <3> QED  BY <3>1, <3>2
  <2> QED  BY <2>1, <2>2, <2>3, SlotKinds
<1>6. ASSUME NEW r \in Slots, NEW s \in Slots, From(r) = From(s) PROVE r = s
  <2>1. ASSUME NEW x \in Slots
        PROVE  \/ \E i \in Nat \ {0}, j \in Nat : x = <<"task", i, j>> /\ From(x) = <<"task", i + 1, j>>
               \/ \E j \in Nat : x = <<"run", j>> /\ From(x) = <<"task", 1, j>>
               \/ \E c \in Cells : x = <<"cell", c>> /\ From(x) = <<"cell", c>>
    <3>1. \A j \in 1..MaxArgs + 1 : j \in Nat  BY BlocksAssumption
    <3>2. \A i \in 1..MaxTasks : i \in Nat \ {0}  BY BlocksAssumption
    <3> QED  BY <3>1, <3>2, SlotKinds
  <2> HIDE DEF From
  <2>2. \A i \in Nat \ {0} : i + 1 # 1  OBVIOUS
  <2>3. \A i, j \in Nat : i + 1 = j + 1 => i = j  OBVIOUS
  <2> QED  BY <1>6, <2>1, <2>2, <2>3
<1>7. ASSUME NEW s \in Slots, Used(s) PROVE \E r \in Slots : Used(r)' /\ From(r) = s
  <2>1. CASE \E i \in 1..MaxTasks, j \in 1..MaxArgs + 1 : s = <<"task", i, j>>
    <3>1. PICK i \in 1..MaxTasks, j \in 1..MaxArgs + 1 : s = <<"task", i, j>>  BY <2>1
    <3>2. i \in 1..Len(tasks) /\ j \in DOMAIN tasks[i]  BY <1>4, <1>7, <3>1 DEF Used
    <3>3. CASE i = 1
      <4>1. <<"run", j>> \in Slots  BY DEF Slots
      <4>2. Used(<<"run", j>>)'  BY <1>4, <3>2, <3>3 DEF Used
      <4>3. From(<<"run", j>>) = s  BY <3>1, <3>3
      <4> QED  BY <4>1, <4>2, <4>3
    <3>4. CASE i # 1
      <4>1. PICK k \in Nat : k = i - 1  BY <1>2, <3>2, <3>4
      <4>2. k \in 1..Len(tasks) - 1 /\ k \in 1..MaxTasks /\ k + 1 = i
        BY <1>2, <3>2, <3>4, <4>1, BlocksAssumption
      <4>3. <<"task", k, j>> \in Slots  BY <4>2 DEF Slots
      <4>4. k \in DOMAIN tasks' /\ tasks'[k] = tasks[i]  BY <1>4, <4>2
      <4>5. Used(<<"task", k, j>>)'  BY <3>2, <4>4 DEF Used
      <4>6. From(<<"task", k, j>>) = s  BY <3>1, <4>2
      <4> QED  BY <4>3, <4>5, <4>6
    <3> QED  BY <3>3, <3>4
  <2>2. CASE \E j \in 1..MaxArgs + 1 : s = <<"run", j>>
    BY <1>4, <1>7, <2>2 DEF Used
  <2>3. CASE \E c \in Cells : s = <<"cell", c>>
    <3>1. From(s) = s  BY <2>3
    <3>2. Used(s)'  BY <1>1, <1>7, <2>3 DEF Used
    <3> QED  BY <3>1, <3>2
  <2> QED  BY <2>1, <2>2, <2>3, SlotKinds
<1> HIDE DEF From
<1>8. \A s \in Slots : Used(s)' => Holds(s)'
  BY <1>1, <1>5 DEF Exact, Holds
<1>9. \A r, s \in Slots : Used(r)' /\ Used(s)' /\ Share(r, s)' => r = s
  <2> SUFFICES ASSUME NEW r \in Slots, NEW s \in Slots, Used(r)', Used(s)', Share(r, s)' PROVE r = s
    OBVIOUS
  <2>1. From(r) = From(s)  BY <1>5 DEF Exact, Share
  <2> QED  BY <1>6, <2>1
<1>10. \A b \in Blocks : Owned(b) => Owned(b)'
  <2> SUFFICES ASSUME NEW b \in Blocks, NEW s \in Slots, Used(s), EntryIn(s).block = b PROVE Owned(b)'
    BY DEF Owned
  <2>1. PICK r \in Slots : Used(r)' /\ From(r) = s  BY <1>7
  <2>2. EntryIn(r)' = EntryIn(s)  BY <1>5, <2>1
  <2> QED  BY <2>1, <2>2 DEF Owned
<1>11. Exact'  BY <1>1, <1>8, <1>9, <1>10 DEF Exact
<1> QED  BY <1>3, <1>11
-----------------------------------------------------------------------------
(* The calls of Next.                                                      *)
LEMMA NextCalls ==
  ASSUME NEW fn \in Callables, NEW args \in Arguments
  PROVE  IsCall(<<fn>> \o args)
<1>1. PICK n \in 0..MaxArgs : args \in [1..n -> Values]  BY DEF Arguments
<1>2. n \in Nat /\ MaxArgs \in Nat  BY BlocksAssumption
<1>3. args \in Seq(Values \cup Callables) /\ Len(args) = n /\ \A i \in 1..n : args[i] \in Values
  BY <1>1, <1>2
<1> DEFINE vs == <<fn>> \o args
<1>4. /\ vs \in Seq(Values \cup Callables) /\ Len(vs) = Len(<<fn>>) + Len(args)
      /\ \A i \in 1..Len(<<fn>>) + Len(args) :
           vs[i] = IF i <= Len(<<fn>>) THEN <<fn>>[i] ELSE args[i - Len(<<fn>>)]
  <2>1. <<fn>> \in Seq(Values \cup Callables)  OBVIOUS
  <2> QED  BY <1>3, <2>1, ConcatProperties
<1>5. Len(<<fn>>) = 1 /\ <<fn>>[1] = fn  OBVIOUS
<1> HIDE DEF vs
<1>6. Len(vs) = n + 1 /\ \A i \in 1..n + 1 : vs[i] = IF i <= 1 THEN <<fn>>[i] ELSE args[i - 1]
  BY <1>2, <1>3, <1>4, <1>5
<1>7. vs[1] = fn  BY <1>2, <1>5, <1>6
<1>8. ASSUME NEW i \in 2..n + 1 PROVE vs[i] \in Values
  <2>1. vs[i] = args[i - 1] /\ i - 1 \in 1..n  BY <1>2, <1>6
  <2> QED  BY <1>3, <2>1
<1>9. Len(vs) \in 1..MaxArgs + 1  BY <1>1, <1>2, <1>6
<1>10. IsCall(vs)  BY <1>4, <1>6, <1>7, <1>8, <1>9 DEF IsCall
<1> QED  BY <1>10 DEF vs

(* A step that leaves the heap and the places of entries alone.            *)
LEMMA StillStep ==
  ASSUME Shape, Exact, UNCHANGED <<heap, tasks, running, cells, orphans>>,
         gone' \subseteq Values \cup Callables
  PROVE  Shape' /\ Exact'
<1>1. \A s : (Used(s)' <=> Used(s)) /\ EntryIn(s)' = EntryIn(s)  BY DEF Used, EntryIn
<1>2. Exact'  BY <1>1 DEF Exact, Holds, Share, Owned
<1> QED  BY <1>2 DEF Shape

(* Spec keeps the shape of the variables and the owners of blocks.         *)
LEMMA OwnersInvariant == Spec => [](Shape /\ Exact)
<1>1. Init => Shape /\ Exact
  <2> SUFFICES ASSUME Init PROVE Shape /\ Exact  OBVIOUS
  <2>1. Shape  BY BlocksAssumption DEF Init, Shape
  <2>2. \A s \in Slots : ~Used(s)  BY DEF Init, Used, Slots
  <2>3. \A b \in Blocks : heap[b] = None  BY DEF Init
  <2> QED  BY <2>1, <2>2, <2>3 DEF Exact
<1>2. Shape /\ Exact /\ [Next]_vars => Shape' /\ Exact'
  <2> SUFFICES ASSUME Shape, Exact, [Next]_vars PROVE Shape' /\ Exact'  OBVIOUS
  <2>1. ASSUME NEW fn \in Callables, NEW args \in Arguments, AddFunctionTask(<<fn>> \o args)
        PROVE  Shape' /\ Exact'
    BY <2>1, NextCalls, AddStep
  <2>2. ASSUME NEW v \in Values \cup Callables, DropClosure(v) PROVE Shape' /\ Exact'
    BY <2>2, StillStep DEF DropClosure, Shape
  <2>3. ASSUME NEW c \in Cells, Get(c) \/ Remove(c) PROVE Shape' /\ Exact'
    BY <2>3, StillStep, RemoveStep DEF Get, Shape
  <2>4. ASSUME NEW c \in Cells, NEW v \in Values, Put(c, v) PROVE Shape' /\ Exact'
    BY <2>4, StillStep, PutStep DEF Put, Shape
  <2>5. CASE UNCHANGED vars
    BY <2>5, StillStep DEF vars, Shape
  <2> QED  BY <2>1, <2>2, <2>3, <2>4, <2>5, HandleStep, TaskDeleteStep DEF Next
<1> QED  BY <1>1, <1>2, PTL DEF Spec

(* Every block has one owner, which finds in it what was written, and none *)
(* is left behind but those of objects and of callables of refused calls.  *)
THEOREM ConversionBlocks == Spec => []BlocksExact
<1>1. Shape /\ Exact => BlocksExact
  <2> SUFFICES ASSUME Shape, Exact PROVE BlocksExact  OBVIOUS
  <2>1. TypeOK
    <3>1. \A i \in DOMAIN tasks : tasks[i] \in Seq(Entries)  BY DEF Shape, Task
    <3>2. <<>> \in Seq(Entries)  OBVIOUS
    <3>3. running \in Seq(Entries)  BY <3>2 DEF Shape, Task
    <3> QED  BY <3>1, <3>3 DEF Shape, TypeOK
  <2>2. ASSUME NEW b \in Blocks, NEW s \in Owners(b)
        PROVE  heap[b] = EntryIn(s).sent /\ Owners(b) = {s}
    <3>1. s \in Slots /\ Used(s) /\ EntryIn(s).block = b /\ b # None  BY <2>2, NoneAssumption DEF Owners
    <3>2. heap[b] = EntryIn(s).sent  BY <3>1 DEF Exact, Holds
    <3>3. \A r \in Owners(b) : r = s  BY <3>1 DEF Exact, Share, Owners
    <3> QED  BY <3>2, <3>3
  <2>3. ASSUME NEW b \in Blocks, heap[b] # None
        PROVE  Owners(b) # {} \/ heap[b].type = "object" \/ b \in orphans
    BY <2>3 DEF Exact, Owned, Owners
  <2> QED  BY <2>1, <2>2, <2>3 DEF BlocksExact
<1> QED  BY <1>1, OwnersInvariant, PTL
-----------------------------------------------------------------------------
(* The int of an entry: what fits comes back, and what does not comes back *)
(* with the same low bits.                                                 *)
LEMMA IntConversion ==
  ASSUME NEW n \in Int
  PROVE  /\ ToInt(n) \in Int /\ Fits(ToInt(n)) /\ (Fits(n) => ToInt(n) = n)
         /\ (ToInt(n) - n) % IntValues = 0
<1> DEFINE M == IntValues  H == IntValues \div 2  q == n \div M
<1>1. M \in Nat \ {0} /\ H \in Nat /\ M = 2 * H  BY IntAssumption
<1>2. Low(n) \in 0..M - 1 /\ q \in Int /\ n = M * q + Low(n)  BY <1>1 DEF Low
<1>3. ToInt(n) = IF Low(n) < H THEN Low(n) ELSE Low(n) - M  BY DEF ToInt
<1>4. Fits(ToInt(n))  BY <1>1, <1>2, <1>3 DEF Fits
<1>5. Fits(n) => ToInt(n) = n
  <2> SUFFICES ASSUME Fits(n) PROVE ToInt(n) = n  OBVIOUS
  <2>1. Low(n) = IF n >= 0 THEN n ELSE n + M  BY <1>1 DEF Fits, Low
  <2> QED  BY <1>1, <1>3, <2>1 DEF Fits
<1>6. (ToInt(n) - n) % M = 0
  <2>1. \A k \in Int : (M * k) % M = 0  BY <1>1
  <2>2. ToInt(n) - n = M * (-q) \/ ToInt(n) - n = M * (-q - 1)
    <3> HIDE DEF q, M
    <3>1. M * (-q) = -(M * q) /\ M * (-q - 1) = -(M * q) - M  BY <1>1, <1>2
    <3> QED  BY <1>1, <1>2, <1>3, <3>1
  <2>3. -q \in Int /\ -q - 1 \in Int  BY <1>2
  <2> HIDE DEF q, M
  <2> QED  BY <2>1, <2>2, <2>3
<1>7. ToInt(n) \in Int  BY <1>1, <1>2, <1>3
<1> QED  BY <1>4, <1>5, <1>6, <1>7

(* What another thread reads: every entry in a task or a cell has the      *)
(* block that its value needs, and its closure still exists.               *)
Intact(e) == /\ Allocates(e.sent) => e.block # None
             /\ e.type = "func" /\ e.sent.nums # <<>> => e.sent \notin gone
Waits(e) == \/ \E i \in DOMAIN tasks : \E j \in DOMAIN tasks[i] : e = tasks[i][j]
            \/ \E c \in Cells : cells[c] # None /\ e = cells[c]
AllIntact == \A e \in Entries : Waits(e) => Intact(e)
Trip(r) == \/ r.got = r.sent
           \/ /\ r.sent.type = "long" /\ r.got.type = "long" /\ ~Fits(r.sent.nums[1])
              /\ Fits(r.got.nums[1]) /\ (r.got.nums[1] - r.sent.nums[1]) % IntValues = 0

(* An intact entry is converted back to what was sent.                     *)
LEMMA ReadsBack ==
  ASSUME NEW e, Legit(e), Intact(e), e.block # None => heap[e.block] = e.sent,
         NEW r \in ReadBack(e)
  PROVE  Trip(r)
<1>1. r = [sent |-> e.sent, got |-> ValueOf(e)]  BY DEF ReadBack, Defined, Intact
<1>2. /\ e.sent \in Values \cup Callables
      /\ e.sent \in [type : ZvalTypes, nums : Seq(Int), plain : BOOLEAN]
  BY ValuesAssumption DEF Legit, Entries
<1>3. CASE e.type # "long"
  BY <1>1, <1>3 DEF ValueOf, Intact, Trip
<1>4. CASE e.type = "long"
  <2>1. e.sent.type = "long" /\ e.num = ToInt(e.sent.nums[1])
    BY <1>2, <1>4 DEF Legit
  <2>2. e.sent \in Values  BY <1>2, <2>1, ValuesAssumption
  <2>3. e.sent.nums \in Seq(Int) /\ Len(e.sent.nums) = 1  BY <1>2, <2>1, <2>2, ValuesAssumption
  <2>4. PICK n \in Int : e.sent.nums = <<n>>
    <3>1. e.sent.nums[1] \in Int /\ e.sent.nums = <<e.sent.nums[1]>>  BY <2>3
    <3> QED  BY <3>1
  <2>5. e.sent.nums[1] = n  BY <2>4
  <2>6. r.sent = e.sent /\ r.got = [e.sent EXCEPT !.nums = <<ToInt(n)>>]
    BY <1>1, <1>4, <2>1, <2>5 DEF ValueOf
  <2>7. r.got.type = "long" /\ r.got.nums[1] = ToInt(n)  BY <1>2, <2>1, <2>6
  <2>8. CASE Fits(n)
    <3>1. ToInt(n) = n  BY <2>8, IntConversion
    <3>2. r.got = e.sent  BY <1>2, <2>4, <2>6, <3>1
    <3> QED  BY <2>6, <3>2 DEF Trip
  <2>9. CASE ~Fits(n)
    BY <2>1, <2>5, <2>6, <2>7, <2>9, IntConversion DEF Trip
  <2> QED  BY <2>8, <2>9
<1> QED  BY <1>3, <1>4

(* In programs that pass callables that can be serialised and keep their   *)
(* closures for as long as an entry has them, entries stay intact.         *)
LEMMA IntactStep ==
  ASSUME Habits = {}, Shape, Exact, AllIntact, [Next]_vars
  PROVE  AllIntact'
<1>0. ASSUME gone' = gone, \A e \in Entries : Waits(e)' => Waits(e) \/ Intact(e)'
      PROVE  AllIntact'
  BY <1>0 DEF AllIntact, Intact
<1>1. ASSUME UNCHANGED <<tasks, cells, gone>> PROVE AllIntact'
  BY <1>0, <1>1 DEF Waits
<1>2. ASSUME NEW v \in Values \cup Callables, DropClosure(v) PROVE AllIntact'
  <2>1. /\ gone' = gone \cup {v} /\ UNCHANGED <<tasks, cells>>
        /\ v.nums = <<>> \/ \A e \in Carried : e.sent # v
    BY <1>2 DEF DropClosure
  <2>2. ASSUME NEW e \in Entries, Waits(e), e.type = "func" PROVE e \in Carried
    <3>1. CASE \E i \in DOMAIN tasks : \E j \in DOMAIN tasks[i] : e = tasks[i][j]
      <4>1. PICK t \in {tasks[i] : i \in DOMAIN tasks} : \E j \in DOMAIN t : e = t[j]  BY <3>1
      <4> QED  BY <2>2, <4>1 DEF Carried, Waiting
    <3>2. CASE \E c \in Cells : cells[c] # None /\ e = cells[c]
      BY <2>2, <3>2 DEF Carried, Waiting
    <3> QED  BY <2>2, <3>1, <3>2 DEF Waits
  <2>3. ASSUME NEW e \in Entries, Waits(e)' PROVE Intact(e)'
    <3>1. Waits(e) /\ Intact(e)  BY <2>1, <2>3 DEF Waits, AllIntact
    <3> QED  BY <2>1, <2>2, <3>1 DEF Intact
  <2> QED  BY <2>3 DEF AllIntact
<1>3. CASE HandleFunctionTask
  <2>1. tasks # <<>> /\ tasks' = Tail(tasks) /\ UNCHANGED <<cells, gone>>  BY <1>3 DEF HandleFunctionTask
  <2>2. \A i \in DOMAIN tasks' : tasks'[i] = tasks[i + 1] /\ i + 1 \in DOMAIN tasks
    BY <2>1 DEF Shape
  <2>3. \A e \in Entries : Waits(e)' => Waits(e)  BY <2>1, <2>2 DEF Waits
  <2> QED  BY <1>0, <2>1, <2>3
<1>4. ASSUME NEW vs, IsCall(vs), AddFunctionTask(vs) PROVE AllIntact'
  <2>1. PICK at \in Places(Need(vs)) : tasks' = IF Bad(vs) = {} THEN Append(tasks, Made(vs, at)) ELSE tasks
    BY <1>4, AddShape
  <2>2. /\ UNCHANGED <<cells, gone>> /\ ~Refused(vs[1], FALSE) /\ \A i \in DOMAIN vs : vs[i] \notin gone
    BY <1>4 DEF AddFunctionTask
  <2>3. CASE Bad(vs) # {}  BY <1>1, <2>1, <2>2, <2>3
  <2>4. CASE Bad(vs) = {}
    <3> DEFINE es == Made(vs, at)
    <3>1. /\ es \in Seq(Entries) /\ Len(es) = Count(vs)
          /\ \A i \in 1..Count(vs) : /\ es[i].sent = vs[i] /\ Legit(es[i])
                                     /\ es[i].block = IF i \in Need(vs) THEN at[i] ELSE None
      BY <1>4, MadeLegit
    <3>2. /\ Count(vs) = Len(vs) /\ Count(vs) \in 1..Len(vs) /\ Need(vs) \subseteq Int
      BY <1>4, <2>4, CallConverts
    <3>3. at \in [Need(vs) -> Free]  BY <3>2, PlacesFree
    <3>4. tasks' = Append(tasks, es)  BY <2>1, <2>4
    <3> HIDE DEF es
    <3>5. ASSUME NEW i \in 1..Len(vs) PROVE Intact(es[i])'
      <4>1. i \in DOMAIN vs  BY <1>4 DEF IsCall
      <4>2. Allocates(vs[i]) => i \in Need(vs)  BY <2>2, <3>2 DEF Need
      <4>3. Allocates(vs[i]) => es[i].block # None
        BY <3>1, <3>2, <3>3, <4>2, NoneAssumption DEF Free
      <4> QED  BY <2>2, <3>1, <3>2, <4>1, <4>3 DEF Intact
    <3>6. /\ tasks \in Seq(Task) /\ Len(tasks) \in Nat /\ es \in Task
      BY <1>4, <3>1, <3>2 DEF Shape, Task, IsCall
    <3>7. /\ tasks' \in Seq(Task) /\ Len(tasks') = Len(tasks) + 1 /\ tasks'[Len(tasks) + 1] = es
          /\ \A i \in 1..Len(tasks) : tasks'[i] = tasks[i]
      BY <3>4, <3>6, AppendProperties
    <3>8. \A i \in DOMAIN tasks' : (i \in DOMAIN tasks /\ tasks'[i] = tasks[i]) \/ tasks'[i] = es
      BY <3>6, <3>7
    <3>9. DOMAIN es = 1..Len(vs)  BY <3>1, <3>2
    <3>10. \A e \in Entries : Waits(e)' => Waits(e) \/ Intact(e)'
      <4> SUFFICES ASSUME NEW e \in Entries, Waits(e)' PROVE Waits(e) \/ Intact(e)'  OBVIOUS
      <4>1. CASE \E i \in DOMAIN tasks' : \E j \in DOMAIN tasks'[i] : e = tasks'[i][j]
        <5>1. PICK i \in DOMAIN tasks' : \E j \in DOMAIN tasks'[i] : e = tasks'[i][j]  BY <4>1
        <5>2. PICK j \in DOMAIN tasks'[i] : e = tasks'[i][j]  BY <5>1
        <5> QED  BY <3>5, <3>8, <3>9, <5>2 DEF Waits
      <4>2. CASE \E c \in Cells : cells'[c] # None /\ e = cells'[c]
        BY <2>2, <4>2 DEF Waits
      <4> QED  BY <4>1, <4>2 DEF Waits
    <3> QED  BY <1>0, <2>2, <3>10
  <2> QED  BY <2>3, <2>4
<1>5. ASSUME NEW c \in Cells, NEW v \in Values, Put(c, v) PROVE AllIntact'
  <2>1. UNCHANGED <<tasks, gone>> /\ v \notin gone  BY <1>5 DEF Put
  <2>2. CASE cells' = cells  BY <1>1, <2>1, <2>2
  <2>3. ASSUME NEW at \in Places(IF Allocates(v) THEN {1} ELSE {}),
               cells' = [cells EXCEPT ![c] = EntryFor(v, IF Allocates(v) THEN at[1] ELSE None)]
        PROVE  AllIntact'
    <3>1. Allocates(v) => at \in [{1} -> Free]
      <4>1. {1} \subseteq Int  OBVIOUS
      <4> QED  BY <4>1, PlacesFree
    <3>2. Allocates(v) => at[1] # None  BY <3>1, NoneAssumption DEF Free
    <3>3. Intact(EntryFor(v, IF Allocates(v) THEN at[1] ELSE None))'
      BY <2>1, <3>2 DEF Intact, EntryFor
    <3>4. \A e \in Entries : Waits(e)' => Waits(e) \/ Intact(e)'
      BY <2>1, <2>3, <3>3 DEF Waits, Shape
    <3> QED  BY <1>0, <2>1, <3>4
  <2> QED  BY <1>5, <2>2, <2>3 DEF Put
<1>6. ASSUME NEW c \in Cells, Remove(c) PROVE AllIntact'
  <2>1. \A e \in Entries : Waits(e)' => Waits(e)  BY <1>6 DEF Remove, Waits, Shape
  <2> QED  BY <1>0, <1>6, <2>1 DEF Remove
<1>7. CASE UNCHANGED vars  BY <1>1, <1>7 DEF vars
<1>8. ASSUME NEW c \in Cells, Get(c) PROVE AllIntact'  BY <1>1, <1>8 DEF Get
<1>9. CASE TaskDelete  BY <1>1, <1>9 DEF TaskDelete
<1>10. ASSUME NEW fn \in Callables, NEW args \in Arguments, AddFunctionTask(<<fn>> \o args)
       PROVE  AllIntact'
  BY <1>4, <1>10, NextCalls
<1> QED  BY <1>2, <1>3, <1>5, <1>6, <1>7, <1>8, <1>9, <1>10 DEF Next

(* What a step converts back is what was sent.                             *)
LEMMA TripStep ==
  ASSUME Shape, Exact, AllIntact, RoundTrip, [Next]_vars
  PROVE  RoundTrip'
<1>1. CASE read' = {} \/ read' = read
  BY <1>1 DEF RoundTrip
<1>2. CASE HandleFunctionTask
  <2>1. tasks # <<>> /\ read' = UNION {ReadBack(Head(tasks)[i]) : i \in DOMAIN Head(tasks)}
    BY <1>2 DEF HandleFunctionTask
  <2>2. Len(tasks) \in 1..MaxTasks /\ Head(tasks) = tasks[1] /\ tasks[1] \in Task
    BY <2>1, BlocksAssumption DEF Shape
  <2>3. ASSUME NEW r \in read' PROVE Trip(r)
    <3>1. PICK j \in DOMAIN tasks[1] : r \in ReadBack(tasks[1][j])  BY <2>1, <2>2
    <3>2. 1 \in 1..MaxTasks /\ 1 \in 1..Len(tasks) /\ j \in 1..Len(tasks[1]) /\ j \in 1..MaxArgs + 1
      BY <2>2, <3>1, BlocksAssumption DEF Task
    <3>3. /\ <<"task", 1, j>> \in Slots /\ Used(<<"task", 1, j>>)
          /\ EntryIn(<<"task", 1, j>>) = tasks[1][j]
      BY <3>2, TaskSlot
    <3>4. Holds(<<"task", 1, j>>)  BY <3>3 DEF Exact
    <3>5. Waits(tasks[1][j])  BY <2>2, <3>1 DEF Waits, Shape
    <3>6. Intact(tasks[1][j])  BY <3>3, <3>4, <3>5 DEF AllIntact, Holds, Legit
    <3> QED  BY <3>1, <3>3, <3>4, <3>6, ReadsBack DEF Holds
  <2> QED  BY <2>3 DEF RoundTrip, Trip
<1>3. ASSUME NEW c \in Cells, Get(c) PROVE RoundTrip'
  <2>1. cells[c] # None /\ read' = ReadBack(cells[c])  BY <1>3 DEF Get
  <2>2. Holds(<<"cell", c>>) /\ EntryIn(<<"cell", c>>) = cells[c]
    BY <2>1, CellSlot DEF Exact
  <2>3. Intact(cells[c])  BY <2>1, <2>2 DEF AllIntact, Waits, Holds, Legit
  <2>4. \A r \in read' : Trip(r)  BY <2>1, <2>2, <2>3, ReadsBack DEF Holds
  <2> QED  BY <2>4 DEF RoundTrip, Trip
<1>4. ASSUME Next, ~HandleFunctionTask, \A c \in Cells : ~Get(c) PROVE read' = {}
  <2>1. \A vs : AddFunctionTask(vs) => read' = {}  BY DEF AddFunctionTask
  <2>2. \A v : DropClosure(v) => read' = {}  BY DEF DropClosure
  <2>3. \A c, v : Put(c, v) => read' = {}  BY DEF Put
  <2>4. \A c : Remove(c) => read' = {}  BY DEF Remove
  <2>5. TaskDelete => read' = {}  BY DEF TaskDelete
  <2> QED  BY <1>4, <2>1, <2>2, <2>3, <2>4, <2>5 DEF Next
<1>5. UNCHANGED vars => read' = read  BY DEF vars
<1> QED  BY <1>1, <1>2, <1>3, <1>4, <1>5

(* What another thread reads is what was sent, up to the width of int, in  *)
(* programs without the two habits.                                        *)
THEOREM ConversionRoundTrip ==
  ASSUME Habits = {}
  PROVE  Spec => []RoundTrip
<1>1. Init => AllIntact /\ RoundTrip  BY DEF Init, AllIntact, Waits, RoundTrip
<1>2. Shape /\ Exact /\ AllIntact /\ RoundTrip /\ [Next]_vars => AllIntact' /\ RoundTrip'
  BY IntactStep, TripStep
<1> QED  BY <1>1, <1>2, OwnersInvariant, PTL DEF Spec
=============================================================================
