--------------------------- MODULE EntryConversion ---------------------------
(***************************************************************************)
(* How values get from one thread to another: a zval is converted into a   *)
(* pht_entry_t, whose strings, serialised arrays and objects and copied    *)
(* closures are blocks of malloc, and back into a zval of the other        *)
(* thread.  Function tasks and the cells of the structures carry entries.  *)
(* The structures themselves are references, which ItcRefs counts.         *)
(***************************************************************************)
EXTENDS Integers, Sequences, FiniteSets

CONSTANTS Values,    \* what is passed as an argument or put into a structure
          Callables, \* what is passed to addFunctionTask
          Cells,     \* bound: places of structures
          Blocks,    \* bound: blocks of memory at one time
          MaxTasks, MaxArgs, \* bounds: tasks that wait, arguments of one
          IntValues, \* how many values the int has that an entry stores an integer in
          None,
          Habits     \* what the program does beyond the usual

(* The type of a value; its integers: its own value, the elements of an    *)
(* array or object, the captured variables of a closure; whether it can be *)
(* serialised.                                                             *)
ZvalTypes == {"null", "true", "long", "string", "array", "object", "closure", "resource"}
ASSUME ValuesAssumption ==
  /\ Values \cup Callables \subseteq [type : ZvalTypes, nums : Seq(Int), plain : BOOLEAN]
  /\ \A v \in Callables : v.type \in {"string", "array", "object", "closure"}
  /\ \A v \in Callables : v.type = "array" => v.plain   \* two strings
  /\ \A v \in Values : v.type = "long" => Len(v.nums) = 1
ASSUME BlocksAssumption == Blocks \subseteq Nat /\ MaxTasks \in Nat /\ MaxArgs \in Nat
ASSUME IntAssumption == IntValues \in Nat \ {0} /\ IntValues % 2 = 0
(* "drop_captured": a closure with captured variables is destroyed while a *)
(* task or structure has it; "bad_callable": a callable object that cannot *)
(* be serialised is passed to addFunctionTask.                             *)
ASSUME ConversionHabitsAssumption == Habits \subseteq {"drop_captured", "bad_callable"}

(* The entries: their type, what they store, and, as a ghost, what was sent. *)
EntryTypes == (ZvalTypes \ {"closure", "resource"}) \cup {"func"}
Entries == [type : EntryTypes, num : Int, block : Blocks \cup {None}, sent : Values \cup Callables]
ASSUME NoneAssumption == None \notin Blocks /\ None \notin Values \cup Callables /\ None \notin Entries

VARIABLES heap,    \* the content of each block, or None
          tasks,   \* the function tasks: <<callable, arguments...>> as entries
          running, \* the task the worker runs, or <<>>
          cells,   \* the entry in each cell, or None
          gone,    \* the closures of the sender that it has destroyed
          read,    \* what the last step converted back: [sent, got]
          orphans  \* ghost: the callables of tasks that were not added

vars == <<heap, tasks, running, cells, gone, read, orphans>>

-----------------------------------------------------------------------------
(* pht_convert_zval_to_entry: php_var_serialize throws on what cannot be   *)
(* serialised, and any exception, also an earlier one, counts as failure.  *)
Refused(v, exception) ==
  v.type = "resource" \/ (v.type \in {"array", "object"} /\ (~v.plain \/ exception))

Allocates(v) == v.type \in {"string", "array", "object", "closure"}

(* The conversion of zend_long to int.                                     *)
Low(n) == n % IntValues
ToInt_Unsigned(n) == Low(n)
ToInt(n) == IF Low(n) < IntValues \div 2 THEN Low(n) ELSE Low(n) - IntValues

EntryFor(v, b) ==
  [type |-> IF v.type = "closure" THEN "func" ELSE v.type,
   num |-> IF v.type = "long" THEN ToInt(v.nums[1]) ELSE 0, block |-> b, sent |-> v]

(* pht_convert_entry_to_zval.  Of a closure the block holds the op_array   *)
(* alone: its captured variables are still those of the sender.  What is   *)
(* read of memory that was never written or has been freed is anything.    *)
Garbage == [type |-> "undefined"]
Defined(e) == ~(e.type = "func" /\ e.sent.nums # <<>> /\ e.sent \in gone) /\ ~(Allocates(e.sent) /\ e.block = None)
ValueOf(e) == IF e.type = "long" THEN [e.sent EXCEPT !.nums = <<e.num>>]
              ELSE IF Allocates(e.sent) THEN heap[e.block] ELSE e.sent
ReadBack(e) == {[sent |-> e.sent, got |-> IF Defined(e) THEN ValueOf(e) ELSE Garbage]}

(* pht_entry_delete_value has no case for a serialised object.             *)
Frees(e) == e.type \in {"func", "array", "string"}
Deleted(h, es) == [b \in Blocks |-> IF \E e \in es : Frees(e) /\ e.block = b THEN None ELSE h[b]]

(* malloc for each of the values numbered in need.                         *)
Free == {b \in Blocks : heap[b] = None}
Places(need) ==
  {at \in [need -> Free] : /\ \A i, j \in need : i < j => at[i] < at[j]
                           /\ \A i \in need, b \in Free : b < at[i] => \E j \in need : at[j] = b}
Written(at, vs) == [b \in Blocks |-> IF \E i \in DOMAIN at : at[i] = b
                                       THEN vs[CHOOSE i \in DOMAIN at : at[i] = b] ELSE heap[b]]

-----------------------------------------------------------------------------
Init ==
  /\ heap = [b \in Blocks |-> None] /\ tasks = <<>> /\ running = <<>>
  /\ cells = [c \in Cells |-> None] /\ gone = {} /\ read = {} /\ orphans = {}

(* addFunctionTask(vs[1], ...).  What the conversion of the callable       *)
(* returns is not looked at; when an argument is refused, the arguments    *)
(* before it are deleted, and neither the callable nor the task.           *)
Undone_Late(entries, bad) == IF bad = {} THEN {} ELSE {entries[i] : i \in 3..Len(entries)}
Undone(entries, bad) == IF bad = {} THEN {} ELSE {entries[i] : i \in 2..Len(entries)}
AddFunctionTask(vs) ==
  LET exception == Refused(vs[1], FALSE)
      bad    == {i \in 2..Len(vs) : Refused(vs[i], exception)}
      count  == IF bad = {} THEN Len(vs) ELSE (CHOOSE i \in bad : \A j \in bad : i <= j) - 1
      need   == {i \in 1..count : Allocates(vs[i]) /\ (i = 1 => ~exception)}
  IN /\ \A i \in DOMAIN vs : vs[i] \notin gone
     /\ Len(tasks) < MaxTasks
     /\ exception => "bad_callable" \in Habits
     /\ \E at \in Places(need) :
          LET entries == [i \in 1..count |-> EntryFor(vs[i], IF i \in need THEN at[i] ELSE None)]
          IN /\ heap' = Deleted(Written(at, vs), Undone(entries, bad))
             /\ tasks' = IF bad = {} THEN Append(tasks, entries) ELSE tasks
             /\ orphans' = IF bad # {} /\ 1 \in need THEN orphans \cup {at[1]} ELSE orphans
     /\ read' = {} /\ UNCHANGED <<running, cells, gone>>

(* The destructor of a closure frees its captured variables.               *)
Waiting == (UNION {{t[i] : i \in DOMAIN t} : t \in {tasks[j] : j \in DOMAIN tasks}})
           \cup {cells[c] : c \in {d \in Cells : cells[d] # None}}
Carried == {e \in Waiting : e.type = "func"}
DropClosure(v) ==
  /\ v.type = "closure" /\ v \notin gone
  /\ "drop_captured" \in Habits \/ v.nums = <<>> \/ \A e \in Carried : e.sent # v
  /\ gone' = gone \cup {v} /\ read' = {}
  /\ UNCHANGED <<heap, tasks, running, cells, orphans>>

(* handle_function_task converts the callable and the arguments; the call, *)
(* and then task_delete.                                                   *)
HandleFunctionTask ==
  /\ running = <<>> /\ tasks # <<>>
  /\ running' = Head(tasks) /\ tasks' = Tail(tasks)
  /\ read' = UNION {ReadBack(Head(tasks)[i]) : i \in DOMAIN Head(tasks)}
  /\ UNCHANGED <<heap, cells, gone, orphans>>

TaskDelete ==
  /\ running # <<>>
  /\ heap' = Deleted(heap, {running[i] : i \in DOMAIN running})
  /\ running' = <<>> /\ read' = {} /\ UNCHANGED <<tasks, cells, gone, orphans>>

(* A cell is written: the new entry is made, then the old one deleted.     *)
Old(c) == {cells[c]} \ {None}
Put(c, v) ==
  /\ v \notin gone
  /\ IF Refused(v, FALSE) THEN UNCHANGED <<heap, cells>>
     ELSE \E at \in Places(IF Allocates(v) THEN {1} ELSE {}) :
            /\ heap' = Deleted(Written(at, <<v>>), Old(c))
            /\ cells' = [cells EXCEPT ![c] = EntryFor(v, IF Allocates(v) THEN at[1] ELSE None)]
  /\ read' = {} /\ UNCHANGED <<tasks, running, gone, orphans>>

Get(c) ==
  /\ cells[c] # None /\ read' = ReadBack(cells[c])
  /\ UNCHANGED <<heap, tasks, running, cells, gone, orphans>>

Remove(c) ==
  /\ cells[c] # None
  /\ heap' = Deleted(heap, Old(c)) /\ cells' = [cells EXCEPT ![c] = None]
  /\ read' = {} /\ UNCHANGED <<tasks, running, gone, orphans>>

Arguments == UNION {[1..n -> Values] : n \in 0..MaxArgs}
Next == \/ \E fn \in Callables, args \in Arguments : AddFunctionTask(<<fn>> \o args)
        \/ \E v \in Values \cup Callables : DropClosure(v)
        \/ HandleFunctionTask \/ TaskDelete
        \/ \E c \in Cells : Get(c) \/ Remove(c) \/ \E v \in Values : Put(c, v)

Spec == Init /\ [][Next]_vars

-----------------------------------------------------------------------------
TypeOK ==
  /\ heap \in [Blocks -> Values \cup Callables \cup {None}]
  /\ \A i \in DOMAIN tasks : \A j \in DOMAIN tasks[i] : tasks[i][j] \in Entries
  /\ \A j \in DOMAIN running : running[j] \in Entries
  /\ \A c \in Cells : cells[c] # None => cells[c] \in Entries
  /\ gone \subseteq Values \cup Callables /\ orphans \subseteq Blocks

(* What another thread reads is what was sent, whatever was allocated,     *)
(* refused and freed in between.  An integer that the int of an entry      *)
(* cannot hold arrives as another one, the same but for the bits that are  *)
(* cut off; one inside an array arrives whole.                             *)
Fits(n) == n \in -(IntValues \div 2) .. (IntValues \div 2) - 1
RoundTrip ==
  \A r \in read : \/ r.got = r.sent
                  \/ /\ r.sent.type = "long" /\ r.got.type = "long" /\ ~Fits(r.sent.nums[1])
                     /\ Fits(r.got.nums[1]) /\ (r.got.nums[1] - r.sent.nums[1]) % IntValues = 0

(* Each block belongs to one entry, which finds in it what was written,    *)
(* and no block is left behind but the strings of serialised objects and   *)
(* the callables of tasks that were not added.                             *)
Slots == ({"task"} \X (1..MaxTasks) \X (1..MaxArgs + 1)) \cup ({"run"} \X (1..MaxArgs + 1)) \cup ({"cell"} \X Cells)
Used(s) == \/ s[1] = "task" /\ s[2] \in DOMAIN tasks /\ s[3] \in DOMAIN tasks[s[2]]
           \/ s[1] = "run" /\ s[2] \in DOMAIN running
           \/ s[1] = "cell" /\ cells[s[2]] # None
EntryIn(s) == IF s[1] = "task" THEN tasks[s[2]][s[3]] ELSE IF s[1] = "run" THEN running[s[2]] ELSE cells[s[2]]
Owners(b) == {s \in Slots : Used(s) /\ EntryIn(s).block = b}
BlocksExact ==
  /\ TypeOK
  /\ \A b \in Blocks :
      /\ \A s \in Owners(b) : heap[b] = EntryIn(s).sent /\ Owners(b) = {s}
      /\ heap[b] # None => Owners(b) # {} \/ heap[b].type = "object" \/ b \in orphans
=============================================================================
