------------------------------ MODULE PhtVector -----------------------------
(***************************************************************************)
(* pht\Vector used by a thread that holds its lock: the array of           *)
(* pht_vector.c, its capacity (size) and its length (used), under the      *)
(* methods of vector.c.  Memory the code does not initialise, or reads     *)
(* beyond the end of the array, holds Junk.                                *)
(***************************************************************************)
EXTENDS Naturals, Sequences, SequencesExt, PropertyTable

CONSTANTS Entries, \* bound: entries that exist at one time
          Junk, Nothing, Error,
          Habits   \* what the program does beyond legal calls

ASSUME EntriesAssumption == IsFiniteSet(Entries) /\ {Junk, Nothing, Error} \cap Entries = {}
(* "bad_index": passes indices that are out of bounds; "to_capacity":      *)
(* calls resize() with the current capacity while the vector is not full.  *)
ASSUME HabitsAssumption == Habits \subseteq {"bad_index", "to_capacity"}

VARIABLES values,  \* vector->values
          used,    \* vector->used
          entries, \* the entries that are allocated
          out,     \* what the last call returned
          lost     \* ghost: the entries that a call that threw has left behind

listVars == <<values, used, entries, out, lost>>
vars == <<listVars, tableVars>>

Size == Cardinality(DOMAIN values)
Slot(i) == IF i \in DOMAIN values THEN values[i] ELSE Junk
Array(n, at(_)) == [i \in 0..n - 1 |-> at(i)]
Fresh(e) == e \in Entries \ entries
Content == [i \in 1..used |-> values[i - 1]]

(* pht_vector_space_check: the capacity with room for one more.            *)
Capacity == IF used < Size THEN Size ELSE IF Size = 0 THEN 1 ELSE 2 * Size

(* new Vector().  (new Vector(n) leaves what resize(n) then leaves.)       *)
Init == values = [i \in {} |-> Junk] /\ used = 0 /\ entries = {} /\ out = Nothing
        /\ lost = {} /\ TableInit

(* pht_vector_insert_at, and push() and unshift() at the two ends: the     *)
(* tail moves up from its end.                                             *)
ShiftedUp(e, i) == LET at(j) == IF j < i \/ j > used THEN Slot(j)
                                ELSE IF j = i THEN e ELSE Slot(j - 1)
                   IN Array(Capacity, at)

InsertEntry(e, i) ==
  /\ Fresh(e) /\ i \in 0..used
  /\ values' = ShiftedUp(e, i) /\ used' = used + 1
  /\ entries' = entries \cup {e} /\ out' = Nothing /\ Bump /\ UNCHANGED lost

(* The entry is made before the index is checked, and kept when it is bad. *)
BadInsertOrUpdate(e) ==
  /\ "bad_index" \in Habits /\ Fresh(e)
  /\ entries' = entries \cup {e} /\ lost' = lost \cup {e} /\ out' = Error
  /\ UNCHANGED <<values, used, current>>

UpdateAt(e, i) ==
  /\ Fresh(e) /\ i \in 0..used - 1
  /\ values' = [values EXCEPT ![i] = e]
  /\ entries' = (entries \ {values[i]}) \cup {e} /\ out' = Nothing
  /\ Bump /\ UNCHANGED <<used, lost>>

Pop ==
  /\ used > 0
  /\ used' = used - 1 /\ out' = values[used - 1] /\ entries' = entries \ {values[used - 1]}
  /\ Bump /\ UNCHANGED <<values, lost>>

(* pht_vector_shift and pht_vector_delete_at; the last step of delete_at   *)
(* copies values[used], which is beyond the array when the vector is full. *)
ShiftedDown_OneShort(i, top) == LET at(j) == IF i <= j /\ j < top - 1 THEN Slot(j + 1) ELSE Slot(j)
                                IN Array(Size, at)
ShiftedDown(i, top) == LET at(j) == IF i <= j /\ j < top THEN Slot(j + 1) ELSE Slot(j)
                       IN Array(Size, at)

Shift ==
  /\ used > 0
  /\ values' = ShiftedDown(0, used - 1) /\ used' = used - 1
  /\ out' = values[0] /\ entries' = entries \ {values[0]} /\ Bump /\ UNCHANGED lost

Dropped(i) == {values[i]}

DeleteAt(i) ==
  /\ i \in 0..used - 1
  /\ values' = ShiftedDown(i, used) /\ used' = used - 1
  /\ out' = Nothing /\ entries' = entries \ Dropped(i) /\ Bump /\ UNCHANGED lost

FetchAt(i) == /\ i \in 0..used - 1 /\ out' = values[i]
              /\ UNCHANGED <<values, used, entries, lost, current>>

(* Vector::resize; out is the length asked for.  The call returns at once  *)
(* when that is the capacity.                                              *)
ResizeSame ==
  /\ "to_capacity" \in Habits \/ used = Size
  /\ out' = Size /\ UNCHANGED <<values, used, entries, lost, current>>

ResizeUp(n) ==
  /\ n > used /\ n # Size
  /\ \E fill \in [used..n - 1 -> Entries \ entries] :
       /\ IsInjective(fill)
       /\ values' = LET at(j) == IF j < used THEN values[j] ELSE fill[j] IN Array(n, at)
       /\ entries' = entries \cup Range(fill)
  /\ used' = n /\ out' = n /\ Bump /\ UNCHANGED lost

Truncated_All(n) == {}
Truncated(n) == {values[j] : j \in n..used - 1}

ResizeDown(n) ==
  /\ n <= used /\ n # Size
  /\ values' = Array(n, Slot) /\ used' = n
  /\ entries' = entries \ Truncated(n) /\ out' = n /\ Bump /\ UNCHANGED lost

(* A value that cannot be serialised, an index that delete or fetch        *)
(* refuses, pop() or shift() of an empty vector, a negative size.          *)
Fails == out' = Error /\ UNCHANGED <<values, used, entries, lost, current>>

Methods ==
  \/ \E e \in Entries, i \in 0..used : InsertEntry(e, i) \/ UpdateAt(e, i)
  \/ \E e \in Entries : BadInsertOrUpdate(e)
  \/ \E i \in 0..used : DeleteAt(i) \/ FetchAt(i)
  \/ Pop \/ Shift \/ ResizeSame \/ Fails
  \/ \E n \in 0..Cardinality(Entries) : ResizeUp(n) \/ ResizeDown(n)

(* vo_get_properties.                                                      *)
VoGetProperties(o) == GetProperties(o) /\ UNCHANGED listVars

Next == \/ Methods /\ Changes(Content) /\ UNCHANGED built
        \/ \E o \in Objects : VoGetProperties(o)

Spec == Init /\ [][Next]_vars

-----------------------------------------------------------------------------
TypeOK == /\ DOMAIN values = 0..Size - 1 /\ used \in 0..Size
          /\ \A i \in DOMAIN values : values[i] \in Entries \cup {Junk}
          /\ entries \subseteq Entries /\ lost \subseteq entries /\ out \in Entries \cup {Nothing, Error} \cup Nat

(* The allocated entries are the ones below used, each at one index: what  *)
(* pht_vector_destroy deletes is everything, and nothing twice.  (Except   *)
(* for the entries that insertAt() or updateAt() makes for a bad index.)   *)
NothingLost ==
  /\ TypeOK
  /\ entries \ lost = {values[i] : i \in 0..used - 1}
  /\ \A i, j \in 0..used - 1 : values[i] = values[j] => i = j

List == INSTANCE EntryList WITH content <- Content

(* The vector is a list: no stale, uninitialised or out-of-bounds slot is  *)
(* ever seen, and resize(n) makes it n long.                               *)
IsList == List!VectorSpec
=============================================================================
