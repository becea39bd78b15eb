----------------------------- MODULE PhtHashTable ---------------------------
(***************************************************************************)
(* pht\HashTable used by a thread that holds its lock: the open-addressing *)
(* table of pht_hashtable.c under the array accesses of hashtable.c.  An   *)
(* integer key is its own hash and has no string (Null).                   *)
(***************************************************************************)
EXTENDS Integers, Sequences, FiniteSets, FiniteSetsExt, PropertyTable

CONSTANTS Keys,    \* the keys a program uses: their string and their hash
          Entries, \* bound: entries that exist at one time
          Null, Nothing, Error,
          Habits   \* what the program does beyond legal calls

ASSUME KeysAssumption == \A k \in Keys : k = [key |-> k.key, hash |-> k.hash] /\ k.hash \in Int
(* "bad_offset": writes with an offset that is no integer and no string.   *)
ASSUME HabitsAssumption == Habits \subseteq {"bad_offset"} /\ Null \notin Entries

VARIABLES values,  \* ht->values
          used,    \* ht->used
          entries, \* the entries that are allocated
          crashed, \* the entry destructor has been called with NULL, which
                   \* ends the process
          out,     \* what the last call returned
          lost     \* ghost: the entries that a call that threw has left behind

bucketVars == <<values, used, entries, crashed, out, lost>>
vars == <<bucketVars, tableVars>>

Size == Cardinality(DOMAIN values)
Home(hash, size) == hash % size     \* hash & (size - 1), size a power of two
(* The bucket that a loop round the table reaches d turns after index.     *)
After(index, d, size) == IF index + d < size THEN index + d ELSE index + d - size
Empty == [key |-> Null, hash |-> 0, value |-> Null, variance |-> 0]
Tombstone == [Empty EXCEPT !.hash = 1]
Cleared == [i \in 0..1 |-> Empty]
Live == {i \in DOMAIN values : values[i].value # Null}
Matches_KeyOnly(b, k) == b.key = k.key
Matches(b, k) == b.hash = k.hash /\ b.key = k.key
KeyOf(i) == CHOOSE k \in Keys : Matches(values[i], k)
Content == [k \in {KeyOf(i) : i \in Live} |->
              values[CHOOSE i \in Live : Matches(values[i], k)].value]

Init == /\ values = Cleared /\ used = 0
        /\ entries = {} /\ crashed = FALSE /\ out = Nothing /\ lost = {} /\ TableInit

(* pht_hashtable_insert_direct: the item takes the first bucket without a  *)
(* value, or one whose own item is nearer to its home and moves on.        *)
Steals(item, b) == item.variance > b.variance
Further(item) == [item EXCEPT !.variance = @ + 1]
Turn(s, i) ==
  LET b == s.vals[i]
  IN IF s.placed THEN s
     ELSE IF b.value = Null THEN [s EXCEPT !.vals[i] = s.item, !.placed = TRUE]
     ELSE IF Steals(s.item, b) THEN [s EXCEPT !.vals[i] = s.item, !.item = Further(b)]
     ELSE [s EXCEPT !.item = Further(@)]
Turns(vals, item, size) ==
  LET turns[d \in 0..size] ==
        IF d = 0 THEN [vals |-> vals, item |-> item, placed |-> FALSE]
        ELSE Turn(turns[d - 1], After(Home(item.hash, size), d - 1, size))
  IN turns

Item(k, e) == [key |-> k.key, hash |-> k.hash, value |-> e, variance |-> 0]
Insert(vals, k, e, size) == Turns(vals, Item(k, e), size)[size].vals

(* pht_hashtable_resize: the live buckets, in order, into twice the room.  *)
Repopulated[n \in 0..Size] ==
  IF n = 0 THEN [i \in 0..2 * Size - 1 |-> Empty]
  ELSE LET b == values[n - 1]
       IN IF b.value = Null THEN Repopulated[n - 1]
          ELSE Insert(Repopulated[n - 1], b, b.value, 2 * Size)

Full == used = Size - (Size \div 4)
Inserted(k, e) == IF Full THEN Insert(Repopulated[Size], k, e, 2 * Size) ELSE Insert(values, k, e, Size)

(* A probe goes from the home of k round the table and stops at the first  *)
(* of some buckets: the index of that bucket, or none.                     *)
Probe(k, stops) ==
  LET at(d) == After(Home(k.hash, Size), d, Size)
      distances == {d \in 0..Size - 1 : at(d) \in stops}
  IN IF distances = {} THEN {} ELSE {at(Min(distances))}

NeverUsed_Free(b) == b.value = Null
NeverUsed(b) == b.value = Null /\ b.hash = 0
Hits(k) == {i \in DOMAIN values : Matches(values[i], k)}
Found(k) ==
  Live \cap Probe(k, (Hits(k) \cap Live) \cup {i \in DOMAIN values : NeverUsed(values[i])})

(* The probe of pht_hashtable_update_direct compares hash and key only.    *)
ToUpdate(k) == Probe(k, Hits(k))

(* $ht[k] = value: search, then update or insert.                          *)
Update(k, e) ==
  /\ Found(k) # {}
  /\ \E i \in ToUpdate(k) :
       /\ values[i].value # Null
       /\ values' = [values EXCEPT ![i].value = e]
       /\ entries' = (entries \ {values[i].value}) \cup {e}
  /\ out' = Nothing /\ Bump /\ UNCHANGED <<used, crashed, lost>>

(* A tombstone passes for the integer key 1, and the destructor gets NULL. *)
UpdateCrashes(k) ==
  /\ Found(k) # {} /\ \E i \in ToUpdate(k) : values[i].value = Null
  /\ crashed' = TRUE /\ UNCHANGED <<values, used, entries, out, lost, tableVars>>

InsertNew(k, e) ==
  /\ Found(k) = {}
  /\ values' = Inserted(k, e)
  /\ used' = used + 1 /\ entries' = entries \cup {e} /\ out' = Nothing
  /\ Bump /\ UNCHANGED <<crashed, lost>>

Write(k, e) == e \notin entries /\ (Update(k, e) \/ InsertNew(k, e))

(* The entry is made before the type of the offset is looked at, and kept. *)
WriteBadOffset(e) ==
  /\ "bad_offset" \in Habits /\ e \notin entries
  /\ entries' = entries \cup {e} /\ lost' = lost \cup {e} /\ out' = Error
  /\ UNCHANGED <<values, used, crashed, current>>

(* unset($ht[k]): a match becomes a tombstone.                             *)
Deleted_NoMark == Empty
Deleted == Tombstone
Dropped_Kept(i) == {}
Dropped(i) == {values[i].value}

Unset(k) ==
  /\ values' = [i \in DOMAIN values |-> IF i \in Found(k) THEN Deleted ELSE values[i]]
  /\ entries' = entries \ UNION {Dropped(i) : i \in Found(k)}
  /\ used' = used - Cardinality(Found(k)) /\ out' = Nothing
  /\ Bump /\ UNCHANGED <<crashed, lost>>

(* $ht[k], isset($ht[k]).                                                  *)
Read(k) ==
  /\ out' = IF Found(k) = {} THEN Error ELSE values[CHOOSE i \in Found(k) : TRUE].value
  /\ UNCHANGED <<values, used, entries, crashed, lost, current>>

(* A value that cannot be serialised; a read or unset with a bad offset.   *)
Fails == out' = Error /\ UNCHANGED <<values, used, entries, crashed, lost, current>>

(* hto_get_properties.                                                     *)
HtoGetProperties(o) == GetProperties(o) /\ UNCHANGED bucketVars

Methods ==
  \/ \E k \in Keys : Unset(k) \/ Read(k) \/ \E e \in Entries : Write(k, e)
  \/ \E e \in Entries : WriteBadOffset(e)
  \/ Fails
Next == /\ ~crashed
        /\ \/ Methods /\ Changes(Content) /\ UNCHANGED built
           \/ \E k \in Keys : UpdateCrashes(k)
           \/ \E o \in Objects : HtoGetProperties(o)

Spec == Init /\ [][Next]_vars

-----------------------------------------------------------------------------
TypeOK == /\ DOMAIN values = 0..Size - 1 /\ used \in 0..Size
          /\ \A i \in DOMAIN values :
               /\ values[i].value \in Entries \cup {Null} /\ values[i].hash \in Int
               /\ values[i].variance \in 0..Size - 1
          /\ entries \subseteq Entries /\ lost \subseteq entries /\ crashed \in BOOLEAN
          /\ out \in Entries \cup {Nothing, Error}

(* The table can be searched: every live bucket is as far from its home as *)
(* its variance says, with no never-used bucket in between, no key is in   *)
(* two buckets, and a table of more than two has a quarter without value.  *)
From(b, d) == After(Home(b.hash, Size), d, Size)
Searchable ==
  /\ TypeOK
  /\ \A i \in Live :
       /\ i = From(values[i], values[i].variance)
       /\ \A d \in 0..values[i].variance : ~NeverUsed(values[From(values[i], d)])
  /\ \A i, j \in Live : Matches(values[i], values[j]) => i = j
  /\ used = Cardinality(Live) /\ used <= Size - (Size \div 4)

(* The allocated entries are those of the live buckets, one each (except   *)
(* for those that a write with an offset of a bad type has made).          *)
NothingLost == entries \ lost = {values[i].value : i \in Live}

(* A write to a key that is in the table overwrites the bucket of that key, *)
(* whatever the tombstones its probe passes, unless it is the integer key  *)
(* 1: only that one's probe ends at a tombstone, and only then is the      *)
(* destructor called for a bucket without a value.                         *)
MarkKey == [key |-> Null, hash |-> 1]
UpdatesOwnBucket ==
  /\ \A k \in Keys \ {MarkKey} : Found(k) # {} => ToUpdate(k) = Found(k)
  /\ crashed => MarkKey \in Keys /\ \E i \in ToUpdate(MarkKey) : values[i] = Tombstone

Map == INSTANCE EntryMap WITH map <- Content

(* The table is a map: a read returns the entry written last, whatever     *)
(* collisions, tombstones and resizes came in between.                     *)
IsMap == Map!Spec
=============================================================================
