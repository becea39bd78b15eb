--------------------------- MODULE PhtVectorProofs ---------------------------
(***************************************************************************)
(* PhtVector for every set of entries and of objects: the array holds what *)
(* is allocated, it is the list of EntryList, and property tables are true. *)
(***************************************************************************)
EXTENDS PhtVector, FiniteSetTheorems, SequenceTheorems, TLAPS

(* The array is as long as it says.                                        *)
ArrayOK == /\ Size \in Nat /\ DOMAIN values = 0..Size - 1 /\ used \in 0..Size
           /\ \A j \in DOMAIN values : values[j] \in Entries \cup {Junk}
IInv == ArrayOK /\ NothingLost /\ TableTrue

(* What insertAt(), delete and their special cases do to the array.        *)
Inserts(e, i) ==
  /\ used' = used + 1
  /\ \A j \in 0..used : values'[j] = IF j < i THEN values[j] ELSE IF j = i THEN e ELSE values[j - 1]
Removes(i) ==
  /\ used' = used - 1
  /\ \A j \in 0..used - 2 : values'[j] = IF j < i THEN values[j] ELSE values[j + 1]

(* The size of an array is its length.                                     *)
LEMMA ArraySize ==
  ASSUME NEW f, NEW n \in Nat, DOMAIN f = 0..n - 1
  PROVE  Cardinality(DOMAIN f) = n
BY FS_Interval

-----------------------------------------------------------------------------
(* push(), unshift() and insertAt().                                       *)
LEMMA InsertShape ==
  ASSUME ArrayOK, NEW e \in Entries, NEW i \in 0..used, InsertEntry(e, i)
  PROVE  ArrayOK' /\ Inserts(e, i)
<1> USE DEF ArrayOK
<1>1. Capacity \in Nat /\ Capacity >= Size /\ used < Capacity /\ used \in Nat
  BY DEF Capacity
<1>2. values' = [j \in 0..Capacity - 1 |-> IF j < i \/ j > used THEN Slot(j)
                                           ELSE IF j = i THEN e ELSE Slot(j - 1)]
  BY DEF InsertEntry, ShiftedUp, Array
<1>3. DOMAIN values' = 0..Capacity - 1 /\ Size' = Capacity
  BY <1>1, <1>2, ArraySize DEF Size
<1>4. \A j \in 0..used : values'[j] = IF j < i THEN values[j] ELSE IF j = i THEN e ELSE values[j - 1]
  BY <1>1, <1>2 DEF Slot
<1>5. \A j \in DOMAIN values' : values'[j] \in Entries \cup {Junk}
  BY <1>1, <1>2, <1>3 DEF Slot
<1>6. used' = used + 1
  BY DEF InsertEntry
<1> QED  BY <1>1, <1>3, <1>4, <1>5, <1>6 DEF Inserts

(* pop(), shift() and unset().                                             *)
LEMMA RemoveShape ==
  ASSUME ArrayOK, NEW i \in 0..used - 1
  PROVE  /\ Pop /\ i = used - 1 => ArrayOK' /\ Removes(i)
         /\ Shift /\ i = 0 => ArrayOK' /\ Removes(i)
         /\ DeleteAt(i) => ArrayOK' /\ Removes(i)
<1> USE DEF ArrayOK
<1>1. CASE Pop /\ i = used - 1
  <2>1. values' = values /\ used' = used - 1  BY <1>1 DEF Pop
  <2>2. Size' = Size  BY <2>1 DEF Size
  <2> QED  BY <1>1, <2>1, <2>2 DEF Removes
<1>2. ASSUME NEW top \in Nat, top \in {used - 1, used}, values' = ShiftedDown(i, top), used' = used - 1
      PROVE  ArrayOK' /\ Removes(i)
  <2>1. values' = [j \in 0..Size - 1 |-> IF i <= j /\ j < top THEN Slot(j + 1) ELSE Slot(j)]
    BY <1>2 DEF ShiftedDown, Array
  <2>2. DOMAIN values' = 0..Size - 1 /\ Size' = Size
    BY <2>1, ArraySize DEF Size
  <2>3. \A j \in DOMAIN values' : values'[j] \in Entries \cup {Junk}
    BY <2>1, <2>2 DEF Slot
  <2>4. \A j \in 0..used - 2 : values'[j] = IF j < i THEN values[j] ELSE values[j + 1]
    BY <1>2, <2>1 DEF Slot
  <2> QED  BY <1>2, <2>2, <2>3, <2>4 DEF Removes
<1>3. CASE Shift /\ i = 0
  BY <1>2, <1>3 DEF Shift
<1>4. CASE DeleteAt(i)
  BY <1>2, <1>4 DEF DeleteAt
<1> QED  BY <1>1, <1>3, <1>4

(* updateAt().                                                             *)
LEMMA UpdateShape ==
  ASSUME ArrayOK, NEW e \in Entries, NEW i \in 0..used - 1, UpdateAt(e, i)
  PROVE  /\ ArrayOK' /\ used' = used
         /\ \A j \in 0..used - 1 : values'[j] = IF j = i THEN e ELSE values[j]
<1> USE DEF ArrayOK
<1>1. values' = [values EXCEPT ![i] = e] /\ used' = used  BY DEF UpdateAt
<1>2. DOMAIN values' = 0..Size - 1 /\ Size' = Size  BY <1>1, ArraySize DEF Size
<1> QED  BY <1>1, <1>2

(* resize(): the first of the entries stay, and new ones fill up the rest. *)
LEMMA ResizeShape ==
  ASSUME ArrayOK, NEW n \in Nat, ResizeUp(n) \/ ResizeDown(n)
  PROVE  /\ ArrayOK' /\ used' = n
         /\ \A j \in 0..n - 1 : j < used => values'[j] = values[j]
<1> USE DEF ArrayOK
<1>1. CASE ResizeUp(n)
  <2>1. PICK fill \in [used..n - 1 -> Entries \ entries] :
          values' = [j \in 0..n - 1 |-> IF j < used THEN values[j] ELSE fill[j]]
    BY <1>1 DEF ResizeUp, Array
  <2>2. DOMAIN values' = 0..n - 1 /\ Size' = n /\ used' = n
    BY <1>1, <2>1, ArraySize DEF Size, ResizeUp
  <2> QED  BY <2>1, <2>2
<1>2. CASE ResizeDown(n)
  <2>1. values' = [j \in 0..n - 1 |-> Slot(j)] /\ used' = n /\ n <= used
    BY <1>2 DEF ResizeDown, Array
  <2>2. DOMAIN values' = 0..n - 1 /\ Size' = n
    BY <2>1, ArraySize DEF Size
  <2> QED  BY <2>1, <2>2 DEF Slot
<1> QED  BY <1>1, <1>2
-----------------------------------------------------------------------------
(* Nothing that is allocated is lost, and nothing is at two indices.       *)
LEMMA InsertLoses ==
  ASSUME IInv, NEW e \in Entries, NEW i \in 0..used, InsertEntry(e, i)
  PROVE  ArrayOK' /\ NothingLost'
<1>1. ArrayOK' /\ Inserts(e, i)  BY InsertShape DEF IInv
<1> USE DEF IInv, NothingLost, TypeOK
<1>2. used \in Nat /\ \A k \in 0..used - 1 : values[k] \in entries \ lost
  BY DEF ArrayOK
<1>3. e \notin entries /\ entries' = entries \cup {e} /\ out' = Nothing /\ lost' = lost
  BY DEF InsertEntry, Fresh
<1>4. entries' \ lost' = {values'[j] : j \in 0..used' - 1}
  <2>1. ASSUME NEW x \in entries' \ lost' PROVE \E j \in 0..used : x = values'[j]
    <3>1. CASE x = e  BY <1>1, <1>2, <3>1 DEF Inserts
    <3>2. CASE x # e
      <4>1. PICK j \in 0..used - 1 : x = values[j]  BY <3>2, <2>1, <1>3
      <4>2. x = values'[IF j < i THEN j ELSE j + 1]  BY <4>1, <1>1, <1>2 DEF Inserts
      <4> QED  BY <4>1, <4>2, <1>2
    <3> QED  BY <3>1, <3>2
  <2>2. ASSUME NEW j \in 0..used PROVE values'[j] \in entries' \ lost'
    <3>1. j < i => j \in 0..used - 1  BY <1>2
    <3>2. j > i => j - 1 \in 0..used - 1  BY <1>2
    <3> QED  BY <1>1, <1>2, <1>3, <3>1, <3>2 DEF Inserts
  <2> QED  BY <1>1, <1>2, <2>1, <2>2 DEF Inserts
<1>5. \A j, k \in 0..used' - 1 : values'[j] = values'[k] => j = k
  BY <1>1, <1>2, <1>3 DEF Inserts
<1> QED  BY <1>1, <1>3, <1>4, <1>5 DEF ArrayOK

(* pht_vector_delete_at loses nothing: the entry it drops is the one it    *)
(* shifts over.                                                            *)
LEMMA RemoveLoses ==
  ASSUME IInv, NEW i \in 0..used - 1, ArrayOK', Removes(i),
         entries' = entries \ {values[i]}, lost' = lost, out' \in {Nothing, values[i]}
  PROVE  NothingLost'
<1> USE DEF IInv, NothingLost, TypeOK
<1>1. used \in Nat /\ \A k \in 0..used - 1 : values[k] \in entries \ lost
  BY DEF ArrayOK
<1>2. entries' \ lost' = {values'[j] : j \in 0..used' - 1}
  <2>1. ASSUME NEW x \in entries' \ lost' PROVE \E j \in 0..used - 2 : x = values'[j]
    <3>1. PICK j \in 0..used - 1 : x = values[j]  BY <2>1
    <3>2. j # i  BY <2>1, <3>1
    <3>3. x = values'[IF j < i THEN j ELSE j - 1]  BY <3>1, <3>2, <1>1 DEF Removes
    <3> QED  BY <3>1, <3>2, <3>3, <1>1
  <2>2. ASSUME NEW j \in 0..used - 2 PROVE values'[j] \in entries' \ lost'
    <3>1. j \in 0..used - 1 /\ j + 1 \in 0..used - 1  BY <1>1
    <3> QED  BY <1>1, <3>1 DEF Removes
  <2> QED  BY <1>1, <2>1, <2>2 DEF Removes
<1>3. \A j, k \in 0..used' - 1 : values'[j] = values'[k] => j = k
  BY <1>1 DEF Removes
<1>4. lost' \subseteq entries' /\ entries' \subseteq Entries /\ out' \in Entries \cup {Nothing}
  BY <1>1
<1> QED  BY <1>2, <1>3, <1>4 DEF ArrayOK

(* pht_vector_update_at drops the entry it replaces, and no other.         *)
LEMMA UpdateLoses ==
  ASSUME IInv, NEW e \in Entries, NEW i \in 0..used - 1, UpdateAt(e, i)
  PROVE  ArrayOK' /\ NothingLost'
<1>1. /\ ArrayOK' /\ used' = used
      /\ \A j \in 0..used - 1 : values'[j] = IF j = i THEN e ELSE values[j]
  BY UpdateShape DEF IInv
<1> USE DEF IInv, NothingLost, TypeOK
<1>2. \A k \in 0..used - 1 : values[k] \in entries \ lost
  BY DEF ArrayOK
<1>3. e \notin entries /\ entries' = (entries \ {values[i]}) \cup {e} /\ out' = Nothing /\ lost' = lost
  BY DEF UpdateAt, Fresh
<1>4. entries' \ lost' = {values'[j] : j \in 0..used' - 1}
  <2>1. ASSUME NEW x \in entries' \ lost' PROVE \E j \in 0..used - 1 : x = values'[j]
    <3>1. x = e \/ \E j \in 0..used - 1 : x = values[j] /\ j # i  BY <2>1, <1>3
    <3> QED  BY <3>1, <1>1
  <2>2. ASSUME NEW j \in 0..used - 1 PROVE values'[j] \in entries' \ lost'
    BY <1>1, <1>2, <1>3
  <2> QED  BY <1>1, <2>1, <2>2
<1>5. \A j, k \in 0..used' - 1 : values'[j] = values'[k] => j = k
  BY <1>1, <1>2, <1>3
<1>6. lost' \subseteq entries' /\ entries' \subseteq Entries  BY <1>2, <1>3
<1> QED  BY <1>1, <1>3, <1>4, <1>5, <1>6 DEF ArrayOK

(* resize() to more than the capacity fills the slots past the end.        *)
LEMMA ResizeUpLoses ==
  ASSUME IInv, NEW n \in Nat, ResizeUp(n)
  PROVE  ArrayOK' /\ NothingLost'
<1>1. ArrayOK' /\ used' = n /\ used < n /\ used \in Nat
  <2>1. ArrayOK' /\ used' = n  BY ResizeShape DEF IInv
  <2>2. used < n  BY DEF ResizeUp
  <2>3. used \in Nat  BY DEF IInv, ArrayOK
  <2> QED  BY <2>1, <2>2, <2>3
<1>2. PICK fill \in [used..n - 1 -> Entries \ entries] :
        /\ IsInjective(fill)
        /\ values' = [j \in 0..n - 1 |-> IF j < used THEN values[j] ELSE fill[j]]
        /\ entries' = entries \cup Range(fill)
  BY DEF ResizeUp, Array
<1> USE DEF IInv, NothingLost, TypeOK
<1>3. \A k \in 0..used - 1 : values[k] \in entries \ lost
  BY DEF ArrayOK
<1>4. lost' = lost /\ out' = n  BY DEF ResizeUp
<1>5. entries' \ lost' = {values'[j] : j \in 0..used' - 1}
  <2>1. ASSUME NEW x \in entries' \ lost' PROVE \E j \in 0..n - 1 : x = values'[j]
    <3>1. CASE x \in entries
      <4>1. PICK j \in 0..used - 1 : x = values[j]  BY <3>1, <2>1, <1>4
      <4> QED  BY <4>1, <1>1, <1>2
    <3>2. CASE x \in Range(fill)
      <4>1. PICK j \in used..n - 1 : x = fill[j]  BY <3>2, <1>2 DEF Range
      <4> QED  BY <4>1, <1>1, <1>2
    <3> QED  BY <3>1, <3>2, <2>1, <1>2
  <2>2. ASSUME NEW j \in 0..n - 1 PROVE values'[j] \in entries' \ lost'
    <3>1. CASE j < used  BY <3>1, <1>1, <1>2, <1>3, <1>4
    <3>2. CASE j >= used
      <4>1. fill[j] \in Range(fill) /\ fill[j] \notin entries  BY <3>2, <1>1, <1>2 DEF Range
      <4> QED  BY <4>1, <3>2, <1>1, <1>2, <1>4
    <3> QED  BY <3>1, <3>2, <1>1
  <2> QED  BY <1>1, <2>1, <2>2
<1>6. \A j, k \in 0..used' - 1 : values'[j] = values'[k] => j = k
  <2>1. \A j \in used..n - 1 : fill[j] \notin entries  BY <1>2
  <2>2. \A j, k \in used..n - 1 : fill[j] = fill[k] => j = k  BY <1>2 DEF IsInjective
  <2> QED  BY <1>1, <1>2, <1>3, <2>1, <2>2
<1>7. Range(fill) \subseteq Entries  BY <1>2 DEF Range
<1> QED  BY <1>1, <1>2, <1>4, <1>5, <1>6, <1>7 DEF ArrayOK

(* resize() to less than the length drops what it cuts off, and no more.   *)
LEMMA ResizeDownLoses ==
  ASSUME IInv, NEW n \in Nat, ResizeDown(n)
  PROVE  ArrayOK' /\ NothingLost'
<1>1. /\ ArrayOK' /\ used' = n /\ n <= used /\ used \in Nat
      /\ \A j \in 0..n - 1 : values'[j] = values[j]
  BY ResizeShape DEF IInv, ResizeDown, ArrayOK
<1> USE DEF IInv, NothingLost, TypeOK
<1>2. entries' = entries \ {values[j] : j \in n..used - 1} /\ lost' = lost /\ out' = n
  BY DEF ResizeDown, Truncated
<1>3. \A k \in 0..used - 1 : values[k] \in entries \ lost
  BY DEF ArrayOK
<1>4. entries' \ lost' = {values'[j] : j \in 0..used' - 1}
  <2>1. ASSUME NEW x \in entries' \ lost' PROVE \E j \in 0..n - 1 : x = values'[j]
    <3>1. PICK j \in 0..used - 1 : x = values[j]  BY <2>1, <1>2
    <3>2. j < n  BY <3>1, <2>1, <1>2, <1>1
    <3> QED  BY <3>1, <3>2, <1>1
  <2>2. ASSUME NEW j \in 0..n - 1 PROVE values'[j] \in entries' \ lost'
    <3>1. j \in 0..used - 1 /\ \A k \in n..used - 1 : k \in 0..used - 1 /\ k # j  BY <1>1
    <3>2. \A k \in n..used - 1 : values[k] # values[j]  BY <3>1
    <3> QED  BY <3>1, <3>2, <1>1, <1>2, <1>3
  <2> QED  BY <1>1, <2>1, <2>2
<1>5. \A j, k \in 0..used' - 1 : values'[j] = values'[k] => j = k
  BY <1>1
<1>6. lost' \subseteq entries' /\ entries' \subseteq Entries
  <2>1. \A j \in n..used - 1 : values[j] \notin lost  BY <1>1, <1>3
  <2> QED  BY <2>1, <1>2
<1> QED  BY <1>1, <1>2, <1>4, <1>5, <1>6 DEF ArrayOK

-----------------------------------------------------------------------------
(* What a call leaves of the table of an object is true: a call that       *)
(* changes the content also changes vn.                                    *)
LEMMA MethodTables ==
  ASSUME TableTrue, Methods, Changes(Content), built' = built
  PROVE  TableTrue'
<1>1. current' = {} \/ (current' = current /\ UNCHANGED <<values, used>>)
  BY DEF Methods, InsertEntry, UpdateAt, BadInsertOrUpdate, DeleteAt, FetchAt, Pop, Shift, ResizeSame,
         Fails, ResizeUp, ResizeDown, Bump
<1>2. UNCHANGED <<values, used>> => Content' = Content  BY DEF Content
<1> QED  BY <1>1, <1>2 DEF TableTrue, UpToDate, Changes

(* get_properties makes its own table current and leaves the others.       *)
LEMMA FillTables ==
  ASSUME TableTrue, NEW o \in Objects, GetProperties(o)
  PROVE  TableTrue'
BY DEF TableTrue, UpToDate, GetProperties, tableVars

(* One call, whatever it is.                                               *)
LEMMA MethodStep ==
  ASSUME IInv, Methods
  PROVE  ArrayOK' /\ NothingLost'
<1>1. ASSUME UNCHANGED <<values, used>>, entries' \ lost' = entries \ lost, entries' \subseteq Entries,
             lost' \subseteq entries', out' \in Entries \cup {Nothing, Error} \cup Nat
      PROVE  ArrayOK' /\ NothingLost'
  <2>1. Size' = Size  BY <1>1 DEF Size
  <2> QED  BY <1>1, <2>1 DEF IInv, ArrayOK, NothingLost, TypeOK
<1> USE DEF IInv
<1>2. ASSUME NEW e \in Entries, NEW i \in 0..used, InsertEntry(e, i) PROVE ArrayOK' /\ NothingLost'
  BY <1>2, InsertLoses
<1>3. ASSUME NEW e \in Entries, NEW i \in 0..used, UpdateAt(e, i) PROVE ArrayOK' /\ NothingLost'
  BY <1>3, UpdateLoses DEF UpdateAt
<1>4. ASSUME NEW e \in Entries, BadInsertOrUpdate(e) PROVE ArrayOK' /\ NothingLost'
  BY <1>1, <1>4 DEF BadInsertOrUpdate, Fresh, NothingLost, TypeOK
<1>5. ASSUME NEW i \in 0..used, DeleteAt(i) PROVE ArrayOK' /\ NothingLost'
  <2>1. i \in 0..used - 1 /\ entries' = entries \ {values[i]} /\ lost' = lost /\ out' = Nothing
    BY <1>5 DEF DeleteAt, Dropped
  <2> QED  BY <1>5, <2>1, RemoveShape, RemoveLoses
<1>6. ASSUME NEW i \in 0..used, FetchAt(i) PROVE ArrayOK' /\ NothingLost'
  <2>1. values[i] \in Entries  BY <1>6 DEF FetchAt, NothingLost, TypeOK
  <2> QED  BY <1>1, <1>6, <2>1 DEF FetchAt, NothingLost, TypeOK
<1>7. CASE Pop
  <2>1. used - 1 \in 0..used - 1  BY <1>7 DEF Pop, ArrayOK
  <2>2. ArrayOK' /\ Removes(used - 1)  BY <1>7, <2>1, RemoveShape
  <2> QED  BY <1>7, <2>1, <2>2, RemoveLoses DEF Pop
<1>8. CASE Shift
  <2>1. 0 \in 0..used - 1  BY <1>8 DEF Shift, ArrayOK
  <2>2. ArrayOK' /\ Removes(0)  BY <1>8, <2>1, RemoveShape
  <2> QED  BY <1>8, <2>1, <2>2, RemoveLoses DEF Shift
<1>9. CASE ResizeSame
  BY <1>1, <1>9 DEF ResizeSame, ArrayOK, NothingLost, TypeOK
<1>10. CASE Fails
  BY <1>1, <1>10 DEF Fails, NothingLost, TypeOK
<1>11. ASSUME NEW n \in 0..Cardinality(Entries), ResizeUp(n) \/ ResizeDown(n)
       PROVE ArrayOK' /\ NothingLost'
  BY <1>11, ResizeUpLoses, ResizeDownLoses
<1> QED  BY <1>2, <1>3, <1>4, <1>5, <1>6, <1>7, <1>8, <1>9, <1>10, <1>11 DEF Methods
(* Spec keeps the invariant.                                               *)
LEMMA Invariant == Spec => []IInv
<1>1. Init => IInv
  <2> SUFFICES ASSUME Init PROVE IInv  OBVIOUS
  <2>1. DOMAIN values = {} /\ Size = 0  BY FS_EmptySet DEF Init, Size
  <2>2. used = 0 /\ entries = {} /\ lost = {} /\ out = Nothing  BY DEF Init
  <2>3. TableTrue  BY DEF Init, TableInit, TableTrue
  <2> QED  BY <2>1, <2>2, <2>3 DEF IInv, ArrayOK, NothingLost, TypeOK
<1>2. IInv /\ [Next]_vars => IInv'
  <2> SUFFICES ASSUME IInv, [Next]_vars PROVE IInv'  OBVIOUS
  <2>1. CASE Methods /\ Changes(Content) /\ UNCHANGED built
    BY <2>1, MethodStep, MethodTables DEF IInv
  <2>2. ASSUME UNCHANGED listVars PROVE ArrayOK' /\ NothingLost'
    BY <2>2 DEF listVars, IInv, ArrayOK, NothingLost, TypeOK, Size
  <2>3. ASSUME NEW o \in Objects, VoGetProperties(o) PROVE IInv'
    BY <2>2, <2>3, FillTables DEF IInv, VoGetProperties
  <2>4. CASE UNCHANGED vars
    BY <2>2, <2>4 DEF vars, tableVars, IInv, TableTrue, UpToDate
  <2> QED  BY <2>1, <2>3, <2>4 DEF Next
<1> QED  BY <1>1, <1>2, PTL DEF Spec

(* pht_vector_destroy deletes all that is allocated, and nothing twice.    *)
THEOREM VectorKeeps == Spec => []NothingLost
<1>1. IInv => NothingLost  BY DEF IInv
<1> QED  BY <1>1, Invariant, PTL

(* A table that get_properties hands out as it is shows the entries.       *)
THEOREM VectorTables == Spec => []TableTrue
<1>1. IInv => TableTrue  BY DEF IInv
<1> QED  BY <1>1, Invariant, PTL

-----------------------------------------------------------------------------
(* The operators of EntryList, element by element.                         *)
LEMMA InsertAtElements ==
  ASSUME NEW S, NEW s \in Seq(S), NEW i \in 1..Len(s) + 1, NEW e \in S
  PROVE  /\ InsertAt(s, i, e) \in Seq(S) /\ Len(InsertAt(s, i, e)) = Len(s) + 1
         /\ \A j \in 1..Len(s) + 1 :
              InsertAt(s, i, e)[j] = IF j < i THEN s[j] ELSE IF j = i THEN e ELSE s[j - 1]
<1> DEFINE a == SubSeq(s, 1, i - 1)  b == <<e>>  c == SubSeq(s, i, Len(s))
<1>1. a \in Seq(S) /\ Len(a) = i - 1 /\ \A j \in 1..i - 1 : a[j] = s[j]
  OBVIOUS
<1>2. c \in Seq(S) /\ Len(c) = Len(s) - i + 1 /\ \A j \in 1..Len(s) - i + 1 : c[j] = s[j + i - 1]
  OBVIOUS
<1>3. b \in Seq(S) /\ Len(b) = 1 /\ b[1] = e
  OBVIOUS
<1>4. Len(s) \in Nat /\ InsertAt(s, i, e) = a \o b \o c
  BY DEF InsertAt
<1> HIDE DEF a, b, c
<1>5. /\ a \o b \in Seq(S) /\ Len(a \o b) = Len(a) + Len(b)
      /\ \A j \in 1..Len(a) + Len(b) : (a \o b)[j] = IF j <= Len(a) THEN a[j] ELSE b[j - Len(a)]
  BY <1>1, <1>3, ConcatProperties
<1> DEFINE d == a \o b
<1>6. Len(d) = i /\ \A j \in 1..i : d[j] = IF j < i THEN s[j] ELSE e
  BY <1>1, <1>3, <1>5
<1>7. d \in Seq(S)  BY <1>5
<1> HIDE DEF d
<1>8. /\ d \o c \in Seq(S) /\ Len(d \o c) = Len(d) + Len(c)
      /\ \A j \in 1..Len(d) + Len(c) : (d \o c)[j] = IF j <= Len(d) THEN d[j] ELSE c[j - Len(d)]
  BY <1>2, <1>7, ConcatProperties
<1>9. InsertAt(s, i, e) = d \o c  BY <1>4 DEF d
<1>10. Len(d \o c) = Len(s) + 1 /\ i \in Nat  BY <1>2, <1>4, <1>6, <1>8
<1>11. ASSUME NEW j \in 1..Len(s) + 1
       PROVE  (d \o c)[j] = IF j < i THEN s[j] ELSE IF j = i THEN e ELSE s[j - 1]
  <2>1. CASE j <= i
    <3>1. j \in 1..i /\ (d \o c)[j] = d[j]  BY <2>1, <1>2, <1>4, <1>6, <1>8
    <3> QED  BY <3>1, <1>6, <1>10
  <2>2. CASE j > i
    <3>1. (d \o c)[j] = c[j - i] /\ j - i \in 1..Len(s) - i + 1  BY <2>2, <1>2, <1>4, <1>6, <1>8, <1>10
    <3>2. (j - i) + i - 1 = j - 1  BY <1>10
    <3> QED  BY <2>2, <3>1, <3>2, <1>2, <1>10
  <2> QED  BY <2>1, <2>2, <1>10
<1> QED  BY <1>8, <1>9, <1>10, <1>11

(* The elements of a list that one is removed from.                        *)
LEMMA RemoveAtElements ==
  ASSUME NEW S, NEW s \in Seq(S), NEW i \in 1..Len(s)
  PROVE  /\ RemoveAt(s, i) \in Seq(S) /\ Len(RemoveAt(s, i)) = Len(s) - 1
         /\ \A j \in 1..Len(s) - 1 : RemoveAt(s, i)[j] = IF j < i THEN s[j] ELSE s[j + 1]
<1> DEFINE a == SubSeq(s, 1, i - 1)  c == SubSeq(s, i + 1, Len(s))
<1>1. a \in Seq(S) /\ Len(a) = i - 1 /\ \A j \in 1..i - 1 : a[j] = s[j]
  OBVIOUS
<1>2. c \in Seq(S) /\ Len(c) = Len(s) - i /\ \A j \in 1..Len(s) - i : c[j] = s[j + i]
  OBVIOUS
<1>3. Len(s) \in Nat /\ RemoveAt(s, i) = a \o c
  BY DEF RemoveAt
<1> HIDE DEF a, c
<1>4. /\ a \o c \in Seq(S) /\ Len(a \o c) = Len(a) + Len(c)
      /\ \A j \in 1..Len(a) + Len(c) : (a \o c)[j] = IF j <= Len(a) THEN a[j] ELSE c[j - Len(a)]
  BY <1>1, <1>2, ConcatProperties
<1>5. Len(a \o c) = Len(s) - 1  BY <1>1, <1>2, <1>3, <1>4
<1>6. ASSUME NEW j \in 1..Len(s) - 1 PROVE (a \o c)[j] = IF j < i THEN s[j] ELSE s[j + 1]
  <2>1. CASE j < i  BY <2>1, <1>1, <1>2, <1>3, <1>4
  <2>2. CASE j >= i
    <3>1. (a \o c)[j] = c[j - (i - 1)] /\ j - (i - 1) \in 1..Len(s) - i  BY <2>2, <1>1, <1>2, <1>3, <1>4
    <3>2. (j - (i - 1)) + i = j + 1  OBVIOUS
    <3> QED  BY <2>2, <3>1, <3>2, <1>2
  <2>3. j < i \/ j >= i  BY <1>3
  <2> QED  BY <2>1, <2>2, <2>3
<1> QED  BY <1>3, <1>4, <1>5, <1>6

(* The content is a list of used entries, all allocated.                   *)
IsContent ==
  /\ Content \in Seq(Entries) /\ Len(Content) = used /\ DOMAIN Content = 1..used /\ used \in Nat
  /\ \A i \in 1..used : Content[i] = values[i - 1] /\ Content[i] \in entries
(* Content of an array that is as the invariant says.                      *)
LEMMA ContentIsList == IInv => IsContent
<1> SUFFICES ASSUME IInv PROVE IsContent  OBVIOUS
<1>1. used \in Nat /\ \A i \in 0..used - 1 : values[i] \in entries /\ values[i] \in Entries
  BY DEF IInv, ArrayOK, NothingLost, TypeOK
<1>2. \A i \in 1..used : i - 1 \in 0..used - 1  BY <1>1
<1> QED  BY <1>1, <1>2 DEF Content, IsContent

(* The new list, entry by entry.                                           *)
LEMMA ListOfInsert ==
  ASSUME IInv, IInv', NEW e \in Entries, NEW i \in 0..used, Inserts(e, i)
  PROVE  Content' = InsertAt(Content, i + 1, e)
<1>0. IsContent'
  <2>1. (IInv => IsContent)'  BY ContentIsList, PTL
  <2> QED  BY <2>1
<1>1. /\ Content \in Seq(Entries) /\ Len(Content) = used /\ used \in Nat
      /\ \A j \in 1..used : Content[j] = values[j - 1]
  BY ContentIsList DEF IsContent
<1>2. Content' \in Seq(Entries) /\ Len(Content') = used + 1
  BY <1>0 DEF Inserts, IsContent
<1>3. \A j \in 1..used + 1 : Content'[j] = values'[j - 1]
  BY <1>0, <1>1 DEF Inserts, IsContent
<1>4. /\ InsertAt(Content, i + 1, e) \in Seq(Entries) /\ Len(InsertAt(Content, i + 1, e)) = used + 1
      /\ \A j \in 1..used + 1 : InsertAt(Content, i + 1, e)[j] =
           IF j < i + 1 THEN Content[j] ELSE IF j = i + 1 THEN e ELSE Content[j - 1]
  <2> DEFINE k == i + 1
  <2>1. k \in 1..Len(Content) + 1 /\ Content \in Seq(Entries)  BY <1>1
  <2> HIDE DEF k
  <2>2. /\ InsertAt(Content, k, e) \in Seq(Entries)
        /\ Len(InsertAt(Content, k, e)) = Len(Content) + 1
        /\ \A j \in 1..Len(Content) + 1 :
             InsertAt(Content, k, e)[j] = IF j < k THEN Content[j] ELSE IF j = k THEN e ELSE Content[j - 1]
    BY <2>1, InsertAtElements
  <2> QED  BY <1>1, <2>2 DEF k
<1>5. ASSUME NEW j \in 1..used + 1 PROVE Content'[j] = InsertAt(Content, i + 1, e)[j]
  <2>1. values'[j - 1] = IF j - 1 < i THEN values[j - 1] ELSE IF j - 1 = i THEN e ELSE values[j - 2]
    BY <1>1 DEF Inserts
  <2>2. j <= used => Content[j] = values[j - 1]  BY <1>1
  <2>3. j > 1 => Content[j - 1] = values[j - 2]  BY <1>1
  <2>4. Content'[j] = values'[j - 1]  BY <1>3
  <2>5. InsertAt(Content, i + 1, e)[j] = IF j < i + 1 THEN Content[j] ELSE IF j = i + 1 THEN e ELSE Content[j - 1]
    BY <1>4
  <2>6. CASE j < i + 1  BY <2>1, <2>2, <2>4, <2>5, <2>6, <1>1
  <2>7. CASE j = i + 1  BY <2>1, <2>4, <2>5, <2>7, <1>1
  <2>8. CASE j > i + 1  BY <2>1, <2>3, <2>4, <2>5, <2>8, <1>1
  <2> QED  BY <2>6, <2>7, <2>8, <1>1
<1> QED  BY <1>2, <1>4, <1>5, SeqEqual

(* Deleting at an index removes the element there from the list.           *)
LEMMA ListOfRemove ==
  ASSUME IInv, IInv', NEW i \in 0..used - 1, Removes(i)
  PROVE  Content' = RemoveAt(Content, i + 1)
<1>0. IsContent'
  <2>1. (IInv => IsContent)'  BY ContentIsList, PTL
  <2> QED  BY <2>1
<1>1. /\ Content \in Seq(Entries) /\ Len(Content) = used /\ used \in Nat
      /\ \A j \in 1..used : Content[j] = values[j - 1]
  BY ContentIsList DEF IsContent
<1>2. Content' \in Seq(Entries) /\ Len(Content') = used - 1
  BY <1>0 DEF Removes, IsContent
<1>3. \A j \in 1..used - 1 : Content'[j] = values'[j - 1]
  BY <1>0, <1>1 DEF Removes, IsContent
<1>4. /\ RemoveAt(Content, i + 1) \in Seq(Entries) /\ Len(RemoveAt(Content, i + 1)) = used - 1
      /\ \A j \in 1..used - 1 : RemoveAt(Content, i + 1)[j] = IF j < i + 1 THEN Content[j] ELSE Content[j + 1]
  <2>1. i + 1 \in 1..Len(Content)  BY <1>1
  <2> QED  BY <1>1, <2>1, RemoveAtElements
<1>5. ASSUME NEW j \in 1..used - 1 PROVE Content'[j] = RemoveAt(Content, i + 1)[j]
  <2>1. values'[j - 1] = IF j - 1 < i THEN values[j - 1] ELSE values[j]
    BY <1>1 DEF Removes
  <2>2. Content[j] = values[j - 1] /\ Content[j + 1] = values[j]  BY <1>1
  <2> QED  BY <1>1, <1>3, <1>4, <2>1, <2>2
<1> QED  BY <1>2, <1>4, <1>5, SeqEqual

(* Updating at an index replaces the element there in the list.            *)
LEMMA ListOfUpdate ==
  ASSUME IInv, IInv', NEW e \in Entries, NEW i \in 0..used - 1, UpdateAt(e, i)
  PROVE  Content' = ReplaceAt(Content, i + 1, e)
<1>1. used' = used /\ \A j \in 0..used - 1 : values'[j] = IF j = i THEN e ELSE values[j]
  BY UpdateShape DEF IInv
<1>2. used \in Nat  BY ContentIsList DEF IsContent
<1>3. ASSUME NEW j \in 1..used PROVE values'[j - 1] = IF j = i + 1 THEN e ELSE values[j - 1]
  BY <1>1, <1>2
<1> QED  BY <1>1, <1>2, <1>3 DEF Content, ReplaceAt

(* resize() to less than the length cuts the list.                         *)
LEMMA ListOfResizeDown ==
  ASSUME IInv, IInv', NEW n \in Nat, ResizeDown(n)
  PROVE  n <= Len(Content) /\ Content' = SubSeq(Content, 1, n)
<1>0. IsContent'
  <2>1. (IInv => IsContent)'  BY ContentIsList, PTL
  <2> QED  BY <2>1
<1>1. used' = n /\ \A j \in 0..n - 1 : j < used => values'[j] = values[j]
  BY ResizeShape DEF IInv
<1>2. n <= used  BY DEF ResizeDown
<1>3. /\ Content \in Seq(Entries) /\ Len(Content) = used /\ used \in Nat
      /\ \A j \in 1..used : Content[j] = values[j - 1]
  BY ContentIsList DEF IsContent
<1>4. Content' \in Seq(Entries) /\ Len(Content') = n
  BY <1>0, <1>1 DEF IsContent
<1>5. \A j \in 1..n : Content'[j] = values'[j - 1]
  BY <1>0, <1>1 DEF IsContent
<1>6. SubSeq(Content, 1, n) \in Seq(Entries) /\ Len(SubSeq(Content, 1, n)) = n
  BY <1>2, <1>3
<1>7. ASSUME NEW j \in 1..n PROVE Content'[j] = SubSeq(Content, 1, n)[j]
  <2>1. values'[j - 1] = values[j - 1]  BY <1>1, <1>2, <1>3
  <2>2. SubSeq(Content, 1, n)[j] = Content[j]  BY <1>2, <1>3
  <2> QED  BY <1>2, <1>3, <1>5, <2>1, <2>2
<1> QED  BY <1>2, <1>3, <1>4, <1>6, <1>7, SeqEqual

(* The entries that resize() makes are new, and follow the others.         *)
LEMMA ListOfResizeUp ==
  ASSUME IInv, IInv', NEW n \in Nat, ResizeUp(n)
  PROVE  /\ n > Len(Content)
         /\ \E fill \in [1..n - Len(Content) -> Entries \ entries] :
              IsInjective(fill) /\ Content' = Content \o fill
<1>0. IsContent'
  <2>1. (IInv => IsContent)'  BY ContentIsList, PTL
  <2> QED  BY <2>1
<1>1. PICK f \in [used..n - 1 -> Entries \ entries] :
        IsInjective(f) /\ values' = [j \in 0..n - 1 |-> IF j < used THEN values[j] ELSE f[j]]
  BY DEF ResizeUp, Array
<1>2. used < n /\ used' = n  BY DEF ResizeUp
<1>3. /\ Content \in Seq(Entries) /\ Len(Content) = used /\ used \in Nat
      /\ \A j \in 1..used : Content[j] = values[j - 1]
  BY ContentIsList DEF IsContent
<1>4. Content' \in Seq(Entries) /\ Len(Content') = n
  BY <1>0, <1>2 DEF IsContent
<1>5. \A j \in 1..n : Content'[j] = values'[j - 1]
  BY <1>0, <1>2 DEF IsContent
<1> DEFINE fill == [k \in 1..n - used |-> f[used + k - 1]]
<1>6. \A k \in 1..n - used : used + k - 1 \in used..n - 1  BY <1>2, <1>3
<1>7. fill \in [1..n - used -> Entries \ entries]  BY <1>1, <1>6
<1>8. IsInjective(fill)
  <2> SUFFICES ASSUME NEW a \in 1..n - used, NEW b \in 1..n - used, fill[a] = fill[b] PROVE a = b
    BY DEF IsInjective
  <2>1. used + a - 1 = used + b - 1  BY <1>1, <1>6 DEF IsInjective
  <2> QED  BY <2>1, <1>3
<1>9. \A k \in 1..n - used : fill[k] = f[used + k - 1]  OBVIOUS
<1> HIDE DEF fill
<1>10. fill \in Seq(Entries) /\ Len(fill) = n - used
  <2>1. n - used \in Nat  BY <1>2, <1>3
  <2>2. fill \in [1..n - used -> Entries]  BY <1>7
  <2> QED  BY <2>1, <2>2
<1>11. /\ Content \o fill \in Seq(Entries) /\ Len(Content \o fill) = Len(Content) + Len(fill)
       /\ \A j \in 1..Len(Content) + Len(fill) :
            (Content \o fill)[j] = IF j <= Len(Content) THEN Content[j] ELSE fill[j - Len(Content)]
  BY <1>3, <1>10, ConcatProperties
<1>12. ASSUME NEW j \in 1..n PROVE Content'[j] = (Content \o fill)[j]
  <2>1. values'[j - 1] = IF j - 1 < used THEN values[j - 1] ELSE f[j - 1]  BY <1>1
  <2>2. (Content \o fill)[j] = IF j <= used THEN Content[j] ELSE fill[j - used]
    BY <1>2, <1>3, <1>10, <1>11
  <2>3. CASE j <= used  BY <1>3, <1>5, <2>1, <2>2, <2>3
  <2>4. CASE j > used
    <3>1. fill[j - used] = f[j - 1]  BY <1>3, <1>9, <2>4
    <3> QED  BY <1>3, <1>5, <2>1, <2>2, <2>4, <3>1
  <2>5. j <= used \/ j > used  BY <1>3
  <2> QED  BY <2>3, <2>4, <2>5
<1>13. Content' = Content \o fill
  <2>1. Len(Content \o fill) = n  BY <1>2, <1>3, <1>10, <1>11
  <2> QED  BY <1>4, <1>11, <1>12, <2>1, SeqEqual
<1> QED  BY <1>2, <1>3, <1>7, <1>8, <1>13

(* There are no more entries in the list than there are.                   *)
LEMMA NotMore ==
  ASSUME IInv
  PROVE  used <= Cardinality(Entries) /\ Cardinality(Entries) \in Nat
<1>1. used \in Nat /\ Cardinality(0..used - 1) = used
  BY ContentIsList, FS_Interval DEF IsContent
<1> DEFINE f == [i \in 0..used - 1 |-> values[i]]
<1>2. f \in Injection(0..used - 1, Entries)
  <2>1. f \in [0..used - 1 -> Entries]  BY DEF IInv, NothingLost, TypeOK
  <2>2. IsInjective(f)  BY DEF IInv, NothingLost, IsInjective
  <2> QED  BY <2>1, <2>2 DEF Injection
<1>3. Cardinality(0..used - 1) <= Cardinality(Entries)
  BY <1>2, EntriesAssumption, FS_Injection
<1> QED  BY <1>1, <1>3, EntriesAssumption, FS_CardinalityType
-----------------------------------------------------------------------------
(* Every call is one of EntryList, or leaves the list and the result alone. *)
LEMMA MethodImplements ==
  ASSUME "to_capacity" \notin Habits, IInv, IInv', Methods
  PROVE  List!VectorNext
<1>1. /\ Content \in Seq(Entries) /\ Len(Content) = used /\ DOMAIN Content = 1..used /\ used \in Nat
      /\ \A i \in 1..used : Content[i] = values[i - 1] /\ Content[i] \in entries
  BY ContentIsList DEF IsContent
<1>2. \A e \in Entries : e \notin entries => List!Fresh(e)
  BY <1>1 DEF List!Fresh, List!ToSet
<1>3. UNCHANGED <<values, used>> => Content' = Content
  BY DEF Content
<1>4. ASSUME NEW e \in Entries, NEW i \in 0..used, InsertEntry(e, i)
      PROVE  \E k \in 1..Len(Content) + 1 : List!Insert(k, e)
  <2>1. Content' = InsertAt(Content, i + 1, e)
    BY <1>4, InsertShape, ListOfInsert DEF IInv
  <2>2. i + 1 \in 1..Len(Content) + 1  BY <1>1
  <2>3. e \notin entries /\ out' = Nothing  BY <1>4 DEF InsertEntry, Fresh
  <2> QED  BY <1>2, <2>1, <2>2, <2>3 DEF List!Insert, List!InsertAt, InsertAt
<1>5. ASSUME NEW e \in Entries, NEW i \in 0..used, UpdateAt(e, i)
      PROVE  \E k \in 1..Len(Content) + 1 : List!Replace(k, e)
  <2>1. i \in 0..used - 1 /\ e \notin entries /\ out' = Nothing  BY <1>5 DEF UpdateAt, Fresh
  <2>2. Content' = ReplaceAt(Content, i + 1, e)  BY <1>5, <2>1, ListOfUpdate
  <2>3. i + 1 \in DOMAIN Content /\ i + 1 \in 1..Len(Content) + 1  BY <1>1, <2>1
  <2> QED  BY <1>2, <2>1, <2>2, <2>3 DEF List!Replace, List!ReplaceAt, ReplaceAt
<1>6. ASSUME NEW i \in 0..used - 1, Removes(i)
      PROVE  i + 1 \in DOMAIN Content /\ Content' = List!RemoveAt(Content, i + 1) /\ Content[i + 1] = values[i]
  <2>1. Content' = RemoveAt(Content, i + 1)  BY <1>6, ListOfRemove
  <2>2. i + 1 \in 1..used  BY <1>1
  <2> QED  BY <1>1, <2>1, <2>2 DEF List!RemoveAt, RemoveAt
<1>7. ASSUME NEW i \in 0..used, DeleteAt(i)
      PROVE  \E k \in DOMAIN Content : List!Delete(k)
  <2>1. i \in 0..used - 1 /\ out' = Nothing  BY <1>7 DEF DeleteAt
  <2>2. Removes(i)  BY <1>7, <2>1, RemoveShape DEF IInv
  <2> QED  BY <1>6, <2>1, <2>2 DEF List!Delete
<1>8. CASE Pop
  <2>1. used - 1 \in 0..used - 1 /\ out' = values[used - 1]  BY <1>1, <1>8 DEF Pop
  <2>2. Removes(used - 1)  BY <1>8, <2>1, RemoveShape DEF IInv
  <2>3. \E k \in DOMAIN Content : List!Take(k)  BY <1>6, <2>1, <2>2 DEF List!Take
  <2> QED  BY <2>3 DEF List!VectorNext
<1>9. CASE Shift
  <2>1. 0 \in 0..used - 1 /\ out' = values[0]  BY <1>1, <1>9 DEF Shift
  <2>2. Removes(0)  BY <1>9, <2>1, RemoveShape DEF IInv
  <2>3. \E k \in DOMAIN Content : List!Take(k)  BY <1>6, <2>1, <2>2 DEF List!Take
  <2> QED  BY <2>3 DEF List!VectorNext
<1>10. ASSUME NEW i \in 0..used, FetchAt(i)
       PROVE  \E k \in DOMAIN Content : List!Read(k)
  <2>1. i \in 0..used - 1 /\ out' = values[i] /\ UNCHANGED <<values, used>>  BY <1>10 DEF FetchAt
  <2>2. i + 1 \in DOMAIN Content /\ Content[i + 1] = values[i]  BY <1>1, <2>1
  <2> QED  BY <1>3, <2>1, <2>2 DEF List!Read
<1>11. CASE ResizeSame
  <2>1. out' = used /\ Content' = Content  BY <1>3, <1>11 DEF ResizeSame
  <2>2. SubSeq(Content, 1, used) = Content  BY <1>1, SubSeqFull
  <2>3. used \in 0..Cardinality(Entries)  BY <1>1, NotMore
  <2>4. List!Resize(used)  BY <1>1, <2>1, <2>2 DEF List!Resize
  <2> QED  BY <2>3, <2>4 DEF List!VectorNext, List!Cardinality, Cardinality
<1>12. ASSUME NEW n \in 0..Cardinality(Entries), ResizeUp(n) PROVE List!Resize(n)
  <2>1. n \in Nat /\ out' = n  BY <1>12, NotMore DEF ResizeUp
  <2>2. PICK fill \in [1..n - Len(Content) -> Entries \ entries] :
          n > Len(Content) /\ IsInjective(fill) /\ Content' = Content \o fill
    BY <1>12, <2>1, ListOfResizeUp
  <2>3. fill \in [1..n - Len(Content) -> {e \in Entries : List!Fresh(e)}]  BY <1>2
  <2>4. ~(n <= Len(Content))  BY <1>1, <2>1, <2>2
  <2> QED  BY <2>1, <2>2, <2>3, <2>4 DEF List!Resize, List!IsInjective, IsInjective
<1>13. ASSUME NEW n \in 0..Cardinality(Entries), ResizeDown(n) PROVE List!Resize(n)
  <2>1. n \in Nat /\ out' = n  BY <1>13, NotMore DEF ResizeDown
  <2> QED  BY <1>13, <2>1, ListOfResizeDown DEF List!Resize
<1>14. CASE Fails \/ \E e \in Entries : BadInsertOrUpdate(e)
  <2>1. out' = Error /\ UNCHANGED <<values, used>>  BY <1>14 DEF Fails, BadInsertOrUpdate
  <2> QED  BY <1>3, <2>1 DEF List!VectorNext, List!Fail
<1>15. ASSUME NEW e \in Entries, NEW k \in 1..Len(Content) + 1, List!Insert(k, e) \/ List!Replace(k, e)
       PROVE  List!VectorNext
  BY <1>15 DEF List!VectorNext
<1>16. ASSUME NEW k \in DOMAIN Content, List!Delete(k) \/ List!Read(k) PROVE List!VectorNext
  BY <1>16 DEF List!VectorNext
<1>17. ASSUME NEW n \in 0..Cardinality(Entries), List!Resize(n) PROVE List!VectorNext
  BY <1>17 DEF List!VectorNext, List!Cardinality, Cardinality
<1> QED
  BY <1>4, <1>5, <1>7, <1>8, <1>9, <1>10, <1>11, <1>12, <1>13, <1>14, <1>15, <1>16, <1>17 DEF Methods

(* The vector is a list: every index reads the entry that was put there,   *)
(* and resize(n) makes it n long, in programs that do not call resize()    *)
(* with the capacity of a vector that is not full.                         *)
THEOREM VectorIsList ==
  ASSUME "to_capacity" \notin Habits
  PROVE  Spec => IsList
<1>1. Init => List!Init
  <2> SUFFICES ASSUME Init PROVE List!Init  OBVIOUS
  <2>1. used = 0 /\ out = Nothing  BY DEF Init
  <2> QED  BY <2>1 DEF Content, List!Init
<1>2. IInv /\ IInv' /\ [Next]_vars => [List!VectorNext]_<<Content, out>>
  <2> SUFFICES ASSUME IInv, IInv', [Next]_vars PROVE [List!VectorNext]_<<Content, out>>  OBVIOUS
  <2>1. CASE Methods  BY <2>1, MethodImplements
  <2>2. CASE UNCHANGED listVars
    BY <2>2 DEF listVars, Content
  <2> QED  BY <2>1, <2>2 DEF Next, VoGetProperties, vars
<1> QED  BY <1>1, <1>2, Invariant, PTL DEF Spec, IsList, List!VectorSpec, List!vars
=============================================================================
