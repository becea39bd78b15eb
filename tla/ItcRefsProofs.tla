----------------------------- MODULE ItcRefsProofs ----------------------------
(***************************************************************************)
(* Proofs about ItcRefs for any threads, structures and references: in     *)
(* every program whoever waits for a mutex waits for a section or a count; *)
(* in programs that do not count a structure while they have locked it the *)
(* reference counts are exact, locks exclude and nothing is left unfreed,  *)
(* whatever other locks they hold and however they nest their containers.  *)
(***************************************************************************)
EXTENDS ItcRefs, FiniteSetTheorems, SequenceTheorems, TLAPS

(* The places a thread alone can drop a reference from.                    *)
Mine(t) == {<<"handle", t>>, <<"task", t>>, <<"hand", t>>}
Inside == {"in"} \X Containers

(* A reference that is to be dropped is the dropping thread's own, exists, *)
(* and is dropped once.                                                    *)
TodoMine == \A t \in Threads : \A i \in DOMAIN todo[t] :
              place[todo[t][i]] \in Mine(t) /\ target[todo[t][i]] # NoStruct
TodoOnce == \A t \in Threads : \A i, j \in DOMAIN todo[t] :
              /\ todo[t][i] = todo[t][j] => i = j
              /\ todo[t][i] \notin src[t]
SrcMine == \A t \in Threads :
  /\ pc[t] # "dec_end" => src[t] = {}
  /\ pc[t] = "dec_end" => \E r \in RefIds :
       src[t] = {r} /\ place[r] \in Mine(t) /\ target[r] = cur[t]

(* Unused references are nowhere; a thread counts one structure or none,   *)
(* and has a place only for a reference it makes; what is used has been    *)
(* created.                                                                *)
PlaceInv == \A r \in RefIds : target[r] = NoStruct => place[r] = Nowhere
CurInv == \A t \in Threads :
  /\ pc[t] = "idle" => cur[t] = NoStruct
  /\ pc[t] # "idle" => \E s \in Structs : cur[t] = {s}
  /\ pc[t] \notin {"inc", "inc_end"} => dest[t] = Nowhere
UsedInv ==
  /\ \A r \in RefIds, s \in Structs : target[r] = {s} => state[s] # "unused"
  /\ \A t \in Threads, s \in Structs : cur[t] = {s} => state[s] # "unused"

HandInv == /\ TodoMine /\ TodoOnce /\ SrcMine
           /\ PlaceInv /\ CurInv /\ UsedInv

(* A mutex has at most one owner, the only thread that has locked it, by   *)
(* lock() or to count, and is held as often as that thread has locked it.  *)
Hold(t, s) == claims[t][s] + IF Counting(t, s) THEN 1 ELSE 0
Unowned(s) == owner[s] = {} /\ depth[s] = 0 /\ \A u \in Threads : Hold(u, s) = 0
OwnedBy(s, t) == /\ owner[s] = {t} /\ depth[s] = Hold(t, s) /\ depth[s] > 0
                 /\ \A u \in Threads \ {t} : Hold(u, s) = 0
MutexInv == \A s \in Structs : Unowned(s) \/ \E t \in Threads : OwnedBy(s, t)

(* The count is exact, and a load is still good when it is stored.         *)
CountInv ==
  /\ \A s \in Structs : refcount[s] = Cardinality(Refs(s))
  /\ \A t \in Threads, s \in Structs : Counting(t, s) => tmp[t] = refcount[s]

IInv == TypeOK /\ HandInv /\ MutexInv /\ CountInv

-----------------------------------------------------------------------------
(* A place belongs to one thread, or to a container, or to nobody.         *)
LEMMA MineApart ==
  /\ \A t, u : t # u => Mine(t) \cap Mine(u) = {}
  /\ \A t : Mine(t) \cap Inside = {} /\ Nowhere \notin Mine(t)
  /\ Nowhere \notin Inside
  /\ \A t \in Threads : Mine(t) \subseteq Places
BY DEF Mine, Inside, Nowhere, Places

(* What Share, Put, Receive, Peek and Pop have in common.                  *)
CopyEffect(t, s, d) ==
  /\ Idle(t) /\ state[s] # "unused" /\ d \in Places
  /\ pc' = [pc EXCEPT ![t] = "inc"]
  /\ cur' = [cur EXCEPT ![t] = {s}]
  /\ dest' = [dest EXCEPT ![t] = d]
  /\ UNCHANGED <<state, refcount, mutexVars, target, src, tmp, claims>>
Copies(t) ==
  /\ \E s \in Structs, d \in Places : CopyEffect(t, s, d)
  /\ UNCHANGED <<place, todo>>
Pops(t) ==
  /\ \E s \in Structs, d \in Places : CopyEffect(t, s, d)
  /\ \E r \in RefIds :
       /\ \E s \in Structs : target[r] = {s}
       /\ place[r] \in Inside
       /\ place' = [place EXCEPT ![r] = <<"hand", t>>]
       /\ todo' = [todo EXCEPT ![t] = <<r>>]
(* What DropHandle and DropTask have in common.                            *)
Drops(t) ==
  /\ Idle(t)
  /\ \E r \in RefIds :
       /\ \E s \in Structs : target[r] = {s}
       /\ place[r] \in Mine(t)
       /\ todo' = [todo EXCEPT ![t] = <<r>>]
  /\ UNCHANGED <<state, refcount, mutexVars, target, place, pc, cur, src, dest, tmp, claims>>

(* Share, Put, Receive and Peek begin to count something in use.           *)
LEMMA CopiesEffect ==
  ASSUME IInv, NEW t \in Threads,
         \/ \E s \in Structs, u \in Threads : Share(t, s, u)
         \/ \E s \in Structs, c \in Containers : Put(t, s, c)
         \/ \E r \in RefIds : Receive(t, r)
         \/ \E r \in RefIds, c \in Containers : Peek(t, r, c)
  PROVE  Copies(t)
<1> USE DEF IInv, HandInv
<1>1. ASSUME NEW s \in Structs, NEW u \in Threads, Share(t, s, u) PROVE Copies(t)
  <2>1. state[s] # "unused"  BY <1>1 DEF Share, HasHandle, Refs, UsedInv
  <2>2. <<"task", u>> \in Places  BY DEF Places
  <2>3. CopyEffect(t, s, <<"task", u>>)  BY <1>1, <2>1, <2>2 DEF Share, BeginCopy, CopyEffect
  <2> QED  BY <1>1, <2>2, <2>3 DEF Share, Copies
<1>2. ASSUME NEW s \in Structs, NEW c \in Containers, Put(t, s, c) PROVE Copies(t)
  <2>1. state[s] # "unused"  BY <1>2 DEF Put, HasHandle, Refs, UsedInv
  <2>2. <<"in", c>> \in Places  BY DEF Places
  <2>3. CopyEffect(t, s, <<"in", c>>)  BY <1>2, <2>1, <2>2 DEF Put, BeginCopy, CopyEffect
  <2> QED  BY <1>2, <2>2, <2>3 DEF Put, Copies
<1>3. <<"handle", t>> \in Places  BY DEF Places
<1>4. ASSUME NEW r \in RefIds, Receive(t, r) PROVE Copies(t)
  <2>1. PICK s \in Structs : target[r] = {s} /\ BeginCopy(t, s, <<"handle", t>>)
    BY <1>4 DEF Receive
  <2>2. state[s] # "unused"  BY <2>1 DEF UsedInv
  <2>3. CopyEffect(t, s, <<"handle", t>>)
    BY <1>3, <1>4, <2>1, <2>2 DEF Receive, BeginCopy, CopyEffect
  <2> QED  BY <1>3, <1>4, <2>3 DEF Receive, Copies
<1>5. ASSUME NEW r \in RefIds, NEW c \in Containers, Peek(t, r, c) PROVE Copies(t)
  <2>1. PICK s \in Structs : target[r] = {s} /\ BeginCopy(t, s, <<"handle", t>>)
    BY <1>5 DEF Peek
  <2>2. state[s] # "unused"  BY <2>1 DEF UsedInv
  <2>3. CopyEffect(t, s, <<"handle", t>>)
    BY <1>3, <1>5, <2>1, <2>2 DEF Peek, BeginCopy, CopyEffect
  <2> QED  BY <1>3, <1>5, <2>3 DEF Peek, Copies
<1> QED  BY <1>1, <1>2, <1>4, <1>5

(* Pop begins to count and puts the container's entry in the thread's hand.*)
LEMMA PopsEffect ==
  ASSUME IInv, NEW t \in Threads, NEW r \in RefIds, NEW c \in Containers, Pop(t, r, c)
  PROVE  Pops(t)
<1> USE DEF IInv, HandInv
<1>1. PICK s \in Structs : target[r] = {s} /\ BeginCopy(t, s, <<"handle", t>>)
  BY DEF Pop
<1>2. place[r] \in Inside  BY DEF Pop, Inside
<1>3. state[s] # "unused"  BY <1>1 DEF UsedInv
<1>4. <<"handle", t>> \in Places  BY DEF Places
<1>5. CopyEffect(t, s, <<"handle", t>>)
  BY <1>1, <1>3, <1>4 DEF Pop, BeginCopy, CopyEffect
<1> QED  BY <1>1, <1>2, <1>4, <1>5 DEF Pop, Pops

(* DropHandle and DropTask list one reference of the thread's own.         *)
LEMMA DropsEffect ==
  ASSUME IInv, NEW t \in Threads, NEW r \in RefIds, DropHandle(t, r) \/ DropTask(t, r)
  PROVE  Drops(t)
<1> USE DEF IInv, HandInv
<1>1. place[r] \in Mine(t)  BY DEF DropHandle, DropTask, Mine
<1>2. target[r] # NoStruct  BY <1>1, MineApart DEF PlaceInv
<1>3. \E s \in Structs : target[r] = {s}  BY <1>2 DEF TypeOK
<1> QED  BY <1>1, <1>3 DEF DropHandle, DropTask, Drops

-----------------------------------------------------------------------------
(* Every step is one of these.                                             *)
Counts(t, s) == \/ IncBegin(t, s) \/ IncEnd(t, s) \/ DecBegin(t, s) \/ DecEnd(t, s)
                \/ Check(t, s) \/ Free(t, s) \/ Lock(t, s) \/ Unlock(t, s)

(* What a step is.                                                         *)
LEMMA StepCases ==
  ASSUME IInv, [Next]_vars
  PROVE  \/ \E s \in Structs : New(s)
         \/ \E t \in Threads : Copies(t) \/ Pops(t) \/ Drops(t) \/ \E s \in Structs : Counts(t, s)
         \/ UNCHANGED vars
<1>1. ASSUME NEW t \in Threads, Step(t)
      PROVE  Copies(t) \/ Pops(t) \/ Drops(t) \/ \E s \in Structs : Counts(t, s)
  <2>1. CASE \E s \in Structs : Counts(t, s)  BY <2>1
  <2>2. CASE \/ \E s \in Structs, u \in Threads : Share(t, s, u)
             \/ \E s \in Structs, c \in Containers : Put(t, s, c)
             \/ \E r \in RefIds : Receive(t, r)
             \/ \E r \in RefIds, c \in Containers : Peek(t, r, c)
    BY <2>2, CopiesEffect
  <2>3. CASE \E r \in RefIds, c \in Containers : Pop(t, r, c)  BY <2>3, PopsEffect
  <2>4. CASE \E r \in RefIds : DropHandle(t, r) \/ DropTask(t, r)  BY <2>4, DropsEffect
  <2> QED  BY <1>1, <2>1, <2>2, <2>3, <2>4 DEF Step, Counts
<1> QED  BY <1>1 DEF Next

(* The mutex operations keep their types; only a held mutex is unlocked.   *)
LEMMA LockedType ==
  ASSUME TypeOK, NEW t \in Threads, NEW s \in Structs, Locked(t, s)
  PROVE  owner' \in [Structs -> SUBSET Threads] /\ depth' \in [Structs -> Nat]
BY DEF TypeOK, Locked

(* Mutexes keep their type.                                                *)
LEMMA UnlockedType ==
  ASSUME TypeOK, NEW s \in Structs, depth[s] > 0, Unlocked(s)
  PROVE  owner' \in [Structs -> SUBSET Threads] /\ depth' \in [Structs -> Nat]
BY DEF TypeOK, Unlocked

(* Any order of a container's entries is a list of references.             *)
LEMMA FreeSeq ==
  ASSUME TypeOK, NEW s \in Structs, NEW t \in Threads,
         NEW order \in [1..Cardinality(Contents(s)) -> Contents(s)]
  PROVE  order \in Seq(RefIds) /\ todo[t] \in Seq(RefIds)
<1>1. PICK n : n = Cardinality(Contents(s))  OBVIOUS
<1>2. n \in Nat
  BY <1>1, RefIdsAssumption, FS_Subset, FS_CardinalityType DEF Contents
<1>3. Contents(s) \subseteq RefIds  BY DEF Contents
<1>4. order \in [1..n -> RefIds]  BY <1>1, <1>3
<1> QED  BY <1>2, <1>4 DEF TypeOK

(* The first reference of a list, and the rest.                            *)
LEMMA HeadOfTodo ==
  ASSUME TypeOK, NEW t \in Threads, todo[t] # <<>>
  PROVE  /\ Head(todo[t]) \in RefIds /\ Tail(todo[t]) \in Seq(RefIds)
         /\ 1 \in DOMAIN todo[t] /\ Head(todo[t]) = todo[t][1]
         /\ \A i \in DOMAIN Tail(todo[t]) :
              i \in Nat /\ i + 1 \in DOMAIN todo[t] /\ Tail(todo[t])[i] = todo[t][i + 1] /\ i + 1 # 1
<1>1. todo[t] \in Seq(RefIds)  BY DEF TypeOK
<1>2. Len(todo[t]) \in Nat /\ Len(todo[t]) > 0 /\ DOMAIN todo[t] = 1..Len(todo[t])
  BY <1>1, EmptySeq
<1> QED  BY <1>1, <1>2, HeadTailProperties

(* Every step keeps the types.                                             *)
LEMMA TypeStep ==
  ASSUME IInv, "count_locked" \notin Habits, [Next]_vars
  PROVE  TypeOK'
<1> USE DEF IInv, TypeOK
<1>1. ASSUME NEW s \in Structs, New(s) PROVE TypeOK'
  <2>1. <<"handle", Main>> \in Places  BY ThreadsAssumption DEF Places
  <2>2. target' \in [RefIds -> {NoStruct} \cup {{x} : x \in Structs}]
        /\ place' \in [RefIds -> Places]
    BY <1>1, <2>1 DEF New, UnusedRefs
  <2> QED  BY <1>1, <2>2 DEF New, mutexVars, threadVars
<1>2. ASSUME NEW t \in Threads, Copies(t) PROVE TypeOK'
  BY <1>2 DEF Copies, CopyEffect, mutexVars
<1>3. ASSUME NEW t \in Threads, Pops(t) PROVE TypeOK'
  <2>1. <<"hand", t>> \in Places  BY DEF Places
  <2> QED  BY <1>3, <2>1 DEF Pops, CopyEffect, mutexVars
<1>4. ASSUME NEW t \in Threads, Drops(t) PROVE TypeOK'
  BY <1>4 DEF Drops, mutexVars
<1>5. ASSUME NEW t \in Threads, NEW s \in Structs, Counting(t, s) PROVE depth[s] > 0
  <2>1. Hold(t, s) > 0  BY <1>5 DEF Hold
  <2> QED  BY <2>1 DEF MutexInv, Unowned, OwnedBy
<1>6. ASSUME NEW t \in Threads, NEW s \in Structs, IncBegin(t, s) PROVE TypeOK'
  BY <1>6, LockedType DEF IncBegin, Guarded
<1>7. ASSUME NEW t \in Threads, NEW s \in Structs, IncEnd(t, s) PROVE TypeOK'
  <2>1. owner' \in [Structs -> SUBSET Threads] /\ depth' \in [Structs -> Nat]
    BY <1>7, <1>5, UnlockedType DEF IncEnd, Released, Counting
  <2>2. tmp[t] + 1 \in Nat /\ Nowhere \in Places  BY DEF Places
  <2>3. target' \in [RefIds -> {NoStruct} \cup {{x} : x \in Structs}]
        /\ place' \in [RefIds -> Places]
    BY <1>7 DEF IncEnd, UnusedRefs
  <2> QED  BY <1>7, <2>1, <2>2, <2>3 DEF IncEnd, Incremented
<1>8. ASSUME NEW t \in Threads, NEW s \in Structs, DecBegin(t, s) PROVE TypeOK'
  <2>1. owner' \in [Structs -> SUBSET Threads] /\ depth' \in [Structs -> Nat]
    BY <1>8, LockedType DEF DecBegin, Guarded
  <2>2. Head(todo[t]) \in RefIds /\ Tail(todo[t]) \in Seq(RefIds)
    BY <1>8, HeadOfTodo DEF DecBegin
  <2>3. todo' \in [Threads -> Seq(RefIds)] /\ src' \in [Threads -> SUBSET RefIds]
    BY <1>8, <2>2 DEF DecBegin
  <2> QED  BY <1>8, <2>1, <2>3 DEF DecBegin
<1>9. ASSUME NEW t \in Threads, NEW s \in Structs, DecEnd(t, s) PROVE TypeOK'
  <2>1. tmp[t] - 1 \in Nat
    <3>1. tmp[t] = Cardinality(Refs(s))  BY <1>9 DEF DecEnd, Counting, CountInv
    <3>2. \E r \in RefIds : target[r] = {s}  BY <1>9 DEF DecEnd, HandInv, SrcMine
    <3>3. IsFiniteSet(Refs(s)) /\ Refs(s) # {}
      BY <3>2, RefIdsAssumption, FS_Subset DEF Refs
    <3> QED  BY <3>1, <3>3, FS_CardinalityType, FS_EmptySet
  <2> QED  BY <1>9, <2>1, <1>5, UnlockedType DEF DecEnd, Released, Counting, Places
<1>10. ASSUME NEW t \in Threads, NEW s \in Structs, Check(t, s) PROVE TypeOK'
  BY <1>10 DEF Check, mutexVars
<1>11. ASSUME NEW t \in Threads, NEW s \in Structs, Free(t, s) PROVE TypeOK'
  <2>1. PICK order \in [1..Cardinality(Contents(s)) -> Contents(s)] :
          todo' = [todo EXCEPT ![t] = order \o @]
    BY <1>11 DEF Free
  <2>2. order \o todo[t] \in Seq(RefIds)
    <3>1. order \in Seq(RefIds) /\ todo[t] \in Seq(RefIds)  BY FreeSeq
    <3> QED  BY <3>1, ConcatProperties
  <2>3. todo' \in [Threads -> Seq(RefIds)]  BY <2>1, <2>2
  <2>4. <<"hand", t>> \in Places  BY DEF Places
  <2> QED  BY <1>11, <2>3, <2>4 DEF Free, mutexVars
<1>12. ASSUME NEW t \in Threads, NEW s \in Structs, Lock(t, s) PROVE TypeOK'
  <2>1. owner' \in [Structs -> SUBSET Threads] /\ depth' \in [Structs -> Nat]
    BY <1>12, LockedType DEF Lock, Taken
  <2>2. claims' \in [Threads -> [Structs -> Nat]]  BY <1>12 DEF Lock
  <2> QED  BY <1>12, <2>1, <2>2 DEF Lock, threadVars
<1>13. ASSUME NEW t \in Threads, NEW s \in Structs, Unlock(t, s) PROVE TypeOK'
  <2>1. owner[s] = {t} => depth[s] > 0  BY DEF MutexInv, Unowned, OwnedBy
  <2>2. owner' \in [Structs -> SUBSET Threads] /\ depth' \in [Structs -> Nat]
    BY <1>13, <2>1, UnlockedType DEF Unlock, mutexVars
  <2>3. claims[t][s] - 1 \in Nat  BY <1>13 DEF Unlock
  <2> QED  BY <1>13, <2>2, <2>3 DEF Unlock, threadVars
<1>14. CASE UNCHANGED vars
  BY <1>14 DEF vars, mutexVars, threadVars
<1> QED
  BY <1>1, <1>2, <1>3, <1>4, <1>6, <1>7, <1>8, <1>9, <1>10, <1>11, <1>12, <1>13, <1>14,
     StepCases DEF Counts

-----------------------------------------------------------------------------
(* What each step makes of every function, one value at a time.            *)
At(f, g, x, v, D) == \A y \in D : g[y] = IF y = x THEN v ELSE f[y]

NewAfter(s, r) ==
  /\ r \in RefIds /\ target[r] = NoStruct /\ state[s] = "unused"
  /\ At(target, target', r, {s}, RefIds) /\ \E p \in Mine(Main) : At(place, place', r, p, RefIds)
  /\ At(state, state', s, "live", Structs) /\ At(refcount, refcount', s, 1, Structs)
  /\ UNCHANGED <<owner, depth, pc, cur, src, dest, tmp, todo, claims>>
CopyAfter(t, s, d) ==
  /\ pc[t] = "idle" /\ todo[t] = <<>> /\ state[s] # "unused"
  /\ At(pc, pc', t, "inc", Threads) /\ At(cur, cur', t, {s}, Threads) /\ At(dest, dest', t, d, Threads)
  /\ UNCHANGED <<state, refcount, owner, depth, target, src, tmp, claims>>
PopAfter(t, r) ==
  /\ r \in RefIds /\ place[r] \in Inside
  /\ \E s \in Structs : target[r] = {s}
  /\ (\E p \in Mine(t) : At(place, place', r, p, RefIds)) /\ At(todo, todo', t, <<r>>, Threads)
DropAfter(t, r) ==
  /\ r \in RefIds /\ place[r] \in Mine(t) /\ pc[t] = "idle" /\ todo[t] = <<>>
  /\ \E s \in Structs : target[r] = {s}
  /\ At(todo, todo', t, <<r>>, Threads)
  /\ UNCHANGED <<state, refcount, owner, depth, target, place, pc, cur, src, dest, tmp, claims>>
IncBeginAfter(t, s) ==
  /\ pc[t] = "inc" /\ cur[t] = {s} /\ (s \in Containers => claims[t][s] = 0)
  /\ At(tmp, tmp', t, refcount[s], Threads) /\ At(pc, pc', t, "inc_end", Threads)
  /\ UNCHANGED <<state, refcount, target, place, cur, src, dest, todo, claims>>
IncEndAfter(t, s, r) ==
  /\ pc[t] = "inc_end" /\ cur[t] = {s} /\ r \in RefIds /\ target[r] = NoStruct
  /\ At(refcount, refcount', s, tmp[t] + 1, Structs)
  /\ At(target, target', r, {s}, RefIds) /\ At(place, place', r, dest[t], RefIds)
  /\ At(pc, pc', t, "idle", Threads) /\ At(cur, cur', t, NoStruct, Threads)
  /\ At(dest, dest', t, Nowhere, Threads) /\ At(tmp, tmp', t, 0, Threads)
  /\ UNCHANGED <<state, src, todo, claims>>
DecBeginAfter(t, s, r) ==
  /\ pc[t] = "idle" /\ r \in RefIds /\ target[r] = {s} /\ (s \in Containers => claims[t][s] = 0)
  /\ 1 \in DOMAIN todo[t] /\ r = todo[t][1]
  /\ \A i \in DOMAIN todo'[t] :
       i \in Nat /\ i + 1 \in DOMAIN todo[t] /\ todo'[t][i] = todo[t][i + 1] /\ i + 1 # 1
  /\ \A u \in Threads \ {t} : todo'[u] = todo[u]
  /\ At(tmp, tmp', t, refcount[s], Threads) /\ At(src, src', t, {r}, Threads)
  /\ At(cur, cur', t, {s}, Threads) /\ At(pc, pc', t, "dec_end", Threads)
  /\ UNCHANGED <<state, refcount, target, place, dest, claims>>
DecEndAfter(t, s, r) ==
  /\ pc[t] = "dec_end" /\ cur[t] = {s} /\ r \in RefIds /\ src[t] = {r}
  /\ place[r] \in Mine(t) /\ target[r] = {s}
  /\ At(refcount, refcount', s, tmp[t] - 1, Structs)
  /\ At(target, target', r, NoStruct, RefIds) /\ At(place, place', r, Nowhere, RefIds)
  /\ At(pc, pc', t, "check", Threads) /\ At(src, src', t, {}, Threads) /\ At(tmp, tmp', t, 0, Threads)
  /\ UNCHANGED <<state, cur, dest, todo, claims>>
CheckAfter(t, s) ==
  /\ pc[t] = "check" /\ cur[t] = {s}
  /\ \/ refcount[s] = 0 /\ At(pc, pc', t, "free", Threads) /\ UNCHANGED cur
     \/ refcount[s] # 0 /\ At(pc, pc', t, "idle", Threads) /\ At(cur, cur', t, NoStruct, Threads)
  /\ UNCHANGED <<state, refcount, owner, depth, target, place, src, dest, tmp, todo, claims>>
FreeAfter(t, s, list, n) ==
  /\ pc[t] = "free" /\ cur[t] = {s}
  /\ \A i \in DOMAIN list :
       /\ i \in Nat
       /\ i <= n => list[i] \in Contents(s)
       /\ ~(i <= n) => i - n \in DOMAIN todo[t] /\ list[i] = todo[t][i - n]
  /\ \A i, j \in DOMAIN list : i <= n /\ j <= n /\ list[i] = list[j] => i = j
  /\ At(todo, todo', t, list, Threads)
  /\ At(state, state', s, "freed", Structs)
  /\ \A r \in Contents(s) : place[r] \in Inside /\ s \in Containers
  /\ \E p \in Mine(t) : \A r \in RefIds : place'[r] = IF r \in Contents(s) THEN p ELSE place[r]
  /\ At(pc, pc', t, "idle", Threads) /\ At(cur, cur', t, NoStruct, Threads)
  /\ UNCHANGED <<refcount, owner, depth, target, src, dest, tmp, claims>>

(* Each step, as what it does to every reference, thread and structure.    *)
LEMMA NewPoints ==
  ASSUME TypeOK, NEW s \in Structs, New(s)
  PROVE  \E r \in RefIds : NewAfter(s, r)
<1>1. PICK r \in UnusedRefs : /\ target' = [target EXCEPT ![r] = {s}]
                             /\ place' = [place EXCEPT ![r] = <<"handle", Main>>]
  BY DEF New
<1>2. \E p \in Mine(Main) : At(place, place', r, p, RefIds)
  BY <1>1 DEF At, TypeOK, Mine
<1>3. NewAfter(s, r)
  BY <1>1, <1>2 DEF New, NewAfter, At, UnusedRefs, TypeOK, mutexVars, threadVars
<1> QED  BY <1>1, <1>3 DEF UnusedRefs

(* Share, Put, Receive and Peek.                                           *)
LEMMA CopyPoints ==
  ASSUME TypeOK, NEW t \in Threads, NEW s \in Structs, NEW d, CopyEffect(t, s, d)
  PROVE  CopyAfter(t, s, d)
BY DEF CopyEffect, CopyAfter, At, TypeOK, Idle, mutexVars

(* Pop.                                                                    *)
LEMMA PopPoints ==
  ASSUME TypeOK, NEW t \in Threads, Pops(t)
  PROVE  \E r \in RefIds : PopAfter(t, r)
<1>1. PICK r \in RefIds :
        /\ \E s \in Structs : target[r] = {s}
        /\ place[r] \in Inside
        /\ place' = [place EXCEPT ![r] = <<"hand", t>>]
        /\ todo' = [todo EXCEPT ![t] = <<r>>]
  BY DEF Pops
<1>2. \E p \in Mine(t) : At(place, place', r, p, RefIds)
  BY <1>1 DEF At, TypeOK, Mine
<1> QED  BY <1>1, <1>2 DEF PopAfter, At, TypeOK

(* DropHandle and DropTask.                                                *)
LEMMA DropPoints ==
  ASSUME TypeOK, NEW t \in Threads, Drops(t)
  PROVE  \E r \in RefIds : DropAfter(t, r)
<1>1. PICK r \in RefIds :
        /\ \E s \in Structs : target[r] = {s}
        /\ place[r] \in Mine(t)
        /\ todo' = [todo EXCEPT ![t] = <<r>>]
  BY DEF Drops
<1> QED  BY <1>1 DEF Drops, DropAfter, At, TypeOK, Idle, mutexVars

(* What a thread may count it has not locked, if it is a container.        *)
LEMMA CalmContainer ==
  ASSUME TypeOK, "count_locked" \notin Habits, NEW t \in Threads, NEW s \in Structs, Calm(t, s)
  PROVE  s \in Containers => claims[t][s] = 0
<1>1. claims[t][s] \in Nat  BY DEF TypeOK
<1> QED  BY <1>1, StructsAssumption DEF Calm, Claimed

(* IncBegin.                                                               *)
LEMMA IncBeginPoints ==
  ASSUME TypeOK, "count_locked" \notin Habits, NEW t \in Threads, NEW s \in Structs, IncBegin(t, s)
  PROVE  IncBeginAfter(t, s)
<1>1. s \in Containers => claims[t][s] = 0  BY CalmContainer DEF IncBegin
<1> QED  BY <1>1 DEF IncBegin, IncBeginAfter, At, TypeOK

(* IncEnd.                                                                 *)
LEMMA IncEndPoints ==
  ASSUME TypeOK, NEW t \in Threads, NEW s \in Structs, IncEnd(t, s)
  PROVE  \E r \in RefIds : IncEndAfter(t, s, r)
<1>1. PICK r \in UnusedRefs : /\ target' = [target EXCEPT ![r] = {s}]
                             /\ place' = [place EXCEPT ![r] = dest[t]]
  BY DEF IncEnd
<1>2. At(target, target', r, {s}, RefIds) /\ At(place, place', r, dest[t], RefIds)
  BY <1>1 DEF At, TypeOK, UnusedRefs
<1>3. At(refcount, refcount', s, tmp[t] + 1, Structs)
  BY DEF At, IncEnd, Incremented, TypeOK
<1>4. /\ At(pc, pc', t, "idle", Threads) /\ At(cur, cur', t, NoStruct, Threads)
      /\ At(dest, dest', t, Nowhere, Threads) /\ At(tmp, tmp', t, 0, Threads)
  BY DEF At, IncEnd, TypeOK
<1>5. IncEndAfter(t, s, r)
  BY <1>1, <1>2, <1>3, <1>4 DEF IncEnd, IncEndAfter, UnusedRefs
<1> QED  BY <1>1, <1>5 DEF UnusedRefs

(* DecBegin.                                                               *)
LEMMA DecBeginPoints ==
  ASSUME TypeOK, "count_locked" \notin Habits, NEW t \in Threads, NEW s \in Structs, DecBegin(t, s)
  PROVE  \E r \in RefIds : DecBeginAfter(t, s, r)
<1>1. todo[t] # <<>> /\ target[Head(todo[t])] = {s}  BY DEF DecBegin
<1>2. todo'[t] = Tail(todo[t]) /\ \A u \in Threads \ {t} : todo'[u] = todo[u]
  BY DEF DecBegin, TypeOK
<1>3. s \in Containers => claims[t][s] = 0  BY CalmContainer DEF DecBegin
<1>4. /\ At(tmp, tmp', t, refcount[s], Threads) /\ At(src, src', t, {Head(todo[t])}, Threads)
      /\ At(cur, cur', t, {s}, Threads) /\ At(pc, pc', t, "dec_end", Threads)
  BY DEF DecBegin, At, TypeOK
<1>5. DecBeginAfter(t, s, Head(todo[t]))
  BY <1>1, <1>2, <1>3, <1>4, HeadOfTodo DEF DecBegin, DecBeginAfter
<1> QED  BY <1>1, <1>5, HeadOfTodo

(* DecEnd.                                                                 *)
LEMMA DecEndPoints ==
  ASSUME TypeOK, SrcMine, NEW t \in Threads, NEW s \in Structs, DecEnd(t, s)
  PROVE  \E r \in RefIds : DecEndAfter(t, s, r)
<1>1. PICK r \in RefIds : src[t] = {r} /\ place[r] \in Mine(t) /\ target[r] = cur[t]
  BY DEF SrcMine, DecEnd
<1>2. At(target, target', r, NoStruct, RefIds) /\ At(place, place', r, Nowhere, RefIds)
  BY <1>1 DEF DecEnd, At
<1>3. DecEndAfter(t, s, r)
  BY <1>1, <1>2 DEF DecEnd, DecEndAfter, At, TypeOK
<1> QED  BY <1>3

(* Check.                                                                  *)
LEMMA CheckPoints ==
  ASSUME TypeOK, NEW t \in Threads, NEW s \in Structs, Check(t, s)
  PROVE  CheckAfter(t, s)
<1>1. CASE refcount[s] = 0
  BY <1>1 DEF Check, Unreferenced, CheckAfter, At, TypeOK, mutexVars
<1>2. CASE refcount[s] # 0
  BY <1>2 DEF Check, Unreferenced, CheckAfter, At, TypeOK, mutexVars
<1> QED  BY <1>1, <1>2

(* Free.                                                                   *)
LEMMA FreePoints ==
  ASSUME TypeOK, NEW t \in Threads, NEW s \in Structs, Free(t, s)
  PROVE  \E list \in Seq(RefIds), n \in Nat : FreeAfter(t, s, list, n)
<1>1. PICK order \in [1..Cardinality(Contents(s)) -> Contents(s)] :
        /\ \A i, j \in DOMAIN order : order[i] = order[j] => i = j
        /\ todo' = [todo EXCEPT ![t] = order \o @]
  BY DEF Free
<1>2. PICK n \in Nat, list \in Seq(RefIds) :
        /\ list = order \o todo[t]
        /\ \A i \in DOMAIN list :
             /\ i \in Nat
             /\ i <= n => list[i] \in Contents(s)
             /\ ~(i <= n) => i - n \in DOMAIN todo[t] /\ list[i] = todo[t][i - n]
        /\ \A i, j \in DOMAIN list : i <= n /\ j <= n /\ list[i] = list[j] => i = j
  <2>1. PICK n : n = Cardinality(Contents(s))  OBVIOUS
  <2>2. n \in Nat
    BY <2>1, RefIdsAssumption, FS_Subset, FS_CardinalityType DEF Contents
  <2>3. order \in Seq(RefIds) /\ Len(order) = n /\ DOMAIN order = 1..n
    <3>1. Contents(s) \subseteq RefIds  BY DEF Contents
    <3>2. order \in [1..n -> RefIds]  BY <2>1, <3>1
    <3> QED  BY <2>2, <3>2
  <2>4. todo[t] \in Seq(RefIds) /\ Len(todo[t]) \in Nat /\ DOMAIN todo[t] = 1..Len(todo[t])
    BY DEF TypeOK
  <2>5. PICK list : list = order \o todo[t]  OBVIOUS
  <2>6. list \in Seq(RefIds) /\ Len(list) = n + Len(todo[t]) /\ DOMAIN list = 1..(n + Len(todo[t]))
    <3>1. order \in Seq(RefIds) /\ todo[t] \in Seq(RefIds)  BY <2>3, <2>4
    <3>2. order \o todo[t] \in Seq(RefIds) /\ Len(order \o todo[t]) = Len(order) + Len(todo[t])
      BY <3>1, ConcatProperties
    <3>3. list \in Seq(RefIds) /\ Len(list) = n + Len(todo[t])  BY <2>3, <2>5, <3>2
    <3> QED  BY <3>3
  <2>7. \A i \in DOMAIN list : list[i] = IF i <= n THEN order[i] ELSE todo[t][i - n]
    BY <2>3, <2>4, <2>5, <2>6, ConcatProperties
  <2>8. \A i \in 1..n : order[i] \in Contents(s)  BY <1>1, <2>1
  <2>9. ASSUME NEW i \in DOMAIN list
        PROVE  /\ i \in Nat
               /\ i <= n => list[i] \in Contents(s)
               /\ ~(i <= n) => i - n \in DOMAIN todo[t] /\ list[i] = todo[t][i - n]
    <3>1. i \in Nat /\ i >= 1 /\ i <= n + Len(todo[t])  BY <2>2, <2>4, <2>6
    <3>2. CASE i <= n  BY <2>2, <2>7, <2>8, <3>1, <3>2
    <3>3. CASE ~(i <= n)  BY <2>2, <2>4, <2>7, <3>1, <3>3
    <3> QED  BY <3>2, <3>3
  <2>10. ASSUME NEW i \in DOMAIN list, NEW j \in DOMAIN list, i <= n, j <= n, list[i] = list[j]
         PROVE  i = j
    <3>1. i \in 1..n /\ j \in 1..n  BY <2>2, <2>4, <2>6, <2>10
    <3>2. order[i] = order[j]  BY <2>7, <2>10
    <3> QED  BY <1>1, <2>3, <3>1, <3>2
  <2> QED  BY <2>2, <2>5, <2>6, <2>9, <2>10
<1>3. At(todo, todo', t, list, Threads)
  BY <1>1, <1>2 DEF At, TypeOK
<1>4. \E p \in Mine(t) : \A r \in RefIds : place'[r] = IF r \in Contents(s) THEN p ELSE place[r]
  BY DEF Free, Mine
<1>5. ASSUME NEW r \in Contents(s) PROVE place[r] \in Inside /\ s \in Containers
  <2>1. place[r] = <<"in", s>> /\ place[r] \in Places  BY DEF Contents, TypeOK
  <2>2. <<"in", s>> \in Places => s \in Containers  BY DEF Places, Nowhere
  <2> QED  BY <2>1, <2>2 DEF Inside
<1>6. /\ pc[t] = "free" /\ cur[t] = {s}
      /\ At(state, state', s, "freed", Structs) /\ At(pc, pc', t, "idle", Threads)
      /\ At(cur, cur', t, NoStruct, Threads)
      /\ UNCHANGED <<refcount, owner, depth, target, src, dest, tmp, claims>>
  BY DEF Free, At, TypeOK, mutexVars
<1> QED  BY <1>2, <1>3, <1>4, <1>5, <1>6 DEF FreeAfter

(* lock() and unlock() are called by a thread that counts nothing.         *)
ClaimAfter(t, s, n) ==
  /\ pc[t] = "idle" /\ todo[t] = <<>>
  /\ \A u \in Threads, x \in Structs : claims'[u][x] = IF u = t /\ x = s THEN n ELSE claims[u][x]
  /\ UNCHANGED <<state, refcount, target, place, pc, cur, src, dest, tmp, todo>>

(* Lock and Unlock.                                                        *)
LEMMA ClaimPoints ==
  ASSUME TypeOK, NEW t \in Threads, NEW s \in Structs, Lock(t, s) \/ Unlock(t, s)
  PROVE  \E n \in Nat : ClaimAfter(t, s, n)
<1>1. CASE Lock(t, s)
  <2>1. ClaimAfter(t, s, claims[t][s] + 1)
    BY <1>1 DEF Lock, Idle, ClaimAfter, TypeOK, threadVars
  <2> QED  BY <2>1 DEF TypeOK
<1>2. CASE Unlock(t, s)
  <2>1. ClaimAfter(t, s, claims[t][s] - 1)
    BY <1>2 DEF Unlock, Idle, ClaimAfter, TypeOK, threadVars
  <2>2. claims[t][s] - 1 \in Nat  BY <1>2 DEF Unlock, TypeOK
  <2> QED  BY <2>1, <2>2
<1> QED  BY <1>1, <1>2

CopyStep(t) == (\E s \in Structs, d \in Places : CopyAfter(t, s, d)) /\ UNCHANGED <<place, todo>>
PopStep(t) == (\E s \in Structs, d \in Places : CopyAfter(t, s, d)) /\ \E r \in RefIds : PopAfter(t, r)
DropStep(t) == \E r \in RefIds : DropAfter(t, r)
FreeStep(t, s) == \E list \in Seq(RefIds), n \in Nat : FreeAfter(t, s, list, n)
StepAfter ==
  \/ \E s \in Structs, r \in RefIds : NewAfter(s, r)
  \/ \E t \in Threads : CopyStep(t) \/ PopStep(t) \/ DropStep(t)
  \/ \E t \in Threads, s \in Structs : IncBeginAfter(t, s) \/ CheckAfter(t, s) \/ FreeStep(t, s)
  \/ \E t \in Threads, s \in Structs, r \in RefIds :
       IncEndAfter(t, s, r) \/ DecBeginAfter(t, s, r) \/ DecEndAfter(t, s, r)
  \/ \E t \in Threads, s \in Structs, n \in Nat : ClaimAfter(t, s, n)
  \/ UNCHANGED vars

(* The steps again, as what they do to each element.                       *)
LEMMA StepIsAfter ==
  ASSUME IInv, "count_locked" \notin Habits, [Next]_vars
  PROVE  StepAfter
<1> USE DEF IInv
<1>1. ASSUME NEW s \in Structs, New(s) PROVE StepAfter
  BY <1>1, NewPoints DEF StepAfter
<1>2. ASSUME NEW t \in Threads, Copies(t) PROVE StepAfter
  <2>1. CopyStep(t)  BY <1>2, CopyPoints DEF Copies, CopyStep
  <2> QED  BY <2>1 DEF StepAfter
<1>3. ASSUME NEW t \in Threads, Pops(t) PROVE StepAfter
  <2>1. \E s \in Structs, d \in Places : CopyAfter(t, s, d)  BY <1>3, CopyPoints DEF Pops
  <2>2. PopStep(t)  BY <1>3, <2>1, PopPoints DEF PopStep
  <2> QED  BY <2>2 DEF StepAfter
<1>4. ASSUME NEW t \in Threads, Drops(t) PROVE StepAfter
  <2>1. DropStep(t)  BY <1>4, DropPoints DEF DropStep
  <2> QED  BY <2>1 DEF StepAfter
<1>5. ASSUME NEW t \in Threads, NEW s \in Structs, Counts(t, s) PROVE StepAfter
  <2>1. CASE IncBegin(t, s)  BY <2>1, IncBeginPoints DEF StepAfter
  <2>2. CASE IncEnd(t, s)  BY <2>2, IncEndPoints DEF StepAfter
  <2>3. CASE DecBegin(t, s)  BY <2>3, DecBeginPoints DEF StepAfter
  <2>4. CASE DecEnd(t, s)  BY <2>4, DecEndPoints DEF StepAfter, HandInv
  <2>5. CASE Check(t, s)  BY <2>5, CheckPoints DEF StepAfter
  <2>6. CASE Free(t, s)
    <3>1. FreeStep(t, s)  BY <2>6, FreePoints DEF FreeStep
    <3> QED  BY <3>1 DEF StepAfter
  <2>7. CASE Lock(t, s) \/ Unlock(t, s)  BY <2>7, ClaimPoints DEF StepAfter
  <2> QED  BY <1>5, <2>1, <2>2, <2>3, <2>4, <2>5, <2>6, <2>7 DEF Counts
<1>6. CASE UNCHANGED vars  BY <1>6 DEF StepAfter
<1> QED  BY <1>1, <1>2, <1>3, <1>4, <1>5, <1>6, StepCases

-----------------------------------------------------------------------------
(* A thread counts one structure while it counts, and none otherwise.      *)
LEMMA CurStep ==
  ASSUME CurInv, StepAfter
  PROVE  CurInv'
<1> USE DEF CurInv, At
<1>1. ASSUME NEW s \in Structs, NEW r \in RefIds, NewAfter(s, r) PROVE CurInv'
  BY <1>1 DEF NewAfter
<1>2. ASSUME NEW t \in Threads, NEW s \in Structs, NEW d, CopyAfter(t, s, d) PROVE CurInv'
  BY <1>2 DEF CopyAfter
<1>3. ASSUME NEW t \in Threads, DropStep(t) PROVE CurInv'
  BY <1>3 DEF DropStep, DropAfter
<1>4. ASSUME NEW t \in Threads, NEW s \in Structs, IncBeginAfter(t, s) PROVE CurInv'
  BY <1>4 DEF IncBeginAfter
<1>5. ASSUME NEW t \in Threads, NEW s \in Structs, NEW r \in RefIds, IncEndAfter(t, s, r) PROVE CurInv'
  BY <1>5 DEF IncEndAfter
<1>6. ASSUME NEW t \in Threads, NEW s \in Structs, NEW r \in RefIds, DecBeginAfter(t, s, r) PROVE CurInv'
  BY <1>6 DEF DecBeginAfter
<1>7. ASSUME NEW t \in Threads, NEW s \in Structs, NEW r \in RefIds, DecEndAfter(t, s, r) PROVE CurInv'
  BY <1>7 DEF DecEndAfter
<1>8. ASSUME NEW t \in Threads, NEW s \in Structs, CheckAfter(t, s) PROVE CurInv'
  BY <1>8 DEF CheckAfter
<1>9. ASSUME NEW t \in Threads, NEW s \in Structs, FreeStep(t, s) PROVE CurInv'
  BY <1>9 DEF FreeStep, FreeAfter
<1>10. ASSUME NEW t \in Threads, NEW s \in Structs, NEW n \in Nat, ClaimAfter(t, s, n) PROVE CurInv'
  BY <1>10 DEF ClaimAfter
<1>11. CASE UNCHANGED vars  BY <1>11 DEF vars, threadVars
<1> QED
  BY <1>1, <1>2, <1>3, <1>4, <1>5, <1>6, <1>7, <1>8, <1>9, <1>10, <1>11 DEF StepAfter, CopyStep, PopStep

(* A target is one structure or none.                                      *)
LEMMA OneStruct ==
  /\ \A s : {s} # NoStruct
  /\ \A s, u : {s} = {u} => s = u
BY DEF NoStruct

(* Only structures that were created are referred to.                      *)
LEMMA UsedStep ==
  ASSUME UsedInv, StepAfter
  PROVE  UsedInv'
<1> USE DEF UsedInv, At
<1>1. ASSUME NEW s \in Structs, NEW r \in RefIds, NewAfter(s, r)
     PROVE  UsedInv'
  BY <1>1, OneStruct DEF NewAfter
<1>2. ASSUME NEW t \in Threads, NEW s \in Structs, NEW d, CopyAfter(t, s, d), UNCHANGED <<place, todo>>
     PROVE  UsedInv'
  <2>1. /\ UNCHANGED <<state, target>> /\ state[s] # "unused"
        /\ \A u \in Threads : cur'[u] = IF u = t THEN {s} ELSE cur[u]
    BY <1>2 DEF CopyAfter
  <2> QED  BY <2>1, OneStruct
<1>3. ASSUME NEW t \in Threads, PopStep(t)
     PROVE  UsedInv'
  <2>1. PICK s \in Structs, d \in Places : CopyAfter(t, s, d)  BY <1>3 DEF PopStep
  <2>2. /\ UNCHANGED <<state, target>> /\ state[s] # "unused"
        /\ \A u \in Threads : cur'[u] = IF u = t THEN {s} ELSE cur[u]
    BY <2>1 DEF CopyAfter
  <2> QED  BY <2>2, OneStruct
<1>4. ASSUME NEW t \in Threads, DropStep(t)
     PROVE  UsedInv'
  BY <1>4, OneStruct DEF DropStep, DropAfter
<1>5. ASSUME NEW t \in Threads, NEW s \in Structs, IncBeginAfter(t, s)
     PROVE  UsedInv'
  BY <1>5, OneStruct DEF IncBeginAfter
<1>6. ASSUME NEW t \in Threads, NEW s \in Structs, NEW r \in RefIds, IncEndAfter(t, s, r)
     PROVE  UsedInv'
  BY <1>6, OneStruct DEF IncEndAfter
<1>7. ASSUME NEW t \in Threads, NEW s \in Structs, NEW r \in RefIds, DecBeginAfter(t, s, r)
     PROVE  UsedInv'
  BY <1>7, OneStruct DEF DecBeginAfter
<1>8. ASSUME NEW t \in Threads, NEW s \in Structs, NEW r \in RefIds, DecEndAfter(t, s, r)
     PROVE  UsedInv'
  BY <1>8, OneStruct DEF DecEndAfter
<1>9. ASSUME NEW t \in Threads, NEW s \in Structs, CheckAfter(t, s)
     PROVE  UsedInv'
  BY <1>9, OneStruct DEF CheckAfter
<1>10. ASSUME NEW t \in Threads, NEW s \in Structs, FreeStep(t, s)
     PROVE  UsedInv'
  <2>1. PICK list \in Seq(RefIds), n \in Nat : FreeAfter(t, s, list, n)
    BY <1>10 DEF FreeStep
  <2>2. PICK p \in Mine(t) : \A r \in RefIds : place'[r] = IF r \in Contents(s) THEN p ELSE place[r]
    BY <2>1 DEF FreeAfter
  <2>3. /\ At(pc, pc', t, "idle", Threads) /\ At(cur, cur', t, NoStruct, Threads)
        /\ UNCHANGED <<target, src, dest>> /\ pc[t] = "free"
        /\ \A r \in Contents(s) : place[r] \in Inside
    BY <2>1 DEF FreeAfter
  <2>4. At(state, state', s, "freed", Structs)  BY <2>1 DEF FreeAfter
  <2>5. \A x \in Structs : state[x] # "unused" => state'[x] # "unused"  BY <2>4
  <2>6. UNCHANGED target /\ \A u \in Threads : cur'[u] = IF u = t THEN NoStruct ELSE cur[u]  BY <2>3
  <2> QED  BY <2>5, <2>6, OneStruct
<1>11. ASSUME NEW t \in Threads, NEW s \in Structs, NEW n \in Nat, ClaimAfter(t, s, n)
     PROVE  UsedInv'
  BY <1>11, OneStruct DEF ClaimAfter
<1>12. CASE UNCHANGED vars
  BY <1>12, OneStruct DEF vars, threadVars
<1> QED
  BY <1>1, <1>2, <1>3, <1>4, <1>5, <1>6, <1>7, <1>8, <1>9, <1>10, <1>11, <1>12 DEF StepAfter, CopyStep

(* References that are not used are nowhere.                               *)
LEMMA PlaceStep ==
  ASSUME PlaceInv, StepAfter
  PROVE  PlaceInv'
<1> USE DEF PlaceInv, At
<1>1. ASSUME NEW s \in Structs, NEW r \in RefIds, NewAfter(s, r)
     PROVE  PlaceInv'
  BY <1>1, MineApart, OneStruct DEF NewAfter
<1>2. ASSUME NEW t \in Threads, NEW s \in Structs, NEW d, CopyAfter(t, s, d), UNCHANGED <<place, todo>>
     PROVE  PlaceInv'
  BY <1>2, MineApart, OneStruct DEF CopyAfter
<1>3. ASSUME NEW t \in Threads, PopStep(t)
     PROVE  PlaceInv'
  <2>1. PICK r \in RefIds : PopAfter(t, r)  BY <1>3 DEF PopStep
  <2>2. PICK p \in Mine(t) : At(place, place', r, p, RefIds)
    BY <2>1 DEF PopAfter
  <2>3. (\E s \in Structs : target[r] = {s}) /\ place[r] \in Inside /\ At(todo, todo', t, <<r>>, Threads)
    BY <2>1 DEF PopAfter
  <2>4. PICK s \in Structs, d \in Places : CopyAfter(t, s, d)  BY <1>3 DEF PopStep
  <2> QED  BY <2>2, <2>3, <2>4, OneStruct DEF CopyAfter
<1>4. ASSUME NEW t \in Threads, DropStep(t)
     PROVE  PlaceInv'
  BY <1>4, MineApart, OneStruct DEF DropStep, DropAfter
<1>5. ASSUME NEW t \in Threads, NEW s \in Structs, IncBeginAfter(t, s)
     PROVE  PlaceInv'
  BY <1>5, MineApart, OneStruct DEF IncBeginAfter
<1>6. ASSUME NEW t \in Threads, NEW s \in Structs, NEW r \in RefIds, IncEndAfter(t, s, r)
     PROVE  PlaceInv'
  BY <1>6, MineApart, OneStruct DEF IncEndAfter
<1>7. ASSUME NEW t \in Threads, NEW s \in Structs, NEW r \in RefIds, DecBeginAfter(t, s, r)
     PROVE  PlaceInv'
  BY <1>7, MineApart, OneStruct DEF DecBeginAfter
<1>8. ASSUME NEW t \in Threads, NEW s \in Structs, NEW r \in RefIds, DecEndAfter(t, s, r)
     PROVE  PlaceInv'
  BY <1>8, MineApart, OneStruct DEF DecEndAfter
<1>9. ASSUME NEW t \in Threads, NEW s \in Structs, CheckAfter(t, s)
     PROVE  PlaceInv'
  BY <1>9, MineApart, OneStruct DEF CheckAfter
<1>10. ASSUME NEW t \in Threads, NEW s \in Structs, FreeStep(t, s)
     PROVE  PlaceInv'
  <2>1. PICK list \in Seq(RefIds), n \in Nat : FreeAfter(t, s, list, n)
    BY <1>10 DEF FreeStep
  <2>2. PICK p \in Mine(t) : \A r \in RefIds : place'[r] = IF r \in Contents(s) THEN p ELSE place[r]
    BY <2>1 DEF FreeAfter
  <2>3. /\ At(pc, pc', t, "idle", Threads) /\ At(cur, cur', t, NoStruct, Threads)
        /\ UNCHANGED <<target, src, dest>> /\ pc[t] = "free"
        /\ \A r \in Contents(s) : place[r] \in Inside
    BY <2>1 DEF FreeAfter
  <2> QED  BY <2>2, <2>3, MineApart, OneStruct
<1>11. ASSUME NEW t \in Threads, NEW s \in Structs, NEW n \in Nat, ClaimAfter(t, s, n)
     PROVE  PlaceInv'
  BY <1>11, MineApart, OneStruct DEF ClaimAfter
<1>12. CASE UNCHANGED vars
  BY <1>12, MineApart, OneStruct DEF vars, threadVars
<1> QED
  BY <1>1, <1>2, <1>3, <1>4, <1>5, <1>6, <1>7, <1>8, <1>9, <1>10, <1>11, <1>12 DEF StepAfter, CopyStep

(* The reference a thread has counted down is its own.                     *)
LEMMA SrcStep ==
  ASSUME TodoMine, TodoOnce, SrcMine, PlaceInv, StepAfter
  PROVE  SrcMine'
<1> USE DEF SrcMine, TodoMine, PlaceInv, At
<1>1. ASSUME NEW s \in Structs, NEW r \in RefIds, NewAfter(s, r)
     PROVE  SrcMine'
  BY <1>1, MineApart, OneStruct DEF NewAfter
<1>2. ASSUME NEW t \in Threads, NEW s \in Structs, NEW d, CopyAfter(t, s, d), UNCHANGED <<place, todo>>
     PROVE  SrcMine'
  BY <1>2, MineApart, OneStruct DEF CopyAfter
<1>3. ASSUME NEW t \in Threads, PopStep(t)
     PROVE  SrcMine'
  BY <1>3, MineApart, OneStruct DEF PopStep, CopyAfter, PopAfter
<1>4. ASSUME NEW t \in Threads, DropStep(t)
     PROVE  SrcMine'
  BY <1>4, MineApart, OneStruct DEF DropStep, DropAfter
<1>5. ASSUME NEW t \in Threads, NEW s \in Structs, IncBeginAfter(t, s)
     PROVE  SrcMine'
  BY <1>5, MineApart, OneStruct DEF IncBeginAfter
<1>6. ASSUME NEW t \in Threads, NEW s \in Structs, NEW r \in RefIds, IncEndAfter(t, s, r)
     PROVE  SrcMine'
  BY <1>6, MineApart, OneStruct DEF IncEndAfter
<1>7. ASSUME NEW t \in Threads, NEW s \in Structs, NEW r \in RefIds, DecBeginAfter(t, s, r)
     PROVE  SrcMine'
  <2>1. place[r] \in Mine(t) /\ target[r] = {s}  BY <1>7 DEF DecBeginAfter
  <2>2. /\ At(src, src', t, {r}, Threads) /\ At(cur, cur', t, {s}, Threads)
        /\ At(pc, pc', t, "dec_end", Threads) /\ UNCHANGED <<target, place>>
    BY <1>7 DEF DecBeginAfter
  <2>3. \E q \in RefIds : src'[t] = {q} /\ place'[q] \in Mine(t) /\ target'[q] = cur'[t]
    BY <2>1, <2>2
  <2> QED  BY <2>2, <2>3
<1>8. ASSUME NEW t \in Threads, NEW s \in Structs, NEW r \in RefIds, DecEndAfter(t, s, r)
     PROVE  SrcMine'
  BY <1>8, MineApart, OneStruct DEF DecEndAfter
<1>9. ASSUME NEW t \in Threads, NEW s \in Structs, CheckAfter(t, s)
     PROVE  SrcMine'
  BY <1>9, MineApart, OneStruct DEF CheckAfter
<1>10. ASSUME NEW t \in Threads, NEW s \in Structs, FreeStep(t, s)
     PROVE  SrcMine'
  BY <1>10, MineApart, OneStruct DEF FreeStep, FreeAfter
<1>11. ASSUME NEW t \in Threads, NEW s \in Structs, NEW n \in Nat, ClaimAfter(t, s, n)
     PROVE  SrcMine'
  BY <1>11, MineApart, OneStruct DEF ClaimAfter
<1>12. CASE UNCHANGED vars
  BY <1>12, MineApart, OneStruct DEF vars, threadVars
<1> QED
  BY <1>1, <1>2, <1>3, <1>4, <1>5, <1>6, <1>7, <1>8, <1>9, <1>10, <1>11, <1>12 DEF StepAfter, CopyStep

(* What a thread is to drop stays its own: nobody else takes it.           *)
LEMMA TodoMineStep ==
  ASSUME TypeOK, TodoMine, TodoOnce, SrcMine, PlaceInv, StepAfter
  PROVE  TodoMine'
<1> USE DEF TodoMine, TodoOnce, SrcMine, PlaceInv, At
<1>a. \A u \in Threads : \A i \in DOMAIN todo[u] : todo[u][i] \in RefIds  BY DEF TypeOK
<1>1. ASSUME NEW s \in Structs, NEW r \in RefIds, NewAfter(s, r)
     PROVE  TodoMine'
  BY <1>1, <1>a, MineApart, OneStruct DEF NewAfter
<1>2. ASSUME NEW t \in Threads, NEW s \in Structs, NEW d, CopyAfter(t, s, d), UNCHANGED <<place, todo>>
     PROVE  TodoMine'
  BY <1>2, <1>a, MineApart, OneStruct DEF CopyAfter
<1>3. ASSUME NEW t \in Threads, PopStep(t)
     PROVE  TodoMine'
  BY <1>3, <1>a, MineApart, OneStruct DEF PopStep, CopyAfter, PopAfter
<1>4. ASSUME NEW t \in Threads, DropStep(t)
     PROVE  TodoMine'
  BY <1>4, <1>a, MineApart, OneStruct DEF DropStep, DropAfter
<1>5. ASSUME NEW t \in Threads, NEW s \in Structs, IncBeginAfter(t, s)
     PROVE  TodoMine'
  BY <1>5, <1>a, MineApart, OneStruct DEF IncBeginAfter
<1>6. ASSUME NEW t \in Threads, NEW s \in Structs, NEW r \in RefIds, IncEndAfter(t, s, r)
     PROVE  TodoMine'
  BY <1>6, <1>a, MineApart, OneStruct DEF IncEndAfter
<1>7. ASSUME NEW t \in Threads, NEW s \in Structs, NEW r \in RefIds, DecBeginAfter(t, s, r)
     PROVE  TodoMine'
  BY <1>7, <1>a, MineApart, OneStruct DEF DecBeginAfter
<1>8. ASSUME NEW t \in Threads, NEW s \in Structs, NEW r \in RefIds, DecEndAfter(t, s, r)
     PROVE  TodoMine'
  BY <1>8, <1>a, MineApart, OneStruct DEF DecEndAfter
<1>9. ASSUME NEW t \in Threads, NEW s \in Structs, CheckAfter(t, s)
     PROVE  TodoMine'
  BY <1>9, <1>a, MineApart, OneStruct DEF CheckAfter
<1>10. ASSUME NEW t \in Threads, NEW s \in Structs, FreeStep(t, s)
     PROVE  TodoMine'
  <2>1. PICK list \in Seq(RefIds), n \in Nat : FreeAfter(t, s, list, n)
    BY <1>10 DEF FreeStep
  <2>2. \A i \in DOMAIN list :
          /\ i \in Nat
          /\ i <= n => list[i] \in Contents(s)
          /\ ~(i <= n) => i - n \in DOMAIN todo[t] /\ list[i] = todo[t][i - n]
    BY <2>1 DEF FreeAfter
  <2>3. At(todo, todo', t, list, Threads) /\ UNCHANGED <<src, target>>
    BY <2>1 DEF FreeAfter
  <2>4. PICK p \in Mine(t) : \A r \in RefIds : place'[r] = IF r \in Contents(s) THEN p ELSE place[r]
    BY <2>1 DEF FreeAfter
  <2>5. \A r \in Contents(s) : r \in RefIds /\ place[r] \in Inside
    BY <2>1 DEF FreeAfter, Contents
  <2>6. \A u \in Threads : \A i \in DOMAIN todo[u] : todo[u][i] \notin Contents(s)
    BY <2>5, MineApart
  <2>7. \A r \in Contents(s) : target[r] # NoStruct  BY <2>5, MineApart
  <2>8. ASSUME NEW i \in DOMAIN list
        PROVE  place'[list[i]] \in Mine(t) /\ target[list[i]] # NoStruct
    BY <1>a, <2>2, <2>4, <2>5, <2>6, <2>7
  <2>9. \A u \in Threads : \A i \in DOMAIN todo[u] : place'[todo[u][i]] = place[todo[u][i]]
    BY <1>a, <2>4, <2>6
  <2> QED  BY <2>3, <2>8, <2>9
<1>11. ASSUME NEW t \in Threads, NEW s \in Structs, NEW n \in Nat, ClaimAfter(t, s, n)
     PROVE  TodoMine'
  BY <1>11, <1>a, MineApart, OneStruct DEF ClaimAfter
<1>12. CASE UNCHANGED vars
  BY <1>12, <1>a, MineApart, OneStruct DEF vars, threadVars
<1> QED
  BY <1>1, <1>2, <1>3, <1>4, <1>5, <1>6, <1>7, <1>8, <1>9, <1>10, <1>11, <1>12 DEF StepAfter, CopyStep

(* A reference is listed once, and leaves the list when it is dropped.     *)
LEMMA TodoOnceStep ==
  ASSUME TypeOK, TodoMine, TodoOnce, SrcMine, PlaceInv, StepAfter
  PROVE  TodoOnce'
<1> USE DEF TodoMine, TodoOnce, SrcMine, PlaceInv, At
<1>a. \A u \in Threads : \A i \in DOMAIN todo[u] : todo[u][i] \in RefIds  BY DEF TypeOK
<1>1. ASSUME NEW s \in Structs, NEW r \in RefIds, NewAfter(s, r)
     PROVE  TodoOnce'
  BY <1>1, <1>a, MineApart, OneStruct DEF NewAfter
<1>2. ASSUME NEW t \in Threads, NEW s \in Structs, NEW d, CopyAfter(t, s, d), UNCHANGED <<place, todo>>
     PROVE  TodoOnce'
  BY <1>2, <1>a, MineApart, OneStruct DEF CopyAfter
<1>3. ASSUME NEW t \in Threads, PopStep(t)
     PROVE  TodoOnce'
  BY <1>3, <1>a, MineApart, OneStruct DEF PopStep, CopyAfter, PopAfter
<1>4. ASSUME NEW t \in Threads, DropStep(t)
     PROVE  TodoOnce'
  BY <1>4, <1>a, MineApart, OneStruct DEF DropStep, DropAfter
<1>5. ASSUME NEW t \in Threads, NEW s \in Structs, IncBeginAfter(t, s)
     PROVE  TodoOnce'
  BY <1>5, <1>a, MineApart, OneStruct DEF IncBeginAfter
<1>6. ASSUME NEW t \in Threads, NEW s \in Structs, NEW r \in RefIds, IncEndAfter(t, s, r)
     PROVE  TodoOnce'
  BY <1>6, <1>a, MineApart, OneStruct DEF IncEndAfter
<1>7. ASSUME NEW t \in Threads, NEW s \in Structs, NEW r \in RefIds, DecBeginAfter(t, s, r)
     PROVE  TodoOnce'
  <2>1. ASSUME NEW i \in DOMAIN todo'[t], NEW j \in DOMAIN todo'[t], todo'[t][i] = todo'[t][j] PROVE i = j
    <3>1. i \in Nat /\ j \in Nat /\ i + 1 = j + 1  BY <1>7, <2>1 DEF DecBeginAfter
    <3> QED  BY <3>1
  <2>2. ASSUME NEW i \in DOMAIN todo'[t] PROVE todo'[t][i] \notin src'[t]
    BY <1>7, <2>2 DEF DecBeginAfter
  <2>3. \A u \in Threads \ {t} : todo'[u] = todo[u] /\ src'[u] = src[u]  BY <1>7 DEF DecBeginAfter
  <2> QED  BY <2>1, <2>2, <2>3
<1>8. ASSUME NEW t \in Threads, NEW s \in Structs, NEW r \in RefIds, DecEndAfter(t, s, r)
     PROVE  TodoOnce'
  BY <1>8, <1>a, MineApart, OneStruct DEF DecEndAfter
<1>9. ASSUME NEW t \in Threads, NEW s \in Structs, CheckAfter(t, s)
     PROVE  TodoOnce'
  BY <1>9, <1>a, MineApart, OneStruct DEF CheckAfter
<1>10. ASSUME NEW t \in Threads, NEW s \in Structs, FreeStep(t, s)
     PROVE  TodoOnce'
  <2>1. PICK list \in Seq(RefIds), n \in Nat : FreeAfter(t, s, list, n)
    BY <1>10 DEF FreeStep
  <2>2. \A i \in DOMAIN list :
          /\ i \in Nat
          /\ i <= n => list[i] \in Contents(s)
          /\ ~(i <= n) => i - n \in DOMAIN todo[t] /\ list[i] = todo[t][i - n]
    BY <2>1 DEF FreeAfter
  <2>3. At(todo, todo', t, list, Threads) /\ UNCHANGED <<src, target>>
    BY <2>1 DEF FreeAfter
  <2>4. PICK p \in Mine(t) : \A r \in RefIds : place'[r] = IF r \in Contents(s) THEN p ELSE place[r]
    BY <2>1 DEF FreeAfter
  <2>5. \A r \in Contents(s) : r \in RefIds /\ place[r] \in Inside
    BY <2>1 DEF FreeAfter, Contents
  <2>6. \A i, j \in DOMAIN list : i <= n /\ j <= n /\ list[i] = list[j] => i = j
    BY <2>1 DEF FreeAfter
  <2>7. src[t] = {} /\ \A i \in DOMAIN todo[t] : todo[t][i] \notin Contents(s)
    BY <2>1, <2>5, MineApart DEF FreeAfter
  <2>9. ASSUME NEW i \in DOMAIN list, NEW j \in DOMAIN list, list[i] = list[j] PROVE i = j
    <3>1. CASE i <= n
      BY <2>2, <2>6, <2>7, <2>9, <3>1
    <3>2. CASE ~(i <= n)
      <4>1. ~(j <= n)  BY <2>2, <2>7, <2>9, <3>2
      <4>2. /\ i - n \in DOMAIN todo[t] /\ j - n \in DOMAIN todo[t]
            /\ todo[t][i - n] = todo[t][j - n]
        BY <2>2, <2>9, <3>2, <4>1
      <4>3. i - n = j - n  BY <4>2 DEF TodoOnce
      <4> QED  BY <2>2, <4>3
    <3> QED  BY <3>1, <3>2
  <2> QED  BY <2>3, <2>7, <2>9
<1>11. ASSUME NEW t \in Threads, NEW s \in Structs, NEW n \in Nat, ClaimAfter(t, s, n)
     PROVE  TodoOnce'
  BY <1>11, <1>a, MineApart, OneStruct DEF ClaimAfter
<1>12. CASE UNCHANGED vars
  BY <1>12, <1>a, MineApart, OneStruct DEF vars, threadVars
<1> QED
  BY <1>1, <1>2, <1>3, <1>4, <1>5, <1>6, <1>7, <1>8, <1>9, <1>10, <1>11, <1>12 DEF StepAfter, CopyStep

-----------------------------------------------------------------------------
(* What a mutex that is left alone needs.                                  *)
LEMMA MutexStays ==
  ASSUME MutexInv, NEW x \in Structs, owner'[x] = owner[x], depth'[x] = depth[x],
         \A u \in Threads : Hold(u, x)' = Hold(u, x)
  PROVE  Unowned(x)' \/ \E o \in Threads : OwnedBy(x, o)'
<1>1. CASE Unowned(x)  BY <1>1 DEF Unowned
<1>2. ASSUME NEW o \in Threads, OwnedBy(x, o) PROVE OwnedBy(x, o)'  BY <1>2 DEF OwnedBy
<1> QED  BY <1>1, <1>2 DEF MutexInv

(* lock and unlock move the mutex and the thread's own locks together.     *)
LEMMA MutexLocks ==
  ASSUME TypeOK, MutexInv, NEW t \in Threads, NEW s \in Structs, Locked(t, s),
         s \notin Recursive => Hold(t, s) = 0,
         \A u \in Threads, x \in Structs :
           Hold(u, x)' = IF u = t /\ x = s THEN Hold(u, x) + 1 ELSE Hold(u, x)
  PROVE  MutexInv'
<1>1. /\ owner[s] \subseteq {t}
      /\ \A x \in Structs : owner'[x] = IF x = s THEN {t} ELSE owner[x]
      /\ \A x \in Structs \ {s} : depth'[x] = depth[x]
      /\ depth'[s] = IF s \in Recursive THEN depth[s] + 1 ELSE 1
  BY DEF Locked, MayLock, TypeOK
<1>2. \A u \in Threads, x \in Structs : Hold(u, x) \in Nat  BY DEF Hold, TypeOK
<1>3. Hold(t, s) = depth[s] /\ \A u \in Threads \ {t} : Hold(u, s) = 0
  <2>1. CASE Unowned(s)  BY <2>1 DEF Unowned
  <2>2. ASSUME NEW o \in Threads, OwnedBy(s, o) PROVE o = t  BY <1>1, <2>2 DEF OwnedBy
  <2> QED  BY <2>1, <2>2 DEF MutexInv, OwnedBy
<1>4. OwnedBy(s, t)'
  <2>1. owner'[s] = {t} /\ Hold(t, s)' = Hold(t, s) + 1  BY <1>1
  <2>2. depth'[s] = Hold(t, s) + 1  BY <1>1, <1>3
  <2>3. \A u \in Threads \ {t} : Hold(u, s)' = 0  BY <1>3
  <2> QED  BY <1>2, <2>1, <2>2, <2>3 DEF OwnedBy
<1>5. ASSUME NEW x \in Structs, x # s
      PROVE  Unowned(x)' \/ \E o \in Threads : OwnedBy(x, o)'
  BY <1>1, <1>5, MutexStays
<1> QED  BY <1>4, <1>5 DEF MutexInv

(* The owner unlocks once; the mutex is free after the last time.          *)
LEMMA MutexUnlocks ==
  ASSUME TypeOK, MutexInv, NEW t \in Threads, NEW s \in Structs, Unlocked(s), Hold(t, s) > 0,
         \A u \in Threads, x \in Structs :
           Hold(u, x)' = IF u = t /\ x = s THEN Hold(u, x) - 1 ELSE Hold(u, x)
  PROVE  MutexInv'
<1>1. /\ \A x \in Structs \ {s} : owner'[x] = owner[x] /\ depth'[x] = depth[x]
      /\ owner'[s] = IF depth[s] = 1 THEN {} ELSE owner[s]
      /\ depth'[s] = depth[s] - 1
  BY DEF Unlocked, TypeOK
<1>2. \A u \in Threads, x \in Structs : Hold(u, x) \in Nat  BY DEF Hold, TypeOK
<1>3. OwnedBy(s, t)
  <2>1. ~Unowned(s)  BY DEF Unowned
  <2>2. ASSUME NEW o \in Threads, OwnedBy(s, o) PROVE o = t  BY <2>2 DEF OwnedBy
  <2> QED  BY <2>1, <2>2 DEF MutexInv
<1>4. depth[s] \in Nat /\ depth[s] > 0 /\ depth[s] = Hold(t, s) /\ owner[s] = {t}
  BY <1>2, <1>3 DEF OwnedBy
<1>5. Hold(t, s)' = depth'[s] /\ \A u \in Threads \ {t} : Hold(u, s)' = 0
  BY <1>1, <1>3, <1>4 DEF OwnedBy
<1>6. ASSUME NEW x \in Structs, x # s
      PROVE  Unowned(x)' \/ \E o \in Threads : OwnedBy(x, o)'
  BY <1>1, <1>6, MutexStays
<1>7. CASE depth[s] = 1
  <2>1. owner'[s] = {} /\ depth'[s] = 0  BY <1>1, <1>7
  <2>2. Unowned(s)'  BY <1>5, <2>1 DEF Unowned
  <2> QED  BY <1>6, <2>2 DEF MutexInv
<1>8. CASE depth[s] # 1
  <2>1. owner'[s] = {t} /\ depth'[s] > 0  BY <1>1, <1>4, <1>8
  <2>2. OwnedBy(s, t)'  BY <1>5, <2>1 DEF OwnedBy
  <2> QED  BY <1>6, <2>2 DEF MutexInv
<1> QED  BY <1>7, <1>8

(* A thread that begins to count has not locked a mutex that cannot be     *)
(* locked twice: what EDEADLK would do is excluded.                        *)
LEMMA MutexStep ==
  ASSUME IInv, "count_locked" \notin Habits, [Next]_vars
  PROVE  MutexInv'
<1> USE DEF IInv, HandInv
<1>a. ASSUME NEW t \in Threads, NEW s \in Structs, Calm(t, s),
             pc[t] \in {"inc", "idle"}, s \notin Recursive
      PROVE  Hold(t, s) = 0
  <2>1. ~(claims[t][s] > 0)  BY <1>a DEF Calm, Claimed
  <2>2. claims[t][s] \in Nat  BY DEF TypeOK
  <2> QED  BY <1>a, <2>1, <2>2 DEF Hold, Counting
<1>b. ASSUME UNCHANGED <<owner, depth>>, \A u \in Threads, x \in Structs : Hold(u, x)' = Hold(u, x)
      PROVE  MutexInv'
  BY <1>b, MutexStays DEF MutexInv
<1>1. ASSUME NEW s \in Structs, New(s) PROVE MutexInv'
  BY <1>1, <1>b DEF New, mutexVars, threadVars, Hold, Counting
<1>2. ASSUME NEW t \in Threads, NEW s \in Structs, NEW d, CopyEffect(t, s, d) PROVE MutexInv'
  <2>1. CopyAfter(t, s, d)  BY <1>2, CopyPoints
  <2>2. \A u \in Threads, x \in Structs : Hold(u, x)' = Hold(u, x)
    BY <2>1, OneStruct DEF CopyAfter, At, Hold, Counting
  <2> QED  BY <1>b, <2>1, <2>2 DEF CopyAfter
<1>3. ASSUME NEW t \in Threads, Drops(t) PROVE MutexInv'
  BY <1>3, <1>b DEF Drops, mutexVars, Hold, Counting
<1>4. ASSUME NEW t \in Threads, NEW s \in Structs, IncBegin(t, s) PROVE MutexInv'
  <2>1. IncBeginAfter(t, s)  BY <1>4, IncBeginPoints
  <2>2. \A u \in Threads, x \in Structs :
          Hold(u, x)' = IF u = t /\ x = s THEN Hold(u, x) + 1 ELSE Hold(u, x)
    <3>1. \A u \in Threads, x \in Structs :
            /\ u # t => (Counting(u, x)' <=> Counting(u, x))
            /\ ~Counting(t, x) /\ (Counting(t, x)' <=> x = s)
      BY <2>1, OneStruct DEF IncBeginAfter, At, Counting
    <3>2. UNCHANGED claims  BY <2>1 DEF IncBeginAfter
    <3>3. \A u \in Threads, x \in Structs : claims[u][x] \in Nat  BY DEF TypeOK
    <3> QED  BY <3>1, <3>2, <3>3 DEF Hold
  <2>3. Calm(t, s) /\ pc[t] = "inc"  BY <1>4 DEF IncBegin
  <2> QED  BY <1>4, <1>a, <2>2, <2>3, MutexLocks DEF IncBegin, Guarded
<1>5. ASSUME NEW t \in Threads, NEW s \in Structs, DecBegin(t, s) PROVE MutexInv'
  <2>1. PICK r \in RefIds : DecBeginAfter(t, s, r)  BY <1>5, DecBeginPoints
  <2>2. \A u \in Threads, x \in Structs :
          Hold(u, x)' = IF u = t /\ x = s THEN Hold(u, x) + 1 ELSE Hold(u, x)
    <3>1. \A u \in Threads, x \in Structs :
            /\ u # t => (Counting(u, x)' <=> Counting(u, x))
            /\ ~Counting(t, x) /\ (Counting(t, x)' <=> x = s)
      BY <2>1, OneStruct DEF DecBeginAfter, At, Counting
    <3>2. UNCHANGED claims  BY <2>1 DEF DecBeginAfter
    <3>3. \A u \in Threads, x \in Structs : claims[u][x] \in Nat  BY DEF TypeOK
    <3> QED  BY <3>1, <3>2, <3>3 DEF Hold
  <2>3. Calm(t, s) /\ pc[t] = "idle"  BY <1>5 DEF DecBegin
  <2> QED  BY <1>5, <1>a, <2>2, <2>3, MutexLocks DEF DecBegin, Guarded
<1>6. ASSUME NEW t \in Threads, NEW s \in Structs, IncEnd(t, s) \/ DecEnd(t, s) PROVE MutexInv'
  <2>1. /\ Counting(t, s)
        /\ \E p \in {"idle", "check"} : At(pc, pc', t, p, Threads)
        /\ \E c \in {NoStruct, {s}} : At(cur, cur', t, c, Threads)
        /\ UNCHANGED claims
    <3>1. CASE IncEnd(t, s)
      BY <3>1, IncEndPoints DEF IncEndAfter, Counting
    <3>2. CASE DecEnd(t, s)
      <4>1. PICK r \in RefIds : DecEndAfter(t, s, r)  BY <3>2, DecEndPoints
      <4>2. At(cur, cur', t, {s}, Threads)  BY <4>1 DEF DecEndAfter, At
      <4> QED  BY <4>1, <4>2 DEF DecEndAfter, Counting
    <3> QED  BY <1>6, <3>1, <3>2
  <2>2. Hold(t, s) = claims[t][s] + 1 /\ claims[t][s] \in Nat  BY <2>1 DEF Hold, TypeOK
  <2>3. \A u \in Threads, x \in Structs :
          Hold(u, x)' = IF u = t /\ x = s THEN Hold(u, x) - 1 ELSE Hold(u, x)
    <3>1. \A u \in Threads, x \in Structs :
            /\ u # t => (Counting(u, x)' <=> Counting(u, x))
            /\ (Counting(t, x) <=> x = s) /\ ~Counting(t, x)'
      BY <2>1, OneStruct DEF At, Counting
    <3>2. \A u \in Threads, x \in Structs : claims[u][x] \in Nat  BY DEF TypeOK
    <3> QED  BY <2>1, <3>1, <3>2 DEF Hold
  <2>4. Unlocked(s)  BY <1>6 DEF IncEnd, DecEnd, Released
  <2> QED  BY <2>2, <2>3, <2>4, MutexUnlocks
<1>7. ASSUME NEW t \in Threads, NEW s \in Structs, Check(t, s) \/ Free(t, s) PROVE MutexInv'
  <2>1. /\ pc[t] \in {"check", "free"} /\ UNCHANGED <<owner, depth, claims>>
        /\ \E p \in {"idle", "free"} : At(pc, pc', t, p, Threads)
        /\ \E c \in {NoStruct, {s}} : cur[t] = {s} /\ At(cur, cur', t, c, Threads)
    <3>1. CASE Check(t, s)
      BY <3>1, CheckPoints DEF CheckAfter, At
    <3>2. CASE Free(t, s)
      BY <3>2, FreePoints DEF FreeAfter
    <3> QED  BY <1>7, <3>1, <3>2
  <2>2. \A u \in Threads, x \in Structs : Hold(u, x)' = Hold(u, x)
    BY <2>1 DEF At, Hold, Counting
  <2> QED  BY <1>b, <2>1, <2>2
<1>8. ASSUME NEW t \in Threads, NEW s \in Structs, Lock(t, s) PROVE MutexInv'
  <2>1. /\ \A u \in Threads, x \in Structs :
             claims'[u][x] = IF u = t /\ x = s THEN claims[u][x] + 1 ELSE claims[u][x]
        /\ UNCHANGED <<pc, cur>> /\ pc[t] = "idle" /\ Locked(t, s)
    BY <1>8 DEF Lock, Idle, Taken, TypeOK, threadVars
  <2>2. \A u \in Threads, x \in Structs :
          Hold(u, x)' = IF u = t /\ x = s THEN Hold(u, x) + 1 ELSE Hold(u, x)
    BY <2>1 DEF Hold, Counting, TypeOK
  <2>3. s \notin Recursive => Hold(t, s) = 0
    <3>1. s \notin Recursive => owner[s] # {t} /\ owner[s] \subseteq {t}
      BY <1>8, <2>1 DEF Lock, Locked, MayLock
    <3> QED  BY <3>1 DEF MutexInv, Unowned, OwnedBy
  <2> QED  BY <2>1, <2>2, <2>3, MutexLocks
<1>9. ASSUME NEW t \in Threads, NEW s \in Structs, Unlock(t, s) PROVE MutexInv'
  <2>1. /\ \A u \in Threads, x \in Structs :
             claims'[u][x] = IF u = t /\ x = s THEN claims[u][x] - 1 ELSE claims[u][x]
        /\ UNCHANGED <<pc, cur>> /\ pc[t] = "idle" /\ claims[t][s] > 0
    BY <1>9 DEF Unlock, Idle, TypeOK, threadVars
  <2>2. \A u \in Threads, x \in Structs :
          Hold(u, x)' = IF u = t /\ x = s THEN Hold(u, x) - 1 ELSE Hold(u, x)
    BY <2>1 DEF Hold, Counting, TypeOK
  <2>3. Hold(t, s) > 0  BY <2>1 DEF Hold, Counting, TypeOK
  <2>4. owner[s] = {t}  BY <2>3 DEF MutexInv, Unowned, OwnedBy
  <2> QED  BY <1>9, <2>2, <2>3, <2>4, MutexUnlocks DEF Unlock
<1>10. CASE UNCHANGED vars
  BY <1>10, <1>b DEF vars, mutexVars, Hold, Counting
<1> QED
  BY <1>1, <1>2, <1>3, <1>4, <1>5, <1>6, <1>7, <1>8, <1>9, <1>10, StepCases
  DEF Copies, Pops, Counts

-----------------------------------------------------------------------------
(* The end of an increment adds one reference, to one structure.           *)
LEMMA IncEndRefs ==
  ASSUME NEW t \in Threads, NEW s \in Structs, NEW r \in RefIds, IncEndAfter(t, s, r)
  PROVE  /\ r \notin Refs(s) /\ Refs(s)' = Refs(s) \cup {r}
         /\ \A x \in Structs \ {s} : Refs(x)' = Refs(x)
<1>1. \A y \in RefIds, x \in Structs :
        target'[y] = {x} <=> (y = r /\ x = s) \/ (y # r /\ target[y] = {x})
  BY OneStruct DEF IncEndAfter, At
<1>2. \A x \in Structs : target[r] # {x}  BY OneStruct DEF IncEndAfter
<1> QED  BY <1>1, <1>2 DEF Refs

(* The end of a decrement removes one reference, from one structure.       *)
LEMMA DecEndRefs ==
  ASSUME NEW t \in Threads, NEW s \in Structs, NEW r \in RefIds, DecEndAfter(t, s, r)
  PROVE  /\ r \in Refs(s) /\ Refs(s)' = Refs(s) \ {r}
         /\ \A x \in Structs \ {s} : Refs(x)' = Refs(x)
<1>1. \A y \in RefIds, x \in Structs : target'[y] = {x} <=> y # r /\ target[y] = {x}
  BY OneStruct DEF DecEndAfter, At
<1>2. \A x \in Structs : target[r] = {x} <=> x = s  BY OneStruct DEF DecEndAfter
<1> QED  BY <1>1, <1>2 DEF Refs

(* Every step keeps the counts exact.                                      *)
LEMMA CountStep ==
  ASSUME TypeOK, CountInv, MutexInv, UsedInv, CurInv, StepAfter
  PROVE  CountInv'
<1> USE DEF CountInv
<1>a. \A s : Refs(s) \subseteq RefIds /\ IsFiniteSet(Refs(s))
  BY RefIdsAssumption, FS_Subset DEF Refs
<1>b. ASSUME UNCHANGED <<refcount, target>>,
             \A u \in Threads, x \in Structs : Counting(u, x)' => Counting(u, x) /\ tmp'[u] = tmp[u]
      PROVE  CountInv'
  BY <1>b DEF Refs
<1>c. ASSUME NEW t \in Threads, NEW s \in Structs, Counting(t, s), NEW u \in Threads, Counting(u, s)
      PROVE  u = t
  <2>1. Hold(t, s) > 0 /\ Hold(u, s) > 0  BY <1>c DEF Hold, TypeOK
  <2> QED  BY <2>1 DEF MutexInv, Unowned, OwnedBy
<1>1. ASSUME NEW s \in Structs, NEW r \in RefIds, NewAfter(s, r)
     PROVE  CountInv'
  <2>1. Refs(s) = {}  BY <1>1, OneStruct DEF NewAfter, UsedInv, Refs
  <2>2. Refs(s)' = {r}  BY <1>1, <2>1, OneStruct DEF NewAfter, At, Refs
  <2>3. \A x \in Structs \ {s} : Refs(x)' = Refs(x)  BY <1>1, OneStruct DEF NewAfter, At, Refs
  <2>4. \A x \in Structs : refcount'[x] = Cardinality(Refs(x))'
    <3>1. refcount'[s] = 1 /\ \A x \in Structs \ {s} : refcount'[x] = refcount[x]
      BY <1>1 DEF NewAfter, At
    <3>2. Cardinality(Refs(s))' = 1  BY <2>2, FS_Singleton
    <3> QED  BY <2>3, <3>1, <3>2
  <2>5. \A u \in Threads, x \in Structs : Counting(u, x) => x # s
    BY <1>1 DEF NewAfter, UsedInv, Counting
  <2>6. UNCHANGED <<pc, cur, tmp>> /\ \A x \in Structs \ {s} : refcount'[x] = refcount[x]
    BY <1>1 DEF NewAfter, At
  <2> QED  BY <2>4, <2>5, <2>6 DEF Counting
<1>2. ASSUME NEW t \in Threads, NEW s \in Structs, NEW d, CopyAfter(t, s, d), UNCHANGED <<place, todo>>
     PROVE  CountInv'
  BY <1>2, <1>b DEF CopyAfter, At, Counting
<1>3. ASSUME NEW t \in Threads, PopStep(t)
     PROVE  CountInv'
  <2>1. PICK s \in Structs, d \in Places : CopyAfter(t, s, d)  BY <1>3 DEF PopStep
  <2> QED  BY <2>1, <1>b DEF CopyAfter, At, Counting
<1>4. ASSUME NEW t \in Threads, DropStep(t)
     PROVE  CountInv'
  BY <1>4, <1>b DEF DropStep, DropAfter, Counting
<1>5. ASSUME NEW t \in Threads, NEW s \in Structs, IncBeginAfter(t, s)
     PROVE  CountInv'
  <2>1. UNCHANGED <<refcount, target, cur>> /\ tmp'[t] = refcount[s] /\ cur[t] = {s}
    BY <1>5 DEF IncBeginAfter, At
  <2>2. \A u \in Threads \ {t}, x \in Structs : Counting(u, x)' => Counting(u, x) /\ tmp'[u] = tmp[u]
    BY <1>5 DEF IncBeginAfter, At, Counting
  <2>3. \A x \in Structs : Counting(t, x)' => x = s  BY <2>1, OneStruct DEF Counting
  <2> QED  BY <2>1, <2>2, <2>3 DEF Refs
<1>6. ASSUME NEW t \in Threads, NEW s \in Structs, NEW r \in RefIds, IncEndAfter(t, s, r)
     PROVE  CountInv'
  <2>1. Counting(t, s) /\ tmp[t] = Cardinality(Refs(s))  BY <1>6 DEF IncEndAfter, Counting
  <2>2. r \notin Refs(s) /\ Refs(s)' = Refs(s) \cup {r}
    BY <1>6, IncEndRefs
  <2>3. \A x \in Structs \ {s} : Refs(x)' = Refs(x)  BY <1>6, IncEndRefs
  <2>4. refcount'[s] = Cardinality(Refs(s))'
    <3>1. refcount'[s] = Cardinality(Refs(s)) + 1  BY <1>6, <2>1 DEF IncEndAfter, At
    <3>2. Cardinality(Refs(s) \cup {r}) = Cardinality(Refs(s)) + 1
      BY <1>a, <2>2, FS_AddElement
    <3> QED  BY <2>2, <3>1, <3>2
  <2>5. \A x \in Structs \ {s} : refcount'[x] = refcount[x]  BY <1>6 DEF IncEndAfter, At
  <2>6. ASSUME NEW u \in Threads, NEW x \in Structs, Counting(u, x)'
        PROVE  Counting(u, x) /\ u # t /\ tmp'[u] = tmp[u]
    BY <1>6, <2>6 DEF IncEndAfter, At, Counting
  <2>7. ASSUME NEW u \in Threads, NEW x \in Structs, Counting(u, x)' PROVE x # s
    BY <1>c, <2>1, <2>6, <2>7
  <2>8. \A x \in Structs : refcount'[x] = Cardinality(Refs(x))'  BY <2>3, <2>4, <2>5
  <2>9. \A u \in Threads, x \in Structs : Counting(u, x)' => tmp'[u] = refcount'[x]
    BY <2>5, <2>6, <2>7
  <2> QED  BY <2>8, <2>9
<1>7. ASSUME NEW t \in Threads, NEW s \in Structs, NEW r \in RefIds, DecBeginAfter(t, s, r)
     PROVE  CountInv'
  <2>1. UNCHANGED <<refcount, target>> /\ tmp'[t] = refcount[s] /\ cur'[t] = {s}
    BY <1>7 DEF DecBeginAfter, At
  <2>2. \A u \in Threads \ {t}, x \in Structs : Counting(u, x)' => Counting(u, x) /\ tmp'[u] = tmp[u]
    BY <1>7 DEF DecBeginAfter, At, Counting
  <2>3. \A x \in Structs : Counting(t, x)' => x = s  BY <2>1, OneStruct DEF Counting
  <2> QED  BY <2>1, <2>2, <2>3 DEF Refs
<1>8. ASSUME NEW t \in Threads, NEW s \in Structs, NEW r \in RefIds, DecEndAfter(t, s, r)
     PROVE  CountInv'
  <2>1. Counting(t, s) /\ tmp[t] = Cardinality(Refs(s))  BY <1>8 DEF DecEndAfter, Counting
  <2>2. r \in Refs(s) /\ Refs(s)' = Refs(s) \ {r}
    BY <1>8, DecEndRefs
  <2>3. \A x \in Structs \ {s} : Refs(x)' = Refs(x)  BY <1>8, DecEndRefs
  <2>4. refcount'[s] = Cardinality(Refs(s))'
    <3>1. refcount'[s] = Cardinality(Refs(s)) - 1  BY <1>8, <2>1 DEF DecEndAfter, At
    <3>2. Cardinality(Refs(s) \ {r}) = Cardinality(Refs(s)) - 1
      BY <1>a, <2>2, FS_RemoveElement
    <3> QED  BY <2>2, <3>1, <3>2
  <2>5. \A x \in Structs \ {s} : refcount'[x] = refcount[x]  BY <1>8 DEF DecEndAfter, At
  <2>6. ASSUME NEW u \in Threads, NEW x \in Structs, Counting(u, x)'
        PROVE  Counting(u, x) /\ u # t /\ tmp'[u] = tmp[u]
    BY <1>8, <2>6 DEF DecEndAfter, At, Counting
  <2>7. ASSUME NEW u \in Threads, NEW x \in Structs, Counting(u, x)' PROVE x # s
    BY <1>c, <2>1, <2>6, <2>7
  <2>8. \A x \in Structs : refcount'[x] = Cardinality(Refs(x))'  BY <2>3, <2>4, <2>5
  <2>9. \A u \in Threads, x \in Structs : Counting(u, x)' => tmp'[u] = refcount'[x]
    BY <2>5, <2>6, <2>7
  <2> QED  BY <2>8, <2>9
<1>9. ASSUME NEW t \in Threads, NEW s \in Structs, CheckAfter(t, s)
     PROVE  CountInv'
  BY <1>9, <1>b DEF CheckAfter, At, Counting
<1>10. ASSUME NEW t \in Threads, NEW s \in Structs, FreeStep(t, s)
     PROVE  CountInv'
  BY <1>10, <1>b DEF FreeStep, FreeAfter, At, Counting
<1>11. ASSUME NEW t \in Threads, NEW s \in Structs, NEW n \in Nat, ClaimAfter(t, s, n)
     PROVE  CountInv'
  BY <1>11, <1>b DEF ClaimAfter, Counting
<1>12. CASE UNCHANGED vars
  BY <1>12, <1>b DEF vars, threadVars, Counting
<1> QED
  BY <1>1, <1>2, <1>3, <1>4, <1>5, <1>6, <1>7, <1>8, <1>9, <1>10, <1>11, <1>12 DEF StepAfter, CopyStep

(* A count of zero is seen by the thread that made it zero.                *)
LEMMA LeakStep ==
  ASSUME NoLeak, CountInv, StepAfter
  PROVE  NoLeak'
<1> USE DEF NoLeak
<1>1. ASSUME NEW s \in Structs, NEW r \in RefIds, NewAfter(s, r)
     PROVE  NoLeak'
  <2>1. r \in Refs(s)'  BY <1>1 DEF NewAfter, At, Refs
  <2>2. \A x \in Structs \ {s} : state'[x] = state[x] /\ Refs(x) \subseteq Refs(x)'
    BY <1>1, OneStruct DEF NewAfter, At, Refs
  <2>3. UNCHANGED <<pc, cur>>  BY <1>1 DEF NewAfter
  <2> QED  BY <2>1, <2>2, <2>3
<1>2. ASSUME NEW t \in Threads, NEW s \in Structs, NEW d, CopyAfter(t, s, d), UNCHANGED <<place, todo>>
     PROVE  NoLeak'
  BY <1>2 DEF CopyAfter, At, Refs
<1>3. ASSUME NEW t \in Threads, PopStep(t)
     PROVE  NoLeak'
  <2>1. PICK s \in Structs, d \in Places : CopyAfter(t, s, d)  BY <1>3 DEF PopStep
  <2> QED  BY <2>1 DEF CopyAfter, At, Refs
<1>4. ASSUME NEW t \in Threads, DropStep(t)
     PROVE  NoLeak'
  <2>1. UNCHANGED <<state, target, pc, cur>>  BY <1>4 DEF DropStep, DropAfter
  <2> QED  BY <2>1 DEF Refs
<1>5. ASSUME NEW t \in Threads, NEW s \in Structs, IncBeginAfter(t, s)
     PROVE  NoLeak'
  BY <1>5 DEF IncBeginAfter, At, Refs
<1>6. ASSUME NEW t \in Threads, NEW s \in Structs, NEW r \in RefIds, IncEndAfter(t, s, r)
     PROVE  NoLeak'
  <2>1. UNCHANGED state /\ \A x \in Structs : Refs(x) \subseteq Refs(x)'
    BY <1>6, IncEndRefs DEF IncEndAfter
  <2>2. pc[t] = "inc_end" /\ At(pc, pc', t, "idle", Threads) /\ At(cur, cur', t, NoStruct, Threads)
    BY <1>6 DEF IncEndAfter
  <2> QED  BY <2>1, <2>2 DEF At
<1>7. ASSUME NEW t \in Threads, NEW s \in Structs, NEW r \in RefIds, DecBeginAfter(t, s, r)
     PROVE  NoLeak'
  BY <1>7 DEF DecBeginAfter, At, Refs
<1>8. ASSUME NEW t \in Threads, NEW s \in Structs, NEW r \in RefIds, DecEndAfter(t, s, r)
     PROVE  NoLeak'
  <2>1. s \in cur'[t] /\ pc'[t] = "check"  BY <1>8 DEF DecEndAfter, At
  <2>2. \A x \in Structs \ {s} : Refs(x)' = Refs(x)  BY <1>8, DecEndRefs
  <2>3. /\ UNCHANGED <<state, cur>> /\ pc[t] = "dec_end"
        /\ At(pc, pc', t, "check", Threads)
    BY <1>8 DEF DecEndAfter
  <2> QED  BY <2>1, <2>2, <2>3 DEF At
<1>9. ASSUME NEW t \in Threads, NEW s \in Structs, CheckAfter(t, s)
     PROVE  NoLeak'
  <2>1. Refs(s) = {} => refcount[s] = 0  BY FS_EmptySet DEF CountInv
  <2>2. UNCHANGED <<state, target>> /\ cur[t] = {s}  BY <1>9 DEF CheckAfter
  <2>3. \A x \in Structs : Refs(x)' = Refs(x)  BY <2>2 DEF Refs
  <2>4. CASE refcount[s] = 0 /\ At(pc, pc', t, "free", Threads) /\ UNCHANGED cur
    BY <2>2, <2>3, <2>4 DEF At
  <2>5. CASE refcount[s] # 0 /\ At(pc, pc', t, "idle", Threads) /\ At(cur, cur', t, NoStruct, Threads)
    BY <2>1, <2>2, <2>3, <2>5, OneStruct DEF At
  <2> QED  BY <1>9, <2>4, <2>5 DEF CheckAfter
<1>10. ASSUME NEW t \in Threads, NEW s \in Structs, FreeStep(t, s)
     PROVE  NoLeak'
  <2>1. /\ At(state, state', s, "freed", Structs) /\ UNCHANGED target /\ cur[t] = {s}
        /\ At(pc, pc', t, "idle", Threads) /\ At(cur, cur', t, NoStruct, Threads)
    BY <1>10 DEF FreeStep, FreeAfter
  <2>2. \A x \in Structs : Refs(x)' = Refs(x)  BY <2>1 DEF Refs
  <2> QED  BY <2>1, <2>2, OneStruct DEF At
<1>11. ASSUME NEW t \in Threads, NEW s \in Structs, NEW n \in Nat, ClaimAfter(t, s, n)
     PROVE  NoLeak'
  BY <1>11 DEF ClaimAfter, Refs
<1>12. CASE UNCHANGED vars
  BY <1>12 DEF vars, threadVars, Refs
<1> QED
  BY <1>1, <1>2, <1>3, <1>4, <1>5, <1>6, <1>7, <1>8, <1>9, <1>10, <1>11, <1>12 DEF StepAfter, CopyStep

-----------------------------------------------------------------------------
(* The invariant holds at the start.                                       *)
LEMMA RefsStart == Init => IInv /\ NoLeak
<1> SUFFICES ASSUME Init PROVE IInv /\ NoLeak
  OBVIOUS
<1> USE DEF Init
<1>1. TypeOK
  <2>1. Nowhere \in Places  BY DEF Places
  <2> QED  BY <2>1 DEF TypeOK
<1>2. TodoMine /\ TodoOnce /\ SrcMine /\ PlaceInv /\ CurInv
  BY DEF TodoMine, TodoOnce, SrcMine, PlaceInv, CurInv
<1>3. UsedInv  BY OneStruct DEF UsedInv
<1>4. MutexInv
  <2>1. \A u \in Threads, s \in Structs : Hold(u, s) = 0  BY DEF Hold, Counting
  <2> QED  BY <2>1 DEF MutexInv, Unowned
<1>5. CountInv
  <2>1. \A s \in Structs : Refs(s) = {}  BY OneStruct DEF Refs
  <2> QED  BY <2>1, FS_EmptySet DEF CountInv, Counting
<1>6. NoLeak  BY DEF NoLeak
<1> QED  BY <1>1, <1>2, <1>3, <1>4, <1>5, <1>6 DEF IInv, HandInv

(* The invariant is kept by every step.                                    *)
LEMMA RefsStepInv ==
  ASSUME IInv /\ NoLeak, "count_locked" \notin Habits, [Next]_vars
  PROVE  IInv' /\ NoLeak'
<1> USE DEF IInv, HandInv
<1>1. StepAfter  BY StepIsAfter
<1>2. TypeOK'  BY TypeStep
<1>3. TodoMine' /\ TodoOnce' /\ SrcMine'  BY <1>1, TodoMineStep, TodoOnceStep, SrcStep
<1>4. PlaceInv' /\ CurInv' /\ UsedInv'  BY <1>1, PlaceStep, CurStep, UsedStep
<1>5. CountInv'  BY <1>1, CountStep
<1>6. MutexInv'  BY MutexStep
<1>7. NoLeak'  BY <1>1, LeakStep
<1> QED  BY <1>2, <1>3, <1>4, <1>5, <1>6, <1>7

(* The inductive invariant holds in every program that does not count a    *)
(* structure it has locked, also in those that drop structures early.      *)
THEOREM RefsInvariant ==
  ASSUME "count_locked" \notin Habits
  PROVE  Spec => [](IInv /\ NoLeak)
<1>1. Init => IInv /\ NoLeak  BY RefsStart
<1>2. IInv /\ NoLeak /\ [Next]_vars => (IInv /\ NoLeak)'  BY RefsStepInv
<1> QED  BY <1>1, <1>2, PTL DEF Spec

(* The reference count of a structure is the number of its references,     *)
(* whatever the threads do at the same time.                               *)
THEOREM CountsExact ==
  ASSUME "count_locked" \notin Habits
  PROVE  Spec => []RefcountExact
<1>1. IInv => RefcountExact  BY DEF IInv, CountInv, RefcountExact
<1> QED  BY <1>1, RefsInvariant, PTL

(* A structure nobody refers to is about to be freed.                      *)
THEOREM NothingLeaks ==
  ASSUME "count_locked" \notin Habits
  PROVE  Spec => []NoLeak
BY RefsInvariant, PTL

(* A section between lock() and unlock() has the structure to itself.      *)
THEOREM LocksExclude ==
  ASSUME "count_locked" \notin Habits
  PROVE  Spec => []LockExcludes
<1>1. ASSUME IInv PROVE LockExcludes
  <2> SUFFICES ASSUME NEW t \in Threads, NEW u \in Threads, NEW s \in Structs,
                      t # u, claims[t][s] > 0
               PROVE  claims[u][s] = 0
    BY DEF LockExcludes
  <2>1. claims[t][s] \in Nat /\ claims[u][s] \in Nat  BY <1>1 DEF IInv, TypeOK
  <2>2. Hold(t, s) # 0 /\ (Hold(u, s) = 0 => claims[u][s] = 0)  BY <2>1 DEF Hold
  <2>3. Unowned(s) \/ \E o \in Threads : OwnedBy(s, o)  BY <1>1 DEF IInv, MutexInv
  <2> QED  BY <2>2, <2>3 DEF Unowned, OwnedBy
<1> QED  BY <1>1, RefsInvariant, PTL

-----------------------------------------------------------------------------
(* Whoever holds a mutex is between lock() and unlock() or is counting, in *)
(* programs that count what they have locked as well.  The variables these *)
(* steps change need no more than their domains to be known.               *)
LockTypes ==
  /\ owner \in [Structs -> SUBSET Threads] /\ depth \in [Structs -> Int]
  /\ DOMAIN pc = Threads /\ DOMAIN cur = Threads
  /\ claims \in [Threads -> [Structs -> Nat]]
(* Counting unlocks at once what it has locked; the mutex that counts its  *)
(* locks is held as often as its owner has locked it.                      *)
OnceHeld(s, t) == owner[s] = {t} /\ depth[s] = 1 /\ Hold(t, s) > 0
Freed(s) == owner[s] = {} /\ depth[s] = 0
HeldAt(s) ==
  /\ \A t \in Threads : Counting(t, s) => owner[s] = {t}
  /\ IF s \in Recursive THEN Unowned(s) \/ \E t \in Threads : OwnedBy(s, t)
                         ELSE Freed(s) \/ \E t \in Threads : OnceHeld(s, t)
HeldInv == LockTypes /\ \A s \in Structs : HeldAt(s)

(* A step begins or ends counting, or leaves the mutexes and the counting  *)
(* alone, unless it is a lock() or an unlock().                            *)
OthersCount(t) == \A u \in Threads \ {t}, x \in Structs : Counting(u, x)' <=> Counting(u, x)
Begins(t, s) ==
  /\ Locked(t, s) /\ UNCHANGED claims /\ OthersCount(t)
  /\ \A x \in Structs : ~Counting(t, x) /\ (Counting(t, x)' <=> x = s)
Ends(t, s) ==
  /\ Unlocked(s) /\ UNCHANGED claims /\ OthersCount(t) /\ Counting(t, s)
  /\ \A x \in Structs : (Counting(t, x) => x = s) /\ ~Counting(t, x)'
Rests ==
  /\ UNCHANGED <<owner, depth, claims>>
  /\ \A u \in Threads, x \in Structs : Counting(u, x)' <=> Counting(u, x)

(* What the steps do to the mutexes, in every program.                     *)
LEMMA MutexCases ==
  ASSUME LockTypes, [Next]_vars
  PROVE  \/ Rests
         \/ \E t \in Threads, s \in Structs : Begins(t, s) \/ Ends(t, s) \/ Lock(t, s) \/ Unlock(t, s)
<1> USE DEF LockTypes
<1>1. ASSUME NEW s \in Structs, New(s) PROVE Rests
  BY <1>1 DEF New, Rests, Counting, mutexVars, threadVars
<1>2. ASSUME NEW t \in Threads, NEW s, NEW p, Idle(t), BeginCopy(t, s, p), UNCHANGED <<mutexVars, claims>>
      PROVE  Rests
  <2>1. /\ pc[t] = "idle" /\ pc'[t] = "inc"
        /\ \A u \in Threads \ {t} : pc'[u] = pc[u] /\ cur'[u] = cur[u]
    BY <1>2 DEF Idle, BeginCopy
  <2> QED  BY <1>2, <2>1 DEF Rests, Counting, mutexVars
<1>3. ASSUME NEW t \in Threads,
             \/ \E s \in Structs, u \in Threads : Share(t, s, u)
             \/ \E s \in Structs, c \in Containers : Put(t, s, c)
             \/ \E r \in RefIds : Receive(t, r)
             \/ \E r \in RefIds, c \in Containers : Peek(t, r, c) \/ Pop(t, r, c)
      PROVE  Rests
  BY <1>2, <1>3 DEF Share, Put, Receive, Peek, Pop
<1>4. ASSUME NEW t \in Threads, NEW r \in RefIds, DropHandle(t, r) \/ DropTask(t, r) PROVE Rests
  BY <1>4 DEF DropHandle, DropTask, Rests, Counting, mutexVars
<1>5. ASSUME NEW t \in Threads, NEW s \in Structs, Check(t, s) \/ Free(t, s) PROVE Rests
  <2>1. /\ pc[t] \in {"check", "free"} /\ pc'[t] \in {"idle", "free"}
        /\ \A u \in Threads \ {t} : pc'[u] = pc[u] /\ cur'[u] = cur[u]
        /\ UNCHANGED <<owner, depth, claims>>
    BY <1>5 DEF Check, Free, mutexVars
  <2> QED  BY <2>1 DEF Rests, Counting
<1>6. ASSUME NEW t \in Threads, NEW s \in Structs, IncBegin(t, s) \/ DecBegin(t, s) PROVE Begins(t, s)
  <2>1. /\ pc[t] \in {"inc", "idle"} /\ pc'[t] \in {"inc_end", "dec_end"} /\ cur'[t] = {s}
        /\ \A u \in Threads \ {t} : pc'[u] = pc[u] /\ cur'[u] = cur[u]
        /\ Locked(t, s) /\ UNCHANGED claims
    BY <1>6 DEF IncBegin, DecBegin, Guarded
  <2> QED  BY <2>1, OneStruct DEF Begins, OthersCount, Counting
<1>7. ASSUME NEW t \in Threads, NEW s \in Structs, IncEnd(t, s) \/ DecEnd(t, s) PROVE Ends(t, s)
  <2>1. /\ pc[t] \in {"inc_end", "dec_end"} /\ pc'[t] \in {"check", "idle"} /\ cur[t] = {s}
        /\ \A u \in Threads \ {t} : pc'[u] = pc[u] /\ cur'[u] = cur[u]
        /\ Unlocked(s) /\ UNCHANGED claims
    BY <1>7 DEF IncEnd, DecEnd, Released
  <2> QED  BY <2>1, OneStruct DEF Ends, OthersCount, Counting
<1>8. CASE UNCHANGED vars  BY <1>8 DEF vars, mutexVars, Rests, Counting
<1>9. ASSUME NEW t \in Threads, Step(t)
      PROVE  Rests \/ \E s \in Structs : Begins(t, s) \/ Ends(t, s) \/ Lock(t, s) \/ Unlock(t, s)
  BY <1>3, <1>4, <1>5, <1>6, <1>7, <1>9 DEF Step
<1> QED  BY <1>1, <1>8, <1>9 DEF Next

(* Every thread has its place in pc and cur.                               *)
LEMMA DomainStays ==
  ASSUME LockTypes, [Next]_vars
  PROVE  DOMAIN pc' = Threads /\ DOMAIN cur' = Threads
<1> USE DEF LockTypes
<1>1. ASSUME NEW s \in Structs, New(s) PROVE UNCHANGED <<pc, cur>>
  BY <1>1 DEF New, threadVars
<1>2. ASSUME NEW t \in Threads,
             \/ \E s \in Structs, u \in Threads : Share(t, s, u)
             \/ \E s \in Structs, c \in Containers : Put(t, s, c)
             \/ \E r \in RefIds : Receive(t, r)
             \/ \E r \in RefIds, c \in Containers : Peek(t, r, c) \/ Pop(t, r, c)
      PROVE  DOMAIN pc' = Threads /\ DOMAIN cur' = Threads
  BY <1>2 DEF Share, Put, Receive, Peek, Pop, BeginCopy
<1>3. ASSUME NEW t \in Threads, NEW s \in Structs,
             IncBegin(t, s) \/ IncEnd(t, s) \/ DecBegin(t, s) \/ DecEnd(t, s) \/ Check(t, s) \/ Free(t, s)
      PROVE  DOMAIN pc' = Threads /\ DOMAIN cur' = Threads
  BY <1>3 DEF IncBegin, IncEnd, DecBegin, DecEnd, Check, Free
<1>4. ASSUME NEW t \in Threads, \/ \E r \in RefIds : DropHandle(t, r) \/ DropTask(t, r)
                                \/ \E s \in Structs : Lock(t, s) \/ Unlock(t, s)
      PROVE  UNCHANGED <<pc, cur>>
  BY <1>4 DEF DropHandle, DropTask, Lock, Unlock, threadVars
<1>5. ASSUME NEW t \in Threads, Step(t) PROVE DOMAIN pc' = Threads /\ DOMAIN cur' = Threads
  BY <1>2, <1>3, <1>4, <1>5 DEF Step
<1>6. CASE UNCHANGED vars  BY <1>6 DEF vars
<1> QED  BY <1>1, <1>5, <1>6 DEF Next

(* A mutex that nothing happens to.                                        *)
LEMMA HeldStays ==
  ASSUME NEW s \in Structs, HeldAt(s), owner'[s] = owner[s], depth'[s] = depth[s],
         \A u \in Threads : (Counting(u, s)' <=> Counting(u, s)) /\ claims'[u][s] = claims[u][s]
  PROVE  HeldAt(s)'
<1>1. \A u \in Threads : Hold(u, s)' = Hold(u, s)  BY DEF Hold
<1>2. Unowned(s) => Unowned(s)'  BY <1>1 DEF Unowned
<1>3. \A t \in Threads : (OwnedBy(s, t) => OwnedBy(s, t)') /\ (OnceHeld(s, t) => OnceHeld(s, t)')
  BY <1>1 DEF OwnedBy, OnceHeld
<1> QED  BY <1>2, <1>3 DEF HeldAt, Freed

(* A mutex that t locks, with lock() or to count.                          *)
LEMMA HeldLocks ==
  ASSUME LockTypes, NEW t \in Threads, NEW s \in Structs, HeldAt(s), Locked(t, s),
         Hold(t, s)' = Hold(t, s) + 1,
         \A u \in Threads \ {t} : (Counting(u, s)' <=> Counting(u, s)) /\ claims'[u][s] = claims[u][s]
  PROVE  HeldAt(s)'
<1>1. /\ owner[s] \subseteq {t} /\ owner'[s] = {t}
      /\ depth'[s] = IF s \in Recursive THEN depth[s] + 1 ELSE 1
  BY DEF LockTypes, Locked, MayLock
<1>2. \A u \in Threads : Hold(u, s) \in Nat  BY DEF Hold, LockTypes
<1>3. \A u \in Threads \ {t} : Hold(u, s)' = Hold(u, s)  BY DEF Hold
<1>4. \A u \in Threads : Counting(u, s)' => owner'[s] = {u}
  BY <1>1 DEF HeldAt
<1>5. CASE s \in Recursive
  <2>1. Hold(t, s) = depth[s] /\ \A u \in Threads \ {t} : Hold(u, s) = 0
    <3>1. CASE Unowned(s)  BY <3>1 DEF Unowned
    <3>2. ASSUME NEW o \in Threads, OwnedBy(s, o) PROVE o = t  BY <1>1, <3>2 DEF OwnedBy
    <3> QED  BY <1>5, <3>1, <3>2 DEF HeldAt, OwnedBy
  <2>2. depth'[s] = Hold(t, s)' /\ depth'[s] > 0  BY <1>1, <1>2, <1>5, <2>1
  <2>3. OwnedBy(s, t)'  BY <1>1, <1>3, <2>1, <2>2 DEF OwnedBy
  <2> QED  BY <1>4, <1>5, <2>3 DEF HeldAt
<1>6. CASE s \notin Recursive
  <2>1. OnceHeld(s, t)'  BY <1>1, <1>2, <1>6 DEF OnceHeld
  <2> QED  BY <1>4, <1>6, <2>1 DEF HeldAt
<1> QED  BY <1>5, <1>6

(* A mutex that its owner t unlocks, with unlock() or after it has counted.*)
LEMMA HeldUnlocks ==
  ASSUME LockTypes, NEW t \in Threads, NEW s \in Structs, HeldAt(s), Unlocked(s), owner[s] = {t},
         ~Counting(t, s)', Hold(t, s)' = Hold(t, s) - 1,
         \A u \in Threads \ {t} : (Counting(u, s)' <=> Counting(u, s)) /\ claims'[u][s] = claims[u][s]
  PROVE  HeldAt(s)'
<1>1. owner'[s] = (IF depth[s] = 1 THEN {} ELSE {t}) /\ depth'[s] = depth[s] - 1
  BY DEF LockTypes, Unlocked
<1>2. \A u \in Threads : Hold(u, s) \in Nat  BY DEF Hold, LockTypes
<1>3. \A u \in Threads \ {t} : Hold(u, s)' = Hold(u, s)  BY DEF Hold
<1>4. \A u \in Threads : ~Counting(u, s)'  BY DEF HeldAt
<1>5. CASE s \in Recursive
  <2>1. OwnedBy(s, t)
    <3>1. ~Unowned(s)  BY DEF Unowned
    <3>2. ASSUME NEW o \in Threads, OwnedBy(s, o) PROVE o = t  BY <3>2 DEF OwnedBy
    <3> QED  BY <1>5, <3>1, <3>2 DEF HeldAt
  <2>2. depth[s] = Hold(t, s) /\ \A u \in Threads \ {t} : Hold(u, s)' = 0
    BY <1>3, <2>1 DEF OwnedBy
  <2>3. depth'[s] = Hold(t, s)'  BY <1>1, <1>2, <2>2
  <2>4. CASE depth[s] = 1
    <3>1. owner'[s] = {} /\ depth'[s] = 0  BY <1>1, <2>4
    <3>2. Unowned(s)'  BY <2>2, <2>3, <3>1 DEF Unowned
    <3> QED  BY <1>4, <1>5, <3>2 DEF HeldAt
  <2>5. CASE depth[s] # 1
    <3>1. depth[s] \in Nat /\ depth[s] > 0  BY <1>2, <2>1, <2>2 DEF OwnedBy
    <3>2. owner'[s] = {t} /\ depth'[s] > 0  BY <1>1, <2>5, <3>1
    <3>3. OwnedBy(s, t)'  BY <2>2, <2>3, <3>2 DEF OwnedBy
    <3> QED  BY <1>4, <1>5, <3>3 DEF HeldAt
  <2> QED  BY <2>4, <2>5
<1>6. CASE s \notin Recursive
  <2>1. depth[s] = 1  BY <1>6 DEF HeldAt, OnceHeld, Freed
  <2>2. Freed(s)'  BY <1>1, <2>1 DEF Freed
  <2> QED  BY <1>4, <1>6, <2>2 DEF HeldAt
<1> QED  BY <1>5, <1>6

(* An unlock() whose section a count has ended before changes no mutex.    *)
LEMMA HeldEnded ==
  ASSUME LockTypes, NEW t \in Threads, NEW s \in Structs, HeldAt(s), owner[s] # {t},
         UNCHANGED <<owner, depth, pc, cur>>, claims[t][s] > 0,
         \A u \in Threads \ {t} : claims'[u][s] = claims[u][s]
  PROVE  HeldAt(s)'
<1>1. \A u \in Threads : Counting(u, s)' <=> Counting(u, s)  BY DEF Counting
<1>2. \A u \in Threads \ {t} : Hold(u, s)' = Hold(u, s)  BY <1>1 DEF Hold
<1>3. Hold(t, s) # 0  BY DEF Hold, LockTypes
<1>4. CASE s \in Recursive  BY <1>3, <1>4 DEF HeldAt, Unowned, OwnedBy
<1>5. CASE s \notin Recursive
  <2>1. ASSUME NEW o \in Threads, OnceHeld(s, o) PROVE OnceHeld(s, o)'
    <3>1. o # t  BY <2>1 DEF OnceHeld
    <3> QED  BY <1>2, <2>1, <3>1 DEF OnceHeld
  <2> QED  BY <1>1, <1>5, <2>1 DEF HeldAt, Freed
<1> QED  BY <1>4, <1>5

(* The mutexes in every program.                                           *)
LEMMA HeldStep == HeldInv /\ [Next]_vars => HeldInv'
<1> SUFFICES ASSUME HeldInv, [Next]_vars PROVE HeldInv'
  OBVIOUS
<1> USE DEF HeldInv
<1>1. LockTypes'
  <2>1. CASE Rests
    <3>1. DOMAIN pc' = Threads /\ DOMAIN cur' = Threads  BY DomainStays
    <3> QED  BY <2>1, <3>1 DEF Rests, LockTypes
  <2>2. ASSUME NEW t \in Threads, NEW s \in Structs, Begins(t, s) PROVE LockTypes'
    <3>1. DOMAIN pc' = Threads /\ DOMAIN cur' = Threads  BY DomainStays
    <3> QED  BY <2>2, <3>1 DEF Begins, Locked, LockTypes
  <2>3. ASSUME NEW t \in Threads, NEW s \in Structs, Ends(t, s) PROVE LockTypes'
    <3>1. DOMAIN pc' = Threads /\ DOMAIN cur' = Threads  BY DomainStays
    <3> QED  BY <2>3, <3>1 DEF Ends, Unlocked, LockTypes
  <2>4. ASSUME NEW t \in Threads, NEW s \in Structs, Lock(t, s) PROVE LockTypes'
    BY <2>4 DEF Lock, Taken, Locked, LockTypes, threadVars
  <2>5. ASSUME NEW t \in Threads, NEW s \in Structs, Unlock(t, s) PROVE LockTypes'
    <3>1. claims[t][s] - 1 \in Nat  BY <2>5 DEF Unlock, LockTypes
    <3>2. claims' \in [Threads -> [Structs -> Nat]]  BY <2>5, <3>1 DEF Unlock, LockTypes
    <3> QED  BY <2>5, <3>2 DEF Unlock, Unlocked, LockTypes, threadVars, mutexVars
  <2> QED  BY <2>1, <2>2, <2>3, <2>4, <2>5, MutexCases
<1>2. ASSUME NEW x \in Structs PROVE HeldAt(x)'
  <2>1. CASE Rests
    BY <2>1, HeldStays DEF Rests
  <2>2. ASSUME NEW t \in Threads, NEW s \in Structs, Begins(t, s) PROVE HeldAt(x)'
    <3>1. CASE x = s
      <4>1. Hold(t, s)' = Hold(t, s) + 1  BY <2>2 DEF Begins, Hold, LockTypes
      <4> QED  BY <2>2, <3>1, <4>1, HeldLocks DEF Begins, OthersCount
    <3>2. CASE x # s
      <4>1. owner'[x] = owner[x] /\ depth'[x] = depth[x]
        BY <2>2, <3>2 DEF Begins, Locked, LockTypes
      <4>2. \A u \in Threads : Counting(u, x)' <=> Counting(u, x)
        BY <2>2, <3>2 DEF Begins, OthersCount
      <4> QED  BY <2>2, <4>1, <4>2, HeldStays DEF Begins
    <3> QED  BY <3>1, <3>2
  <2>3. ASSUME NEW t \in Threads, NEW s \in Structs, Ends(t, s) PROVE HeldAt(x)'
    <3>1. CASE x = s
      <4>1. Hold(t, s)' = Hold(t, s) - 1  BY <2>3 DEF Ends, Hold, LockTypes
      <4>2. owner[s] = {t}  BY <2>3 DEF Ends, HeldAt
      <4> QED  BY <2>3, <3>1, <4>1, <4>2, HeldUnlocks DEF Ends, OthersCount
    <3>2. CASE x # s
      <4>1. owner'[x] = owner[x] /\ depth'[x] = depth[x]
        BY <2>3, <3>2 DEF Ends, Unlocked, LockTypes
      <4>2. \A u \in Threads : Counting(u, x)' <=> Counting(u, x)
        BY <2>3, <3>2 DEF Ends, OthersCount
      <4> QED  BY <2>3, <4>1, <4>2, HeldStays DEF Ends
    <3> QED  BY <3>1, <3>2
  <2>4. ASSUME NEW t \in Threads, NEW s \in Structs, Lock(t, s) PROVE HeldAt(x)'
    <3>1. /\ UNCHANGED <<pc, cur>> /\ Locked(t, s)
          /\ \A u \in Threads, y \in Structs :
               claims'[u][y] = IF u = t /\ y = s THEN claims[u][y] + 1 ELSE claims[u][y]
      BY <2>4 DEF Lock, Taken, LockTypes, threadVars
    <3>2. \A u \in Threads, y \in Structs : Counting(u, y)' <=> Counting(u, y)
      BY <3>1 DEF Counting
    <3>3. CASE x = s
      <4>1. Hold(t, s)' = Hold(t, s) + 1  BY <3>1, <3>2 DEF Hold, LockTypes
      <4> QED  BY <3>1, <3>2, <3>3, <4>1, HeldLocks
    <3>4. CASE x # s
      <4>1. owner'[x] = owner[x] /\ depth'[x] = depth[x]  BY <3>1, <3>4 DEF Locked, LockTypes
      <4> QED  BY <3>1, <3>2, <3>4, <4>1, HeldStays
    <3> QED  BY <3>3, <3>4
  <2>5. ASSUME NEW t \in Threads, NEW s \in Structs, Unlock(t, s) PROVE HeldAt(x)'
    <3>1. /\ UNCHANGED <<pc, cur>> /\ pc[t] = "idle" /\ claims[t][s] > 0
          /\ IF owner[s] = {t} THEN Unlocked(s) ELSE UNCHANGED <<owner, depth>>
          /\ \A u \in Threads, y \in Structs :
               claims'[u][y] = IF u = t /\ y = s THEN claims[u][y] - 1 ELSE claims[u][y]
      BY <2>5 DEF Unlock, Idle, LockTypes, threadVars, mutexVars
    <3>2. \A u \in Threads, y \in Structs : Counting(u, y)' <=> Counting(u, y)
      BY <3>1 DEF Counting
    <3>3. CASE x = s /\ owner[s] = {t}
      <4>1. Hold(t, s)' = Hold(t, s) - 1  BY <3>1, <3>2 DEF Hold, LockTypes
      <4>2. ~Counting(t, s)'  BY <3>1 DEF Counting
      <4> QED  BY <3>1, <3>2, <3>3, <4>1, <4>2, HeldUnlocks
    <3>4. CASE x = s /\ owner[s] # {t}
      BY <3>1, <3>4, HeldEnded
    <3>5. CASE x # s
      <4>1. owner'[x] = owner[x] /\ depth'[x] = depth[x]  BY <3>1, <3>5 DEF Unlocked, LockTypes
      <4> QED  BY <3>1, <3>2, <3>5, <4>1, HeldStays
    <3> QED  BY <3>3, <3>4, <3>5
  <2> QED  BY <2>1, <2>2, <2>3, <2>4, <2>5, MutexCases
<1> QED  BY <1>1, <1>2

(* In every program, whoever waits for a mutex waits for a thread between  *)
(* lock() and unlock() of it, or for one that is counting: pht itself      *)
(* keeps no mutex, and only sections locked in opposite orders deadlock.   *)
THEOREM NobodyStuck == Spec => []OnlySectionsBlock
<1>1. Init => HeldInv
  <2> SUFFICES ASSUME Init PROVE HeldInv
    OBVIOUS
  <2>1. LockTypes  BY DEF Init, LockTypes
  <2>2. \A u \in Threads, s \in Structs : ~Counting(u, s) /\ Hold(u, s) = 0
    BY DEF Init, Counting, Hold
  <2>3. \A s \in Structs : Unowned(s) /\ Freed(s)  BY <2>2 DEF Init, Unowned, Freed
  <2> QED  BY <2>1, <2>2, <2>3 DEF HeldInv, HeldAt
<1>2. ASSUME HeldInv PROVE OnlySectionsBlock
  <2> SUFFICES ASSUME NEW u \in Threads, NEW s \in Structs, owner[s] = {u}
               PROVE  claims[u][s] > 0 \/ Counting(u, s)
    BY DEF OnlySectionsBlock
  <2>1. HeldAt(s) /\ claims[u][s] \in Nat  BY <1>2 DEF HeldInv, LockTypes
  <2>2. Hold(u, s) > 0
    <3>1. CASE s \in Recursive
      <4>1. OwnedBy(s, u)  BY <2>1, <3>1 DEF HeldAt, Unowned, OwnedBy
      <4> QED  BY <4>1 DEF OwnedBy
    <3>2. CASE s \notin Recursive
      <4>1. OnceHeld(s, u)  BY <2>1, <3>2 DEF HeldAt, Freed, OnceHeld
      <4> QED  BY <4>1 DEF OnceHeld
    <3> QED  BY <3>1, <3>2
  <2> QED  BY <2>1, <2>2 DEF Hold
<1> QED  BY <1>1, <1>2, HeldStep, PTL DEF Spec

-----------------------------------------------------------------------------
(***************************************************************************)
(* No structure is used after it has been freed, in programs that keep     *)
(* what they share until the workers are done and count nothing they have  *)
(* locked, when there is one worker or no structure holds another.         *)
(***************************************************************************)

(* What a thread is about to drop, and the structures it keeps an object   *)
(* of.                                                                     *)
Doomed(t, r) == r \in src[t] \/ \E i \in DOMAIN todo[t] : todo[t][i] = r
Leaves(t, s) == cur[t] = {s} \/ \E i \in DOMAIN todo[t] : target[todo[t][i]] = {s}
Keeps(t, s) == \E r \in Refs(s) : place[r] = <<"handle", t>> /\ ~Doomed(t, r)
Holding(t) == {<<"handle", t>>, <<"task", t>>}

(* A copy is made of a reference that stays where it is: the thread's own, *)
(* or an entry of a container it has locked.                               *)
Anchored(t, s) == \E r \in Refs(s) :
  place[r] \in Mine(t) \/ \E c \in Containers : place[r] = <<"in", c>> /\ claims[t][c] > 0
AnchorInv == \A t \in Threads, s \in Structs : pc[t] \in {"inc", "inc_end"} /\ cur[t] = {s} =>
  Anchored(t, s) /\ (dest[t] = <<"handle", t>> \/ Keeps(t, s))

(* Only pop() copies and drops at once: it drops what it makes an object   *)
(* of.                                                                     *)
PopInv == \A t \in Threads : pc[t] \in {"inc", "inc_end"} =>
  \A i \in DOMAIN todo[t] : dest[t] = <<"handle", t>> /\ target[todo[t][i]] = cur[t]

(* A container is locked by a thread that has an object of it and does not *)
(* count it; Main gets no tasks.                                           *)
ClaimInv == \A t \in Threads, c \in Containers : claims[t][c] > 0 =>
  HasHandle(t, c) /\ ~Counting(t, c)
NoMainTask == /\ \A r \in RefIds : place[r] # <<"task", Main>>
              /\ \A t \in Threads : dest[t] # <<"task", Main>>

(* Main drops what it keeps another object of, unless all others are done. *)
MainInv == \/ Quiet(Main) \/ pc[Main] \in {"inc", "inc_end"}
           \/ \A s \in Structs : Leaves(Main, s) => Keeps(Main, s)

(* Without containers, Main keeps an object of whatever others use.        *)
Uses(t, s) == Leaves(t, s) \/ \E r \in Refs(s) : place[r] \in Holding(t)
ShareInv == Containers = {} =>
  \A t \in Threads \ {Main}, s \in Structs : Uses(t, s) => Keeps(Main, s)

(* Who frees a structure is the only one that still knows of it.           *)
FreeInv == \A t \in Threads, s \in Structs : pc[t] = "free" /\ cur[t] = {s} =>
  Refs(s) = {} /\ \A u \in Threads \ {t} : cur[u] # {s}

FInv == AnchorInv /\ PopInv /\ ClaimInv /\ NoMainTask /\ MainInv /\ ShareInv /\ FreeInv

(* The programs the theorem is about.                                      *)
Careful == /\ "drop_early" \notin Habits /\ "count_locked" \notin Habits
           /\ Containers = {} \/ \E w : Threads = {Main, w}

-----------------------------------------------------------------------------
(* The steps of ItcRefsProofs, with where the references come from.        *)
NewFrom(s, r) ==
  NewAfter(s, r) /\ pc[Main] = "idle" /\ At(place, place', r, <<"handle", Main>>, RefIds)
CopyFrom(t, s, d) ==
  /\ CopyAfter(t, s, d) /\ UNCHANGED <<place, todo>>
  /\ Anchored(t, s) /\ (d = <<"handle", t>> \/ HasHandle(t, s)) /\ d # <<"task", Main>>
  /\ \E r \in RefIds : place[r] \in Holding(t)
  /\ Containers = {} => \E r \in Refs(s) : place[r] \in Holding(t)
PopFrom(t, s, r) ==
  /\ CopyAfter(t, s, <<"handle", t>>) /\ r \in Refs(s)
  /\ \E c \in Containers : place[r] = <<"in", c>> /\ claims[t][c] > 0 /\ HasHandle(t, c)
  /\ At(place, place', r, <<"hand", t>>, RefIds) /\ At(todo, todo', t, <<r>>, Threads)
DropFrom(t, r) ==
  /\ DropAfter(t, r) /\ place[r] \in Holding(t)
  /\ t = Main /\ place[r] = <<"handle", t>> => Quiet(Main)
FreeFrom(t, s) ==
  /\ FreeStep(t, s)
  /\ \A r \in RefIds : place'[r] = IF r \in Contents(s) THEN <<"hand", t>> ELSE place[r]
ClaimFrom(t, s) == HasHandle(t, s) /\ \E n \in Nat : ClaimAfter(t, s, n)
Acts(t) ==
  \/ t = Main /\ \E s \in Structs, r \in RefIds : NewFrom(s, r)
  \/ \E s \in Structs, d \in Places : CopyFrom(t, s, d)
  \/ \E s \in Structs, r \in RefIds : PopFrom(t, s, r)
  \/ \E r \in RefIds : DropFrom(t, r)
  \/ \E s \in Structs : IncBeginAfter(t, s) \/ CheckAfter(t, s) \/ FreeFrom(t, s) \/ ClaimFrom(t, s)
  \/ \E s \in Structs, r \in RefIds :
       IncEndAfter(t, s, r) \/ DecBeginAfter(t, s, r) \/ DecEndAfter(t, s, r)

(* The places are told apart by their tags and threads.                    *)
LEMMA PlacesApart ==
  /\ \A t, u : <<"handle", t>> = <<"handle", u>> => t = u
  /\ \A t, u : <<"task", t>> = <<"task", u>> => t = u
  /\ \A t, u : <<"in", t>> = <<"in", u>> => t = u
  /\ \A t, u : /\ <<"handle", t>> # <<"task", u>> /\ <<"handle", t>> # <<"hand", u>>
               /\ <<"handle", t>> # <<"in", u>> /\ <<"task", t>> # <<"hand", u>>
               /\ <<"task", t>> # <<"in", u>> /\ <<"hand", t>> # <<"in", u>>
  /\ \A t : /\ <<"handle", t>> # Nowhere /\ <<"task", t>> # Nowhere
            /\ <<"hand", t>> # Nowhere /\ <<"in", t>> # Nowhere
BY DEF Nowhere

(* Share, Put, Receive and Peek.                                           *)
LEMMA CopiesFrom ==
  ASSUME IInv, NEW t \in Threads, NoMainTask,
         \/ \E s \in Structs, u \in Threads : Share(t, s, u)
         \/ \E s \in Structs, c \in Containers : Put(t, s, c)
         \/ \E r \in RefIds : Receive(t, r)
         \/ \E r \in RefIds, c \in Containers : Peek(t, r, c)
  PROVE  \E s \in Structs, d \in Places : CopyFrom(t, s, d)
<1> USE DEF IInv, HandInv, HasHandle, Holding, Mine, Claimed
<1>1. ASSUME NEW s \in Structs, NEW u \in Threads, Share(t, s, u)
      PROVE  CopyFrom(t, s, <<"task", u>>) /\ <<"task", u>> \in Places
  <2>1. state[s] # "unused"  BY <1>1 DEF Share, Refs, UsedInv
  <2>2. <<"task", u>> \in Places  BY DEF Places
  <2>3. CopyEffect(t, s, <<"task", u>>)  BY <1>1, <2>1, <2>2 DEF Share, BeginCopy, CopyEffect
  <2>4. CopyAfter(t, s, <<"task", u>>)  BY <2>3, CopyPoints
  <2>5. /\ \E r \in Refs(s) : place[r] = <<"handle", t>>
        /\ u # Main /\ UNCHANGED <<place, todo>>
    BY <1>1 DEF Share
  <2>6. Refs(s) \subseteq RefIds  BY DEF Refs
  <2> QED  BY <2>2, <2>4, <2>5, <2>6, PlacesApart DEF CopyFrom, Anchored
<1>2. ASSUME NEW s \in Structs, NEW c \in Containers, Put(t, s, c)
      PROVE  CopyFrom(t, s, <<"in", c>>) /\ <<"in", c>> \in Places
  <2>1. state[s] # "unused"  BY <1>2 DEF Put, Refs, UsedInv
  <2>2. <<"in", c>> \in Places  BY DEF Places
  <2>3. CopyEffect(t, s, <<"in", c>>)  BY <1>2, <2>1, <2>2 DEF Put, BeginCopy, CopyEffect
  <2>4. CopyAfter(t, s, <<"in", c>>)  BY <2>3, CopyPoints
  <2>5. (\E r \in Refs(s) : place[r] = <<"handle", t>>) /\ UNCHANGED <<place, todo>>
    BY <1>2 DEF Put
  <2>6. Refs(s) \subseteq RefIds  BY DEF Refs
  <2> QED  BY <2>2, <2>4, <2>5, <2>6, PlacesApart DEF CopyFrom, Anchored
<1>3. <<"handle", t>> \in Places  BY DEF Places
<1>4. ASSUME NEW r \in RefIds, Receive(t, r)
      PROVE  \E s \in Structs : CopyFrom(t, s, <<"handle", t>>)
  <2>1. PICK s \in Structs : target[r] = {s} /\ BeginCopy(t, s, <<"handle", t>>)
    BY <1>4 DEF Receive
  <2>2. state[s] # "unused"  BY <2>1 DEF UsedInv
  <2>3. CopyEffect(t, s, <<"handle", t>>)
    BY <1>3, <1>4, <2>1, <2>2 DEF Receive, BeginCopy, CopyEffect
  <2>4. CopyAfter(t, s, <<"handle", t>>)  BY <2>3, CopyPoints
  <2>5. r \in Refs(s) /\ place[r] = <<"task", t>> /\ UNCHANGED <<place, todo>>
    BY <1>4, <2>1 DEF Receive, Refs
  <2> QED  BY <2>4, <2>5, PlacesApart DEF CopyFrom, Anchored
<1>5. ASSUME NEW r \in RefIds, NEW c \in Containers, Peek(t, r, c)
      PROVE  \E s \in Structs : CopyFrom(t, s, <<"handle", t>>)
  <2>1. PICK s \in Structs : target[r] = {s} /\ BeginCopy(t, s, <<"handle", t>>)
    BY <1>5 DEF Peek
  <2>2. state[s] # "unused"  BY <2>1 DEF UsedInv
  <2>3. CopyEffect(t, s, <<"handle", t>>)
    BY <1>3, <1>5, <2>1, <2>2 DEF Peek, BeginCopy, CopyEffect
  <2>4. CopyAfter(t, s, <<"handle", t>>)  BY <2>3, CopyPoints
  <2>5. r \in Refs(s) /\ place[r] = <<"in", c>> /\ UNCHANGED <<place, todo>> /\ claims[t][c] > 0
    BY <1>5, <2>1 DEF Peek, Refs
  <2>6. \E q \in RefIds : place[q] = <<"handle", t>>  BY <1>5 DEF Peek, Refs
  <2> QED  BY <2>4, <2>5, <2>6, PlacesApart DEF CopyFrom, Anchored
<1> QED  BY <1>1, <1>2, <1>3, <1>4, <1>5

(* Pop.                                                                    *)
LEMMA PopsFrom ==
  ASSUME IInv, NEW t \in Threads, NEW r \in RefIds, NEW c \in Containers, Pop(t, r, c)
  PROVE  \E s \in Structs : PopFrom(t, s, r)
<1> USE DEF IInv, HandInv
<1>1. PICK s \in Structs : target[r] = {s} /\ BeginCopy(t, s, <<"handle", t>>)
  BY DEF Pop
<1>2. state[s] # "unused"  BY <1>1 DEF UsedInv
<1>3. <<"handle", t>> \in Places  BY DEF Places
<1>4. CopyEffect(t, s, <<"handle", t>>)
  BY <1>1, <1>2, <1>3 DEF Pop, BeginCopy, CopyEffect
<1>5. CopyAfter(t, s, <<"handle", t>>)  BY <1>4, CopyPoints
<1>6. r \in Refs(s) /\ place[r] = <<"in", c>> /\ HasHandle(t, c) /\ claims[t][c] > 0
  BY <1>1 DEF Pop, Refs, Claimed
<1>7. At(place, place', r, <<"hand", t>>, RefIds) /\ At(todo, todo', t, <<r>>, Threads)
  BY DEF Pop, At, TypeOK
<1> QED  BY <1>5, <1>6, <1>7 DEF PopFrom

(* DropHandle and DropTask.                                                *)
LEMMA DropsFrom ==
  ASSUME IInv, "drop_early" \notin Habits,
         NEW t \in Threads, NEW r \in RefIds, DropHandle(t, r) \/ DropTask(t, r)
  PROVE  DropFrom(t, r)
<1> USE DEF IInv, HandInv
<1>1. place[r] \in Mine(t) /\ place[r] \in Holding(t)  BY DEF DropHandle, DropTask, Mine, Holding
<1>2. \E s \in Structs : target[r] = {s}
  <2>1. target[r] # NoStruct  BY <1>1, MineApart DEF PlaceInv
  <2> QED  BY <2>1 DEF TypeOK
<1>3. DropAfter(t, r)
  BY <1>1, <1>2 DEF DropHandle, DropTask, DropAfter, At, TypeOK, Idle, mutexVars
<1>4. place[r] = <<"handle", t>> /\ t = Main => Quiet(Main)
  BY PlacesApart DEF DropHandle, DropTask
<1> QED  BY <1>1, <1>3, <1>4 DEF DropFrom

(* Every step is by one thread, or changes nothing.                        *)
LEMMA StepIsFrom ==
  ASSUME IInv, NoMainTask, Careful, [Next]_vars
  PROVE  (\E t \in Threads : Acts(t)) \/ UNCHANGED vars
<1> USE DEF IInv, HandInv, Careful
<1>1. ASSUME NEW s \in Structs, New(s) PROVE Acts(Main)
  <2>1. PICK r \in UnusedRefs : /\ target' = [target EXCEPT ![r] = {s}]
                               /\ place' = [place EXCEPT ![r] = <<"handle", Main>>]
    BY <1>1 DEF New
  <2>2. At(place, place', r, <<"handle", Main>>, RefIds)  BY <2>1 DEF At, TypeOK
  <2>3. <<"handle", Main>> \in Mine(Main)  BY DEF Mine
  <2>4. NewAfter(s, r)
    BY <1>1, <2>1, <2>2, <2>3 DEF New, NewAfter, At, UnusedRefs, TypeOK, mutexVars, threadVars
  <2>5. NewFrom(s, r) /\ r \in RefIds  BY <1>1, <2>1, <2>2, <2>4 DEF NewFrom, New, Idle, UnusedRefs
  <2> QED  BY <2>5 DEF Acts
<1>2. ASSUME NEW t \in Threads, Step(t) PROVE Acts(t)
  <2>1. CASE \/ \E s \in Structs, u \in Threads : Share(t, s, u)
             \/ \E s \in Structs, c \in Containers : Put(t, s, c)
             \/ \E r \in RefIds : Receive(t, r)
             \/ \E r \in RefIds, c \in Containers : Peek(t, r, c)
    BY <2>1, CopiesFrom DEF Acts
  <2>2. CASE \E r \in RefIds, c \in Containers : Pop(t, r, c)  BY <2>2, PopsFrom DEF Acts
  <2>3. CASE \E r \in RefIds : DropHandle(t, r) \/ DropTask(t, r)  BY <2>3, DropsFrom DEF Acts
  <2>4. ASSUME NEW s \in Structs, IncBegin(t, s) PROVE Acts(t)
    BY <2>4, IncBeginPoints DEF Acts
  <2>5. ASSUME NEW s \in Structs, IncEnd(t, s) PROVE Acts(t)
    BY <2>5, IncEndPoints DEF Acts
  <2>6. ASSUME NEW s \in Structs, DecBegin(t, s) PROVE Acts(t)
    BY <2>6, DecBeginPoints DEF Acts
  <2>7. ASSUME NEW s \in Structs, DecEnd(t, s) PROVE Acts(t)
    BY <2>7, DecEndPoints DEF Acts
  <2>8. ASSUME NEW s \in Structs, Check(t, s) PROVE Acts(t)
    BY <2>8, CheckPoints DEF Acts
  <2>9. ASSUME NEW s \in Structs, Free(t, s) PROVE Acts(t)
    <3>1. FreeStep(t, s)  BY <2>9, FreePoints DEF FreeStep
    <3>2. FreeFrom(t, s)  BY <2>9, <3>1 DEF FreeFrom, Free
    <3> QED  BY <3>2 DEF Acts
  <2>10. ASSUME NEW s \in Structs, Lock(t, s) \/ Unlock(t, s) PROVE Acts(t)
    <3>1. ClaimFrom(t, s)  BY <2>10, ClaimPoints DEF ClaimFrom, Lock, Unlock
    <3> QED  BY <3>1 DEF Acts
  <2> QED  BY <1>2, <2>1, <2>2, <2>3, <2>4, <2>5, <2>6, <2>7, <2>8, <2>9, <2>10 DEF Step
<1> QED  BY <1>1, <1>2, ThreadsAssumption DEF Next

-----------------------------------------------------------------------------
(* What a step of t leaves alone.                                          *)
LEMMA OthersStay ==
  ASSUME NEW t \in Threads, Acts(t), NEW u \in Threads \ {t}
  PROVE  /\ pc'[u] = pc[u] /\ cur'[u] = cur[u] /\ src'[u] = src[u]
         /\ dest'[u] = dest[u] /\ todo'[u] = todo[u]
         /\ \A s \in Structs : claims'[u][s] = claims[u][s]
<1> USE DEF At
<1>1. ASSUME NEW s \in Structs, NEW r \in RefIds, NewFrom(s, r)
      PROVE  UNCHANGED <<pc, cur, src, dest, todo, claims>>
  BY <1>1 DEF NewFrom, NewAfter
<1>2. ASSUME NEW s \in Structs, NEW d, CopyAfter(t, s, d)
      PROVE  /\ pc'[u] = pc[u] /\ cur'[u] = cur[u] /\ dest'[u] = dest[u]
             /\ UNCHANGED <<src, claims>>
  BY <1>2 DEF CopyAfter
<1>3. ASSUME NEW s \in Structs, NEW r \in RefIds, PopFrom(t, s, r)
      PROVE  todo'[u] = todo[u] /\ CopyAfter(t, s, <<"handle", t>>)
  BY <1>3 DEF PopFrom
<1>4. ASSUME NEW r \in RefIds, DropFrom(t, r)
      PROVE  todo'[u] = todo[u] /\ UNCHANGED <<pc, cur, src, dest, claims>>
  BY <1>4 DEF DropFrom, DropAfter
<1>5. ASSUME NEW s \in Structs, NEW r \in RefIds, IncEndAfter(t, s, r)
      PROVE  /\ pc'[u] = pc[u] /\ cur'[u] = cur[u] /\ dest'[u] = dest[u]
             /\ UNCHANGED <<src, todo, claims>>
  BY <1>5 DEF IncEndAfter
<1>6. ASSUME NEW s \in Structs, NEW r \in RefIds, DecBeginAfter(t, s, r)
      PROVE  /\ pc'[u] = pc[u] /\ cur'[u] = cur[u] /\ src'[u] = src[u] /\ todo'[u] = todo[u]
             /\ UNCHANGED <<dest, claims>>
  BY <1>6 DEF DecBeginAfter
<1>7. ASSUME NEW s \in Structs, NEW r \in RefIds, DecEndAfter(t, s, r)
      PROVE  /\ pc'[u] = pc[u] /\ src'[u] = src[u] /\ UNCHANGED <<cur, dest, todo, claims>>
  BY <1>7 DEF DecEndAfter
<1>8. ASSUME NEW s \in Structs, IncBeginAfter(t, s)
      PROVE  pc'[u] = pc[u] /\ UNCHANGED <<cur, src, dest, todo, claims>>
  BY <1>8 DEF IncBeginAfter
<1>9. ASSUME NEW s \in Structs, CheckAfter(t, s)
      PROVE  pc'[u] = pc[u] /\ cur'[u] = cur[u] /\ UNCHANGED <<src, dest, todo, claims>>
  BY <1>9 DEF CheckAfter
<1>10. ASSUME NEW s \in Structs, FreeFrom(t, s)
       PROVE  /\ pc'[u] = pc[u] /\ cur'[u] = cur[u] /\ todo'[u] = todo[u]
              /\ UNCHANGED <<src, dest, claims>>
  BY <1>10 DEF FreeFrom, FreeStep, FreeAfter
<1>11. ASSUME NEW s \in Structs, ClaimFrom(t, s)
       PROVE  /\ UNCHANGED <<pc, cur, src, dest, todo>>
              /\ \A x \in Structs : claims'[u][x] = claims[u][x]
  BY <1>11 DEF ClaimFrom, ClaimAfter
<1>12. ASSUME NEW s \in Structs, NEW d \in Places, CopyFrom(t, s, d)
       PROVE  CopyAfter(t, s, d) /\ UNCHANGED todo
  BY <1>12 DEF CopyFrom
<1> HIDE DEF At
<1>13. CASE \E s \in Structs, d \in Places : CopyFrom(t, s, d)  BY <1>2, <1>12, <1>13
<1>14. CASE \E s \in Structs, r \in RefIds : PopFrom(t, s, r)  BY <1>2, <1>3, <1>14
<1> QED
  BY <1>1, <1>4, <1>5, <1>6, <1>7, <1>8, <1>9, <1>10, <1>11, <1>13, <1>14 DEF Acts

(* A step of t moves its own references, and entries of a container it has *)
(* locked or is freeing; a reference that is made is one to the structure  *)
(* it counts, or to a new one.                                             *)
Moves(t, r) ==
  \/ place'[r] = place[r] /\ target'[r] = target[r]
  \/ target[r] = NoStruct
  \/ place[r] \in Mine(t)
  \/ \E c \in Containers : place[r] = <<"in", c>> /\ (claims[t][c] > 0 \/ (pc[t] = "free" /\ cur[t] = {c}))
Lands(t, r) ==
  \/ place'[r] = place[r] \/ place'[r] \in {Nowhere, <<"hand", t>>}
  \/ t = Main /\ target[r] = NoStruct /\ place'[r] = <<"handle", Main>>
  \/ pc[t] = "inc_end" /\ target[r] = NoStruct /\ target'[r] = cur[t] /\ place'[r] = dest[t]
Makes(t, r, s) == target'[r] = {s} =>
  \/ target[r] = {s} \/ (target[r] = NoStruct /\ state[s] = "unused")
  \/ target[r] = NoStruct /\ cur[t] = {s} /\ pc[t] = "inc_end"

(* Where references go.                                                    *)
LEMMA RefsMove ==
  ASSUME TypeOK, NEW t \in Threads, Acts(t), NEW r \in RefIds
  PROVE  Moves(t, r) /\ Lands(t, r) /\ \A s \in Structs : Makes(t, r, s)
<1> USE DEF At
<1>1. ASSUME NEW s \in Structs, NEW q \in RefIds, NewFrom(s, q), t = Main
      PROVE  /\ place'[r] = IF r = q THEN <<"handle", t>> ELSE place[r]
             /\ target'[r] = IF r = q THEN {s} ELSE target[r]
             /\ target[q] = NoStruct /\ state[s] = "unused"
  BY <1>1 DEF NewFrom, NewAfter
<1>2. CASE t = Main /\ \E s \in Structs, q \in RefIds : NewFrom(s, q)
  <2>1. PICK s \in Structs, q \in RefIds : NewFrom(s, q)  BY <1>2
  <2>2. \A x \in Structs : {s} = {x} => s = x  BY OneStruct
  <2> QED  BY <1>1, <1>2, <2>1, <2>2 DEF Moves, Lands, Makes
<1>3. ASSUME UNCHANGED <<place, target>>
      PROVE  Moves(t, r) /\ Lands(t, r) /\ \A s \in Structs : Makes(t, r, s)
  BY <1>3 DEF Moves, Lands, Makes
<1>4. ASSUME NEW s \in Structs, NEW q \in RefIds, PopFrom(t, s, q)
      PROVE  /\ UNCHANGED target /\ place'[r] = IF r = q THEN <<"hand", t>> ELSE place[r]
             /\ \E c \in Containers : place[q] = <<"in", c>> /\ claims[t][c] > 0
  BY <1>4 DEF PopFrom, CopyAfter
<1>5. CASE \E s \in Structs, q \in RefIds : PopFrom(t, s, q)
  BY <1>4, <1>5 DEF Moves, Lands, Makes
<1>6. ASSUME NEW s \in Structs, NEW q \in RefIds, IncEndAfter(t, s, q)
      PROVE  /\ target'[r] = IF r = q THEN {s} ELSE target[r]
             /\ place'[r] = IF r = q THEN dest[t] ELSE place[r]
             /\ target[q] = NoStruct /\ cur[t] = {s} /\ pc[t] = "inc_end"
  BY <1>6 DEF IncEndAfter
<1>7. CASE \E s \in Structs, q \in RefIds : IncEndAfter(t, s, q)
  <2>1. PICK s \in Structs, q \in RefIds : IncEndAfter(t, s, q)  BY <1>7
  <2>2. \A x \in Structs : {s} = {x} => s = x  BY OneStruct
  <2> QED  BY <1>6, <2>1, <2>2 DEF Moves, Lands, Makes
<1>8. ASSUME NEW s \in Structs, NEW q \in RefIds, DecEndAfter(t, s, q)
      PROVE  /\ target'[r] = IF r = q THEN NoStruct ELSE target[r]
             /\ place'[r] = IF r = q THEN Nowhere ELSE place[r]
             /\ place[q] \in Mine(t)
  BY <1>8 DEF DecEndAfter
<1>9. CASE \E s \in Structs, q \in RefIds : DecEndAfter(t, s, q)
  <2>1. \A x \in Structs : {x} # NoStruct  BY OneStruct
  <2> QED  BY <1>8, <1>9, <2>1 DEF Moves, Lands, Makes
<1>10. ASSUME NEW s \in Structs, FreeFrom(t, s)
       PROVE  /\ UNCHANGED target /\ pc[t] = "free" /\ cur[t] = {s}
              /\ place'[r] = IF r \in Contents(s) THEN <<"hand", t>> ELSE place[r]
              /\ r \in Contents(s) => s \in Containers /\ place[r] = <<"in", s>>
  BY <1>10 DEF FreeFrom, FreeStep, FreeAfter, Contents
<1>11. CASE \E s \in Structs : FreeFrom(t, s)
  BY <1>10, <1>11 DEF Moves, Lands, Makes
<1>12. CASE \E s \in Structs, d \in Places : CopyFrom(t, s, d)
  <2>1. UNCHANGED <<place, target>>  BY <1>12 DEF CopyFrom, CopyAfter
  <2> QED  BY <1>3, <2>1
<1>13. CASE \E q \in RefIds : DropFrom(t, q)
  <2>1. UNCHANGED <<place, target>>  BY <1>13 DEF DropFrom, DropAfter
  <2> QED  BY <1>3, <2>1
<1>14. CASE \/ \E s \in Structs : IncBeginAfter(t, s) \/ CheckAfter(t, s) \/ ClaimFrom(t, s)
            \/ \E s \in Structs, q \in RefIds : DecBeginAfter(t, s, q)
  <2>1. UNCHANGED <<place, target>>
    BY <1>14 DEF IncBeginAfter, CheckAfter, ClaimFrom, ClaimAfter, DecBeginAfter
  <2> QED  BY <1>3, <2>1
<1> QED
  BY <1>2, <1>5, <1>7, <1>9, <1>11, <1>12, <1>13, <1>14 DEF Acts

(* Two threads have not locked the same structure.                         *)
LEMMA OneHolder ==
  ASSUME TypeOK, MutexInv, NEW t \in Threads, NEW u \in Threads \ {t}, NEW s \in Structs,
         claims[t][s] > 0, claims[u][s] > 0
  PROVE  FALSE
<1>1. claims[t][s] \in Nat /\ claims[u][s] \in Nat  BY DEF TypeOK
<1>2. Hold(t, s) # 0 /\ Hold(u, s) # 0  BY <1>1 DEF Hold
<1> QED  BY <1>2 DEF MutexInv, Unowned, OwnedBy

(* What a thread has of its own is safe from the steps of others.          *)
LEMMA OwnStays ==
  ASSUME TypeOK, NEW t \in Threads, Acts(t), NEW u \in Threads \ {t}, NEW r \in RefIds,
         target[r] # NoStruct, place[r] \in Mine(u)
  PROVE  place'[r] = place[r] /\ target'[r] = target[r]
<1>1. place[r] \notin Mine(t) /\ place[r] \notin Inside  BY MineApart
<1>2. \A c \in Containers : place[r] # <<"in", c>>  BY <1>1 DEF Inside
<1>3. Moves(t, r)  BY RefsMove
<1> QED  BY <1>1, <1>2, <1>3 DEF Moves

(* An entry of a container that another thread has locked stays, too.     *)
LEMMA LockedStays ==
  ASSUME TypeOK, MutexInv, FreeInv, ClaimInv, NEW t \in Threads, Acts(t), NEW u \in Threads \ {t},
         NEW r \in RefIds, target[r] # NoStruct,
         NEW c \in Containers, place[r] = <<"in", c>>, claims[u][c] > 0
  PROVE  place'[r] = place[r] /\ target'[r] = target[r]
<1>1. c \in Structs  BY StructsAssumption
<1>2. place[r] \in Inside /\ place[r] \notin Mine(t)  BY MineApart DEF Inside
<1>3. ~(claims[t][c] > 0)  BY <1>1, OneHolder
<1>4. Refs(c) # {}  BY DEF ClaimInv, HasHandle
<1>5. ~(pc[t] = "free" /\ cur[t] = {c})  BY <1>1, <1>4 DEF FreeInv
<1>6. \A x \in Containers : place[r] = <<"in", x>> => x = c  BY PlacesApart
<1> QED  BY <1>2, <1>3, <1>5, <1>6, RefsMove DEF Moves

(* An object is kept until its own thread drops it.                        *)
LEMMA KeepsStays ==
  ASSUME IInv, NEW t \in Threads, Acts(t), NEW u \in Threads, NEW s \in Structs, Keeps(u, s),
         u = t => ~\E r \in RefIds : DropFrom(t, r)
  PROVE  Keeps(u, s)'
<1> USE DEF IInv, HandInv
<1>1. PICK r \in Refs(s) : place[r] = <<"handle", u>> /\ ~Doomed(u, r)  BY DEF Keeps
<1>2. r \in RefIds /\ target[r] = {s} /\ target[r] # NoStruct  BY OneStruct DEF Refs
<1>3. place[r] \in Mine(u) /\ place[r] \notin Inside  BY <1>1, PlacesApart DEF Mine, Inside
<1>4. SUFFICES place'[r] = place[r] /\ target'[r] = target[r] /\ ~Doomed(u, r)'
  BY <1>1, <1>2 DEF Keeps, Refs
<1>5. CASE u # t
  BY <1>1, <1>2, <1>3, <1>5, OwnStays, OthersStay DEF Doomed
<1>6. CASE u = t
  <2> USE DEF At
  <2>1. ASSUME NEW x \in Structs, NEW q \in RefIds, NewFrom(x, q)
        PROVE  place'[r] = place[r] /\ target'[r] = target[r] /\ ~Doomed(u, r)'
    BY <1>1, <1>2, <2>1 DEF NewFrom, NewAfter, Doomed
  <2>2. ASSUME NEW x \in Structs, NEW d \in Places, CopyFrom(t, x, d)
        PROVE  place'[r] = place[r] /\ target'[r] = target[r] /\ ~Doomed(u, r)'
    BY <1>1, <1>2, <2>2 DEF CopyFrom, CopyAfter, Doomed
  <2>3. ASSUME NEW x \in Structs, NEW q \in RefIds, PopFrom(t, x, q)
        PROVE  place'[r] = place[r] /\ target'[r] = target[r] /\ ~Doomed(u, r)'
    <3>1. q # r  BY <1>1, <2>3, PlacesApart DEF PopFrom
    <3>2. UNCHANGED <<src, target>> /\ place'[r] = place[r] /\ todo'[t] = <<q>>
      BY <1>2, <2>3, <3>1 DEF PopFrom, CopyAfter
    <3>3. \A i \in DOMAIN todo'[t] : todo'[t][i] = q  BY <3>2
    <3> QED  BY <1>1, <1>6, <3>1, <3>2, <3>3 DEF Doomed
  <2>4. ASSUME NEW x \in Structs, NEW q \in RefIds, IncEndAfter(t, x, q)
        PROVE  place'[r] = place[r] /\ target'[r] = target[r] /\ ~Doomed(u, r)'
    BY <1>1, <1>2, <2>4 DEF IncEndAfter, Doomed
  <2>5. ASSUME NEW x \in Structs, NEW q \in RefIds, DecBeginAfter(t, x, q)
        PROVE  place'[r] = place[r] /\ target'[r] = target[r] /\ ~Doomed(u, r)'
    <3>1. q = todo[t][1] /\ 1 \in DOMAIN todo[t] /\ src'[t] = {q} /\ UNCHANGED <<place, target>>
      BY <2>5 DEF DecBeginAfter
    <3>2. \A i \in DOMAIN todo'[t] : i + 1 \in DOMAIN todo[t] /\ todo'[t][i] = todo[t][i + 1]
      BY <2>5 DEF DecBeginAfter
    <3> QED  BY <1>1, <1>6, <3>1, <3>2 DEF Doomed
  <2>6. ASSUME NEW x \in Structs, NEW q \in RefIds, DecEndAfter(t, x, q)
        PROVE  place'[r] = place[r] /\ target'[r] = target[r] /\ ~Doomed(u, r)'
    <3>1. q # r  BY <1>1, <1>6, <2>6 DEF DecEndAfter, Doomed
    <3>2. src'[t] = {} /\ UNCHANGED todo /\ place'[r] = place[r] /\ target'[r] = target[r]
      BY <1>2, <2>6, <3>1 DEF DecEndAfter
    <3> QED  BY <1>1, <1>6, <3>2 DEF Doomed
  <2>7. ASSUME NEW x \in Structs, FreeFrom(t, x)
        PROVE  place'[r] = place[r] /\ target'[r] = target[r] /\ ~Doomed(u, r)'
    <3>1. PICK list \in Seq(RefIds), n \in Nat : FreeAfter(t, x, list, n)
      BY <2>7 DEF FreeFrom, FreeStep
    <3>2. r \notin Contents(x)  BY <1>3, <3>1 DEF FreeAfter
    <3>3. UNCHANGED <<src, target>> /\ todo'[t] = list  BY <3>1 DEF FreeAfter
    <3>4. place'[r] = place[r]  BY <1>2, <2>7, <3>2 DEF FreeFrom
    <3>5. ASSUME NEW i \in DOMAIN list, list[i] = r PROVE FALSE
      BY <1>1, <1>6, <3>1, <3>2, <3>5 DEF FreeAfter, Doomed
    <3> QED  BY <1>1, <1>6, <3>3, <3>4, <3>5 DEF Doomed
  <2>8. ASSUME NEW x \in Structs, IncBeginAfter(t, x) \/ CheckAfter(t, x) \/ ClaimFrom(t, x)
        PROVE  place'[r] = place[r] /\ target'[r] = target[r] /\ ~Doomed(u, r)'
    <3>1. UNCHANGED <<place, target, src, todo>>
      BY <2>8 DEF IncBeginAfter, CheckAfter, ClaimFrom, ClaimAfter
    <3> QED  BY <1>1, <3>1 DEF Doomed
  <2> HIDE DEF At
  <2> QED  BY <1>6, <2>1, <2>2, <2>3, <2>4, <2>5, <2>6, <2>7, <2>8 DEF Acts
<1> QED  BY <1>5, <1>6

-----------------------------------------------------------------------------
(* A thread without a list and a source is about to drop nothing.          *)
LEMMA NothingDoomed ==
  ASSUME IInv, NEW t \in Threads, pc[t] # "dec_end", todo[t] = <<>>
  PROVE  \A r : ~Doomed(t, r)
<1>1. src[t] = {} /\ DOMAIN todo[t] = {}  BY DEF IInv, HandInv, SrcMine
<1> QED  BY <1>1 DEF Doomed

(* A reference a copy is made of stays where it is.                        *)
LEMMA AnchoredStays ==
  ASSUME IInv, FreeInv, ClaimInv, NEW t \in Threads, Acts(t), NEW u \in Threads \ {t},
         NEW s \in Structs, Anchored(u, s)
  PROVE  Anchored(u, s)'
<1> USE DEF IInv
<1>1. PICK r \in Refs(s) :
        place[r] \in Mine(u) \/ \E c \in Containers : place[r] = <<"in", c>> /\ claims[u][c] > 0
  BY DEF Anchored
<1>2. r \in RefIds /\ target[r] = {s} /\ target[r] # NoStruct  BY OneStruct DEF Refs
<1>3. place'[r] = place[r] /\ target'[r] = target[r]
  BY <1>1, <1>2, OwnStays, LockedStays
<1>4. \A c \in Containers : claims'[u][c] = claims[u][c]  BY OthersStay, StructsAssumption
<1> QED  BY <1>1, <1>2, <1>3, <1>4 DEF Anchored, Refs, Mine

(* Who counts up what it copies has an anchor for it.                      *)
LEMMA AnchorStep ==
  ASSUME IInv, FreeInv, ClaimInv, AnchorInv, NEW t \in Threads, Acts(t)
  PROVE  AnchorInv'
<1> SUFFICES ASSUME NEW u \in Threads, NEW s \in Structs, pc'[u] \in {"inc", "inc_end"}, cur'[u] = {s}
             PROVE  Anchored(u, s)' /\ (dest'[u] = <<"handle", u>> \/ Keeps(u, s)')
  BY DEF AnchorInv
<1> USE DEF At
<1>1. CASE u # t
  <2>1. pc'[u] = pc[u] /\ cur'[u] = cur[u] /\ dest'[u] = dest[u]  BY <1>1, OthersStay
  <2>2. Anchored(u, s) /\ (dest[u] = <<"handle", u>> \/ Keeps(u, s))  BY <2>1 DEF AnchorInv
  <2> QED  BY <1>1, <2>1, <2>2, AnchoredStays, KeepsStays
<1>2. CASE u = t
  <2>1. ASSUME NEW x \in Structs, NEW d \in Places, CopyFrom(t, x, d)
        PROVE  Anchored(u, s)' /\ (dest'[u] = <<"handle", u>> \/ Keeps(u, s)')
    <3>1. pc[t] = "idle" /\ todo[t] = <<>> /\ cur'[t] = {x} /\ dest'[t] = d
          /\ UNCHANGED <<place, target, src, todo, claims>>
      BY <2>1 DEF CopyFrom, CopyAfter
    <3>2. x = s  BY <1>2, <3>1, OneStruct
    <3>3. Anchored(t, s)'  BY <2>1, <3>1, <3>2 DEF CopyFrom, Anchored, Refs, Mine
    <3>4. d = <<"handle", t>> \/ Keeps(t, s)
      BY <2>1, <3>1, <3>2, NothingDoomed DEF CopyFrom, HasHandle, Keeps
    <3>5. Keeps(t, s) => Keeps(t, s)'  BY <3>1 DEF Keeps, Refs, Doomed
    <3> QED  BY <1>2, <3>1, <3>3, <3>4, <3>5
  <2>2. ASSUME NEW x \in Structs, NEW r \in RefIds, PopFrom(t, x, r)
        PROVE  Anchored(u, s)' /\ (dest'[u] = <<"handle", u>> \/ Keeps(u, s)')
    <3>1. cur'[t] = {x} /\ dest'[t] = <<"handle", t>> /\ UNCHANGED target
      BY <2>2 DEF PopFrom, CopyAfter
    <3>2. x = s  BY <1>2, <3>1, OneStruct
    <3>3. r \in Refs(s)' /\ place'[r] = <<"hand", t>>
      BY <2>2, <3>1, <3>2 DEF PopFrom, Refs
    <3> QED  BY <1>2, <3>1, <3>3 DEF Anchored, Mine
  <2>3. ASSUME NEW x \in Structs, IncBeginAfter(t, x)
        PROVE  Anchored(u, s)' /\ (dest'[u] = <<"handle", u>> \/ Keeps(u, s)')
    <3>1. pc[t] = "inc" /\ UNCHANGED <<cur, dest, place, target, src, todo, claims>>
      BY <2>3 DEF IncBeginAfter
    <3>2. Anchored(t, s) /\ (dest[t] = <<"handle", t>> \/ Keeps(t, s))
      BY <1>2, <3>1 DEF AnchorInv
    <3>3. Anchored(t, s)'  BY <3>1, <3>2 DEF Anchored, Refs, Mine
    <3>4. Keeps(t, s) => Keeps(t, s)'  BY <3>1 DEF Keeps, Refs, Doomed
    <3> QED  BY <1>2, <3>1, <3>2, <3>3, <3>4
  <2>4. ASSUME NEW x \in Structs, NEW r \in RefIds, NewFrom(x, r), t = Main PROVE FALSE
    BY <1>2, <2>4 DEF NewFrom, NewAfter
  <2>5. ASSUME NEW r \in RefIds, DropFrom(t, r) PROVE FALSE
    BY <1>2, <2>5 DEF DropFrom, DropAfter
  <2>6. ASSUME NEW x \in Structs, NEW r \in RefIds,
               IncEndAfter(t, x, r) \/ DecBeginAfter(t, x, r) \/ DecEndAfter(t, x, r)
        PROVE  FALSE
    BY <1>2, <2>6 DEF IncEndAfter, DecBeginAfter, DecEndAfter
  <2>7. ASSUME NEW x \in Structs, CheckAfter(t, x) \/ FreeFrom(t, x) \/ ClaimFrom(t, x)
        PROVE  FALSE
    BY <1>2, <2>7 DEF CheckAfter, FreeFrom, FreeStep, FreeAfter, ClaimFrom, ClaimAfter
  <2> HIDE DEF At
  <2> QED  BY <2>1, <2>2, <2>3, <2>4, <2>5, <2>6, <2>7 DEF Acts
<1> QED  BY <1>1, <1>2

(* What pop() drops is what it has made an object of.                      *)
LEMMA PopInvStep ==
  ASSUME IInv, PopInv, NEW t \in Threads, Acts(t)
  PROVE  PopInv'
<1> SUFFICES ASSUME NEW u \in Threads, pc'[u] \in {"inc", "inc_end"}, NEW i \in DOMAIN todo'[u]
             PROVE  dest'[u] = <<"handle", u>> /\ target'[todo'[u][i]] = cur'[u]
  BY DEF PopInv
<1> USE DEF At, IInv, HandInv
<1>1. CASE u # t
  <2>1. pc'[u] = pc[u] /\ cur'[u] = cur[u] /\ dest'[u] = dest[u] /\ todo'[u] = todo[u]
    BY <1>1, OthersStay
  <2>2. todo[u] \in Seq(RefIds)  BY DEF TypeOK
  <2>3. todo[u][i] \in RefIds  BY <2>1, <2>2
  <2>4. place[todo[u][i]] \in Mine(u) /\ target[todo[u][i]] # NoStruct  BY <2>1 DEF TodoMine
  <2>5. target'[todo[u][i]] = target[todo[u][i]]  BY <1>1, <2>3, <2>4, OwnStays
  <2> QED  BY <2>1, <2>5 DEF PopInv
<1>2. CASE u = t
  <2>1. ASSUME NEW x \in Structs, NEW d \in Places, CopyFrom(t, x, d) PROVE FALSE
    <3>1. todo'[t] = <<>>  BY <2>1 DEF CopyFrom, CopyAfter
    <3> QED  BY <1>2, <3>1
  <2>2. ASSUME NEW x \in Structs, NEW r \in RefIds, PopFrom(t, x, r)
        PROVE  dest'[u] = <<"handle", u>> /\ target'[todo'[u][i]] = cur'[u]
    <3>1. cur'[t] = {x} /\ dest'[t] = <<"handle", t>> /\ UNCHANGED target /\ target[r] = {x}
          /\ todo'[t] = <<r>>
      BY <2>2 DEF PopFrom, CopyAfter, Refs
    <3>2. todo'[t][i] = r  BY <1>2, <3>1
    <3> QED  BY <1>2, <3>1, <3>2
  <2>3. ASSUME NEW x \in Structs, IncBeginAfter(t, x)
        PROVE  dest'[u] = <<"handle", u>> /\ target'[todo'[u][i]] = cur'[u]
    <3>1. pc[t] = "inc" /\ UNCHANGED <<cur, dest, target, todo>>  BY <2>3 DEF IncBeginAfter
    <3> QED  BY <1>2, <3>1 DEF PopInv
  <2>4. ASSUME NEW x \in Structs, NEW r \in RefIds, NewFrom(x, r), t = Main PROVE FALSE
    BY <1>2, <2>4 DEF NewFrom, NewAfter
  <2>5. ASSUME NEW r \in RefIds, DropFrom(t, r) PROVE FALSE
    BY <1>2, <2>5 DEF DropFrom, DropAfter
  <2>6. ASSUME NEW x \in Structs, NEW r \in RefIds,
               IncEndAfter(t, x, r) \/ DecBeginAfter(t, x, r) \/ DecEndAfter(t, x, r)
        PROVE  FALSE
    BY <1>2, <2>6 DEF IncEndAfter, DecBeginAfter, DecEndAfter
  <2>7. ASSUME NEW x \in Structs, CheckAfter(t, x) \/ FreeFrom(t, x) \/ ClaimFrom(t, x)
        PROVE  FALSE
    BY <1>2, <2>7 DEF CheckAfter, FreeFrom, FreeStep, FreeAfter, ClaimFrom, ClaimAfter
  <2> HIDE DEF At
  <2> QED  BY <2>1, <2>2, <2>3, <2>4, <2>5, <2>6, <2>7 DEF Acts
<1> QED  BY <1>1, <1>2

(* A thread does not count down its last object of a container it has      *)
(* locked, nor count the container at all.                                 *)
LEMMA ClaimStep ==
  ASSUME IInv, ClaimInv, NEW t \in Threads, Acts(t)
  PROVE  ClaimInv'
<1> SUFFICES ASSUME NEW u \in Threads, NEW c \in Containers, claims'[u][c] > 0
             PROVE  HasHandle(u, c)' /\ ~Counting(u, c)'
  BY DEF ClaimInv
<1> USE DEF IInv, HandInv
<1>c. c \in Structs  BY StructsAssumption
<1>a. ASSUME NEW r \in Refs(c), place[r] = <<"handle", u>>, place'[r] = place[r], target'[r] = target[r]
      PROVE  HasHandle(u, c)'
  BY <1>a DEF HasHandle, Refs
<1>b. ASSUME HasHandle(u, c) PROVE \E r \in Refs(c) : /\ place[r] = <<"handle", u>> /\ r \in RefIds
                                                      /\ target[r] = {c} /\ target[r] # NoStruct
  BY <1>b, OneStruct DEF HasHandle, Refs
<1>1. CASE u # t
  <2>1. pc'[u] = pc[u] /\ cur'[u] = cur[u] /\ claims'[u][c] = claims[u][c]
    BY <1>1, <1>c, OthersStay
  <2>2. HasHandle(u, c) /\ ~Counting(u, c)  BY <2>1 DEF ClaimInv
  <2>3. PICK r \in Refs(c) : /\ place[r] = <<"handle", u>> /\ r \in RefIds
                             /\ target[r] = {c} /\ target[r] # NoStruct
    BY <1>b, <2>2
  <2>4. place'[r] = place[r] /\ target'[r] = target[r]
    BY <1>1, <2>3, OwnStays DEF Mine
  <2> QED  BY <1>a, <2>1, <2>2, <2>3, <2>4 DEF Counting
<1>2. ASSUME u = t, NEW x \in Structs, ClaimFrom(t, x) PROVE HasHandle(u, c)' /\ ~Counting(u, c)'
  <2>1. PICK n \in Nat : HasHandle(t, x) /\ ClaimAfter(t, x, n)  BY <1>2 DEF ClaimFrom
  <2>2. /\ pc[t] = "idle" /\ UNCHANGED <<pc, cur, target, place>>
        /\ c # x => claims'[t][c] = claims[t][c]
    BY <1>c, <2>1 DEF ClaimAfter
  <2>3. HasHandle(t, c)  BY <1>2, <2>1, <2>2 DEF ClaimInv
  <2> QED  BY <1>2, <2>2, <2>3 DEF HasHandle, Refs, Counting
<1>3. CASE u = t /\ UNCHANGED claims
  <2>1. HasHandle(t, c) /\ ~Counting(t, c) /\ claims[t][c] # 0  BY <1>3 DEF ClaimInv
  <2>2. PICK r \in Refs(c) : /\ place[r] = <<"handle", t>> /\ r \in RefIds
                             /\ target[r] = {c} /\ target[r] # NoStruct
    BY <1>3, <1>b, <2>1
  <2>3. SUFFICES place'[r] = place[r] /\ target'[r] = target[r] /\ ~Counting(t, c)'
    BY <1>3, <1>a, <2>2
  <2>4. place[r] \notin Inside  BY <2>2, PlacesApart DEF Inside
  <2> USE DEF At, Counting
  <2>5. ASSUME NEW x \in Structs, NEW q \in RefIds, NewFrom(x, q)
        PROVE  place'[r] = place[r] /\ target'[r] = target[r] /\ ~Counting(t, c)'
    BY <2>1, <2>2, <2>5 DEF NewFrom, NewAfter
  <2>6. ASSUME NEW x \in Structs, NEW d \in Places, CopyFrom(t, x, d)
        PROVE  place'[r] = place[r] /\ target'[r] = target[r] /\ ~Counting(t, c)'
    BY <2>6 DEF CopyFrom, CopyAfter
  <2>7. ASSUME NEW x \in Structs, NEW q \in RefIds, PopFrom(t, x, q)
        PROVE  place'[r] = place[r] /\ target'[r] = target[r] /\ ~Counting(t, c)'
    <3>1. q # r  BY <2>2, <2>7, PlacesApart DEF PopFrom
    <3> QED  BY <2>2, <2>7, <3>1 DEF PopFrom, CopyAfter
  <2>8. ASSUME NEW q \in RefIds, DropFrom(t, q)
        PROVE  place'[r] = place[r] /\ target'[r] = target[r] /\ ~Counting(t, c)'
    BY <2>1, <2>8 DEF DropFrom, DropAfter
  <2>9. ASSUME NEW x \in Structs, IncBeginAfter(t, x)
        PROVE  place'[r] = place[r] /\ target'[r] = target[r] /\ ~Counting(t, c)'
    BY <2>1, <2>9, OneStruct DEF IncBeginAfter
  <2>10. ASSUME NEW x \in Structs, NEW q \in RefIds, IncEndAfter(t, x, q)
         PROVE  place'[r] = place[r] /\ target'[r] = target[r] /\ ~Counting(t, c)'
    BY <2>2, <2>10 DEF IncEndAfter
  <2>11. ASSUME NEW x \in Structs, NEW q \in RefIds, DecBeginAfter(t, x, q)
         PROVE  place'[r] = place[r] /\ target'[r] = target[r] /\ ~Counting(t, c)'
    BY <2>1, <2>11, OneStruct DEF DecBeginAfter
  <2>12. ASSUME NEW x \in Structs, NEW q \in RefIds, DecEndAfter(t, x, q)
         PROVE  place'[r] = place[r] /\ target'[r] = target[r] /\ ~Counting(t, c)'
    <3>1. x # c  BY <2>1, <2>12 DEF DecEndAfter
    <3>2. q # r  BY <2>2, <2>12, <3>1, OneStruct DEF DecEndAfter
    <3> QED  BY <2>2, <2>12, <3>2 DEF DecEndAfter
  <2>13. ASSUME NEW x \in Structs, CheckAfter(t, x)
         PROVE  place'[r] = place[r] /\ target'[r] = target[r] /\ ~Counting(t, c)'
    BY <2>13 DEF CheckAfter
  <2>14. ASSUME NEW x \in Structs, FreeFrom(t, x)
         PROVE  place'[r] = place[r] /\ target'[r] = target[r] /\ ~Counting(t, c)'
    <3>1. r \notin Contents(x)  BY <2>2, PlacesApart DEF Contents
    <3> QED  BY <2>2, <2>14, <3>1 DEF FreeFrom, FreeStep, FreeAfter
  <2>15. ASSUME NEW x \in Structs, ClaimFrom(t, x)
         PROVE  place'[r] = place[r] /\ target'[r] = target[r] /\ ~Counting(t, c)'
    BY <2>15 DEF ClaimFrom, ClaimAfter
  <2> HIDE DEF At, Counting
  <2> QED
    BY <2>5, <2>6, <2>7, <2>8, <2>9, <2>10, <2>11, <2>12, <2>13, <2>14, <2>15 DEF Acts
<1>4. UNCHANGED claims \/ \E x \in Structs : ClaimFrom(t, x)
  <2>1. CASE \/ \E x \in Structs, r \in RefIds : NewFrom(x, r)
             \/ \E x \in Structs, d \in Places : CopyFrom(t, x, d)
             \/ \E x \in Structs, r \in RefIds : PopFrom(t, x, r)
    BY <2>1 DEF NewFrom, NewAfter, CopyFrom, PopFrom, CopyAfter
  <2>2. CASE \/ \E r \in RefIds : DropFrom(t, r)
             \/ \E x \in Structs : IncBeginAfter(t, x) \/ CheckAfter(t, x) \/ FreeFrom(t, x)
    BY <2>2 DEF DropFrom, DropAfter, IncBeginAfter, CheckAfter, FreeFrom, FreeStep, FreeAfter
  <2>3. CASE \E x \in Structs, r \in RefIds :
               IncEndAfter(t, x, r) \/ DecBeginAfter(t, x, r) \/ DecEndAfter(t, x, r)
    BY <2>3 DEF IncEndAfter, DecBeginAfter, DecEndAfter
  <2> QED  BY <2>1, <2>2, <2>3 DEF Acts
<1> QED  BY <1>1, <1>2, <1>3, <1>4

(* Main is given no tasks.                                                 *)
LEMMA NoMainTaskStep ==
  ASSUME IInv, NoMainTask, NEW t \in Threads, Acts(t)
  PROVE  NoMainTask'
<1> USE DEF IInv, NoMainTask
<1>1. ASSUME NEW r \in RefIds PROVE place'[r] # <<"task", Main>>
  <2>1. Lands(t, r)  BY RefsMove
  <2> QED  BY <2>1, PlacesApart DEF Lands
<1>2. ASSUME NEW u \in Threads PROVE dest'[u] # <<"task", Main>>
  <2> USE DEF At
  <2>1. CASE u # t  BY <2>1, OthersStay
  <2>2. ASSUME UNCHANGED dest PROVE dest'[u] # <<"task", Main>>  BY <2>2
  <2>3. ASSUME u = t, NEW x \in Structs, NEW d \in Places, CopyFrom(t, x, d)
        PROVE  dest'[u] # <<"task", Main>>
    BY <2>3 DEF CopyFrom, CopyAfter
  <2>4. ASSUME u = t, NEW x \in Structs, NEW r \in RefIds, PopFrom(t, x, r)
        PROVE  dest'[u] # <<"task", Main>>
    BY <2>4, PlacesApart DEF PopFrom, CopyAfter
  <2>5. ASSUME u = t, NEW x \in Structs, NEW r \in RefIds, IncEndAfter(t, x, r)
        PROVE  dest'[u] # <<"task", Main>>
    BY <2>5, PlacesApart DEF IncEndAfter
  <2> HIDE DEF At
  <2>6. CASE \/ \E x \in Structs, r \in RefIds : NewFrom(x, r)
             \/ \E r \in RefIds : DropFrom(t, r)
             \/ \E x \in Structs : \/ IncBeginAfter(t, x) \/ CheckAfter(t, x)
                                   \/ FreeFrom(t, x) \/ ClaimFrom(t, x)
             \/ \E x \in Structs, r \in RefIds : DecBeginAfter(t, x, r) \/ DecEndAfter(t, x, r)
    <3>1. UNCHANGED dest
      BY <2>6 DEF NewFrom, NewAfter, DropFrom, DropAfter, IncBeginAfter, CheckAfter, FreeFrom,
         FreeStep, FreeAfter, ClaimFrom, ClaimAfter, DecBeginAfter, DecEndAfter
    <3> QED  BY <2>2, <3>1
  <2> QED  BY <2>1, <2>3, <2>4, <2>5, <2>6 DEF Acts
<1> QED  BY <1>1, <1>2

-----------------------------------------------------------------------------
(* Threads that Main waits to be done with can do nothing.                 *)
LEMMA QuietBlocks ==
  ASSUME IInv, Quiet(Main), NEW t \in Threads \ {Main}, Acts(t)
  PROVE  FALSE
<1>1. /\ pc[t] = "idle" /\ todo[t] = <<>>
      /\ \A r \in RefIds : place[r] # <<"handle", t>> /\ place[r] # <<"task", t>>
  BY DEF Quiet, Idle
<1>2. \A s : ~HasHandle(t, s)  BY <1>1 DEF HasHandle, Refs
<1>3. ~\E s \in Structs, d \in Places : CopyFrom(t, s, d)  BY <1>1 DEF CopyFrom, Holding
<1>4. ~\E s \in Structs, r \in RefIds : PopFrom(t, s, r)  BY <1>2 DEF PopFrom
<1>5. ~\E r \in RefIds : DropFrom(t, r)  BY <1>1 DEF DropFrom, Holding
<1>6. ~\E s \in Structs : IncBeginAfter(t, s) \/ CheckAfter(t, s) \/ FreeFrom(t, s) \/ ClaimFrom(t, s)
  BY <1>1, <1>2 DEF IncBeginAfter, CheckAfter, FreeFrom, FreeStep, FreeAfter, ClaimFrom
<1>7. ~\E s \in Structs, r \in RefIds : IncEndAfter(t, s, r) \/ DecEndAfter(t, s, r)
  BY <1>1 DEF IncEndAfter, DecEndAfter
<1>8. ~\E s \in Structs, r \in RefIds : DecBeginAfter(t, s, r)
  <2>1. DOMAIN todo[t] = {}  BY <1>1
  <2> QED  BY <2>1 DEF DecBeginAfter
<1> QED  BY <1>3, <1>4, <1>5, <1>6, <1>7, <1>8 DEF Acts

(* While Main makes no task, they stay done.                               *)
LEMMA QuietStays ==
  ASSUME IInv, Quiet(Main), Acts(Main), pc[Main] = "inc_end" => dest[Main] = <<"handle", Main>>
  PROVE  Quiet(Main)'
<1> SUFFICES ASSUME NEW u \in Threads \ {Main}
             PROVE  Idle(u)' /\ \A r \in RefIds : place'[r] \notin {<<"handle", u>>, <<"task", u>>}
  BY DEF Quiet
<1>1. Idle(u) /\ \A r \in RefIds : place[r] \notin {<<"handle", u>>, <<"task", u>>}
  BY DEF Quiet
<1>2. Idle(u)'  BY <1>1, OthersStay, ThreadsAssumption DEF Idle
<1>3. ASSUME NEW r \in RefIds PROVE place'[r] \notin {<<"handle", u>>, <<"task", u>>}
  <2>1. Lands(Main, r)  BY RefsMove, ThreadsAssumption DEF IInv
  <2> QED  BY <1>1, <2>1, PlacesApart DEF Lands
<1> QED  BY <1>2, <1>3

(* What a thread leaves it left before, unless it begins to count, to drop *)
(* or to free.                                                             *)
LEMMA LeavesStays ==
  ASSUME IInv, NEW t \in Threads, Acts(t), NEW u \in Threads, NEW s \in Structs, Leaves(u, s)'
  PROVE  \/ Leaves(u, s)
         \/ u = t /\ \/ \E d \in Places : CopyFrom(t, s, d)
                     \/ \E x \in Structs, r \in RefIds : PopFrom(t, x, r)
                     \/ \E r \in RefIds : DropFrom(t, r) /\ target[r] = {s}
                     \/ \E x \in Structs : FreeFrom(t, x)
<1> USE DEF IInv, HandInv
<1>1. ASSUME NEW i \in DOMAIN todo[u]
      PROVE  /\ todo[u][i] \in RefIds /\ target[todo[u][i]] # NoStruct
             /\ place[todo[u][i]] \in Mine(u)
  <2>1. todo[u] \in Seq(RefIds)  BY DEF TypeOK
  <2> QED  BY <2>1 DEF TodoMine
<1>2. CASE u # t
  <2>1. cur'[u] = cur[u] /\ todo'[u] = todo[u]  BY <1>2, OthersStay
  <2>2. \A i \in DOMAIN todo[u] : target'[todo[u][i]] = target[todo[u][i]]
    BY <1>1, <1>2, OwnStays
  <2> QED  BY <2>1, <2>2 DEF Leaves
<1>3. CASE u = t
  <2> USE DEF At
  <2>1. ASSUME NEW x \in Structs, NEW r \in RefIds, NewFrom(x, r) PROVE Leaves(u, s)
    <3>1. /\ UNCHANGED <<cur, todo>> /\ target[r] = NoStruct
          /\ \A q \in RefIds : q # r => target'[q] = target[q]
      BY <2>1 DEF NewFrom, NewAfter
    <3>2. \A i \in DOMAIN todo[u] : target'[todo[u][i]] = target[todo[u][i]]  BY <1>1, <3>1
    <3> QED  BY <3>1, <3>2 DEF Leaves
  <2>2. ASSUME NEW x \in Structs, NEW d \in Places, CopyFrom(t, x, d) PROVE x = s
    <3>1. cur'[t] = {x} /\ todo'[t] = <<>>  BY <2>2 DEF CopyFrom, CopyAfter
    <3>2. DOMAIN todo'[t] = {}  BY <3>1
    <3> QED  BY <1>3, <3>1, <3>2, OneStruct DEF Leaves
  <2>3. ASSUME NEW r \in RefIds, DropFrom(t, r) PROVE Leaves(u, s) \/ target[r] = {s}
    <3>1. UNCHANGED <<cur, target>> /\ todo'[t] = <<r>>  BY <2>3 DEF DropFrom, DropAfter
    <3>2. \A i \in DOMAIN todo'[t] : todo'[t][i] = r  BY <3>1
    <3> QED  BY <1>3, <3>1, <3>2 DEF Leaves
  <2>4. ASSUME NEW x \in Structs, NEW r \in RefIds, IncEndAfter(t, x, r) PROVE Leaves(u, s)
    <3>1. /\ cur'[t] = NoStruct /\ UNCHANGED todo /\ target[r] = NoStruct
          /\ \A q \in RefIds : q # r => target'[q] = target[q]
      BY <2>4 DEF IncEndAfter
    <3>2. \A i \in DOMAIN todo[u] : target'[todo[u][i]] = target[todo[u][i]]  BY <1>1, <3>1
    <3> QED  BY <1>3, <3>1, <3>2, OneStruct DEF Leaves
  <2>5. ASSUME NEW x \in Structs, NEW r \in RefIds, DecBeginAfter(t, x, r) PROVE Leaves(u, s)
    <3>1. /\ cur'[t] = {x} /\ UNCHANGED target
          /\ 1 \in DOMAIN todo[t] /\ target[todo[t][1]] = {x}
          /\ \A i \in DOMAIN todo'[t] : i + 1 \in DOMAIN todo[t] /\ todo'[t][i] = todo[t][i + 1]
      BY <2>5 DEF DecBeginAfter
    <3> QED  BY <1>3, <3>1, OneStruct DEF Leaves
  <2>6. ASSUME NEW x \in Structs, NEW r \in RefIds, DecEndAfter(t, x, r) PROVE Leaves(u, s)
    <3>1. /\ UNCHANGED <<cur, todo>> /\ src[t] = {r}
          /\ \A q \in RefIds : q # r => target'[q] = target[q]
      BY <2>6 DEF DecEndAfter
    <3>2. \A i \in DOMAIN todo[u] : target'[todo[u][i]] = target[todo[u][i]]
      BY <1>1, <1>3, <3>1 DEF TodoOnce
    <3> QED  BY <3>1, <3>2 DEF Leaves
  <2>7. ASSUME NEW x \in Structs, IncBeginAfter(t, x) \/ CheckAfter(t, x) \/ ClaimFrom(t, x)
        PROVE  Leaves(u, s)
    <3>1. UNCHANGED <<todo, target>> /\ (cur'[t] = cur[t] \/ cur'[t] = NoStruct)
      BY <2>7 DEF IncBeginAfter, CheckAfter, ClaimFrom, ClaimAfter
    <3> QED  BY <1>3, <3>1, OneStruct DEF Leaves
  <2> HIDE DEF At
  <2>8. CASE \E x \in Structs, d \in Places : CopyFrom(t, x, d)  BY <1>3, <2>2, <2>8
  <2>9. CASE \E r \in RefIds : DropFrom(t, r)  BY <1>3, <2>3, <2>9
  <2> QED  BY <1>3, <2>1, <2>4, <2>5, <2>6, <2>7, <2>8, <2>9 DEF Acts
<1> QED  BY <1>2, <1>3

(* What Main does when the others are not done, and keeps it may drop.     *)
LEMMA MainStep ==
  ASSUME IInv, FreeInv, PopInv, NoMainTask, MainInv, NEW t \in Threads, Acts(t)
  PROVE  MainInv'
<1> USE DEF IInv, HandInv
<1> USE ThreadsAssumption
<1>1. CASE Quiet(Main)
  <2>1. t = Main  BY <1>1, QuietBlocks
  <2>2. CASE pc[Main] = "inc_end" => dest[Main] = <<"handle", Main>>
    BY <1>1, <2>1, <2>2, QuietStays DEF MainInv
  <2>3. CASE pc[Main] = "inc_end" /\ dest[Main] # <<"handle", Main>>
    <3>1. \A i \in DOMAIN todo[Main] : FALSE  BY <2>3 DEF PopInv
    <3>2. ASSUME NEW s \in Structs, NEW r \in RefIds, IncEndAfter(Main, s, r)
          PROVE  \A x \in Structs : ~Leaves(Main, x)'
      <4>1. cur'[Main] = NoStruct /\ UNCHANGED todo  BY <3>2 DEF IncEndAfter, At
      <4> QED  BY <3>1, <4>1, OneStruct DEF Leaves
    <3>3. \E s \in Structs, r \in RefIds : IncEndAfter(Main, s, r)
      BY <2>1, <2>3 DEF Acts, NewFrom, CopyFrom, PopFrom, CopyAfter, DropFrom, DropAfter,
         IncBeginAfter, CheckAfter, FreeFrom, FreeStep, FreeAfter, ClaimFrom, ClaimAfter,
         DecBeginAfter, DecEndAfter
    <3> QED  BY <3>2, <3>3 DEF MainInv
  <2> QED  BY <2>2, <2>3
<1>2. CASE ~Quiet(Main)
  <2>1. pc[Main] \in {"inc", "inc_end"} \/ \A s \in Structs : Leaves(Main, s) => Keeps(Main, s)
    BY <1>2 DEF MainInv
  <2>2. ~\E r \in RefIds : DropFrom(Main, r)  BY <1>2 DEF DropFrom, Holding, NoMainTask
  <2>3. \A s \in Structs : Keeps(Main, s) => Keeps(Main, s)'  BY <2>2, KeepsStays
  <2>4. ASSUME NEW s \in Structs, NEW r \in RefIds, IncEndAfter(Main, s, r) PROVE MainInv'
    <3>1. /\ pc[Main] = "inc_end" /\ cur[Main] = {s} /\ target[r] = NoStruct
          /\ cur'[Main] = NoStruct /\ UNCHANGED <<src, todo>>
          /\ target'[r] = {s} /\ place'[r] = dest[Main]
          /\ \A q \in RefIds : q # r => target'[q] = target[q]
      BY <2>4 DEF IncEndAfter, At
    <3>2. ASSUME NEW x \in Structs, Leaves(Main, x)' PROVE Keeps(Main, x)'
      <4>1. PICK i \in DOMAIN todo[Main] : target'[todo[Main][i]] = {x}
        BY <3>1, <3>2, OneStruct DEF Leaves
      <4>2. dest[Main] = <<"handle", Main>> /\ target[todo[Main][i]] = {s}
        BY <3>1 DEF PopInv
      <4>3. \A j \in DOMAIN todo[Main] : todo[Main][j] \in RefIds /\ target[todo[Main][j]] # NoStruct
        <5>1. todo[Main] \in Seq(RefIds)  BY DEF TypeOK
        <5> QED  BY <5>1 DEF TodoMine
      <4>4. x = s  BY <3>1, <4>1, <4>2, <4>3, OneStruct
      <4>5. src[Main] = {}  BY <3>1 DEF SrcMine
      <4>6. ~Doomed(Main, r)'  BY <3>1, <4>3, <4>5 DEF Doomed
      <4> QED  BY <3>1, <4>2, <4>4, <4>6 DEF Keeps, Refs
    <3> QED  BY <3>2 DEF MainInv
  <2>5. ASSUME NEW s \in Structs, FreeFrom(Main, s) PROVE FALSE
    <3>1. pc[Main] = "free" /\ cur[Main] = {s}  BY <2>5 DEF FreeFrom, FreeStep, FreeAfter
    <3>2. Keeps(Main, s)  BY <2>1, <3>1 DEF Leaves
    <3> QED  BY <3>1, <3>2 DEF FreeInv, Keeps
  <2>6. CASE t = Main /\ \E s \in Structs, r \in RefIds : IncEndAfter(Main, s, r)
    BY <2>4, <2>6
  <2>7. CASE pc'[Main] \in {"inc", "inc_end"}  BY <2>7 DEF MainInv
  <2>8. CASE /\ ~(t = Main /\ \E s \in Structs, r \in RefIds : IncEndAfter(Main, s, r))
             /\ pc'[Main] \notin {"inc", "inc_end"}
    <3>1. ASSUME NEW s \in Structs, NEW d, CopyAfter(Main, s, d) PROVE FALSE
      BY <2>8, <3>1 DEF CopyAfter, At
    <3>2. \A s \in Structs : Leaves(Main, s)' => Leaves(Main, s)
      BY <2>2, <2>5, <3>1, LeavesStays DEF CopyFrom, PopFrom
    <3>3. pc[Main] \notin {"inc", "inc_end"}
      <4>1. /\ \A s \in Structs, d \in Places : ~CopyFrom(Main, s, d)
            /\ \A s \in Structs, r \in RefIds : ~PopFrom(Main, s, r)
        BY <3>1 DEF CopyFrom, PopFrom
      <4>2. \A s \in Structs, r \in RefIds : /\ NewFrom(s, r) => pc[Main] = "idle"
                                             /\ DecBeginAfter(Main, s, r) => pc[Main] = "idle"
                                             /\ DecEndAfter(Main, s, r) => pc[Main] = "dec_end"
        BY DEF NewFrom, DecBeginAfter, DecEndAfter
      <4>3. \A s \in Structs : /\ IncBeginAfter(Main, s) => pc'[Main] = "inc_end"
                               /\ CheckAfter(Main, s) => pc[Main] = "check"
                               /\ ClaimFrom(Main, s) => pc[Main] = "idle"
        BY DEF IncBeginAfter, CheckAfter, ClaimFrom, ClaimAfter, At
      <4>4. t = Main => pc[Main] \in {"idle", "dec_end", "check"}
        BY <2>2, <2>5, <2>8, <4>1, <4>2, <4>3 DEF Acts
      <4> QED  BY <2>8, <4>4, OthersStay
    <3> QED  BY <2>1, <2>3, <3>2, <3>3 DEF MainInv
  <2> QED  BY <2>6, <2>7, <2>8
<1> QED  BY <1>1, <1>2

(* Without containers, what another thread refers to is Main's as well.    *)
LEMMA ShareStep ==
  ASSUME IInv, AnchorInv, NoMainTask, ShareInv, NEW t \in Threads, Acts(t)
  PROVE  ShareInv'
<1> SUFFICES ASSUME Containers = {}, NEW u \in Threads \ {Main}, NEW s \in Structs, Uses(u, s)'
             PROVE  Keeps(Main, s)'
  BY DEF ShareInv
<1> USE DEF IInv, HandInv
<1> USE ThreadsAssumption
<1>1. ASSUME Keeps(Main, s) PROVE t = Main => ~\E r \in RefIds : DropFrom(Main, r)
  <2> SUFFICES ASSUME t = Main, NEW r \in RefIds, DropFrom(Main, r) PROVE FALSE
    OBVIOUS
  <2>1. Quiet(Main)  BY DEF DropFrom, Holding, NoMainTask
  <2>2. UNCHANGED <<cur, place, target>> /\ todo'[u] = todo[u] /\ cur[u] = NoStruct
    BY <2>1 DEF DropFrom, DropAfter, At, Quiet, Idle, CurInv
  <2>3. DOMAIN todo[u] = {} /\ \A q \in RefIds : place[q] \notin Holding(u)
    BY <2>1 DEF Quiet, Idle, Holding
  <2> QED  BY <2>2, <2>3, OneStruct DEF Uses, Leaves, Refs, Holding
<1>2. Uses(u, s) => Keeps(Main, s)'  BY <1>1, KeepsStays DEF ShareInv
<1>3. ASSUME NEW r \in RefIds, target'[r] = {s}, place'[r] \in Holding(u) PROVE Keeps(Main, s)'
  <2>1. Lands(t, r) /\ Makes(t, r, s)  BY RefsMove
  <2>2. CASE place'[r] = place[r]
    <3>1. target[r] # NoStruct  BY <1>3, <2>2, PlacesApart DEF PlaceInv, Holding
    <3>2. r \in Refs(s)  BY <1>3, <2>1, <3>1 DEF Makes, Refs
    <3> QED  BY <1>2, <1>3, <2>2, <3>2 DEF Uses
  <2>3. CASE pc[t] = "inc_end" /\ target'[r] = cur[t] /\ place'[r] = dest[t]
    <3>1. CASE t # Main
      <4>1. Keeps(Main, s)  BY <1>3, <2>3, <3>1 DEF ShareInv, Uses, Leaves
      <4> QED  BY <1>1, <4>1, KeepsStays
    <3>2. CASE t = Main
      <4>1. dest[t] # <<"handle", Main>>  BY <1>3, <2>3, PlacesApart DEF Holding
      <4>2. Keeps(Main, s)  BY <1>3, <2>3, <3>2, <4>1 DEF AnchorInv
      <4> QED  BY <1>1, <4>2, KeepsStays
    <3> QED  BY <3>1, <3>2
  <2> QED  BY <1>3, <2>1, <2>2, <2>3, PlacesApart DEF Lands, Holding
<1>4. ASSUME Leaves(u, s)' PROVE Keeps(Main, s)'
  <2>1. CASE Leaves(u, s)  BY <1>2, <2>1 DEF Uses
  <2>2. CASE \E d \in Places : CopyFrom(u, s, d)  BY <1>2, <2>2 DEF CopyFrom, Uses
  <2>3. CASE \E r \in RefIds : DropFrom(u, r) /\ target[r] = {s}
    BY <1>2, <2>3 DEF DropFrom, Uses, Refs
  <2>4. ASSUME NEW x \in Structs, FreeFrom(u, x), u = t PROVE Leaves(u, s)
    <3>1. PICK list \in Seq(RefIds), n \in Nat : FreeAfter(t, x, list, n)
      BY <2>4 DEF FreeFrom, FreeStep
    <3>2. todo'[t] = list /\ UNCHANGED target /\ cur'[t] = NoStruct  BY <3>1 DEF FreeAfter, At
    <3>3. \A i \in DOMAIN list : i - n \in DOMAIN todo[t] /\ list[i] = todo[t][i - n]
      BY <3>1 DEF FreeAfter
    <3>4. PICK i \in DOMAIN list : target[list[i]] = {s}
      BY <1>4, <2>4, <3>2, OneStruct DEF Leaves
    <3> QED  BY <2>4, <3>3, <3>4 DEF Leaves
  <2>5. ~\E x \in Structs, r \in RefIds : PopFrom(u, x, r)  BY DEF PopFrom
  <2> QED  BY <1>4, <2>1, <2>2, <2>3, <2>4, <2>5, LeavesStays
<1> QED  BY <1>3, <1>4 DEF Uses, Refs

(* Who begins to count a structure counts one with references.             *)
LEMMA CurMoves ==
  ASSUME NEW t \in Threads, Acts(t), NEW s \in Structs, cur'[t] = {s}, cur[t] # {s}
  PROVE  Refs(s) # {}
<1> USE DEF At
<1>1. ASSUME NEW x \in Structs, NEW d \in Places, CopyFrom(t, x, d) PROVE Refs(s) # {}
  <2>1. x = s  BY <1>1, OneStruct DEF CopyFrom, CopyAfter
  <2> QED  BY <1>1, <2>1 DEF CopyFrom, Anchored
<1>2. ASSUME NEW x \in Structs, NEW r \in RefIds, PopFrom(t, x, r) PROVE Refs(s) # {}
  <2>1. x = s  BY <1>2, OneStruct DEF PopFrom, CopyAfter
  <2> QED  BY <1>2, <2>1 DEF PopFrom
<1>3. ASSUME NEW x \in Structs, NEW r \in RefIds, DecBeginAfter(t, x, r) PROVE Refs(s) # {}
  <2>1. x = s  BY <1>3, OneStruct DEF DecBeginAfter
  <2> QED  BY <1>3, <2>1 DEF DecBeginAfter, Refs
<1>4. ASSUME NEW x \in Structs, NEW r \in RefIds, NewFrom(x, r) PROVE FALSE
  BY <1>4 DEF NewFrom, NewAfter
<1>5. ASSUME NEW r \in RefIds, DropFrom(t, r) PROVE FALSE
  BY <1>5 DEF DropFrom, DropAfter
<1>6. ASSUME NEW x \in Structs, NEW r \in RefIds, IncEndAfter(t, x, r) \/ DecEndAfter(t, x, r) PROVE FALSE
  BY <1>6, OneStruct DEF IncEndAfter, DecEndAfter
<1>7. ASSUME NEW x \in Structs,
             IncBeginAfter(t, x) \/ CheckAfter(t, x) \/ FreeFrom(t, x) \/ ClaimFrom(t, x)
      PROVE  FALSE
  <2>1. cur'[t] = cur[t] \/ cur'[t] = NoStruct
    BY <1>7 DEF IncBeginAfter, CheckAfter, FreeFrom, FreeStep, FreeAfter, ClaimFrom, ClaimAfter
  <2> QED  BY <2>1, OneStruct
<1> HIDE DEF At
<1> QED  BY <1>1, <1>2, <1>3, <1>4, <1>5, <1>6, <1>7 DEF Acts

(* Who is to free a structure has just found its count to be zero.         *)
LEMMA FreeBegins ==
  ASSUME CurInv, NEW t \in Threads, Acts(t), NEW s \in Structs, pc'[t] = "free", cur'[t] = {s},
         ~(pc[t] = "free" /\ cur[t] = {s})
  PROVE  CheckAfter(t, s) /\ refcount[s] = 0
<1> USE DEF At
<1>1. ASSUME NEW x \in Structs, CheckAfter(t, x) PROVE CheckAfter(t, s) /\ refcount[s] = 0
  <2>1. cur[t] = {x} /\ refcount[x] = 0 /\ UNCHANGED cur  BY <1>1 DEF CheckAfter
  <2>2. x = s  BY <2>1, OneStruct
  <2> QED  BY <1>1, <2>1, <2>2
<1>2. ASSUME NEW x \in Structs, NEW r \in RefIds, NewFrom(x, r) PROVE FALSE
  BY <1>2 DEF NewFrom, NewAfter
<1>3. ASSUME NEW x \in Structs, NEW d, CopyAfter(t, x, d) PROVE FALSE
  BY <1>3 DEF CopyAfter
<1>4. ASSUME NEW r \in RefIds, DropFrom(t, r) PROVE FALSE
  BY <1>4 DEF DropFrom, DropAfter
<1>5. ASSUME NEW x \in Structs, NEW r \in RefIds,
             IncEndAfter(t, x, r) \/ DecBeginAfter(t, x, r) \/ DecEndAfter(t, x, r)
      PROVE  FALSE
  BY <1>5 DEF IncEndAfter, DecBeginAfter, DecEndAfter
<1>6. ASSUME NEW x \in Structs, IncBeginAfter(t, x) \/ FreeFrom(t, x) \/ ClaimFrom(t, x) PROVE FALSE
  BY <1>6 DEF IncBeginAfter, FreeFrom, FreeStep, FreeAfter, ClaimFrom, ClaimAfter
<1> HIDE DEF At
<1>7. ~\E x \in Structs, d \in Places : CopyFrom(t, x, d)  BY <1>3 DEF CopyFrom
<1>8. ~\E x \in Structs, r \in RefIds : PopFrom(t, x, r)  BY <1>3 DEF PopFrom
<1> QED  BY <1>1, <1>2, <1>4, <1>5, <1>6, <1>7, <1>8 DEF Acts

(* A thread that frees a structure found no reference and no other thread. *)
LEMMA FreeInvStep ==
  ASSUME IInv, Careful, AnchorInv, MainInv, ShareInv, FreeInv, NEW t \in Threads, Acts(t)
  PROVE  FreeInv'
<1> SUFFICES ASSUME NEW x \in Threads, NEW s \in Structs, pc'[x] = "free", cur'[x] = {s}
             PROVE  Refs(s)' = {} /\ \A u \in Threads \ {x} : cur'[u] # {s}
  BY DEF FreeInv
<1> USE DEF IInv, HandInv
<1> USE ThreadsAssumption
<1>1. CASE pc[x] = "free" /\ cur[x] = {s}
  <2>1. Refs(s) = {} /\ \A u \in Threads \ {x} : cur[u] # {s}  BY <1>1 DEF FreeInv
  <2>2. state[s] # "unused"  BY <1>1 DEF UsedInv
  <2>3. ASSUME NEW r \in Refs(s)' PROVE FALSE
    <3>1. r \in RefIds /\ target'[r] = {s} /\ target[r] # {s}  BY <2>1 DEF Refs
    <3>2. pc[t] = "inc_end" /\ cur[t] = {s}  BY <2>2, <3>1, RefsMove DEF Makes
    <3> QED  BY <1>1, <2>1, <3>2
  <2>4. ASSUME NEW u \in Threads \ {x}, cur'[u] = {s} PROVE FALSE
    <3>1. u = t  BY <2>1, <2>4, OthersStay
    <3> QED  BY <2>1, <2>4, <3>1, CurMoves
  <2> QED  BY <2>3, <2>4
<1>2. CASE ~(pc[x] = "free" /\ cur[x] = {s})
  <2>1. x = t /\ CheckAfter(t, s) /\ refcount[s] = 0
    <3>1. x = t  BY <1>2, OthersStay
    <3> QED  BY <1>2, <3>1, FreeBegins
  <2>2. Refs(s) = {}
    <3>1. IsFiniteSet(Refs(s))  BY RefIdsAssumption, FS_Subset DEF Refs
    <3> QED  BY <2>1, <3>1, FS_EmptySet DEF CountInv
  <2>3. pc[t] = "check" /\ cur[t] = {s} /\ UNCHANGED target  BY <2>1 DEF CheckAfter
  <2>4. Refs(s)' = {}  BY <2>2, <2>3 DEF Refs
  <2>5. ASSUME NEW u \in Threads \ {t}, cur[u] = {s} PROVE FALSE
    <3>1. pc[u] \notin {"inc", "inc_end"}  BY <2>2, <2>5 DEF AnchorInv, Anchored
    <3>2. pc[u] # "dec_end"  BY <2>2, <2>5 DEF SrcMine, Refs
    <3>3. ~Keeps(Main, s)  BY <2>2 DEF Keeps
    <3>4. pc[u] # "idle" /\ pc[t] # "idle"  BY <2>3, <2>5, OneStruct DEF CurInv
    <3>5. Leaves(u, s) /\ Leaves(t, s)  BY <2>3, <2>5 DEF Leaves
    <3>6. ~Quiet(Main)  BY <3>4 DEF Quiet, Idle
    <3>7. u # Main /\ t # Main  BY <2>3, <3>1, <3>3, <3>5, <3>6 DEF MainInv
    <3>8. Containers # {}  BY <3>3, <3>5, <3>7 DEF ShareInv, Uses
    <3> QED  BY <3>7, <3>8 DEF Careful
  <2> QED  BY <2>1, <2>4, <2>5, OthersStay
<1> QED  BY <1>1, <1>2

-----------------------------------------------------------------------------
(* What is referred to, counted or freed is live.                          *)
LEMMA LiveStep ==
  ASSUME IInv, IInv', FreeInv, NoUseAfterFree, NEW t \in Threads, Acts(t)
  PROVE  NoUseAfterFree'
<1> USE DEF IInv, HandInv
<1>1. ASSUME NEW s \in Structs, state[s] = "live", state'[s] # "live"
      PROVE  /\ pc[t] = "free" /\ cur[t] = {s} /\ UNCHANGED target
             /\ cur'[t] = NoStruct
  <2>1. ASSUME NEW x \in Structs, NEW r \in RefIds, NewFrom(x, r) PROVE state'[s] = "live"
    BY <1>1, <2>1 DEF NewFrom, NewAfter, At
  <2>2. CASE \/ \E x \in Structs, d \in Places : CopyFrom(t, x, d)
             \/ \E x \in Structs, r \in RefIds : PopFrom(t, x, r)
    BY <1>1, <2>2 DEF CopyFrom, PopFrom, CopyAfter
  <2>3. CASE \E r \in RefIds : DropFrom(t, r)
    BY <1>1, <2>3 DEF DropFrom, DropAfter
  <2>4. CASE \E x \in Structs : IncBeginAfter(t, x) \/ CheckAfter(t, x) \/ ClaimFrom(t, x)
    BY <1>1, <2>4 DEF IncBeginAfter, CheckAfter, ClaimFrom, ClaimAfter
  <2>5. CASE \E x \in Structs, r \in RefIds :
               IncEndAfter(t, x, r) \/ DecBeginAfter(t, x, r) \/ DecEndAfter(t, x, r)
    BY <1>1, <2>5 DEF IncEndAfter, DecBeginAfter, DecEndAfter
  <2>6. ASSUME NEW x \in Structs, FreeFrom(t, x)
        PROVE  /\ pc[t] = "free" /\ cur[t] = {s} /\ UNCHANGED target
               /\ cur'[t] = NoStruct
    BY <1>1, <2>6 DEF FreeFrom, FreeStep, FreeAfter, At
  <2> QED  BY <1>1, <2>1, <2>2, <2>3, <2>4, <2>5, <2>6 DEF Acts
<1>2. ASSUME NEW s \in Structs, state[s] = "unused", state'[s] # "unused" PROVE state'[s] = "live"
  <2>1. ASSUME NEW x \in Structs, NEW r \in RefIds, NewFrom(x, r) PROVE state'[s] = "live"
    BY <1>2, <2>1 DEF NewFrom, NewAfter, At
  <2>2. ~\E x \in Structs : FreeFrom(t, x) /\ ~(state'[s] = "live")
    BY <1>2 DEF FreeFrom, FreeStep, FreeAfter, UsedInv, At
  <2>3. CASE UNCHANGED state  BY <1>2, <2>3
  <2>4. CASE \/ \E x \in Structs, d \in Places : CopyFrom(t, x, d)
             \/ \E x \in Structs, r \in RefIds : PopFrom(t, x, r)
             \/ \E r \in RefIds : DropFrom(t, r)
             \/ \E x \in Structs : IncBeginAfter(t, x) \/ CheckAfter(t, x) \/ ClaimFrom(t, x)
             \/ \E x \in Structs, r \in RefIds :
                  IncEndAfter(t, x, r) \/ DecBeginAfter(t, x, r) \/ DecEndAfter(t, x, r)
    BY <2>3, <2>4 DEF CopyFrom, PopFrom, CopyAfter, DropFrom, DropAfter, IncBeginAfter, CheckAfter,
       ClaimFrom, ClaimAfter, IncEndAfter, DecBeginAfter, DecEndAfter
  <2> QED  BY <2>1, <2>2, <2>4 DEF Acts
<1>3. ASSUME NEW s \in Structs, NEW r \in RefIds, target'[r] = {s} PROVE state'[s] = "live"
  <2>1. CASE target[r] = {s}
    <3>1. state[s] = "live" /\ Refs(s) # {}  BY <2>1 DEF NoUseAfterFree, Refs
    <3> QED  BY <1>1, <3>1 DEF FreeInv
  <2>2. CASE target[r] = NoStruct /\ state[s] = "unused"
    <3>1. state'[s] # "unused"  BY <1>3 DEF UsedInv
    <3> QED  BY <1>2, <2>2, <3>1
  <2>3. CASE target[r] = NoStruct /\ cur[t] = {s} /\ pc[t] = "inc_end"
    <3>1. state[s] = "live"  BY <2>3 DEF NoUseAfterFree
    <3> QED  BY <1>1, <2>3, <3>1
  <2> QED  BY <1>3, <2>1, <2>2, <2>3, RefsMove DEF Makes
<1>4. ASSUME NEW u \in Threads, NEW s \in Structs, cur'[u] = {s} PROVE state'[s] = "live"
  <2>1. CASE cur[u] = {s}
    <3>1. state[s] = "live"  BY <2>1 DEF NoUseAfterFree
    <3>2. CASE u = t  BY <1>1, <1>4, <3>1, <3>2, OneStruct
    <3>3. CASE u # t  BY <1>1, <2>1, <3>1, <3>3 DEF FreeInv
    <3> QED  BY <3>2, <3>3
  <2>2. CASE cur[u] # {s}
    <3>1. u = t /\ Refs(s) # {}  BY <1>4, <2>2, OthersStay, CurMoves
    <3>2. state[s] = "live"  BY <3>1 DEF NoUseAfterFree
    <3> QED  BY <1>1, <3>1, <3>2 DEF FreeInv
  <2> QED  BY <2>1, <2>2
<1>5. ASSUME NEW u \in Threads PROVE cur'[u] = NoStruct \/ \E s \in Structs : cur'[u] = {s}
  BY DEF TypeOK
<1> QED  BY <1>3, <1>4, <1>5 DEF NoUseAfterFree, Refs, NoStruct

(* The invariants hold at the start, and every step keeps them.            *)
LEMMA FreeStart == Init => FInv /\ NoUseAfterFree
<1> SUFFICES ASSUME Init PROVE FInv /\ NoUseAfterFree
  OBVIOUS
<1>1. /\ \A s \in Structs : Refs(s) = {}
      /\ \A t \in Threads : pc[t] = "idle" /\ cur[t] = NoStruct /\ todo[t] = <<>> /\ dest[t] = Nowhere
      /\ \A t \in Threads, s \in Structs : claims[t][s] = 0
      /\ \A r \in RefIds : place[r] = Nowhere
  BY OneStruct DEF Init, Refs
<1>2. \A t \in Threads : DOMAIN todo[t] = {}  BY <1>1
<1>3. AnchorInv /\ PopInv /\ FreeInv  BY <1>1 DEF AnchorInv, PopInv, FreeInv
<1>4. ClaimInv  BY <1>1, StructsAssumption DEF ClaimInv
<1>5. NoMainTask  BY <1>1, PlacesApart DEF NoMainTask
<1>6. MainInv  BY <1>1, PlacesApart DEF MainInv, Quiet, Idle
<1>7. ShareInv
  <2>1. \A t \in Threads, s \in Structs : ~Uses(t, s)  BY <1>1, <1>2, OneStruct DEF Uses, Leaves
  <2> QED  BY <2>1 DEF ShareInv
<1>8. NoUseAfterFree  BY <1>1 DEF NoUseAfterFree, NoStruct
<1> QED  BY <1>3, <1>4, <1>5, <1>6, <1>7, <1>8 DEF FInv

(* What no variable's change touches stays.                                *)
LEMMA FreeStutter == FInv /\ NoUseAfterFree /\ UNCHANGED vars => FInv' /\ NoUseAfterFree'
<1> SUFFICES ASSUME FInv, NoUseAfterFree, UNCHANGED vars PROVE FInv' /\ NoUseAfterFree'
  OBVIOUS
<1> USE DEF vars, threadVars, FInv
<1>1. /\ UNCHANGED <<state, refcount, target, place, pc, cur, src, dest, todo, claims>>
      /\ \A s : Refs(s)' = Refs(s)
  BY DEF Refs
<1>2. \A t, s : (Keeps(t, s)' <=> Keeps(t, s)) /\ (Leaves(t, s)' <=> Leaves(t, s))
                 /\ (Anchored(t, s)' <=> Anchored(t, s)) /\ (Uses(t, s)' <=> Uses(t, s))
  BY <1>1 DEF Keeps, Leaves, Anchored, Uses, Doomed, Mine, Holding
<1>3. AnchorInv'  BY <1>1, <1>2 DEF AnchorInv
<1>4. PopInv' /\ ClaimInv' /\ NoMainTask'
  BY <1>1 DEF PopInv, ClaimInv, NoMainTask, HasHandle, Counting
<1>5. MainInv'  BY <1>1, <1>2 DEF MainInv, Quiet, Idle
<1>6. ShareInv'  BY <1>1, <1>2 DEF ShareInv
<1>7. FreeInv' /\ NoUseAfterFree'  BY <1>1 DEF FreeInv, NoUseAfterFree
<1> QED  BY <1>3, <1>4, <1>5, <1>6, <1>7

(* No structure is used after its memory has been freed: with one worker   *)
(* in every program that keeps what it shares until the worker is done,    *)
(* with any number of them when no structure is put into another.          *)
THEOREM UsedIsLive ==
  ASSUME "drop_early" \notin Habits, "count_locked" \notin Habits,
         Containers = {} \/ \E w : Threads = {Main, w}
  PROVE  Spec => []NoUseAfterFree
<1>1. Init => FInv /\ NoUseAfterFree  BY FreeStart
<1>2. ASSUME IInv, IInv', FInv, NoUseAfterFree, [Next]_vars PROVE FInv' /\ NoUseAfterFree'
  <2>1. Careful  BY DEF Careful
  <2>2. ASSUME NEW t \in Threads, Acts(t) PROVE FInv' /\ NoUseAfterFree'
    BY <1>2, <2>1, <2>2, AnchorStep, PopInvStep, ClaimStep, NoMainTaskStep, MainStep, ShareStep,
       FreeInvStep, LiveStep DEF FInv
  <2>3. CASE UNCHANGED vars  BY <1>2, <2>3, FreeStutter
  <2> QED  BY <1>2, <2>1, <2>2, <2>3, StepIsFrom DEF FInv
<1>3. Spec => []IInv  BY RefsInvariant, PTL
<1> QED  BY <1>1, <1>2, <1>3, PTL DEF Spec
=============================================================================
