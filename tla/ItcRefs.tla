------------------------------- MODULE ItcRefs ------------------------------
(***************************************************************************)
(* The life of the inter-thread structures (Queue, HashTable, Vector and   *)
(* AtomicInteger): every PHP object that wraps one and every entry that    *)
(* carries one to another thread or into a container counts as a           *)
(* reference, and the structure is freed when the count reaches zero.  The *)
(* mutex that guards the count is the one lock() and unlock() expose.      *)
(***************************************************************************)
EXTENDS Integers, Sequences, FiniteSets

CONSTANTS Threads,    \* the PHP threads of the process
          Main,       \* the thread that creates the structures
          Structs,    \* the structures
          Containers, \* those that may hold entries of the others
          Recursive,  \* those whose mutex is recursive (AtomicInteger)
          RefIds,     \* bound: references that exist at one time
          MaxLocks,   \* bound: lock() calls a thread may nest on one structure
          Habits      \* what the program does beyond the README's examples

ASSUME ThreadsAssumption == Main \in Threads
ASSUME StructsAssumption == Containers \subseteq Structs /\ Recursive \subseteq Structs \ Containers
ASSUME RefIdsAssumption == IsFiniteSet(RefIds) /\ MaxLocks \in Nat
(* "drop_early": Main drops a structure while other threads still use it;  *)
(* "count_locked": a structure that is not an AtomicInteger is passed on,  *)
(* received or dropped, alone or in a container, by the thread that has    *)
(* locked it.                                                              *)
ASSUME HabitsAssumption == Habits \subseteq {"drop_early", "count_locked"}

VARIABLES
  state,    \* each structure: "unused", "live" or "freed"
  refcount, \* each structure's refcount
  owner,    \* the threads holding each mutex: {} or one thread
  depth,    \* how often that thread has locked it
  target,   \* the structure each reference refers to, or {} when unused
  place,    \* where each reference is
  pc,       \* where each thread is in a reference count operation
  cur,      \* the structure it counts
  src,      \* the reference it drops or copies
  dest,     \* the place of the reference it makes
  tmp,      \* its load of refcount inside ++ or --
  todo,     \* the references it has to drop next
  claims    \* ghost: lock() calls less unlock() calls, by thread and structure

mutexVars == <<owner, depth>>
threadVars == <<pc, cur, src, dest, tmp, todo>>
vars == <<state, refcount, owner, depth, target, place, pc, cur, src, dest, tmp, todo, claims>>

NoStruct == {}
Nowhere == <<>>
Places == {Nowhere} \cup ({"handle", "task", "hand"} \X Threads) \cup ({"in"} \X Containers)
Refs(s) == {r \in RefIds : target[r] = {s}}
UnusedRefs == {r \in RefIds : target[r] = NoStruct}
HasHandle(t, s) == \E r \in Refs(s) : place[r] = <<"handle", t>>
Contents(s) == {r \in RefIds : place[r] = <<"in", s>>}
Claimed(t) == {s \in Structs : claims[t][s] > 0}
(* Room for one more reference within the bound on them.                   *)
Copying == {t \in Threads : pc[t] \in {"inc", "inc_end"}}
Room == Cardinality(Copying) < Cardinality(UnusedRefs)

Idle(t) == pc[t] = "idle" /\ todo[t] = <<>>

(* pthread_mutex_lock by t: waits while another thread holds the mutex.    *)
(* When t holds it already the error-checking mutex returns EDEADLK, which *)
(* the counting code ignores, and the recursive mutex counts one more.     *)
MayLock(t, s) == owner[s] \subseteq {t}
Locked(t, s) ==
  /\ MayLock(t, s)
  /\ owner' = [owner EXCEPT ![s] = {t}]
  /\ depth' = [depth EXCEPT ![s] = IF s \in Recursive THEN @ + 1 ELSE 1]

(* pthread_mutex_unlock by the thread that holds the mutex.                *)
Unlocked(s) ==
  /\ depth' = [depth EXCEPT ![s] = @ - 1]
  /\ owner' = [owner EXCEPT ![s] = IF depth[s] = 1 THEN {} ELSE @]

-----------------------------------------------------------------------------
Init ==
  /\ state = [s \in Structs |-> "unused"] /\ refcount = [s \in Structs |-> 0]
  /\ owner = [s \in Structs |-> {}] /\ depth = [s \in Structs |-> 0]
  /\ target = [r \in RefIds |-> NoStruct] /\ place = [r \in RefIds |-> Nowhere]
  /\ pc = [t \in Threads |-> "idle"] /\ cur = [t \in Threads |-> NoStruct]
  /\ src = [t \in Threads |-> {}] /\ dest = [t \in Threads |-> Nowhere]
  /\ tmp = [t \in Threads |-> 0] /\ todo = [t \in Threads |-> <<>>]
  /\ claims = [t \in Threads |-> [s \in Structs |-> 0]]

(* new Queue(), new Vector() ...: the object made is the first reference.  *)
New(s) ==
  /\ Idle(Main) /\ state[s] = "unused" /\ Room
  /\ \E r \in UnusedRefs :
       /\ target' = [target EXCEPT ![r] = {s}]
       /\ place' = [place EXCEPT ![r] = <<"handle", Main>>]
  /\ state' = [state EXCEPT ![s] = "live"]
  /\ refcount' = [refcount EXCEPT ![s] = 1]
  /\ UNCHANGED <<mutexVars, threadVars, claims>>

BeginCopy(t, s, p) ==
  /\ Room
  /\ pc' = [pc EXCEPT ![t] = "inc"]
  /\ cur' = [cur EXCEPT ![t] = {s}]
  /\ dest' = [dest EXCEPT ![t] = p]

(* An argument of an add...Task() call for a worker u becomes an entry.    *)
Share(t, s, u) ==
  /\ Idle(t) /\ HasHandle(t, s) /\ u # t /\ u # Main
  /\ BeginCopy(t, s, <<"task", u>>)
  /\ UNCHANGED <<state, refcount, mutexVars, target, place, src, tmp, todo, claims>>

(* push(), insertAt() ... of any structure, with the container's lock held. *)
Put(t, s, c) ==
  /\ Idle(t) /\ HasHandle(t, s) /\ HasHandle(t, c) /\ c \in Claimed(t)
  /\ BeginCopy(t, s, <<"in", c>>)
  /\ UNCHANGED <<state, refcount, mutexVars, target, place, src, tmp, todo, claims>>

(* A task's argument becomes an object of the worker that runs the task.   *)
Receive(t, r) ==
  /\ Idle(t) /\ place[r] = <<"task", t>>
  /\ \E s \in Structs : target[r] = {s} /\ BeginCopy(t, s, <<"handle", t>>)
  /\ UNCHANGED <<state, refcount, mutexVars, target, place, src, tmp, todo, claims>>

(* front(), fetchAt(): an object for an entry that stays in the container. *)
Peek(t, r, c) ==
  /\ Idle(t) /\ HasHandle(t, c) /\ place[r] = <<"in", c>> /\ c \in Claimed(t)
  /\ \E s \in Structs : target[r] = {s} /\ BeginCopy(t, s, <<"handle", t>>)
  /\ UNCHANGED <<state, refcount, mutexVars, target, place, src, tmp, todo, claims>>

(* pop(), shift(): the entry is unlinked, made an object, then deleted.    *)
Pop(t, r, c) ==
  /\ Idle(t) /\ HasHandle(t, c) /\ place[r] = <<"in", c>> /\ c \in Claimed(t)
  /\ \E s \in Structs : target[r] = {s} /\ BeginCopy(t, s, <<"handle", t>>)
  /\ place' = [place EXCEPT ![r] = <<"hand", t>>]
  /\ todo' = [todo EXCEPT ![t] = <<r>>]
  /\ UNCHANGED <<state, refcount, mutexVars, target, src, tmp, claims>>

-----------------------------------------------------------------------------
(* Counting locks and unlocks the mutex, whatever locks the thread has     *)
(* taken with lock(); only its lock() of the same mutex is a habit.        *)
Calm(t, s) == "count_locked" \in Habits \/ s \in Recursive \/ s \notin Claimed(t)
Guarded_Not(t, s) == UNCHANGED mutexVars
Guarded(t, s) == Locked(t, s)
Released_Not(s) == UNCHANGED mutexVars
Released(s) == Unlocked(s)
Incremented(t) == tmp[t] + 1

(* lock; load; store of refcount + 1; unlock.                              *)
IncBegin(t, s) ==
  /\ pc[t] = "inc" /\ cur[t] = {s}
  /\ Calm(t, s) /\ Guarded(t, s)
  /\ tmp' = [tmp EXCEPT ![t] = refcount[s]]
  /\ pc' = [pc EXCEPT ![t] = "inc_end"]
  /\ UNCHANGED <<state, refcount, target, place, cur, src, dest, todo, claims>>

IncEnd(t, s) ==
  /\ pc[t] = "inc_end" /\ cur[t] = {s}
  /\ refcount' = [refcount EXCEPT ![s] = Incremented(t)]
  /\ \E r \in UnusedRefs :
       /\ target' = [target EXCEPT ![r] = {s}]
       /\ place' = [place EXCEPT ![r] = dest[t]]
  /\ Released(s)
  /\ pc' = [pc EXCEPT ![t] = "idle"]
  /\ cur' = [cur EXCEPT ![t] = NoStruct] /\ dest' = [dest EXCEPT ![t] = Nowhere]
  /\ tmp' = [tmp EXCEPT ![t] = 0]
  /\ UNCHANGED <<state, src, todo, claims>>

(* The other threads are idle and refer to nothing: what a program gets    *)
(* that calls join() before it drops the structures it shared.             *)
Quiet(t) ==
  \A u \in Threads \ {t} :
    Idle(u) /\ \A r \in RefIds : place[r] \notin {<<"handle", u>>, <<"task", u>>}

(* The PHP object that wraps s goes away (free_obj).                       *)
DropHandle(t, r) ==
  /\ Idle(t) /\ place[r] = <<"handle", t>>
  /\ "drop_early" \in Habits \/ t # Main \/ Quiet(t)
  /\ todo' = [todo EXCEPT ![t] = <<r>>]
  /\ UNCHANGED <<state, refcount, mutexVars, target, place, pc, cur, src, dest, tmp, claims>>

(* task_delete of a task that has been run.                                *)
DropTask(t, r) ==
  /\ Idle(t) /\ place[r] = <<"task", t>>
  /\ todo' = [todo EXCEPT ![t] = <<r>>]
  /\ UNCHANGED <<state, refcount, mutexVars, target, place, pc, cur, src, dest, tmp, claims>>

(* lock; load; store of refcount - 1; unlock.                              *)
DecBegin(t, s) ==
  /\ pc[t] = "idle" /\ todo[t] # <<>> /\ target[Head(todo[t])] = {s}
  /\ Calm(t, s) /\ Guarded(t, s)
  /\ tmp' = [tmp EXCEPT ![t] = refcount[s]]
  /\ src' = [src EXCEPT ![t] = {Head(todo[t])}] /\ todo' = [todo EXCEPT ![t] = Tail(@)]
  /\ cur' = [cur EXCEPT ![t] = {s}]
  /\ pc' = [pc EXCEPT ![t] = "dec_end"]
  /\ UNCHANGED <<state, refcount, target, place, dest, claims>>

DecEnd(t, s) ==
  /\ pc[t] = "dec_end" /\ cur[t] = {s}
  /\ refcount' = [refcount EXCEPT ![s] = tmp[t] - 1]
  /\ target' = [r \in RefIds |-> IF r \in src[t] THEN NoStruct ELSE target[r]]
  /\ place' = [r \in RefIds |-> IF r \in src[t] THEN Nowhere ELSE place[r]]
  /\ Released(s)
  /\ pc' = [pc EXCEPT ![t] = "check"]
  /\ src' = [src EXCEPT ![t] = {}] /\ tmp' = [tmp EXCEPT ![t] = 0]
  /\ UNCHANGED <<state, cur, dest, todo, claims>>

(* if (!refcount): read after the unlock.                                  *)
Unreferenced_One(s) == refcount[s] <= 1
Unreferenced_Never(s) == FALSE
Unreferenced(s) == refcount[s] = 0

Check(t, s) ==
  /\ pc[t] = "check" /\ cur[t] = {s}
  /\ pc' = [pc EXCEPT ![t] = IF Unreferenced(s) THEN "free" ELSE "idle"]
  /\ cur' = [cur EXCEPT ![t] = IF Unreferenced(s) THEN @ ELSE NoStruct]
  /\ UNCHANGED <<state, refcount, mutexVars, target, place, src, dest, tmp, todo, claims>>

(* qoi_free and the others: destroy the mutex, drop every entry, free.     *)
Free(t, s) ==
  /\ pc[t] = "free" /\ cur[t] = {s}
  /\ state' = [state EXCEPT ![s] = "freed"]
  /\ \E order \in [1..Cardinality(Contents(s)) -> Contents(s)] :
       /\ \A i, j \in DOMAIN order : order[i] = order[j] => i = j
       /\ todo' = [todo EXCEPT ![t] = order \o @]
  /\ place' = [r \in RefIds |-> IF r \in Contents(s) THEN <<"hand", t>> ELSE place[r]]
  /\ pc' = [pc EXCEPT ![t] = "idle"] /\ cur' = [cur EXCEPT ![t] = NoStruct]
  /\ UNCHANGED <<refcount, mutexVars, target, src, dest, tmp, claims>>

-----------------------------------------------------------------------------
(* lock() and unlock() of a structure t has an object of, whatever else it *)
(* has locked.  A call that returns an error throws and changes nothing.   *)
Taken_Tried(t, s) == IF MayLock(t, s) THEN Locked(t, s) ELSE UNCHANGED mutexVars
Taken(t, s) == Locked(t, s)

Lock(t, s) ==
  /\ Idle(t) /\ HasHandle(t, s)
  /\ claims[t][s] < MaxLocks /\ (s \notin Recursive => owner[s] # {t})
  /\ Taken(t, s)
  /\ claims' = [claims EXCEPT ![t][s] = @ + 1]
  /\ UNCHANGED <<state, refcount, target, place, threadVars>>

Unlock(t, s) ==
  /\ Idle(t) /\ HasHandle(t, s) /\ claims[t][s] > 0
  /\ IF owner[s] = {t} THEN Unlocked(s) ELSE UNCHANGED mutexVars
  /\ claims' = [claims EXCEPT ![t][s] = @ - 1]
  /\ UNCHANGED <<state, refcount, target, place, threadVars>>

Step(t) ==
  \/ \E s \in Structs : IncBegin(t, s) \/ IncEnd(t, s) \/ DecBegin(t, s) \/ DecEnd(t, s)
                          \/ Check(t, s) \/ Free(t, s)
  \/ \E s \in Structs : Lock(t, s) \/ Unlock(t, s)
  \/ \E s \in Structs, u \in Threads : Share(t, s, u)
  \/ \E s \in Structs, c \in Containers : Put(t, s, c)
  \/ \E r \in RefIds : Receive(t, r) \/ DropHandle(t, r) \/ DropTask(t, r)
  \/ \E r \in RefIds, c \in Containers : Peek(t, r, c) \/ Pop(t, r, c)

Next == (\E s \in Structs : New(s)) \/ (\E t \in Threads : Step(t))

Spec == Init /\ [][Next]_vars

-----------------------------------------------------------------------------
(* Properties.                                                             *)

TypeOK ==
  /\ state \in [Structs -> {"unused", "live", "freed"}]
  /\ refcount \in [Structs -> Nat]
  /\ owner \in [Structs -> SUBSET Threads] /\ depth \in [Structs -> Nat]
  /\ target \in [RefIds -> {NoStruct} \cup {{s} : s \in Structs}]
  /\ place \in [RefIds -> Places]
  /\ pc \in [Threads -> {"idle", "inc", "inc_end", "dec_end", "check", "free"}]
  /\ cur \in [Threads -> {NoStruct} \cup {{s} : s \in Structs}]
  /\ src \in [Threads -> SUBSET RefIds] /\ dest \in [Threads -> Places]
  /\ tmp \in [Threads -> Nat] /\ todo \in [Threads -> Seq(RefIds)]
  /\ claims \in [Threads -> [Structs -> Nat]]

(* The count is the number of references at every moment, whatever the     *)
(* interleaving: none is lost, counted twice or left behind by a pop, a    *)
(* task or a container that is destroyed.                                  *)
RefcountExact == TypeOK /\ \A s \in Structs : refcount[s] = Cardinality(Refs(s))

(* A structure that something refers to has not been freed, and a thread   *)
(* that counts, checks or frees a structure touches live memory: nobody    *)
(* has freed it since the thread last looked.                              *)
NoUseAfterFree ==
  /\ \A s \in Structs : Refs(s) # {} => state[s] = "live"
  /\ \A t \in Threads : \A s \in cur[t] : state[s] = "live"

(* A structure without references is freed by somebody: the last one to    *)
(* drop a reference is on its way to do so.                                *)
NoLeak ==
  \A s \in Structs : state[s] = "live" /\ Refs(s) = {} =>
    \E t \in Threads : s \in cur[t] /\ pc[t] \in {"check", "free"}

(* Counting takes locks behind the program's back, but never keeps one:    *)
(* whoever waits for a mutex, in lock() or to count, waits for a thread    *)
(* that is between lock() and unlock() of it or in the middle of counting, *)
(* where it waits for nothing.  So every thread of a deadlock is between   *)
(* lock() and unlock() of what another one of them waits for.              *)
Counting(t, s) == cur[t] = {s} /\ pc[t] \in {"inc_end", "dec_end"}
Waits(t, s) == \/ pc[t] = "inc" /\ cur[t] = {s}
               \/ pc[t] = "idle" /\ todo[t] # <<>> /\ target[Head(todo[t])] = {s}
               \/ Idle(t) /\ HasHandle(t, s)
OnlySectionsBlock ==
  \A t, u \in Threads, s \in Structs :
    Waits(t, s) /\ owner[s] = {u} /\ u # t => claims[u][s] > 0 \/ Counting(u, s)

(* Between lock() and unlock() no other thread gets the lock.              *)
LockExcludes ==
  \A t, u \in Threads, s \in Structs : t # u /\ claims[t][s] > 0 => claims[u][s] = 0
=============================================================================
