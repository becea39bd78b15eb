---------------------------- MODULE AtomicInteger ---------------------------
(***************************************************************************)
(* The value of one pht\AtomicInteger that several threads share:          *)
(* inc() and dec() take the recursive mutex around a load and a store,     *)
(* lock() and unlock() expose that mutex, get() and set() do without it.   *)
(* (Its reference count is in ItcRefs.  The 64 bits of a zend_long are not *)
(* modelled: no program counts that far.)                                  *)
(***************************************************************************)
EXTENDS Integers

CONSTANTS Threads,   \* the PHP threads that have an object of it
          SetValues, \* the values set() is called with
          MaxCalls,  \* bound: calls of inc(), dec() and set() of each thread
          MaxNest,   \* bound: lock() calls a thread may nest
          Unset      \* no value

ASSUME SetValuesAssumption == SetValues \subseteq Int /\ Unset \notin Int
ASSUME BoundsAssumption == MaxCalls \in Nat /\ MaxNest \in Nat

VARIABLES
  value,   \* aioi->value
  owner,   \* the threads holding aioi->lock: {} or one thread
  depth,   \* how often that thread has locked it
  pc,      \* "idle", or "add" inside inc() and dec()
  delta,   \* what the call of each thread adds
  tmp,     \* its load of value inside ++ or --
  claims,  \* lock() calls less unlock() calls
  seen,    \* what get() or set() told the thread last since its lock(), until
           \* it or another thread's set() changes the value
  calls,   \* calls so far
  expected \* ghost: what the calls make of the value, each at its store, but
           \* for a set() that falls inside another thread's inc() or dec()

vars == <<value, owner, depth, pc, delta, tmp, claims, seen, calls, expected>>

(* The recursive mutex: its owner may lock it again, and frees it with the *)
(* last unlock.                                                            *)
MayLock(t) == owner \subseteq {t}
OwnerAfterUnlock_None == {}
OwnerAfterUnlock == IF depth = 1 THEN {} ELSE owner

(* pthread_mutex_unlock by another thread returns EPERM and does nothing.  *)
Holds(t) == owner = {t}

Locked(t) == MayLock(t) /\ owner' = {t} /\ depth' = depth + 1
Unlocked == owner' = OwnerAfterUnlock /\ depth' = depth - 1

(* new AtomicInteger(n), before any other thread has an object of it.      *)
Init == /\ value \in {0} \cup SetValues /\ owner = {} /\ depth = 0
        /\ pc = [t \in Threads |-> "idle"] /\ delta = [t \in Threads |-> 0]
        /\ tmp = [t \in Threads |-> 0] /\ claims = [t \in Threads |-> 0]
        /\ seen = [t \in Threads |-> Unset] /\ calls = [t \in Threads |-> 0]
        /\ expected = value

(* inc() and dec(): lock; load; store; unlock.                             *)
Guarded_Not(t) == UNCHANGED <<owner, depth>>
Guarded(t) == Locked(t)

AddBegin(t, d) ==
  /\ pc[t] = "idle" /\ calls[t] < MaxCalls /\ Guarded(t)
  /\ calls' = [calls EXCEPT ![t] = @ + 1]
  /\ pc' = [pc EXCEPT ![t] = "add"] /\ delta' = [delta EXCEPT ![t] = d]
  /\ tmp' = [tmp EXCEPT ![t] = value]
  /\ UNCHANGED <<value, claims, seen, expected>>

AddEnd(t) ==
  /\ pc[t] = "add"
  /\ value' = tmp[t] + delta[t] /\ expected' = expected + delta[t]
  /\ Unlocked
  /\ pc' = [pc EXCEPT ![t] = "idle"] /\ seen' = [seen EXCEPT ![t] = Unset]
  /\ UNCHANGED <<delta, tmp, claims, calls>>

(* set(): one store, with no lock of its own, whoever holds the mutex.     *)
Adding == {t \in Threads : pc[t] = "add"}

Set(t, n) ==
  /\ pc[t] = "idle" /\ calls[t] < MaxCalls
  /\ calls' = [calls EXCEPT ![t] = @ + 1]
  /\ value' = n /\ expected' = (IF Adding = {} THEN n ELSE expected)
  /\ seen' = [u \in Threads |-> IF u = t THEN n ELSE Unset]
  /\ UNCHANGED <<owner, depth, pc, delta, tmp, claims>>

(* get(): one load, with no lock of its own.                               *)
Get(t) ==
  /\ pc[t] = "idle"
  /\ seen' = [seen EXCEPT ![t] = value]
  /\ UNCHANGED <<value, owner, depth, pc, delta, tmp, claims, calls, expected>>

Lock(t) ==
  /\ pc[t] = "idle" /\ claims[t] < MaxNest /\ Locked(t)
  /\ claims' = [claims EXCEPT ![t] = @ + 1]
  /\ seen' = IF claims[t] = 0 THEN [seen EXCEPT ![t] = Unset] ELSE seen
  /\ UNCHANGED <<value, pc, delta, tmp, calls, expected>>

Unlock(t) ==
  /\ pc[t] = "idle" /\ Holds(t) /\ Unlocked
  /\ claims' = [claims EXCEPT ![t] = @ - 1]
  /\ UNCHANGED <<value, pc, delta, tmp, seen, calls, expected>>

Next == \E t \in Threads :
  \/ \E d \in {1, -1} : AddBegin(t, d)
  \/ AddEnd(t)
  \/ \E n \in SetValues : Set(t, n)
  \/ Get(t) \/ Lock(t) \/ Unlock(t)

Spec == Init /\ [][Next]_vars

-----------------------------------------------------------------------------
(* Properties.                                                             *)

TypeOK ==
  /\ value \in Int /\ owner \in SUBSET Threads /\ depth \in Nat
  /\ pc \in [Threads -> {"idle", "add"}] /\ delta \in [Threads -> {-1, 0, 1}]
  /\ tmp \in [Threads -> Int] /\ claims \in [Threads -> Nat]
  /\ seen \in [Threads -> Int \cup {Unset}] /\ calls \in [Threads -> 0..MaxCalls]
  /\ expected \in Int

(* Whenever nobody is inside inc() or dec(), the value is what the calls   *)
(* make of it: no inc() or dec() is ever lost, and a set() only when it    *)
(* falls between the load and the store of another thread's inc() or dec(). *)
NoUpdateLost == Adding = {} => value = expected

(* What a thread has read or set since its outermost lock() is still the   *)
(* value until it calls unlock(), also with nested lock() calls and with   *)
(* inc() and dec() inside: only another thread's set() can change it.      *)
SectionStable ==
  \A t \in Threads : claims[t] > 0 /\ seen[t] # Unset => seen[t] = value
=============================================================================
