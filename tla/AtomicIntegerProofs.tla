------------------------- MODULE AtomicIntegerProofs ------------------------
(***************************************************************************)
(* The properties of AtomicInteger for every set of threads, every bound   *)
(* and every program, with or without the lock around set().               *)
(***************************************************************************)
EXTENDS AtomicInteger, TLAPS

InAdd(t) == IF pc[t] = "add" THEN 1 ELSE 0

(* A thread inside inc(), dec() or a section of its own has the mutex, and *)
(* depth counts what it has to unlock.                                     *)
MutexInv ==
  /\ \A t \in Threads : pc[t] = "add" \/ claims[t] > 0 => owner = {t}
  /\ \A t \in Threads : owner = {t} => depth = claims[t] + InAdd(t) /\ depth > 0
  /\ owner = {} => depth = 0
  /\ owner = {} \/ \E t \in Threads : owner = {t}

(* What inc() or dec() has loaded is what the other calls have made of the *)
(* value by the time it stores.                                            *)
LoadInv == \A t \in Threads : pc[t] = "add" => tmp[t] = expected

IInv == TypeOK /\ MutexInv /\ LoadInv /\ NoUpdateLost /\ SectionStable

-----------------------------------------------------------------------------
(* The values have their types.                                            *)
LEMMA TypeStep == TypeOK /\ MutexInv /\ [Next]_vars => TypeOK'
<1> SUFFICES ASSUME TypeOK, MutexInv, [Next]_vars PROVE TypeOK'
  OBVIOUS
<1> USE SetValuesAssumption, BoundsAssumption
<1>1. ASSUME NEW t \in Threads, NEW d \in {1, -1}, AddBegin(t, d) PROVE TypeOK'
  BY <1>1 DEF AddBegin, Guarded, Locked, MayLock, TypeOK
<1>2. ASSUME NEW t \in Threads, AddEnd(t) PROVE TypeOK'
  BY <1>2 DEF AddEnd, Unlocked, OwnerAfterUnlock, TypeOK, MutexInv, InAdd
<1>3. ASSUME NEW t \in Threads, NEW n \in SetValues, Set(t, n) PROVE TypeOK'
  BY <1>3 DEF Set, TypeOK
<1>4. ASSUME NEW t \in Threads, Get(t) PROVE TypeOK'
  BY <1>4 DEF Get, TypeOK
<1>5. ASSUME NEW t \in Threads, Lock(t) PROVE TypeOK'
  BY <1>5 DEF Lock, Locked, MayLock, TypeOK
<1>6. ASSUME NEW t \in Threads, Unlock(t) PROVE TypeOK'
  BY <1>6 DEF Unlock, Unlocked, OwnerAfterUnlock, Holds, TypeOK, MutexInv, InAdd
<1>7. CASE UNCHANGED vars
  BY <1>7 DEF vars, TypeOK
<1>8. QED
  BY <1>1, <1>2, <1>3, <1>4, <1>5, <1>6, <1>7 DEF Next

(* The mutex has one owner, who has it from lock() to the last unlock().   *)
LEMMA MutexStep == TypeOK /\ MutexInv /\ [Next]_vars => MutexInv'
<1> SUFFICES ASSUME TypeOK, MutexInv, [Next]_vars PROVE MutexInv'
  OBVIOUS
<1> USE DEF TypeOK, MutexInv, InAdd
<1>1. ASSUME NEW t \in Threads, NEW d \in {1, -1}, AddBegin(t, d) PROVE MutexInv'
  BY <1>1 DEF AddBegin, Guarded, Locked, MayLock
<1>2. ASSUME NEW t \in Threads, AddEnd(t) PROVE MutexInv'
  BY <1>2 DEF AddEnd, Unlocked, OwnerAfterUnlock
<1>3. ASSUME NEW t \in Threads, NEW n \in SetValues, Set(t, n) PROVE MutexInv'
  BY <1>3 DEF Set
<1>4. ASSUME NEW t \in Threads, Get(t) PROVE MutexInv'
  BY <1>4 DEF Get
<1>5. ASSUME NEW t \in Threads, Lock(t) PROVE MutexInv'
  BY <1>5 DEF Lock, Locked, MayLock
<1>6. ASSUME NEW t \in Threads, Unlock(t) PROVE MutexInv'
  <2>1. /\ owner = {t} /\ pc' = pc /\ pc[t] = "idle" /\ depth = claims[t]
        /\ \A u \in Threads : u # t => claims'[u] = claims[u]
        /\ claims'[t] = claims[t] - 1 /\ depth' = depth - 1
        /\ owner' = IF depth = 1 THEN {} ELSE owner
    BY <1>6 DEF Unlock, Unlocked, OwnerAfterUnlock, Holds
  <2>2. CASE depth = 1
    <3>1. \A u \in Threads : u # t => claims[u] = 0 /\ pc[u] = "idle"
      BY <2>1
    <3>2. \A u \in Threads : claims'[u] = 0 /\ pc'[u] = "idle"
      BY <2>1, <2>2, <3>1
    <3>3. owner' = {} /\ depth' = 0 /\ \A u \in Threads : owner' # {u}
      BY <2>1, <2>2
    <3>4. QED
      BY <3>2, <3>3
  <2>3. CASE depth # 1
    <3>1. claims'[t] \in Int /\ owner' = {t} /\ depth' = claims'[t] /\ depth' > 0 /\ pc'[t] = "idle"
      BY <2>1, <2>3
    <3>2. \A u \in Threads : u # t => claims'[u] = 0 /\ pc'[u] = "idle" /\ owner' # {u}
      BY <2>1, <3>1
    <3>3. QED
      BY <3>1, <3>2
  <2>4. QED
    BY <2>2, <2>3
<1>7. CASE UNCHANGED vars
  BY <1>7 DEF vars
<1>8. QED
  BY <1>1, <1>2, <1>3, <1>4, <1>5, <1>6, <1>7 DEF Next

(* No inc() or dec() falls between another thread's load and its store, or *)
(* inside another thread's section.                                        *)
LEMMA ValueStep == IInv /\ [Next]_vars => LoadInv' /\ NoUpdateLost' /\ SectionStable'
<1> SUFFICES ASSUME IInv, [Next]_vars PROVE LoadInv' /\ NoUpdateLost' /\ SectionStable'
  OBVIOUS
<1> USE DEF IInv, TypeOK, MutexInv, LoadInv, NoUpdateLost, SectionStable, Adding
<1>1. ASSUME NEW t \in Threads, NEW d \in {1, -1}, AddBegin(t, d)
      PROVE  LoadInv' /\ NoUpdateLost' /\ SectionStable'
  BY <1>1 DEF AddBegin, Guarded, Locked, MayLock
<1>2. ASSUME NEW t \in Threads, AddEnd(t)
      PROVE  LoadInv' /\ NoUpdateLost' /\ SectionStable'
  BY <1>2 DEF AddEnd, Unlocked
<1>3. ASSUME NEW t \in Threads, NEW n \in SetValues, Set(t, n)
      PROVE  LoadInv' /\ NoUpdateLost' /\ SectionStable'
  BY <1>3, SetValuesAssumption DEF Set
<1>4. ASSUME NEW t \in Threads, Get(t)
      PROVE  LoadInv' /\ NoUpdateLost' /\ SectionStable'
  BY <1>4 DEF Get
<1>5. ASSUME NEW t \in Threads, Lock(t)
      PROVE  LoadInv' /\ NoUpdateLost' /\ SectionStable'
  BY <1>5 DEF Lock, Locked, MayLock
<1>6. ASSUME NEW t \in Threads, Unlock(t)
      PROVE  LoadInv' /\ NoUpdateLost' /\ SectionStable'
  BY <1>6 DEF Unlock, Unlocked, Holds
<1>7. CASE UNCHANGED vars
  BY <1>7 DEF vars
<1>8. QED
  BY <1>1, <1>2, <1>3, <1>4, <1>5, <1>6, <1>7 DEF Next

-----------------------------------------------------------------------------
(* Nobody holds the mutex of a new AtomicInteger.                          *)
LEMMA Start == Init => IInv
<1> SUFFICES ASSUME Init PROVE IInv
  OBVIOUS
<1>1. TypeOK
  BY BoundsAssumption DEF Init, TypeOK
<1>2. \A t \in Threads : pc[t] = "idle" /\ claims[t] = 0 /\ owner # {t}
  BY DEF Init
<1>3. MutexInv /\ LoadInv /\ NoUpdateLost /\ SectionStable
  BY <1>2 DEF Init, MutexInv, LoadInv, NoUpdateLost, SectionStable
<1> QED
  BY <1>1, <1>3 DEF IInv

(* Values have their types in every program; that depth stays a number     *)
(* needs the mutex to have one owner.                                      *)
THEOREM TypeCorrect == Spec => []TypeOK
<1>1. Init => TypeOK /\ MutexInv
  BY Start DEF IInv
<1>2. TypeOK /\ MutexInv /\ [Next]_vars => TypeOK' /\ MutexInv'
  BY TypeStep, MutexStep
<1> QED
  BY <1>1, <1>2, PTL DEF Spec

(* Every program keeps the invariant.                                      *)
LEMMA Invariant == Spec => []IInv
<1>1. IInv /\ [Next]_vars => IInv'
  BY TypeStep, MutexStep, ValueStep DEF IInv
<1> QED
  BY <1>1, Start, PTL DEF Spec

(* No inc() or dec() of any thread is lost, and no set() that does not     *)
(* fall inside one.                                                        *)
THEOREM AtomicUpdates == Spec => []NoUpdateLost
<1>1. IInv => NoUpdateLost
  BY DEF IInv
<1> QED
  BY <1>1, Invariant, PTL

(* What a thread reads inside its own section stays true there, unless     *)
(* another thread calls set().                                             *)
THEOREM SectionsHold == Spec => []SectionStable
<1>1. IInv => SectionStable
  BY DEF IInv
<1> QED
  BY <1>1, Invariant, PTL
=============================================================================
