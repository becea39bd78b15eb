--------------------------- MODULE PhtThreadProofs --------------------------
(***************************************************************************)
(* Safety of PhtThread for every number of calls, workers and arguments,   *)
(* every set of kinds and every program.                                   *)
(***************************************************************************)
EXTENDS PhtThread, SequenceTheorems, TLAPS

(* The lock is held exactly by the thread that is in a critical section.   *)
LockInv ==
  /\ lock = Owner <=> opc = "pushing"
  /\ \A w \in Workers : lock = w <=> wpc[w] \in {"starting", "popping"}

(* What the length is while somebody is inside pht_queue_push or           *)
(* pht_queue_pop, and that nobody stores between a load and its store.     *)
SizeInv ==
  /\ opc = "pushing" => otmp = size /\ Len(list) = size + 1
  /\ opc # "pushing" => size = Len(list)
  /\ \A w \in Workers : wpc[w] = "popping" => wtmp[w] = size /\ wtask[w] = Popped

(* What each thread has in its hand where it needs it.                     *)
HandInv ==
  /\ opc = "convert" => building \in Tasks
  /\ \A w \in Workers : wpc[w] \in {"run", "delete"} => wtask[w] \in Tasks

(* Where a worker's handle is used there is one.                           *)
HandleInv ==
  /\ opc \in {"joining", "d_lock", "d_join"} => handle # 0
  /\ status # "NOT_STARTED" /\ opc # "creating" => handle # 0
  /\ \A w \in Workers : wpc[w] # "absent" => handle # 0

IInv == TypeOK /\ LockInv /\ SizeInv /\ HandInv /\ HandleInv

(* NoTask is not a task.                                                   *)
LEMMA NoTaskIsNone == NoTask \notin Tasks
  BY BoundsAssumption DEF NoTask, Tasks, Calls

-----------------------------------------------------------------------------
(* The inductive invariant holds at the start.                             *)
LEMMA InitIInv == Init => IInv
<1> SUFFICES ASSUME Init PROVE IInv
  OBVIOUS
<1> USE BoundsAssumption DEF Init
<1>1. TypeOK
  BY DEF TypeOK, Status, Free, OwnerPC, WorkerPC
<1>2. LockInv
  BY DEF LockInv, Free, Owner, Workers
<1>3. SizeInv /\ HandInv /\ HandleInv
  BY DEF SizeInv, HandInv, HandleInv
<1>4. QED
  BY <1>1, <1>2, <1>3 DEF IInv

(* The steps of an owner inside an add...Task() call.                      *)
LEMMA AddStep ==
  ASSUME IInv,
         \/ \E kind \in Kinds, argc \in 0..MaxArgs : BeginTask(kind, argc)
         \/ ConvertArg \/ ConvertFails \/ PushBegin \/ PushEnd
  PROVE  IInv'
<1> USE BoundsAssumption, KindsAssumption
    DEF IInv, Popped, sharedVars, workerVars, heapVars, ownerVars
<1>1. ASSUME NEW kind \in Kinds, NEW argc \in 0..MaxArgs, BeginTask(kind, argc) PROVE IInv'
  <2> USE <1>1 DEF BeginTask
  <2>1. building' \in Tasks
    BY DEF Tasks, Calls, TypeOK
  <2>2. TypeOK'
    BY <2>1 DEF TypeOK, OwnerPC, Calls
  <2>3. LockInv' /\ SizeInv' /\ HandleInv'
    BY DEF LockInv, SizeInv, HandleInv
  <2>4. HandInv'
    BY <2>1 DEF HandInv
  <2>5. QED
    BY <2>2, <2>3, <2>4
<1>2. CASE ConvertArg
  <2> USE <1>2 DEF ConvertArg
  <2>1. building \in Tasks /\ building.argc \in 0..MaxArgs
    BY DEF HandInv, Tasks
  <2>2. refs' \in [Args -> Int]
    <3>1. PICK a : refs' = [refs EXCEPT ![a] = @ + 1]
      OBVIOUS
    <3>2. refs \in [Args -> Int]
      BY DEF TypeOK
    <3>3. \A b \in Args : refs[b] \in Int /\ refs[b] + 1 \in Int
      BY <3>2
    <3>4. QED
      BY ONLY <3>1, <3>2, <3>3
  <2>3. converted' \in 0..MaxArgs
    BY <2>1 DEF TypeOK
  <2>4. TypeOK'
    BY <2>2, <2>3 DEF TypeOK
  <2>5. LockInv' /\ SizeInv' /\ HandInv' /\ HandleInv'
    BY DEF LockInv, SizeInv, HandInv, HandleInv
  <2>6. QED
    BY <2>4, <2>5
<1>3. CASE ConvertFails
  <2> USE <1>3 DEF ConvertFails
  <2>1. refs' \in [Args -> Int]
    BY DEF DropArgs, TypeOK
  <2>2. TypeOK'
    BY <2>1 DEF TypeOK, OwnerPC
  <2>3. LockInv' /\ SizeInv' /\ HandInv' /\ HandleInv'
    BY DEF LockInv, SizeInv, HandInv, HandleInv
  <2>4. QED
    BY <2>2, <2>3
<1>4. CASE PushBegin
  <2> USE <1>4 DEF PushBegin, CanLock
  <2>1. building \in Tasks /\ list' \in Seq(Tasks) /\ Len(list') = Len(list) + 1
    BY DEF HandInv, TypeOK
  <2>2. opc # "pushing" /\ \A w \in Workers : wpc[w] \notin {"starting", "popping"}
    BY DEF LockInv, Free, Workers, Owner
  <2>3. TypeOK'
    BY <2>1 DEF TypeOK, OwnerPC, Free, Owner
  <2>4. LockInv'
    BY <2>2 DEF LockInv, Owner, Workers
  <2>5. SizeInv'
    BY <2>1, <2>2 DEF SizeInv
  <2>6. HandInv' /\ HandleInv'
    BY DEF HandInv, HandleInv
  <2>7. QED
    BY <2>3, <2>4, <2>5, <2>6
<1>5. CASE PushEnd
  <2> USE <1>5 DEF PushEnd
  <2>1. \A w \in Workers : wpc[w] \notin {"starting", "popping"}
    BY DEF LockInv, Owner, Workers
  <2>2. TypeOK'
    BY DEF TypeOK, OwnerPC, Free
  <2>3. LockInv'
    BY <2>1 DEF LockInv, Free, Owner, Workers
  <2>4. SizeInv'
    BY <2>1 DEF SizeInv
  <2>5. HandInv' /\ HandleInv'
    BY DEF HandInv, HandleInv
  <2>6. QED
    BY <2>2, <2>3, <2>4, <2>5
<1>6. QED
  BY <1>1, <1>2, <1>3, <1>4, <1>5

(* The steps of an owner inside start(), join() or the destructor.         *)
LEMMA StartJoinStep ==
  ASSUME IInv,
         \/ StartStatus \/ (\E w \in Workers : StartCreate(w))
         \/ JoinStatus \/ JoinReturns
         \/ ReleaseUnstarted \/ ReleaseBegin \/ ReleaseStatus \/ ReleaseJoin
  PROVE  IInv'
<1> USE BoundsAssumption DEF IInv, Popped, sharedVars, workerVars, heapVars, ownerVars
<1>1. CASE StartStatus
  BY <1>1 DEF StartStatus, TypeOK, LockInv, SizeInv, HandInv, HandleInv, OwnerPC, Status
<1>2. ASSUME NEW w \in Workers, StartCreate(w) PROVE IInv'
  <2> USE <1>2 DEF StartCreate
  <2>1. w \in 1..MaxStarts /\ handle' = w
    BY DEF Workers
  <2>2. TypeOK'
    BY <2>1 DEF TypeOK, OwnerPC, WorkerPC
  <2>3. LockInv'
    BY DEF LockInv, TypeOK
  <2>4. SizeInv' /\ HandInv' /\ HandleInv'
    BY <2>1 DEF SizeInv, HandInv, HandleInv, TypeOK
  <2>5. QED
    BY <2>2, <2>3, <2>4
<1>3. CASE JoinStatus
  BY <1>3 DEF JoinStatus, MayJoin, TypeOK, LockInv, SizeInv, HandInv, HandleInv, OwnerPC, Status
<1>4. CASE JoinReturns
  <2> USE <1>4 DEF JoinReturns
  <2>1. handle \in Workers
    BY DEF HandleInv, TypeOK, Workers
  <2>2. TypeOK'
    BY <2>1 DEF TypeOK, OwnerPC
  <2>3. LockInv' /\ SizeInv' /\ HandInv' /\ HandleInv'
    BY DEF LockInv, SizeInv, HandInv, HandleInv
  <2>4. QED
    BY <2>2, <2>3
<1>5. CASE ReleaseUnstarted
  BY <1>5 DEF ReleaseUnstarted, TypeOK, LockInv, SizeInv, HandInv, HandleInv, OwnerPC
<1>6. CASE ReleaseBegin
  BY <1>6 DEF ReleaseBegin, TypeOK, LockInv, SizeInv, HandInv, HandleInv, OwnerPC
<1>7. CASE ReleaseStatus
  BY <1>7 DEF ReleaseStatus, TypeOK, LockInv, SizeInv, HandInv, HandleInv, OwnerPC, Status
<1>8. CASE ReleaseJoin
  <2> USE <1>8 DEF ReleaseJoin
  <2>1. handle \in Workers
    BY DEF HandleInv, TypeOK, Workers
  <2>2. TypeOK'
    BY <2>1 DEF TypeOK, OwnerPC
  <2>3. LockInv' /\ SizeInv' /\ HandInv' /\ HandleInv'
    BY DEF LockInv, SizeInv, HandInv, HandleInv
  <2>4. QED
    BY <2>2, <2>3
<1>9. QED
  BY <1>1, <1>2, <1>3, <1>4, <1>5, <1>6, <1>7, <1>8

(* The steps of a worker.                                                  *)
LEMMA WorkerStep ==
  ASSUME IInv, NEW w \in Workers, WorkerNext(w)
  PROVE  IInv'
<1> USE BoundsAssumption DEF IInv, Popped, sharedVars, workerVars, heapVars, ownerVars
<1>0. w \in 1..MaxStarts /\ Owner # w /\ Free # w /\ Free # Owner
  BY DEF Workers, Owner, Free
<1>1. CASE StartupBegin(w)
  <2> USE <1>0, <1>1 DEF StartupBegin, CanLock
  <2>1. opc # "pushing" /\ \A v \in Workers : wpc[v] \notin {"starting", "popping"}
    BY DEF LockInv, Free, Workers, Owner
  <2>2. TypeOK'
    BY DEF TypeOK, WorkerPC, Free
  <2>3. LockInv'
    BY <2>1 DEF LockInv, TypeOK
  <2>4. SizeInv' /\ HandInv' /\ HandleInv'
    BY <2>1 DEF SizeInv, HandInv, HandleInv, TypeOK
  <2>5. QED
    BY <2>2, <2>3, <2>4
<1>2. CASE StartupEnd(w)
  <2> USE <1>0, <1>2 DEF StartupEnd
  <2>1. /\ opc # "pushing" /\ handle # 0
        /\ \A v \in Workers : v # w => wpc[v] \notin {"starting", "popping"}
    BY DEF LockInv, HandleInv
  <2>2. TypeOK'
    BY DEF TypeOK, WorkerPC, Free, Status
  <2>3. LockInv'
    BY <2>1 DEF LockInv, TypeOK, Free, Workers
  <2>4. SizeInv' /\ HandInv' /\ HandleInv'
    BY <2>1 DEF SizeInv, HandInv, HandleInv, TypeOK
  <2>5. QED
    BY <2>2, <2>3, <2>4
<1>3. CASE LoopStatus(w)
  <2> USE <1>3 DEF LoopStatus, AfterStatus
  <2>1. TypeOK'
    BY DEF TypeOK, WorkerPC
  <2>2. LockInv' /\ SizeInv' /\ HandInv' /\ HandleInv'
    BY DEF LockInv, SizeInv, HandInv, HandleInv, TypeOK
  <2>3. QED
    BY <2>1, <2>2
<1>4. CASE LoopSize(w)
  <2> USE <1>4 DEF LoopSize
  <2>1. TypeOK'
    BY DEF TypeOK, WorkerPC
  <2>2. LockInv' /\ SizeInv' /\ HandInv' /\ HandleInv'
    BY DEF LockInv, SizeInv, HandInv, HandleInv, TypeOK
  <2>3. QED
    BY <2>1, <2>2
<1>5. CASE PopBegin(w)
  <2> USE <1>0, <1>5 DEF PopBegin, CanLock
  <2>1. opc # "pushing" /\ \A v \in Workers : wpc[v] \notin {"starting", "popping"}
    BY DEF LockInv, Free, Workers, Owner
  <2>2. Popped' = Popped /\ Popped \in Tasks \cup {NoTask}
    BY DEF Popped, TypeOK
  <2>3. TypeOK'
    BY <2>2 DEF TypeOK, WorkerPC, Free
  <2>4. LockInv'
    BY <2>1 DEF LockInv, TypeOK
  <2>5. SizeInv'
    BY <2>1, <2>2 DEF SizeInv, TypeOK
  <2>6. HandInv' /\ HandleInv'
    BY DEF HandInv, HandleInv, TypeOK
  <2>7. QED
    BY <2>3, <2>4, <2>5, <2>6
<1>6. CASE PopEnd(w)
  <2> USE <1>0, <1>6 DEF PopEnd
  <2>1. /\ opc # "pushing" /\ size = Len(list) /\ wtmp[w] = size /\ wtask[w] = Popped
        /\ \A v \in Workers : v # w => wpc[v] \notin {"starting", "popping"}
    BY DEF LockInv, SizeInv
  <2>2. list' \in Seq(Tasks) /\ size' = Len(list') /\ size' \in Nat
    <3>1. CASE list = <<>>
      BY <2>1, <3>1 DEF Popped, SizeAfterPop, TypeOK
    <3>2. CASE list # <<>>
      BY <2>1, <3>2, NoTaskIsNone DEF Popped, Rest, SizeAfterPop, TypeOK
    <3>3. QED
      BY <3>1, <3>2
  <2>3. wtask[w] # NoTask => wtask[w] \in Tasks
    BY DEF TypeOK
  <2>4. TypeOK'
    BY <2>2 DEF TypeOK, WorkerPC, Free
  <2>5. LockInv'
    <3>1. wpc'[w] \in {"loop_status", "run"} /\ \A v \in Workers : v # w => wpc'[v] = wpc[v]
      BY DEF TypeOK
    <3>2. QED
      BY <2>1, <3>1 DEF LockInv, Free, Workers
  <2>6. SizeInv' /\ HandInv' /\ HandleInv'
    BY <2>1, <2>2, <2>3 DEF SizeInv, HandInv, HandleInv, TypeOK
  <2>7. QED
    BY <2>4, <2>5, <2>6
<1>7. CASE RunTask(w)
  <2> USE <1>7 DEF RunTask
  <2>1. wtask[w].id \in Calls
    BY DEF HandInv, Tasks
  <2>2. TypeOK'
    BY <2>1 DEF TypeOK, WorkerPC
  <2>3. LockInv' /\ SizeInv' /\ HandInv' /\ HandleInv'
    BY DEF LockInv, SizeInv, HandInv, HandleInv, TypeOK
  <2>4. QED
    BY <2>2, <2>3
<1>8. CASE DeleteTask(w)
  <2> USE <1>8 DEF DeleteTask
  <2>1. refs' \in [Args -> Int]
    BY DEF DropArgs, TypeOK
  <2>2. TypeOK'
    BY <2>1 DEF TypeOK, WorkerPC
  <2>3. LockInv' /\ SizeInv' /\ HandInv' /\ HandleInv'
    BY DEF LockInv, SizeInv, HandInv, HandleInv, TypeOK
  <2>4. QED
    BY <2>2, <2>3
<1>9. CASE Exit(w)
  <2> USE <1>9 DEF Exit
  <2>1. TypeOK'
    BY DEF TypeOK, WorkerPC
  <2>2. LockInv' /\ SizeInv' /\ HandInv' /\ HandleInv'
    BY DEF LockInv, SizeInv, HandInv, HandleInv, TypeOK
  <2>3. QED
    BY <2>1, <2>2
<1>10. QED
  BY <1>1, <1>2, <1>3, <1>4, <1>5, <1>6, <1>7, <1>8, <1>9 DEF WorkerNext

(* IInv is inductive.                                                      *)
LEMMA NextIInv == IInv /\ [Next]_vars => IInv'
<1> SUFFICES ASSUME IInv, [Next]_vars PROVE IInv'
  OBVIOUS
<1>1. CASE OwnerNext
  BY <1>1, AddStep, StartJoinStep DEF OwnerNext
<1>2. CASE \E w \in Workers : WorkerNext(w)
  BY <1>2, WorkerStep
<1>3. CASE UNCHANGED vars
  BY <1>3 DEF vars, IInv, Popped, TypeOK, LockInv, SizeInv, HandInv, HandleInv
<1>4. QED
  BY <1>1, <1>2, <1>3 DEF Next, Finished

(* The inductive invariant holds in every program.                         *)
LEMMA Invariance == Spec => []IInv
  BY InitIInv, NextIInv, PTL DEF Spec

-----------------------------------------------------------------------------
(* Every variable has its type, in particular every reference to a task    *)
(* that a worker runs or deletes is to a task that was added.              *)
THEOREM TypeCorrect == Spec => []TypeOK
<1>1. IInv => TypeOK
  BY DEF IInv
<1>2. QED
  BY <1>1, Invariance, PTL

(* The unlocked reads of tasks.size see the length of the list: no push    *)
(* and no pop of any number of workers loses another's update.             *)
THEOREM SizeCorrect == Spec => []SizeAgrees
<1>1. IInv => SizeAgrees
  BY BoundsAssumption DEF IInv, LockInv, SizeInv, SizeAgrees, Free, Owner, Workers
<1>2. QED
  BY <1>1, Invariance, PTL

-----------------------------------------------------------------------------
(* The tasks that have left an add...Task() call were added before the one *)
(* that such a call is building now.                                       *)
Before(n) == IF opc = "convert" THEN n < calls ELSE n <= calls

AgeInv ==
  /\ opc = "convert" => building.id = calls
  /\ \A i \in 1..Len(list) : Before(list[i].id)
  /\ \A w \in Workers : Before(wtask[w].id)
  /\ \A j \in 1..Len(executed) : Before(executed[j])

(* Each task is linked once, or in one worker's hand, or has been run; the *)
(* worker that has run it keeps it until it has deleted it.                *)
OnceInv ==
  /\ \A i, j \in 1..Len(list) : list[i].id = list[j].id => i = j
  /\ \A i \in 1..Len(list), w \in Workers : Has(w) => list[i].id # wtask[w].id
  /\ \A i \in 1..Len(list), j \in 1..Len(executed) : list[i].id # executed[j]
  /\ \A v, w \in Workers : Has(v) /\ Has(w) /\ wtask[v].id = wtask[w].id => v = w
  /\ \A w \in Workers, j \in 1..Len(executed) : wpc[w] = "run" => executed[j] # wtask[w].id
  /\ \A i, j \in 1..Len(executed) : executed[i] = executed[j] => i = j

(* Numbers of tasks are positive integers wherever a task is.              *)
LEMMA IdsAreInt ==
  ASSUME TypeOK
  PROVE  /\ calls \in Nat /\ Len(list) \in Nat /\ Len(executed) \in Nat
         /\ \A task \in Tasks : task.id \in Nat /\ task.id # 0
         /\ \A i \in 1..Len(list) : list[i] \in Tasks /\ list[i].id \in Nat /\ list[i].id # 0
         /\ \A w \in Workers : wtask[w].id \in Nat /\ (wtask[w] # NoTask => wtask[w].id # 0)
         /\ \A j \in 1..Len(executed) : executed[j] \in Nat /\ executed[j] # 0
<1>1. calls \in Nat /\ Len(list) \in Nat /\ Len(executed) \in Nat
  BY BoundsAssumption DEF TypeOK
<1>2. \A task \in Tasks : task.id \in Nat /\ task.id # 0
  BY BoundsAssumption DEF Tasks, Calls
<1>3. \A i \in 1..Len(list) : list[i] \in Tasks
  BY DEF TypeOK
<1>4. \A w \in Workers : wtask[w].id \in Nat /\ (wtask[w] # NoTask => wtask[w].id # 0)
  BY <1>2 DEF TypeOK, NoTask
<1>5. \A j \in 1..Len(executed) : executed[j] \in Nat /\ executed[j] # 0
  BY BoundsAssumption DEF TypeOK, Calls
<1>6. QED
  BY <1>1, <1>2, <1>3, <1>4, <1>5

(* A step that neither adds, links, takes, runs nor deletes a task keeps   *)
(* every task where it is.                                                 *)
LEMMA OnceIdle ==
  ASSUME TypeOK, AgeInv, OnceInv,
         UNCHANGED <<list, calls, wtask, executed>>,
         opc' = "convert" => opc = "convert" /\ building' = building,
         \A w \in Workers : wpc'[w] = wpc[w] \/ wpc'[w] \notin {"run", "delete"}
  PROVE  AgeInv' /\ OnceInv'
<1>1. \A n \in Nat : Before(n) => Before(n)'
  BY IdsAreInt DEF Before
<1>2. AgeInv'
  BY <1>1, IdsAreInt DEF AgeInv
<1>3. OnceInv'
  BY DEF OnceInv, Has
<1>4. QED
  BY <1>2, <1>3

(* add...Task() links a task that is nowhere else.                         *)
LEMMA OnceAdd ==
  ASSUME TypeOK, HandInv, AgeInv, OnceInv,
         \/ \E kind \in Kinds, argc \in 0..MaxArgs : BeginTask(kind, argc)
         \/ PushBegin
  PROVE  AgeInv' /\ OnceInv'
<1> USE IdsAreInt
<1>1. ASSUME NEW kind \in Kinds, NEW argc \in 0..MaxArgs, BeginTask(kind, argc)
      PROVE  AgeInv' /\ OnceInv'
  <2> USE <1>1 DEF BeginTask, sharedVars, workerVars
  <2>1. \A n \in Nat : Before(n) => Before(n)'
    BY DEF Before
  <2>2. AgeInv'
    BY <2>1 DEF AgeInv
  <2>3. OnceInv'
    BY DEF OnceInv, Has
  <2>4. QED
    BY <2>2, <2>3
<1>2. CASE PushBegin
  <2> USE <1>2 DEF PushBegin, workerVars
  <2>1. building \in Tasks /\ building.id = calls
    BY DEF HandInv, AgeInv
  <2>2. /\ Len(list') = Len(list) + 1
        /\ \A i \in 1..Len(list) : list'[i] = list[i]
        /\ list'[Len(list) + 1] = building
    BY <2>1 DEF TypeOK
  <2>3. \A n \in Nat : Before(n) => Before(n)' /\ n # calls
    BY DEF Before
  <2>4. AgeInv'
    BY <2>1, <2>2, <2>3 DEF AgeInv, Before
  <2>5. /\ \A i \in 1..Len(list) : list[i].id # calls
        /\ \A w \in Workers : wtask[w].id # calls
        /\ \A j \in 1..Len(executed) : executed[j] # calls
    BY <2>3 DEF AgeInv
  <2>6. OnceInv'
    BY <2>1, <2>2, <2>5 DEF OnceInv, Has
  <2>7. QED
    BY <2>4, <2>6
<1>3. QED
  BY <1>1, <1>2

(* A worker takes the head of the list; no other worker has the same task. *)
LEMMA OncePop ==
  ASSUME TypeOK, SizeInv, HandInv, AgeInv, OnceInv, NEW w \in Workers, PopBegin(w) \/ PopEnd(w)
  PROVE  AgeInv' /\ OnceInv'
<1> USE IdsAreInt DEF sharedVars, ownerVars
<1>0. \A n : UNCHANGED <<opc, calls>> => Before(n)' = Before(n)
  BY DEF Before
<1>1. CASE PopBegin(w)
  <2> USE <1>1 DEF PopBegin
  <2>1. Before(Popped.id)
    <3>1. calls >= 0 /\ (opc = "convert" => building.id = calls)
      BY DEF AgeInv
    <3>2. CASE list = <<>>
      BY <3>1, <3>2 DEF Popped, NoTask, Before, HandInv
    <3>3. CASE list # <<>>
      <4>1. Popped = list[1] /\ 1 \in 1..Len(list)
        BY <3>3 DEF Popped, TypeOK
      <4>2. QED
        BY <4>1 DEF AgeInv
    <3>4. QED
      BY <3>2, <3>3
  <2>2. AgeInv'
    BY <1>0, <2>1 DEF AgeInv, TypeOK
  <2>3. OnceInv'
    BY DEF OnceInv, Has, TypeOK
  <2>4. QED
    BY <2>2, <2>3
<1>2. CASE PopEnd(w)
  <2> USE <1>2 DEF PopEnd
  <2>1. wtask[w] = Popped
    BY DEF SizeInv
  <2>2. CASE list = <<>>
    <3>1. list' = list /\ wpc' = [wpc EXCEPT ![w] = "loop_status"]
      BY <2>1, <2>2 DEF Popped
    <3>2. AgeInv'
      BY <1>0, <3>1 DEF AgeInv
    <3>3. OnceInv'
      BY <3>1 DEF OnceInv, Has, TypeOK
    <3>4. QED
      BY <3>2, <3>3
  <2>3. CASE list # <<>>
    <3>1. /\ Len(list) > 0 /\ Len(list') = Len(list) - 1
          /\ \A i \in 1..Len(list') : list'[i] = list[i + 1] /\ i + 1 \in 1..Len(list)
          /\ wtask[w] = list[1] /\ 1 \in 1..Len(list)
          /\ wpc' = [wpc EXCEPT ![w] = "run"]
      <4>1. list \in Seq(Tasks) /\ wtask[w] = Head(list) /\ list' = Tail(list)
            /\ wtask[w] # NoTask
        BY <2>1, <2>3, NoTaskIsNone DEF Popped, Rest, TypeOK
      <4>2. wpc' = [wpc EXCEPT ![w] = "run"]
        BY <4>1
      <4>3. QED
        BY ONLY <2>3, <4>1, <4>2
    <3>2. AgeInv'
      BY <1>0, <3>1 DEF AgeInv
    <3>3. \A v \in Workers : v # w => Has(v)' = Has(v)
      BY <3>1 DEF Has, TypeOK
    <3>4. OnceInv'
      <4>1. \A i, j \in 1..Len(list') : list'[i].id = list'[j].id => i = j
        BY ONLY <3>1, Len(list) \in Nat, OnceInv DEF OnceInv
      <4>2. \A i \in 1..Len(list') :
              /\ list'[i].id # list[1].id
              /\ \A j \in 1..Len(executed') : list'[i].id # executed'[j]
        <5> TAKE i \in 1..Len(list')
        <5>1. list'[i] = list[i + 1] /\ i + 1 \in 1..Len(list) /\ i + 1 # 1
          BY <3>1
        <5>2. list[i + 1].id # list[1].id
          BY ONLY <3>1, <5>1, OnceInv DEF OnceInv
        <5>3. executed' = executed /\ \A j \in 1..Len(executed) : list[i + 1].id # executed[j]
          BY <5>1 DEF OnceInv
        <5>4. QED
          BY ONLY <5>1, <5>2, <5>3
      <4>3. \A i \in 1..Len(list'), v \in Workers : Has(v)' => list'[i].id # wtask'[v].id
        <5>1. ASSUME NEW i \in 1..Len(list'), NEW v \in Workers, v # w, Has(v)
              PROVE  list'[i].id # wtask[v].id
          <6>1. list'[i] = list[i + 1] /\ i + 1 \in 1..Len(list)
            BY <3>1
          <6>2. list[i + 1].id # wtask[v].id
            BY ONLY <5>1, <6>1, OnceInv DEF OnceInv
          <6>3. QED
            BY <6>1, <6>2
        <5>2. QED
          BY <3>1, <3>3, <4>2, <5>1
      <4>4. \A u, v \in Workers :
              Has(u)' /\ Has(v)' /\ wtask'[u].id = wtask'[v].id => u = v
        BY <3>1, <3>3 DEF OnceInv
      <4>5. \A v \in Workers, j \in 1..Len(executed') :
              wpc'[v] = "run" => executed'[j] # wtask'[v].id
        BY <3>1 DEF OnceInv, TypeOK
      <4>6. QED
        BY <4>1, <4>2, <4>3, <4>4, <4>5 DEF OnceInv
    <3>5. QED
      BY <3>2, <3>4
  <2>4. QED
    BY <2>2, <2>3
<1>3. QED
  BY <1>1, <1>2

(* It runs the task and deletes it, and has none after that.               *)
LEMMA OnceRun ==
  ASSUME TypeOK, HandInv, AgeInv, OnceInv, NEW w \in Workers, RunTask(w) \/ DeleteTask(w)
  PROVE  AgeInv' /\ OnceInv'
<1> USE IdsAreInt DEF sharedVars, ownerVars
<1>0. \A n : UNCHANGED <<opc, calls>> => Before(n)' = Before(n)
  BY DEF Before
<1>1. CASE RunTask(w)
  <2> USE <1>1 DEF RunTask
  <2>1. wtask[w] \in Tasks /\ wtask[w].id \in Calls
    BY DEF HandInv, Tasks
  <2>2. /\ Len(executed') = Len(executed) + 1
        /\ \A j \in 1..Len(executed) : executed'[j] = executed[j]
        /\ executed'[Len(executed) + 1] = wtask[w].id
    BY <2>1 DEF TypeOK
  <2>3. AgeInv'
    BY <1>0, <2>2 DEF AgeInv
  <2>4. Has(w) /\ \A v \in Workers : Has(v)' = Has(v)
    BY DEF Has, TypeOK
  <2>5. /\ \A v \in Workers : v # w /\ Has(v) => wtask[v].id # wtask[w].id
        /\ \A j \in 1..Len(executed) : executed[j] # wtask[w].id
    BY <2>4 DEF OnceInv
  <2>6. OnceInv'
    <3>1. /\ \A i \in 1..Len(list'), j \in 1..Len(executed') : list'[i].id # executed'[j]
          /\ \A i, j \in 1..Len(executed') : executed'[i] = executed'[j] => i = j
      BY <2>2, <2>4, <2>5 DEF OnceInv
    <3>2. \A v \in Workers, j \in 1..Len(executed') :
            wpc'[v] = "run" => executed'[j] # wtask'[v].id
      <4>1. \A v \in Workers : wpc'[v] = "run" => v # w /\ wpc[v] = "run" /\ Has(v)
        BY DEF TypeOK, Has
      <4>2. QED
        BY <2>2, <2>5, <4>1 DEF OnceInv
    <3>3. QED
      BY <2>4, <3>1, <3>2 DEF OnceInv
  <2>7. QED
    BY <2>3, <2>6
<1>2. CASE DeleteTask(w)
  <2> USE <1>2 DEF DeleteTask
  <2>1. wtask'[w].id = 0 /\ \A v \in Workers : v # w => wtask'[v] = wtask[v]
    BY DEF TypeOK, NoTask
  <2>2. AgeInv'
    <3>1. Before(0)
      BY DEF AgeInv, Before, HandInv
    <3>2. \A v \in Workers : Before(wtask'[v].id)
      BY <2>1, <3>1 DEF AgeInv
    <3>3. QED
      BY <1>0, <3>2 DEF AgeInv
  <2>3. \A v \in Workers : wpc'[v] = "run" => v # w /\ wpc[v] = "run"
    BY DEF TypeOK
  <2>4. OnceInv'
    <3>1. \A i \in 1..Len(list'), v \in Workers : Has(v)' => list'[i].id # wtask'[v].id
      <4> SUFFICES ASSUME NEW i \in 1..Len(list'), NEW v \in Workers, Has(v)'
                   PROVE  list'[i].id # wtask'[v].id
        OBVIOUS
      <4>1. Has(v) /\ wtask'[v] = wtask[v]
        <5>1. Has(v) /\ v # w
          BY DEF Has, TypeOK
        <5>2. QED
          BY <2>1, <5>1
      <4>2. list' = list
        BY DEF sharedVars
      <4>3. QED
        BY ONLY <4>1, <4>2, OnceInv, i \in 1..Len(list'), v \in Workers DEF OnceInv
    <3>2. \A u, v \in Workers : Has(u)' /\ Has(v)' /\ wtask'[u].id = wtask'[v].id => u = v
      <4> SUFFICES ASSUME NEW u \in Workers, NEW v \in Workers, Has(u)', Has(v)',
                          wtask'[u].id = wtask'[v].id
                   PROVE  u = v
        OBVIOUS
      <4>1. /\ Has(u) /\ wtask'[u] = wtask[u]
            /\ Has(v) /\ wtask'[v] = wtask[v]
            /\ wtask'[u].id = wtask'[v].id
        <5>1. Has(u) /\ u # w /\ Has(v) /\ v # w
          BY DEF Has, TypeOK
        <5>2. QED
          BY <2>1, <5>1
      <4>2. QED
        BY ONLY <4>1, OnceInv, u \in Workers, v \in Workers DEF OnceInv
    <3>3. \A v \in Workers, j \in 1..Len(executed') :
            wpc'[v] = "run" => executed'[j] # wtask'[v].id
      BY <2>1, <2>3 DEF OnceInv
    <3>4. QED
      BY <3>1, <3>2, <3>3 DEF OnceInv
  <2>5. QED
    BY <2>2, <2>4
<1>3. QED
  BY <1>1, <1>2

(* Every step keeps tasks from being run twice.                            *)
LEMMA OnceStep == IInv /\ AgeInv /\ OnceInv /\ [Next]_vars => AgeInv' /\ OnceInv'
<1> SUFFICES ASSUME IInv, AgeInv, OnceInv, [Next]_vars PROVE AgeInv' /\ OnceInv'
  OBVIOUS
<1> USE DEF IInv, sharedVars, ownerVars, heapVars, workerVars
<1>1. ASSUME OwnerNext PROVE AgeInv' /\ OnceInv'
  <2>1. ASSUME \/ \E kind \in Kinds, argc \in 0..MaxArgs : BeginTask(kind, argc)
               \/ PushBegin
        PROVE  AgeInv' /\ OnceInv'
    BY <2>1, OnceAdd
  <2>2. ASSUME ConvertArg \/ ConvertFails \/ PushEnd PROVE AgeInv' /\ OnceInv'
    BY <2>2, OnceIdle DEF ConvertArg, ConvertFails, PushEnd
  <2>3. ASSUME NEW w \in Workers, StartCreate(w) PROVE AgeInv' /\ OnceInv'
    BY <2>3, OnceIdle DEF StartCreate, TypeOK
  <2>4. ASSUME \/ StartStatus \/ JoinStatus \/ JoinReturns
               \/ ReleaseUnstarted \/ ReleaseBegin \/ ReleaseStatus \/ ReleaseJoin
        PROVE  AgeInv' /\ OnceInv'
    BY <2>4, OnceIdle DEF StartStatus, JoinStatus, JoinReturns,
       ReleaseUnstarted, ReleaseBegin, ReleaseStatus, ReleaseJoin
  <2>5. QED
    BY <1>1, <2>1, <2>2, <2>3, <2>4 DEF OwnerNext
<1>2. ASSUME NEW w \in Workers, WorkerNext(w) PROVE AgeInv' /\ OnceInv'
  <2>1. ASSUME PopBegin(w) \/ PopEnd(w) PROVE AgeInv' /\ OnceInv'
    BY <2>1, OncePop
  <2>2. ASSUME RunTask(w) \/ DeleteTask(w) PROVE AgeInv' /\ OnceInv'
    BY <2>2, OnceRun
  <2>3. ASSUME StartupBegin(w) \/ StartupEnd(w) PROVE AgeInv' /\ OnceInv'
    BY <2>3, OnceIdle DEF StartupBegin, StartupEnd, TypeOK
  <2>4. ASSUME LoopStatus(w) \/ LoopSize(w) \/ Exit(w) PROVE AgeInv' /\ OnceInv'
    BY <2>4, OnceIdle DEF LoopStatus, AfterStatus, LoopSize, Exit, TypeOK
  <2>5. QED
    BY <1>2, <2>1, <2>2, <2>3, <2>4 DEF WorkerNext
<1>3. ASSUME UNCHANGED vars PROVE AgeInv' /\ OnceInv'
  BY <1>3, OnceIdle DEF vars
<1>4. QED
  BY <1>1, <1>2, <1>3 DEF Next, Finished

(* A task is linked, held or run once, and never run again after that,     *)
(* with any number of workers on one list, also in a program that calls    *)
(* start() while a worker runs.                                            *)
THEOREM RunsOnce == Spec => []ExactlyOnce
<1>1. Init => AgeInv /\ OnceInv
  BY BoundsAssumption DEF Init, AgeInv, OnceInv, Before, NoTask, Has
<1>2. IInv /\ AgeInv /\ OnceInv /\ [Next]_vars => AgeInv' /\ OnceInv'
  BY OnceStep
<1>3. OnceInv => ExactlyOnce
  BY DEF OnceInv, ExactlyOnce
<1>4. QED
  BY <1>1, <1>2, <1>3, Invariance, PTL DEF Spec

-----------------------------------------------------------------------------
(* One worker runs at a time, and only the one that the handle names.      *)
ReapInv ==
  /\ \A w \in Workers : Running(w) => w = handle
  /\ \A w \in reaped : wpc[w] = "exited"
  /\ opc = "creating" => status # "NOT_STARTED" /\ \A w \in Workers : ~Running(w)
  /\ status = "NOT_STARTED" => \A w \in Workers : wpc[w] = "absent"
  /\ ~lockLive => opc = "gone" /\ \A w \in Workers : ~Running(w)

(* Every step keeps the handle the one of the only running worker.         *)
LEMMA ReapStep ==
  ASSUME "start_twice" \notin Program
  PROVE  TypeOK /\ HandleInv /\ ReapInv /\ [Next]_vars => ReapInv'
<1> SUFFICES ASSUME TypeOK, HandleInv, ReapInv, [Next]_vars PROVE ReapInv'
  OBVIOUS
<1> USE DEF sharedVars, ownerVars, heapVars, workerVars, ReapInv, Running
<1>1. ASSUME OwnerNext PROVE ReapInv'
  <2>1. ASSUME NEW kind \in Kinds, NEW argc \in 0..MaxArgs, BeginTask(kind, argc)
        PROVE  ReapInv'
    BY <2>1 DEF BeginTask
  <2>2. ASSUME ConvertArg \/ ConvertFails \/ PushBegin \/ PushEnd PROVE ReapInv'
    BY <2>2 DEF ConvertArg, ConvertFails, PushBegin, PushEnd
  <2>3. ASSUME StartStatus PROVE ReapInv'
    <3>1. \A w \in Workers : wpc[w] \in {"absent", "exited"}
      BY <2>3 DEF StartStatus, MayStart, TypeOK
    <3>2. QED
      BY <2>3, <3>1 DEF StartStatus
  <2>4. ASSUME NEW w \in Workers, StartCreate(w) PROVE ReapInv'
    BY <2>4 DEF StartCreate, TypeOK
  <2>5. ASSUME JoinStatus \/ JoinReturns PROVE ReapInv'
    BY <2>5 DEF JoinStatus, JoinReturns, CanReap, MayJoin, HandleInv
  <2>6. ASSUME ReleaseUnstarted \/ ReleaseBegin \/ ReleaseStatus PROVE ReapInv'
    BY <2>6 DEF ReleaseUnstarted, ReleaseBegin, ReleaseStatus, HandleInv
  <2>7. ASSUME ReleaseJoin PROVE ReapInv'
    BY <2>7 DEF ReleaseJoin, CanReap
  <2>8. QED
    BY <1>1, <2>1, <2>2, <2>3, <2>4, <2>5, <2>6, <2>7 DEF OwnerNext
<1>2. ASSUME NEW w \in Workers, WorkerNext(w) PROVE ReapInv'
  <2>1. Running(w) /\ wpc' = [wpc EXCEPT ![w] = wpc'[w]] /\ wpc'[w] # "absent"
    BY <1>2 DEF WorkerNext, StartupBegin, StartupEnd, LoopStatus, AfterStatus, LoopSize,
       PopBegin, PopEnd, RunTask, DeleteTask, Exit, TypeOK
  <2>2. UNCHANGED <<ownerVars, lockLive>> /\ (status' = "NOT_STARTED" => status = "NOT_STARTED")
    BY <1>2 DEF WorkerNext, StartupBegin, StartupEnd, LoopStatus, LoopSize,
       PopBegin, PopEnd, RunTask, DeleteTask, Exit
  <2>3. status' # "NOT_STARTED" /\ opc # "creating" /\ lockLive
    BY <2>1, <2>2 DEF TypeOK
  <2>4. QED
    BY <2>1, <2>2, <2>3 DEF TypeOK
<1>3. ASSUME UNCHANGED vars PROVE ReapInv'
  BY <1>3 DEF vars
<1>4. QED
  BY <1>1, <1>2, <1>3 DEF Next, Finished

(* The destructor destroys the lock when no worker can take it any more,   *)
(* in every program that does not call start() while a worker runs.        *)
THEOREM DestroysLast ==
  ASSUME "start_twice" \notin Program
  PROVE  Spec => []NoUseAfterDestroy
<1>1. Init => ReapInv
  BY DEF Init, ReapInv, Running
<1>2. IInv /\ ReapInv /\ [Next]_vars => ReapInv'
  BY ReapStep DEF IInv
<1>3. ReapInv => NoUseAfterDestroy
  BY DEF ReapInv, NoUseAfterDestroy
<1>4. QED
  BY <1>1, <1>2, <1>3, Invariance, PTL DEF Spec

-----------------------------------------------------------------------------
(***************************************************************************)
(* PhtThread implements TaskRunner for every number of calls, workers and  *)
(* arguments, in every program that does not call start() while a worker   *)
(* runs: whatever the order of the unlocked loads and stores of the status *)
(* and of the length, join() returns only when every task has been run.    *)
(***************************************************************************)

(* A worker that has left its loop has seen both the end of the thread and *)
(* an empty list, and nobody has added a task since.                       *)
DrainInv ==
  /\ opc = "creating" => status = "STARTING_UP" /\ (handle = 0 \/ handle \in reaped)
  /\ status = "NOT_STARTED" => handle = 0
  /\ opc = "gone" => \A w \in Workers : ~Running(w)
  /\ opc = "joining" => handle \notin reaped
  /\ \A w \in Workers : Running(w) /\ (status = "JOINED" \/ wpc[w] = "loop_size")
       => opc \in {"joining", "d_join"}
  /\ handle # 0 /\ handle \notin reaped /\ wpc[handle] \in {"shutdown", "exited"}
       => list = <<>> /\ opc \in {"joining", "d_join"}

ThreadInv == IInv /\ AgeInv /\ OnceInv /\ ReapInv /\ DrainInv

-----------------------------------------------------------------------------
(* The owner adds nothing once a worker has seen JOINED.                   *)
LEMMA DrainOwner ==
  ASSUME "start_twice" \notin Program, IInv, ReapInv, DrainInv, OwnerNext
  PROVE  DrainInv'
<1> USE DEF sharedVars, heapVars, workerVars, IInv, DrainInv, ReapInv, Running
<1>1. ASSUME NEW kind \in Kinds, NEW argc \in 0..MaxArgs, BeginTask(kind, argc)
      PROVE  DrainInv'
  BY <1>1 DEF BeginTask
<1>2. ASSUME ConvertArg \/ ConvertFails \/ PushBegin \/ PushEnd PROVE DrainInv'
  BY <1>2 DEF ConvertArg, ConvertFails, PushBegin, PushEnd
<1>3. ASSUME StartStatus PROVE DrainInv'
  <2>1. handle = 0 \/ handle \in reaped
    BY <1>3 DEF StartStatus, MayStart
  <2>2. \A w \in Workers : ~Running(w)
    BY <1>3, <2>1 DEF StartStatus, HandleInv, TypeOK
  <2>3. QED
    BY <1>3, <2>1, <2>2 DEF StartStatus
<1>4. ASSUME NEW w \in Workers, StartCreate(w) PROVE DrainInv'
  BY <1>4 DEF StartCreate, TypeOK, Workers
<1>5. ASSUME JoinStatus PROVE DrainInv'
  BY <1>5 DEF JoinStatus, MayJoin
<1>6. ASSUME JoinReturns PROVE DrainInv'
  BY <1>6 DEF JoinReturns, CanReap
<1>7. ASSUME ReleaseUnstarted \/ ReleaseBegin PROVE DrainInv'
  BY <1>7 DEF ReleaseUnstarted, ReleaseBegin
<1>8. ASSUME ReleaseStatus PROVE DrainInv'
  BY <1>8 DEF ReleaseStatus, HandleInv
<1>9. ASSUME ReleaseJoin PROVE DrainInv'
  BY <1>9 DEF ReleaseJoin, CanReap
<1>10. QED
  BY <1>1, <1>2, <1>3, <1>4, <1>5, <1>6, <1>7, <1>8, <1>9 DEF OwnerNext

(* A worker leaves its loop only when it has seen JOINED, then no task.    *)
LEMMA DrainWorker ==
  ASSUME IInv, ReapInv, DrainInv, NEW w \in Workers, WorkerNext(w)
  PROVE  DrainInv'
<1> USE DEF ownerVars, heapVars, IInv, DrainInv, ReapInv, Running, TypeOK
<1>1. w = handle /\ w # 0 /\ handle \notin reaped /\ opc # "gone" /\ opc # "creating"
  <2>1. Running(w) /\ UNCHANGED <<handle, reaped, opc>>
    BY DEF WorkerNext, StartupBegin, StartupEnd, LoopStatus, LoopSize,
       PopBegin, PopEnd, RunTask, DeleteTask, Exit
  <2>2. QED
    BY <2>1, BoundsAssumption DEF Workers
<1>2. ASSUME StartupBegin(w) \/ StartupEnd(w) PROVE DrainInv'
  BY <1>1, <1>2 DEF StartupBegin, StartupEnd
<1>3. ASSUME LoopStatus(w) PROVE DrainInv'
  BY <1>1, <1>3 DEF LoopStatus, AfterStatus, sharedVars
<1>4. ASSUME LoopSize(w) PROVE DrainInv'
  <2>1. opc \in {"joining", "d_join"} /\ \A v \in Workers : wpc[v] # "popping"
    BY <1>1, <1>4 DEF LoopSize
  <2>2. size = Len(list)
    BY <2>1 DEF SizeInv
  <2>3. size = 0 => list = <<>>
    BY <2>2, EmptySeq
  <2>4. QED
    BY <1>1, <1>4, <2>1, <2>3 DEF LoopSize, sharedVars
<1>5. ASSUME PopBegin(w) \/ PopEnd(w) PROVE DrainInv'
  BY <1>1, <1>5 DEF PopBegin, PopEnd
<1>6. ASSUME RunTask(w) \/ DeleteTask(w) \/ Exit(w) PROVE DrainInv'
  BY <1>1, <1>6 DEF RunTask, DeleteTask, Exit, sharedVars
<1>7. QED
  BY <1>2, <1>3, <1>4, <1>5, <1>6 DEF WorkerNext

(* The invariants of the refinement hold unless start() is called twice.   *)
LEMMA ThreadInvariance ==
  ASSUME "start_twice" \notin Program
  PROVE  Spec => []ThreadInv
<1>1. Init => ThreadInv
  BY InitIInv, BoundsAssumption
  DEF ThreadInv, Init, AgeInv, OnceInv, ReapInv, DrainInv, Before, NoTask, Running, Has
<1>2. ThreadInv /\ [Next]_vars => DrainInv'
  <2> SUFFICES ASSUME ThreadInv, [Next]_vars PROVE DrainInv'
    OBVIOUS
  <2>1. ASSUME UNCHANGED vars PROVE DrainInv'
    BY <2>1 DEF vars, ThreadInv, DrainInv, Running
  <2>2. QED
    BY <2>1, DrainOwner, DrainWorker DEF ThreadInv, Next, Finished
<1>3. ThreadInv /\ [Next]_vars => ThreadInv'
  BY <1>2, NextIInv, OnceStep, ReapStep DEF ThreadInv, IInv
<1>4. QED
  BY <1>1, <1>3, PTL DEF Spec

-----------------------------------------------------------------------------
(* The ids of a list of tasks are a sequence, and follow its changes.      *)
LEMMA IdsType ==
  ASSUME NEW l \in Seq(Tasks)
  PROVE  IdsOf(l) \in Seq(Calls) /\ Len(IdsOf(l)) = Len(l)
<1>1. \A i \in 1..Len(l) : l[i].id \in Calls
  <2>1. \A i \in 1..Len(l) : l[i] \in Tasks
    BY ElementOfSeq
  <2>2. QED
    BY <2>1 DEF Tasks
<1>2. Len(l) \in Nat
  BY LenProperties
<1>3. IdsOf(l) \in [1..Len(l) -> Calls]
  BY <1>1 DEF IdsOf
<1>4. QED
  BY <1>2, <1>3

(* Numbers of a list with one more task.                                   *)
LEMMA IdsAppend ==
  ASSUME NEW l \in Seq(Tasks), NEW task \in Tasks
  PROVE  IdsOf(Append(l, task)) = Append(IdsOf(l), task.id)
<1>1. Append(l, task) \in Seq(Tasks) /\ task.id \in Calls
  BY DEF Tasks
<1>2. IdsOf(l) \in Seq(Calls) /\ Len(IdsOf(l)) = Len(l)
  BY IdsType
<1>3. Len(Append(l, task)) = Len(l) + 1
  BY AppendProperties
<1>4. IdsOf(Append(l, task)) \in Seq(Calls) /\ Len(IdsOf(Append(l, task))) = Len(l) + 1
  BY <1>1, <1>3, IdsType
<1>5. Append(IdsOf(l), task.id) \in Seq(Calls) /\ Len(Append(IdsOf(l), task.id)) = Len(l) + 1
  BY <1>1, <1>2, AppendProperties
<1>6. \A i \in 1..Len(l) + 1 : IdsOf(Append(l, task))[i] = Append(IdsOf(l), task.id)[i]
  BY <1>1, IdsType DEF IdsOf
<1>7. QED
  BY <1>4, <1>5, <1>6, SeqEqual

(* Numbers of a list, from its first task on.                              *)
LEMMA IdsHead ==
  ASSUME NEW l \in Seq(Tasks), l # <<>>
  PROVE  <<Head(l).id>> \o IdsOf(Tail(l)) = IdsOf(l)
<1>1. Head(l) \in Tasks /\ Head(l).id \in Calls /\ Tail(l) \in Seq(Tasks)
      /\ Len(Tail(l)) = Len(l) - 1 /\ Len(l) \in Nat \ {0}
  <2>1. Len(l) \in Nat \ {0}
    BY EmptySeq
  <2>2. Head(l) \in Tasks /\ Tail(l) \in Seq(Tasks) /\ Len(Tail(l)) = Len(l) - 1
    BY HeadTailProperties
  <2>3. QED
    BY <2>1, <2>2 DEF Tasks
<1>2. IdsOf(Tail(l)) \in Seq(Calls) /\ Len(IdsOf(Tail(l))) = Len(l) - 1
  BY <1>1, IdsType
<1>3. <<Head(l).id>> \in Seq(Calls) /\ Len(<<Head(l).id>>) = 1
  BY <1>1
<1>4. <<Head(l).id>> \o IdsOf(Tail(l)) \in Seq(Calls)
      /\ Len(<<Head(l).id>> \o IdsOf(Tail(l))) = Len(l)
  <2>1. \A s, t \in Seq(Calls) : s \o t \in Seq(Calls) /\ Len(s \o t) = Len(s) + Len(t)
    BY ConcatProperties
  <2>2. /\ <<Head(l).id>> \o IdsOf(Tail(l)) \in Seq(Calls)
        /\ Len(<<Head(l).id>> \o IdsOf(Tail(l))) = Len(<<Head(l).id>>) + Len(IdsOf(Tail(l)))
    BY ONLY <2>1, <1>2, <1>3
  <2>3. 1 + (Len(l) - 1) = Len(l)
    BY <1>1
  <2>4. QED
    BY <2>2, <2>3, <1>2, <1>3, Zenon
<1>5. \A i \in 1..Len(l) : (<<Head(l).id>> \o IdsOf(Tail(l)))[i] = IdsOf(l)[i]
  BY <1>1, <1>2, <1>3 DEF IdsOf
<1>6. QED
  BY <1>4, <1>5, IdsType, SeqEqual

(* What is in neither list is not in both together.                        *)
LEMMA NotInConcat ==
  ASSUME NEW S, NEW s \in Seq(S), NEW t \in Seq(S), NEW c,
         \A i \in 1..Len(s) : s[i] # c,
         \A i \in 1..Len(t) : t[i] # c
  PROVE  \A i \in 1..Len(s \o t) : (s \o t)[i] # c
<1> TAKE i \in 1..Len(s \o t)
<1>1. /\ Len(s) \in Nat /\ Len(t) \in Nat /\ Len(s \o t) = Len(s) + Len(t)
      /\ (s \o t)[i] = IF i <= Len(s) THEN s[i] ELSE t[i - Len(s)]
  BY ConcatProperties, LenProperties
<1>2. CASE i <= Len(s)
  BY <1>1, <1>2
<1>3. CASE ~(i <= Len(s))
  <2>1. i - Len(s) \in 1..Len(t)
    BY <1>1, <1>3
  <2>2. QED
    BY <1>1, <1>3, <2>1
<1>4. QED
  BY <1>2, <1>3

(* Only one worker has a task that is still to be run.                     *)
HandFact ==
  /\ \A w \in Workers : WorkerHas(w) => InHandIds = <<wtask[w].id>>
  /\ (\A w \in Workers : ~WorkerHas(w)) => InHandIds = <<>>

(* At most one worker has a task.                                          *)
LEMMA OneHand == ThreadInv => HandFact
<1> SUFFICES ASSUME ThreadInv PROVE HandFact
  OBVIOUS
<1>1. \A v, w \in Workers : WorkerHas(v) /\ WorkerHas(w) => v = w
  BY DEF ThreadInv, ReapInv, WorkerHas, Running
<1>2. ASSUME NEW w \in Workers, WorkerHas(w)
      PROVE  (CHOOSE v \in Workers : WorkerHas(v)) = w
  BY <1>1, <1>2
<1>3. QED
  BY <1>2 DEF HandFact, InHandIds

(* So it is after a step.                                                  *)
LEMMA OneHandNext == ThreadInv' => HandFact'
  BY OneHand, PTL

(* What is in a worker's hand has the number of a call.                    *)
LEMMA HandType ==
  ASSUME ThreadInv
  PROVE  InHandIds \in Seq(Calls)
<1>1. CASE \A w \in Workers : ~WorkerHas(w)
  <2>1. InHandIds = <<>>
    BY <1>1, OneHand DEF HandFact
  <2>2. <<>> \in Seq(Calls)
    BY EmptySeq
  <2>3. QED
    BY <2>1, <2>2
<1>2. ASSUME NEW w \in Workers, WorkerHas(w) PROVE InHandIds \in Seq(Calls)
  <2>1. wtask[w] \in Tasks
    BY <1>2 DEF WorkerHas, ThreadInv, IInv, HandInv
  <2>2. wtask[w].id \in Calls
    BY <2>1 DEF Tasks
  <2>3. InHandIds = <<wtask[w].id>>
    BY <1>2, OneHand DEF HandFact
  <2>4. QED
    BY <2>2, <2>3
<1>3. QED
  BY <1>1, <1>2

(* What is pending does not change when no task is linked, taken or run.   *)
LEMMA SamePending ==
  ASSUME HandFact, HandFact', list' = list,
         \A w \in Workers : /\ WorkerHas(w)' <=> WorkerHas(w)
                            /\ WorkerHas(w) => wtask'[w] = wtask[w]
  PROVE  Pending' = Pending
<1>1. InHandIds' = InHandIds
  <2>1. CASE \E w \in Workers : WorkerHas(w)
    BY <2>1 DEF HandFact
  <2>2. CASE \A w \in Workers : ~WorkerHas(w)
    BY <2>2 DEF HandFact
  <2>3. QED
    BY <2>1, <2>2
<1>2. QED
  BY <1>1 DEF Pending, IdsOf

-----------------------------------------------------------------------------
(* The owner's steps add a task, start or end a run, or show nothing.      *)
LEMMA RunnerOwner ==
  ASSUME "start_twice" \notin Program, ThreadInv, ThreadInv', OwnerNext
  PROVE  Runner!Next \/ UNCHANGED <<Pending, executed, RunnerPhase>>
<1> USE DEF sharedVars, heapVars, workerVars
<1>1. HandFact /\ HandFact'
  BY OneHand, OneHandNext
<1>2. executed' = executed /\ \A w \in Workers : WorkerHas(w)' <=> WorkerHas(w)
  BY DEF OwnerNext, BeginTask, ConvertArg, ConvertFails, PushBegin, PushEnd, StartStatus,
     StartCreate, JoinStatus, JoinReturns, ReleaseUnstarted, ReleaseBegin, ReleaseStatus,
     ReleaseJoin, WorkerHas, ThreadInv, IInv, TypeOK
<1>3. wtask' = wtask
  BY DEF OwnerNext, BeginTask, ConvertArg, ConvertFails, PushBegin, PushEnd, StartStatus,
     StartCreate, JoinStatus, JoinReturns, ReleaseUnstarted, ReleaseBegin, ReleaseStatus,
     ReleaseJoin
<1>4. list' = list => Pending' = Pending
  BY <1>1, <1>2, <1>3, SamePending
<1>5. ASSUME \/ \E kind \in Kinds, argc \in 0..MaxArgs : BeginTask(kind, argc)
             \/ ConvertArg \/ ConvertFails \/ PushEnd \/ StartStatus
      PROVE  UNCHANGED <<Pending, executed, RunnerPhase>>
  BY <1>2, <1>4, <1>5
  DEF BeginTask, ConvertArg, ConvertFails, PushEnd, StartStatus, RunnerPhase
<1>6. ASSUME PushBegin PROVE Runner!Add(building.id)
  <2> USE <1>6 DEF PushBegin
  <2>1. list \in Seq(Tasks) /\ building \in Tasks /\ building.id = calls
    BY DEF ThreadInv, IInv, TypeOK, HandInv, AgeInv
  <2>2. Pending' = Append(Pending, building.id)
    <3>1. InHandIds' = InHandIds
      BY <1>1, <1>2, <1>3 DEF HandFact
    <3>2. InHandIds \in Seq(Calls)
      BY HandType
    <3>3. IdsOf(list) \in Seq(Calls) /\ building.id \in Calls
      BY <2>1, IdsType DEF Tasks
    <3>4. IdsOf(list') = Append(IdsOf(list), building.id)
      BY <2>1, IdsAppend
    <3>5. \A s, t \in Seq(Calls), c \in Calls : s \o Append(t, c) = Append(s \o t, c)
      OBVIOUS
    <3>6. QED
      BY <3>1, <3>2, <3>3, <3>4, <3>5 DEF Pending
  <2>3. building.id \notin Runner!Ids(Pending) \cup Runner!Ids(executed)
    <3>1. /\ \A j \in 1..Len(executed) : executed[j] # calls
          /\ \A i \in 1..Len(list) : list[i].id # calls
          /\ \A w \in Workers : wtask[w].id # calls
      BY IdsAreInt DEF ThreadInv, IInv, AgeInv, Before
    <3>2. InHandIds = <<>> \/ \E w \in Workers : InHandIds = <<wtask[w].id>>
      BY <1>1 DEF HandFact
    <3>3. \A i \in 1..Len(InHandIds) : InHandIds[i] # calls
      BY <3>1, <3>2
    <3>4. \A i \in 1..Len(IdsOf(list)) : IdsOf(list)[i] # calls
      BY <2>1, <3>1, IdsType DEF IdsOf
    <3>5. InHandIds \in Seq(Calls) /\ IdsOf(list) \in Seq(Calls)
      BY <2>1, HandType, IdsType
    <3>6. \A i \in 1..Len(Pending) : Pending[i] # calls
      BY <3>3, <3>4, <3>5, NotInConcat DEF Pending
    <3>7. QED
      BY <2>1, <3>1, <3>6 DEF Runner!Ids
  <2>4. RunnerPhase \in {"idle", "running"} /\ RunnerPhase' = RunnerPhase
    BY DEF RunnerPhase
  <2>5. QED
    BY <1>2, <2>2, <2>3, <2>4 DEF Runner!Add
<1>7. ASSUME NEW w \in Workers, StartCreate(w) PROVE Runner!Start
  <2>1. RunnerPhase = "idle"
    BY <1>7 DEF StartCreate, RunnerPhase, ThreadInv, DrainInv
  <2>2. RunnerPhase' = "running"
    BY <1>7, BoundsAssumption DEF StartCreate, RunnerPhase, ThreadInv, ReapInv, Workers
  <2>3. QED
    BY <1>2, <1>4, <1>7, <2>1, <2>2 DEF StartCreate, Runner!Start
<1>8. ASSUME JoinStatus PROVE Runner!AskJoin
  BY <1>2, <1>4, <1>8 DEF JoinStatus, MayJoin, RunnerPhase, Runner!AskJoin
<1>9. ASSUME ReleaseBegin PROVE Runner!AskJoin \/ UNCHANGED <<Pending, executed, RunnerPhase>>
  <2>1. handle # 0
    BY <1>9 DEF ReleaseBegin, ThreadInv, IInv, HandleInv
  <2>2. QED
    BY <1>2, <1>4, <1>9, <2>1 DEF ReleaseBegin, RunnerPhase, Runner!AskJoin
<1>10. ASSUME ReleaseStatus PROVE UNCHANGED <<Pending, executed, RunnerPhase>>
  BY <1>2, <1>4, <1>10 DEF ReleaseStatus, RunnerPhase
<1>11. ASSUME ReleaseUnstarted PROVE Runner!Release
  BY <1>2, <1>4, <1>11 DEF ReleaseUnstarted, RunnerPhase, Runner!Release, ThreadInv, DrainInv
<1>12. ASSUME JoinReturns \/ ReleaseJoin PROVE Runner!JoinReturns \/ Runner!Release
  <2>1. /\ opc \in {"joining", "d_join"} /\ handle \in Workers /\ wpc[handle] = "exited"
        /\ \A v \in Workers : ~Running(v)
    BY <1>12 DEF JoinReturns, ReleaseJoin, CanReap, ThreadInv, IInv, HandleInv, TypeOK,
       ReapInv, Workers, Running
  <2>2. ASSUME handle \notin reaped PROVE Pending = <<>>
    <3>1. list = <<>>
      BY <2>1, <2>2 DEF ThreadInv, DrainInv, Workers
    <3>2. InHandIds = <<>>
      BY <1>1, <2>1 DEF HandFact, WorkerHas, Running
    <3>3. QED
      BY <3>1, <3>2 DEF Pending, IdsOf
  <2>3. list' = list /\ reaped' = reaped \cup {handle} /\ handle' = handle
        /\ opc' \in {"idle", "gone"}
    BY <1>12 DEF JoinReturns, ReleaseJoin
  <2>4. CASE handle \notin reaped
    BY <1>2, <1>4, <2>1, <2>2, <2>3, <2>4 DEF RunnerPhase, Runner!JoinReturns
  <2>5. CASE handle \in reaped
    <3>1. ReleaseJoin
      BY <1>12, <2>5 DEF JoinReturns, ThreadInv, DrainInv
    <3>2. QED
      BY <1>2, <1>4, <2>5, <3>1 DEF ReleaseJoin, RunnerPhase, Runner!Release
  <2>6. QED
    BY <2>4, <2>5
<1>13. QED
  <2>1. ASSUME NEW task \in Calls, Runner!Add(task) PROVE Runner!Next
    BY <2>1 DEF Runner!Next
  <2>2. Runner!Start \/ Runner!AskJoin \/ Runner!JoinReturns \/ Runner!Release => Runner!Next
    BY DEF Runner!Next
  <2>3. PushBegin => building.id \in Calls
    BY DEF PushBegin, ThreadInv, IInv, HandInv, Tasks
  <2>4. QED
    BY <1>5, <1>6, <1>7, <1>8, <1>9, <1>10, <1>11, <1>12, <2>1, <2>2, <2>3 DEF OwnerNext

(* The worker's step that runs a task is the runner's; the others show     *)
(* nothing: a task that a worker has unlinked is still pending.            *)
LEMMA RunnerWorker ==
  ASSUME ThreadInv, ThreadInv', NEW w \in Workers, WorkerNext(w)
  PROVE  Runner!Run \/ UNCHANGED <<Pending, executed, RunnerPhase>>
<1> USE DEF ownerVars, heapVars
<1>1. HandFact /\ HandFact' /\ TypeOK
  BY OneHand, OneHandNext DEF ThreadInv, IInv
<1>2. Running(w) /\ UNCHANGED <<handle, reaped, opc>>
  BY DEF WorkerNext, StartupBegin, StartupEnd, LoopStatus, LoopSize,
     PopBegin, PopEnd, RunTask, DeleteTask, Exit, Running
<1>3. RunnerPhase' = RunnerPhase
  BY <1>2 DEF RunnerPhase
<1>4. \A v \in Workers : v # w => ~WorkerHas(v) /\ ~WorkerHas(v)'
  <2>1. \A v \in Workers : v # w => ~Running(v) /\ wpc'[v] = wpc[v]
    BY <1>1, <1>2 DEF ThreadInv, ReapInv, TypeOK, WorkerNext, StartupBegin, StartupEnd,
       LoopStatus, LoopSize, PopBegin, PopEnd, RunTask, DeleteTask, Exit
  <2>2. QED
    BY <2>1 DEF Running, WorkerHas
<1>5. ASSUME list' = list, WorkerHas(w)' <=> WorkerHas(w),
             WorkerHas(w) => wtask'[w] = wtask[w]
      PROVE  Pending' = Pending
  BY <1>1, <1>4, <1>5, SamePending
<1>6. ASSUME \/ StartupBegin(w) \/ StartupEnd(w) \/ LoopStatus(w) \/ LoopSize(w)
             \/ PopBegin(w) \/ DeleteTask(w) \/ Exit(w)
      PROVE  UNCHANGED <<Pending, executed>>
  <2>1. executed' = executed /\ list' = list
    BY <1>6 DEF StartupBegin, StartupEnd, LoopStatus, LoopSize, PopBegin, DeleteTask, Exit,
       sharedVars
  <2>2. (WorkerHas(w)' <=> WorkerHas(w)) /\ (WorkerHas(w) => wtask'[w] = wtask[w])
    BY <1>1, <1>6 DEF StartupBegin, StartupEnd, LoopStatus, AfterStatus, LoopSize, PopBegin,
       DeleteTask, Exit, WorkerHas, TypeOK
  <2>3. QED
    BY <1>5, <2>1, <2>2
<1>7. ASSUME PopEnd(w) PROVE UNCHANGED <<Pending, executed>>
  <2> USE <1>7 DEF PopEnd
  <2>1. ~WorkerHas(w) /\ InHandIds = <<>>
    BY <1>1, <1>4 DEF WorkerHas, HandFact
  <2>2. list \in Seq(Tasks) /\ IdsOf(list) \in Seq(Calls)
    BY <1>1, IdsType DEF TypeOK
  <2>3. Pending = IdsOf(list)
    BY <2>1, <2>2 DEF Pending
  <2>4. CASE wtask[w] = NoTask
    <3>1. list' = list /\ ~WorkerHas(w)'
      BY <1>1, <2>4 DEF WorkerHas, TypeOK
    <3>2. QED
      BY <1>5, <2>1, <3>1
  <2>5. CASE wtask[w] # NoTask
    <3>1. list # <<>> /\ wtask[w] = Head(list)
      BY <2>5 DEF ThreadInv, IInv, SizeInv, Popped
    <3>2. wtask'[w] = Head(list) /\ list' = Tail(list) /\ wpc'[w] = "run"
      BY <1>1, <2>5, <3>1 DEF Rest, TypeOK
    <3>3. InHandIds' = <<Head(list).id>>
      BY <1>1, <3>2 DEF HandFact, WorkerHas
    <3>4. QED
      BY <2>2, <2>3, <3>1, <3>2, <3>3, IdsHead DEF Pending
  <2>6. QED
    BY <2>4, <2>5
<1>8. ASSUME RunTask(w) PROVE Runner!Run
  <2> USE <1>8 DEF RunTask, sharedVars
  <2>1. RunnerPhase \in {"running", "joining"}
    BY <1>2, BoundsAssumption
    DEF RunnerPhase, ThreadInv, ReapInv, DrainInv, Running, Workers
  <2>2. wtask[w] \in Tasks /\ wtask[w] # NoTask /\ wtask[w].id \in Calls
    BY NoTaskIsNone DEF ThreadInv, IInv, HandInv, Tasks
  <2>3. InHandIds = <<wtask[w].id>>
    BY <1>1, <2>2 DEF HandFact, WorkerHas
  <2>4. InHandIds' = <<>>
    <3>1. ~WorkerHas(w)'
      BY <1>1 DEF WorkerHas, TypeOK
    <3>2. QED
      BY <1>1, <1>4, <3>1 DEF HandFact
  <2>5. IdsOf(list) \in Seq(Calls) /\ IdsOf(list') = IdsOf(list)
    BY <1>1, IdsType DEF TypeOK, IdsOf
  <2>6. \A c \in Calls, s \in Seq(Calls) :
          /\ <<c>> \o s # <<>> /\ Head(<<c>> \o s) = c /\ Tail(<<c>> \o s) = s /\ <<>> \o s = s
    OBVIOUS
  <2>7. Pending # <<>> /\ Head(Pending) = wtask[w].id /\ Pending' = Tail(Pending)
    BY <2>2, <2>3, <2>4, <2>5, <2>6 DEF Pending
  <2>8. QED
    BY <1>3, <2>1, <2>7 DEF Runner!Run
<1>9. QED
  BY <1>3, <1>6, <1>7, <1>8 DEF WorkerNext

(* Whatever the interleaving, the tasks of a thread are run in the order   *)
(* they were added, and join() and the destructor return only when all of  *)
(* them have been run: PhtThread implements TaskRunner.                    *)
THEOREM ImplementsRunner ==
  ASSUME "start_twice" \notin Program
  PROVE  Spec => RunnerSafe
<1>1. Init => Runner!Init
  <2> SUFFICES ASSUME Init PROVE Runner!Init
    OBVIOUS
  <2>1. InHandIds = <<>>
    BY DEF Init, InHandIds, WorkerHas
  <2>2. Pending = <<>>
    BY <2>1 DEF Init, Pending, IdsOf
  <2>3. QED
    BY <2>2 DEF Init, RunnerPhase, Runner!Init
<1>2. ThreadInv /\ ThreadInv' /\ [Next]_vars => [Runner!Next]_(Runner!vars)
  <2> SUFFICES ASSUME ThreadInv, ThreadInv', [Next]_vars
               PROVE  Runner!Next \/ UNCHANGED <<Pending, executed, RunnerPhase>>
    BY DEF Runner!vars
  <2>1. ASSUME NEW w \in Workers, WorkerNext(w)
        PROVE  Runner!Next \/ UNCHANGED <<Pending, executed, RunnerPhase>>
    BY <2>1, RunnerWorker DEF Runner!Next
  <2>2. ASSUME UNCHANGED vars PROVE UNCHANGED <<Pending, executed, RunnerPhase>>
    <3>1. \A w \in Workers : (WorkerHas(w)' <=> WorkerHas(w)) /\ wtask' = wtask
      BY <2>2 DEF vars, WorkerHas
    <3>2. Pending' = Pending
      BY <2>2, <3>1, OneHand, OneHandNext, SamePending DEF vars
    <3>3. QED
      BY <2>2, <3>2 DEF vars, RunnerPhase
  <2>3. QED
    BY <2>1, <2>2, RunnerOwner DEF Next, Finished
<1>3. QED
  BY <1>1, <1>2, ThreadInvariance, PTL DEF Spec, RunnerSafe, Runner!SafeSpec

-----------------------------------------------------------------------------
(***************************************************************************)
(* The memory of PhtThread's tasks and the references of their arguments,  *)
(* for every number of calls, workers and arguments and every program.     *)
(***************************************************************************)

(* An owner builds a task in an add...Task() call only, and a worker has   *)
(* one from pht_queue_pop to task_delete only.                             *)
EmptyInv ==
  /\ opc # "convert" => building = NoTask /\ converted = 0
  /\ opc = "convert" => converted <= building.argc
  /\ \A w \in Workers : wpc[w] \notin {"popping", "run", "delete"} => wtask[w] = NoTask

(* RefsExact, with the places of a task told apart.                        *)
Counted(a) ==
  \/ a[1] = building.id /\ a[2] <= converted
  \/ \E i \in 1..Len(list) : a \in ArgsOf(list[i])
  \/ \E w \in Workers : a \in ArgsOf(wtask[w])
RefsInv == \A a \in Args : refs[a] = IF Counted(a) THEN 1 ELSE 0

MInv == IInv /\ AgeInv /\ OnceInv /\ EmptyInv

(* The arguments of a task are the pairs with its number.                  *)
LEMMA ArgsOfTask ==
  /\ \A a \in Args, task \in Tasks : a \in ArgsOf(task) <=> a[1] = task.id /\ a[2] <= task.argc
  /\ \A a : a \notin ArgsOf(NoTask)
  /\ \A a \in Args : a = <<a[1], a[2]>> /\ a[1] \in Nat /\ a[1] # 0 /\ a[2] \in Nat /\ a[2] # 0
<1> USE BoundsAssumption
<1>1. \A a \in Args : a = <<a[1], a[2]>> /\ a[1] \in Nat /\ a[1] # 0 /\ a[2] \in Nat /\ a[2] # 0
  BY DEF Args, Calls
<1>2. \A a : a \notin ArgsOf(NoTask)
  BY DEF ArgsOf, NoTask
<1>3. ASSUME NEW a \in Args, NEW task \in Tasks
      PROVE  a \in ArgsOf(task) <=> a[1] = task.id /\ a[2] <= task.argc
  <2>1. task.argc \in Nat  BY DEF Tasks
  <2>2. a[2] <= task.argc <=> a[2] \in 1..task.argc  BY <1>1, <2>1
  <2>3. a \in ArgsOf(task) <=> \E i \in 1..task.argc : a = <<task.id, i>>  BY DEF ArgsOf
  <2> QED  BY <1>1, <2>2, <2>3
<1> QED  BY <1>1, <1>2, <1>3

(* Every step leaves building and the hands empty where they are not used. *)
LEMMA EmptyStep == IInv /\ EmptyInv /\ [Next]_vars => EmptyInv'
<1> SUFFICES ASSUME IInv, EmptyInv, [Next]_vars PROVE EmptyInv'
  OBVIOUS
<1> USE BoundsAssumption DEF IInv, EmptyInv, sharedVars, ownerVars, heapVars, workerVars
<1>1. ASSUME OwnerNext PROVE EmptyInv'
  <2>1. ASSUME NEW kind \in Kinds, NEW argc \in 0..MaxArgs, BeginTask(kind, argc) PROVE EmptyInv'
    BY <2>1 DEF BeginTask
  <2>2. CASE ConvertArg
    BY <2>2 DEF ConvertArg, HandInv, TypeOK, Tasks
  <2>3. CASE ConvertFails \/ PushBegin \/ PushEnd
    BY <2>3 DEF ConvertFails, PushBegin, PushEnd
  <2>4. ASSUME NEW w \in Workers, StartCreate(w) PROVE EmptyInv'
    BY <2>4 DEF StartCreate, TypeOK
  <2>5. CASE StartStatus \/ JoinStatus \/ JoinReturns \/ ReleaseUnstarted \/ ReleaseBegin
             \/ ReleaseStatus \/ ReleaseJoin
    BY <2>5 DEF StartStatus, JoinStatus, JoinReturns, ReleaseUnstarted, ReleaseBegin,
       ReleaseStatus, ReleaseJoin
  <2> QED  BY <1>1, <2>1, <2>2, <2>3, <2>4, <2>5 DEF OwnerNext
<1>2. ASSUME NEW w \in Workers, WorkerNext(w) PROVE EmptyInv'
  <2>1. CASE PopBegin(w) \/ PopEnd(w)
    BY <2>1 DEF PopBegin, PopEnd, TypeOK
  <2>2. CASE RunTask(w) \/ DeleteTask(w)
    BY <2>2 DEF RunTask, DeleteTask, TypeOK
  <2>3. CASE StartupBegin(w) \/ StartupEnd(w)
    BY <2>3 DEF StartupBegin, StartupEnd, TypeOK
  <2>4. CASE LoopStatus(w) \/ LoopSize(w) \/ Exit(w)
    BY <2>4 DEF LoopStatus, AfterStatus, LoopSize, Exit, TypeOK
  <2> QED  BY <1>2, <2>1, <2>2, <2>3, <2>4 DEF WorkerNext
<1>3. CASE UNCHANGED vars  BY <1>3 DEF vars
<1> QED  BY <1>1, <1>2, <1>3 DEF Next, Finished

-----------------------------------------------------------------------------
(* The number of the task being built is nowhere else.                     *)
LEMMA BuildingAlone ==
  ASSUME MInv, opc = "convert"
  PROVE  /\ building \in Tasks /\ building.id = calls
         /\ \A i \in 1..Len(list) : list[i].id # calls
         /\ \A w \in Workers : wtask[w].id # calls
<1> USE DEF MInv, IInv
<1>1. building \in Tasks /\ building.id = calls  BY DEF HandInv, AgeInv
<1>2. \A n \in Nat : Before(n) => n # calls
  BY IdsAreInt DEF Before
<1> QED  BY <1>1, <1>2, IdsAreInt DEF AgeInv

(* A task that a worker has is linked if the worker is still popping it,   *)
(* and has another number than every other task if not.                    *)
LEMMA HandAlone ==
  ASSUME MInv, NEW w \in Workers
  PROVE  /\ wpc[w] = "popping" /\ wtask[w] # NoTask =>
              1 \in 1..Len(list) /\ wtask[w] = list[1]
         /\ Has(w) => /\ wtask[w] \in Tasks
                      /\ \A i \in 1..Len(list) : list[i].id # wtask[w].id
                      /\ \A v \in Workers : v # w => wtask[v].id # wtask[w].id
                      /\ opc = "convert" => building.id # wtask[w].id
<1> USE DEF MInv, IInv
<1>1. \A v \in Workers : wpc[v] = "popping" /\ wtask[v] # NoTask =>
        1 \in 1..Len(list) /\ wtask[v] = list[1]
  BY IdsAreInt DEF SizeInv, Popped, TypeOK
<1>2. ASSUME Has(w)
      PROVE  /\ wtask[w] \in Tasks
             /\ \A i \in 1..Len(list) : list[i].id # wtask[w].id
             /\ \A v \in Workers : v # w => wtask[v].id # wtask[w].id
             /\ opc = "convert" => building.id # wtask[w].id
  <2>1. wtask[w] \in Tasks /\ wtask[w].id # 0  BY <1>2, IdsAreInt DEF HandInv, Has
  <2>2. \A i \in 1..Len(list) : list[i].id # wtask[w].id  BY <1>2 DEF OnceInv
  <2>3. ASSUME NEW v \in Workers, v # w PROVE wtask[v].id # wtask[w].id
    <3>1. CASE Has(v)  BY <1>2, <2>3, <3>1 DEF OnceInv
    <3>2. CASE wtask[v] = NoTask  BY <2>1, <3>2 DEF NoTask
    <3>3. CASE wpc[v] = "popping" /\ wtask[v] # NoTask  BY <1>1, <2>2, <3>3
    <3> QED  BY <3>1, <3>2, <3>3 DEF EmptyInv, Has
  <2>4. opc = "convert" => building.id # wtask[w].id  BY BuildingAlone
  <2> QED  BY <2>1, <2>2, <2>3, <2>4
<1> QED  BY <1>1, <1>2

(* The calls of add...Task() keep the references exact.                    *)
LEMMA RefsAdd ==
  ASSUME MInv, RefsInv,
         \/ \E kind \in Kinds, argc \in 0..MaxArgs : BeginTask(kind, argc)
         \/ ConvertArg \/ ConvertFails \/ PushBegin
  PROVE  RefsInv'
<1> USE DEF MInv, IInv, RefsInv, workerVars, sharedVars
<1>a. \A i \in 1..Len(list) : list[i] \in Tasks  BY IdsAreInt
<1>b. \A w \in Workers : wtask[w] \in Tasks \/ wtask[w] = NoTask  BY DEF TypeOK
<1>1. ASSUME NEW kind \in Kinds, NEW argc \in 0..MaxArgs, BeginTask(kind, argc) PROVE RefsInv'
  <2>1. building.id = 0 /\ converted' = 0 /\ UNCHANGED <<list, wtask, refs>>
    BY <1>1 DEF BeginTask, EmptyInv, NoTask
  <2>2. \A a \in Args : Counted(a)' = Counted(a)
    BY <2>1, ArgsOfTask DEF Counted
  <2> QED  BY <2>1, <2>2
<1>2. CASE ConvertArg
  <2>1. opc = "convert" /\ UNCHANGED <<building, list, wtask>> /\ converted' = converted + 1
    BY <1>2 DEF ConvertArg
  <2>2. converted \in Nat  BY BoundsAssumption DEF TypeOK
  <2>3. ASSUME NEW a \in Args, a = <<building.id, converted + 1>> PROVE refs'[a] = 1 /\ Counted(a)'
    <3>1. ~Counted(a)
      BY <1>a, <1>b, <2>1, <2>2, <2>3, BuildingAlone, ArgsOfTask DEF Counted
    <3>2. refs[a] = 0 /\ refs'[a] = refs[a] + 1
      BY <1>2, <2>3, <3>1 DEF ConvertArg, TypeOK
    <3>3. Counted(a)'
      <4>1. a[1] = building'.id /\ a[2] <= converted'  BY <2>1, <2>2, <2>3
      <4> QED  BY <4>1 DEF Counted
    <3> QED  BY <3>2, <3>3
  <2>4. ASSUME NEW a \in Args, a # <<building.id, converted + 1>>
        PROVE  refs'[a] = refs[a] /\ Counted(a)' = Counted(a)
    <3>1. refs'[a] = refs[a]  BY <1>2, <2>4 DEF ConvertArg, TypeOK
    <3>2. a[1] = building.id => (a[2] <= converted + 1 <=> a[2] <= converted)
      BY <2>2, <2>4, ArgsOfTask
    <3>3. Counted(a)' = Counted(a)  BY <2>1, <3>2 DEF Counted
    <3> QED  BY <3>1, <3>3
  <2> QED  BY <2>3, <2>4
<1>3. CASE ConvertFails
  <2>1. opc = "convert" /\ UNCHANGED <<list, wtask>> /\ building' = NoTask /\ refs' = DropArgs(ConvertedArgs)
    BY <1>3 DEF ConvertFails
  <2>2. converted \in Nat  BY BoundsAssumption DEF TypeOK
  <2>3. \A a \in Args : a \in ConvertedArgs <=> a[1] = building.id /\ a[2] <= converted
    <3> SUFFICES ASSUME NEW a \in Args
                 PROVE  a \in ConvertedArgs <=> a[1] = building.id /\ a[2] <= converted
      OBVIOUS
    <3>1. a[2] <= converted <=> a[2] \in 1..converted  BY <2>2, ArgsOfTask
    <3>2. a \in ConvertedArgs <=> \E i \in 1..converted : a = <<building.id, i>>
      BY DEF ConvertedArgs
    <3> QED  BY <3>1, <3>2, ArgsOfTask
  <2>4. ASSUME NEW a \in Args PROVE refs'[a] = IF Counted(a)' THEN 1 ELSE 0
    <3>1. CASE a \in ConvertedArgs
      <4>1. refs[a] = 1 /\ refs'[a] = refs[a] - 1
        BY <2>1, <2>3, <3>1 DEF Counted, DropArgs
      <4>2. ~Counted(a)'
        <5>1. a[1] = calls  BY <2>1, <2>3, <3>1, BuildingAlone
        <5>2. building'.id = 0  BY <2>1 DEF NoTask
        <5> QED  BY <1>a, <1>b, <2>1, <5>1, <5>2, BuildingAlone, ArgsOfTask DEF Counted
      <4> QED  BY <4>1, <4>2
    <3>2. CASE a \notin ConvertedArgs
      <4>1. refs'[a] = refs[a]  BY <2>1, <3>2 DEF DropArgs
      <4>2. building'.id = 0  BY <2>1 DEF NoTask
      <4>3. Counted(a)' = Counted(a)
        BY <2>1, <2>3, <3>2, <4>2, ArgsOfTask DEF Counted
      <4> QED  BY <4>1, <4>3
    <3> QED  BY <3>1, <3>2
  <2> QED  BY <2>4
<1>4. CASE PushBegin
  <2>1. /\ opc = "convert" /\ converted = building.argc /\ UNCHANGED <<wtask, refs>>
        /\ list' = Append(list, building) /\ building' = NoTask
    BY <1>4 DEF PushBegin, heapVars
  <2>2. building \in Tasks  BY <2>1, BuildingAlone
  <2>3. /\ Len(list') = Len(list) + 1
        /\ \A i \in 1..Len(list) : list'[i] = list[i]
        /\ list'[Len(list) + 1] = building
    BY <2>1, <2>2 DEF TypeOK
  <2>4. ASSUME NEW a \in Args PROVE Counted(a)' = Counted(a)
    <3>1. a[1] = building.id /\ a[2] <= converted <=> a \in ArgsOf(building)
      BY <2>1, <2>2, ArgsOfTask
    <3>2. ~(a[1] = building'.id)  BY <2>1, ArgsOfTask DEF NoTask
    <3>3. (\E i \in 1..Len(list') : a \in ArgsOf(list'[i]))
            <=> (\E i \in 1..Len(list) : a \in ArgsOf(list[i])) \/ a \in ArgsOf(building)
      <4>1. \A i \in 1..Len(list') : i \in 1..Len(list) \/ i = Len(list) + 1
        BY <2>3, IdsAreInt
      <4>2. Len(list) + 1 \in 1..Len(list') /\ \A i \in 1..Len(list) : i \in 1..Len(list')
        BY <2>3, IdsAreInt
      <4> QED  BY <2>3, <4>1, <4>2
    <3> QED  BY <2>1, <3>1, <3>2, <3>3 DEF Counted
  <2> QED  BY <2>1, <2>4
<1> QED  BY <1>1, <1>2, <1>3, <1>4

(* So do the worker's pop and its task_delete.                             *)
LEMMA RefsRun ==
  ASSUME MInv, RefsInv, NEW w \in Workers, PopBegin(w) \/ PopEnd(w) \/ DeleteTask(w)
  PROVE  RefsInv'
<1> USE DEF MInv, IInv, RefsInv, ownerVars, sharedVars
<1>1. CASE PopBegin(w)
  <2>1. /\ UNCHANGED <<building, converted, list, refs>> /\ wtask[w] = NoTask
        /\ \A v \in Workers : wtask'[v] = IF v = w THEN Popped ELSE wtask[v]
    BY <1>1 DEF PopBegin, EmptyInv, TypeOK, heapVars
  <2>2. Popped = NoTask \/ (1 \in 1..Len(list) /\ Popped = list[1])
    BY IdsAreInt DEF Popped, TypeOK
  <2>3. ASSUME NEW a \in Args PROVE Counted(a)' = Counted(a)
    BY <2>1, <2>2, ArgsOfTask DEF Counted
  <2> QED  BY <2>1, <2>3
<1>2. CASE PopEnd(w)
  <2>1. UNCHANGED <<building, converted, wtask, refs>> /\ wpc[w] = "popping"
    BY <1>2 DEF PopEnd, heapVars
  <2>2. CASE wtask[w] = NoTask
    <3>1. list' = list  BY <1>2, <2>2 DEF PopEnd
    <3> QED  BY <2>1, <3>1 DEF Counted
  <2>3. CASE wtask[w] # NoTask
    <3>1. 1 \in 1..Len(list) /\ wtask[w] = list[1]  BY <2>1, <2>3, HandAlone
    <3>2. list \in Seq(Tasks) /\ list # <<>>  BY <3>1 DEF TypeOK
    <3>3. list' = Tail(list)  BY <1>2, <2>3, <3>2 DEF PopEnd, Rest
    <3>4. /\ Len(list') = Len(list) - 1 /\ Len(list) \in Nat
          /\ \A i \in 1..Len(list') : list'[i] = list[i + 1]
      BY <3>2, <3>3
    <3>5. ASSUME NEW a \in Args PROVE Counted(a)' = Counted(a)
      <4>1. (\E i \in 1..Len(list') : a \in ArgsOf(list'[i]))
              => \E i \in 1..Len(list) : a \in ArgsOf(list[i])
        BY <3>4
      <4>2. ASSUME NEW i \in 1..Len(list), a \in ArgsOf(list[i])
            PROVE  a \in ArgsOf(wtask[w]) \/ \E j \in 1..Len(list') : a \in ArgsOf(list'[j])
        <5>1. CASE i = 1  BY <3>1, <4>2, <5>1
        <5>2. CASE i # 1
          <6>1. i - 1 \in 1..Len(list') /\ list'[i - 1] = list[i]  BY <3>4, <5>2
          <6> QED  BY <4>2, <6>1
        <5> QED  BY <5>1, <5>2
      <4> QED  BY <2>1, <4>1, <4>2 DEF Counted
    <3> QED  BY <2>1, <3>5
  <2> QED  BY <2>2, <2>3
<1>3. CASE DeleteTask(w)
  <2>1. /\ UNCHANGED <<building, converted, list>> /\ Has(w)
        /\ refs' = DropArgs(ArgsOf(wtask[w]))
        /\ \A v \in Workers : wtask'[v] = IF v = w THEN NoTask ELSE wtask[v]
    BY <1>3 DEF DeleteTask, TypeOK, Has
  <2>2. ASSUME NEW a \in Args, a \in ArgsOf(wtask[w]) PROVE refs'[a] = 0 /\ ~Counted(a)'
    <3>1. refs[a] = 1 /\ refs'[a] = refs[a] - 1  BY <2>1, <2>2 DEF Counted, DropArgs
    <3>2. a[1] = wtask[w].id  BY <2>1, <2>2, HandAlone, ArgsOfTask
    <3>3. ~(a[1] = building.id)
      <4>1. CASE opc = "convert"  BY <2>1, <3>2, <4>1, HandAlone
      <4>2. CASE opc # "convert"  BY <4>2, ArgsOfTask DEF EmptyInv, NoTask
      <4> QED  BY <4>1, <4>2
    <3>4. \A i \in 1..Len(list) : a \notin ArgsOf(list[i])
      BY <2>1, <3>2, HandAlone, ArgsOfTask, IdsAreInt
    <3>5. \A v \in Workers : v # w => a \notin ArgsOf(wtask[v])
      <4>1. \A v \in Workers : wtask[v] \in Tasks \/ wtask[v] = NoTask  BY DEF TypeOK
      <4> QED  BY <2>1, <3>2, <4>1, HandAlone, ArgsOfTask
    <3> QED  BY <2>1, <3>1, <3>3, <3>4, <3>5, ArgsOfTask DEF Counted
  <2>3. ASSUME NEW a \in Args, a \notin ArgsOf(wtask[w])
        PROVE  refs'[a] = refs[a] /\ Counted(a)' = Counted(a)
    <3>1. refs'[a] = refs[a]  BY <2>1, <2>3 DEF DropArgs
    <3>2. Counted(a)' = Counted(a)  BY <2>1, <2>3, ArgsOfTask DEF Counted
    <3> QED  BY <3>1, <3>2
  <2> QED  BY <2>2, <2>3
<1> QED  BY <1>1, <1>2, <1>3

(* Every step keeps one reference to each argument that has a place.       *)
LEMMA RefsStep == MInv /\ RefsInv /\ [Next]_vars => RefsInv'
<1> SUFFICES ASSUME MInv, RefsInv, [Next]_vars PROVE RefsInv'
  OBVIOUS
<1> USE DEF sharedVars, ownerVars, heapVars, workerVars
<1>0. ASSUME UNCHANGED <<building, converted, list, wtask, refs>> PROVE RefsInv'
  BY <1>0 DEF RefsInv, Counted
<1>1. ASSUME OwnerNext PROVE RefsInv'
  <2>1. CASE \/ \E kind \in Kinds, argc \in 0..MaxArgs : BeginTask(kind, argc)
             \/ ConvertArg \/ ConvertFails \/ PushBegin
    BY <2>1, RefsAdd
  <2>2. CASE PushEnd \/ StartStatus \/ (\E w \in Workers : StartCreate(w)) \/ JoinStatus \/ JoinReturns
             \/ ReleaseUnstarted \/ ReleaseBegin \/ ReleaseStatus \/ ReleaseJoin
    BY <1>0, <2>2 DEF PushEnd, StartStatus, StartCreate, JoinStatus, JoinReturns, ReleaseUnstarted,
       ReleaseBegin, ReleaseStatus, ReleaseJoin
  <2> QED  BY <1>1, <2>1, <2>2 DEF OwnerNext
<1>2. ASSUME NEW w \in Workers, WorkerNext(w) PROVE RefsInv'
  <2>1. CASE PopBegin(w) \/ PopEnd(w) \/ DeleteTask(w)  BY <2>1, RefsRun
  <2>2. CASE StartupBegin(w) \/ StartupEnd(w) \/ LoopStatus(w) \/ LoopSize(w) \/ RunTask(w) \/ Exit(w)
    BY <1>0, <2>2 DEF StartupBegin, StartupEnd, LoopStatus, LoopSize, RunTask, Exit
  <2> QED  BY <1>2, <2>1, <2>2 DEF WorkerNext
<1>3. CASE UNCHANGED vars  BY <1>0, <1>3 DEF vars
<1> QED  BY <1>1, <1>2, <1>3 DEF Next, Finished

-----------------------------------------------------------------------------
(* The invariants about where tasks are hold in every program.             *)
LEMMA MemoryInvariant == Spec => []MInv
<1>1. Init => AgeInv /\ OnceInv /\ EmptyInv
  BY BoundsAssumption DEF Init, AgeInv, OnceInv, EmptyInv, Before, NoTask, Has
<1>2. IInv /\ AgeInv /\ OnceInv /\ EmptyInv /\ [Next]_vars => AgeInv' /\ OnceInv' /\ EmptyInv'
  BY OnceStep, EmptyStep
<1> QED  BY <1>1, <1>2, Invariance, PTL DEF Spec, MInv

(* Each argument's entry holds one reference from its conversion to        *)
(* task_delete, whether the task is being built, linked or in a hand, and  *)
(* none when the conversion of a later argument has failed.                *)
THEOREM ArgumentsExact == Spec => []RefsExact
<1>1. Init => RefsInv
  <2> SUFFICES ASSUME Init, NEW a \in Args PROVE refs[a] = IF Counted(a) THEN 1 ELSE 0
    BY DEF RefsInv
  <2>1. ~Counted(a)  BY ArgsOfTask DEF Init, Counted, NoTask
  <2> QED  BY <2>1 DEF Init
<1>2. MInv /\ RefsInv /\ [Next]_vars => RefsInv'  BY RefsStep
<1>3. MInv /\ RefsInv => RefsExact
  <2> SUFFICES ASSUME MInv, RefsInv, NEW a \in Args
               PROVE  refs[a] = IF \/ a[1] = building.id /\ a[2] <= converted
                                   \/ \E task \in Held \ {building} : a \in ArgsOf(task)
                                  THEN 1 ELSE 0
    BY DEF RefsExact
  <2>1. ASSUME NEW i \in 1..Len(list) PROVE list[i] \in Held \ {building}
    <3>1. CASE opc = "convert"  BY <3>1, BuildingAlone DEF Held
    <3>2. CASE opc # "convert"  BY <3>2, IdsAreInt DEF MInv, IInv, EmptyInv, NoTask, Held
    <3> QED  BY <3>1, <3>2
  <2>2. ASSUME NEW w \in Workers, a \in ArgsOf(wtask[w]) PROVE wtask[w] \in Held \ {building}
    <3>1. CASE opc = "convert"  BY <3>1, BuildingAlone DEF Held
    <3>2. CASE opc # "convert"  BY <2>2, <3>2, ArgsOfTask DEF MInv, EmptyInv, Held
    <3> QED  BY <3>1, <3>2
  <2>3. (\E task \in Held \ {building} : a \in ArgsOf(task))
          <=> \/ \E i \in 1..Len(list) : a \in ArgsOf(list[i])
              \/ \E w \in Workers : a \in ArgsOf(wtask[w])
    BY <2>1, <2>2 DEF Held
  <2> QED  BY <2>3 DEF RefsInv, Counted
<1> QED  BY <1>1, <1>2, <1>3, MemoryInvariant, PTL DEF Spec

(* A task_t that is allocated is being built, linked or in a worker's      *)
(* hand, so that task_delete will free it, in programs that add files.     *)
THEOREM NoTaskLost ==
  ASSUME Kinds \subseteq {"FILE_TASK"}
  PROVE  Spec => []NoTaskLeak
<1>1. Init => NoTaskLeak  BY DEF Init, NoTaskLeak
<1>2. ASSUME MInv, NoTaskLeak, [Next]_vars PROVE NoTaskLeak'
  <2> USE <1>2 DEF MInv, IInv, NoTaskLeak, sharedVars, ownerVars, heapVars, workerVars
  <2>a. blocks \subseteq Nat \ {0}  BY BoundsAssumption DEF TypeOK, Calls
  <2>b. NoTask.id = 0  BY DEF NoTask
  <2>0. ASSUME blocks' = blocks, \A task \in Held : task \in Held' \/ task = NoTask PROVE NoTaskLeak'
    BY <2>0, <2>a, <2>b
  <2>1. ASSUME NEW kind \in Kinds, NEW argc \in 0..MaxArgs, BeginTask(kind, argc) PROVE NoTaskLeak'
    <3>1. building = NoTask /\ UNCHANGED <<list, wtask>> /\ blocks' = blocks \cup {building'.id}
      BY <2>1 DEF BeginTask, EmptyInv
    <3>2. building' \in Held' /\ \A task \in Held : task \in Held' \/ task = NoTask
      BY <3>1 DEF Held
    <3> QED  BY <3>1, <3>2, <2>a, <2>b
  <2>2. CASE ConvertFails
    <3>1. building.kind = "FILE_TASK"  BY <2>2 DEF ConvertFails, HandInv, Tasks
    <3>2. blocks' = blocks \ {building.id} /\ UNCHANGED <<list, wtask>>
      BY <2>2, <3>1 DEF ConvertFails, FreedOnFailure
    <3>3. \A task \in Held : task \in Held' \/ task = building  BY <3>2 DEF Held
    <3> QED  BY <3>2, <3>3
  <2>3. CASE PushBegin
    <3>1. building \in Tasks /\ UNCHANGED <<wtask, blocks>> /\ list' = Append(list, building)
      BY <2>3 DEF PushBegin, HandInv
    <3>2. /\ Len(list') = Len(list) + 1 /\ Len(list) \in Nat
          /\ \A i \in 1..Len(list) : list'[i] = list[i]
          /\ list'[Len(list) + 1] = building
      BY <3>1 DEF TypeOK
    <3>3. \A task \in Held : task \in Held'  BY <3>1, <3>2 DEF Held
    <3> QED  BY <3>1, <3>3, <2>0
  <2>4. ASSUME NEW w \in Workers, PopBegin(w) PROVE NoTaskLeak'
    <3>1. UNCHANGED <<blocks, building, list>> /\ wtask[w] = NoTask
          /\ \A v \in Workers \ {w} : wtask'[v] = wtask[v]
      BY <2>4 DEF PopBegin, EmptyInv, TypeOK
    <3>2. \A task \in Held : task \in Held' \/ task = NoTask  BY <3>1 DEF Held
    <3> QED  BY <3>1, <3>2, <2>0
  <2>5. ASSUME NEW w \in Workers, PopEnd(w) PROVE NoTaskLeak'
    <3>1. UNCHANGED <<blocks, building, wtask>> /\ wpc[w] = "popping"  BY <2>5 DEF PopEnd
    <3>2. ASSUME NEW i \in 1..Len(list) PROVE list[i] \in Held'
      <4>1. CASE wtask[w] = NoTask  BY <2>5, <4>1 DEF PopEnd, Held
      <4>2. CASE wtask[w] # NoTask
        <5>1. wtask[w] = list[1]  BY <3>1, <4>2, HandAlone
        <5>2. list \in Seq(Tasks) /\ list # <<>>  BY <3>2 DEF TypeOK
        <5>3. list' = Tail(list)  BY <2>5, <4>2, <5>2 DEF PopEnd, Rest
        <5>4. CASE i = 1  BY <3>1, <5>1, <5>4 DEF Held
        <5>5. CASE i # 1
          <6>1. i - 1 \in 1..Len(list') /\ list'[i - 1] = list[i]  BY <5>2, <5>3, <5>5
          <6> QED  BY <6>1 DEF Held
        <5> QED  BY <5>4, <5>5
      <4> QED  BY <4>1, <4>2
    <3>3. \A task \in Held : task \in Held'  BY <3>1, <3>2 DEF Held
    <3> QED  BY <3>1, <3>3, <2>0
  <2>6. ASSUME NEW w \in Workers, DeleteTask(w) PROVE NoTaskLeak'
    <3>1. UNCHANGED <<building, list>> /\ blocks' = blocks \ {wtask[w].id}
          /\ \A v \in Workers \ {w} : wtask'[v] = wtask[v]
      BY <2>6 DEF DeleteTask, TypeOK
    <3>2. \A task \in Held : task \in Held' \/ task = wtask[w]  BY <3>1 DEF Held
    <3> QED  BY <3>1, <3>2
  <2>7. ASSUME UNCHANGED <<blocks, building, list, wtask>> PROVE NoTaskLeak'
    BY <2>7 DEF Held
  <2>8. CASE OwnerNext
    <3>1. CASE \/ ConvertArg \/ PushEnd \/ StartStatus \/ (\E w \in Workers : StartCreate(w))
               \/ JoinStatus \/ JoinReturns
               \/ ReleaseUnstarted \/ ReleaseBegin \/ ReleaseStatus \/ ReleaseJoin
      BY <2>7, <3>1 DEF ConvertArg, PushEnd, StartStatus, StartCreate, JoinStatus, JoinReturns,
         ReleaseUnstarted, ReleaseBegin, ReleaseStatus, ReleaseJoin
    <3> QED  BY <2>1, <2>2, <2>3, <2>8, <3>1 DEF OwnerNext
  <2>9. ASSUME NEW w \in Workers, WorkerNext(w) PROVE NoTaskLeak'
    <3>1. CASE StartupBegin(w) \/ StartupEnd(w) \/ LoopStatus(w) \/ LoopSize(w) \/ RunTask(w) \/ Exit(w)
      BY <2>7, <3>1 DEF StartupBegin, StartupEnd, LoopStatus, LoopSize, RunTask, Exit
    <3> QED  BY <2>4, <2>5, <2>6, <2>9, <3>1 DEF WorkerNext
  <2>10. CASE UNCHANGED vars  BY <2>7, <2>10 DEF vars
  <2> QED  BY <1>2, <2>8, <2>9, <2>10 DEF Next, Finished
<1> QED  BY <1>1, <1>2, MemoryInvariant, PTL DEF Spec
=============================================================================
