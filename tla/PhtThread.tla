----------------------------- MODULE PhtThread ------------------------------
(***************************************************************************)
(* One pht\Thread object: the PHP thread that owns it (addClassTask,       *)
(* addFunctionTask, addFileTask, start, join, and the destructor that runs *)
(* when the object or the request ends) and the worker threads it creates  *)
(* (worker_function and handle_thread_tasks).  Accesses that the code      *)
(* makes without thread->lock are steps of their own; an access made under *)
(* the lock is split where another thread can see the half of it that is   *)
(* done.  Loads and stores are sequentially consistent.                    *)
(***************************************************************************)
EXTENDS Integers, Sequences, FiniteSets

CONSTANTS MaxCalls,  \* bound: calls of an add...Task() method
          MaxStarts, \* bound: calls of start()
          MaxArgs,   \* bound: arguments of one task
          Kinds,     \* the kinds of task the program adds
          Program    \* what the program does beyond adding tasks and start()

ASSUME BoundsAssumption == MaxCalls \in Nat /\ MaxStarts \in Nat /\ MaxArgs \in Nat
ASSUME KindsAssumption == Kinds \subseteq {"CLASS_TASK", "FUNCTION_TASK", "FILE_TASK"}
(* "join": calls join() after it has seen the worker run; "early_join":    *)
(* calls join() at any time after start(); "reuse": start() after a        *)
(* join(); "start_twice": start() while a worker runs.  Every program      *)
(* drops the thread object in the end, at request shutdown at the latest.  *)
ASSUME ProgramAssumption == Program \subseteq {"join", "early_join", "reuse", "start_twice"}

VARIABLES
  status,    \* thread->status
  list,      \* the linked list of thread->tasks
  size,      \* thread->tasks.size
  lock,      \* the thread that holds thread->lock
  lockLive,  \* thread->lock has not been destroyed
  handle,    \* thread->thread: the worker pthread_create stored last, or 0
  reaped,    \* workers that pthread_join has been called on
  opc,       \* where the owner is
  building,  \* the task that an add...Task() call is building
  converted, \* how many of its arguments are entries already
  otmp,      \* the owner's load of tasks.size inside ++size
  calls,     \* add...Task() calls so far
  blocks,    \* tasks whose task_t is allocated
  refs,      \* references held by the entry of each argument of each task
  wpc,       \* where each worker is
  wtask,     \* the task each worker has popped
  wtmp,      \* each worker's load of tasks.size inside --size
  wseen,     \* each worker's load of status
  executed   \* history: the tasks run, in order

sharedVars == <<status, list, size, lock, lockLive>>
ownerVars == <<handle, reaped, opc, building, converted, otmp, calls>>
heapVars == <<blocks, refs>>
workerVars == <<wpc, wtask, wtmp, wseen, executed>>
vars == <<status, list, size, lock, lockLive, handle, reaped, opc, building, converted,
          otmp, calls, blocks, refs, wpc, wtask, wtmp, wseen, executed>>

Workers == 1..MaxStarts
Owner == 0
Free == MaxStarts + 1
Calls == 1..MaxCalls
Args == Calls \X (1..MaxArgs)
Tasks == [id : Calls, kind : Kinds, argc : 0..MaxArgs]
NoTask == [id |-> 0, kind |-> "none", argc |-> 0]

Status == {"NOT_STARTED", "STARTING_UP", "STARTED", "JOINED"}
ArgsOf(task) == {<<task.id, i>> : i \in 1..task.argc}
Running(w) == wpc[w] \notin {"absent", "exited"}

(* pthread_mutex_lock(&thread->lock), and pthread_join(thread->thread).    *)
CanLock == lock = Free /\ lockLive
CanReap == wpc[handle] = "exited"

-----------------------------------------------------------------------------
Init ==
  /\ status = "NOT_STARTED" /\ list = <<>> /\ size = 0
  /\ lock = Free /\ lockLive = TRUE
  /\ handle = 0 /\ reaped = {}
  /\ opc = "idle" /\ building = NoTask /\ converted = 0 /\ otmp = 0 /\ calls = 0
  /\ blocks = {} /\ refs = [a \in Args |-> 0]
  /\ wpc = [w \in Workers |-> "absent"]
  /\ wtask = [w \in Workers |-> NoTask]
  /\ wtmp = [w \in Workers |-> 0]
  /\ wseen = [w \in Workers |-> "NOT_STARTED"]
  /\ executed = <<>>

-----------------------------------------------------------------------------
(* add...Task(): allocate the task, turn its arguments into entries, push. *)
(* Calls rejected before the malloc change nothing and are left out.       *)
BeginTask(kind, argc) ==
  /\ opc = "idle" /\ calls < MaxCalls
  /\ calls' = calls + 1
  /\ building' = [id |-> calls + 1, kind |-> kind, argc |-> argc]
  /\ converted' = 0
  /\ blocks' = blocks \cup {calls + 1}
  /\ opc' = "convert"
  /\ UNCHANGED <<sharedVars, handle, reaped, otmp, refs, workerVars>>

ConvertArg ==
  /\ opc = "convert" /\ converted < building.argc
  /\ refs' = [refs EXCEPT ![<<building.id, converted + 1>>] = @ + 1]
  /\ converted' = converted + 1
  /\ UNCHANGED <<sharedVars, handle, reaped, opc, building, otmp, calls, blocks, workerVars>>

(* pht_entry_delete_value of the entries of some arguments.                *)
DropArgs(args) == [a \in Args |-> IF a \in args THEN refs[a] - 1 ELSE refs[a]]

(* Argument converted + 1 cannot be serialised: the entries made so far    *)
(* are deleted and the call throws.  Only addFileTask frees the task.      *)
ConvertedArgs_SkipFirst == {<<building.id, i>> : i \in 2..converted}
ConvertedArgs == {<<building.id, i>> : i \in 1..converted}
FreedOnFailure_None == {}
FreedOnFailure == IF building.kind = "FILE_TASK" THEN {building.id} ELSE {}

ConvertFails ==
  /\ opc = "convert" /\ converted < building.argc
  /\ refs' = DropArgs(ConvertedArgs)
  /\ blocks' = blocks \ FreedOnFailure
  /\ building' = NoTask /\ converted' = 0 /\ opc' = "idle"
  /\ UNCHANGED <<sharedVars, handle, reaped, otmp, calls, workerVars>>

(* lock; pht_queue_push links the element and loads size; store; unlock.   *)
PushBegin ==
  /\ opc = "convert" /\ converted = building.argc
  /\ CanLock /\ lock' = Owner
  /\ list' = Append(list, building) /\ otmp' = size
  /\ building' = NoTask /\ converted' = 0 /\ opc' = "pushing"
  /\ UNCHANGED <<status, size, lockLive, handle, reaped, calls, heapVars, workerVars>>

PushEnd ==
  /\ opc = "pushing"
  /\ size' = otmp + 1 /\ lock' = Free
  /\ opc' = "idle" /\ otmp' = 0
  /\ UNCHANGED <<status, list, lockLive, handle, reaped, building, converted, calls,
                 heapVars, workerVars>>

-----------------------------------------------------------------------------
(* The program's habits: when it calls start() and join().  The code has   *)
(* no guard of its own on either.                                          *)
MayStart ==
  \/ status = "NOT_STARTED"
  \/ "reuse" \in Program /\ handle \in reaped
  \/ "start_twice" \in Program /\ handle # 0

MayJoin ==
  /\ handle # 0 /\ handle \notin reaped
  /\ \/ "early_join" \in Program
     \/ "join" \in Program /\ wpc[handle] \notin {"startup", "starting"}

(* start(): status is stored without the lock, then pthread_create.        *)
StartStatus ==
  /\ opc = "idle" /\ MayStart
  /\ \E w \in Workers : wpc[w] = "absent"
  /\ status' = "STARTING_UP" /\ opc' = "creating"
  /\ UNCHANGED <<list, size, lock, lockLive, handle, reaped, building, converted, otmp, calls,
                 heapVars, workerVars>>

StartCreate(w) ==
  /\ opc = "creating" /\ wpc[w] = "absent" /\ \A v \in Workers : v < w => wpc[v] # "absent"
  /\ handle' = w /\ wpc' = [wpc EXCEPT ![w] = "startup"] /\ opc' = "idle"
  /\ UNCHANGED <<sharedVars, reaped, building, converted, otmp, calls, heapVars,
                 wtask, wtmp, wseen, executed>>

(* join(): status is stored without the lock, then pthread_join.           *)
JoinStatus ==
  /\ opc = "idle" /\ MayJoin
  /\ status' = "JOINED" /\ opc' = "joining"
  /\ UNCHANGED <<list, size, lock, lockLive, handle, reaped, building, converted, otmp, calls,
                 heapVars, workerVars>>

JoinReturns ==
  /\ opc = "joining" /\ CanReap
  /\ reaped' = reaped \cup {handle} /\ opc' = "idle"
  /\ UNCHANGED <<sharedVars, handle, building, converted, otmp, calls, heapVars, workerVars>>

(* thread_join_destroy: a thread that was never started is left as it is.  *)
ReleaseUnstarted ==
  /\ opc = "idle" /\ status = "NOT_STARTED"
  /\ opc' = "gone"
  /\ UNCHANGED <<sharedVars, handle, reaped, building, converted, otmp, calls, heapVars, workerVars>>

ReleaseBegin ==
  /\ opc = "idle" /\ status # "NOT_STARTED"
  /\ opc' = "d_lock"
  /\ UNCHANGED <<sharedVars, handle, reaped, building, converted, otmp, calls, heapVars, workerVars>>

(* lock; one store; unlock: one step for every other thread.               *)
ReleaseStatus ==
  /\ opc = "d_lock" /\ CanLock
  /\ status' = "JOINED" /\ opc' = "d_join"
  /\ UNCHANGED <<list, size, lock, lockLive, handle, reaped, building, converted, otmp, calls,
                 heapVars, workerVars>>

(* pthread_join; pthread_mutex_destroy.  On a handle that has been joined  *)
(* already pthread_join is undefined; here it returns an error at once.    *)
ReleaseJoin_NoWait ==
  /\ opc = "d_join" /\ lockLive' = FALSE /\ opc' = "gone"
  /\ UNCHANGED <<status, list, size, lock, handle, reaped, building, converted, otmp, calls,
                 heapVars, workerVars>>
ReleaseJoin ==
  /\ opc = "d_join" /\ CanReap
  /\ reaped' = reaped \cup {handle} /\ lockLive' = FALSE /\ opc' = "gone"
  /\ UNCHANGED <<status, list, size, lock, handle, building, converted, otmp, calls,
                 heapVars, workerVars>>

OwnerNext ==
  \/ \E kind \in Kinds, argc \in 0..MaxArgs : BeginTask(kind, argc)
  \/ ConvertArg \/ ConvertFails \/ PushBegin \/ PushEnd
  \/ StartStatus \/ (\E w \in Workers : StartCreate(w))
  \/ JoinStatus \/ JoinReturns
  \/ ReleaseUnstarted \/ ReleaseBegin \/ ReleaseStatus \/ ReleaseJoin

-----------------------------------------------------------------------------
(* worker_function: lock; compare status; store; unlock.                   *)
StartupBegin(w) ==
  /\ wpc[w] = "startup" /\ CanLock /\ lock' = w
  /\ wseen' = [wseen EXCEPT ![w] = status]
  /\ wpc' = [wpc EXCEPT ![w] = "starting"]
  /\ UNCHANGED <<status, list, size, lockLive, ownerVars, heapVars, wtask, wtmp, executed>>

StartupEnd(w) ==
  /\ wpc[w] = "starting"
  /\ status' = IF wseen[w] = "STARTING_UP" THEN "STARTED" ELSE status
  /\ lock' = Free
  /\ wpc' = [wpc EXCEPT ![w] = "loop_status"]
  /\ UNCHANGED <<list, size, lockLive, ownerVars, heapVars, wtask, wtmp, wseen, executed>>

(* handle_thread_tasks: while (status != JOINED || tasks.size), unlocked.  *)
AfterStatus_Ignored == "pop"
AfterStatus_And == IF status # "JOINED" THEN "pop" ELSE "shutdown"
AfterStatus == IF status # "JOINED" THEN "pop" ELSE "loop_size"

LoopStatus(w) ==
  /\ wpc[w] = "loop_status"
  /\ wpc' = [wpc EXCEPT ![w] = AfterStatus]
  /\ UNCHANGED <<sharedVars, ownerVars, heapVars, wtask, wtmp, wseen, executed>>

LoopSize(w) ==
  /\ wpc[w] = "loop_size"
  /\ wpc' = [wpc EXCEPT ![w] = IF size # 0 THEN "pop" ELSE "shutdown"]
  /\ UNCHANGED <<sharedVars, ownerVars, heapVars, wtask, wtmp, wseen, executed>>

(* lock; pht_queue_pop loads the head and size, then stores both; unlock.  *)
Popped_Last == IF list = <<>> THEN NoTask ELSE list[Len(list)]
Popped == IF list = <<>> THEN NoTask ELSE Head(list)
Rest == IF list = <<>> THEN list ELSE Tail(list)
SizeAfterPop_Always(w) == wtmp[w] - 1
SizeAfterPop(w) == IF wtask[w] = NoTask THEN size ELSE wtmp[w] - 1

PopBegin_Unlocked(w) ==
  /\ wpc[w] = "pop" /\ lock' = w
  /\ wtask' = [wtask EXCEPT ![w] = Popped]
  /\ wtmp' = [wtmp EXCEPT ![w] = size]
  /\ wpc' = [wpc EXCEPT ![w] = "popping"]
  /\ UNCHANGED <<status, list, size, lockLive, ownerVars, heapVars, wseen, executed>>
PopBegin(w) ==
  /\ wpc[w] = "pop" /\ CanLock /\ lock' = w
  /\ wtask' = [wtask EXCEPT ![w] = Popped]
  /\ wtmp' = [wtmp EXCEPT ![w] = size]
  /\ wpc' = [wpc EXCEPT ![w] = "popping"]
  /\ UNCHANGED <<status, list, size, lockLive, ownerVars, heapVars, wseen, executed>>

PopEnd(w) ==
  /\ wpc[w] = "popping" /\ lock' = Free
  /\ list' = IF wtask[w] = NoTask THEN list ELSE Rest
  /\ size' = SizeAfterPop(w)
  /\ wpc' = [wpc EXCEPT ![w] = IF wtask[w] = NoTask THEN "loop_status" ELSE "run"]
  /\ UNCHANGED <<status, lockLive, ownerVars, heapVars, wtask, wtmp, wseen, executed>>

(* handle_class_task, handle_function_task or handle_file_task.            *)
RunTask(w) ==
  /\ wpc[w] = "run"
  /\ executed' = Append(executed, wtask[w].id)
  /\ wpc' = [wpc EXCEPT ![w] = "delete"]
  /\ UNCHANGED <<sharedVars, ownerVars, heapVars, wtask, wtmp, wseen>>

(* task_delete: every argument's entry, then the task.                     *)
DeleteTask(w) ==
  /\ wpc[w] = "delete"
  /\ refs' = DropArgs(ArgsOf(wtask[w]))
  /\ blocks' = blocks \ {wtask[w].id}
  /\ wtask' = [wtask EXCEPT ![w] = NoTask]
  /\ wpc' = [wpc EXCEPT ![w] = "loop_status"]
  /\ UNCHANGED <<sharedVars, ownerVars, wtmp, wseen, executed>>

(* php_request_shutdown, ts_free_thread, pthread_exit.                     *)
Exit(w) ==
  /\ wpc[w] = "shutdown"
  /\ wpc' = [wpc EXCEPT ![w] = "exited"]
  /\ UNCHANGED <<sharedVars, ownerVars, heapVars, wtask, wtmp, wseen, executed>>

WorkerNext(w) ==
  \/ StartupBegin(w) \/ StartupEnd(w) \/ LoopStatus(w) \/ LoopSize(w)
  \/ PopBegin(w) \/ PopEnd(w) \/ RunTask(w) \/ DeleteTask(w) \/ Exit(w)

(* The object is gone and no worker is left: nothing more can happen.      *)
Finished == opc = "gone" /\ (\A w \in Workers : ~Running(w)) /\ UNCHANGED vars

Next == OwnerNext \/ (\E w \in Workers : WorkerNext(w)) \/ Finished

(* Every thread keeps running; an owner that is inside a call finishes it. *)
(* The worker polls, so it takes the lock again and again: the owner gets  *)
(* it only if a waiter is not passed over for ever (LockFairness).         *)
OwnerCall == ConvertArg \/ ConvertFails \/ PushBegin \/ PushEnd \/ JoinReturns
             \/ (\E w \in Workers : StartCreate(w)) \/ ReleaseStatus \/ ReleaseJoin
Fairness == WF_vars(OwnerCall) /\ \A w \in Workers : WF_vars(WorkerNext(w))
LockFairness == SF_vars(PushBegin) /\ SF_vars(ReleaseStatus)
                /\ \A w \in Workers : SF_vars(StartupBegin(w)) /\ SF_vars(PopBegin(w))

Spec == Init /\ [][Next]_vars
LiveSpec == Spec /\ Fairness /\ LockFairness

-----------------------------------------------------------------------------
(* Properties.                                                             *)

OwnerPC == {"idle", "convert", "pushing", "creating", "joining", "d_lock", "d_join", "gone"}
WorkerPC == {"absent", "startup", "starting", "loop_status", "loop_size", "pop", "popping",
             "run", "delete", "shutdown", "exited"}

TypeOK ==
  /\ status \in Status /\ list \in Seq(Tasks) /\ size \in Nat
  /\ lock \in 0..Free /\ lockLive \in BOOLEAN
  /\ handle \in 0..MaxStarts /\ reaped \subseteq Workers
  /\ opc \in OwnerPC /\ building \in Tasks \cup {NoTask}
  /\ converted \in 0..MaxArgs /\ otmp \in Nat /\ calls \in 0..MaxCalls
  /\ blocks \subseteq Calls /\ refs \in [Args -> Int]
  /\ wpc \in [Workers -> WorkerPC] /\ wtask \in [Workers -> Tasks \cup {NoTask}]
  /\ wtmp \in [Workers -> Nat] /\ wseen \in [Workers -> Status]
  /\ executed \in Seq(Calls)

(* The length the workers read without the lock is the number of linked    *)
(* tasks whenever nobody is inside pht_queue_push or pht_queue_pop: no     *)
(* update of size is ever lost between the owner and any worker.           *)
SizeAgrees == lock = Free => size = Len(list)

Held == {building} \cup {list[i] : i \in 1..Len(list)} \cup {wtask[w] : w \in Workers}

(* The arguments of a task hold one reference each from their conversion   *)
(* until task_delete, and none after a conversion that failed: a partly    *)
(* built task gives back exactly what it took.                             *)
RefsExact ==
  \A a \in Args :
    refs[a] = IF \/ a[1] = building.id /\ a[2] <= converted
                 \/ \E task \in Held \ {building} : a \in ArgsOf(task)
                THEN 1 ELSE 0

(* No task_t is lost: each one allocated is being built, queued or held by *)
(* a worker.  (addClassTask and addFunctionTask lose theirs when an        *)
(* argument cannot be serialised, so this holds for file tasks only.)      *)
NoTaskLeak == \A id \in blocks : \E task \in Held : task.id = id

(* A task is in one place only, and never run twice, however many workers  *)
(* the program has started.                                                *)
Has(w) == wpc[w] \in {"run", "delete"}
ExactlyOnce ==
  /\ \A i, j \in 1..Len(executed) : executed[i] = executed[j] => i = j
  /\ \A i, j \in 1..Len(list) : list[i] = list[j] => i = j
  /\ \A v, w \in Workers : v # w /\ Has(v) /\ Has(w) => wtask[v] # wtask[w]
  /\ \A i \in 1..Len(list) :
       /\ \A w \in Workers : Has(w) => wtask[w] # list[i]
       /\ \A j \in 1..Len(executed) : executed[j] # list[i].id
  /\ \A w \in Workers, j \in 1..Len(executed) : wpc[w] = "run" => executed[j] # wtask[w].id

(* The lock is destroyed only when no worker can use it any more.          *)
NoUseAfterDestroy == ~lockLive => \A w \in Workers : ~Running(w)

(* A join(), or the destructor's join, returns.                            *)
JoinTerminates == (opc \in {"joining", "d_lock", "d_join"}) ~> (opc \in {"idle", "gone"})

-----------------------------------------------------------------------------
(* PhtThread implements TaskRunner: a task is pending from the moment it   *)
(* is linked until it is run, also while the worker has it in its hand.    *)
WorkerHas(w) == wpc[w] = "run"
InHandIds == IF \E w \in Workers : WorkerHas(w)
               THEN <<wtask[CHOOSE w \in Workers : WorkerHas(w)].id>> ELSE <<>>
RunnerPhase ==
  CASE opc = "gone" -> "released"
    [] opc \in {"joining", "d_lock", "d_join"} /\ handle \notin reaped -> "joining"
    [] opc # "gone" /\ opc \notin {"joining", "d_lock", "d_join"}
         /\ handle # 0 /\ handle \notin reaped -> "running"
    [] OTHER -> "idle"

IdsOf(l) == [i \in 1..Len(l) |-> l[i].id]
Pending == InHandIds \o IdsOf(list)

Runner == INSTANCE TaskRunner WITH
  Tasks <- Calls,
  pending <- Pending,
  done <- executed,
  phase <- RunnerPhase

RunnerSafe == Runner!SafeSpec
RunnerSpec == Runner!Spec
=============================================================================
