------------------------------ MODULE ThreadTree -----------------------------
(***************************************************************************)
(* Threads that create threads: the life of every PHP context, from        *)
(* pthread_create or the main script to the end of php_request_shutdown,   *)
(* and the Thread objects each context has made (child_threads).  A Thread *)
(* may be started again, after a join() or without one: then the worker it *)
(* had is no longer known to anybody, and it is said which properties hold *)
(* of the last worker of a Thread only.  Statuses and locks of one Thread  *)
(* are PhtThread's business: here join() is called after the worker has    *)
(* announced itself.                                                       *)
(***************************************************************************)
EXTENDS Naturals, Sequences, FiniteSets

CONSTANTS Main,
          Workers,  \* bound: the threads ever created, numbered in that order
          Objs,     \* bound: the Thread objects ever made, likewise
          Tasks,    \* what a task may be
          FileTask, \* a task that runs a file
          MaxTasks, \* bound: tasks of one Thread that wait
          None,
          Habits    \* what the program does beyond the usual

ASSUME MainAssumption == Main \notin Workers /\ None \notin Workers \cup {Main} /\ None \notin Tasks /\ None \notin Objs
ASSUME BoundAssumption == Workers \subseteq Nat /\ Objs \subseteq Nat /\ MaxTasks \in Nat /\ FileTask \in Tasks
(* "keep": holds Thread objects in an array or a static property, so that  *)
(* the engine frees them after RSHUTDOWN; "exit_drop": lets go of one when *)
(* EG(exit_status) is not 0, in a script that has called exit() or in a    *)
(* task that a worker runs after such a one; "same_id": a pthread_t is     *)
(* given to a new thread once it has been joined.  The others are          *)
(* ContextCopy's.                                                          *)
ASSUME TreeHabitsAssumption == Habits \in SUBSET {"keep", "exit_drop", "same_id", "forward", "realloc"}

Threads == Workers \cup {Main}

VARIABLES phase,    \* where a thread is in its life
          object,   \* the Thread a worker was created for
          creator,  \* thread->parent_thread_ls of each Thread
          handle,   \* thread->thread, None as long as it is NOT_STARTED
          children, \* PHT_ZG(child_threads) of each context
          told,     \* the Threads whose status is JOINED
          waiting,  \* the worker a thread waits for in pthread_join
          joined,   \* the workers for which pthread_join has returned
          tasks,    \* thread->tasks
          doing,    \* the task a worker runs
          exited,   \* the contexts whose EG(exit_status) is not 0
          freed,    \* the Thread objects whose memory the engine has freed
          misused   \* th_free_obj has been at a destroyed child_threads

treeVars == <<phase, object, creator, handle, children, told, waiting, joined,
              tasks, doing, exited, freed, misused>>

(* "ending": the engine destroys objects; "rshutdown": PHP_RSHUTDOWN.      *)
Phases == {"none", "startup", "copying", "running", "ending", "rshutdown", "gone"}
Parent(w) == creator[object[w]]
(* The worker a Thread was started for last.                               *)
Latest(w) == object[w] # None /\ handle[object[w]] = w

TreeInit ==
  /\ phase = [t \in Threads |-> IF t = Main THEN "running" ELSE "none"]
  /\ object = [w \in Workers |-> None]
  /\ creator = [o \in Objs |-> None] /\ handle = [o \in Objs |-> None]
  /\ children = [t \in Threads |-> {}] /\ told = {}
  /\ waiting = [t \in Threads |-> None] /\ joined = {}
  /\ tasks = [o \in Objs |-> <<>>] /\ doing = [w \in Workers |-> None]
  /\ exited = {} /\ freed = {} /\ misused = FALSE

(* PHP code of thread t may run: the script, or a task of a worker.        *)
Active(t) == /\ phase[t] = "running" /\ waiting[t] = None
             /\ t \in Workers => doing[t] # None
Holds(t, o) == o \in children[t] \ freed

-----------------------------------------------------------------------------
(* new Thread().                                                           *)
New(t, o) ==
  /\ Active(t) /\ creator[o] = None /\ \A p \in Objs : p < o => creator[p] # None
  /\ creator' = [creator EXCEPT ![o] = t]
  /\ children' = [children EXCEPT ![t] = @ \cup {o}]
  /\ UNCHANGED <<phase, object, handle, told, waiting, joined, tasks, doing, exited, freed, misused>>

(* Thread::start, which looks at nothing: the handle and the status of a   *)
(* Thread that was started before are overwritten.                         *)
Start(t, o, w) ==
  /\ Active(t) /\ Holds(t, o)
  /\ phase[w] = "none" /\ \A v \in Workers : v < w => phase[v] # "none"
  /\ phase' = [phase EXCEPT ![w] = "startup"]
  /\ object' = [object EXCEPT ![w] = o] /\ handle' = [handle EXCEPT ![o] = w]
  /\ told' = told \ {o}
  /\ UNCHANGED <<creator, children, waiting, joined, tasks, doing, exited, freed, misused>>

AddTask(t, o, k) ==
  /\ Active(t) /\ Holds(t, o) /\ Len(tasks[o]) < MaxTasks
  /\ tasks' = [tasks EXCEPT ![o] = Append(@, k)]
  /\ UNCHANGED <<phase, object, creator, handle, children, told, waiting, joined, doing, exited, freed, misused>>

(* What pthread_join waits for.  A second one for the same thread finds its *)
(* id gone, or the thread that has it now.                                 *)
Awaited_None(o) == {None}
Awaited(o) ==
  IF handle[o] \notin joined THEN {handle[o]}
  ELSE {None} \cup {v \in Workers \ joined : "same_id" \in Habits /\ phase[v] # "none"}

(* Thread::join.                                                           *)
Join(t, o) ==
  /\ Active(t) /\ Holds(t, o)
  /\ handle[o] # None /\ phase[handle[o]] \notin {"startup", "copying"}
  /\ told' = told \cup {o}
  /\ \E v \in Awaited(o) : waiting' = [waiting EXCEPT ![t] = v]
  /\ UNCHANGED <<phase, object, creator, handle, children, joined, tasks, doing, exited, freed, misused>>

(* thread_join_destroy, for a Thread that has just left child_threads: one *)
(* that was never started is left as it is, any other is told to end and   *)
(* waited for, also when it has been joined.                               *)
Told_Never(o) == told
Told(o) == told \cup {o}
Started(o) == handle[o] # None
JoinDestroy(t, o) ==
  /\ children' = [children EXCEPT ![t] = @ \ {o}]
  /\ IF Started(o)
       THEN told' = Told(o) /\ \E v \in Awaited(o) : waiting' = [waiting EXCEPT ![t] = v]
       ELSE UNCHANGED <<told, waiting>>

(* The engine frees the memory of an object when th_free_obj returns.      *)
Objects(t) == {o \in Objs : creator[o] = t}
FreeDropped(t) ==
  freed' = IF phase[t] = "rshutdown" \/ waiting'[t] # None THEN freed
           ELSE freed \cup (Objects(t) \ children'[t])

(* th_free_obj, before RSHUTDOWN.  After an exit() with a status the object *)
(* stays in child_threads.                                                 *)
Drop(t, o) ==
  /\ Active(t) \/ (phase[t] = "ending" /\ waiting[t] = None)
  /\ Holds(t, o)
  /\ IF t \in exited
       THEN /\ "exit_drop" \in Habits /\ freed' = freed \cup {o}
            /\ UNCHANGED <<children, told, waiting>>
       ELSE JoinDestroy(t, o) /\ FreeDropped(t)
  /\ UNCHANGED <<phase, object, creator, handle, joined, tasks, doing, exited, misused>>

(* pthread_join returns, in Thread::join, in th_free_obj or in RSHUTDOWN.  *)
Joined_Rshutdown(w) == phase[w] \in {"rshutdown", "gone"}
Joined(w) == phase[w] = "gone"
ReturnJoin(t) ==
  /\ waiting[t] # None /\ Joined(waiting[t])
  /\ joined' = joined \cup {waiting[t]}
  /\ waiting' = [waiting EXCEPT ![t] = None]
  /\ children' = children /\ FreeDropped(t)
  /\ UNCHANGED <<phase, object, creator, handle, told, tasks, doing, exited, misused>>

-----------------------------------------------------------------------------
(* worker_function: php_request_startup, then the copy of the parent's     *)
(* context, then the tasks until JOINED.  What a worker copies whose       *)
(* creator has gone before is undefined: here it goes no further.          *)
BeginCopy(w) ==
  /\ phase[w] = "startup" /\ phase[Parent(w)] # "gone"
  /\ phase' = [phase EXCEPT ![w] = "copying"]
  /\ UNCHANGED <<object, creator, handle, children, told, waiting, joined, tasks, doing, exited, freed, misused>>

EndCopy(w) ==
  /\ phase[w] = "copying" /\ phase[Parent(w)] # "gone"
  /\ phase' = [phase EXCEPT ![w] = "running"]
  /\ UNCHANGED <<object, creator, handle, children, told, waiting, joined, tasks, doing, exited, freed, misused>>

(* php_execute_script sets EG(exit_status) to 0, and to another value when *)
(* the file calls exit() with one or does not catch an exception.          *)
RunTask(w) ==
  /\ phase[w] = "running" /\ doing[w] = None /\ tasks[object[w]] # <<>>
  /\ doing' = [doing EXCEPT ![w] = Head(tasks[object[w]])]
  /\ tasks' = [tasks EXCEPT ![object[w]] = Tail(@)]
  /\ exited' = IF doing'[w] = FileTask THEN exited \ {w} ELSE exited
  /\ UNCHANGED <<phase, object, creator, handle, children, told, waiting, joined, freed, misused>>

EndTask(w, status) ==
  /\ doing[w] # None /\ waiting[w] = None
  /\ status # 0 => doing[w] = FileTask
  /\ doing' = [doing EXCEPT ![w] = None]
  /\ exited' = IF status = 0 THEN exited ELSE exited \cup {w}
  /\ UNCHANGED <<phase, object, creator, handle, children, told, waiting, joined, tasks, freed, misused>>

EndLoop(w) ==
  /\ phase[w] = "running" /\ doing[w] = None /\ object[w] \in told /\ tasks[object[w]] = <<>>
  /\ phase' = [phase EXCEPT ![w] = "ending"]
  /\ UNCHANGED <<object, creator, handle, children, told, waiting, joined, tasks, doing, exited, freed, misused>>

(* The main script ends, or calls exit() with a status.                    *)
EndScript(status) ==
  /\ Active(Main)
  /\ phase' = [phase EXCEPT ![Main] = "ending"]
  /\ exited' = IF status = 0 THEN exited ELSE exited \cup {Main}
  /\ UNCHANGED <<object, creator, handle, children, told, waiting, joined, tasks, doing, freed, misused>>

(* PHP_RSHUTDOWN: op_array_file_names is destroyed, then child_threads (in *)
(* the order of insertion, which nothing here depends on).                 *)
AllDropped(t) == children[t] = {} \/ t \in exited \/ "keep" \in Habits
Shutdown(t) ==
  /\ phase[t] = "ending" /\ waiting[t] = None /\ AllDropped(t)
  /\ phase' = [phase EXCEPT ![t] = "rshutdown"]
  /\ UNCHANGED <<object, creator, handle, children, told, waiting, joined, tasks, doing, exited, freed, misused>>

JoinChild(t, o) ==
  /\ phase[t] = "rshutdown" /\ waiting[t] = None /\ o \in children[t]
  /\ JoinDestroy(t, o)
  /\ UNCHANGED <<phase, object, creator, handle, joined, tasks, doing, exited, freed, misused>>

(* The engine frees the objects that are left, then the tables, and calls  *)
(* th_free_obj for each object, with child_threads destroyed.              *)
Kept(t) == Objects(t) \ freed
EndRequest(t) ==
  /\ phase[t] = "rshutdown" /\ waiting[t] = None /\ children[t] = {}
  /\ phase' = [phase EXCEPT ![t] = "gone"]
  /\ freed' = freed \cup Kept(t)
  /\ misused' = (misused \/ (t \notin exited /\ Kept(t) # {}))
  /\ UNCHANGED <<object, creator, handle, children, told, waiting, joined, tasks, doing, exited>>

TreeStep ==
  \/ \E t \in Threads, o \in Objs :
       \/ New(t, o) \/ Join(t, o) \/ Drop(t, o) \/ JoinChild(t, o)
       \/ \E w \in Workers : Start(t, o, w)
       \/ \E k \in Tasks : AddTask(t, o, k)
  \/ \E t \in Threads : ReturnJoin(t) \/ Shutdown(t) \/ EndRequest(t)
  \/ \E w \in Workers : \/ BeginCopy(w) \/ EndCopy(w) \/ RunTask(w) \/ EndLoop(w)
                        \/ \E status \in {0, 1} : EndTask(w, status)
  \/ \E status \in {0, 1} : EndScript(status)

TreeSpec == TreeInit /\ [][TreeStep]_treeVars

-----------------------------------------------------------------------------
TreeTypeOK ==
  /\ phase \in [Threads -> Phases] /\ object \in [Workers -> Objs \cup {None}]
  /\ creator \in [Objs -> Threads \cup {None}] /\ handle \in [Objs -> Workers \cup {None}]
  /\ children \in [Threads -> SUBSET Objs] /\ told \subseteq Objs
  /\ waiting \in [Threads -> Workers \cup {None}] /\ joined \subseteq Workers
  /\ tasks \in [Objs -> Seq(Tasks)] /\ doing \in [Workers -> Tasks \cup {None}]
  /\ exited \subseteq Threads /\ freed \subseteq Objs /\ misused \in BOOLEAN

(* The context a worker copies is there while the worker copies it: its    *)
(* tables until the request ends, and the names of the files its functions *)
(* come from until RSHUTDOWN (those of the main thread are the engine's).  *)
(* RSHUTDOWN destroys them too early in one case: a worker that ends after *)
(* an exit() with a status joins its Threads only there.                   *)
SourceLives ==
  \A w \in Workers : phase[w] = "copying" /\ Latest(w) =>
    \/ phase[Parent(w)] \in {"running", "ending"}
    \/ phase[Parent(w)] = "rshutdown" /\ Parent(w) \in {Main} \cup exited

(* A context does not end before the last worker of every Thread it has    *)
(* made, so that, unless a Thread is started again without a join(), the   *)
(* whole tree below it has ended too.                                      *)
NoOrphan ==
  \A o \in Objs : handle[o] # None /\ phase[creator[o]] = "gone" => phase[handle[o]] = "gone"

(* The memory of a Thread is not freed while its last worker polls it or   *)
(* while RSHUTDOWN is still to join it, and th_free_obj does not touch     *)
(* child_threads after RSHUTDOWN has destroyed it.                         *)
ObjectLives ==
  /\ \A o \in freed : /\ handle[o] # None => phase[handle[o]] = "gone"
                      /\ \A t \in Threads : o \notin children[t]
  /\ ~misused
=============================================================================
