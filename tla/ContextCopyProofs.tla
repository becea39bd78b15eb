-------------------------- MODULE ContextCopyProofs --------------------------
(***************************************************************************)
(* What a worker gets of its parent's tables, for every set of names, tree *)
(* of threads and order of declarations, and the properties of ThreadTree  *)
(* carried over to the specification that is checked.                      *)
(***************************************************************************)
EXTENDS ContextCopy, TLAPS

(***************************************************************************)
(* The properties of ThreadTree for every number of threads and objects,   *)
(* and any program that does not do what its habit is about.               *)
(***************************************************************************)

(* A Thread object is its creator's from new to the end, its creator runs, *)
(* ends or has ended, and its last worker was created for it.              *)
ParentInv ==
  /\ \A o \in Objs : creator[o] = None => handle[o] = None
  /\ \A t \in Threads : \A o \in children[t] : creator[o] = t
  /\ \A o \in Objs : creator[o] # None =>
       phase[creator[o]] \in {"running", "ending", "rshutdown", "gone"}
  /\ \A w \in Workers : object[w] = None <=> phase[w] = "none"
  /\ \A w \in Workers : object[w] # None => creator[object[w]] # None
  /\ \A o \in Objs : handle[o] # None => object[handle[o]] = o

(* A Thread whose last worker lives is in child_threads of its creator, or *)
(* its creator waits for that worker; a context that has ended has neither. *)
LiveInv ==
  /\ \A o \in Objs : handle[o] # None /\ phase[handle[o]] # "gone" =>
       o \in children[creator[o]] \/ waiting[creator[o]] = handle[o]
  /\ \A w \in joined : phase[w] = "gone"
  /\ \A t \in Threads : phase[t] = "gone" => children[t] = {} /\ waiting[t] = None

(* Only a context that has exited ends with objects that are not dropped,  *)
(* and none exits once its last task is over.                              *)
EndInv ==
  /\ \A w \in Workers : doing[w] # None => phase[w] = "running"
  /\ \A t \in Threads \ exited : phase[t] = "rshutdown" => children[t] = {} /\ waiting[t] = None

(* Outside pthread_join, the objects that have left child_threads have     *)
(* been freed, each with its last worker gone.                             *)
FreedInv ==
  /\ \A o \in freed : /\ creator[o] # None /\ (handle[o] # None => phase[handle[o]] = "gone")
                      /\ \A t \in Threads : o \notin children[t]
  /\ \A t \in Threads : /\ phase[t] \in {"running", "ending"} \/ (phase[t] = "rshutdown" /\ t \notin exited)
                        /\ waiting[t] = None
                        => Objects(t) \ children[t] \subseteq freed
  /\ ~misused

-----------------------------------------------------------------------------
(* What becomes of a Thread that has left child_threads: nothing if it was *)
(* never started, else its creator waits for its last worker or, if that   *)
(* has been joined, for what a second pthread_join waits for.              *)
LeftUnused(t, o) ==
  /\ children' = [children EXCEPT ![t] = @ \ {o}]
  /\ handle[o] = None /\ told' = told /\ waiting' = waiting
LeftAwaited(t, o, v) ==
  /\ children' = [children EXCEPT ![t] = @ \ {o}]
  /\ handle[o] # None /\ told' = told \cup {o} /\ waiting' = [waiting EXCEPT ![t] = v]
  /\ v = handle[o] \/ handle[o] \in joined

(* The destructor waits for a thread that was started, and only then.      *)
LEMMA DestroyEffect ==
  ASSUME TreeTypeOK, NEW t \in Threads, NEW o \in Objs, JoinDestroy(t, o)
  PROVE  LeftUnused(t, o) \/ \E v \in Workers \cup {None} : LeftAwaited(t, o, v)
<1>1. CASE handle[o] = None
  BY <1>1 DEF JoinDestroy, Started, LeftUnused
<1>2. CASE handle[o] # None
  <2>1. PICK v \in Awaited(o) : waiting' = [waiting EXCEPT ![t] = v]
    BY <1>2 DEF JoinDestroy, Started
  <2>2. v \in Workers \cup {None} /\ (v = handle[o] \/ handle[o] \in joined)
    BY <1>2, <2>1 DEF Awaited, TreeTypeOK
  <2>3. QED
    BY <1>2, <2>1, <2>2 DEF JoinDestroy, Started, Told, LeftAwaited
<1>3. QED
  BY <1>1, <1>2

(* th_free_obj before RSHUTDOWN, in a context that has not exited.         *)
Dropped(t, o) ==
  /\ waiting[t] = None /\ phase[t] \in {"running", "ending"} /\ o \in children[t] \ freed
  /\ freed' = (IF waiting'[t] # None THEN freed ELSE freed \cup (Objects(t) \ children'[t]))
  /\ freed' \in SUBSET Objs
  /\ UNCHANGED <<phase, object, creator, handle, joined, tasks, doing, exited, misused>>

(* Drop destroys and frees in a context that has not exited.               *)
LEMMA DropEffect ==
  ASSUME TreeTypeOK, NEW t \in Threads, NEW o \in Objs, Drop(t, o), t \notin exited
  PROVE  JoinDestroy(t, o) /\ Dropped(t, o)
<1>1. /\ JoinDestroy(t, o) /\ UNCHANGED <<phase, object, creator, handle, joined, tasks, doing, exited, misused>>
      /\ waiting[t] = None /\ phase[t] \in {"running", "ending"} /\ o \in children[t] \ freed
      /\ FreeDropped(t)
  BY DEF Drop, Active, Holds
<1>2. QED
  BY <1>1 DEF FreeDropped, Objects, TreeTypeOK, Dropped

(* The values have their types.                                            *)
LEMMA TypeStep == TreeTypeOK /\ ParentInv /\ [TreeStep]_treeVars => TreeTypeOK'
<1> SUFFICES ASSUME TreeTypeOK, ParentInv, [TreeStep]_treeVars PROVE TreeTypeOK'
  OBVIOUS
<1> USE MainAssumption DEF TreeTypeOK, Threads, Phases, ParentInv
<1>1. ASSUME NEW t \in Threads, NEW o \in Objs, New(t, o) PROVE TreeTypeOK'
  BY <1>1 DEF New, Active
<1>2. ASSUME NEW t \in Threads, NEW o \in Objs, NEW w \in Workers, Start(t, o, w) PROVE TreeTypeOK'
  BY <1>2 DEF Start, Active, Holds
<1>3. ASSUME NEW t \in Threads, NEW o \in Objs, Join(t, o) PROVE TreeTypeOK'
  BY <1>3 DEF Join, Active, Awaited
<1>4. ASSUME NEW t \in Threads, NEW o \in Objs, Drop(t, o) PROVE TreeTypeOK'
  <2>1. CASE t \in exited
    BY <1>4, <2>1 DEF Drop, Holds
  <2>2. CASE t \notin exited
    <3>1. Dropped(t, o) /\ (LeftUnused(t, o) \/ \E v \in Workers \cup {None} : LeftAwaited(t, o, v))
      BY <1>4, <2>2, DropEffect, DestroyEffect DEF Dropped
    <3>2. CASE LeftUnused(t, o)
      BY <2>2, <3>1, <3>2 DEF Dropped, LeftUnused
    <3>3. ASSUME NEW v \in Workers \cup {None}, LeftAwaited(t, o, v) PROVE TreeTypeOK'
      BY <2>2, <3>1, <3>3 DEF Dropped, LeftAwaited
    <3> QED
      BY <3>1, <3>2, <3>3
  <2> QED
    BY <2>1, <2>2
<1>5. ASSUME NEW t \in Threads, NEW o \in Objs, JoinChild(t, o) PROVE TreeTypeOK'
  <2>1. /\ phase[t] = "rshutdown" /\ waiting[t] = None /\ o \in children[t]
        /\ UNCHANGED <<phase, object, creator, handle, joined, tasks, doing, exited, freed, misused>>
        /\ LeftUnused(t, o) \/ \E v \in Workers \cup {None} : LeftAwaited(t, o, v)
    BY <1>5, DestroyEffect DEF JoinChild
  <2>2. CASE LeftUnused(t, o)
    BY <2>1, <2>2 DEF LeftUnused
  <2>3. ASSUME NEW v \in Workers \cup {None}, LeftAwaited(t, o, v) PROVE TreeTypeOK'
    BY <2>1, <2>3 DEF LeftAwaited
  <2> QED
    BY <2>1, <2>2, <2>3
<1>6. ASSUME NEW t \in Threads, NEW o \in Objs, NEW k \in Tasks, AddTask(t, o, k) PROVE TreeTypeOK'
  BY <1>6 DEF AddTask, Holds
<1>7. ASSUME NEW t \in Threads, ReturnJoin(t) PROVE TreeTypeOK'
  BY <1>7 DEF ReturnJoin, Joined, FreeDropped, Objects
<1>8. ASSUME NEW t \in Threads, Shutdown(t) PROVE TreeTypeOK'
  BY <1>8 DEF Shutdown, AllDropped
<1>9. ASSUME NEW t \in Threads, EndRequest(t) PROVE TreeTypeOK'
  BY <1>9 DEF EndRequest, Kept, Objects
<1>10. ASSUME NEW w \in Workers, BeginCopy(w) PROVE TreeTypeOK'
  BY <1>10 DEF BeginCopy
<1>11. ASSUME NEW w \in Workers, EndCopy(w) PROVE TreeTypeOK'
  BY <1>11 DEF EndCopy
<1>12. ASSUME NEW w \in Workers, RunTask(w) PROVE TreeTypeOK'
  BY <1>12 DEF RunTask
<1>13. ASSUME NEW w \in Workers, NEW status \in {0, 1}, EndTask(w, status) PROVE TreeTypeOK'
  BY <1>13 DEF EndTask
<1>14. ASSUME NEW w \in Workers, EndLoop(w) PROVE TreeTypeOK'
  BY <1>14 DEF EndLoop
<1>15. ASSUME NEW status \in {0, 1}, EndScript(status) PROVE TreeTypeOK'
  BY <1>15 DEF EndScript, Active
<1>16. CASE UNCHANGED treeVars
  BY <1>16 DEF treeVars
<1> HIDE DEF TreeTypeOK, Threads, Phases, ParentInv
<1>17. QED
  BY <1>1, <1>2, <1>3, <1>4, <1>5, <1>6, <1>7, <1>8, <1>9, <1>10, <1>11, <1>12, <1>13, <1>14, <1>15, <1>16 DEF TreeStep

(* Creators are for life, and a creator does not go back.                  *)
LEMMA ParentStep == TreeTypeOK /\ ParentInv /\ [TreeStep]_treeVars => ParentInv'
<1> SUFFICES ASSUME TreeTypeOK, ParentInv, [TreeStep]_treeVars PROVE ParentInv'
  OBVIOUS
<1> USE MainAssumption DEF TreeTypeOK, Threads, Phases, ParentInv
<1>1. ASSUME NEW t \in Threads, NEW o \in Objs, New(t, o) PROVE ParentInv'
  BY <1>1 DEF New, Active
<1>2. ASSUME NEW t \in Threads, NEW o \in Objs, NEW w \in Workers, Start(t, o, w) PROVE ParentInv'
  BY <1>2 DEF Start, Active, Holds
<1>3. ASSUME NEW t \in Threads, NEW o \in Objs, Join(t, o) PROVE ParentInv'
  BY <1>3 DEF Join, Active, Awaited
<1>4. ASSUME NEW t \in Threads, NEW o \in Objs, Drop(t, o) PROVE ParentInv'
  <2>1. CASE t \in exited
    BY <1>4, <2>1 DEF Drop, Holds
  <2>2. CASE t \notin exited
    <3>1. Dropped(t, o) /\ (LeftUnused(t, o) \/ \E v \in Workers \cup {None} : LeftAwaited(t, o, v))
      BY <1>4, <2>2, DropEffect, DestroyEffect DEF Dropped
    <3>2. CASE LeftUnused(t, o)
      BY <2>2, <3>1, <3>2 DEF Dropped, LeftUnused
    <3>3. ASSUME NEW v \in Workers \cup {None}, LeftAwaited(t, o, v) PROVE ParentInv'
      BY <2>2, <3>1, <3>3 DEF Dropped, LeftAwaited
    <3> QED
      BY <3>1, <3>2, <3>3
  <2> QED
    BY <2>1, <2>2
<1>5. ASSUME NEW t \in Threads, NEW o \in Objs, JoinChild(t, o) PROVE ParentInv'
  <2>1. /\ phase[t] = "rshutdown" /\ waiting[t] = None /\ o \in children[t]
        /\ UNCHANGED <<phase, object, creator, handle, joined, tasks, doing, exited, freed, misused>>
        /\ LeftUnused(t, o) \/ \E v \in Workers \cup {None} : LeftAwaited(t, o, v)
    BY <1>5, DestroyEffect DEF JoinChild
  <2>2. CASE LeftUnused(t, o)
    BY <2>1, <2>2 DEF LeftUnused
  <2>3. ASSUME NEW v \in Workers \cup {None}, LeftAwaited(t, o, v) PROVE ParentInv'
    BY <2>1, <2>3 DEF LeftAwaited
  <2> QED
    BY <2>1, <2>2, <2>3
<1>6. ASSUME NEW t \in Threads, NEW o \in Objs, NEW k \in Tasks, AddTask(t, o, k) PROVE ParentInv'
  BY <1>6 DEF AddTask, Holds
<1>7. ASSUME NEW t \in Threads, ReturnJoin(t) PROVE ParentInv'
  BY <1>7 DEF ReturnJoin, Joined, FreeDropped, Objects
<1>8. ASSUME NEW t \in Threads, Shutdown(t) PROVE ParentInv'
  BY <1>8 DEF Shutdown, AllDropped
<1>9. ASSUME NEW t \in Threads, EndRequest(t) PROVE ParentInv'
  BY <1>9 DEF EndRequest, Kept, Objects
<1>10. ASSUME NEW w \in Workers, BeginCopy(w) PROVE ParentInv'
  BY <1>10 DEF BeginCopy
<1>11. ASSUME NEW w \in Workers, EndCopy(w) PROVE ParentInv'
  BY <1>11 DEF EndCopy
<1>12. ASSUME NEW w \in Workers, RunTask(w) PROVE ParentInv'
  BY <1>12 DEF RunTask
<1>13. ASSUME NEW w \in Workers, NEW status \in {0, 1}, EndTask(w, status) PROVE ParentInv'
  BY <1>13 DEF EndTask
<1>14. ASSUME NEW w \in Workers, EndLoop(w) PROVE ParentInv'
  BY <1>14 DEF EndLoop
<1>15. ASSUME NEW status \in {0, 1}, EndScript(status) PROVE ParentInv'
  BY <1>15 DEF EndScript, Active
<1>16. CASE UNCHANGED treeVars
  BY <1>16 DEF treeVars
<1> HIDE DEF TreeTypeOK, Threads, Phases, ParentInv
<1>17. QED
  BY <1>1, <1>2, <1>3, <1>4, <1>5, <1>6, <1>7, <1>8, <1>9, <1>10, <1>11, <1>12, <1>13, <1>14, <1>15, <1>16 DEF TreeStep

(* No Thread is forgotten while its last worker lives.                     *)
LEMMA LiveStep == TreeTypeOK /\ ParentInv /\ LiveInv /\ [TreeStep]_treeVars => LiveInv'
<1> SUFFICES ASSUME TreeTypeOK, ParentInv, LiveInv, [TreeStep]_treeVars PROVE LiveInv'
  OBVIOUS
<1> USE MainAssumption DEF TreeTypeOK, Threads, Phases, ParentInv, LiveInv
<1>1. ASSUME NEW t \in Threads, NEW o \in Objs, New(t, o) PROVE LiveInv'
  BY <1>1 DEF New, Active
<1>2. ASSUME NEW t \in Threads, NEW o \in Objs, NEW w \in Workers, Start(t, o, w) PROVE LiveInv'
  BY <1>2 DEF Start, Active, Holds
<1>3. ASSUME NEW t \in Threads, NEW o \in Objs, Join(t, o) PROVE LiveInv'
  BY <1>3 DEF Join, Active, Awaited
<1>4. ASSUME NEW t \in Threads, NEW o \in Objs, Drop(t, o) PROVE LiveInv'
  <2>1. CASE t \in exited
    BY <1>4, <2>1 DEF Drop, Holds
  <2>2. CASE t \notin exited
    <3>1. Dropped(t, o) /\ (LeftUnused(t, o) \/ \E v \in Workers \cup {None} : LeftAwaited(t, o, v))
      BY <1>4, <2>2, DropEffect, DestroyEffect DEF Dropped
    <3>2. CASE LeftUnused(t, o)
      BY <2>2, <3>1, <3>2 DEF Dropped, LeftUnused
    <3>3. ASSUME NEW v \in Workers \cup {None}, LeftAwaited(t, o, v) PROVE LiveInv'
      BY <2>2, <3>1, <3>3 DEF Dropped, LeftAwaited
    <3> QED
      BY <3>1, <3>2, <3>3
  <2> QED
    BY <2>1, <2>2
<1>5. ASSUME NEW t \in Threads, NEW o \in Objs, JoinChild(t, o) PROVE LiveInv'
  <2>1. /\ phase[t] = "rshutdown" /\ waiting[t] = None /\ o \in children[t]
        /\ UNCHANGED <<phase, object, creator, handle, joined, tasks, doing, exited, freed, misused>>
        /\ LeftUnused(t, o) \/ \E v \in Workers \cup {None} : LeftAwaited(t, o, v)
    BY <1>5, DestroyEffect DEF JoinChild
  <2>2. CASE LeftUnused(t, o)
    BY <2>1, <2>2 DEF LeftUnused
  <2>3. ASSUME NEW v \in Workers \cup {None}, LeftAwaited(t, o, v) PROVE LiveInv'
    BY <2>1, <2>3 DEF LeftAwaited
  <2> QED
    BY <2>1, <2>2, <2>3
<1>6. ASSUME NEW t \in Threads, NEW o \in Objs, NEW k \in Tasks, AddTask(t, o, k) PROVE LiveInv'
  BY <1>6 DEF AddTask, Holds
<1>7. ASSUME NEW t \in Threads, ReturnJoin(t) PROVE LiveInv'
  BY <1>7 DEF ReturnJoin, Joined, FreeDropped, Objects
<1>8. ASSUME NEW t \in Threads, Shutdown(t) PROVE LiveInv'
  BY <1>8 DEF Shutdown, AllDropped
<1>9. ASSUME NEW t \in Threads, EndRequest(t) PROVE LiveInv'
  BY <1>9 DEF EndRequest, Kept, Objects
<1>10. ASSUME NEW w \in Workers, BeginCopy(w) PROVE LiveInv'
  BY <1>10 DEF BeginCopy
<1>11. ASSUME NEW w \in Workers, EndCopy(w) PROVE LiveInv'
  BY <1>11 DEF EndCopy
<1>12. ASSUME NEW w \in Workers, RunTask(w) PROVE LiveInv'
  BY <1>12 DEF RunTask
<1>13. ASSUME NEW w \in Workers, NEW status \in {0, 1}, EndTask(w, status) PROVE LiveInv'
  BY <1>13 DEF EndTask
<1>14. ASSUME NEW w \in Workers, EndLoop(w) PROVE LiveInv'
  BY <1>14 DEF EndLoop
<1>15. ASSUME NEW status \in {0, 1}, EndScript(status) PROVE LiveInv'
  BY <1>15 DEF EndScript, Active
<1>16. CASE UNCHANGED treeVars
  BY <1>16 DEF treeVars
<1> HIDE DEF TreeTypeOK, Threads, Phases, ParentInv, LiveInv
<1>17. QED
  BY <1>1, <1>2, <1>3, <1>4, <1>5, <1>6, <1>7, <1>8, <1>9, <1>10, <1>11, <1>12, <1>13, <1>14, <1>15, <1>16 DEF TreeStep

(* A context enters RSHUTDOWN with every Thread dropped, but for an exit(). *)
LEMMA EndStep ==
  ASSUME "keep" \notin Habits
  PROVE  TreeTypeOK /\ EndInv /\ [TreeStep]_treeVars => EndInv'
<1> SUFFICES ASSUME TreeTypeOK, EndInv, [TreeStep]_treeVars PROVE EndInv'
  OBVIOUS
<1> USE MainAssumption DEF TreeTypeOK, Threads, Phases, EndInv
<1>1. ASSUME NEW t \in Threads, NEW o \in Objs, New(t, o) PROVE EndInv'
  BY <1>1 DEF New, Active
<1>2. ASSUME NEW t \in Threads, NEW o \in Objs, NEW w \in Workers, Start(t, o, w) PROVE EndInv'
  BY <1>2 DEF Start, Active, Holds
<1>3. ASSUME NEW t \in Threads, NEW o \in Objs, Join(t, o) PROVE EndInv'
  BY <1>3 DEF Join, Active, Awaited
<1>4. ASSUME NEW t \in Threads, NEW o \in Objs, Drop(t, o) PROVE EndInv'
  <2>1. CASE t \in exited
    BY <1>4, <2>1 DEF Drop, Holds
  <2>2. CASE t \notin exited
    <3>1. Dropped(t, o) /\ (LeftUnused(t, o) \/ \E v \in Workers \cup {None} : LeftAwaited(t, o, v))
      BY <1>4, <2>2, DropEffect, DestroyEffect DEF Dropped
    <3>2. CASE LeftUnused(t, o)
      BY <2>2, <3>1, <3>2 DEF Dropped, LeftUnused
    <3>3. ASSUME NEW v \in Workers \cup {None}, LeftAwaited(t, o, v) PROVE EndInv'
      BY <2>2, <3>1, <3>3 DEF Dropped, LeftAwaited
    <3> QED
      BY <3>1, <3>2, <3>3
  <2> QED
    BY <2>1, <2>2
<1>5. ASSUME NEW t \in Threads, NEW o \in Objs, JoinChild(t, o) PROVE EndInv'
  <2>1. /\ phase[t] = "rshutdown" /\ waiting[t] = None /\ o \in children[t]
        /\ UNCHANGED <<phase, object, creator, handle, joined, tasks, doing, exited, freed, misused>>
        /\ LeftUnused(t, o) \/ \E v \in Workers \cup {None} : LeftAwaited(t, o, v)
    BY <1>5, DestroyEffect DEF JoinChild
  <2>2. CASE LeftUnused(t, o)
    BY <2>1, <2>2 DEF LeftUnused
  <2>3. ASSUME NEW v \in Workers \cup {None}, LeftAwaited(t, o, v) PROVE EndInv'
    BY <2>1, <2>3 DEF LeftAwaited
  <2> QED
    BY <2>1, <2>2, <2>3
<1>6. ASSUME NEW t \in Threads, NEW o \in Objs, NEW k \in Tasks, AddTask(t, o, k) PROVE EndInv'
  BY <1>6 DEF AddTask, Holds
<1>7. ASSUME NEW t \in Threads, ReturnJoin(t) PROVE EndInv'
  BY <1>7 DEF ReturnJoin, Joined, FreeDropped, Objects
<1>8. ASSUME NEW t \in Threads, Shutdown(t) PROVE EndInv'
  BY <1>8 DEF Shutdown, AllDropped
<1>9. ASSUME NEW t \in Threads, EndRequest(t) PROVE EndInv'
  BY <1>9 DEF EndRequest, Kept, Objects
<1>10. ASSUME NEW w \in Workers, BeginCopy(w) PROVE EndInv'
  BY <1>10 DEF BeginCopy
<1>11. ASSUME NEW w \in Workers, EndCopy(w) PROVE EndInv'
  BY <1>11 DEF EndCopy
<1>12. ASSUME NEW w \in Workers, RunTask(w) PROVE EndInv'
  BY <1>12 DEF RunTask
<1>13. ASSUME NEW w \in Workers, NEW status \in {0, 1}, EndTask(w, status) PROVE EndInv'
  BY <1>13 DEF EndTask
<1>14. ASSUME NEW w \in Workers, EndLoop(w) PROVE EndInv'
  BY <1>14 DEF EndLoop
<1>15. ASSUME NEW status \in {0, 1}, EndScript(status) PROVE EndInv'
  BY <1>15 DEF EndScript, Active
<1>16. CASE UNCHANGED treeVars
  BY <1>16 DEF treeVars
<1> HIDE DEF TreeTypeOK, Threads, Phases, EndInv
<1>17. QED
  BY <1>1, <1>2, <1>3, <1>4, <1>5, <1>6, <1>7, <1>8, <1>9, <1>10, <1>11, <1>12, <1>13, <1>14, <1>15, <1>16 DEF TreeStep

(* Only a Thread whose last worker has ended or never was is freed.        *)
LEMMA FreedStep ==
  ASSUME "keep" \notin Habits, "exit_drop" \notin Habits
  PROVE  TreeTypeOK /\ ParentInv /\ LiveInv /\ EndInv /\ FreedInv /\ [TreeStep]_treeVars => FreedInv'
<1> SUFFICES ASSUME TreeTypeOK, ParentInv, LiveInv, EndInv, FreedInv, [TreeStep]_treeVars PROVE FreedInv'
  OBVIOUS
<1> USE MainAssumption DEF TreeTypeOK, Threads, Phases, ParentInv, LiveInv, EndInv, FreedInv, Objects
<1>1. ASSUME NEW t \in Threads, NEW o \in Objs, New(t, o) PROVE FreedInv'
  BY <1>1 DEF New, Active
<1>2. ASSUME NEW t \in Threads, NEW o \in Objs, NEW w \in Workers, Start(t, o, w) PROVE FreedInv'
  BY <1>2 DEF Start, Active, Holds
<1>3. ASSUME NEW t \in Threads, NEW o \in Objs, Join(t, o) PROVE FreedInv'
  BY <1>3 DEF Join, Active, Awaited
<1>4. ASSUME NEW t \in Threads, NEW o \in Objs, Drop(t, o) PROVE FreedInv'
  <2>1. CASE t \in exited
    BY <1>4, <2>1 DEF Drop, Holds
  <2>2. CASE t \notin exited
    <3>1. Dropped(t, o) /\ (LeftUnused(t, o) \/ \E v \in Workers \cup {None} : LeftAwaited(t, o, v))
      BY <1>4, <2>2, DropEffect, DestroyEffect DEF Dropped
    <3>2. CASE LeftUnused(t, o)
      BY <2>2, <3>1, <3>2 DEF Dropped, LeftUnused
    <3>3. ASSUME NEW v \in Workers \cup {None}, LeftAwaited(t, o, v) PROVE FreedInv'
      BY <2>2, <3>1, <3>3 DEF Dropped, LeftAwaited
    <3> QED
      BY <3>1, <3>2, <3>3
  <2> QED
    BY <2>1, <2>2
<1>5. ASSUME NEW t \in Threads, NEW o \in Objs, JoinChild(t, o) PROVE FreedInv'
  <2>1. /\ phase[t] = "rshutdown" /\ waiting[t] = None /\ o \in children[t]
        /\ UNCHANGED <<phase, object, creator, handle, joined, tasks, doing, exited, freed, misused>>
        /\ LeftUnused(t, o) \/ \E v \in Workers \cup {None} : LeftAwaited(t, o, v)
    BY <1>5, DestroyEffect DEF JoinChild
  <2>2. CASE LeftUnused(t, o)
    BY <2>1, <2>2 DEF LeftUnused
  <2>3. ASSUME NEW v \in Workers \cup {None}, LeftAwaited(t, o, v) PROVE FreedInv'
    BY <2>1, <2>3 DEF LeftAwaited
  <2> QED
    BY <2>1, <2>2, <2>3
<1>6. ASSUME NEW t \in Threads, NEW o \in Objs, NEW k \in Tasks, AddTask(t, o, k) PROVE FreedInv'
  BY <1>6 DEF AddTask, Holds
<1>7. ASSUME NEW t \in Threads, ReturnJoin(t) PROVE FreedInv'
  BY <1>7 DEF ReturnJoin, Joined, FreeDropped, Objects
<1>8. ASSUME NEW t \in Threads, Shutdown(t) PROVE FreedInv'
  BY <1>8 DEF Shutdown, AllDropped
<1>9. ASSUME NEW t \in Threads, EndRequest(t) PROVE FreedInv'
  BY <1>9 DEF EndRequest, Kept, Objects
<1>10. ASSUME NEW w \in Workers, BeginCopy(w) PROVE FreedInv'
  BY <1>10 DEF BeginCopy
<1>11. ASSUME NEW w \in Workers, EndCopy(w) PROVE FreedInv'
  BY <1>11 DEF EndCopy
<1>12. ASSUME NEW w \in Workers, RunTask(w) PROVE FreedInv'
  BY <1>12 DEF RunTask
<1>13. ASSUME NEW w \in Workers, NEW status \in {0, 1}, EndTask(w, status) PROVE FreedInv'
  BY <1>13 DEF EndTask
<1>14. ASSUME NEW w \in Workers, EndLoop(w) PROVE FreedInv'
  BY <1>14 DEF EndLoop
<1>15. ASSUME NEW status \in {0, 1}, EndScript(status) PROVE FreedInv'
  BY <1>15 DEF EndScript, Active
<1>16. CASE UNCHANGED treeVars
  BY <1>16 DEF treeVars
<1> HIDE DEF TreeTypeOK, Threads, Phases, ParentInv, LiveInv, EndInv, FreedInv, Objects
<1>17. QED
  BY <1>1, <1>2, <1>3, <1>4, <1>5, <1>6, <1>7, <1>8, <1>9, <1>10, <1>11, <1>12, <1>13, <1>14, <1>15, <1>16 DEF TreeStep

-----------------------------------------------------------------------------
(* The invariants hold at the start.                                       *)
LEMMA TreeStart == TreeInit => TreeTypeOK /\ ParentInv /\ LiveInv /\ EndInv /\ FreedInv
<1> USE MainAssumption DEF TreeInit, Threads
<1>1. TreeInit => TreeTypeOK
  <2>1. <<>> \in Seq(Tasks)
    OBVIOUS
  <2>2. TreeInit => tasks \in [Objs -> Seq(Tasks)] /\ doing \in [Workers -> Tasks \cup {None}]
    BY <2>1
  <2>3. QED
    BY <2>2 DEF TreeTypeOK, Phases
<1>2. TreeInit => ParentInv /\ LiveInv
  BY DEF ParentInv, LiveInv
<1>3. TreeInit => EndInv /\ FreedInv
  BY DEF EndInv, FreedInv, Objects
<1>4. QED
  BY <1>1, <1>2, <1>3

(* The last worker of every Thread is one its creator will wait for.       *)
LEMMA TreeInvariant == TreeSpec => [](TreeTypeOK /\ ParentInv /\ LiveInv)
<1>1. TreeTypeOK /\ ParentInv /\ LiveInv /\ [TreeStep]_treeVars => (TreeTypeOK /\ ParentInv /\ LiveInv)'
  BY TypeStep, ParentStep, LiveStep
<1>2. QED
  BY <1>1, TreeStart, PTL DEF TreeSpec

(* php_request_shutdown of a context is over only when the last worker of  *)
(* every Thread it has made has ended: RSHUTDOWN and th_free_obj between   *)
(* them miss none, in any program, with any number of threads and any      *)
(* nesting, whether Threads are started once or again, joined or not.      *)
THEOREM Orphanless == TreeSpec => []NoOrphan
<1>1. TreeTypeOK /\ ParentInv /\ LiveInv => NoOrphan
  BY MainAssumption DEF TreeTypeOK, ParentInv, LiveInv, NoOrphan, Threads
<1>2. QED
  BY <1>1, TreeInvariant, PTL

(* The last worker of a Thread copies from a context that is still there,  *)
(* in every program that has dropped its Threads when its request ends,    *)
(* whether its scripts and tasks exit or not.                              *)
THEOREM SourceRemains ==
  ASSUME "keep" \notin Habits
  PROVE  TreeSpec => []SourceLives
<1>1. EndInv /\ TreeTypeOK /\ [TreeStep]_treeVars => EndInv'
  BY EndStep
<1>2. TreeTypeOK /\ ParentInv /\ LiveInv /\ EndInv => SourceLives
  <2> SUFFICES ASSUME TreeTypeOK, ParentInv, LiveInv, EndInv, NEW w \in Workers,
                      phase[w] = "copying", object[w] # None, handle[object[w]] = w
               PROVE  \/ phase[Parent(w)] \in {"running", "ending"}
                      \/ phase[Parent(w)] = "rshutdown" /\ Parent(w) \in exited
    BY DEF SourceLives, Latest
  <2>1. object[w] \in Objs /\ w # None
    BY MainAssumption DEF TreeTypeOK
  <2>2. Parent(w) \in Threads /\ phase[Parent(w)] \in {"running", "ending", "rshutdown", "gone"}
    BY <2>1, MainAssumption DEF TreeTypeOK, ParentInv, Parent
  <2>3. object[w] \in children[Parent(w)] \/ waiting[Parent(w)] = w
    BY <2>1 DEF LiveInv, Parent
  <2>4. phase[Parent(w)] # "gone"
    BY <2>1, <2>2, <2>3 DEF LiveInv
  <2>5. Parent(w) \notin exited => phase[Parent(w)] # "rshutdown"
    BY <2>1, <2>2, <2>3 DEF EndInv
  <2>6. QED
    BY <2>2, <2>4, <2>5
<1>3. QED
  BY <1>1, <1>2, TreeStart, TreeInvariant, PTL DEF TreeSpec

(* No memory of a Thread is freed while its last worker or RSHUTDOWN still *)
(* uses it, in every program that has dropped its Threads when its request *)
(* ends and does not let go of one when its exit_status is not 0.          *)
THEOREM ObjectsLive ==
  ASSUME "keep" \notin Habits, "exit_drop" \notin Habits
  PROVE  TreeSpec => []ObjectLives
<1>1. EndInv /\ TreeTypeOK /\ [TreeStep]_treeVars => EndInv'
  BY EndStep
<1>2. TreeTypeOK /\ ParentInv /\ LiveInv /\ EndInv /\ FreedInv /\ [TreeStep]_treeVars => FreedInv'
  BY FreedStep
<1>3. FreedInv => ObjectLives
  BY DEF FreedInv, ObjectLives
<1>4. QED
  BY <1>1, <1>2, <1>3, TreeStart, TreeInvariant, PTL DEF TreeSpec

-----------------------------------------------------------------------------
(* The tables of every context.                                            *)

(* The tables hold names of their kind, each once.                         *)
TableInv ==
  /\ table \in [Threads -> [KindNames -> Seq(Names)]]
  /\ \A t \in Threads, k \in KindNames : \A i \in 1..Len(table[t][k]) : Kind[table[t][k][i]] = k
  /\ \A t \in Threads, k \in KindNames : \A i, j \in 1..Len(table[t][k]) :
       table[t][k][i] = table[t][k][j] => i = j
  /\ links \in [Workers -> [Classes -> SUBSET Classes]]
  /\ \A w \in Workers : \A x \in Classes : links[w][x] \subseteq Direct[x]
  /\ cursor \in [Workers -> [kind : 1..4, pos : Nat \ {0}, end : Nat]]
  /\ \A w \in Workers : cursor[w].pos <= cursor[w].end + 1
  /\ moved \subseteq Workers /\ promised \in [Workers -> SUBSET Names]

(* The names that a worker need not have.                                  *)
Lacks(w) == Anonymous \cup Shadowed(w)

(* Of the part of the parent's table p that the walk is past, the worker's *)
(* table s has everything that is not in L, and nothing else; what the     *)
(* worker was promised, P, lies behind the walk or still before it.        *)
WalkedTo(s, p, at, j, P, L) ==
  /\ at.kind = j => /\ at.end <= Len(p)
                    /\ \A i \in 1..Len(s) : \E m \in 1..at.pos - 1 : p[m] = s[i]
                    /\ \A m \in 1..at.pos - 1 : p[m] \in L \/ \E i \in 1..Len(s) : s[i] = p[m]
                    /\ \A x \in P : \E m \in 1..at.end : p[m] = x
  /\ at.kind < j => Len(s) = 0 /\ \A x \in P : \E m \in 1..Len(p) : p[m] = x
  /\ at.kind > j => \A x \in P : x \in L \/ \E i \in 1..Len(s) : s[i] = x

Promised(w, j) == {x \in promised[w] : Kind[x] = Order[j]}
Walked(w, j) ==
  WalkedTo(table[w][Order[j]], table[Parent(w)][Order[j]], cursor[w], j, Promised(w, j), Lacks(w))

CopyOf(w) ==
  /\ phase[w] \in {"none", "startup"} => \A k \in KindNames : Len(table[w][k]) = 0
  /\ phase[w] = "startup" /\ phase[Parent(w)] # "gone" => promised[w] \subseteq Has(Parent(w))
  /\ phase[w] = "copying" /\ phase[Parent(w)] # "gone" => \A j \in 1..3 : Walked(w, j)
  /\ phase[w] = "running" => promised[w] \subseteq Has(w) \cup Lacks(w)
CopyInv == \A w \in Workers : CopyOf(w)

(* A class comes after the classes it refers to, and is linked to them.    *)
Ordered(s) == \A i \in 1..Len(s) : \A y \in Direct[s[i]] : \E j \in 1..i - 1 : s[j] = y
LinkInv ==
  /\ \A t \in Threads : Ordered(table[t]["class"])
  /\ \A w \in Workers : \A i \in 1..Len(table[w]["class"]) :
       links[w][table[w]["class"][i]] = Direct[table[w]["class"][i]]

-----------------------------------------------------------------------------
(* The kinds of names, in the order they are copied in.                    *)
LEMMA OrderFacts ==
  /\ DOMAIN Order = 1..3 /\ Len(Order) = 3
  /\ Order[1] = "function" /\ Order[2] = "class" /\ Order[3] = "constant"
  /\ KindNames = {"function", "class", "constant"}
  /\ \A i, j \in 1..3 : Order[i] = Order[j] => i = j
<1>1. DOMAIN Order = 1..3 /\ Len(Order) = 3 /\ Order[1] = "function" /\ Order[2] = "class" /\ Order[3] = "constant"
  BY DEF Order
<1>2. KindNames = {"function", "class", "constant"}
  BY <1>1 DEF KindNames
<1>3. QED
  BY <1>1, <1>2

(* What Append does to each index.                                         *)
LEMMA AppendFacts ==
  ASSUME NEW S, NEW s \in Seq(S), NEW x \in S
  PROVE  /\ Append(s, x) \in Seq(S) /\ Len(Append(s, x)) = Len(s) + 1
         /\ \A i \in 1..Len(s) : Append(s, x)[i] = s[i]
         /\ Append(s, x)[Len(s) + 1] = x
OBVIOUS

(* Appending a new element makes no repetition.                            *)
LEMMA AppendDistinct ==
  ASSUME NEW S, NEW s \in Seq(S), NEW x \in S, \A i \in 1..Len(s) : s[i] # x,
         \A i, j \in 1..Len(s) : s[i] = s[j] => i = j
  PROVE  \A i, j \in 1..Len(Append(s, x)) : Append(s, x)[i] = Append(s, x)[j] => i = j
BY AppendFacts

(* The element the walk is at is none that it has been at before.          *)
LEMMA NextIsNew ==
  ASSUME NEW S, NEW s \in Seq(S), NEW p \in Seq(S), NEW n \in Nat, NEW e \in Nat,
         n \in 1..e, e <= Len(p), \A i \in 1..Len(s) : \E m \in 1..n - 1 : p[m] = s[i],
         \A i, j \in 1..Len(p) : p[i] = p[j] => i = j
  PROVE  n \in 1..Len(p) /\ n <= Len(p) /\ p[n] \in S /\ \A i \in 1..Len(s) : s[i] # p[n]
OBVIOUS

(* A context has a name when the table of the name's kind has it.          *)
LEMMA HasKind ==
  ASSUME TableInv, NEW t \in Threads, NEW x \in Names
  PROVE  x \in Has(t) <=> \E i \in 1..Len(table[t][Kind[x]]) : table[t][Kind[x]][i] = x
<1>1. Kind[x] \in KindNames
  BY NamesAssumption DEF KindNames
<1>2. \A k \in KindNames : table[t][k] \in Seq(Names)
  BY DEF TableInv
<1>3. \A k \in KindNames : x \in ToSet(table[t][k]) <=> \E i \in 1..Len(table[t][k]) : table[t][k][i] = x
  BY <1>2 DEF ToSet
<1>4. x \in Has(t) <=> \E k \in KindNames : x \in ToSet(table[t][k])
  BY DEF Has
<1>5. \A k \in KindNames : \A i \in 1..Len(table[t][k]) : Kind[table[t][k][i]] = k
  BY DEF TableInv
<1>6. QED
  BY <1>1, <1>3, <1>4, <1>5

(* Every step of the composition is a step of the tree.                    *)
LEMMA TreeOfSpec == Spec => TreeSpec
<1>1. Init => TreeInit
  BY DEF Init
<1>2. [Next]_vars => [TreeStep]_treeVars
  <2> SUFFICES ASSUME [Next]_vars, treeVars' # treeVars PROVE TreeStep
    BY DEF treeVars
  <2>1. ASSUME NEW t \in Threads, Continue(t) PROVE TreeStep
    BY <2>1 DEF Continue, StartCopying, CopyEntry, NextTable, EndCopying, EndContext, TreeStep
  <2>2. ASSUME NEW t \in Threads, Program(t) PROVE TreeStep
    BY <2>2 DEF Program, StartWorker, Declare, TreeStep
  <2>3. QED
    BY <2>1, <2>2 DEF Next, Finished, vars, TreeStep
<1>3. QED
  BY <1>1, <1>2, PTL DEF Spec, TreeSpec

-----------------------------------------------------------------------------
(* Table k of context t grows by x.                                        *)
Grows(t, k, x) ==
  /\ table' \in [Threads -> [KindNames -> Seq(Names)]]
  /\ \A t2 \in Threads, k2 \in KindNames :
       table'[t2][k2] = IF t2 = t /\ k2 = k THEN Append(table[t][k], x) ELSE table[t2][k2]

(* An appended name leaves the rest of the tables as they are.             *)
LEMMA GrowsEffect ==
  ASSUME TableInv, NEW t \in Threads, NEW k \in KindNames, NEW x \in Names,
         table' = [table EXCEPT ![t][k] = Append(@, x)]
  PROVE  Grows(t, k, x)
<1>1. table \in [Threads -> [KindNames -> Seq(Names)]] /\ Append(table[t][k], x) \in Seq(Names)
  BY AppendFacts DEF TableInv
<1>2. QED
  BY <1>1 DEF Grows

(* Declare: a new name, in the table of its kind.                          *)
Declared(t, x) ==
  /\ Grows(t, Kind[x], x) /\ Kind[x] \in KindNames /\ phase[t] = "running"
  /\ \A i \in 1..Len(table[t][Kind[x]]) : table[t][Kind[x]][i] # x
  /\ "forward" \notin Habits =>
       \A y \in Direct[x] : \E i \in 1..Len(table[t]["class"]) : table[t]["class"][i] = y
  /\ UNCHANGED <<treeVars, cursor, promised>>

(* Declare appends one name that the table does not have.                  *)
LEMMA DeclareEffect ==
  ASSUME TableInv, NEW t \in Threads, NEW x \in Names, Declare(t, x)
  PROVE  Declared(t, x)
<1>1. Kind[x] \in KindNames /\ \A y \in Direct[x] : y \in Names /\ Kind[y] = "class"
  BY NamesAssumption DEF KindNames, Classes
<1>2. Grows(t, Kind[x], x)
  BY <1>1, GrowsEffect DEF Declare
<1>3. \A i \in 1..Len(table[t][Kind[x]]) : table[t][Kind[x]][i] # x
  BY HasKind DEF Declare
<1>4. "forward" \notin Habits =>
        \A y \in Direct[x] : \E i \in 1..Len(table[t]["class"]) : table[t]["class"][i] = y
  BY <1>1, HasKind DEF Declare
<1>5. QED
  BY <1>1, <1>2, <1>3, <1>4 DEF Declared, Declare, Active

(* CopyEntry: the entry that comes next in the parent's table, which the   *)
(* worker takes or skips.                                                  *)
Visited(w, j, x) ==
  /\ phase[w] = "copying" /\ cursor[w].kind = j
  /\ cursor[w].pos \in 1..cursor[w].end /\ cursor[w].pos <= Len(table[Parent(w)][Order[j]])
  /\ x = table[Parent(w)][Order[j]][cursor[w].pos] /\ Kind[x] = Order[j]
  /\ \A i \in 1..Len(table[w][Order[j]]) : table[w][Order[j]][i] # x
  /\ cursor' = [cursor EXCEPT ![w].pos = @ + 1]
  /\ Parent(w) \in Threads \ {w} /\ phase[Parent(w)] \notin {"copying", "gone"}
  /\ UNCHANGED <<treeVars, moved, promised>>
Copied(w, j, x) == Visited(w, j, x) /\ Grows(w, Order[j], x) /\ ~Skipped(w, x)
PassedBy(w, j, x) == Visited(w, j, x) /\ UNCHANGED <<table, links>> /\ Skipped(w, x)

(* A worker that copies has a creator of its own.                          *)
LEMMA ParentFacts ==
  ASSUME TreeTypeOK, ParentInv, NEW w \in Workers, phase[w] \in {"startup", "copying"}
  PROVE  /\ object[w] \in Objs /\ object[w] # None /\ Parent(w) \in Threads \ {w}
         /\ phase[Parent(w)] \in {"running", "ending", "rshutdown", "gone"}
BY MainAssumption DEF TreeTypeOK, ParentInv, Parent, Threads

(* CopyEntry appends the name the cursor is at, one the worker has not, or *)
(* appends nothing.                                                        *)
LEMMA CopyEntryEffect ==
  ASSUME TreeTypeOK, ParentInv, TableInv, CopyInv, NEW w \in Workers, CopyEntry(w)
  PROVE  \E j \in 1..3, x \in Names : Copied(w, j, x) \/ PassedBy(w, j, x)
<1> DEFINE j == cursor[w].kind
           x == table[Parent(w)][Order[j]][cursor[w].pos]
<1>1. /\ phase[w] = "copying" /\ phase[Parent(w)] # "gone"
      /\ j \in 1..3 /\ cursor[w].pos <= cursor[w].end /\ Order[j] \in KindNames
  <2>1. phase[w] = "copying" /\ phase[Parent(w)] # "gone" /\ j \in DOMAIN Order /\ cursor[w].pos <= cursor[w].end
    BY DEF CopyEntry
  <2>2. QED
    BY <2>1, OrderFacts
<1>2. Parent(w) \in Threads \ {w} /\ phase[Parent(w)] \notin {"copying", "gone"}
  BY <1>1, ParentFacts
<1>3. Walked(w, j)
  BY <1>1 DEF CopyInv, CopyOf
<1>4. cursor[w].pos \in 1..cursor[w].end
  BY <1>1 DEF TableInv
<1>5. /\ \A i \in 1..Len(table[w][Order[j]]) :
           \E m \in 1..cursor[w].pos - 1 : table[Parent(w)][Order[j]][m] = table[w][Order[j]][i]
      /\ cursor[w].end <= Len(table[Parent(w)][Order[j]])
  BY <1>3 DEF Walked, WalkedTo
<1>6. table[Parent(w)][Order[j]] \in Seq(Names) /\ table[w][Order[j]] \in Seq(Names)
  BY <1>1, <1>2 DEF TableInv, Threads
<1>7. cursor[w].end \in Nat /\ cursor[w].pos \in Nat
  BY DEF TableInv
<1>8. \A i, n \in 1..Len(table[Parent(w)][Order[j]]) :
        table[Parent(w)][Order[j]][i] = table[Parent(w)][Order[j]][n] => i = n
  BY <1>1, <1>2 DEF TableInv
<1>9. /\ cursor[w].pos \in 1..Len(table[Parent(w)][Order[j]])
      /\ cursor[w].pos <= Len(table[Parent(w)][Order[j]]) /\ x \in Names
      /\ \A i \in 1..Len(table[w][Order[j]]) : table[w][Order[j]][i] # x
  <2> DEFINE s == table[w][Order[j]]
             p == table[Parent(w)][Order[j]]
             n == cursor[w].pos
             e == cursor[w].end
  <2>1. /\ s \in Seq(Names) /\ p \in Seq(Names) /\ n \in Nat /\ e \in Nat
        /\ n \in 1..e /\ e <= Len(p) /\ \A i \in 1..Len(s) : \E m \in 1..n - 1 : p[m] = s[i]
        /\ \A i, m \in 1..Len(p) : p[i] = p[m] => i = m
    BY <1>4, <1>5, <1>6, <1>7, <1>8
  <2> HIDE DEF s, p, n, e
  <2>2. n \in 1..Len(p) /\ n <= Len(p) /\ p[n] \in Names /\ \A i \in 1..Len(s) : s[i] # p[n]
    BY <2>1, NextIsNew
  <2>3. QED
    BY <2>2 DEF s, p, n
<1>10. Kind[x] = Order[j]
  <2>1. \A t \in Threads, k \in KindNames : \A i \in 1..Len(table[t][k]) : Kind[table[t][k][i]] = k
    BY DEF TableInv
  <2>2. QED
    BY <1>1, <1>2, <1>9, <2>1
<1>11. Visited(w, j, x)
  BY <1>1, <1>2, <1>4, <1>9, <1>10 DEF Visited, CopyEntry
<1>12. CASE Skipped(w, x)
  BY <1>1, <1>9, <1>11, <1>12 DEF PassedBy, CopyEntry
<1>13. CASE ~Skipped(w, x)
  <2>1. table' = [table EXCEPT ![w][Order[j]] = Append(@, x)]
    BY <1>13 DEF CopyEntry
  <2>2. Grows(w, Order[j], x)
    BY <1>1, <1>9, <2>1, GrowsEffect DEF Threads
  <2>3. QED
    BY <1>1, <1>9, <1>11, <1>13, <2>2 DEF Copied
<1>14. QED
  BY <1>12, <1>13

(* The steps of the tree that leave the tables alone.                      *)
Quiet ==
  /\ UNCHANGED copyVars
  /\ \A t \in Threads : phase'[t] = phase[t] \/ (phase[t] # "gone" /\ phase'[t] \in {"ending", "rshutdown"})
  /\ \A w \in Workers : phase[w] # "none" => Parent(w)' = Parent(w)

(* The tree's own steps leave tables, cursors and promises alone.          *)
LEMMA QuietSteps ==
  ASSUME TreeTypeOK, ParentInv, UNCHANGED copyVars,
         \/ \E t \in Threads, o \in Objs : New(t, o) \/ Join(t, o) \/ Drop(t, o) \/ JoinChild(t, o)
         \/ \E t \in Threads, o \in Objs, k \in Tasks : AddTask(t, o, k)
         \/ \E t \in Threads : ReturnJoin(t) \/ Shutdown(t)
         \/ \E w \in Workers : RunTask(w) \/ EndLoop(w) \/ \E status \in {0, 1} : EndTask(w, status)
         \/ \E status \in {0, 1} : EndScript(status)
  PROVE  Quiet
<1> USE DEF TreeTypeOK, Quiet, Parent, Threads
<1>1. ASSUME NEW t \in Threads, NEW o \in Objs, New(t, o) PROVE Quiet
  <2>1. \A w \in Workers : phase[w] # "none" => creator[object[w]] # None /\ object[w] \in Objs
    BY MainAssumption DEF ParentInv
  <2>2. QED
    BY <1>1, <2>1 DEF New
<1>2. ASSUME NEW t \in Threads, NEW o \in Objs, Join(t, o) \/ \E k \in Tasks : AddTask(t, o, k) PROVE Quiet
  BY <1>2 DEF Join, AddTask
<1>3. ASSUME NEW t \in Threads, NEW o \in Objs, Drop(t, o) \/ JoinChild(t, o) PROVE Quiet
  BY <1>3 DEF Drop, JoinChild
<1>4. ASSUME NEW t \in Threads, ReturnJoin(t) \/ Shutdown(t) PROVE Quiet
  BY <1>4 DEF ReturnJoin, Shutdown
<1>5. ASSUME NEW w \in Workers, RunTask(w) \/ EndLoop(w) \/ \E status \in {0, 1} : EndTask(w, status) PROVE Quiet
  BY <1>5 DEF RunTask, EndTask, EndLoop
<1>6. ASSUME NEW status \in {0, 1}, EndScript(status) PROVE Quiet
  BY <1>6 DEF EndScript, Active
<1>7. QED
  BY <1>1, <1>2, <1>3, <1>4, <1>5, <1>6

(* Every step changes the tables, a cursor or a promise, or is quiet.      *)
LEMMA NextCases ==
  ASSUME TreeTypeOK, ParentInv, [Next]_vars
  PROVE  \/ \E t \in Threads, x \in Names : Declare(t, x)
         \/ \E t \in Threads, o \in Objs, w \in Workers : StartWorker(t, o, w)
         \/ \E w \in Workers : StartCopying(w) \/ CopyEntry(w) \/ NextTable(w) \/ EndCopying(w)
         \/ \E t \in Threads : EndContext(t)
         \/ Quiet
<1>1. CASE UNCHANGED vars
  BY <1>1 DEF vars, treeVars, Quiet, Parent
<1>2. ASSUME NEW t \in Threads, Continue(t)
      PROVE  \/ \E w \in Workers : StartCopying(w) \/ CopyEntry(w) \/ NextTable(w) \/ EndCopying(w)
             \/ EndContext(t)
             \/ Quiet
  BY <1>2, QuietSteps DEF Continue
<1>3. ASSUME NEW t \in Threads, Program(t)
      PROVE  \/ \E x \in Names : Declare(t, x)
             \/ \E o \in Objs, w \in Workers : StartWorker(t, o, w)
             \/ Quiet
  BY <1>3, QuietSteps DEF Program
<1>4. ASSUME NEW status \in {0, 1}, EndScript(status), UNCHANGED copyVars PROVE Quiet
  BY <1>4, QuietSteps
<1>5. QED
  BY <1>1, <1>2, <1>3, <1>4 DEF Next, Finished

-----------------------------------------------------------------------------
Distinct ==
  /\ table \in [Threads -> [KindNames -> Seq(Names)]]
  /\ \A t \in Threads, k \in KindNames : \A i \in 1..Len(table[t][k]) : Kind[table[t][k][i]] = k
  /\ \A t \in Threads, k \in KindNames : \A i, j \in 1..Len(table[t][k]) :
       table[t][k][i] = table[t][k][j] => i = j

(* Names stay distinct, and of their table's kind.                         *)
LEMMA GrowsDistinct ==
  ASSUME Distinct, NEW t \in Threads, NEW k \in KindNames, NEW x \in Names, Grows(t, k, x), Kind[x] = k,
         \A i \in 1..Len(table[t][k]) : table[t][k][i] # x
  PROVE  Distinct'
<1>1. table' \in [Threads -> [KindNames -> Seq(Names)]]
  BY DEF Grows
<1>2. ASSUME NEW t2 \in Threads, NEW k2 \in KindNames
      PROVE  /\ \A i \in 1..Len(table'[t2][k2]) : Kind[table'[t2][k2][i]] = k2
             /\ \A i, j \in 1..Len(table'[t2][k2]) : table'[t2][k2][i] = table'[t2][k2][j] => i = j
  <2>1. CASE t2 = t /\ k2 = k
    <3> DEFINE s == table[t][k]
               a == table'[t][k]
    <3>1. a = Append(s, x) /\ s \in Seq(Names)
      <4>1. a = Append(s, x)
        BY DEF Grows
      <4>2. s \in Seq(Names)
        BY DEF Distinct
      <4>3. QED
        BY <4>1, <4>2
    <3>2. /\ \A i \in 1..Len(s) : Kind[s[i]] = k /\ s[i] # x
          /\ \A i, j \in 1..Len(s) : s[i] = s[j] => i = j
      BY DEF Distinct
    <3> HIDE DEF s, a
    <3>3. /\ \A i \in 1..Len(a) : Kind[a[i]] = k
          /\ \A i, j \in 1..Len(a) : a[i] = a[j] => i = j
      BY <3>1, <3>2, AppendFacts, AppendDistinct
    <3>4. QED
      BY <2>1, <3>3 DEF a
  <2>2. CASE ~(t2 = t /\ k2 = k)
    <3>1. table'[t2][k2] = table[t2][k2]
      BY <2>2 DEF Grows
    <3>2. QED
      BY <3>1 DEF Distinct
  <2>3. QED
    BY <2>1, <2>2
<1>3. QED
  BY <1>1, <1>2 DEF Distinct

(* The tables are typed.                                                   *)
LEMMA TableStep == TreeTypeOK /\ ParentInv /\ TableInv /\ CopyInv /\ [Next]_vars => TableInv'
<1> SUFFICES ASSUME TreeTypeOK, ParentInv, TableInv, CopyInv, [Next]_vars PROVE TableInv'
  OBVIOUS
<1> DEFINE Rest == /\ links \in [Workers -> [Classes -> SUBSET Classes]]
                   /\ \A w \in Workers : \A x \in Classes : links[w][x] \subseteq Direct[x]
                   /\ cursor \in [Workers -> [kind : 1..4, pos : Nat \ {0}, end : Nat]]
                   /\ \A w \in Workers : cursor[w].pos <= cursor[w].end + 1
                   /\ moved \subseteq Workers /\ promised \in [Workers -> SUBSET Names]
                 <1>a. Distinct /\ Rest
  BY DEF Distinct, TableInv
<1> SUFFICES Distinct' /\ Rest'
  BY DEF Distinct, TableInv
<1>b. \A t \in Threads : Has(t) \subseteq Names
  <2>1. \A t \in Threads, k \in KindNames : table[t][k] \in Seq(Names)
    BY DEF TableInv
  <2>2. QED
    BY <2>1 DEF Has, ToSet
<1>c. \A x \in Classes : Direct[x] \subseteq Classes
  BY NamesAssumption DEF Classes
<1>1. ASSUME NEW t \in Threads, NEW x \in Names, Declare(t, x) PROVE Distinct' /\ Rest'
  <2>1. Declared(t, x)
    BY <1>1, DeclareEffect
  <2>2. Distinct'
    BY <2>1, <1>a, GrowsDistinct DEF Declared
  <2>3. /\ links' = IF t \in Workers /\ x \in Classes THEN [links EXCEPT ![t][x] = Direct[x]] ELSE links
        /\ moved' \subseteq Workers
    BY <1>1, <1>a DEF Declare, Walking
  <2>4. /\ links' \in [Workers -> [Classes -> SUBSET Classes]]
        /\ \A w \in Workers : \A y \in Classes : links'[w][y] \subseteq Direct[y]
    BY <2>3, <1>a, <1>c
  <2>5. QED
    BY <1>a, <2>1, <2>2, <2>3, <2>4 DEF Declared
<1>2. ASSUME NEW t \in Threads, NEW o \in Objs, NEW w \in Workers, StartWorker(t, o, w) PROVE Distinct' /\ Rest'
  BY <1>2, <1>a, <1>b DEF StartWorker, Distinct
<1>3. \A w \in Workers, i \in 1..4 : phase[w] \in {"startup", "copying"} =>
        AtTable(w, i) \in [kind : 1..4, pos : {1}, end : Nat]
  <2>1. \A w \in Workers : phase[w] \in {"startup", "copying"} => Parent(w) \in Threads
    BY ParentFacts
  <2>2. \A t \in Threads, k \in KindNames : Len(table[t][k]) \in Nat
    BY DEF TableInv
  <2>3. QED
    BY <2>1, <2>2, OrderFacts DEF AtTable
<1>4. ASSUME NEW w \in Workers, StartCopying(w) PROVE Distinct' /\ Rest'
  <2>1. AtTable(w, 1) \in [kind : 1..4, pos : {1}, end : Nat]
    <3>1. 1 \in 1..4 /\ phase[w] = "startup"
      BY <1>4 DEF StartCopying, BeginCopy
    <3>2. QED
      BY <1>3, <3>1
  <2>2. PICK c \in [kind : 1..4, pos : {1}, end : Nat] : cursor' = [cursor EXCEPT ![w] = c]
    BY <1>4, <2>1 DEF StartCopying
  <2>3. QED
    BY <1>4, <1>a, <2>2 DEF StartCopying, Distinct
<1>5. ASSUME NEW w \in Workers, NextTable(w) PROVE Distinct' /\ Rest'
  <2>1. cursor[w].kind + 1 \in 1..4
    BY <1>5, OrderFacts DEF NextTable
  <2>2. PICK c \in [kind : 1..4, pos : {1}, end : Nat] : cursor' = [cursor EXCEPT ![w] = c]
    BY <1>5, <1>3, <2>1 DEF NextTable
  <2>3. QED
    BY <1>5, <1>a, <2>2 DEF NextTable, Distinct
<1>6. ASSUME NEW w \in Workers, CopyEntry(w) PROVE Distinct' /\ Rest'
  <2>1. PICK j \in 1..3, x \in Names : Copied(w, j, x) \/ PassedBy(w, j, x)
    BY <1>6, CopyEntryEffect
  <2>2. Order[j] \in KindNames /\ w \in Threads /\ Visited(w, j, x)
    BY <2>1, OrderFacts DEF Threads, Copied, PassedBy
  <2>3. Distinct'
    <3>1. Kind[x] = Order[j] /\ \A i \in 1..Len(table[w][Order[j]]) : table[w][Order[j]][i] # x
      BY <2>2 DEF Visited
    <3>2. CASE Copied(w, j, x)
      BY <2>2, <3>1, <3>2, <1>a, GrowsDistinct DEF Copied
    <3>3. CASE PassedBy(w, j, x)
      BY <3>3, <1>a DEF PassedBy, Distinct
    <3>4. QED
      BY <2>1, <3>2, <3>3
  <2>4. links' = links \/ (Order[j] = "class" /\ links' = [links EXCEPT ![w][x] = LinkedTo(w, x)])
    BY <1>6, <2>2 DEF Visited, CopyEntry
  <2>5. Order[j] = "class" => x \in Classes /\ LinkedTo(w, x) \subseteq Direct[x]
    BY <2>2 DEF Visited, Classes, LinkedTo
  <2>6. /\ links' \in [Workers -> [Classes -> SUBSET Classes]]
        /\ \A v \in Workers : \A y \in Classes : links'[v][y] \subseteq Direct[y]
    <3>1. CASE links' = links
      BY <3>1, <1>a
    <3>2. CASE Order[j] = "class" /\ links' = [links EXCEPT ![w][x] = LinkedTo(w, x)]
      BY <2>5, <3>2, <1>a, <1>c
    <3>3. QED
      BY <2>4, <3>1, <3>2
  <2>7. /\ cursor' \in [Workers -> [kind : 1..4, pos : Nat \ {0}, end : Nat]]
        /\ \A v \in Workers : cursor'[v].pos <= cursor'[v].end + 1
    <3>1. cursor[w] \in [kind : 1..4, pos : Nat \ {0}, end : Nat] /\ cursor[w].pos \in 1..cursor[w].end
      BY <2>2, <1>a DEF Visited
    <3>2. cursor' = [cursor EXCEPT ![w] = [cursor[w] EXCEPT !.pos = cursor[w].pos + 1]]
      BY <2>2 DEF Visited
    <3>3. QED
      BY <3>1, <3>2, <1>a
  <2>8. QED
    BY <1>a, <2>2, <2>3, <2>6, <2>7 DEF Visited
<1>7. ASSUME NEW w \in Workers, EndCopying(w) PROVE Distinct' /\ Rest'
  BY <1>7, <1>a DEF EndCopying, copyVars, Distinct
<1>8. ASSUME NEW t \in Threads, EndContext(t) PROVE Distinct' /\ Rest'
  <2>1. table' = [table EXCEPT ![t] = NoTable] /\ NoTable \in [KindNames -> Seq(Names)]
        /\ \A k \in KindNames : Len(NoTable[k]) = 0
    BY <1>8 DEF EndContext, NoTable
  <2>2. Distinct'
    <3>1. table' \in [Threads -> [KindNames -> Seq(Names)]]
      BY <2>1, <1>a DEF Distinct
    <3>2. \A u \in Threads : table'[u] = IF u = t THEN NoTable ELSE table[u]
      BY <2>1, <1>a DEF Distinct
    <3>3. \A u \in Threads, k \in KindNames : Len(table'[u][k]) = 0 \/ table'[u][k] = table[u][k]
      BY <2>1, <3>2
    <3>4. ASSUME NEW u \in Threads, NEW k \in KindNames
          PROVE  /\ \A i \in 1..Len(table'[u][k]) : Kind[table'[u][k][i]] = k
                 /\ \A i, j \in 1..Len(table'[u][k]) : table'[u][k][i] = table'[u][k][j] => i = j
      <4>1. CASE Len(table'[u][k]) = 0
        BY <4>1
      <4>2. CASE table'[u][k] = table[u][k]
        BY <4>2, <1>a DEF Distinct
      <4>3. QED
        BY <3>3, <4>1, <4>2
    <3>5. QED
      BY <3>1, <3>4 DEF Distinct
  <2>3. /\ links' \in [Workers -> [Classes -> SUBSET Classes]]
        /\ \A w \in Workers : \A x \in Classes : links'[w][x] \subseteq Direct[x]
    BY <1>8, <1>a DEF EndContext, NoLinks
  <2>4. promised' \in [Workers -> SUBSET Names]
    BY <1>8, <1>a DEF EndContext
  <2>5. QED
    BY <1>8, <1>a, <2>2, <2>3, <2>4 DEF EndContext
<1>9. CASE Quiet
  BY <1>9, <1>a DEF Quiet, copyVars, Distinct
<1>10. QED
  BY <1>1, <1>2, <1>4, <1>5, <1>6, <1>7, <1>8, <1>9, NextCases

-----------------------------------------------------------------------------
(* The walk and the table it goes along: the parent adds at the end, the   *)
(* worker takes the next entry, the worker goes on to the next table.      *)
LEMMA ParentGrows ==
  ASSUME NEW S, NEW s \in Seq(S), NEW p \in Seq(S), NEW at \in [kind : 1..4, pos : Nat \ {0}, end : Nat],
         NEW j \in 1..3, NEW P, NEW L, NEW x \in S, at.pos <= at.end + 1, WalkedTo(s, p, at, j, P, L)
  PROVE  WalkedTo(s, Append(p, x), at, j, P, L)
<1> DEFINE q == Append(p, x)
<1>1. /\ Len(q) = Len(p) + 1 /\ Len(s) \in Nat /\ Len(p) \in Nat
      /\ \A i \in 1..Len(p) : q[i] = p[i]
  BY AppendFacts
<1> SUFFICES WalkedTo(s, q, at, j, P, L)
  OBVIOUS
<1> HIDE DEF q
<1>2. CASE at.kind = j
  <2>1. at.end <= Len(p) /\ \A m \in 1..at.end : q[m] = p[m]
    <3>1. at.end <= Len(p)
      BY <1>2 DEF WalkedTo
    <3>2. QED
      BY <1>1, <3>1
  <2>2. \A m \in 1..at.pos - 1 : q[m] = p[m]
    BY <2>1
  <2>3. at.end <= Len(q) /\ \A y \in P : \E m \in 1..at.end : q[m] = y
    BY <1>1, <1>2, <2>1 DEF WalkedTo
  <2>4. /\ \A i \in 1..Len(s) : \E m \in 1..at.pos - 1 : q[m] = s[i]
        /\ \A m \in 1..at.pos - 1 : q[m] \in L \/ \E i \in 1..Len(s) : s[i] = q[m]
    <3>1. \A i \in 1..Len(s) : \E m \in 1..at.pos - 1 : p[m] = s[i]
      BY <1>2 DEF WalkedTo
    <3>2. \A m \in 1..at.pos - 1 : p[m] \in L \/ \E i \in 1..Len(s) : s[i] = p[m]
      BY <1>2 DEF WalkedTo
    <3>3. \A i \in 1..Len(s) : \E m \in 1..at.pos - 1 : q[m] = s[i]
      BY <3>1, <2>2
    <3>4. QED
      BY <2>2, <3>2, <3>3
  <2>5. QED
    BY <1>2, <2>3, <2>4 DEF WalkedTo
<1>3. CASE at.kind < j
  <2>1. \A y \in P : \E i \in 1..Len(p) : p[i] = y
    BY <1>3 DEF WalkedTo
  <2>2. \A y \in P : \E i \in 1..Len(q) : q[i] = y
    BY <2>1, <1>1
  <2>3. QED
    BY <1>3, <2>2 DEF WalkedTo
<1>4. CASE at.kind > j
  BY <1>4 DEF WalkedTo
<1>5. at.kind = j \/ at.kind < j \/ at.kind > j
  OBVIOUS
<1>6. QED
  BY <1>2, <1>3, <1>4, <1>5

(* What need not be copied may grow.                                       *)
LEMMA LacksMore ==
  ASSUME NEW s, NEW p, NEW at, NEW j, NEW P, NEW L, NEW M, L \subseteq M, WalkedTo(s, p, at, j, P, L)
  PROVE  WalkedTo(s, p, at, j, P, M)
BY DEF WalkedTo

(* A walk that copies one entry is still a walk.                           *)
LEMMA WalkOn ==
  ASSUME NEW S, NEW s \in Seq(S), NEW p \in Seq(S), NEW at \in [kind : 1..4, pos : Nat \ {0}, end : Nat],
         NEW j \in 1..3, NEW P, NEW L, at.kind = j, at.pos \in 1..at.end, WalkedTo(s, p, at, j, P, L)
  PROVE  WalkedTo(Append(s, p[at.pos]), p, [at EXCEPT !.pos = @ + 1], j, P, L)
<1> DEFINE a == Append(s, p[at.pos])
           to == [at EXCEPT !.pos = @ + 1]
<1>1. p[at.pos] \in S /\ Len(s) \in Nat /\ at.pos \in Nat \ {0} /\ at.end \in Nat
  BY DEF WalkedTo
<1>2. /\ Len(a) = Len(s) + 1 /\ \A i \in 1..Len(s) : a[i] = s[i]
      /\ a[Len(s) + 1] = p[at.pos]
  BY <1>1, AppendFacts
<1>3. to.kind = j /\ to.end = at.end /\ to.pos - 1 = at.pos
  BY <1>1
<1> HIDE DEF a, to
<1>4. \A i \in 1..Len(a) : \E m \in 1..at.pos : p[m] = a[i]
  <2> SUFFICES ASSUME NEW i \in 1..Len(a) PROVE \E m \in 1..at.pos : p[m] = a[i]
    OBVIOUS
  <2>1. CASE i = Len(s) + 1
    BY <1>1, <1>2, <2>1
  <2>2. CASE i \in 1..Len(s)
    <3>1. PICK m \in 1..at.pos - 1 : p[m] = s[i]
      BY <2>2 DEF WalkedTo
    <3>2. QED
      BY <1>1, <1>2, <2>2, <3>1
  <2>3. QED
    BY <1>1, <1>2, <2>1, <2>2
<1>5. \A m \in 1..at.pos : p[m] \in L \/ \E i \in 1..Len(a) : a[i] = p[m]
  <2> SUFFICES ASSUME NEW m \in 1..at.pos, p[m] \notin L PROVE \E i \in 1..Len(a) : a[i] = p[m]
    OBVIOUS
  <2>1. CASE m = at.pos
    BY <1>1, <1>2, <2>1
  <2>2. CASE m \in 1..at.pos - 1
    <3>1. PICK i \in 1..Len(s) : s[i] = p[m]
      BY <2>2 DEF WalkedTo
    <3>2. QED
      BY <1>1, <1>2, <3>1
  <2>3. QED
    BY <1>1, <2>1, <2>2
<1>6. at.end <= Len(p) /\ \A x \in P : \E m \in 1..at.end : p[m] = x
  BY DEF WalkedTo
<1>7. WalkedTo(a, p, to, j, P, L)
  BY <1>3, <1>4, <1>5, <1>6 DEF WalkedTo
<1>8. QED
  BY <1>7 DEF a, to

(* So is one that skips an entry.                                          *)
LEMMA WalkPast ==
  ASSUME NEW S, NEW s \in Seq(S), NEW p \in Seq(S), NEW at \in [kind : 1..4, pos : Nat \ {0}, end : Nat],
         NEW j \in 1..3, NEW P, NEW L, at.kind = j, at.pos \in 1..at.end, WalkedTo(s, p, at, j, P, L),
         p[at.pos] \in L \/ \E i \in 1..Len(s) : s[i] = p[at.pos]
  PROVE  WalkedTo(s, p, [at EXCEPT !.pos = @ + 1], j, P, L)
<1> DEFINE to == [at EXCEPT !.pos = @ + 1]
<1>1. to.kind = j /\ to.end = at.end /\ to.pos - 1 = at.pos /\ at.pos \in Nat \ {0} /\ Len(s) \in Nat
  OBVIOUS
<1>2. \A i \in 1..Len(s) : \E m \in 1..at.pos : p[m] = s[i]
  <2> SUFFICES ASSUME NEW i \in 1..Len(s) PROVE \E m \in 1..at.pos : p[m] = s[i]
    OBVIOUS
  <2>1. PICK m \in 1..at.pos - 1 : p[m] = s[i]
    BY DEF WalkedTo
  <2>2. QED
    BY <1>1, <2>1
<1>3. \A m \in 1..at.pos : p[m] \in L \/ \E i \in 1..Len(s) : s[i] = p[m]
  <2> SUFFICES ASSUME NEW m \in 1..at.pos PROVE p[m] \in L \/ \E i \in 1..Len(s) : s[i] = p[m]
    OBVIOUS
  <2>1. CASE m = at.pos
    BY <2>1
  <2>2. CASE m \in 1..at.pos - 1
    BY <2>2 DEF WalkedTo
  <2>3. QED
    BY <1>1, <2>1, <2>2
<1>4. at.end <= Len(p) /\ \A x \in P : \E m \in 1..at.end : p[m] = x
  BY DEF WalkedTo
<1> HIDE DEF to
<1>5. WalkedTo(s, p, to, j, P, L)
  BY <1>1, <1>2, <1>3, <1>4 DEF WalkedTo
<1>6. QED
  BY <1>5 DEF to

(* So is one that goes on to the next table.                               *)
LEMMA WalkNext ==
  ASSUME NEW S, NEW s \in Seq(S), NEW p \in Seq(S), NEW at \in [kind : 1..4, pos : Nat \ {0}, end : Nat],
         NEW to \in [kind : 1..4, pos : Nat \ {0}, end : Nat],
         NEW j \in 1..3, NEW P, NEW L, at.pos = at.end + 1, to.kind = at.kind + 1, to.pos = 1,
         to.kind = j => to.end = Len(p), WalkedTo(s, p, at, j, P, L)
  PROVE  WalkedTo(s, p, to, j, P, L)
<1>1. Len(s) \in Nat /\ Len(p) \in Nat
  OBVIOUS
<1>2. CASE at.kind = j
  <2>1. \A x \in P : \E m \in 1..at.pos - 1 : p[m] = x
    BY <1>2 DEF WalkedTo
  <2>2. ASSUME NEW x \in P PROVE x \in L \/ \E i \in 1..Len(s) : s[i] = x
    <3>1. PICK m \in 1..at.pos - 1 : p[m] = x
      BY <2>1
    <3>2. QED
      BY <1>2, <3>1 DEF WalkedTo
  <2>3. to.kind > j /\ to.kind # j /\ ~(to.kind < j)
    BY <1>2
  <2>4. QED
    BY <2>2, <2>3 DEF WalkedTo
<1>3. CASE at.kind < j
  BY <1>1, <1>3 DEF WalkedTo
<1>4. CASE at.kind > j
  BY <1>1, <1>4 DEF WalkedTo
<1>5. QED
  BY <1>2, <1>3, <1>4

(* A context that declares or copies keeps what it had.                    *)
LEMMA HasGrows ==
  ASSUME TableInv, TableInv', NEW t \in Threads, NEW k \in KindNames, NEW x \in Names, Grows(t, k, x)
  PROVE  \A u \in Threads : Has(u) \subseteq Has(u)'
<1> SUFFICES ASSUME NEW u \in Threads, NEW y \in Has(u) PROVE y \in Has(u)'
  OBVIOUS
<1>1. \A k2 \in KindNames : table[u][k2] \in Seq(Names) /\ table'[u][k2] \in Seq(Names)
  BY DEF TableInv
<1>2. PICK k2 \in KindNames : y \in ToSet(table[u][k2])
  BY DEF Has
<1>3. PICK i \in 1..Len(table[u][k2]) : y = table[u][k2][i]
  BY <1>1, <1>2 DEF ToSet
<1>4. i \in 1..Len(table'[u][k2]) /\ y = table'[u][k2][i]
  <2>1. CASE u = t /\ k2 = k
    <3> DEFINE s == table[u][k2]
               a == table'[u][k2]
    <3>1. s \in Seq(Names) /\ a = Append(s, x) /\ i \in 1..Len(s) /\ y = s[i]
      BY <1>1, <1>3, <2>1 DEF Grows
    <3> HIDE DEF s, a
    <3>2. i \in 1..Len(a) /\ y = a[i]
      BY <3>1, AppendFacts
    <3>3. QED
      BY <3>2 DEF a
  <2>2. CASE ~(u = t /\ k2 = k)
    BY <1>3, <2>2 DEF Grows
  <2>3. QED
    BY <2>1, <2>2
<1>5. y \in ToSet(table'[u][k2])
  BY <1>1, <1>4 DEF ToSet
<1>6. QED
  BY <1>5 DEF Has

-----------------------------------------------------------------------------
(* A worker's copy is as good as it was if neither its own tables change,  *)
(* nor those of its parent.                                                *)
LEMMA CopyKept ==
  ASSUME NEW v \in Workers, CopyOf(v),
         phase'[v] = phase[v] \/ phase'[v] \in {"ending", "rshutdown", "gone"},
         table'[v] = table[v], cursor'[v] = cursor[v], promised'[v] = promised[v],
         phase[v] \in {"startup", "copying"} =>
           /\ Parent(v)' = Parent(v)
           /\ phase'[Parent(v)] # "gone" => phase[Parent(v)] # "gone" /\ table'[Parent(v)] = table[Parent(v)]
  PROVE  CopyOf(v)'
<1>1. Has(v)' = Has(v)
  BY DEF Has
<1>2. Lacks(v)' = Lacks(v)
  BY <1>1 DEF Lacks, Shadowed
<1>3. \A j \in 1..3 : Promised(v, j)' = Promised(v, j)
  BY DEF Promised
<1>4. CASE phase'[v] \in {"ending", "rshutdown", "gone"}
  BY <1>4 DEF CopyOf
<1>5. CASE phase'[v] = phase[v] /\ phase[v] = "copying"
  <2>1. ASSUME phase'[Parent(v)'] # "gone" PROVE \A j \in 1..3 : Walked(v, j)'
    <3>1. \A j \in 1..3 : Walked(v, j)
      BY <1>5, <2>1 DEF CopyOf
    <3>2. table'[Parent(v)'] = table[Parent(v)]
      BY <1>5, <2>1
    <3>3. QED
      BY <1>2, <1>3, <3>1, <3>2 DEF Walked
  <2>2. QED
    BY <1>5, <2>1 DEF CopyOf
<1>6. CASE phase'[v] = phase[v] /\ phase[v] = "startup"
  <2>1. ASSUME phase'[Parent(v)'] # "gone" PROVE promised[v] \subseteq Has(Parent(v))'
    <3>1. Has(Parent(v))' = Has(Parent(v)) /\ phase[Parent(v)] # "gone"
      BY <1>6, <2>1 DEF Has
    <3>2. QED
      BY <1>6, <3>1 DEF CopyOf
  <2>2. QED
    BY <1>6, <2>1 DEF CopyOf
<1>7. CASE phase'[v] = phase[v] /\ phase[v] \notin {"copying", "startup"}
  BY <1>1, <1>2, <1>7 DEF CopyOf
<1>8. QED
  BY <1>4, <1>5, <1>6, <1>7

(* What a worker has copied stays a true copy, and holds its promise.      *)
LEMMA CopyStep ==
  /\ TreeTypeOK /\ ParentInv /\ TableInv /\ CopyInv
  /\ TreeTypeOK' /\ TableInv' /\ [Next]_vars
  => CopyInv'
<1> SUFFICES ASSUME TreeTypeOK, ParentInv, TableInv, CopyInv, TreeTypeOK', TableInv', [Next]_vars,
                    NEW v \in Workers
             PROVE  CopyOf(v)'
  BY DEF CopyInv
<1>a. CopyOf(v)
  BY DEF CopyInv
<1>b. phase[v] \in {"startup", "copying"} =>
        /\ object[v] \in Objs /\ Parent(v) \in Threads \ {v}
        /\ phase[Parent(v)] \in {"running", "ending", "rshutdown", "gone"}
  BY ParentFacts
<1>c. /\ v \in Threads /\ \A j \in 1..3 : Order[j] \in KindNames
      /\ \A t \in Threads, k \in KindNames : table[t][k] \in Seq(Names)
      /\ cursor[v] \in [kind : 1..4, pos : Nat \ {0}, end : Nat] /\ cursor[v].pos <= cursor[v].end + 1
  <2>1. v \in Threads /\ \A j \in 1..3 : Order[j] \in KindNames
    BY OrderFacts DEF Threads
  <2>2. \A t \in Threads, k \in KindNames : table[t][k] \in Seq(Names)
    BY DEF TableInv
  <2>3. cursor[v] \in [kind : 1..4, pos : Nat \ {0}, end : Nat] /\ cursor[v].pos <= cursor[v].end + 1
    BY DEF TableInv
  <2>4. QED
    BY <2>1, <2>2, <2>3
<1>1. ASSUME NEW t \in Threads, NEW x \in Names, Declare(t, x) PROVE CopyOf(v)'
  <2>1. Declared(t, x) /\ Kind[x] \in KindNames
    BY <1>1, DeclareEffect DEF Declared
  <2>2. \A u \in Threads : Has(u) \subseteq Has(u)'
    BY <2>1, HasGrows DEF Declared
  <2>3. UNCHANGED <<phase, object, creator, cursor, promised>> /\ phase[t] = "running"
    BY <2>1 DEF Declared, treeVars
  <2>4. Parent(v)' = Parent(v)
    BY <2>3 DEF Parent
  <2>5. phase[v] # "running" => \A k \in KindNames : table'[v][k] = table[v][k]
    BY <1>c, <2>1, <2>3 DEF Declared, Grows
  <2>6. Lacks(v) \subseteq Lacks(v)'
    BY <1>c, <2>2 DEF Lacks, Shadowed
  <2>7. ASSUME phase[v] = "copying", phase[Parent(v)] # "gone", NEW j \in 1..3 PROVE Walked(v, j)'
    <3>1. Walked(v, j) /\ table'[v][Order[j]] = table[v][Order[j]]
      BY <1>a, <1>c, <2>5, <2>7 DEF CopyOf
    <3>2. \/ table'[Parent(v)][Order[j]] = table[Parent(v)][Order[j]]
          \/ table'[Parent(v)][Order[j]] = Append(table[Parent(v)][Order[j]], x)
      <4>1. Grows(t, Kind[x], x) /\ Parent(v) \in Threads /\ Order[j] \in KindNames
        BY <1>b, <1>c, <2>1, <2>7 DEF Declared
      <4>2. QED
        BY <4>1 DEF Grows
    <3>3. Promised(v, j)' = Promised(v, j)
      BY <2>3 DEF Promised
    <3>4. WalkedTo(table[v][Order[j]], table'[Parent(v)][Order[j]], cursor[v], j, Promised(v, j), Lacks(v))
      <4>1. table[v][Order[j]] \in Seq(Names) /\ table[Parent(v)][Order[j]] \in Seq(Names)
        BY <1>b, <1>c, <2>7
      <4>2. WalkedTo(table[v][Order[j]], table[Parent(v)][Order[j]], cursor[v], j, Promised(v, j), Lacks(v))
        BY <3>1 DEF Walked
      <4>3. WalkedTo(table[v][Order[j]], Append(table[Parent(v)][Order[j]], x), cursor[v], j, Promised(v, j), Lacks(v))
        BY <1>c, <4>1, <4>2, ParentGrows
      <4>4. QED
        BY <3>2, <4>2, <4>3
    <3>5. WalkedTo(table[v][Order[j]], table'[Parent(v)][Order[j]], cursor[v], j, Promised(v, j), Lacks(v)')
      BY <2>6, <3>4, LacksMore
    <3>6. QED
      BY <2>3, <2>4, <3>1, <3>3, <3>5 DEF Walked
  <2>8. phase[v] = "startup" /\ phase[Parent(v)] # "gone" => promised[v] \subseteq Has(Parent(v))'
    <3> SUFFICES ASSUME phase[v] = "startup", phase[Parent(v)] # "gone" PROVE promised[v] \subseteq Has(Parent(v))'
      OBVIOUS
    <3> DEFINE q == Parent(v)
    <3>1. q \in Threads /\ promised[v] \subseteq Has(q)
      BY <1>a, <1>b DEF CopyOf
    <3>2. Has(q) \subseteq UNION {ToSet(table'[q][k]) : k \in KindNames}
      BY <2>2, <3>1 DEF Has
    <3>3. q' = q
      BY <2>4
    <3>4. Has(q)' = UNION {ToSet(table'[q'][k]) : k \in KindNames}
      BY DEF Has
    <3>5. QED
      BY <3>1, <3>2, <3>3, <3>4
  <2>9. phase[v] = "running" => promised[v] \subseteq Has(v)' \cup Lacks(v)'
    BY <1>a, <1>c, <2>2, <2>6 DEF CopyOf
  <2>10. QED
    BY <1>a, <2>3, <2>4, <2>5, <2>7, <2>8, <2>9 DEF CopyOf
<1>2. ASSUME NEW t \in Threads, NEW o \in Objs, NEW w \in Workers, StartWorker(t, o, w) PROVE CopyOf(v)'
  <2>1. /\ phase' = [phase EXCEPT ![w] = "startup"] /\ phase[w] = "none" /\ phase[t] = "running"
        /\ object' = [object EXCEPT ![w] = o] /\ o \in children[t]
        /\ promised' = [promised EXCEPT ![w] = Has(t)] /\ UNCHANGED <<creator, table, cursor>>
    BY <1>2 DEF StartWorker, Start, Active, Holds
  <2>2. CASE v = w
    <3>1. phase'[v] = "startup" /\ promised'[v] = Has(t) /\ Parent(v)' = t
      BY <1>c, <2>1, <2>2 DEF TreeTypeOK, TableInv, ParentInv, Parent
    <3>2. Has(Parent(v))' = Has(t) /\ \A k \in KindNames : Len(table'[v][k]) = 0
      BY <1>a, <2>1, <2>2, <3>1 DEF Has, CopyOf
    <3>3. QED
      BY <3>1, <3>2 DEF CopyOf
  <2>3. CASE v # w
    <3>1. phase'[v] = phase[v] /\ promised'[v] = promised[v] /\ Parent(v)' = Parent(v)
      BY <1>c, <2>1, <2>3 DEF TreeTypeOK, TableInv, Parent
    <3>2. phase[v] \in {"startup", "copying"} => phase'[Parent(v)] = phase[Parent(v)]
      BY <1>b, <2>1 DEF TreeTypeOK
    <3>3. QED
      BY <1>a, <2>1, <3>1, <3>2, CopyKept
  <2>4. QED
    BY <2>2, <2>3
<1>3. ASSUME NEW w \in Workers, StartCopying(w) PROVE CopyOf(v)'
  <2>1. /\ phase' = [phase EXCEPT ![w] = "copying"] /\ phase[w] = "startup" /\ phase[Parent(w)] # "gone"
        /\ cursor' = [cursor EXCEPT ![w] = AtTable(w, 1)]
        /\ UNCHANGED <<object, creator, table, promised>>
    BY <1>3 DEF StartCopying, BeginCopy
  <2>2. phase'[v] = (IF v = w THEN "copying" ELSE phase[v])
        /\ cursor'[v] = (IF v = w THEN AtTable(w, 1) ELSE cursor[v])
    BY <1>c, <2>1 DEF TreeTypeOK, TableInv
  <2>3. Parent(v)' = Parent(v)
    BY <2>1 DEF Parent
  <2>4. CASE v = w
    <3>1. AtTable(w, 1) = [kind |-> 1, pos |-> 1, end |-> Len(table[Parent(w)][Order[1]])]
      BY OrderFacts DEF AtTable
    <3>2. ASSUME NEW j \in 1..3 PROVE Walked(v, j)'
      <4>1. \A x \in Promised(v, j) :
              \E i \in 1..Len(table[Parent(v)][Order[j]]) : table[Parent(v)][Order[j]][i] = x
        <5>1. \A x \in promised[v] : x \in Names /\ x \in Has(Parent(v))
          BY <1>a, <2>1, <2>4 DEF CopyOf, TableInv
        <5>2. QED
          BY <1>b, <2>1, <2>4, <5>1, HasKind DEF Promised
      <4>2. Len(table[v][Order[j]]) = 0 /\ Len(table[Parent(v)][Order[j]]) \in Nat
        BY <1>a, <1>b, <1>c, <2>1, <2>4 DEF CopyOf
      <4>3. WalkedTo(table[v][Order[j]], table[Parent(v)][Order[j]],
                     [kind |-> 1, pos |-> 1, end |-> Len(table[Parent(w)][Order[1]])], j, Promised(v, j), Lacks(v)')
        BY <4>1, <4>2, <2>4 DEF WalkedTo
      <4>4. Promised(v, j)' = Promised(v, j)
        BY <2>1 DEF Promised
      <4>5. QED
        BY <2>1, <2>2, <2>3, <2>4, <3>1, <4>3, <4>4 DEF Walked
    <3>3. QED
      BY <2>2, <2>4, <3>2 DEF CopyOf
  <2>5. CASE v # w
    <3>1. phase[v] \in {"startup", "copying"} => phase'[Parent(v)] = phase[Parent(v)]
      BY <1>b, <2>1 DEF TreeTypeOK
    <3>2. QED
      BY <1>a, <2>1, <2>2, <2>3, <2>5, <3>1, CopyKept
  <2>6. QED
    BY <2>4, <2>5
<1>4. ASSUME NEW w \in Workers, CopyEntry(w) PROVE CopyOf(v)'
  <2>1. PICK j \in 1..3, x \in Names : Copied(w, j, x) \/ PassedBy(w, j, x)
    BY <1>4, CopyEntryEffect
  <2>2. /\ UNCHANGED <<phase, object, creator, promised>> /\ phase[w] = "copying" /\ Order[j] \in KindNames
        /\ Visited(w, j, x) /\ w \in Threads /\ phase[Parent(w)] # "gone"
    BY <1>c, <2>1 DEF Copied, PassedBy, Visited, treeVars, Threads
  <2>3. Parent(v)' = Parent(v)
    BY <2>2 DEF Parent
  <2>4. CASE v # w
    <3>1. cursor'[v] = cursor[v]
      BY <2>2, <2>4 DEF Visited, TableInv
    <3>2. \A u \in Threads \ {w} : table'[u] = table[u]
      <4>1. CASE Copied(w, j, x)
        <5>1. \A u \in Threads \ {w}, k \in KindNames : table'[u][k] = table[u][k]
          BY <4>1 DEF Copied, Grows
        <5>2. \A u \in Threads : table'[u] \in [KindNames -> Seq(Names)] /\ table[u] \in [KindNames -> Seq(Names)]
          BY DEF TableInv
        <5>3. QED
          BY <5>1, <5>2
      <4>2. QED
        BY <2>1, <4>1 DEF PassedBy
    <3>3. phase[v] \in {"startup", "copying"} => Parent(v) \in Threads \ {w}
      BY <1>b, <2>2
    <3>4. QED
      BY <1>a, <1>c, <2>2, <2>3, <2>4, <3>1, <3>2, <3>3, CopyKept
  <2>5. CASE v = w
    <3> DEFINE to == [cursor[w] EXCEPT !.pos = @ + 1]
               p(i) == table[Parent(w)][Order[i]]
               s(i) == table[w][Order[i]]
    <3>1. /\ \A i \in 1..3 : Walked(w, i) /\ Promised(w, i)' = Promised(w, i)
          /\ \A i \in 1..3 : s(i) \in Seq(Names) /\ p(i) \in Seq(Names)
          /\ cursor[w] \in [kind : 1..4, pos : Nat \ {0}, end : Nat]
          /\ cursor'[w] = to /\ cursor[w].kind = j /\ cursor[w].pos \in 1..cursor[w].end
          /\ x = p(j)[cursor[w].pos] /\ Parent(w) \in Threads
      BY <1>a, <1>b, <1>c, <2>2, <2>5 DEF CopyOf, Visited, Promised, TableInv
    <3>2. Has(w) \subseteq Has(w)'
      <4>1. CASE Copied(w, j, x)
        BY <2>2, <4>1, HasGrows DEF Copied
      <4>2. CASE PassedBy(w, j, x)
        BY <4>2 DEF PassedBy, Has
      <4>3. QED
        BY <2>1, <4>1, <4>2
    <3>3. Lacks(w) \subseteq Lacks(w)'
      BY <3>2 DEF Lacks, Shadowed
    <3>4. \A i \in 1..3 : table'[Parent(w)][Order[i]] = p(i)
      <4>1. Parent(w) \in Threads \ {w}
        BY <2>2 DEF Visited
      <4>2. QED
        BY <1>c, <2>1, <4>1 DEF Copied, PassedBy, Grows
    <3>5. ASSUME NEW i \in 1..3
          PROVE  WalkedTo(table'[w][Order[i]], p(i), to, i, Promised(w, i), Lacks(w))
      <4>1. WalkedTo(s(i), p(i), cursor[w], i, Promised(w, i), Lacks(w))
        BY <3>1 DEF Walked
      <4>2. CASE i # j
        <5>1. table'[w][Order[i]] = s(i)
          BY <1>c, <2>1, <2>2, <4>2, OrderFacts DEF Copied, PassedBy, Grows
        <5>2. WalkedTo(s(i), p(i), to, i, Promised(w, i), Lacks(w))
          BY <3>1, <4>1, <4>2 DEF WalkedTo
        <5>3. QED
          BY <5>1, <5>2
      <4>3. CASE i = j /\ Copied(w, j, x)
        <5>1. table'[w][Order[i]] = Append(s(i), x) /\ x = p(i)[cursor[w].pos]
          BY <1>c, <2>2, <3>1, <4>3 DEF Copied, Grows
        <5> HIDE DEF p, s
        <5>2. WalkedTo(Append(s(i), p(i)[cursor[w].pos]), p(i), to, i, Promised(w, i), Lacks(w))
          BY <3>1, <4>1, <4>3, WalkOn
        <5>3. QED
          BY <5>1, <5>2
      <4>4. CASE i = j /\ PassedBy(w, j, x)
        <5>1. table'[w][Order[i]] = s(i) /\ x = p(i)[cursor[w].pos] /\ Kind[x] = Order[i]
          BY <2>2, <3>1, <4>4 DEF PassedBy, Visited
        <5>2. x \in Lacks(w) \/ \E m \in 1..Len(s(i)) : s(i)[m] = x
          <6>1. x \in Has(w) => \E m \in 1..Len(s(i)) : s(i)[m] = x
            <7>1. x \in Names /\ Order[i] = Kind[x] /\ s(i) = table[w][Kind[x]]
              BY <2>2, <5>1, <4>4 DEF PassedBy, Visited
            <7>2. QED
              BY <2>2, <7>1, HasKind
          <6>2. CASE x \in Anonymous
            BY <6>2 DEF Lacks
          <6>3. CASE x \in Has(w)
            BY <6>1, <6>3
          <6>4. CASE Kind[x] = "constant" /\ Lower[x] \in Has(w) /\ x \notin Has(w)
            BY <6>4 DEF Lacks, Shadowed
          <6>5. QED
            BY <4>4, <6>2, <6>3, <6>4 DEF PassedBy, Skipped
        <5>3. /\ p(i)[cursor[w].pos] \in Lacks(w) \/ \E m \in 1..Len(s(i)) : s(i)[m] = p(i)[cursor[w].pos]
              /\ s(i) \in Seq(Names) /\ p(i) \in Seq(Names) /\ cursor[w].kind = i
              /\ cursor[w].pos \in 1..cursor[w].end /\ cursor[w] \in [kind : 1..4, pos : Nat \ {0}, end : Nat]
          BY <3>1, <4>4, <5>1, <5>2
        <5> HIDE DEF p, s
        <5>4. WalkedTo(s(i), p(i), to, i, Promised(w, i), Lacks(w))
          BY <4>1, <5>3, WalkPast
        <5>5. QED
          BY <5>1, <5>4
      <4>5. QED
        BY <2>1, <4>2, <4>3, <4>4
    <3>6. ASSUME NEW i \in 1..3 PROVE Walked(w, i)'
      <4>1. WalkedTo(table'[w][Order[i]], p(i), to, i, Promised(w, i), Lacks(w)')
        BY <3>3, <3>5, LacksMore
      <4>2. Parent(w)' = Parent(w) /\ Promised(w, i)' = Promised(w, i) /\ cursor'[w] = to
        BY <2>3, <2>5, <3>1
      <4>3. table'[Parent(w)'][Order[i]] = p(i)
        BY <3>4, <4>2
      <4> HIDE DEF p, to
      <4>4. QED
        BY <4>1, <4>2, <4>3 DEF Walked
    <3>7. QED
      BY <2>2, <2>5, <3>6 DEF CopyOf
  <2>6. QED
    BY <2>4, <2>5
<1>5. ASSUME NEW w \in Workers, NextTable(w) PROVE CopyOf(v)'
  <2>1. /\ phase[w] = "copying" /\ phase[Parent(w)] # "gone"
        /\ cursor[w].kind \in 1..3 /\ cursor[w].pos > cursor[w].end
        /\ cursor' = [cursor EXCEPT ![w] = AtTable(w, cursor[w].kind + 1)]
        /\ UNCHANGED <<phase, object, creator, table, promised>>
    BY <1>5, OrderFacts DEF NextTable, treeVars
  <2>2. Parent(v)' = Parent(v)
    BY <2>1 DEF Parent
  <2>3. CASE v # w
    <3>1. cursor'[v] = cursor[v]
      BY <2>1, <2>3 DEF TableInv
    <3>2. QED
      BY <1>a, <2>1, <2>2, <3>1, CopyKept
  <2>4. CASE v = w
    <3> DEFINE to == AtTable(w, cursor[w].kind + 1)
    <3>1. ASSUME NEW j \in 1..3 PROVE Walked(v, j)'
      <4>1. /\ Walked(v, j) /\ Promised(v, j)' = Promised(v, j)
            /\ Lacks(v)' = Lacks(v)
        BY <1>a, <2>1, <2>4 DEF CopyOf, Promised, Lacks, Shadowed, Has
      <4>2. cursor'[v] = to /\ to.kind = cursor[v].kind + 1 /\ to.pos = 1
            /\ (to.kind = j => to.end = Len(table[Parent(v)][Order[j]]))
        BY <2>1, <2>4, OrderFacts DEF AtTable, TableInv
      <4>3. cursor'[v] \in [kind : 1..4, pos : Nat \ {0}, end : Nat]
        BY DEF TableInv
      <4>4. cursor[v].pos = cursor[v].end + 1
        BY <1>c, <2>1, <2>4
      <4>5. table[v][Order[j]] \in Seq(Names) /\ table[Parent(v)][Order[j]] \in Seq(Names)
        BY <1>b, <1>c, <2>1, <2>4
      <4> HIDE DEF to
      <4>6. WalkedTo(table[v][Order[j]], table[Parent(v)][Order[j]], to, j, Promised(v, j), Lacks(v))
        BY <1>c, <4>1, <4>2, <4>3, <4>4, <4>5, WalkNext DEF Walked
      <4>7. QED
        BY <2>1, <2>2, <4>1, <4>2, <4>6 DEF Walked
    <3>2. QED
      BY <2>1, <2>4, <3>1 DEF CopyOf
  <2>5. QED
    BY <2>3, <2>4
<1>6. ASSUME NEW w \in Workers, EndCopying(w) PROVE CopyOf(v)'
  <2>1. /\ phase' = [phase EXCEPT ![w] = "running"] /\ phase[w] = "copying" /\ cursor[w].kind \notin 1..3
        /\ phase[Parent(w)] # "gone" /\ UNCHANGED <<object, creator, table, cursor, promised>>
    BY <1>6, OrderFacts DEF EndCopying, EndCopy, copyVars
  <2>2. phase'[v] = IF v = w THEN "running" ELSE phase[v]
    BY <1>c, <2>1 DEF TreeTypeOK
  <2>3. Parent(v)' = Parent(v) /\ Has(v)' = Has(v)
    BY <2>1 DEF Parent, Has
  <2>4. CASE v = w
    <3>1. ASSUME NEW x \in promised[v] PROVE x \in Has(v) \cup Lacks(v)
      <4>1. x \in Names
        BY DEF TableInv
      <4>2. PICK j \in 1..3 : Kind[x] = Order[j]
        BY <4>1, NamesAssumption, OrderFacts
      <4>3. Walked(v, j) /\ x \in Promised(v, j) /\ cursor[v].kind > j
        BY <1>a, <1>c, <2>1, <2>4, <4>2 DEF CopyOf, Promised
      <4>4. x \in Lacks(v) \/ \E i \in 1..Len(table[v][Kind[x]]) : table[v][Kind[x]][i] = x
        BY <4>2, <4>3 DEF Walked, WalkedTo
      <4>5. QED
        BY <1>c, <4>1, <4>4, HasKind
    <3>2. Lacks(v)' = Lacks(v)
      BY <2>3 DEF Lacks, Shadowed
    <3>3. QED
      BY <2>1, <2>2, <2>3, <2>4, <3>1, <3>2 DEF CopyOf
  <2>5. CASE v # w
    <3>1. phase[v] \in {"startup", "copying"} => phase'[Parent(v)] = phase[Parent(v)]
      BY <1>b, <2>1 DEF TreeTypeOK
    <3>2. QED
      BY <1>a, <2>1, <2>2, <2>3, <2>5, <3>1, CopyKept
  <2>6. QED
    BY <2>4, <2>5
<1>7. ASSUME NEW t \in Threads, EndContext(t) PROVE CopyOf(v)'
  <2>1. /\ phase' = [phase EXCEPT ![t] = "gone"] /\ phase[t] = "rshutdown" /\ table' = [table EXCEPT ![t] = NoTable]
        /\ UNCHANGED <<object, creator, cursor>>
        /\ promised' = (IF t = Main THEN promised ELSE [promised EXCEPT ![t] = {}])
    BY <1>7 DEF EndContext, EndRequest
  <2>2. phase'[t] = "gone" /\ \A u \in Threads \ {t} : phase'[u] = phase[u] /\ table'[u] = table[u]
    BY <2>1 DEF TreeTypeOK, TableInv
  <2>3. Parent(v)' = Parent(v)
    BY <2>1 DEF Parent
  <2>4. CASE v = t
    BY <2>2, <2>4 DEF CopyOf
  <2>5. CASE v # t
    <3>1. promised'[v] = promised[v] /\ cursor'[v] = cursor[v]
      BY <2>1, <2>5 DEF TableInv
    <3>2. QED
      BY <1>a, <1>b, <1>c, <2>2, <2>3, <2>5, <3>1, CopyKept
  <2>6. QED
    BY <2>4, <2>5
<1>8. CASE Quiet
  <2>1. UNCHANGED <<table, cursor, promised>>
    BY <1>8 DEF Quiet, copyVars
  <2>2. \A t \in Threads : phase'[t] = phase[t] \/ (phase[t] # "gone" /\ phase'[t] \in {"ending", "rshutdown"})
    BY <1>8 DEF Quiet
  <2>3. phase[v] # "none" => Parent(v)' = Parent(v)
    BY <1>8 DEF Quiet
  <2>4. QED
    BY <1>a, <1>b, <1>c, <2>1, <2>2, <2>3, CopyKept
<1>9. QED
  BY <1>1, <1>2, <1>3, <1>4, <1>5, <1>6, <1>7, <1>8, NextCases

-----------------------------------------------------------------------------
(* A class may come after those it refers to.                              *)
LEMMA OrderedAppend ==
  ASSUME NEW s \in Seq(Names), NEW x \in Names, Ordered(s), \A y \in Direct[x] : \E j \in 1..Len(s) : s[j] = y
  PROVE  Ordered(Append(s, x))
<1> DEFINE a == Append(s, x)
<1>1. /\ Len(s) \in Nat /\ Len(a) = Len(s) + 1 /\ a[Len(s) + 1] = x
      /\ \A i \in 1..Len(s) : a[i] = s[i]
  BY AppendFacts
<1> SUFFICES ASSUME NEW i \in 1..Len(a), NEW y \in Direct[a[i]] PROVE \E j \in 1..i - 1 : a[j] = y
  BY DEF Ordered
<1> HIDE DEF a
<1>2. CASE i = Len(s) + 1
  <2>1. PICK j \in 1..Len(s) : s[j] = y
    BY <1>1, <1>2
  <2>2. QED
    BY <1>1, <1>2, <2>1
<1>3. CASE i \in 1..Len(s)
  <2>1. PICK j \in 1..i - 1 : s[j] = y
    BY <1>1, <1>3 DEF Ordered
  <2>2. j \in 1..Len(s) /\ a[j] = y
    BY <1>1, <1>3, <2>1
  <2>3. QED
    BY <2>2, <2>1
<1>4. QED
  BY <1>1, <1>2, <1>3

(* A class that is appended after those it refers to is linked to them.    *)
LEMMA LinkedAppend ==
  ASSUME LinkInv, NEW t \in Threads, NEW x \in Classes,
         table[t]["class"] \in Seq(Names), links \in [Workers -> [Classes -> SUBSET Classes]],
         \A w \in Workers : \A i \in 1..Len(table[w]["class"]) : table[w]["class"][i] \in Classes,
         table'[t]["class"] = Append(table[t]["class"], x),
         \A u \in Threads \ {t} : table'[u]["class"] = table[u]["class"],
         \A i \in 1..Len(table[t]["class"]) : table[t]["class"][i] # x,
         \A y \in Direct[x] : \E i \in 1..Len(table[t]["class"]) : table[t]["class"][i] = y,
         links' = IF t \in Workers THEN [links EXCEPT ![t][x] = Direct[x]] ELSE links
  PROVE  LinkInv'
<1> DEFINE s == table[t]["class"]
           a == table'[t]["class"]
<1>1. x \in Names /\ s \in Seq(Names) /\ a = Append(s, x)
  BY DEF Classes
<1>2. Ordered(s) /\ \A y \in Direct[x] : \E i \in 1..Len(s) : s[i] = y
  BY DEF LinkInv
<1>3. \A i \in 1..Len(s) : s[i] # x
  OBVIOUS
<1>4. t \in Workers => \A i \in 1..Len(s) : s[i] \in Classes /\ links[t][s[i]] = Direct[s[i]]
  BY DEF LinkInv
<1> HIDE DEF s, a
<1>5. Ordered(a)
  BY <1>1, <1>2, OrderedAppend
<1>6. ASSUME t \in Workers, NEW i \in 1..Len(a) PROVE links'[t][a[i]] = Direct[a[i]]
  <2>1. /\ Len(s) \in Nat /\ Len(a) = Len(s) + 1 /\ a[Len(s) + 1] = x
        /\ \A m \in 1..Len(s) : a[m] = s[m]
    BY <1>1, AppendFacts
  <2>2. i = Len(s) + 1 \/ i \in 1..Len(s)
    BY <1>6, <2>1
  <2>3. CASE i = Len(s) + 1
    BY <1>6, <2>1, <2>3
  <2>4. CASE i \in 1..Len(s)
    <3>1. a[i] = s[i] /\ s[i] # x /\ s[i] \in Classes /\ links[t][s[i]] = Direct[s[i]]
      BY <1>3, <1>4, <1>6, <2>1, <2>4
    <3>2. QED
      BY <1>6, <3>1
  <2>5. QED
    BY <2>2, <2>3, <2>4
<1>7. \A u \in Threads : Ordered(table'[u]["class"])
  BY <1>5 DEF a, LinkInv
<1>8. \A w \in Workers \ {t} : links'[w] = links[w] /\ w \in Threads
  BY DEF Threads
<1>9. ASSUME NEW w \in Workers, NEW i \in 1..Len(table'[w]["class"])
      PROVE  links'[w][table'[w]["class"][i]] = Direct[table'[w]["class"][i]]
  <2>1. CASE w = t
    BY <1>6, <1>9, <2>1 DEF a
  <2>2. CASE w # t
    BY <1>8, <1>9, <2>2 DEF LinkInv
  <2>3. QED
    BY <2>1, <2>2
<1>10. QED
  BY <1>7, <1>9 DEF LinkInv

(* The classes of a context keep the order of their declaration, in a copy *)
(* too, so that copy_ce finds what a class refers to.                      *)
LEMMA LinkStep ==
  ASSUME "forward" \notin Habits
  PROVE  /\ TreeTypeOK /\ ParentInv /\ TableInv /\ CopyInv /\ LinkInv
         /\ TableInv' /\ [Next]_vars
         => LinkInv'
<1> SUFFICES ASSUME TreeTypeOK, ParentInv, TableInv, CopyInv, LinkInv, TableInv', [Next]_vars
             PROVE  LinkInv'
  OBVIOUS
<1>a. /\ "class" \in KindNames /\ Workers \subseteq Threads
      /\ \A t \in Threads : table[t]["class"] \in Seq(Names) /\ Ordered(table[t]["class"])
      /\ links \in [Workers -> [Classes -> SUBSET Classes]]
  BY OrderFacts DEF TableInv, LinkInv, Threads
<1>b. \A w \in Workers : \A i \in 1..Len(table[w]["class"]) :
        /\ table[w]["class"][i] \in Classes
        /\ links[w][table[w]["class"][i]] = Direct[table[w]["class"][i]]
  <2>1. \A w \in Workers : \A i \in 1..Len(table[w]["class"]) :
          table[w]["class"][i] \in Names /\ Kind[table[w]["class"][i]] = "class"
    BY <1>a DEF TableInv
  <2>2. QED
    BY <2>1 DEF LinkInv, Classes
<1>1. CASE table' = table /\ links' = links
  BY <1>1 DEF LinkInv
<1>2. ASSUME NEW t \in Threads, NEW x \in Names, Declare(t, x) PROVE LinkInv'
  <2>1. Declared(t, x) /\ (x \in Classes <=> Kind[x] = "class")
        /\ links' = IF t \in Workers /\ x \in Classes THEN [links EXCEPT ![t][x] = Direct[x]] ELSE links
    BY <1>2, DeclareEffect DEF Declare, Classes
  <2>2. CASE Kind[x] # "class"
    <3>1. \A u \in Threads : table'[u]["class"] = table[u]["class"]
      BY <1>a, <2>1, <2>2 DEF Declared, Grows
    <3>2. links' = links
      BY <2>1, <2>2
    <3>3. QED
      BY <1>a, <3>1, <3>2 DEF LinkInv
  <2>3. CASE Kind[x] = "class"
    <3>1. /\ table'[t]["class"] = Append(table[t]["class"], x)
          /\ \A u \in Threads \ {t} : table'[u]["class"] = table[u]["class"]
          /\ \A i \in 1..Len(table[t]["class"]) : table[t]["class"][i] # x
          /\ \A y \in Direct[x] : \E i \in 1..Len(table[t]["class"]) : table[t]["class"][i] = y
      BY <1>a, <2>1, <2>3 DEF Declared, Grows
    <3>2. links' = IF t \in Workers THEN [links EXCEPT ![t][x] = Direct[x]] ELSE links
      BY <2>1, <2>3
    <3>3. QED
      BY <1>a, <1>b, <2>1, <2>3, <3>1, <3>2, LinkedAppend
  <2>4. QED
    BY <2>2, <2>3
<1>3. ASSUME NEW w \in Workers, CopyEntry(w) PROVE LinkInv'
  <2>1. PICK j \in 1..3, x \in Names : Copied(w, j, x) \/ PassedBy(w, j, x)
    BY <1>3, CopyEntryEffect
  <2>2. CASE PassedBy(w, j, x)
    BY <1>1, <2>2 DEF PassedBy
  <2>3. ASSUME Copied(w, j, x)
        PROVE  links' = IF Order[j] = "class" THEN [links EXCEPT ![w][x] = LinkedTo(w, x)] ELSE links
    BY <1>3, <2>3 DEF Copied, Visited, CopyEntry
  <2>4. CASE Copied(w, j, x) /\ Order[j] # "class"
    <3>1. \A u \in Threads : table'[u]["class"] = table[u]["class"]
      BY <1>a, <2>4 DEF Copied, Grows
    <3>2. QED
      BY <1>a, <2>3, <2>4, <3>1 DEF LinkInv
  <2>5. CASE Copied(w, j, x) /\ Order[j] = "class"
    <3> DEFINE s == table[w]["class"]
               p == table[Parent(w)]["class"]
               n == cursor[w].pos
    <3>1. /\ table'[w]["class"] = Append(s, x) /\ x = p[n] /\ n \in 1..Len(p)
          /\ \A u \in Threads \ {w} : table'[u]["class"] = table[u]["class"]
          /\ \A i \in 1..Len(s) : s[i] # x
      <4>1. /\ Grows(w, "class", x) /\ x = p[n] /\ n \in 1..cursor[w].end
            /\ n <= Len(p) /\ \A i \in 1..Len(s) : s[i] # x
        BY <2>5 DEF Copied, Visited
      <4>2. table'[w]["class"] = Append(s, x) /\ \A u \in Threads \ {w} : table'[u]["class"] = table[u]["class"]
        BY <1>a, <4>1 DEF Grows
      <4>3. Len(p) \in Nat
        <5>1. Parent(w) \in Threads
          BY <2>5 DEF Copied, Visited
        <5>2. QED
          BY <1>a, <5>1
      <4>4. n \in 1..Len(p)
        BY <4>1, <4>3
      <4>5. QED
        BY <4>1, <4>2, <4>4
    <3>2. \A m \in 1..n - 1 : p[m] \in Lacks(w) \/ \E i \in 1..Len(s) : s[i] = p[m]
      <4>1. Walked(w, j) /\ cursor[w].kind = j
        BY <2>5 DEF Copied, Visited, CopyInv, CopyOf
      <4>2. QED
        BY <2>5, <4>1 DEF Walked, WalkedTo
    <3>3. Ordered(p) /\ p \in Seq(Names) /\ s \in Seq(Names) /\ n \in Nat
      BY <1>a, <2>5 DEF Copied, Visited, TableInv
    <3>4. x \in Classes /\ \A y \in Direct[x] : y \in Names /\ Kind[y] = "class" /\ y \notin Lacks(w)
      <4>1. x \in Classes
        BY <2>5 DEF Copied, Visited, Classes
      <4>2. QED
        BY <4>1, NamesAssumption DEF Classes, Lacks, Shadowed
    <3>5. \A y \in Direct[x] : \E i \in 1..Len(s) : s[i] = y
      <4> SUFFICES ASSUME NEW y \in Direct[x] PROVE \E i \in 1..Len(s) : s[i] = y
        OBVIOUS
      <4> HIDE DEF s, p, n
      <4>1. PICK i \in 1..n - 1 : p[i] = y
        BY <3>1, <3>3 DEF Ordered
      <4>2. QED
        BY <3>2, <3>4, <4>1
    <3>6. LinkedTo(w, x) = Direct[x]
      <4>1. \A y \in Direct[x] : y \in Has(w)
        BY <1>a, <3>4, <3>5, HasKind
      <4>2. QED
        BY <4>1 DEF LinkedTo
    <3>7. links' = IF w \in Workers THEN [links EXCEPT ![w][x] = Direct[x]] ELSE links
      BY <2>3, <2>5, <3>6
    <3>8. \A v \in Workers : \A i \in 1..Len(table[v]["class"]) : table[v]["class"][i] \in Classes
      BY <1>b
    <3>9. w \in Threads /\ table[w]["class"] \in Seq(Names) /\ x \in Classes
      BY <1>a, <3>4
    <3>10. QED
      BY <1>a, <3>1, <3>5, <3>7, <3>8, <3>9, LinkedAppend
  <2>6. QED
    BY <2>1, <2>2, <2>4, <2>5
<1>4. ASSUME NEW t \in Threads, EndContext(t) PROVE LinkInv'
  <2>1. /\ table' = [table EXCEPT ![t] = NoTable] /\ Len(NoTable["class"]) = 0
        /\ links' = IF t = Main THEN links ELSE [links EXCEPT ![t] = NoLinks]
    BY <1>4, <1>a DEF EndContext, NoTable
  <2>2. /\ Len(table'[t]["class"]) = 0
        /\ \A u \in Threads \ {t} : table'[u]["class"] = table[u]["class"]
        /\ \A w \in Workers \ {t} : links'[w] = links[w]
    BY <1>a, <2>1 DEF TableInv
  <2>3. Ordered(table'[t]["class"])
    BY <2>2 DEF Ordered
  <2>4. QED
    BY <1>a, <2>2, <2>3 DEF LinkInv
<1>5. QED
  <2>1. ASSUME NEW w \in Workers, StartCopying(w) \/ NextTable(w) \/ EndCopying(w)
        PROVE table' = table /\ links' = links
    BY <2>1 DEF StartCopying, NextTable, EndCopying, copyVars
  <2>2. ASSUME NEW t \in Threads, NEW o \in Objs, NEW w \in Workers, StartWorker(t, o, w) PROVE table' = table /\ links' = links
    BY <2>2 DEF StartWorker
  <2>3. Quiet => table' = table /\ links' = links
    BY DEF Quiet, copyVars
  <2>4. QED
    BY <1>1, <1>2, <1>3, <1>4, <2>1, <2>2, <2>3, NextCases

-----------------------------------------------------------------------------
(* The invariants hold at the start.                                       *)
LEMMA CopyStart == Init => TableInv /\ CopyInv /\ ("forward" \notin Habits => LinkInv) /\ moved = {}
<1> SUFFICES ASSUME Init PROVE TableInv /\ CopyInv /\ ("forward" \notin Habits => LinkInv) /\ moved = {}
  OBVIOUS
<1>1. /\ table = [t \in Threads |-> IF t = Main THEN Compiled ELSE NoTable]
      /\ NoTable \in [KindNames -> Seq(Names)] /\ \A k \in KindNames : Len(NoTable[k]) = 0
  BY DEF Init, NoTable
<1>2. Compiled \in [KindNames -> Seq(Names)]
  BY CompiledAssumption
<1>3. ASSUME NEW k \in KindNames
      PROVE  /\ \A i \in 1..Len(Compiled[k]) : Kind[Compiled[k][i]] = k
             /\ \A i, j \in 1..Len(Compiled[k]) : Compiled[k][i] = Compiled[k][j] => i = j
  <2>1. Compiled[k] \in Seq(Names) /\ DOMAIN Compiled[k] = 1..Len(Compiled[k])
    BY <1>2
  <2>2. QED
    BY <2>1, CompiledAssumption DEF IsInjective
<1>4. TableInv /\ moved = {}
  <2>1. table \in [Threads -> [KindNames -> Seq(Names)]]
    BY <1>1, <1>2
  <2>2. ASSUME NEW t \in Threads, NEW k \in KindNames
        PROVE  /\ \A i \in 1..Len(table[t][k]) : Kind[table[t][k][i]] = k
               /\ \A i, j \in 1..Len(table[t][k]) : table[t][k][i] = table[t][k][j] => i = j
    <3>1. CASE t = Main
      BY <1>1, <1>3, <3>1
    <3>2. CASE t # Main
      BY <1>1, <3>2
    <3>3. QED
      BY <3>1, <3>2
  <2>3. QED
    BY <2>1, <2>2 DEF Init, TableInv, NoLinks
<1>5. CopyInv
  <2>1. \A w \in Workers : phase[w] = "none" /\ \A k \in KindNames : Len(table[w][k]) = 0
    BY <1>1, MainAssumption DEF Init, TreeInit, Threads
  <2>2. QED
    BY <2>1 DEF CopyInv, CopyOf
<1>6. ASSUME "forward" \notin Habits PROVE LinkInv
  <2>1. \A t \in Workers : Len(table[t]["class"]) = 0
    BY <1>1, OrderFacts, MainAssumption DEF Threads
  <2>2. Ordered(Compiled["class"])
    <3> DEFINE c == Compiled["class"]
    <3>1. DOMAIN c = 1..Len(c) /\ \A i \in DOMAIN c : Direct[c[i]] \subseteq {c[j] : j \in 1..i - 1}
      BY <1>2, <1>6, OrderFacts, CompiledAssumption
    <3>2. QED
      BY <3>1 DEF Ordered
  <2>3. \A t \in Threads : Ordered(table[t]["class"])
    <3>1. table[Main]["class"] = Compiled["class"]
      BY <1>1 DEF Threads
    <3>2. \A t \in Workers : Ordered(table[t]["class"])
      BY <2>1 DEF Ordered
    <3>3. QED
      BY <2>2, <3>1, <3>2 DEF Threads
  <2>4. QED
    BY <2>1, <2>3 DEF LinkInv
<1>7. QED
  BY <1>4, <1>5, <1>6

(* What a worker has copied so far is what its parent has.                 *)
LEMMA CopyInvariant == Spec => [](TreeTypeOK /\ ParentInv /\ LiveInv /\ TableInv /\ CopyInv)
<1> DEFINE Tree == TreeTypeOK /\ ParentInv /\ LiveInv
<1>1. Spec => []Tree
  BY TreeOfSpec, TreeInvariant, PTL
<1>2. Tree /\ Tree' /\ TableInv /\ CopyInv /\ [Next]_vars => TableInv' /\ CopyInv'
  BY TableStep, CopyStep
<1>3. Init => TableInv /\ CopyInv
  BY CopyStart
<1> HIDE DEF Tree
<1>4. Spec => [](Tree /\ TableInv /\ CopyInv)
  BY <1>1, <1>2, <1>3, PTL DEF Spec
<1>5. QED
  BY <1>4 DEF Tree

(* The tables hold names of their kind, each once, and a worker never      *)
(* walks past the end of its parent's table, however that grows meanwhile. *)
THEOREM TypeCorrect == Spec => []TypeOK
<1>1. TreeTypeOK /\ TableInv /\ CopyInv => TypeOK
  <2> SUFFICES ASSUME TreeTypeOK, TableInv, CopyInv PROVE TypeOK
    OBVIOUS
  <2>1. ASSUME NEW t \in Threads, NEW k \in KindNames
        PROVE  ToSet(table[t][k]) \subseteq {x \in Names : Kind[x] = k} /\ IsInjective(table[t][k])
    <3>1. table[t][k] \in Seq(Names) /\ DOMAIN table[t][k] = 1..Len(table[t][k])
      BY DEF TableInv
    <3>2. \A i \in 1..Len(table[t][k]) : table[t][k][i] \in Names /\ Kind[table[t][k][i]] = k
      BY <3>1 DEF TableInv
    <3>3. QED
      BY <3>1, <3>2 DEF TableInv, ToSet, IsInjective
  <2>2. ASSUME NEW w \in Workers
        PROVE  cursor[w].kind \in 1..Len(Order) + 1 /\ cursor[w].pos \in 1..cursor[w].end + 1
    BY OrderFacts DEF TableInv
  <2>3. ASSUME NEW w \in Workers, cursor[w].kind \in DOMAIN Order, phase[w] = "copying", phase[Parent(w)] # "gone"
        PROVE  cursor[w].end <= Len(table[Parent(w)][Order[cursor[w].kind]])
    <3>1. cursor[w].kind \in 1..3 /\ Walked(w, cursor[w].kind)
      BY <2>3, OrderFacts DEF CopyInv, CopyOf
    <3>2. QED
      BY <3>1 DEF Walked, WalkedTo
  <2>4. QED
    BY <2>1, <2>2, <2>3 DEF TypeOK, TableInv
<1>2. QED
  BY <1>1, CopyInvariant, PTL

(* A worker that runs has every function, class and constant its parent    *)
(* had when it started it, whatever the parent has declared since, but for *)
(* the anonymous classes and for the constants in the place of which it    *)
(* has one spelt in lower case, as far as the tables stay where they are   *)
(* (see SourceKept).                                                       *)
THEOREM CopiesWhole == Spec => []CopiedWhole
<1>1. CopyInv => CopiedWhole
  BY DEF CopyInv, CopyOf, CopiedWhole, Lacks
<1>2. QED
  BY <1>1, CopyInvariant, PTL

(* A worker's classes refer to the worker's classes, when each class is    *)
(* declared after those it refers to.                                      *)
THEOREM LinksClasses ==
  ASSUME "forward" \notin Habits
  PROVE  Spec => []Linked
<1> DEFINE Copy == TreeTypeOK /\ ParentInv /\ LiveInv /\ TableInv /\ CopyInv
<1>1. Spec => []Copy
  BY CopyInvariant
<1>2. Copy /\ Copy' /\ LinkInv /\ [Next]_vars => LinkInv'
  BY LinkStep
<1>3. TableInv /\ LinkInv => Linked
  <2> SUFFICES ASSUME TableInv, LinkInv, NEW w \in Workers, NEW x \in ToSet(table[w]["class"])
               PROVE  links[w][x] = Direct[x]
    BY DEF Linked
  <2>1. table[w]["class"] \in Seq(Names)
    BY OrderFacts DEF TableInv, Threads
  <2>2. PICK i \in 1..Len(table[w]["class"]) : x = table[w]["class"][i]
    BY <2>1 DEF ToSet
  <2>3. QED
    BY <2>2 DEF LinkInv
<1>4. Copy => TableInv
  OBVIOUS
<1>5. Init => LinkInv
  BY CopyStart
<1> HIDE DEF Copy
<1>6. QED
  BY <1>1, <1>2, <1>3, <1>4, <1>5, PTL DEF Spec

(* The context a worker walks stays where it is while it walks it, in a    *)
(* program that has dropped its Threads when its request ends and whose    *)
(* tables do not grow while they are copied.                               *)
THEOREM SourceKept ==
  ASSUME "keep" \notin Habits, "realloc" \notin Habits
  PROVE  Spec => []SourceStays
<1>1. moved = {} /\ [Next]_vars => (moved = {})'
  <2> SUFFICES ASSUME moved = {}, [Next]_vars PROVE moved' = {}
    OBVIOUS
  <2>1. CASE UNCHANGED copyVars
    BY <2>1 DEF copyVars
  <2>2. CASE UNCHANGED vars
    BY <2>2 DEF vars, copyVars
  <2>3. ASSUME NEW t \in Threads, Continue(t) PROVE moved' = {}
    BY <2>3 DEF Continue, StartCopying, CopyEntry, NextTable, EndCopying, EndContext, copyVars
  <2>4. ASSUME NEW t \in Threads, Program(t) PROVE moved' = {}
    BY <2>4 DEF Program, StartWorker, Declare, copyVars
  <2>5. QED
    BY <2>1, <2>2, <2>3, <2>4 DEF Next, Finished
<1>2. SourceLives /\ moved = {} => SourceStays
  BY DEF SourceStays
<1>3. Spec => []SourceLives
  BY TreeOfSpec, SourceRemains, PTL
<1>4. Init => moved = {}
  BY CopyStart
<1>5. QED
  BY <1>1, <1>2, <1>3, <1>4, PTL DEF Spec

(* No context ends before the last worker of each Thread it has made, in   *)
(* any program.                                                            *)
THEOREM NoneForgotten == Spec => []NoOrphan
  BY TreeOfSpec, Orphanless, PTL

(* No Thread is freed while its last worker uses it.                       *)
THEOREM ObjectsKept ==
  ASSUME "keep" \notin Habits, "exit_drop" \notin Habits
  PROVE  Spec => []ObjectLives
  BY TreeOfSpec, ObjectsLive, PTL
=============================================================================
