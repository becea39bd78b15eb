----------------------------- MODULE TaskRunner -----------------------------
(***************************************************************************)
(* What a pht\Thread promises to the program that owns it: tasks are run   *)
(* in the order they were added, each exactly once, and join() returns     *)
(* only after all of them have been run.  Threads, locks and the status    *)
(* word do not appear here; PhtThread shows how the code keeps the promise. *)
(***************************************************************************)
EXTENDS Naturals, Sequences

CONSTANT Tasks      \* the tasks a program may add

VARIABLES pending,  \* tasks added and not yet run, oldest first
          done,     \* tasks run, in the order they ran
          phase     \* "idle", "running", "joining" or "released"

vars == <<pending, done, phase>>

Ids(seq) == {seq[i] : i \in 1..Len(seq)}

TypeOK == /\ pending \in Seq(Tasks)
          /\ done \in Seq(Tasks)
          /\ phase \in {"idle", "running", "joining", "released"}

Init == pending = <<>> /\ done = <<>> /\ phase = "idle"

(* A task may be added before start(), while the thread runs and between   *)
(* a join() and the next start().                                          *)
Add(t) == /\ phase \in {"idle", "running"}
          /\ t \notin Ids(pending) \cup Ids(done)
          /\ pending' = Append(pending, t)
          /\ UNCHANGED <<done, phase>>

Start == phase = "idle" /\ phase' = "running" /\ UNCHANGED <<pending, done>>

Run == /\ phase \in {"running", "joining"}
       /\ pending # <<>>
       /\ done' = Append(done, Head(pending))
       /\ pending' = Tail(pending)
       /\ UNCHANGED phase

(* join(), or dropping the last reference to a started thread object.      *)
AskJoin == phase = "running" /\ phase' = "joining" /\ UNCHANGED <<pending, done>>

JoinReturns == /\ phase = "joining"
               /\ pending = <<>>
               /\ phase' \in {"idle", "released"}
               /\ UNCHANGED <<pending, done>>

(* A thread that is not running can be dropped, and its tasks with it.     *)
Release == phase = "idle" /\ phase' = "released" /\ UNCHANGED <<pending, done>>

Next == (\E t \in Tasks : Add(t)) \/ Start \/ Run \/ AskJoin \/ JoinReturns \/ Release

SafeSpec == Init /\ [][Next]_vars
Spec == SafeSpec /\ WF_vars(Run) /\ WF_vars(JoinReturns)
=============================================================================
