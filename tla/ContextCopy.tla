----------------------------- MODULE ContextCopy -----------------------------
(***************************************************************************)
(* What copy_execution_context gives a worker of the functions, classes    *)
(* and constants of its parent, while the parent goes on running: the      *)
(* tables of every context of a ThreadTree.                                *)
(***************************************************************************)
EXTENDS ThreadTree, SequencesExt

CONSTANTS Names,     \* the functions, classes and constants of the program
          Kind,      \* Names -> the kind of each
          Direct,    \* Names -> the parent, interfaces and traits of a class
          Anonymous, \* the classes without a name of their own
          Lower,     \* Names -> each constant in lower case
          Compiled,  \* for each kind the sequence of names that the main script
                     \* declares by being compiled
          Code       \* Threads -> the names that running code of a thread declares

(* copy_executor_globals: the order in which the tables are copied.        *)
Order == <<"function", "class", "constant">>
KindNames == {Order[i] : i \in DOMAIN Order}

Classes == {x \in Names : Kind[x] = "class"}
ASSUME NamesAssumption ==
  /\ Kind \in [Names -> KindNames]
  /\ Anonymous \subseteq Classes
  /\ Direct \in [Names -> SUBSET (Classes \ Anonymous)] /\ \A x \in Names \ Classes : Direct[x] = {}
  /\ Lower \in [Names -> Names] /\ \A x \in Names : Kind[Lower[x]] = Kind[x]
  /\ Code \in [Threads -> SUBSET Names]
ASSUME CompiledAssumption ==
  /\ Compiled \in [KindNames -> Seq(Names)]
  /\ \A k \in KindNames : IsInjective(Compiled[k]) /\ \A i \in DOMAIN Compiled[k] : Kind[Compiled[k][i]] = k
  /\ "forward" \notin Habits => \A i \in DOMAIN Compiled["class"] :
       Direct[Compiled["class"][i]] \subseteq {Compiled["class"][j] : j \in 1..i - 1}

VARIABLES table,    \* of each thread: for each kind a sequence of names
          links,    \* of each class of a worker: the classes it refers to that
                    \* are those of the worker's table, not copies apart
          cursor,   \* where the worker is in its parent's tables
          moved,    \* the workers whose source table has been reallocated
          promised  \* ghost: what the parent had when it started the worker

copyVars == <<table, links, cursor, moved, promised>>
vars == <<treeVars, copyVars>>

Has(t) == UNION {ToSet(table[t][k]) : k \in KindNames}

NoTable == [k \in KindNames |-> <<>>]
NoLinks == [x \in Classes |-> {}]

Init ==
  /\ TreeInit
  /\ table = [t \in Threads |-> IF t = Main THEN Compiled ELSE NoTable] /\ links = [w \in Workers |-> NoLinks]
  /\ cursor = [w \in Workers |-> [kind |-> 1, pos |-> 1, end |-> 0]]
  /\ moved = {} /\ promised = [w \in Workers |-> {}]

(* Thread t declares x, also while workers copy its tables.  "forward": a  *)
(* class is in the table from the time its file is compiled, and is bound  *)
(* when its parent is there; "realloc": the table grows and moves.         *)
Walking(t, k) == {w \in Workers : /\ phase[w] = "copying" /\ Parent(w) = t
                                  /\ cursor[w].kind \in DOMAIN Order /\ Order[cursor[w].kind] = k}
Declare(t, x) ==
  /\ Active(t) /\ x \in Code[t] \ Has(t)
  /\ "forward" \in Habits \/ Direct[x] \subseteq Has(t)
  /\ table' = [table EXCEPT ![t][Kind[x]] = Append(@, x)]
  /\ moved' = IF "realloc" \in Habits THEN moved \cup Walking(t, Kind[x]) ELSE moved
  /\ links' = IF t \in Workers /\ x \in Classes THEN [links EXCEPT ![t][x] = Direct[x]] ELSE links
  /\ UNCHANGED <<treeVars, cursor, promised>>

StartWorker(t, o, w) ==
  /\ Start(t, o, w)
  /\ promised' = [promised EXCEPT ![w] = Has(t)]
  /\ UNCHANGED <<table, links, cursor, moved>>

-----------------------------------------------------------------------------
(* ZEND_HASH_FOREACH: the length of a table is read when its loop begins.  *)
AtTable_Short(w, i) ==
  [kind |-> i, pos |-> 1,
   end |-> IF i \in DOMAIN Order /\ table[Parent(w)][Order[i]] # <<>>
             THEN Len(table[Parent(w)][Order[i]]) - 1 ELSE 0]
AtTable_Past(w, i) ==
  [kind |-> i, pos |-> 1,
   end |-> IF i \in DOMAIN Order THEN Len(table[Parent(w)][Order[i]]) + 1 ELSE 0]
AtTable(w, i) ==
  [kind |-> i, pos |-> 1,
   end |-> IF i \in DOMAIN Order THEN Len(table[Parent(w)][Order[i]]) ELSE 0]

StartCopying(w) ==
  /\ BeginCopy(w)
  /\ cursor' = [cursor EXCEPT ![w] = AtTable(w, 1)]
  /\ UNCHANGED <<table, links, moved, promised>>

(* Left out are anonymous classes, and a constant if the worker has one of *)
(* its name or of its name in lower case.                                  *)
Skipped(w, x) ==
  x \in Anonymous \/ (Kind[x] = "constant" /\ (x \in Has(w) \/ Lower[x] \in Has(w)))

(* copy_ce takes a parent, interface or trait that is in the worker's      *)
(* table already, and makes a copy apart of one that is not.               *)
Linked_Never(w, x) == {}
LinkedTo(w, x) == Direct[x] \cap Has(w)

CopyEntry(w) ==
  LET at == cursor[w]
      k  == Order[at.kind]
      x  == table[Parent(w)][k][at.pos]
  IN /\ phase[w] = "copying" /\ phase[Parent(w)] # "gone"
     /\ at.kind \in DOMAIN Order /\ at.pos <= at.end
     /\ IF Skipped(w, x)
          THEN UNCHANGED <<table, links>>
          ELSE /\ table' = [table EXCEPT ![w][k] = Append(@, x)]
               /\ links' = IF k = "class" THEN [links EXCEPT ![w][x] = LinkedTo(w, x)] ELSE links
     /\ cursor' = [cursor EXCEPT ![w].pos = @ + 1]
     /\ UNCHANGED <<treeVars, moved, promised>>

NextTable(w) ==
  /\ phase[w] = "copying" /\ phase[Parent(w)] # "gone"
  /\ cursor[w].kind \in DOMAIN Order /\ cursor[w].pos > cursor[w].end
  /\ cursor' = [cursor EXCEPT ![w] = AtTable(w, cursor[w].kind + 1)]
  /\ UNCHANGED <<treeVars, table, links, moved, promised>>

EndCopying(w) ==
  /\ cursor[w].kind \notin DOMAIN Order /\ EndCopy(w) /\ UNCHANGED copyVars

(* The end of a context takes its tables along.                            *)
EndContext(t) ==
  /\ EndRequest(t)
  /\ table' = [table EXCEPT ![t] = NoTable]
  /\ links' = IF t = Main THEN links ELSE [links EXCEPT ![t] = NoLinks]
  /\ promised' = IF t = Main THEN promised ELSE [promised EXCEPT ![t] = {}]
  /\ UNCHANGED <<cursor, moved>>

-----------------------------------------------------------------------------
(* What goes on by itself: a worker's steps, the return of a join, and the *)
(* end of a context, in which the engine drops every object.               *)
Continue(t) ==
  \/ /\ t \in Workers
     /\ \/ StartCopying(t) \/ CopyEntry(t) \/ NextTable(t) \/ EndCopying(t)
        \/ (RunTask(t) \/ EndLoop(t) \/ \E status \in {0, 1} : EndTask(t, status)) /\ UNCHANGED copyVars
  \/ EndContext(t)
  \/ /\ \/ ReturnJoin(t) \/ Shutdown(t)
        \/ \E o \in Objs : (phase[t] = "ending" /\ Drop(t, o)) \/ JoinChild(t, o)
     /\ UNCHANGED copyVars

Program(t) ==
  \/ \E o \in Objs : (New(t, o) \/ Join(t, o) \/ (Active(t) /\ Drop(t, o))) /\ UNCHANGED copyVars
  \/ \E o \in Objs, w \in Workers : StartWorker(t, o, w)
  \/ \E x \in Names : Declare(t, x)
  \/ \E o \in Objs, k \in Tasks : AddTask(t, o, k) /\ UNCHANGED copyVars

(* The end of the main thread is the end of the process.                   *)
Finished == phase[Main] = "gone" /\ UNCHANGED vars

Next == \/ /\ phase[Main] # "gone"
           /\ \/ \E t \in Threads : Continue(t) \/ Program(t)
              \/ \E status \in {0, 1} : EndScript(status) /\ UNCHANGED copyVars
        \/ Finished

Fairness == \A t \in Threads : WF_vars(Continue(t))
Spec == Init /\ [][Next]_vars
LiveSpec == Spec /\ Fairness

-----------------------------------------------------------------------------
TypeOK ==
  /\ TreeTypeOK
  /\ \A t \in Threads, k \in KindNames :
       ToSet(table[t][k]) \subseteq {x \in Names : Kind[x] = k} /\ IsInjective(table[t][k])
  /\ \A w \in Workers : \A x \in Classes : links[w][x] \subseteq Direct[x]
  /\ \A w \in Workers : cursor[w].kind \in 1..Len(Order) + 1 /\ cursor[w].pos \in 1..cursor[w].end + 1
  /\ \A w \in Workers : cursor[w].kind \in DOMAIN Order /\ phase[w] = "copying" =>
       phase[Parent(w)] = "gone" \/ cursor[w].end <= Len(table[Parent(w)][Order[cursor[w].kind]])
  /\ moved \subseteq Workers /\ promised \in [Workers -> SUBSET Names]

(* The tables and file names a worker walks are where they were when the   *)
(* walk began, and their owner has not destroyed them.                     *)
SourceStays == SourceLives /\ \A w \in moved : phase[w] # "copying"

(* A worker that runs has every function, class and constant its parent    *)
(* had when it started it, but for anonymous classes and for a constant in *)
(* the place of which it has the one spelt in lower case.                  *)
Shadowed(w) == {x \in Names : Kind[x] = "constant" /\ Lower[x] # x /\ Lower[x] \in Has(w)}
CopiedWhole ==
  \A w \in Workers : phase[w] = "running" =>
    promised[w] \subseteq Has(w) \cup Anonymous \cup Shadowed(w)

(* The classes of a worker extend, implement and use the classes of the    *)
(* worker's table, so that instanceof holds as it does in the parent.      *)
Linked == \A w \in Workers : phase[w] = "running" =>
            \A x \in ToSet(table[w]["class"]) : links[w][x] = Direct[x]

(* When the script ends the process does, and with NoOrphan every thread   *)
(* that is still known to its creator, whatever they wait for.             *)
AllEnd == phase[Main] = "ending" ~> phase[Main] = "gone"
=============================================================================
