---------------------------- MODULE MCContextCopy ----------------------------
(* ContextCopy for two Threads and two workers: both of the main thread,   *)
(* one of the other, or both for one Thread.  The main script is compiled  *)
(* with an anonymous class, a class and one that extends it; the tasks of  *)
(* the first worker define a constant in two spellings, in either order,   *)
(* while the second worker may copy them.                                  *)
EXTENDS ContextCopy, TLC
TheNames == {"class@anonymous", "A", "B", "C", "c"}
TheKinds == [x \in TheNames |-> IF x \in {"C", "c"} THEN "constant" ELSE "class"]
TheDirect == [x \in TheNames |-> IF x = "B" THEN {"A"} ELSE {}]
TheAnonymous == {"class@anonymous"}
TheLower == [x \in TheNames |-> IF x = "C" THEN "c" ELSE x]
TheCompiled == [function |-> <<>>, class |-> <<"class@anonymous", "A", "B">>, constant |-> <<>>]
TheCode == [t \in Threads |-> IF t = 1 THEN {"C", "c"} ELSE {}]
TheTasks == {"file"}
Usual == {}
=============================================================================
