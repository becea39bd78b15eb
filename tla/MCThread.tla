------------------------------ MODULE MCThread ------------------------------
(* PhtThread on small instances.                                           *)
EXTENDS PhtThread

AllKinds == {"CLASS_TASK", "FUNCTION_TASK", "FILE_TASK"}
FileOnly == {"FILE_TASK"}
OneKind == {"CLASS_TASK"}
JoinHabits == {"join", "reuse"}
EarlyHabits == {"early_join", "reuse"}
TwiceHabits == {"join", "reuse", "start_twice"}
=============================================================================
