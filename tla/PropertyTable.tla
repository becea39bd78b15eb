---------------------------- MODULE PropertyTable ----------------------------
(***************************************************************************)
(* The property table of a PHP object that stands for a Queue, a Vector or *)
(* a HashTable: what var_dump(), a cast or a foreach reads.  The structure *)
(* and each object have a version number vn; the table is filled anew when *)
(* they differ.  Of the numbers only their equality is kept: the           *)
(* structure's is 64 bits wide and only ever incremented.                  *)
(***************************************************************************)
CONSTANT Objects   \* the PHP objects that stand for the one structure

VARIABLES built,   \* the objects that have a property table
          current, \* those whose vn is that of the structure
          stale    \* ghost: those whose table was filled before the last change

tableVars == <<built, current, stale>>

(* queue_ctor: both numbers are 0 and there is no table.                   *)
TableInit == built = {} /\ current = Objects /\ stale = {}

(* ++qoi->vn.                                                              *)
Bump_Not == UNCHANGED current
Bump == current' = {}

(* What a step that changes the content, or does not, means for the ghost. *)
Changes(content) == stale' = IF content' = content THEN stale ELSE built

(* qo_get_properties.                                                      *)
UpToDate_Exists(o) == o \in built
UpToDate(o) == o \in built /\ o \in current
GetProperties(o) ==
  IF UpToDate(o) THEN UNCHANGED tableVars
  ELSE /\ built' = built \cup {o} /\ current' = current \cup {o}
       /\ stale' = stale \ {o}

-----------------------------------------------------------------------------
(* A table that get_properties would hand out as it is shows the entries   *)
(* the structure has: no method changes them and leaves vn alone.          *)
TableTrue == \A o \in Objects : UpToDate(o) => o \notin stale
=============================================================================
