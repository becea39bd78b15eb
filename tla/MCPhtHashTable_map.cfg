SPECIFICATION Spec
CONSTANTS
  Objects = {o1}
  Entries = {e1, e2, e3, e4}
  Null = Null
  Nothing = Nothing
  Error = Error
  Keys <- Colliding
  Habits <- BadOffset
INVARIANT Searchable
INVARIANT NothingLost
INVARIANT TableTrue
INVARIANT UpdatesOwnBucket
PROPERTY IsMap
SYMMETRY Symmetry
CHECK_DEADLOCK FALSE
