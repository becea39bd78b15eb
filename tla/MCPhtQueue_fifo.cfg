SPECIFICATION Spec
CONSTANTS
  Objects = {o1, o2}
  Entries = {e1, e2, e3}
  Nodes = {n1, n2, n3}
  Null = Null
  Nothing = Nothing
  Error = Error
INVARIANT ChainAgrees
INVARIANT NothingLost
INVARIANT TableTrue
PROPERTY Fifo
