SPECIFICATION Spec
CONSTANTS
  Objects = {o1}
  Entries = {e1, e2, e3, e4}
  Junk = Junk
  Nothing = Nothing
  Error = Error
  Habits <- BadIndex
INVARIANT NothingLost
INVARIANT TableTrue
PROPERTY IsList
SYMMETRY Symmetry
