SPECIFICATION Spec
CONSTANTS
  Values <- TheValues
  Callables <- TheCallables
  Cells = {c1}
  Blocks = {1, 2, 3}
  MaxTasks = 1
  MaxArgs = 2
  IntValues = 4
  None = None
  Habits <- Usual
INVARIANT RoundTrip
INVARIANT BlocksExact
