SPECIFICATION Spec
CONSTANTS
  MaxCalls = 3
  MaxStarts = 2
  MaxArgs = 1
  Kinds <- AllKinds
  Program <- TwiceHabits
INVARIANT TypeOK
INVARIANT SizeAgrees
INVARIANT ExactlyOnce
CHECK_DEADLOCK FALSE
