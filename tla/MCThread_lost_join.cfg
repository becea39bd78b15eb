SPECIFICATION LiveSpec
CONSTANTS
  MaxCalls = 1
  MaxStarts = 1
  MaxArgs = 0
  Kinds <- OneKind
  Program <- EarlyHabits
PROPERTY JoinTerminates
