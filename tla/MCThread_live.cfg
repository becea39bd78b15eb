SPECIFICATION LiveSpec
CONSTANTS
  MaxCalls = 3
  MaxStarts = 2
  MaxArgs = 2
  Kinds <- FileOnly
  Program <- JoinHabits
INVARIANT NoUseAfterDestroy
INVARIANT RefsExact
INVARIANT NoTaskLeak
PROPERTY JoinTerminates
PROPERTY RunnerSafe
PROPERTY RunnerSpec
