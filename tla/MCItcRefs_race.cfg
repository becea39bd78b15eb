SPECIFICATION Spec
CONSTANTS
  main = main
  worker = worker
  q = q
  p = p
  v = v
  r1 = r1
  r2 = r2
  r3 = r3
  r4 = r4
  r5 = r5
  Threads <- BothThreads
  Main <- main
  Structs <- OneStruct
  Containers <- None
  Recursive <- None
  RefIds <- Refs4
  MaxLocks = 2
  Habits <- DropEarly
SYMMETRY RefSymmetry
INVARIANT NoUseAfterFree
CHECK_DEADLOCK FALSE
