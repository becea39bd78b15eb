SPECIFICATION Spec
CONSTANTS
  main = main
  worker = worker
  q = q
  p = p
  v = v
  r1 = r1
  r2 = r2
  r3 = r3
  r4 = r4
  r5 = r5
  Threads <- BothThreads
  Main <- main
  Structs <- AllStructs
  Containers <- TwoContainers
  Recursive <- OnlyV
  RefIds <- Refs5
  MaxLocks = 2
  Habits <- None
SYMMETRY RefSymmetry
INVARIANT RefcountExact
INVARIANT NoUseAfterFree
INVARIANT NoLeak
INVARIANT OnlySectionsBlock
INVARIANT LockExcludes
CHECK_DEADLOCK FALSE
