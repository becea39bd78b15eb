SPECIFICATION Spec
CONSTANTS
  Threads = {t1, t2, t3}
  Unset = Unset
  SetValues <- Five
  MaxCalls = 2
  MaxNest = 2
SYMMETRY Symmetry
INVARIANT TypeOK
INVARIANT NoUpdateLost
INVARIANT SectionStable
