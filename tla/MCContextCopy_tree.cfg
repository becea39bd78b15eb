SPECIFICATION LiveSpec
CONSTANTS
  Main = 0
  Workers = {1, 2}
  Objs = {1, 2}
  MaxTasks = 1
  None = None
  FileTask = "file"
  Tasks <- TheTasks
  Names <- TheNames
  Kind <- TheKinds
  Direct <- TheDirect
  Anonymous <- TheAnonymous
  Lower <- TheLower
  Compiled <- TheCompiled
  Code <- TheCode
  Habits <- Usual
INVARIANT TypeOK
INVARIANT SourceStays
INVARIANT NoOrphan
INVARIANT ObjectLives
INVARIANT CopiedWhole
INVARIANT Linked
PROPERTY AllEnd
