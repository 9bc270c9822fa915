SPECIFICATION Spec
CONSTANTS
  Names <- MCNames
  Builtins <- MCBuiltins
  Kind <- MCKind
  Files <- MCFiles
  Dirs <- MCDirs
  Locate <- MCLocate
  DirOf <- MCDirOf
  Texts <- MCTexts
  Source <- MCSource
  Main = "main.fard"
  Here = "."
  Worlds <- MCWorlds
  Locks <- MCLocks
  Lines <- MCLines
  MaxLines = 3
  Edits <- MCEdits
  MaxEdits = 1
  Absent = Absent
  Nowhere = Nowhere
  NoLock = NoLock
  NoEntry = NoEntry
  NotCached = NotCached
  Unknown = Unknown
  Prompt = Prompt
INVARIANTS
  StackOutlivesErrors
  ResolvedAgainOnlyIfLeft
  SteadyLoadsAreTraced
  LockIsKept
PROPERTIES ImportsAreSound EvaluationEnds
CHECK_DEADLOCK FALSE
