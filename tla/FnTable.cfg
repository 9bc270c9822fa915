SPECIFICATION Spec
CONSTANTS
  Threads = {main, t1, t2}
  Main = main
  Loaded = 1
  MaxFns = 2
  MaxCalls = 2
INVARIANTS CallsShareTheTable
CHECK_DEADLOCK FALSE
