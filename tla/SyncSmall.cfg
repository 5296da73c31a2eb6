CONSTANTS
  idle = idle
  main = main
  t1 = t1
  t2 = t2
  Threads <- Three
  Idle = idle
  Main = main
  WaitLists = {"mutex", "condvar"}
  Sleepers = {}
  ClientPoints = {"lock", "block", "crit"}
  Quantum = 2
  MaxNest = 1
  Follow = 0
  NoOne = NoOne
SPECIFICATION Spec
INVARIANT TypeOK
INVARIANT NoUndefined
INVARIANT MutualExclusion
INVARIANT NobodyForgotten
PROPERTY ImplementsMonitor
PROPERTY ImplementsLock
