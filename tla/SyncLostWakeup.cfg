CONSTANTS
  idle = idle
  main = main
  t1 = t1
  t2 = t2
  Threads <- Two
  Idle = idle
  Main = main
  WaitLists = {"mutex", "condvar"}
  Sleepers = {}
  ClientPoints = {"lock", "block", "crit"}
  Quantum = 2
  MaxNest = 1
  Follow = 0
  NoOne = NoOne
SPECIFICATION FairSpec
PROPERTY NoWaitOnFreeMutex
