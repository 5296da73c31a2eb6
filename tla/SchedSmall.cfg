CONSTANTS
  idle = idle
  main = main
  t1 = t1
  Threads <- Two
  Idle = idle
  Main = main
  WaitLists = {}
  Sleepers = {main, t1}
  ClientPoints = {}
  Quantum = 2
  MaxNest = 2
  Follow = 1
SPECIFICATION SchedFairSpec
INVARIANT SchedTypeOK
INVARIANT CurrentIsRunning
INVARIANT NoUndefined
INVARIANT LinkedOnce
PROPERTY NoStarvation
