CONSTANTS
  Threads <- Three
  idle = idle
  main = main
  t1 = t1
  Idle = idle
  Main = main
  WaitLists = {}
  Sleepers <- Sleeping
  ClientPoints = {"delaying"}
  Quantum = 2
  MaxNest = 2
  Follow = 0
  Msecs = {2, 6}
  Never = Never
SPECIFICATION Spec
INVARIANT WakesSleeper
