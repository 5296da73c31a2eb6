CONSTANTS
  RING = 2
  Sessions <- MCSessions
  Clients <- MCClients
  Kinds = {"us", "other", "long"}
  MaxFrames = 3
  MaxRefresh = 2
  Fds = {4, 5}
SPECIFICATION FairSpec
INVARIANT ListsSound
INVARIANT ReadOnce
INVARIANT Answered
PROPERTY FramesRead
CHECK_DEADLOCK FALSE
