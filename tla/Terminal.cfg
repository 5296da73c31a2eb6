CONSTANTS
  H = 2
  W = 6
  Glyphs <- MCGlyphs
  BUFSIZE = 6
  MAX_ARGC = 2
  Prompt <- MCPrompt
  Scripts <- MCScripts
  Startup <- MCStartup
  Greeting <- MCGreeting
  Keys = {"s", "u", "q", " ", "DEL", "UP", "CR"}
  Fds = {0, 2, 3}
  MaxKeys = 6
SPECIFICATION FairSpec
INVARIANT WindowKept
INVARIANT EchoIsLine
INVARIANT CommandsAreLines
 
CHECK_DEADLOCK FALSE
