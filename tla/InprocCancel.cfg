\* Server, client and the client of a lambda worker in one process.
CONSTANTS
  Threads = {main}
  Main = main
  Pointers = {}
  MaxCommands = 2
  MaxIds = 1
  MaxPresses = 1
  MaxControl = 1
  Tolerable = 10
SPECIFICATION InprocSpec
INVARIANT
  CancelIsForItsCommand
