\* Two client threads; a call may be given up after one slow ping.
CONSTANTS
  Threads = {main, t2}
  Main = main
  Pointers = {p1}
  MaxCommands = 2
  MaxIds = 2
  MaxPresses = 1
  MaxControl = 2
  Tolerable = 1
SPECIFICATION FairSpec
INVARIANTS
  TypeOK
  CancelIsForItsCommand
  RegistryFollowsProxies

  
