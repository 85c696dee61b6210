\* A fair process; a call or a disk write may fail once, and the stream may drop once.
CONSTANTS
  Clients = {alice, bob}
  Main = main
  Entries = {e1, e2}
  Configs = {k}
  Me = alice
  NoFile = NoFile
  Nothing = Nothing
  Imported = TRUE
  MaxFaults = 1
  MaxCrashes = 0
  MaxDrops = 1
  MaxCommits = 4
SPECIFICATION FairSpec
PROPERTIES Converges EditsReachMain
