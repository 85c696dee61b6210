\* sync-local starts before main exists.
CONSTANTS
  Clients = {alice, bob}
  Main = main
  Entries = {e1, e2}
  Configs = {k}
  Me = alice
  NoFile = NoFile
  Nothing = Nothing
  Imported = FALSE
  MaxFaults = 0
  MaxCrashes = 0
  MaxDrops = 0
  MaxCommits = 4
SPECIFICATION Spec
SYMMETRY Symmetry
PROPERTIES MainKeepsEdits
