\* The process dies after a promote.
CONSTANTS
  Clients = {alice, bob}
  Main = main
  Entries = {e1, e2}
  Configs = {k}
  Me = alice
  NoFile = NoFile
  Nothing = Nothing
  Imported = TRUE
  MaxFaults = 0
  MaxCrashes = 1
  MaxDrops = 0
  MaxCommits = 4
SPECIFICATION Spec
SYMMETRY Symmetry
INVARIANTS RecoveryCompletes
