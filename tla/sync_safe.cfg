\* Lost calls, failing disk writes, crashes and dropped streams.
CONSTANTS
  Clients = {alice, bob}
  Main = main
  Entries = {e1, e2, e3}
  Configs = {k}
  Me = alice
  NoFile = NoFile
  Nothing = Nothing
  Imported = TRUE
  MaxFaults = 1
  MaxCrashes = 2
  MaxDrops = 1
  MaxCommits = 4
SPECIFICATION Spec
SYMMETRY Symmetry
INVARIANTS TypeOK BranchIsLocal PendingIsSafe ConflictsAreDone
PROPERTIES MainKeepsEdits
