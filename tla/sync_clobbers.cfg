\* A file with edits not yet pushed, before the first start or during a pull.
CONSTANTS
  Clients = {alice, bob}
  Main = main
  Entries = {e1, e2}
  Configs = {k}
  Me = alice
  NoFile = NoFile
  Nothing = Nothing
  Imported = TRUE
  MaxFaults = 0
  MaxCrashes = 0
  MaxDrops = 0
  MaxCommits = 4
SPECIFICATION Spec
SYMMETRY Symmetry
INVARIANTS LocalEditsSurvive
