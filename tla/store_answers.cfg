\* Fair scheduling.
CONSTANTS
  Clients = {alice, bob}
  Main = main
  Entries = {e1}
  Configs = {k}
  Procs = {p1, p2}
  NoProc = NoProc
  RefUpdateRetries = 3
  Bypass = {}
  MaxRequests = 2
  MaxFaults = 1
  MaxHangUps = 1
SPECIFICATION FairSpec
PROPERTIES RequestsEnd
