\* Two clients, hang-ups and failures between tasks; no orphan tasks.
CONSTANTS
  Clients = {alice, bob}
  Main = main
  Entries = {e1, e2}
  Configs = {k}
  Procs = {p1, p2}
  NoProc = NoProc
  RefUpdateRetries = 3
  Bypass = {}
  MaxRequests = 3
  MaxFaults = 1
  MaxHangUps = 1
SPECIFICATION Spec
SYMMETRY Symmetry
INVARIANTS SerialInv AckedWritesKept MergedHoldsBoth MainAnnounced
PROPERTIES HeadsOnlyAdvance TempClearedAfterPromote KeepsLog
