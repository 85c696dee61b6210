\* Orphan tasks and an init process race the holder of the mutex.
CONSTANTS
  Clients = {alice, bob}
  Main = main
  Entries = {e1}
  Configs = {k}
  Procs = {p1, p2}
  NoProc = NoProc
  RefUpdateRetries = 3
  Bypass = {"orphan", "init"}
  MaxRequests = 3
  MaxFaults = 1
  MaxHangUps = 1
SPECIFICATION Spec
SYMMETRY Symmetry
INVARIANTS TypeOK OffersAreForward
PROPERTIES OnlyFastForwardRewinds
