\* Two clients, of which one may register anew; two dispatches at a time, a day
\* after which registrations expire, and a fault.
CONSTANTS
  Clients = {alice, bob}
  Subs = {s1, s2}
  Keys = {k1, k2}
  Dispatches = {d1, d2}
  NoKey = NoKey
  NoRecord = NoRecord
  NoSave = NoSave
  Ttl = 0
  MaxDay = 1
  MaxUpdates = 2
  MaxFaults = 1
SPECIFICATION Spec
SYMMETRY Symmetry
INVARIANTS TypeOK SignedAsSubscribed
PROPERTIES OnlyLeavesForCause
