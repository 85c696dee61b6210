\* Two clients, two dispatches at a time, and a fault.  One subscription stands for
\* those of both clients: with two, TLC takes too long for these properties.
CONSTANTS
  Clients = {alice, bob}
  Subs = {s1}
  Keys = {k1}
  Dispatches = {d1, d2}
  NoKey = NoKey
  NoRecord = NoRecord
  NoSave = NoSave
  Ttl = 0
  MaxDay = 1
  MaxUpdates = 2
  MaxFaults = 1
SPECIFICATION FairSpec
PROPERTIES NoticesAreSent DisownedLeave
