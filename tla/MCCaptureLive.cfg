SPECIFICATION BusySpec
CONSTANTS
  c1 = c1
  c2 = c2
  d1 = d1
  d2 = d2
  m1 = m1
  NoMethod = NoMethod
  CPUs = {c1}
  Dexes = {d1, d2}
  Methods = {m1}
  Size <- Size21
  Room <- LiveRoom
  MaxChunks = 1
  MaxEvictions = 1
  MaxFaults = 0
  Lossy = FALSE
INVARIANT MarkedMethodRecorded
PROPERTY EventuallySaved
