SPECIFICATION Spec
CONSTANTS
  c1 = c1
  c2 = c2
  d1 = d1
  d2 = d2
  m1 = m1
  NoMethod = NoMethod
  CPUs = {c1, c2}
  Dexes = {d1}
  Methods = {}
  Size <- Size3
  Room <- MCRoom
  MaxChunks = 2
  MaxEvictions = 1
  MaxFaults = 1
  Lossy = TRUE
SYMMETRY TwoCPUs
INVARIANTS PartsKept FinishedIsSaved
