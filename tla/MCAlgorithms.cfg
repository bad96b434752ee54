SPECIFICATION MCSpec
CONSTANTS
  Total = 7
  m1 = m1
  m2 = m2
  Methods = {m1, m2}
  Slots = {0, 1, 2}
  Search <- MCSearch
  BeginSlots <- MCBegin
  Layouts <- MCLayouts
  Words <- MCWords
  MaxHits = 2
  MaxFlips = 1
  Room = 1
  MaxMethod = 2
  Lens = {0, 1, 2}
  MaxRecords = 2
  Nulled = Nulled
  Outside = Outside
  Old = Old
  NoBody = NoBody
CHECK_DEADLOCK FALSE
INVARIANTS CompleteIffAllReceived OwnDexFirst ReachableResolved FallbackOff FallbackSearches PassesDisjoint LastCaptureWins OthersKept LossCounted
