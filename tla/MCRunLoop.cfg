SPECIFICATION MCSpec
CONSTANTS
  Order <- MCOrder
  Gated <- MCGated
  Batch = 2
  Capacity = 3
  k1 = k1
  k2 = k2
  c1 = c1
  c2 = c2
  c3 = c3
  Keys = {k1, k2}
  Contents = {c1, c2, c3}
  Gone = Gone
  None = None
  Damaged = Damaged
  FP <- MCFP
  MaxRedumps = 2
  MaxChanges = 2
INVARIANTS NormalStopDrains CapturedInPass
PROPERTIES StopEndsRun EveryRingServed StopEndsWatch
