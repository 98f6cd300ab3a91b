SPECIFICATION FairSpec
CONSTANTS
  paid1 = paid1
  paid2 = paid2
  w1 = w1
  w2 = w2
  Facts <- BusFacts
  KindOf <- BusKinds
  Waits <- BusWaits
  WaitsFor <- BusFor
  AnyId = {w2}
  Checked = {w1}
  Buffer = 1
  MaxEvents = 3
CHECK_DEADLOCK FALSE
INVARIANTS FetchFinds NoLostWakeup OkIsSo
PROPERTIES WakesUp
