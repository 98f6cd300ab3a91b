SPECIFICATION Spec
CONSTANTS
  k1 = k1
  k2 = k2
  k3 = k3
  k4 = k4
  NoKey = NoKey
  Keys <- LifeKeys
  Asks <- LifeAsks
  Loose <- LifeLoose
  Customers = {1}
  Watched = {"paid"}
  MaxId = 4
  MaxLimit = 2
  MaxPending = 1
  MaxResets = 1
CHECK_DEADLOCK FALSE
INVARIANTS TypeOK RetriesSucceed NoDoubleSends HeardIsSo
PROPERTIES NeverBackwards RateHolds KeepsDoor
