SPECIFICATION Spec
CONSTANTS
  Worlds <- AppWorlds
  Intents <- PlainIntents
  SurfaceSets <- SomeSurfaces
  Answers <- SomeAnswers
  LongHand <- SomeLongHand
  RefersTo <- RefsOf
INVARIANT WantOrderDoesNotDecide
CHECK_DEADLOCK FALSE
