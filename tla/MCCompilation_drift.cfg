SPECIFICATION Spec
CONSTANTS
  Worlds <- LookAlikes
  Intents <- ShortIntents
  SurfaceSets <- SomeSurfaces
  Answers <- SomeAnswers
  LongHand <- SomeLongHand
  RefersTo <- RefsOf
INVARIANT SameFingerprintSamePlan
CHECK_DEADLOCK FALSE
