SPECIFICATION Spec
CONSTANTS
  Worlds <- FiveWorlds
  Intents <- SomeIntents
  SurfaceSets <- SomeSurfaces
  Answers <- SomeAnswers
  LongHand <- SomeLongHand
  RefersTo <- RefsOf
INVARIANTS DataDecidesTheOrder KeysKeepTheirNodes NothingIsAskedTwice AnswersKeepKeys EachIsShorthand OrderCheckTells 
PROPERTY BuildSpec
CHECK_DEADLOCK FALSE
