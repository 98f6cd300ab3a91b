SPECIFICATION HostSpec
CONSTANTS
  Worlds <- SomeWorlds
  PrintOf <- SomePrints
  SurfaceSets <- SomeSurfaceSets
  Goals = {"invoice"}
  Datas <- SomeDatas
  Shown <- SomeShown
  NoFacts = "nothing"
  Intents <- Names
  Empty = "nothing"
  Replies <- SomeReplies
  Expanded <- SomeExpanded
  Accepted <- SomeAccepted
  MaxRequests = 2
  NoJob = NoJob
  Timings <- SomeTimings
  Apps <- SomeApps
  Files = {"openapi.json"}
  DefaultApp = "here"
  Unsaid = "unsaid"
  WorldOf <- SomeWorldOf
  Offered <- SomeOffered
  Plans <- SomePlans
  Placeheld <- SomePlaceheld
  Filled <- SomeFilled
  Answered <- SomeAnswered
  Sturdy <- SomeSturdy
  Commands <- SomeCommands
  Pids = {p1, p2}
  MaxCommands = 2
  Library <- SomeQuestions
  MaxCached = 1
SYMMETRY Symmetry
INVARIANTS TypeOK NothingTwice UnaskedOnlyAfterAnswer CommittedMeansDone ReceiptTells HandedOverFits FiguresAreRight
CHECK_DEADLOCK FALSE
