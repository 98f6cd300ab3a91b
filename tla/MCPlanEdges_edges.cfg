SPECIFICATION Spec
CONSTANTS
  Size = 4
  Found <- SomeEdges
INVARIANTS CycleIsReal PlanCanBeRun
PROPERTIES KeepsTheOrder Ends
CHECK_DEADLOCK FALSE
