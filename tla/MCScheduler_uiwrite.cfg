SPECIFICATION Spec
CONSTANTS
  a = a
  b = b
  c = c
  d = d
  api = api
  a11y = a11y
  Nodes <- DiamondNodes
  Edges <- DiamondEdges
  Writes <- ScreenWrites
  Keyed <- DiamondWrites
  Waits = {b}
  Checked = {}
  Forkable = {}
  External = {d}
  Refs = {d}
  Surfaces = {api, a11y}
  SurfaceOf <- ScreenSurface
  Pool <- PermitEach
  Doors = {api, a11y}
  MaxAttempts = 1
  MaxRuns = 2
  MaxCrashes = 0
CHECK_DEADLOCK FALSE
INVARIANTS WritesHappenOnce
