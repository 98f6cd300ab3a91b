SPECIFICATION FairSpec
CONSTANTS
  a = a
  b = b
  c = c
  d = d
  api = api
  a11y = a11y
  Nodes <- FanNodes
  Edges <- FanEdges
  Writes <- FanWrites
  Keyed <- FanWrites
  Waits = {d}
  Checked = {}
  Forkable = {c}
  External = {a}
  Refs = {d}
  Surfaces = {api, a11y}
  SurfaceOf <- FanSurface
  Pool <- PermitEach
  Doors = {api}
  MaxAttempts = 2
  MaxRuns = 2
  MaxCrashes = 1
CHECK_DEADLOCK FALSE
PROPERTIES StopIsFinal RunEnds
