SPECIFICATION Spec
CONSTANTS
  a = a
  b = b
  c = c
  d = d
  api = api
  a11y = a11y
  Nodes <- DiamondNodes
  Edges <- DiamondEdges
  Writes <- DiamondWrites
  Keyed <- DiamondWrites
  Waits = {b}
  Checked = {b}
  Forkable = {c}
  External = {d}
  Refs = {d}
  Surfaces = {api}
  SurfaceOf <- OneSurface
  Pool <- OnePermit
  Doors = {api}
  MaxAttempts = 2
  MaxRuns = 3
  MaxCrashes = 2
CHECK_DEADLOCK FALSE
INVARIANTS ExactlyOnce OrderedEffects LedgerHonest NeverIncomplete
PROPERTIES RunsAsTold NoRerun GatesHold KeepsPromise
