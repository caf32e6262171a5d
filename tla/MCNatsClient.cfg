CONSTANTS
  Clients = {o1, o2}
  Conns = {c1, c2}
  Opts = {p1, p2}
  JsCtxs = {j1, j2}
  NULL = NULL
  Lost = Lost
  LifetimeDSE = FALSE
SPECIFICATION Spec
INVARIANT TypeOK
INVARIANT HandlesSound
INVARIANT JetStreamMatchesConnection
INVARIANT LastErrorBlocksConnect
PROPERTY ImplementsOwnership
SYMMETRY Symmetry
CHECK_DEADLOCK FALSE
