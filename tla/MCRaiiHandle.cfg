CONSTANTS
  Objs = {o1, o2, o3}
  Handles = {h1, h2, h3}
  MaxCount = 2
  NULL = NULL
SPECIFICATION Spec
INVARIANT TypeOK
INVARIANT HandlesSound
INVARIANT KeysReadable
PROPERTY ImplementsOwnership
CHECK_DEADLOCK FALSE
