SPECIFICATION Spec
CONSTANTS
  m = m
  c = c
  Host = {m, c}
  NoHost = NoHost
  Miss = Miss
  Loads <- MCLoads
  MaxCrash = 1
INVARIANTS
  TypeOK
  NothingLeftBehind
  SuccessIsMounted
  MkfsIsDurable
PROPERTIES
  MkfsSpares
  PlayedIsCurrent
CHECK_DEADLOCK FALSE
