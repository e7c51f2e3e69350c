SPECIFICATION Spec
CONSTANTS
  Miss = Miss
  Hosts = {h1, h2}
  PHost = h1
  NBuckets = 2
  NParts = 2
  NMessages = 3
INVARIANT
  NoSeqMismatch
CHECK_DEADLOCK FALSE
