SPECIFICATION FairSpec
CONSTANTS
  Miss = Miss
  Hosts = {h1, h2}
  PHost = h1
  NBuckets = 3
  NParts = 2
  NMessages = 4
INVARIANTS
  TypeOK
  UnconsumedIntact
  RetryRepairsCrc
  DrainEmpties
  CoherentNeverFatal
PROPERTIES
  ImplementsFifo
  AllDelivered
CHECK_DEADLOCK FALSE
