SPECIFICATION CrashSpec
CONSTANTS
  Miss = Miss
  NoItem = NoItem
  Master = m
  Clients = {c1}
  Items = {a, b}
  Files = {a, b}
  LastIndex = 0
  NParts = 2
  MaxErrors = 1
  MaxCrash = 2
SYMMETRY ItemSymmetry
INVARIANTS
  TypeOK
  SuccessIsComplete
  AckedIsDurable
