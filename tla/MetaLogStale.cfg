SPECIFICATION CrashSpec
CONSTANTS
  Miss = Miss
  NoItem = NoItem
  Master = m
  Clients = {c1}
  Items = {a, b}
  Files = {a, b}
  LastIndex = 1
  NParts = 2
  MaxErrors = 0
  MaxCrash = 1
INVARIANTS
  AppliedIsLogged
