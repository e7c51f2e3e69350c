SPECIFICATION FairSpec
CONSTANTS
  Miss = Miss
  NoItem = NoItem
  Master = m
  Clients = {c1}
  Items = {a, b}
  Files = {b}
  LastIndex = 1
  NParts = 2
  MaxErrors = 1
  MaxCrash = 0
INVARIANTS
  AppliedIsLogged
  NamespaceIsPrefix
  SuccessIsComplete
PROPERTIES
  ImplementsSharedLog
  EventuallyPlayed
