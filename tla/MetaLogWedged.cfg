SPECIFICATION FairCrashSpec
CONSTANTS
  Miss = Miss
  NoItem = NoItem
  Master = m
  Clients = {c1}
  Items = {a, b}
  Files = {b}
  LastIndex = 1
  NParts = 1
  MaxErrors = 0
  MaxCrash = 1
PROPERTIES
  RetrySucceeds
