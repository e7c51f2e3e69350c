SPECIFICATION Spec
CONSTANTS
  Root = Root
  d = d
  f = f
  g = g
  Node = {d, f, g}
  Dir = {d}
  Loads <- MCFlockLoads
  Parent <- MCParent
  Log <- MCLog
  Fmeta <- MCFmeta
  ParsedFull <- MCParsedFull
  ParsedEmpty <- MCParsedEmpty
  NoMap = NoMap
  Worker = {w1, w2}
  Handle = {h1, h2}
  NoHandle = NoHandle
  MaxLookup = 1
  MaxCrash = 1
  FAMFS_MAX_SIMPLE_EXTENTS = 2
  FMAP_MSG_MAX = 32
INVARIANT
  FlockExclusive
SYMMETRY MCSymmetry
CHECK_DEADLOCK FALSE
