SPECIFICATION Spec
CONSTANTS
  d = d
  f = f
  g = g
  Paths = {d, f, g}
  Root = Root
  Parent <- MCParent
  Sizes = {3, 6}
  Modes <- ContiguousOnly
  NBits = 12
  MetaBits = 2
  MinBucket = 3
  FAMFS_MAX_NBUCKETS = 4
  FAMFS_MAX_SIMPLE_EXTENTS = 2
  Stray <- MCStray
  LogSlots = 2
  MaxCrash = 0
  MaxFail = 0
INVARIANT
  WithinDevice
