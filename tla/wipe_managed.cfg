SPECIFICATION AdminSpec
CONSTANTS
  p1 = p1
  p2 = p2
  d1 = d1
  d2 = d2
  o1 = o1
  o2 = o2
  single = single
  Pools = {p1, p2}
  Disks = {d1, d2}
  Ops = {o1, o2}
  Profiles = {single}
  MinDisks <- MCMinDisks
  KernelMin <- MCKernelMin
  DfRank <- MCDfRank
  Kinds = {"create"}
  DbFaults = TRUE
  Deadline = FALSE
  MaxCrashes = 0
  MaxScans = 1
  NoPool = NoPool
  NoOp = NoOp
  NoProfile = NoProfile
SYMMETRY Symmetric
PROPERTY WipeSparesManaged
CHECK_DEADLOCK FALSE
