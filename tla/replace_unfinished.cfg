SPECIFICATION Spec
CONSTANTS
  p1 = p1
  p2 = p2
  d1 = d1
  d2 = d2
  d3 = d3
  o1 = o1
  o2 = o2
  o3 = o3
  single = single
  raid1 = raid1
  Pools = {p1}
  Disks = {d1, d2}
  Ops = {o1, o2}
  Profiles = {single, raid1}
  MinDisks <- MCMinDisks
  KernelMin <- MCKernelMin
  DfRank <- MCDfRank
  Kinds = {"create", "replace"}
  DbFaults = FALSE
  Deadline = FALSE
  MaxCrashes = 1
  NoPool = NoPool
  NoOp = NoOp
  NoProfile = NoProfile
SYMMETRY Symmetric
PROPERTY ReplaceFreesDisk
CHECK_DEADLOCK FALSE
