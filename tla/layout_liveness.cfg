SPECIFICATION DaemonSpec
CONSTANTS
  p1 = p1
  p2 = p2
  d1 = d1
  d2 = d2
  d3 = d3
  o1 = o1
  o2 = o2
  o3 = o3
  single = single
  raid1 = raid1
  Pools = {p1}
  Disks = {d1, d2}
  Ops = {o1, o2}
  Profiles = {single, raid1}
  MinDisks <- MCMinDisks
  KernelMin <- MCKernelMin
  DfRank <- MCDfRank
  Kinds = {"create", "destroy", "add", "remove", "replace", "convert"}
  DbFaults = FALSE
  Deadline = TRUE
  MaxCrashes = 1
  NoPool = NoPool
  NoOp = NoOp
  NoProfile = NoProfile
  Filesystems = {"f1", "f2"}
  MountPoints = {"data", "data2"}
  First = "f1"
  Home = "data"
  Longer = {"data2"}
  Overlaps = FALSE
  MaxMountRequests = 2
  MaxMountFaults = 1
  HealthDisks = {d1, d2}
  Nvme = {}
  HealthProfiles = {"raid1"}
  MaxHealthChanges = 2
  MaxHealthRestarts = 1
  BackupJobs = {"j1"}
  Dests = {"d1", "d2"}
  Sources = {"s1", "s2"}
  SnapshotMax = 1
  MaxSnaps = 2
  MaxBackupEdits = 1
  MaxBackupFaults = 1
  PoolServices = {"docker"}
  SystemServices = {"ssh"}
  InternalServices = {}
  HealthApps = {"a1"}
  MaxServiceRequests = 1
  MaxServiceFaults = 1
INVARIANTS
  PoolsKeepTheirLines
  DamageNeverHelps
  BackupsAreSound
PROPERTIES
  OpsSettle
  FilesAreSafe
  PoolsComeBack
  DamageIsTold
  JobsRecover
  ServicesSettle
CHECK_DEADLOCK FALSE
