SPECIFICATION DaemonSpec
CONSTANTS
  d1 = d1
  d2 = d2
  d3 = d3
  mirror = mirror
  data = data
  Disks = {d1, d2, d3}
  Pools = {mirror, data}
  DisksOf <- MCDisksOf
  Threshold = 3
  MaxOutages = 2
  ScanFaults = TRUE
  Slow = TRUE
  NoDisk = NoDisk
  Domains = {"d1"}
  DdnsAdmins = {"c1"}
  FailureThreshold = 1
  MaxDdnsEdits = 2
  MaxDdnsFaults = 1
  ExposedApps = {"a1"}
  ExposureAdmins = {"c1"}
  Routes = {"r1"}
  FwPorts = {22, 80}
  SshPort = 22
  MaxExposureEdits = 2
  MaxExposureFaults = 1
  Stacks = {"s1"}
  Singles = {"c1"}
  MaxAppJobs = 2
  MaxAppFaults = 1
  Images = {"i1"}
  MaxReleases = 1
  MaxUpdateCalls = 2
  MaxUpdateFaults = 2
  MaxInquiries = 2
  Reconcilers = {"a"}
  Owners = {"o1", "o2"}
  MaxSchedCalls = 4
  MaxSchedPanics = 1
  Handlers = {"h1"}
  Starter = "start"
  MaxChanges = 2
  ProbeFaults = TRUE
INVARIANTS
  FirewallKeepsItsWord
  DdnsIsSound
  SecretsKept
  StopMeansStopped
PROPERTIES
  PoolsReturn
  DdnsSettles
  CaddyConverges
  AppsStayRegistered
  InstallsEnd
  BadgeTellsTheTruth
  AnnouncedIsSeen
  VisibleIsSeen
