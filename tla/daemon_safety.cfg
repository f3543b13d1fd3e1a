SPECIFICATION DaemonSpec
CONSTANTS
  ErrorKeys = {"kE"}
  DebugKeys = {"kD"}
  AuditKey = "kA"
  Emitters = {"e1", "e2"}
  RateLimit = 2
  HoursPerDay = 2
  ErrorDays = 2
  DebugDays = 1
  OperationDays = 1
  MonthDays = 2
  NewestKept = 1
  MaxHours = 5
  MaxWork = 3
  MaxEventFaults = 1
  Tasks = {"t1"}
  MinutesPerDay = 2
  MaxMinutes = 3
  MaxTaskRequests = 2
  MaxDaemonRestarts = 1
  Remotes = {"r1", "r2"}
  MaxWgJobs = 2
  MaxWgFaults = 1
  Accounts = {"root", "ann"}
  Founder = "root"
  GrantedApps = {"storage", "files"}
  AccountClients = {"c1", "c2"}
  MaxLoginAttempts = 1
  MaxAccountRequests = 2
  MaxAccountFaults = 1
  Addresses = {"a1", "a2"}
  LoginNames = {"n1", "n2"}
  LoginHandlers = {"h1"}
  Policies <- MCPolicies
  DefaultPolicy <- MCDefault
  BlockTicks <- MCBlockTicks
  KnownAt = 1
  HabitualAt = 2
  ProbeLimit = 1
  StuffLimit = 2
  QueueSize = 1
  MaxTicks = 2
  MaxShieldRequests = 3
  MaxShieldRestarts = 1
  FileShares = {{"A", "A2"}, {"B"}}
  FileNames = {"f", "g", "k"}
  Links = {"k"}
  FileClients = {"c1", "c2"}
  MaxInodes = 9
  MaxFileRequests = 2
  MaxFileFaults = 1
  Careful = TRUE
  UploadTasks = {"v1", "v2"}
  TotalChunks = 2
  MaxUploadRequests = 2
  MaxUploadAborts = 1
  MaxUploadFaults = 1
  ShareNames = {"s1"}
  SharePools = {"data", "data2"}
  Prefixed <- MCPrefixed
  FolderNames = {"f1"}
  ShareAdmins = {"c1", "c2"}
  MaxShareCalls = 3
  MaxShareFaults = 1
INVARIANTS
  OnceADay
  AddressesDistinct
  SessionsHaveAccounts
  BlocksAreEarned
  NoDoubleRows
  NothingIsLost
  WholeUnlessMet
PROPERTIES
  FoldersBornWhole
CHECK_DEADLOCK FALSE
