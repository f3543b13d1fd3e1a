SPECIFICATION MountSpec
CONSTANTS
  Filesystems = {"f1", "f2"}
  MountPoints = {"data", "data2"}
  First = "f1"
  Home = "data"
  Longer = {"data2"}
  Overlaps = TRUE
  MaxMountRequests = 2
  MaxMountFaults = 1
PROPERTY FilesAreSafe
CHECK_DEADLOCK FALSE
