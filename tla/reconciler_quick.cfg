SPECIFICATION Spec
CONSTANTS
  d1 = d1
  d2 = d2
  d3 = d3
  mirror = mirror
  data = data
  Disks = {d1, d2, d3}
  Pools = {mirror, data}
  DisksOf <- MCDisksOf
  Threshold = 3
  MaxOutages = 2
  ScanFaults = TRUE
  Slow = FALSE
  NoDisk = NoDisk
PROPERTY PoolsReturn
