SPECIFICATION UploadsSpec
CONSTANTS
  UploadTasks = {"v1"}
  TotalChunks = 2
  MaxUploadRequests = 2
  MaxUploadAborts = 1
  MaxUploadFaults = 0
INVARIANT DoneIsWhole
CHECK_DEADLOCK FALSE
