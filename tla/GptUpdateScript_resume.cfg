\* Two UFS LUNs, the power fails up to three times, no system call fails.
CONSTANTS
  Luns = {lun1, lun2}
  HasBackup = {lun1, lun2}
  UsesXbl = TRUE
  MaxCrashes = 3
  MaxIoErrors = 0
SPECIFICATION ScriptSpec
INVARIANTS DoneMeansUpdated
PROPERTIES Completes
CHECK_DEADLOCK FALSE
