\* UPDATE_MAIN again, on a disk that "already set" makes it skip.
CONSTANTS
  Luns = {lun1, lun2}
  HasBackup = {lun1, lun2}
  UsesXbl = TRUE
  MaxCrashes = 1
  MaxIoErrors = 0
SPECIFICATION Spec
INVARIANT ReadyForUpdate
