\* Two UFS LUNs that hold backup partitions, xbl on the boot LUNs.
CONSTANTS
  Luns = {lun1, lun2}
  HasBackup = {lun1, lun2}
  UsesXbl = TRUE
  MaxCrashes = 2
  MaxIoErrors = 2
SPECIFICATION Spec
INVARIANTS Bootable StagesDeliver XblBackupSafe
PROPERTIES SafeUpdateSpec
SYMMETRY Symmetry
