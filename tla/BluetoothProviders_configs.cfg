\* Every session type; the configurations of MCBluetoothProviders.
CONSTANTS
  Providers = {p1, p2}
  SessionTypes <- AllTypes
  Configs <- MCConfigs
  MqMayFail = TRUE
SPECIFICATION Spec
INVARIANTS SessionSound ConfigAccepted LegacyAgrees IntervalFits
