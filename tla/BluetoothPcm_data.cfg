SPECIFICATION Spec
CONSTANTS
  Sizes = {2, 4}
  QueueSize = 2
  MaxPolls = 2
  Latencies = {0, 1, 2}
  MaxSessions = 2
  MaxSamples = 4
INVARIANTS InOrder SplitOnlyIfDisabled ResetsToldApart
PROPERTIES SuspendNotLost OperationsReturn
CHECK_DEADLOCK FALSE
