\* Two legacy ports, opened and closed side by side, and cookies for both.
CONSTANTS
  Ports = {port1, port2}
  NumCookies = 2
SPECIFICATION Spec
INVARIANTS CallbacksReachLive PortsTold
PROPERTIES OperationsReturn EachPortToldOnce
