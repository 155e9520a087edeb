\* Two streams, and a stack that dies once, which the provider learns any time
\* later.
CONSTANTS
  Ports = {port1, port2}
  NumCookies = 2
  MaxDeaths = 1
  MaxRequests = 2
SPECIFICATION Spec
INVARIANT ObserversSound
INVARIANT SessionTrue
PROPERTY OperationsReturn
