\* Three fingers and the two keys, which may repeat, lose their mapping and be
\* cancelled.
CONSTANTS
  Fingers = {0, 1, 2}
  MaxPointers = 6
SPECIFICATION Spec
INVARIANT TouchesTrue
PROPERTIES PointerIdsStable TouchStreamSpec
