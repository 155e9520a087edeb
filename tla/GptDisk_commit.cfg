CONSTANTS
  Handles = {h1, h2}
  NoHandle = NoHandle
  Contents = {a, b}
  Torn = Torn
  Missing = Missing
SYMMETRY Symmetry
SPECIFICATION Spec
INVARIANTS OneGoodGpt CommitAnswer
