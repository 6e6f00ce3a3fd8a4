CONSTANTS
  Nodes = {n1, n2, n3, n4}
  Items = {x, y}
  None = None
SPECIFICATION Spec
INVARIANTS
  TypeOK
  CursorLive
  BothWaysAlike
PROPERTY ImplementsSequence
