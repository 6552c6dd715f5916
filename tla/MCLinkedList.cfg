CONSTANTS
  Lists = {l1, l2}
  Nodes = {n1, n2, n3, n4}
  Data = {d1, d2}
  Null = Null
SPECIFICATION Spec
SYMMETRY Symmetry
INVARIANTS WellLinked
PROPERTIES ImplementsSequences
CHECK_DEADLOCK FALSE
