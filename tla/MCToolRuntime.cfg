SPECIFICATION Spec
CONSTANTS
  None = None
  c1 = c1  c2 = c2  op = op  b1 = b1  b2 = b2  v1 = v1
  w1 = w1  w2 = w2  w3 = w3
  Unavailable = Unavailable
  Calls = {c1, c2}
  Parents = {op}
  ParentOf <- MCParentOf
  Bindings = {b1, b2}
  Complete = {b1}
  Bodies = {v1, Unavailable}
  Workers = {w1, w2, w3}
SYMMETRY Symmetry
INVARIANTS ReturnedAgreesWithLedger
PROPERTIES ImplementsAtMostOnce
