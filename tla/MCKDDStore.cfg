SPECIFICATION Spec
CONSTANTS
  Keys = {k1}
  Values = {v1, v2}
  Clients = {c1, c2, c3}
  Absent = Absent
SYMMETRY Symmetry
INVARIANT DeletionInv
PROPERTIES ImplementsCASStore MarkedForGood
