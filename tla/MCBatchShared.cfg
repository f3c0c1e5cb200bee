SPECIFICATION BatchSpec
CONSTANTS
  Procs = {p1, p2}
  Handles = {h1}
  Blocks = {b1, b2}
  Ordinals = {o1, o2}
  Free = Free
  NoBlock = NoBlock
  NoHandle = NoHandle
  Nums = {1}
  MaxAlloc = 0
  CountBound = 6
  Ops = {"AutoAssign"}
SYMMETRY Symmetry
INVARIANTS AllocationsCovered
