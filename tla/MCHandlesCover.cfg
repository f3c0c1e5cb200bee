SPECIFICATION Spec
CONSTANTS
  Procs = {p1, p2}
  Handles = {h1}
  Blocks = {b1}
  Ordinals = {o1, o2}
  Free = Free
  NoBlock = NoBlock
  NoHandle = NoHandle
  Nums = {1, 2}
  MaxAlloc = 0
  CountBound = 3
  Ops = {"AutoAssign", "AssignIP", "ReleaseIPs", "ReleaseAffinity", "Crash"}
SYMMETRY Symmetry
INVARIANTS TypeOK AllocationsCovered DecrementsFit
