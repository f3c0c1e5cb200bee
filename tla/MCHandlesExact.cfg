SPECIFICATION Spec
CONSTANTS
  Procs = {p1, p2}
  Handles = {h1, h2}
  Blocks = {b1}
  Ordinals = {o1, o2}
  Free = Free
  NoBlock = NoBlock
  NoHandle = NoHandle
  Nums = {1}
  MaxAlloc = 0
  CountBound = 3
  Ops = {"AutoAssign", "MoveIPToHandle", "ReleaseIPs", "ReleaseByHandle"}
SYMMETRY Symmetry
INVARIANTS CountsExact ClaimsCovered
