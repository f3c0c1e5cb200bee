SPECIFICATION Spec
CONSTANTS
  Hosts = {h1, h2}
  Blocks = {b1}
  Ordinals = {o1}
  Procs = {p1, p2}
  NoHost = NoHost
  NoBlock = NoBlock
  NoAff = NoAff
  Strict = FALSE
  Ops = {"AutoAssign", "AssignIP", "ClaimAffinity", "ReleaseIPs"}
PROPERTIES AllocationsKept AddressesGrantedOnce
SYMMETRY Symmetry
