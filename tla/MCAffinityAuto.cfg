SPECIFICATION Spec
CONSTANTS
  Hosts = {h1, h2}
  Blocks = {b1}
  Ordinals = {o1}
  Procs = {p1, p2}
  NoHost = NoHost
  NoBlock = NoBlock
  NoAff = NoAff
  Strict = TRUE
  Ops = {"AutoAssign", "ReleaseAffinity", "Crash"}
INVARIANTS TypeOK ConfirmedOwned ProtocolInv
PROPERTIES AllocationsKept AddressesGrantedOnce ReclaimsWhatItListed
SYMMETRY Symmetry
