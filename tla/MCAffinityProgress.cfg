SPECIFICATION PromptSpec
CONSTANTS
  Hosts = {h1, h2}
  Blocks = {b1}
  Ordinals = {o1}
  Procs = {p1, p2}
  NoHost = NoHost
  NoBlock = NoBlock
  NoAff = NoAff
  Strict = TRUE
  Ops = {"AutoAssign", "ReleaseIPs"}
PROPERTY SomeOperationEnds
