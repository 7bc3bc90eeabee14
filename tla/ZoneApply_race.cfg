SPECIFICATION Spec
CONSTANTS
  www = www
  example = example
  at = at
  addr = addr
  ns = ns
  a = a
  b = b
  nil = nil
  Provider = "cloudflare"
  Labels = {www, example, at}
  At = at
  ZoneName <- Example
  Word = 4
  Nil = nil
  DefaultTTL = 2
  ApplyTTL = 1
  Types = {addr, ns}
  Inputs <- FewInput
  Groups <- TwoGroups
  Managed <- OnlyNs
  Single <- OnlyWww
  Contents = {a, b}
  Attrs <- Plain
  Reads <- MappedReads
  Rids = {r1, r2, r3}
  Applies = {p1, p2}
  Wants <- FewWants
  None = None
  MaxApplies = 2
  MaxEdits = 1
  MaxFailures = 1
CHECK_DEADLOCK FALSE
SYMMETRY Symmetry
PROPERTY OthersSpared
