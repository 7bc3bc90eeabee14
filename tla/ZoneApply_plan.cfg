SPECIFICATION Spec
CONSTANTS
  www = www
  example = example
  at = at
  addr = addr
  ns = ns
  a = a
  b = b
  nil = nil
  Provider = "namecom"
  Labels = {www, example, at}
  At = at
  ZoneName <- Example
  Word = 4
  Nil = nil
  DefaultTTL = 2
  ApplyTTL = 1
  Types = {addr, ns}
  Inputs <- AnyInput
  Groups <- TwoGroups
  Managed <- OnlyNs
  Single = {}
  Contents = {a, b}
  Attrs <- Wide
  Reads <- MappedReads
  Rids = {r1, r2, r3}
  Applies = {p1}
  Wants <- AnyWants
  None = None
  MaxApplies = 1
  MaxEdits = 0
  MaxFailures = 0
CHECK_DEADLOCK FALSE
SYMMETRY Symmetry
INVARIANTS TypeOK ApplyReaches ApplyConverges
