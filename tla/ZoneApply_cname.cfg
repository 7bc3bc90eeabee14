SPECIFICATION Spec
CONSTANTS
  www = www
  example = example
  at = at
  addr = addr
  ns = ns
  a = a
  b = b
  nil = nil
  Provider = "cloudflare"
  Labels = {www, example, at}
  At = at
  ZoneName <- Example
  Word = 4
  Nil = nil
  DefaultTTL = 2
  ApplyTTL = 1
  Types = {addr, ns}
  Inputs <- FewInput
  Groups <- TwoGroups
  Managed <- OnlyNs
  Single <- OnlyWww
  Contents = {a, b}
  Attrs <- Plain
  Reads <- MappedReads
  Rids = {r1, r2}
  Applies = {p1}
  Wants <- OneWant
  None = None
  MaxApplies = 1
  MaxEdits = 0
  MaxFailures = 0
CHECK_DEADLOCK FALSE
INVARIANT DeclaredGroupsHold
