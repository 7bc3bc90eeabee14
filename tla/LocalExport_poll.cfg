SPECIFICATION FairSpec
CONSTANTS
  z1 = z1
  z2 = z2
  n1 = n1
  n2 = n2
  o1 = o1
  o2 = o2
  Zones = {z1, z2}
  Names = {n1}
  NameOf <- OneName
  Owners = {o1, o2}
  OwnerOf <- TwoOwners
  Rids = {r1, r2}
  Data = {a, x}
  Shown = {a}
  Writers = {w1}
  Agents = {a1}
  None = None
  MaxWrites = 3
  MaxFailures = 1
CHECK_DEADLOCK FALSE
INVARIANTS TypeOK NotModifiedSound AnswerNotOlder
PROPERTIES VersionsAdvance IsVersioned AgentsCatchUp
