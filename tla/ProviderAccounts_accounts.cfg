SPECIFICATION Spec
CONSTANTS
  remote = remote
  c1 = c1
  c2 = c2
  direct = direct
  ftp = ftp
  Ids = {i1, i2}
  Names = {n1, n2}
  Types = {remote, local}
  Local = local
  Creds = {empty, c1, c2}
  Empty = empty
  Fits <- FitsSome
  Proxies = {direct, ftp}
  Usable = {direct}
  Keys = {k1, k2}
  Requests = {q1, q2}
  None = None
  MaxRequests = 3
  MaxRestarts = 2
CHECK_DEADLOCK FALSE
SYMMETRY Symmetry
INVARIANTS TypeOK Buildable RotationHolds NoPlainCopy AuditTruth GoneForGood
