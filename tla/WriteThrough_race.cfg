SPECIFICATION Spec
CONSTANTS
  r1 = r1
  r2 = r2
  Before <- ByHandle
  PerPage = 1
  Zones = {z1}
  Rids = {r1, r2}
  Fields = {f1}
  Vals = {a, b}
  Writers = {w1, w2}
  Syncs = {s1}
  None = None
  MaxRequests = 3
  MaxEdits = 0
CHECK_DEADLOCK FALSE
SYMMETRY Symmetry
INVARIANTS TypeOK MirrorUnlessDisturbed CacheFromProvider AuditTruth
PROPERTIES SyncMirrors
