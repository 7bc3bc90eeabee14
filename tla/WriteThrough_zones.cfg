SPECIFICATION Spec
CONSTANTS
  r1 = r1
  r2 = r2
  Before <- ByHandle
  PerPage = 1
  Zones = {z1, z2}
  Rids = {r1, r2}
  Fields = {f1}
  Vals = {a, b}
  Writers = {w1}
  Syncs = {s1, s2}
  None = None
  MaxRequests = 2
  MaxEdits = 1
CHECK_DEADLOCK FALSE
SYMMETRY ZoneSymmetry
INVARIANTS MirrorUnlessDisturbed NoOrphans VersionCoversAudit
PROPERTIES SyncMirrors
