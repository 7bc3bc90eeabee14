SPECIFICATION FairSpec
CONSTANTS
  z1 = z1
  z2 = z2
  r1 = r1
  r2 = r2
  r3 = r3
  a = a
  b = b
  Zones = {z1, z2}
  Rids = {r1, r2, r3}
  Vals = {a, b}
  Txs = {t1, t2, t3}
  Old = Old
  None = None
  Jobs <- MixedJobs
  Caches <- TwoZones
  MaxConns = 2
CHECK_DEADLOCK FALSE
INVARIANTS TypeOK DeadlockNeedsReplace
PROPERTIES IsAtomic AllEnd
