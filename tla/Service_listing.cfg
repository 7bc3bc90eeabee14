SPECIFICATION Spec
CONSTANTS
  Reqs = {q1}
  Records = {x1, x2, x3}
  x1 = x1
  x2 = x2
  x3 = x3
  Listings <- Zones
  PerPage = 2
  MaxRetries = 2
  MaxEdits = 0
  Workspaces = {own, team}
  Personal = own
  MaxGrants = 0
CHECK_DEADLOCK FALSE
INVARIANT ListingWhole
