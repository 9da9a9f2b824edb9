SPECIFICATION Spec
CONSTANTS
  phone = phone
  site = site
  SITE = SITE
  ads = ads
  None = None
  Requests = {r1, r2}
  Accesses <- MCAccesses
  Lower <- MCLower
  SessionTimeout = 1
  GcTimeout = 2
  Events = {"exit"}
  MaxStall = 1
  MaxStamp = 3
  MaxNow = 6
INVARIANT SavedBeforeExit
