SPECIFICATION Spec
CONSTANTS
  phone = phone
  site = site
  SITE = SITE
  ads = ads
  None = None
  Requests = {r1, r2}
  Accesses <- MCAccesses
  Lower <- MCLower
  SessionTimeout = 2
  GcTimeout = 1
  Events = {}
  MaxStall = 1
  MaxStamp = 3
  MaxNow = 6
INVARIANT IdleTimeoutHonoured
