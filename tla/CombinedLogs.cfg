SPECIFICATION CombinedSpec
CONSTANTS
  phone = phone
  site = site
  SITE = SITE
  ads = ads
  None = None
  r1 = r1
  r2 = r2
  Requests = {r1, r2}
  Accesses <- MCAccesses
  Lower <- MCLower
  Offset <- MCOffset
  Mixes <- MCMixes
  Limits = {1, 2}
  SessionTimeout = 1
  GcTimeout = 2
  Events = {"save_error", "clear", "exit", "crash", "row_error"}
  MaxStall = 1
  MaxStamp = 2
  MaxNow = 5
INVARIANTS TypeOK Accounted CountedOnce IdleBetweenSessions DurationBounded NothingOverlooked DoublesAreSwept
PROPERTIES LedgerKept EverySessionSaved
