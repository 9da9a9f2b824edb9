SPECIFICATION FairSpec
CHECK_DEADLOCK FALSE
CONSTANTS
  ads = ads
  ADS = ADS
  None = None
  Empty = Empty
  Names = {ads, ADS}
  Values = {1, 2}
  DefaultValue = 1
  Normal <- MCNormal
  Stored <- MCStored
  Faults = {"db_error", "read_error"}
  MaxId = 3
  MaxChanges = 2
  MaxOthers = 1
INVARIANT TypeOK
PROPERTIES OnlyHighlightedDeleted OnlyOpenedRuleEdited ScreenCatchesUp
