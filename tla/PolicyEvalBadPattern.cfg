SPECIFICATION Spec
CHECK_DEADLOCK FALSE
CONSTANTS
  ads = ads
  game = game
  None = None
  Rows <- RowInvalid
  MaxRules = 1
  Domains <- MCDomains
  Subdomains <- MCSubdomains
  Clients <- MCClients
  Paths = {"/", "/search"}
  Matching <- MCMatching
  Invalid = {"["}
  TagMaps <- MCTagMaps
INVARIANT AllConditionsMatched
