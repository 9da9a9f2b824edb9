SPECIFICATION Spec
CHECK_DEADLOCK FALSE
CONSTANTS
  ads = ads
  game = game
  None = None
  Rows <- Row6
  MaxRules = 1
  Domains <- MCDomains
  Subdomains <- MCSubdomains
  Clients <- MCClients6
  Paths = {"/", "/search"}
  Matching <- MCMatching
  Invalid = {}
  TagMaps <- MCTagMaps
INVARIANT OwnAddressMatches
