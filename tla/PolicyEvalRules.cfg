SPECIFICATION Spec
CHECK_DEADLOCK FALSE
CONSTANTS
  ads = ads
  game = game
  None = None
  Rows <- MCRows
  MaxRules = 3
  Domains <- MCDomains
  Subdomains <- MCSubdomains
  Clients <- MCClients
  Paths = {"/", "/search"}
  Matching <- MCMatching
  Invalid = {}
  TagMaps <- MCTagMaps
INVARIANTS LeastPriorityDecides SubdomainsCovered
