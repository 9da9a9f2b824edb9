SPECIFICATION ProxySpec
CONSTANTS
  serve = serve
  admin = admin
  ads = ads
  r1 = r1
  None = None
  Procs = {serve}
  Mutators = {admin}
  Home <- OneProcess
  RuleData <- MCRuleData
  Slds <- MCSlds
  Tags = {ads}
  Faults = {"prepare", "crash"}
  MaxCommits = 3
  Requests = {r1}
  Asked <- MCAsked
  Server <- MCServer
  Matching = {}
  Invalid = {}
INVARIANTS ProxyTypeOK DecidedByPolicy AcknowledgedObeyed TagsNeverAhead LoggedAsJudged
