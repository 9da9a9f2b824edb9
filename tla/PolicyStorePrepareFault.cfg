SPECIFICATION Spec
CONSTANTS
  serve = serve
  manage = manage
  tui = tui
  api = api
  cli = cli
  None = None
  Procs = {serve}
  Mutators = {tui, api}
  Home <- OneProcess
  RuleData <- MCRuleData
  Slds = {sld1}
  Tags = {tag1}
  Faults = {"prepare"}
  MaxCommits = 3
INVARIANT ErrorMeansUnchanged
