SPECIFICATION Spec
CONSTANTS
  serve = serve
  manage = manage
  tui = tui
  api = api
  cli = cli
  None = None
  Procs = {serve, manage}
  Mutators = {tui, cli}
  Home <- TwoProcesses
  RuleData <- OneRule
  Slds = {sld1}
  Tags = {tag1}
  Faults = {"step", "crash"}
  MaxCommits = 3
INVARIANTS CacheIsSnapshot NoChangeLost
PROPERTIES RulesPublished TagsPublished
