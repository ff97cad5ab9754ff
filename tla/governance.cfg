CONSTANTS
  None = None
  Files = {"py", "ts"}
  PyFiles = {"py"}
  Repo = "repo"
  Checks = {"syntax", "bandit", "dead_code", "auth_bypass_ts", "xss_check_ts", "blast_radius", "license"}
  Errors = {"syntax", "bandit", "auth_bypass_ts", "blast_radius", "license"}
  Syntax = "syntax"
  Masked = {"bandit"}
  Tools = {"bandit"}
  Quiet = {"dead_code", "blast_radius"}
  Radius = {"blast_radius"}
  LastDay = 1
  MaxScans = 2
  SiteNames = {"syntax", "bandit", "xss_check_ts", "dead_code", "license"}
  Sites <- MCSites
  GateRule <- MCGateRule
  BaselineRule <- MCBaselineRule
  Settings <- MCSettings
  Starts <- MCStarts
SPECIFICATION Spec
CHECK_DEADLOCK FALSE
INVARIANTS TypeOK
PROPERTIES NewDebtBlocks PassedErrorsAreKnown KnownDebtPasses
