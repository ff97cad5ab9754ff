CONSTANTS
  t1 = t1  t2 = t2  t1a = t1a  t1b = t1b  t1c = t1c  ph1 = ph1
  PlanTickets = {t1, t2}
  SubTickets = {t1a, t1b, t1c}
  Phases = {ph1}
  PhaseOf <- OnePhase
  PlanOrder <- Two
  Deps <- ChainDeps
  SplitInto <- FirstSplits
  ChildrenOf <- FirstChildren
  DefinitionOfDone = {"all_tickets_passed"}
  StopMarkers = {}
  FailureLimit = 2
  MaxTickets = NoLimit
  Commands = {"resume", "rerun-failed", "rerun-remaining"}
  RunAgain = TRUE
  Interruptions = {"crash", "interrupt"}
  CommitMayFail = TRUE
  ForeignCommits = {}
  ProjectId = "p"
  NoLimit = NoLimit  NoPhase = NoPhase  NoTicket = NoTicket
  NoLedger = NoLedger  Torn = Torn
SPECIFICATION FairSpec
INVARIANTS TypeOK LedgerIsExact RecordedHasCode
PROPERTIES RunEnds KeepsContract
