CONSTANTS
  t1 = t1  t2 = t2  t3 = t3  t4 = t4  t5 = t5  ph1 = ph1  ph2 = ph2
  PlanTickets = {t1, t2, t3, t4, t5}
  SubTickets = {}
  Phases = {ph1}
  PhaseOf <- OnePhase
  PlanOrder <- Five
  Deps <- SecondNeedsFirst
  SplitInto <- NoSplit
  ChildrenOf <- NoChildren
  DefinitionOfDone = {"all_tickets_passed"}
  StopMarkers = {}
  FailureLimit = 2
  MaxTickets = 4
  Commands = {"resume"}
  RunAgain = FALSE
  Interruptions = {"interrupt"}
  CommitMayFail = FALSE
  ForeignCommits = {}
  ProjectId = "p"
  NoLimit = NoLimit  NoPhase = NoPhase  NoTicket = NoTicket
  NoLedger = NoLedger  Torn = Torn
SPECIFICATION PatientSpec
INVARIANTS ResumeIsExact
PROPERTIES ResumeConverges
