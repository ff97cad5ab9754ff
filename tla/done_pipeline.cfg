CONSTANTS
  t1 = t1  t2 = t2
  PlanTickets = {t1, t2}
  SubTickets = {}
  Phases = {}
  PhaseOf <- NoPhases
  DefinitionOfDone = {"all_tickets_passed"}
  StopMarkers = {}
  FailureLimit = 2
  MaxTickets = NoLimit
  NoLimit = NoLimit  NoPhase = NoPhase  NoTicket = NoTicket
  MaxSetup = 2  PgAttempts = 3  ProofRetries = 2  RoleFaults = TRUE
SPECIFICATION FairSpec
INVARIANTS DoneTypeOK DoneIsProved NoGateWithoutCause
PROPERTIES Ends
CHECK_DEADLOCK FALSE
