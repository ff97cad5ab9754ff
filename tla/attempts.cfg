CONSTANTS
  A = A  B = B  B1 = B1  B2 = B2  b = b  n = n  o = o
  Queue <- AB
  Children <- SplitB
  Scope <- Scopes
  Files = {b, n, o}
  Tracked = {b}
  Backends = {"api", "cli"}
  AutoRepair = {TRUE, FALSE}
  MaxRetries = 1
  Coders <- CarelessOrTidy
  Base = Base  Absent = Absent  NoTicket = NoTicket
SPECIFICATION FairSpec
INVARIANTS TypeOK PassIsGoverned FailLeavesBranch CommitsAreChecked
PROPERTIES EarlierWorkKept AllReturn KeepsContract
CHECK_DEADLOCK FALSE
