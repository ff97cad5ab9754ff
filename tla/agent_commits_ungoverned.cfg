CONSTANTS
  A = A  B = B  B1 = B1  B2 = B2  b = b  n = n  o = o
  Queue <- AB
  Children <- SplitB
  Scope <- Scopes
  Files = {b, n, o}
  Tracked = {b}
  Backends = {"cli"}
  AutoRepair = {TRUE, FALSE}
  MaxRetries = 1
  Coders <- OnlyTidy
  Base = Base  Absent = Absent  NoTicket = NoTicket
SPECIFICATION Spec
INVARIANTS EveryPassIsGoverned
CHECK_DEADLOCK FALSE
