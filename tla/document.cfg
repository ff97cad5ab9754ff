SPECIFICATION Spec
CONSTANTS
  N = 2
  Roles = {cfo, legal}
  Retries = 1
  Specs <- OneOfEachRisk
  Approvers = {a1, a2}
  MaxRuns = 1
  MaxApprovals = 2
  None = None
  Torn = Torn
SYMMETRY Symmetry
INVARIANT TypeOK
INVARIANT ReleasedIsSigned
INVARIANT SummariesMatchTexts
INVARIANT ApprovalsStand
CHECK_DEADLOCK FALSE
