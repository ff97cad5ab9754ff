CONSTANTS
  None = None
  Procs = {p, q}
  Files = {"f", "g"}
  Touched <- MCTouched
  Trees <- MCTrees
  Kinds = {"k"}
  Tickets = {"T1"}
  PromoteAt = 1
  MergeLimit = 1
  TopK = 1
  MaxItems = 3
  MaxFired = 1
  MaxRuns = 2
  MaxBefore = 2
SYMMETRY MCSymmetry
SPECIFICATION Spec
INVARIANTS TypeOK LessonsLive TriggersAreCounted
