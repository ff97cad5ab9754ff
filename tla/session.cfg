CONSTANTS
  t1 = t1  t2 = t2  w1 = w1  w2 = w2
  Plan = {t1, t2}
  Parent = Parent
  WorkBranches = {w1, w2}
  Detached = Detached  Legacy = Legacy  None = None
SPECIFICATION Spec
INVARIANTS TypeOK OptInKeepsParentClean SkippedOnBranch
PROPERTIES SwitchingSparesEdits
SYMMETRY Symmetry
