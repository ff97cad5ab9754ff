CONSTANTS
  SubIds = {1, 2, 3, 4}
  Files = {"a", "b", "c"}
  Skeletons <- MCSkeletons
  Answers <- MCAnswers
  SubAnswers <- MCSubAnswers
  Written <- MCWritten
  Briefs <- MCBriefs
  Records <- MCRecords
  Commands = {"plan", "plan-confirm", "start"}
  BatchSize = 2
  MaxTries = 2
  MaxRounds = 2
  MaxSubs = 3
  MaxPlans = 1
  None = None
  Torn = Torn
SPECIFICATION Spec
INVARIANTS TypeOK PlanIsRunnable ProofFits
CHECK_DEADLOCK FALSE
