SPECIFICATION Spec
CONSTANTS
  a = a
  b = b
  TaskIds = {a, b}
  GOAL_ID = goal
  RequirementIds = {"r1"}
  Texts = {"t1", "t2"}
  CheckIds = {"c1", "c2", "c3"}
  Argvs = {"x"}
  Paths = {"p"}
  OwnerPaths = {}
  GoalText = "t1"
  None = None
  Plans <- RevisedPlans
  Proofs <- RevisedProofs
  Trees = {w1}
  OpIds = {1, 2}
  MaxVersion = 2
  MaxReads = 0
  InitialPlan = TRUE
INVARIANTS AssignmentsStand ChecksKeepTheirIdentity
PROPERTIES ChecksAreNotWeakened RevisionsVoidProof
CHECK_DEADLOCK FALSE
