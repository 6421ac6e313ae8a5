SPECIFICATION RunSpec
CONSTANTS
  a = a
  TaskIds = {a}
  GOAL_ID = goal
  RequirementIds = {"r1"}
  Texts = {"t1"}
  CheckIds = {"c1"}
  Argvs = {"x"}
  Paths = {}
  OwnerPaths = {}
  GoalText = "t1"
  None = None
  Plans <- NoPlans
  Proofs <- GoalProofs
  Trees = {w1, w2}
  OpIds = {1, 2}
  MaxVersion = 1
  MaxReads = 1
  InitialPlan = FALSE
  MaxCalls = 9
  UnitCalls = 1
  MaxRestarts = 2
INVARIANTS UnitOverrunIsBounded UnrecordedTreesAreClaimed
PROPERTIES ToolStartsOnce RunsEnd
CHECK_DEADLOCK FALSE
