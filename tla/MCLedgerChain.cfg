SPECIFICATION SharedSpec
CONSTANTS
  a = a
  b = b
  TaskIds = {a, b}
  GOAL_ID = goal
  RequirementIds = {"r1"}
  Texts = {"t1"}
  CheckIds = {"c1", "c2", "c3"}
  Argvs = {"x"}
  Paths = {}
  OwnerPaths = {}
  GoalText = "t1"
  None = None
  Plans <- ChainPlans
  Proofs <- ChainProofs
  Trees = {w1, w2}
  OpIds = {1, 2}
  MaxVersion = 1
  MaxReads = 1
  InitialPlan = TRUE
SYMMETRY TreeSymmetry
INVARIANTS AcceptedWorkIsProven CompletedIsProven DecisionIsNeverStuck ReceiptsAreCurrent
PROPERTIES DeliveryIsGated
CHECK_DEADLOCK FALSE
