\* A run that replans twice, with a driver that dies.
SPECIFICATION RuntimeSpec
CONSTANTS
  None = None
  Run = r1
  Actions = {a1, a2}
  Runs = {r1}
  Procs = {p1}
  Resources = {arm}
  ResourcesOf <- OneArm
  Cancelable = {a1, a2}
  Reports <- CleanEnds
  StopRequests = {"cancel", "replan", "failure", "timeout"}
  Validity = {TRUE}
  Capacity = 2
  ActionSeconds = 1
  StopSeconds = 1
  TotalSeconds = 2
  MaxAge = 1
  ObserveLag = 0
  MaxReports = 1
  MaxTime = 0
  MaxPlan = 3
  MaxObs = 5
  MaxModelCalls = 3
  MaxApiRetries = 0
  MaxInvalidProposals = 0
  MaxReplans = 2
  Tools = {"execute_action", "finish_task"}
  Verdicts = {"PASS", "FAIL"}
  MaxCrashes = 2
SYMMETRY Symmetry
INVARIANTS
  RuntimeTypeOK
  ResultsOnce
  ResultsTrue
  BudgetsHold
  TaskFirst
  RepairsBounded
  OneUnderWay
  StandsStill
PROPERTIES
  RevisionHasCause
  CallKeepsAction
  DialogueSpec
CHECK_DEADLOCK FALSE
