\* An operator cancels beside the driver.
SPECIFICATION RuntimeSpec
CONSTANTS
  None = None
  Run = r1
  Actions = {a1, a2}
  Runs = {r1}
  Procs = {p1, p2}
  Resources = {arm}
  ResourcesOf <- OneArm
  Cancelable = {a1, a2}
  Reports <- CleanEnds
  StopRequests = {"cancel", "replan", "failure", "timeout"}
  Validity = {TRUE}
  Capacity = 1
  ActionSeconds = 1
  StopSeconds = 1
  TotalSeconds = 2
  MaxAge = 1
  ObserveLag = 0
  MaxReports = 1
  MaxTime = 0
  MaxPlan = 2
  MaxObs = 4
  MaxModelCalls = 3
  MaxApiRetries = 0
  MaxInvalidProposals = 0
  MaxReplans = 1
  Tools = {"execute_action", "finish_task"}
  Verdicts = {"PASS", "FAIL"}
  MaxCrashes = 0
SYMMETRY Symmetry
INVARIANTS
  ResultsOnce
PROPERTIES
  Spec
CHECK_DEADLOCK FALSE
