\* Runs end.
SPECIFICATION FairRuntimeSpec
CONSTANTS
  None = None
  Run = r1
  Actions = {a1}
  Runs = {r1}
  Procs = {p1}
  Resources = {arm}
  ResourcesOf <- OneArm
  Cancelable = {a1}
  Reports <- CleanEnds
  StopRequests = {"cancel", "replan", "failure", "timeout"}
  Validity = {TRUE}
  Capacity = 1
  ActionSeconds = 1
  StopSeconds = 1
  TotalSeconds = 1
  MaxAge = 1
  ObserveLag = 0
  MaxReports = 1
  MaxTime = 2
  MaxPlan = 2
  MaxObs = 4
  MaxModelCalls = 2
  MaxApiRetries = 0
  MaxInvalidProposals = 1
  MaxReplans = 0
  Tools = {"execute_action", "finish_task"}
  Verdicts = {"PASS", "FAIL"}
  MaxCrashes = 1
INVARIANTS
  StandsStill
PROPERTIES
  Spec
  RunEnds
CHECK_DEADLOCK FALSE
