\* A cancelled run is revived by a driver that was replanning.
SPECIFICATION FairRuntimeSpec
CONSTANTS
  None = None
  Run = r1
  Actions = {a1}
  Runs = {r1}
  Procs = {p1, p2}
  Resources = {arm}
  ResourcesOf <- OneArm
  Cancelable = {a1}
  Reports <- CleanEnds
  StopRequests = {"cancel", "replan", "failure", "timeout"}
  Validity = {TRUE}
  Capacity = 1
  ActionSeconds = 1
  StopSeconds = 1
  TotalSeconds = 2
  MaxAge = 1
  ObserveLag = 0
  MaxReports = 0
  MaxTime = 0
  MaxPlan = 2
  MaxObs = 3
  MaxModelCalls = 2
  MaxApiRetries = 0
  MaxInvalidProposals = 0
  MaxReplans = 1
  Tools = {"execute_action", "finish_task"}
  Verdicts = {"PASS", "FAIL"}
  MaxCrashes = 0
PROPERTIES
  CanceledIsFinal
CHECK_DEADLOCK FALSE
