\* A crash after a refusal strands the run.
SPECIFICATION RuntimeSpec
CONSTANTS
  None = None
  Run = r1
  Actions = {a1}
  Runs = {r1}
  Procs = {p1}
  Resources = {arm}
  ResourcesOf <- OneArm
  Cancelable = {a1}
  Reports <- CleanEnds
  StopRequests = {"cancel", "replan", "failure", "timeout"}
  Validity = {TRUE}
  Capacity = 1
  ActionSeconds = 1
  StopSeconds = 1
  TotalSeconds = 2
  MaxAge = 1
  ObserveLag = 0
  MaxReports = 1
  MaxTime = 0
  MaxPlan = 2
  MaxObs = 4
  MaxModelCalls = 3
  MaxApiRetries = 0
  MaxInvalidProposals = 1
  MaxReplans = 1
  Tools = {"execute_action", "finish_task"}
  Verdicts = {"PASS", "FAIL"}
  MaxCrashes = 1
PROPERTIES
  NothingLeftRefused
CHECK_DEADLOCK FALSE
