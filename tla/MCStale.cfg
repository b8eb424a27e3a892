\* An answer overtaken by an event lifts a block that nothing has resolved.
SPECIFICATION Spec
CONSTANTS
  a1 = a1
  arm = arm
  camera = camera
  None = None
  Actions = {a1}
  Runs = {r1}
  Procs = {p1}
  Resources = {arm}
  ResourcesOf <- OneArm
  Cancelable = {a1}
  Reports <- EndReports
  StopRequests = {"cancel"}
  Validity = {TRUE}
  Capacity = 1
  ActionSeconds = 1
  StopSeconds = 1
  TotalSeconds = 2
  MaxAge = 1
  ObserveLag = 0
  MaxReports = 1
  MaxTime = 0
  MaxPlan = 1
  MaxObs = 1
PROPERTIES
  UnresolvedStaysBlocked
CHECK_DEADLOCK FALSE
