\* A run that is resumed again and again learns of every end and answers every stop.
SPECIFICATION FairSpec
CONSTANTS
  a1 = a1
  arm = arm
  camera = camera
  None = None
  Actions = {a1}
  Runs = {r1}
  Procs = {p1}
  Resources = {arm}
  ResourcesOf <- OneArm
  Cancelable = {a1}
  Reports <- WorkReports
  StopRequests = {"cancel", "replan"}
  Validity = {TRUE}
  Capacity = 1
  ActionSeconds = 1
  StopSeconds = 1
  TotalSeconds = 3
  MaxAge = 1
  ObserveLag = 0
  MaxReports = 2
  MaxTime = 2
  MaxPlan = 1
  MaxObs = 1
PROPERTIES
  EndIsConfirmed
  StopIsAnswered
  EventsActInOrder
CHECK_DEADLOCK FALSE
