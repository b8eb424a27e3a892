\* One execution of one run, served by two processes at once, and its time-outs.
SPECIFICATION Spec
CONSTANTS
  a1 = a1
  arm = arm
  camera = camera
  None = None
  Actions = {a1}
  Runs = {r1}
  Procs = {p1, p2}
  Resources = {arm}
  ResourcesOf <- OneArm
  Cancelable = {a1}
  Reports <- WorkReports
  StopRequests = {"cancel"}
  Validity = {TRUE}
  Capacity = 1
  ActionSeconds = 1
  StopSeconds = 1
  TotalSeconds = 1
  MaxAge = 1
  ObserveLag = 0
  MaxReports = 1
  MaxTime = 1
  MaxPlan = 1
  MaxObs = 1
SYMMETRY Symmetry
INVARIANTS
  TypeOK
  Safe
  EndedMeansReported
  HeldWhileActive
  NoOrphan
  FinalMeansStopped
PROPERTIES
  EndIsForGood
CHECK_DEADLOCK FALSE
