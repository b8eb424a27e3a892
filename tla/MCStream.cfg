\* A plan of two actions with checkpoints, its stop and its revision, while time passes.
SPECIFICATION Spec
CONSTANTS
  a1 = a1
  arm = arm
  camera = camera
  None = None
  Actions = {a1, a2}
  Runs = {r1}
  Procs = {p1}
  Resources = {a1, a2}
  ResourcesOf <- OwnTool
  Cancelable = {a1, a2}
  Reports <- CleanEnd
  StopRequests = {"replan"}
  Validity = {TRUE}
  Capacity = 2
  ActionSeconds = 3
  StopSeconds = 3
  TotalSeconds = 3
  MaxAge = 1
  ObserveLag = 1
  MaxReports = 1
  MaxTime = 1
  MaxPlan = 2
  MaxObs = 3
SYMMETRY Symmetry
INVARIANTS
  Serial
  SerialExecution
  CheckpointsGate
  SuccessHasEvidence
PROPERTIES
  DispatchSeesThePast
  StreamSpec
CHECK_DEADLOCK FALSE
