\* Two runs compete for a camera; one of them needs an arm as well.
SPECIFICATION Spec
CONSTANTS
  a1 = a1
  arm = arm
  camera = camera
  None = None
  Actions = {a1, a2}
  Runs = {r1, r2}
  Procs = {p1, p2}
  Resources = {arm, camera}
  ResourcesOf <- Shared
  Cancelable = {a2}
  Reports <- EndReports
  StopRequests = {"cancel"}
  Validity = {TRUE}
  Capacity = 1
  ActionSeconds = 1
  StopSeconds = 1
  TotalSeconds = 2
  MaxAge = 1
  ObserveLag = 0
  MaxReports = 0
  MaxTime = 0
  MaxPlan = 1
  MaxObs = 1
SYMMETRY ProcSymmetry
INVARIANTS
  ResourceExclusion
CHECK_DEADLOCK FALSE
