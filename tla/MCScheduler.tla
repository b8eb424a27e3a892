---------------------------- MODULE MCScheduler ----------------------------
(***************************************************************************)
(* Instances of Scheduler for TLC.                                         *)
(***************************************************************************)
EXTENDS SchedulerInvariant, SchedulerStream, TLC

CONSTANTS a1, arm, camera

\* Every action needs all there is.
OneArm == [a \in Actions |-> Resources]

\* Every action has a resource of its own, named after it: only the plan keeps
\* two actions of a run apart.
OwnTool == [a \in Actions |-> {a}]

\* One action needs the arm and the camera, the others the camera alone.
Shared == [a \in Actions |-> IF a = a1 THEN {arm, camera} ELSE {camera}]

\* The robot ends well,
CleanEnd == {[status |-> "COMPLETED", stopped |-> TRUE]}

\* or reports an end without having stopped,
UnprovedEnd == {[status |-> "COMPLETED", stopped |-> FALSE]}

\* or that it is at work, or that it failed.
AtWorkReport == {[status |-> "RUNNING", stopped |-> FALSE]}
Failure == {[status |-> "FAILED", stopped |-> TRUE]}

EndReports == CleanEnd \cup UnprovedEnd
WorkReports == EndReports \cup AtWorkReport
FailReports == Failure \cup UnprovedEnd

\* No instance tells processes apart, nor runs; Shared tells actions apart.
Symmetry == Permutations(Runs) \cup Permutations(Actions) \cup Permutations(Procs)
ProcSymmetry == Permutations(Runs) \cup Permutations(Procs)
=============================================================================
