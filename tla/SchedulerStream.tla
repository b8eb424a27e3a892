-------------------------- MODULE SchedulerStream --------------------------
(***************************************************************************)
(* The stream of actions that Scheduler implements: ActionStream, read off *)
(* the ledger alone.                                                       *)
(***************************************************************************)
EXTENDS Scheduler

StageOf(a) ==
  CASE action[a].run_id = None -> "unused"
    [] action[a].run_id # None /\ action[a].status = "QUEUED" -> "queued"
    [] Active(a) -> "busy"
    [] action[a].status = "COMPLETED" -> IF action[a].verified THEN "passed" ELSE "completed"
    [] action[a].status \in {"FAILED", "CANCELED", "TIMED_OUT"} -> "failed"
    [] OTHER -> "dropped"

Stream == INSTANCE ActionStream WITH
  stage <- [a \in Actions |-> StageOf(a)],
  run <- [a \in Actions |-> action[a].run_id],
  plan <- [a \in Actions |-> action[a].plan_version],
  place <- [a \in Actions |-> action[a].sequence],
  current <- [r \in Runs |-> state[r].plan_version],
  stopped <- [r \in Runs |-> state[r].frozen]

\* The ledger is a stream of actions: with everything that can be lost, late or
\* stale between the ledger and the robot, an action is at work alone, in turn
\* and in the plan in force, and a stop or a revision leaves no action between
\* two plans (append 69-97, dispatch 101-145, apply 191-234, request_stop
\* 236-265, revise 267-288, verify 290-330).
StreamSpec == Stream!Spec
=============================================================================
