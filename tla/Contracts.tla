----------------------------- MODULE Contracts -----------------------------
EXTENDS Integers

(***************************************************************************)
(* The enumerations of contracts.py that the scheduler's decisions read.   *)
(***************************************************************************)

\* Statuses of an atomic action whose execution is over, as the ledger sees it.
TERMINAL == {"COMPLETED", "FAILED", "CANCELED", "TIMED_OUT", "INVALIDATED"}

ActionStatus == TERMINAL \cup
  {"QUEUED", "SUBMITTING", "RUNNING", "STOPPING", "EXECUTION_UNKNOWN"}

\* Statuses of a run that Scheduler.tick, append and dispatch treat as final.
FinalStatus == {"SUCCEEDED", "FAILED", "CANCELED"}

TaskStatus == FinalStatus \cup
  {"READY", "EXECUTING", "VERIFYING", "RECOVERING", "BLOCKED"}

\* state.stop_intent: None, or the reason of the latest request_stop.
NoIntent == "none"
StopReasons == {"cancel", "timeout", "replan", "failure"}

\* An optional time or sequence number that is not set.
NoTime == -1
=============================================================================
