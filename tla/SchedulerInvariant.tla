------------------------- MODULE SchedulerInvariant -------------------------
(***************************************************************************)
(* The inductive invariants behind the safety properties of Scheduler, as  *)
(* conjunctions of named parts.                                            *)
(***************************************************************************)
EXTENDS Scheduler

Submitted(a) == action[a].submitted_at # NoTime

\* Statuses of an execution that the ledger holds to be over.
EndedStatus == TERMINAL \ {"INVALIDATED"}

Ended(a) == action[a].status \in EndedStatus

\* The intent to submit is what separates queued and dropped actions from
\* those the executor may know of.
IntentFirst ==
  \A a \in Actions :
    /\ Submitted(a) <=> action[a].status \notin {"QUEUED", "INVALIDATED"}
    /\ Submitted(a) => action[a].run_id \in Runs
    /\ ~Submitted(a) => action[a].stop_requested_at = NoTime /\ ~action[a].execution_id
    /\ ~Ended(a) => action[a].finished_at = NoTime

\* The executor knows submitted actions only.
KnownIsSubmitted ==
  \A a \in Actions :
    /\ a \in started \cup inflight => Submitted(a)
    /\ action[a].execution_id => a \in started
    /\ events[a] # <<>> => a \in started

\* A call works on submitted actions of its run, and carries a snapshot that
\* the executor really had.
FrameOK(f) ==
  /\ f.pc # "idle" => f.run \in Runs
  /\ f.pc \in {"submit", "accept", "apply", "unknown"} =>
       f.act \in Actions /\ Submitted(f.act) /\ f.run = action[f.act].run_id
  /\ \A a \in f.todo : Submitted(a) /\ f.run = action[a].run_id
  /\ f.pc \in {"accept", "apply"} => f.act \in started /\ f.snap <= Len(events[f.act])
  /\ f.pc = "apply" => f.snap > 0 /\ action[f.act].execution_id

FramesOK == \A p \in Procs : FrameOK(proc[p])

\* Until its one submission arrives, an action is in one process, or under
\* way, and has no execution.
SubmittedOnce ==
  /\ started \cap inflight = {}
  /\ \A p \in Procs : proc[p].pc = "submit" =>
       /\ proc[p].act \notin started \cup inflight
       /\ \A q \in Procs : proc[q].pc = "submit" /\ proc[q].act = proc[p].act => q = p

\* A terminal event is the last one; only a terminal event stops the robot.
LastWord ==
  \A a \in Actions : \A n \in 1..Len(events[a]) :
    /\ events[a][n].status \in TERMINAL => n = Len(events[a])
    /\ events[a][n].stopped => events[a][n].status \in TERMINAL

\* The executor's part and the resources table.
Safe == /\ TypeOK /\ IntentFirst /\ KnownIsSubmitted /\ FramesOK /\ SubmittedOnce
        /\ LastWord /\ EndedMeansReported /\ HeldWhileActive

\* Pending actions belong to the plan in force; older plans are over.
PendingInPlan ==
  \A a \in Actions : action[a].run_id \in Runs =>
    /\ action[a].plan_version <= state[action[a].run_id].plan_version
    /\ action[a].status \notin TERMINAL =>
         action[a].plan_version = state[action[a].run_id].plan_version

\* A plan numbers its actions without gap or repetition.
PlanOrder ==
  /\ \A a \in Actions : action[a].run_id \in Runs =>
       /\ action[a].sequence >= 1
       /\ action[a].plan_version = state[action[a].run_id].plan_version =>
            action[a].sequence < state[action[a].run_id].next_sequence
  /\ \A r \in Runs : state[r].next_sequence >= 1
  /\ \A a, b \in Actions :
       (/\ action[a].run_id \in Runs
        /\ action[a].run_id = action[b].run_id
        /\ action[a].plan_version = action[b].plan_version
        /\ action[a].sequence = action[b].sequence) => a = b

\* A stop drops the whole queue: only a frozen plan has dropped actions.
FrozenIsDropped ==
  \A a \in Actions : action[a].run_id \in Runs =>
    LET r == action[a].run_id
    IN  /\ state[r].frozen => action[a].status # "QUEUED"
        /\ (action[a].status = "INVALIDATED"
              /\ action[a].plan_version = state[r].plan_version) => state[r].frozen

\* A run is over only when all of its actions are.
FinalIsEnded == \A r \in Runs : state[r].status \in FinalStatus => AllEnded(r)

\* An action id that append has not used is as it was in the beginning.
UnusedIsNew ==
  \A a \in Actions : action[a].run_id = None => action[a] = NewAction(None, 0, 0)

\* Only completed actions pass their checkpoint.
VerifiedIsCompleted == \A a \in Actions : action[a].verified => action[a].status = "COMPLETED"

\* What a plan has left behind, and what older plans have, lies before the
\* observation in force.
LeftBehind ==
  \A a \in Actions : action[a].run_id \in Runs =>
    LET r == action[a].run_id
    IN  action[a].verified \/ action[a].plan_version # state[r].plan_version =>
          action[a].finished_at <= state[r].observation.at

SuccessIsVerified == \A r \in Runs : state[r].status = "SUCCEEDED" => Unverified(r) = {}

\* The plan's part, and the invariant of the plan on top of Safe.
Plan == /\ PendingInPlan /\ PlanOrder /\ FrozenIsDropped /\ FinalIsEnded /\ CheckpointsGate
        /\ UnusedIsNew /\ VerifiedIsCompleted /\ LeftBehind /\ SuccessIsVerified

Serial == Safe /\ Plan
=============================================================================
