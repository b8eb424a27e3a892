----------------------------- MODULE Scheduler -----------------------------
(***************************************************************************)
(* The Scheduler class of scheduler.py over the SQLite ledger of ledger.py *)
(* and the executor of module Executor.                                    *)
(*                                                                         *)
(* Every ledger.transaction is one atomic step (BEGIN IMMEDIATE ... commit *)
(* or rollback); between two transactions of one call, other processes,    *)
(* the robot and the clock move.  A call that awaits the executor is split *)
(* at its transactions and at the executor's own step, and proc[p] holds   *)
(* what process p carries across: stale reads included.  A call the code   *)
(* answers with ValueError changes nothing and is not a step.              *)
(* Definitions marked [variant] are not the code's: each is a plausible    *)
(* mistake in the definition that follows it, for testing the properties.  *)
(*                                                                         *)
(* Several processes may serve the same run: the claim of ledger.py stands *)
(* between drivers, but cancel takes no claim, and a crashed driver leaves *)
(* whatever it had sent.                                                   *)
(***************************************************************************)
EXTENDS Executor, FiniteSets, Functions

CONSTANTS
  Runs,          \* run ids
  Procs,         \* processes that call the scheduler
  Resources,     \* names in the resources table
  ResourcesOf,   \* the resources of each action's contract
  Cancelable,    \* actions whose contract has supports_cancel
  None,          \* no owner, no run, no action
  Capacity,      \* RunState.capacity
  ActionSeconds, StopSeconds, TotalSeconds, MaxAge,  \* Budget
  StopRequests,  \* reasons callers give to request_stop
  Validity,      \* what Observation.valid may be
  ObserveLag,    \* age an observation may have when it reaches the ledger
  MaxPlan,       \* bound: revisions of a plan
  MaxObs         \* bound: observations of a run (Budget.max_observations)

ASSUME SchedulerAssumption ==
  /\ ResourcesOf \in [Actions -> SUBSET Resources]
  /\ Cancelable \subseteq Actions
  /\ None \notin Runs /\ None \notin Actions
  /\ Capacity \in Nat \ {0}
  /\ {ActionSeconds, StopSeconds, TotalSeconds, MaxAge, ObserveLag} \subseteq Nat
  /\ Validity \subseteq BOOLEAN
  /\ StopRequests \subseteq StopReasons
  /\ MaxPlan \in Nat \ {0} /\ MaxObs \in Nat \ {0}

VARIABLES
  state,     \* runs table: the RunState of each run
  action,    \* the ActionRecords of all runs, by action id
  owner,     \* resources table: the action that holds each resource
  received,  \* received table: <<action, event number>> of applied events
  proc       \* what each process is in the middle of

ledger == <<state, action, owner, received>>
vars == <<started, inflight, events, now, state, action, owner, received, proc>>

Observation == [id : Nat, at : Nat, valid : BOOLEAN]

RunState ==
  [status : TaskStatus, plan_version : Nat, next_sequence : Nat,
   closed : BOOLEAN, frozen : BOOLEAN,
   stop_intent : StopReasons \cup {NoIntent}, observation : Observation]

\* An action id that append has not used yet has run_id = None.
\* execution_id says whether the executor's id is recorded.
ActionRecord ==
  [run_id : Runs \cup {None}, plan_version : Nat, sequence : Nat,
   status : ActionStatus, execution_id : BOOLEAN,
   execution_observation_id : Int,
   submitted_at : Int, finished_at : Int, stop_requested_at : Int,
   last_event_sequence : Nat, verified : BOOLEAN]

\* create: a run begins READY, with the observation it was created from.
NewRun ==
  [status |-> "READY", plan_version |-> 1, next_sequence |-> 1,
   closed |-> FALSE, frozen |-> FALSE, stop_intent |-> NoIntent,
   observation |-> [id |-> 1, at |-> 0, valid |-> TRUE]]

NewAction(r, version, sequence) ==
  [run_id |-> r, plan_version |-> version, sequence |-> sequence,
   status |-> "QUEUED", execution_id |-> FALSE,
   execution_observation_id |-> NoTime,
   submitted_at |-> NoTime, finished_at |-> NoTime,
   stop_requested_at |-> NoTime,
   last_event_sequence |-> 0, verified |-> FALSE]

(***************************************************************************)
(* A process between calls, and the frame of one inside a call: loop is    *)
(* the code that continues after the current action's snapshot is settled  *)
(* (dispatch, the cancel loop of request_stop or the lookup loop of        *)
(* reconcile), todo the actions that loop has left, ticking whether tick   *)
(* made the call.                                                          *)
(***************************************************************************)
Idle == [pc |-> "idle", run |-> None, act |-> None, todo |-> {},
         snap |-> 0, loop |-> "dispatch", ticking |-> FALSE]

PC == {"idle", "submit", "accept", "apply", "unknown", "stop_read", "cancel",
       "tick_stop", "reconcile", "lookup", "settle"}

ProcState ==
  [pc : PC, run : Runs \cup {None}, act : Actions \cup {None},
   todo : SUBSET Actions, snap : Nat, loop : {"dispatch", "cancel", "lookup"},
   ticking : BOOLEAN]

Init ==
  /\ ExecutorInit
  /\ state = [r \in Runs |-> NewRun]
  /\ action = [a \in Actions |-> NewAction(None, 0, 0)]
  /\ owner = [res \in Resources |-> None]
  /\ received = {}
  /\ proc = [p \in Procs |-> Idle]

-----------------------------------------------------------------------------
(* What the transactions read.                                             *)

ActionsOf(r) == {a \in Actions : action[a].run_id = r}

Pending(r) == {a \in ActionsOf(r) : action[a].status \notin TERMINAL}

\* Handed to the executor, or about to be, and not known to have ended.
Active(a) == action[a].status \notin TERMINAL \cup {"QUEUED"}

\* [variant] Lost executions are left out.
ActiveUnlessUnknown(r) ==
  {a \in ActionsOf(r) : Active(a) /\ action[a].status # "EXECUTION_UNKNOWN"}

ActiveOf(r) == {a \in ActionsOf(r) : Active(a)}

Current(r) == {a \in ActionsOf(r) : /\ action[a].plan_version = state[r].plan_version
                                    /\ action[a].status # "INVALIDATED"}

\* [variants] The first queued action is next; a checkpoint is not waited for.
NextQueued(r) == {a \in Current(r) : action[a].status = "QUEUED"}
Uncompleted(r) == {a \in Current(r) : action[a].status # "COMPLETED"}

\* Actions of the plan that still stand before their successors.
Unverified(r) == {a \in Current(r) : action[a].status # "COMPLETED" \/ ~action[a].verified}

\* [variant] An unanswered submission counts as not sent.
DroppableUnanswered(a) == action[a].status \in {"QUEUED", "SUBMITTING"}

\* Queued and not handed over: a stop can still drop it.
Droppable(a) == action[a].status = "QUEUED"

\* [variants] Lost executions count as over; a run without actions never is.
AllEndedOrUnknown(r) == \A a \in Pending(r) : action[a].status = "EXECUTION_UNKNOWN"
SomeAndAllEnded(r) == Pending(r) = {} /\ ActionsOf(r) # {}

\* Nothing of the run is queued, at work or unaccounted for.
AllEnded(r) == Pending(r) = {}

\* Completed actions whose checkpoint is still open.
Finished(r) == {a \in Current(r) : action[a].status = "COMPLETED" /\ ~action[a].verified}

\* registry.validate and verify accept only a valid and recent observation.
Fresh(r) == /\ state[r].observation.valid
            /\ now - state[r].observation.at \in 0..MaxAge

\* [variant] A terminal report is taken for a stop.
ConfirmsUnstopped(event) == event.status \in TERMINAL \ {"INVALIDATED"}

\* The event proves that the execution is over and the robot stopped.
Confirms(event) == /\ event.status \in TERMINAL \ {"INVALIDATED"}
                   /\ event.stopped

-----------------------------------------------------------------------------
(* The transactions.                                                       *)


\* append: validate against the current observation and queue the batch.
AppendActions(r, batch) ==
  /\ ~state[r].closed /\ ~state[r].frozen
  /\ state[r].status \notin FinalStatus
  /\ Cardinality(Pending(r)) + Len(batch) <= Capacity
  /\ Fresh(r)
  /\ action' = [a \in Actions |->
       IF \E i \in DOMAIN batch : batch[i] = a
       THEN NewAction(r, state[r].plan_version,
              state[r].next_sequence - 1 + CHOOSE i \in DOMAIN batch : batch[i] = a)
       ELSE action[a]]
  /\ state' = [state EXCEPT ![r].next_sequence = @ + Len(batch)]
  /\ UNCHANGED <<owner, received>>

\* close: the caller names the last sequence it has appended.
Close(r, last) ==
  /\ ~state[r].frozen
  /\ last = state[r].next_sequence - 1
  /\ state' = [state EXCEPT ![r].closed = TRUE]
  /\ UNCHANGED <<action, owner, received>>

\* [variant] One free resource is enough.
SomeResourceFree(a) == \E res \in ResourcesOf[a] : owner[res] = None

\* No row of the resources table is in the way of the action's insertions.
ResourcesFree(a) == \A res \in ResourcesOf[a] : owner[res] = None

\* dispatch, its transaction: durable intent, with the resources, before submit.
SubmitIntent(r, a) ==
  /\ ~state[r].frozen
  /\ state[r].status \notin FinalStatus \cup {"BLOCKED"}
  /\ a \in Unverified(r)
  /\ \A b \in Unverified(r) : action[a].sequence <= action[b].sequence
  /\ action[a].status = "QUEUED"
  /\ Fresh(r)
  /\ ResourcesFree(a)
  /\ action' = [action EXCEPT ![a] =
       [@ EXCEPT !.status = "SUBMITTING", !.submitted_at = now,
                 !.execution_observation_id = state[r].observation.id]]
  /\ owner' = [res \in Resources |-> IF res \in ResourcesOf[a] THEN a ELSE owner[res]]
  /\ state' = [state EXCEPT ![r].status = "EXECUTING"]
  /\ UNCHANGED received

\* [variant] An action that has ended is marked as well.
MarkUnknownAlways(r, a) ==
  /\ action' = [action EXCEPT ![a].status = "EXECUTION_UNKNOWN"]
  /\ state' = [state EXCEPT ![r].status = "BLOCKED"]
  /\ UNCHANGED <<owner, received>>

\* _unknown
MarkUnknown(r, a) ==
  /\ IF action[a].status \in TERMINAL
     THEN action' = action /\ state' = state
     ELSE /\ action' = [action EXCEPT ![a].status = "EXECUTION_UNKNOWN"]
          /\ state' = [state EXCEPT ![r].status = "BLOCKED"]
  /\ UNCHANGED <<owner, received>>

\* [variant] The task's status in place of the action's.
AtWorkOfTask(a) == IF action[a].stop_requested_at # NoTime THEN "STOPPING" ELSE "EXECUTING"

\* The status of an action whose robot is reported to be at work.
AtWork(a) == IF action[a].stop_requested_at # NoTime THEN "STOPPING" ELSE "RUNNING"

\* A snapshot of n events says that a, not yet ended, is being worked on.
FoundAtWork(a, n) == /\ action[a].status \notin TERMINAL
                     /\ SnapshotStatus(a, n) \notin TERMINAL

StatusFound(a, n) == IF FoundAtWork(a, n) THEN AtWork(a) ELSE action[a].status

\* _accept_snapshot, its own transaction, for a snapshot of n events.
AcceptSnapshot(r, a, n) ==
  /\ action' = [action EXCEPT ![a] =
       [@ EXCEPT !.execution_id = TRUE, !.status = StatusFound(a, n)]]
  /\ state' = [state EXCEPT ![r].status =
       IF FoundAtWork(a, n) /\ @ = "BLOCKED" THEN "EXECUTING" ELSE @]
  /\ UNCHANGED <<owner, received>>

\* [variant] Late events count as well.
NewsUnordered(a, n) == <<a, n>> \notin received /\ action[a].status \notin TERMINAL

\* Event n of a is neither a duplicate nor late.
News(a, n) ==
  /\ <<a, n>> \notin received
  /\ n > action[a].last_event_sequence
  /\ action[a].status \notin TERMINAL

\* What an event makes of the action and of the run.
StatusReported(a, event) ==
  IF event.status = "RUNNING" THEN AtWork(a)
  ELSE IF Confirms(event) THEN event.status
  ELSE "EXECUTION_UNKNOWN"

RunStatusReported(r, a, event) ==
  CASE event.status = "RUNNING" -> state[r].status
    [] event.status # "RUNNING" /\ ~Confirms(event) -> "BLOCKED"
    [] Confirms(event) /\ action[a].plan_version # state[r].plan_version -> state[r].status
    [] OTHER -> IF event.status = "COMPLETED" THEN "VERIFYING" ELSE "RECOVERING"

\* apply: record event n of a once, and act on it when it is news.
Apply(r, a, n) ==
  LET event == events[a][n]
  IN  /\ action[a].execution_id
      /\ received' = received \cup {<<a, n>>}
      /\ IF News(a, n)
         THEN /\ action' = [action EXCEPT ![a] =
                   [@ EXCEPT !.last_event_sequence = n,
                             !.status = StatusReported(a, event),
                             !.finished_at = IF Confirms(event) THEN event.at
                                               ELSE action[a].finished_at]]
              /\ owner' = [res \in Resources |->
                   IF Confirms(event) /\ owner[res] = a THEN None ELSE owner[res]]
              /\ state' = [state EXCEPT ![r].status = RunStatusReported(r, a, event)]
         ELSE action' = action /\ owner' = owner /\ state' = state

\* request_stop, its transaction: freeze the plan, drop what is queued.
FreezePlan(r, reason) ==
  /\ state' = [state EXCEPT ![r] = [@ EXCEPT !.frozen = TRUE, !.stop_intent = reason]]
  /\ action' = [a \in Actions |->
       IF a \notin Pending(r) THEN action[a]
       ELSE IF Droppable(a)
       THEN [action[a] EXCEPT !.status = "INVALIDATED"]
       ELSE [action[a] EXCEPT
              !.status = "STOPPING",
              !.stop_requested_at = IF @ = NoTime THEN now ELSE @]]
  /\ UNCHANGED <<owner, received>>

\* Running executions whose stop was requested too long ago.
StopExpired(r) == {a \in Pending(r) : /\ action[a].stop_requested_at # NoTime
                                      /\ now - action[a].stop_requested_at >= StopSeconds}

OutcomeOf(reason) == CASE reason = "cancel" -> "CANCELED"
                       [] reason = "replan" -> "RECOVERING"
                       [] OTHER -> "FAILED"

\* tick, its transaction: give up on late stops, or conclude a stopped run.
ConcludeStop(r) ==
  /\ action' = [a \in Actions |->
       IF a \in StopExpired(r) THEN [action[a] EXCEPT !.status = "EXECUTION_UNKNOWN"]
       ELSE action[a]]
  /\ state' = [state EXCEPT ![r].status =
       IF StopExpired(r) # {} THEN "BLOCKED"
       ELSE IF state[r].stop_intent # NoIntent /\ AllEnded(r)
       THEN OutcomeOf(state[r].stop_intent)
       ELSE @]
  /\ UNCHANGED <<owner, received>>

\* The observation is no older than the end of any execution of the run.
SeesEveryEnd(r, observation) ==
  \A a \in ActionsOf(r) : action[a].finished_at <= observation.at

\* revise: a new plan once the old one is frozen and confirmed stopped.
Revise(r, observation) ==
  /\ state[r].frozen
  /\ AllEnded(r)
  /\ observation.valid /\ SeesEveryEnd(r, observation)
  /\ state' = [state EXCEPT ![r] =
       [@ EXCEPT !.plan_version = state[r].plan_version + 1, !.next_sequence = 1,
                 !.closed = FALSE, !.frozen = FALSE, !.stop_intent = NoIntent,
                 !.observation = observation, !.status = "READY"]]
  /\ UNCHANGED <<action, owner, received>>

\* [variant] Any recent observation judges an execution.
EvidenceAnyTime(r) == Fresh(r)

\* verify accepts evidence taken after every execution that it judges.
Evidence(r) ==
  /\ Fresh(r)
  /\ \A a \in Finished(r) :
       /\ state[r].observation.id # action[a].execution_observation_id
       /\ state[r].observation.at >= action[a].finished_at

\* verify, verdict PASS on the checkpoint of one action.
PassCheckpoint(r, a) ==
  /\ Evidence(r)
  /\ a \in Finished(r)
  /\ action' = [action EXCEPT ![a].verified = TRUE]
  /\ UNCHANGED <<state, owner, received>>

\* verify, verdict PASS on the final checkpoint of a closed stream.
PassFinal(r) ==
  /\ Evidence(r)
  /\ state[r].closed /\ ~state[r].frozen
  /\ Unverified(r) = {}
  /\ state' = [state EXCEPT ![r].status = "SUCCEEDED"]
  /\ UNCHANGED <<action, owner, received>>

\* verify, verdict FAIL or UNKNOWN on any checkpoint.
FailVerification(r) ==
  /\ Evidence(r)
  /\ state' = [state EXCEPT ![r].status = "RECOVERING"]
  /\ UNCHANGED <<action, owner, received>>

\* [variant] The latest observation to arrive wins.
ObserveLatest(r, observation) ==
  /\ state' = [state EXCEPT ![r].observation = observation]
  /\ UNCHANGED <<action, owner, received>>

\* observe: evidence never moves backwards.
Observe(r, observation) ==
  /\ observation.at >= state[r].observation.at
  /\ state' = [state EXCEPT ![r].observation = observation]
  /\ UNCHANGED <<action, owner, received>>

-----------------------------------------------------------------------------
(* Calls that one transaction makes up, by whichever process serves them.  *)

robot == <<started, inflight, events, now>>

\* Observations a process may hold when it calls the scheduler.
NewObservations(r) ==
  [id : {state[r].observation.id + 1} \cap 1..MaxObs,
   at : {t \in 0..now : now - t <= ObserveLag}, valid : Validity]

Batches == UNION {Injection(1..n, {a \in Actions : action[a].run_id = None}) :
                    n \in 1..Capacity}

Appending(r) == /\ \E batch \in Batches : AppendActions(r, batch)
                /\ UNCHANGED <<robot, proc>>

Closing(r) == /\ ~state[r].closed /\ Close(r, state[r].next_sequence - 1)
              /\ UNCHANGED <<robot, proc>>

Revising(r) == /\ state[r].plan_version < MaxPlan
               /\ \E observation \in {state[r].observation} \cup NewObservations(r) :
                    Revise(r, observation)
               /\ UNCHANGED <<robot, proc>>

Observing(r) == /\ \E observation \in NewObservations(r) : Observe(r, observation)
                /\ UNCHANGED <<robot, proc>>

Verifying(r) == /\ \/ \E a \in Actions : PassCheckpoint(r, a)
                   \/ PassFinal(r)
                   \/ FailVerification(r)
                /\ UNCHANGED <<robot, proc>>

\* feedback: an event the robot sent arrives, at any time, perhaps again.
Feedback(a) == /\ \E n \in 1..Len(events[a]) : Apply(action[a].run_id, a, n)
               /\ UNCHANGED <<robot, proc>>

-----------------------------------------------------------------------------
(* Calls that await the executor, one step per transaction or await.       *)

\* Process p, at pc, moves to frame.
Goto(p, pc, frame) == proc[p].pc = pc /\ proc' = [proc EXCEPT ![p] = frame]

\* Where a frame goes on when its current action is settled: the rest of the
\* loop, then what the caller of the loop does next.
Continue(frame) ==
  CASE frame.loop = "dispatch" -> Idle
    [] frame.loop # "dispatch" /\ frame.todo # {} ->
         [frame EXCEPT !.pc = frame.loop, !.act = None, !.snap = 0]
    [] frame.loop = "cancel" /\ frame.todo = {} /\ frame.ticking ->
         [frame EXCEPT !.pc = "reconcile", !.act = None, !.snap = 0]
    [] frame.loop = "lookup" /\ frame.todo = {} /\ frame.ticking ->
         [frame EXCEPT !.pc = "settle", !.act = None, !.snap = 0]
    [] OTHER -> Idle

\* The loop takes a from its list; the executor's answer leads to pc.
Take(frame, a, pc, n) ==
  [frame EXCEPT !.pc = pc, !.act = a, !.todo = @ \ {a}, !.snap = n]

\* dispatch: the transaction ...
Dispatch(p, r, a) ==
  /\ Goto(p, "idle", [Idle EXCEPT !.pc = "submit", !.run = r, !.act = a])
  /\ SubmitIntent(r, a)
  /\ UNCHANGED robot

\* ... and the submission, answered,
SubmitAnswered(p) ==
  LET a == proc[p].act
  IN  /\ Goto(p, "submit", [proc[p] EXCEPT !.pc = "accept", !.snap = Snapshot(a)])
      /\ Accept(a)
      /\ UNCHANGED ledger

\* accepted with the reply lost,
SubmitReplyLost(p) ==
  /\ Goto(p, "submit", [proc[p] EXCEPT !.pc = "unknown"])
  /\ Accept(proc[p].act)
  /\ UNCHANGED ledger

\* given up after io_seconds with the request under way,
SubmitTimesOut(p) ==
  /\ Goto(p, "submit", [proc[p] EXCEPT !.pc = "unknown"])
  /\ inflight' = inflight \cup {proc[p].act}
  /\ UNCHANGED <<started, events, now, ledger>>

\* or refused by the connection.
SubmitDisconnected(p) ==
  /\ Goto(p, "submit", [proc[p] EXCEPT !.pc = "unknown"])
  /\ UNCHANGED <<robot, ledger>>

\* The executor gave no answer about an action.
Unknown(p) ==
  /\ Goto(p, "unknown", Continue(proc[p]))
  /\ MarkUnknown(proc[p].run, proc[p].act)
  /\ UNCHANGED robot

\* The executor's answer, possibly overtaken, reaches the ledger.
AcceptAnswer(p) ==
  /\ Goto(p, "accept", IF proc[p].snap > 0 THEN [proc[p] EXCEPT !.pc = "apply"]
                       ELSE Continue(proc[p]))
  /\ AcceptSnapshot(proc[p].run, proc[p].act, proc[p].snap)
  /\ UNCHANGED robot

\* So does the last event the answer carried.
ApplyAnswer(p) ==
  /\ Goto(p, "apply", Continue(proc[p]))
  /\ Apply(proc[p].run, proc[p].act, proc[p].snap)
  /\ UNCHANGED robot

\* request_stop: the transaction,
RequestStop(p, r, reason) ==
  /\ Goto(p, "idle", [Idle EXCEPT !.pc = "stop_read", !.run = r, !.loop = "cancel"])
  /\ FreezePlan(r, reason)
  /\ UNCHANGED robot

\* the read of the executions to cancel,
StopRead(p) ==
  /\ Goto(p, "stop_read", Continue([proc[p] EXCEPT
       !.todo = {a \in ActionsOf(proc[p].run) : action[a].status = "STOPPING"}]))
  /\ UNCHANGED <<robot, ledger>>

\* and for each of them: a contract without cancel,
CancelUnsupported(p) ==
  \E a \in proc[p].todo \ Cancelable :
    /\ Goto(p, "cancel", Continue(Take(proc[p], a, "cancel", 0)))
    /\ MarkUnknown(proc[p].run, a)
    /\ UNCHANGED robot

\* a stop the robot confirms,
CancelConfirmed(p) ==
  \E a \in proc[p].todo \cap Cancelable :
    /\ Goto(p, "cancel", Take(proc[p], a, "accept", Snapshot(a) + 1))
    /\ ConfirmCancel(a)
    /\ UNCHANGED ledger

\* a robot that has not confirmed, or had ended already,
CancelAnswered(p) ==
  \E a \in proc[p].todo \cap Cancelable \cap started :
    /\ Goto(p, "cancel", Take(proc[p], a, "accept", Snapshot(a)))
    /\ UNCHANGED <<robot, ledger>>

\* or no answer: disconnected, too late, or the execution is unknown there.
CancelFails(p) ==
  \E a \in proc[p].todo \cap Cancelable :
    /\ Goto(p, "cancel", Take(proc[p], a, "unknown", 0))
    /\ UNCHANGED <<robot, ledger>>

\* reconcile: the read of the executions to look up,
Reconcile(p, r) ==
  /\ Goto(p, "idle", [Idle EXCEPT !.pc = "reconcile", !.run = r, !.loop = "lookup"])
  /\ UNCHANGED <<robot, ledger>>

ReconcileRead(p) ==
  /\ Goto(p, "reconcile", Continue([proc[p] EXCEPT
       !.loop = "lookup", !.todo = ActiveOf(proc[p].run)]))
  /\ UNCHANGED <<robot, ledger>>

\* and for each of them: its snapshot,
LookupAnswered(p) ==
  \E a \in proc[p].todo \cap started :
    /\ Goto(p, "lookup", Take(proc[p], a, "accept", Snapshot(a)))
    /\ UNCHANGED <<robot, ledger>>

\* or none: disconnected, too late, or the execution is unknown there.
LookupFails(p) ==
  \E a \in proc[p].todo :
    /\ Goto(p, "lookup", Take(proc[p], a, "unknown", 0))
    /\ UNCHANGED <<robot, ledger>>

\* tick: whether the run, or an execution, has used up its time.
Expired(r) ==
  \/ now >= TotalSeconds
  \/ \E a \in ActiveOf(r) : /\ action[a].submitted_at # NoTime
                            /\ now - action[a].submitted_at >= ActionSeconds

Tick(p, r) ==
  /\ state[r].status \notin FinalStatus
  /\ Goto(p, "idle", [Idle EXCEPT
       !.pc = IF state[r].stop_intent = NoIntent /\ Expired(r)
              THEN "tick_stop" ELSE "reconcile",
       !.run = r, !.ticking = TRUE])
  /\ UNCHANGED <<robot, ledger>>

TickStop(p) ==
  /\ Goto(p, "tick_stop", [proc[p] EXCEPT !.pc = "stop_read", !.loop = "cancel"])
  /\ FreezePlan(proc[p].run, "timeout")
  /\ UNCHANGED robot

Settle(p) ==
  /\ Goto(p, "settle", Idle)
  /\ ConcludeStop(proc[p].run)
  /\ UNCHANGED robot

\* The process dies; the ledger and the executor keep what is committed.
Crash(p) ==
  /\ proc[p] # Idle
  /\ proc' = [proc EXCEPT ![p] = Idle]
  /\ UNCHANGED <<robot, ledger>>

-----------------------------------------------------------------------------
\* The robot and the clock.
Environment ==
  /\ \/ \E a \in Actions : AcceptLate(a) \/ \E rep \in Reports : Report(a, rep)
     \/ Pass
  /\ UNCHANGED <<ledger, proc>>

\* Calls begin ...
Call(r) ==
  \/ Appending(r) \/ Closing(r) \/ Revising(r) \/ Observing(r) \/ Verifying(r)
  \/ \E p \in Procs :
       \/ \E a \in Actions : Dispatch(p, r, a)
       \/ \E reason \in StopRequests : RequestStop(p, r, reason)
       \/ Reconcile(p, r) \/ Tick(p, r)

\* ... and go on.
Step(p) ==
  \/ SubmitAnswered(p) \/ SubmitReplyLost(p) \/ SubmitTimesOut(p) \/ SubmitDisconnected(p)
  \/ Unknown(p) \/ AcceptAnswer(p) \/ ApplyAnswer(p)
  \/ StopRead(p) \/ CancelUnsupported(p) \/ CancelConfirmed(p)
  \/ CancelAnswered(p) \/ CancelFails(p)
  \/ ReconcileRead(p) \/ LookupAnswered(p) \/ LookupFails(p)
  \/ TickStop(p) \/ Settle(p)

Next ==
  \/ Environment
  \/ \E r \in Runs : Call(r)
  \/ \E a \in Actions : Feedback(a)
  \/ \E p \in Procs : Step(p) \/ Crash(p)

Spec == Init /\ [][Next]_vars

(***************************************************************************)
(* An operator who keeps resuming the run: time passes, ticks begin again  *)
(* and again, a call goes on, processes die in the middle of a call only   *)
(* so often, and a lookup repeated for ever is answered at last.  Nothing  *)
(* is assumed of the robot, which may never report nor confirm a stop.     *)
(* (A death that changes nothing a last step would not have changed, such  *)
(* as that of a tick which finds nothing to conclude, is not counted.)     *)
(***************************************************************************)
Fairness ==
  /\ WF_vars(Pass /\ UNCHANGED <<ledger, proc>>)
  /\ \A p \in Procs :
       /\ \A r \in Runs : SF_vars(Tick(p, r))
       /\ WF_vars(Step(p))
       /\ SF_vars(LookupAnswered(p))
       /\ <>[][Crash(p) => Step(p)]_vars

FairSpec == Spec /\ Fairness

-----------------------------------------------------------------------------
(* Properties.                                                             *)

TypeExecutor ==
  /\ started \subseteq Actions /\ inflight \subseteq Actions
  /\ events \in [Actions -> Seq(Event)]
  /\ now \in Nat

TypeLedger ==
  /\ state \in [Runs -> RunState]
  /\ action \in [Actions -> ActionRecord]
  /\ owner \in [Resources -> Actions \cup {None}]
  /\ received \subseteq Actions \X Nat

\* Every variable holds values of its type: the executor's, the ledger's and
\* the frames of the processes.
TypeOK == TypeExecutor /\ TypeLedger /\ proc \in [Procs -> ProcState]

\* The robot moves on behalf of a, or a submission that can still reach it is
\* on its way: what the ledger cannot take back.
MayMove(a) ==
  \/ Live(a)
  \/ a \in inflight
  \/ \E p \in Procs : proc[p].pc = "submit" /\ proc[p].act = a

\* The resources table keeps robots apart: whatever is lost, late or stopped
\* half-way, two executions that may move the robot never need one resource
\* (dispatch 131-134, apply 222).
ResourceExclusion ==
  \A a, b \in Actions : a # b /\ MayMove(a) /\ MayMove(b) =>
    ResourcesOf[a] \cap ResourcesOf[b] = {}

\* The stream is serial: one run never has two executions that may move, not
\* even executions of an old and a revised plan (dispatch 115-119, revise 272).
SerialExecution ==
  \A a, b \in Actions :
    MayMove(a) /\ MayMove(b) /\ action[a].run_id = action[b].run_id => a = b

\* A run is reported SUCCEEDED, CANCELED or FAILED only when nothing of it may
\* still move and nothing is left to dispatch (tick 366-373, verify 325-327).
FinalMeansStopped ==
  \A r \in Runs : state[r].status \in FinalStatus =>
    \A a \in ActionsOf(r) : action[a].status \in TERMINAL /\ ~MayMove(a)

\* Nothing moves behind the ledger's back: an execution that may move the robot
\* is active in the ledger, belongs to the plan in force, and its run is not
\* over; losses, crashes and revisions leave no orphan (dispatch 129-143,
\* revise 272, _unknown 150).
NoOrphan ==
  \A a \in Actions : MayMove(a) =>
    LET r == action[a].run_id
    IN  /\ Active(a)
        /\ action[a].plan_version = state[r].plan_version
        /\ state[r].status \notin FinalStatus

\* The ledger calls an execution ended only with the executor's word for that
\* outcome, at that time, with the robot stopped (apply 216-221).
EndedMeansReported ==
  \A a \in Actions : action[a].status \in TERMINAL \ {"INVALIDATED"} =>
    /\ Stopped(a)
    /\ events[a][Len(events[a])].status = action[a].status
    /\ events[a][Len(events[a])].at = action[a].finished_at

\* Resources are neither leaked nor freed early: an action holds all of its
\* resources exactly while it is active (dispatch 132, apply 222).
HeldWhileActive ==
  \A a \in Actions, res \in Resources :
    owner[res] = a <=> Active(a) /\ res \in ResourcesOf[a]

\* An action is handed to the executor only after every action before it in
\* its plan has completed and passed its checkpoint (dispatch 110-119).
CheckpointsGate ==
  \A a, b \in Actions :
    /\ action[a].run_id = action[b].run_id
    /\ action[a].plan_version = action[b].plan_version
    /\ action[a].sequence < action[b].sequence
    /\ action[b].submitted_at # NoTime
    => action[a].status = "COMPLETED" /\ action[a].verified

\* SUCCEEDED rests on evidence: every action of the plan completed and passed
\* its checkpoint, and the observation the goal was judged on is no older than
\* the end of any execution (verify 301-327, observe 334-338).
SuccessHasEvidence ==
  \A r \in Runs : state[r].status = "SUCCEEDED" =>
    /\ Unverified(r) = {}
    /\ SeesEveryEnd(r, state[r].observation)

\* The end of an action is for good: stale answers, late events, repeated
\* stops and timeouts do not reopen or rewrite it (the TERMINAL tests of
\* _unknown, _accept_snapshot, apply, request_stop and tick).
EndIsForGood ==
  [][\A a \in Actions : action[a].status \in TERMINAL =>
       /\ action'[a].status = action[a].status
       /\ action'[a].finished_at = action[a].finished_at
       /\ action[a].verified => action'[a].verified]_vars

\* The robot is set to work only on evidence from after the end of everything
\* it did before in the run, old plans included, and an action is handed over
\* at most once (dispatch 110-135, verify 309-314, revise 274-277).
DispatchSeesThePast ==
  [][\A a \in Actions : action'[a].submitted_at # action[a].submitted_at =>
       /\ action[a].submitted_at = NoTime
       /\ SeesEveryEnd(action[a].run_id, state[action[a].run_id].observation)]_vars

\* Each event acts on the ledger at most once and never after a later one.
EventsActInOrder ==
  [][\A a \in Actions :
       /\ action'[a].last_event_sequence >= action[a].last_event_sequence
       /\ action'[a].last_event_sequence # action[a].last_event_sequence =>
            <<a, action'[a].last_event_sequence>> \notin received]_vars

\* An end the robot has proved reaches the ledger, whatever was lost on the
\* way, if the run is resumed often enough (reconcile 177-189).
EndIsConfirmed ==
  \A a \in Actions :
    (Stopped(a) /\ SnapshotStatus(a, Snapshot(a)) # "INVALIDATED")
      ~> (action[a].status \in TERMINAL)

\* The clock will still reach the end of every stop of r.  (The clock of the
\* program has no bound; that of the model ends at MaxTime.)
TimeForStops(r) == \A a \in ActionsOf(r) : action[a].stop_requested_at + StopSeconds <= MaxTime

\* The outcome of the stop in force: of a replan, that the old plan is at rest and
\* waits to be replaced.  (RECOVERING by itself is no answer: apply writes it for
\* each action that ends other than well.)
StopConcluded(r) ==
  \/ state[r].status \in FinalStatus
  \/ state[r].stop_intent = "replan" /\ state[r].status = "RECOVERING" /\ AllEnded(r)

\* A stop never hangs: a cancel, a failure or a time-out ends in a verdict, a
\* replan in a plan at rest or a new one, and either in a BLOCKED run when the
\* robot has not confirmed (tick 357-373).
StopIsAnswered ==
  \A r \in Runs :
    (state[r].stop_intent # NoIntent /\ TimeForStops(r))
      ~> (\/ StopConcluded(r)
          \/ state[r].status = "BLOCKED"
          \/ state[r].stop_intent = NoIntent)

\* An execution reported ended without a stop keeps its run BLOCKED, and nothing
\* sets it back to EXECUTING (apply 217-220, dispatch 107).
UnresolvedStaysBlocked ==
  [][\A a \in Actions :
       LET r == action[a].run_id
           n == action[a].last_event_sequence
           unresolved == /\ Active(a) /\ n > 0
                         /\ SnapshotStatus(a, n) \in TERMINAL
       IN  unresolved /\ state[r].status = "BLOCKED" => state'[r].status # "EXECUTING"]_vars
=============================================================================
