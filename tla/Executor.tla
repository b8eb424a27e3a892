------------------------------ MODULE Executor ------------------------------
(***************************************************************************)
(* The execution endpoint behind the Executor protocol, after MockExecutor *)
(* of adapters/mock.py: a durable table of executions keyed by the         *)
(* action's idempotency key (the action id), each with its event history.  *)
(*                                                                         *)
(* A snapshot of an execution is the number n of events it had when it was *)
(* read: its status is that of event n (RUNNING when n = 0) and its        *)
(* last_event is event n.  Since every key has one execution, and one      *)
(* action, the execution id and the event's association fields are implied *)
(* by the key.  The event sequence number n-1 of the code is n here, and   *)
(* "no event yet" is 0 instead of -1.                                      *)
(***************************************************************************)
EXTENDS Contracts, Sequences

CONSTANTS
  Actions,     \* action ids (uuid4), which are also the idempotency keys
  Reports,     \* what the robot may report about an execution
  MaxReports,  \* bound: events of one execution, confirmed cancels aside
  MaxTime      \* bound: the clock

\* A report names RUNNING or a terminal status; only a terminal one can
\* state that the robot has stopped.
ASSUME ReportsAssumption ==
  /\ Reports \subseteq [status : TERMINAL \cup {"RUNNING"}, stopped : BOOLEAN]
  /\ \A rep \in Reports : rep.stopped => rep.status \in TERMINAL

ASSUME BoundsAssumption == MaxReports \in Nat /\ MaxTime \in Nat

VARIABLES
  started,   \* keys with a row in the executions table
  inflight,  \* keys whose submit timed out at the caller but may yet arrive
  events,    \* per key, the events of its execution
  now        \* the clock that scheduler and executor share

executor == <<started, inflight, events>>

Event == [status : TERMINAL \cup {"RUNNING"}, stopped : BOOLEAN, at : Int]

ExecutorInit ==
  /\ started = {}
  /\ inflight = {}
  /\ events = [a \in Actions |-> <<>>]
  /\ now = 0

Snapshot(a) == Len(events[a])

SnapshotStatus(a, n) == IF n = 0 THEN "RUNNING" ELSE events[a][n].status

\* The robot is known to have stopped working on a.
Stopped(a) == events[a] # <<>> /\ events[a][Len(events[a])].stopped

\* The robot may be moving on behalf of a.
Live(a) == a \in started /\ ~Stopped(a)

-----------------------------------------------------------------------------

\* submit: insert the execution, or find the one inserted before.
Accept(a) ==
  /\ started' = started \cup {a}
  /\ inflight' = inflight \ {a}
  /\ UNCHANGED <<events, now>>

\* A request whose sender gave up waiting reaches the endpoint.
AcceptLate(a) == a \in inflight /\ Accept(a)

\* inject: the execution's next event; refused after a terminal one.
Inject(a, status, stopped) ==
  /\ a \in started
  /\ SnapshotStatus(a, Snapshot(a)) \notin TERMINAL
  /\ events' = [events EXCEPT ![a] =
       Append(@, [status |-> status, stopped |-> stopped, at |-> now])]
  /\ UNCHANGED <<started, inflight, now>>

\* The robot makes progress, ends, fails or is stopped by its own runtime.
Report(a, rep) ==
  /\ Len(events[a]) < MaxReports
  /\ Inject(a, rep.status, rep.stopped)

\* cancel with confirm_cancel: stop the robot and record the evidence.
ConfirmCancel(a) == Inject(a, "CANCELED", TRUE)

\* Time passes.
Pass == now < MaxTime /\ now' = now + 1 /\ UNCHANGED executor
=============================================================================
