# A verification development of RoboWeaver

RoboWeaver lets a language model plan for a robot: an agent appends *atomic
actions* to a durable stream, a scheduler hands them to the robot one at a time,
and evidence from new observations decides whether the stream goes on.  The
difficult part is what the program promises about the *physical* world when
replies are lost, processes die, events arrive late and operators press stop.
That is the part modelled here: TLA+ modules, TLC runs and proofs that TLAPS
checks.  Paths are relative to the repository; `scheduler.py` stands for
`src/src/roboweaver/scheduler.py` and so on.

## The system

| Component | State it keeps | Operations | Talks to |
|---|---|---|---|
| `scheduler.py` | none of its own: everything is in the ledger | create, append, close, dispatch, reconcile, apply, request_stop, revise, verify, observe, tick | ledger (transactions), executor (awaits) |
| `ledger.py` | tables `runs`, `resources`, `received`, `journal` in SQLite; one lock file per run | create, read, transaction, claim | everybody |
| `adapters/mock.py`, `adapters/base.py` | table of executions by idempotency key, each with its last event; a world | submit, lookup, cancel, inject, observe | scheduler |
| `runtime.py` | `RunState`'s counters, binding and pending feedback, in the ledger; the agent's session | start, resume, feedback, continue_execution, recover, cancel, terminate | scheduler, bridge, session store |
| `agent/bridge.py` | the binding of a tool call to its action | execute_action, finish_task, observe | runtime, scheduler |
| `agent/model.py` | model calls and retries, in the ledger | generate_content_async | runtime |
| `registry.py`, `verification.py`, `tasks.py`, `context.py` | none | validation, verdicts, projections | scheduler, runtime |
| `offline.py`, `cli.py`, `adapters/scripted.py`, `catalog.py` | files | driver of the synthetic scenario, test equipment, constants | runtime |

How they interact.  `Scheduler` works in short SQLite transactions (`BEGIN
IMMEDIATE` to commit, rolled back on an exception) and awaits the executor
*between* them.  Between two transactions of one call everything else may
happen: the robot moves and reports, time passes, the same run is served by
another process (`cancel` takes no claim; a driver that died leaves whatever it
had sent), or the process dies.  What a call read before an await it uses
after it: a snapshot, a list of actions, a decision that the run has expired.

What makes it correct:

* *executor*: one execution per idempotency key; no event after a terminal one.
* *ledger and resources*: a resource stands for a part of the robot.  Whatever
  is lost or late, two executions that may move the robot never share one.
* *stream*: a run has at most one execution at work, in the order of its plan,
  each after the checkpoint of the one before, also across revisions.
* *evidence*: success, and every new submission, rests on an observation made
  after everything the robot did before.
* *ends*: an action ends on the executor's word, once and for good; a run that
  is over has nothing left that moves.
* *progress*: a run that is resumed again and again learns the end of its
  executions, and a stop is answered by an outcome or by a block.
* *runtime*: one driver at a time; the result of a call reaches the agent once
  and truly; nothing limited is had without being paid for; a plan is replaced
  only because it failed; the agent has its task before anything else; a run
  comes to an end or to a block.

How the runtime interacts with the rest.  A driver holds the run's claim
(`exclusive`) for the length of a call of `start`, `resume` or `feedback`; an
operator's `cancel` takes none.  Inside, the driver alternates between turns of
the agent (`_drive`: ADK asks the model, runs its tool, and pauses at
`execute_action`) and looking after the bound action (`continue_execution`:
refresh, checkpoint, recover, outbox, next turn).  Four stores are written in
transactions of their own - the counters, binding and outbox in `RunState`, the
plan in the scheduler's part of it, the ADK session, and the executor - and a
process can die between any two writes.  What is resumed has to be read off
these.

The hazards, line by line, are listed in `PROJECT.json`.

## Modules

| Module | Models | Lines of it that matter |
|---|---|---|
| `Contracts` | the enumerations of `contracts.py` | `TERMINAL`, the statuses |
| `Executor` | `MockExecutor`, behind an unreliable connection, and the clock | `Accept` = submit, `AcceptLate` = a submission its sender had given up, `Inject` = inject, `ConfirmCancel` = cancel |
| `Scheduler` | `scheduler.py` over the ledger and `Executor`; the properties | one definition per transaction, one action per transaction or await |
| `SchedulerInvariant` | nothing new: the inductive invariants `Safe` and `Serial` | |
| `ActionStream` | what the scheduler promises to its callers: an abstract stream of actions, without ledger, executor, processes or clock | |
| `SchedulerStream` | the refinement mapping from `Scheduler` to `ActionStream` | `StageOf` |
| `Driver` | what a driver keeps: its part of `RunState` (`book`), the ADK `session`, the frame of each process in a method of `Runtime` | `Book`, `Frame`, `Move` |
| `Bridge` | the agent's turn: `_drive`, `agent/model.py`, `agent/bridge.py` | one action per tool transaction, model call or event |
| `Runtime` | `runtime.py` over `Bridge` and `Scheduler`: drivers, operators and deaths; the properties | one action per transaction or await |
| `RuntimeInvariant` | nothing new: the inductive invariants `Driven`, `Opening`, `Warranted`, `Attended`, `Restrained` and `Conversing` | |
| `Dialogue` | what the runtime promises to the agent: actions are proposed, come to an end and are told of, without ledger, robot, processes or deaths | |
| `RuntimeDialogue` | the refinement mapping from `Runtime` to `Dialogue` | `Concluded`, `Letters` |
| `MCScheduler`, `MCRuntime` | instances for TLC | |
| `Scheduler_proofs`, `Plan_proofs`, `Stream_proofs` | the theorems about the scheduler: executions and resources, the plan, the refinement of `ActionStream` | |
| `Runtime_proofs`, `Budget_proofs`, `Repair_proofs`, `Dialogue_proofs` | the theorems about the runtime: its stores and frames, what it spends, one action at a time, bounded corrections and the task first, the refinement of `Dialogue` | |
| `Promises_proofs` | the theorems about the whole: both refinements of the runtime, and what they come to | |

`Runtime` extends `Bridge`, which extends `Driver`, which extends `Scheduler`:
the composition shares the scheduler's variables.  A step of a driver that
calls the scheduler *is* the scheduler's step together with a move of the
driver's frame, and while a call with awaits is under way (`proc[p]`) the
driver's frame waits.

State of the scheduler.  `state` is the `runs` table without what no decision
reads, `action` the `ActionRecord`s of all runs by action id (an id that
`append` has not used has no run), `owner` the `resources` table, `received`
the `received` table.  `started` and `events` are the executor's table, a
snapshot being the number of events it shows; `inflight` holds the submissions
that timed out at the caller and may still arrive; `now` is the clock.
`proc[p]` is the frame of the call process `p` is in: where it is, for which
run and action, the snapshot it carries, and the rest of the loop it is in.
Action ids, runs, processes and resources are model values; an observation is
an id, a time and a validity.

State of the runtime.  `book` is the rest of `RunState`: the counters, the
latest tool call with its action (`binding`; a refused call has none),
`pending_feedback` and the last verdict on each action.  `session` is the list
of the ADK session's events, reduced to their kind and, for receipts and
results, the call and action they are about; a call's id is its place.
`driver[p]` is the frame of a method of `Runtime`: `claims` while it holds the
claim, `running` inside `_run` (whose exception handler ends the run), `next`
where a nested `refresh`, `terminate` or `request_stop` returns to.  `crashes`
counts deaths, for the bound.

Actions.  A call of one transaction (append, close, revise, observe, verify,
apply from feedback) is one step.  A call that awaits is split where others can
come between:

| Code | Steps |
|---|---|
| `dispatch` 101-145 | `Dispatch` (the transaction), then `SubmitAnswered`, `SubmitReplyLost`, `SubmitTimesOut` or `SubmitDisconnected`, then `AcceptAnswer` and `ApplyAnswer` (`_accept_snapshot` 155-173 and 174-175), or `Unknown` (147-153) |
| `request_stop` 236-265 | `RequestStop`, `StopRead`, and for each stopping action `CancelUnsupported`, `CancelConfirmed`, `CancelAnswered` or `CancelFails`, each with its answer |
| `reconcile` 177-189 | `Reconcile`, `ReconcileRead`, and for each active action `LookupAnswered` or `LookupFails`, each with its answer |
| `tick` 342-374 | `Tick` (what it reads), `TickStop` if that says so, the steps of `request_stop` and `reconcile`, `Settle` |
| `start` 129-139, `resume` 285-348, `feedback` 280-283, `cancel` 259-262, `cancel_mock` (offline.py) | `Start`, `Resume` and `Resumed`, `ReceiveFeedback`, `Cancel`, `CancelMock` |
| `_run` 173-246 | `RunLoop`, `TimeOut`, `Returned`, `Invalid`, `Reply`, and `Raised` for the exception handler |
| `_drive` 141-171 | `Prompt`, `ResumeTurn` |
| `generate_content_async` (model.py), `take_model_call` 73-87, `_after_model` 89-98 | `TakeModelCall`, `ModelFails` (before it answers), `ModelAnswers`, `ModelBreaksOff` (behind its answer, its tool having run) |
| `execute_action` (bridge.py) | `Propose` (its transaction) or `Repeated`, `DispatchNext`, `Receive` (the tool's response) |
| `finish_task`, `observe` (bridge.py) | `FinishTask`, `Refresh`, `ObserveWorld`, `VerifyFinal`, `Conclude` or `Respond`; `ObserveTool` |
| `continue_execution` 374-426 | `ContinueExecution`, `Refresh`, `ObserveWorld`, `Judge` or `JudgedBefore`, `Prepare` |
| `_deliver_feedback` 350-372 | `Deliver`, the turn, `Ran` |
| `recover` 264-278, `terminate` 248-257 | `Recover`, `Stop`, `TickRun`, `Replanned`, `Refresh`, `ObserveWorld`, `ReviseRun`; `Terminate`, `Stop`, `TickRun` |

`Die(p)` returns a process to rest at any point of any call; in `Scheduler`
alone the same is `Crash(p)`.  A call the code refuses with `ValueError`
changes nothing (its transaction is rolled back): by itself it is no step, and
in the runtime it raises (`Raised`).  `tick` and `reconcile` handle the actions
of a loop in list order; the model takes them in any order.

ADK is not part of the repository.  `Bridge` models it by what the code relies
on, and the map marks these definitions external: a message is in the session
before the model is asked, a call before its tool runs, a response after; a
pending `execute_action` ends the turn; a turn that is resumed without a message
goes on from the session's last event.

Definitions marked *[variant]* are no part of the program: each is a plausible
mistake in the definition that follows it, used to test that the properties
notice.

## Runs

| Run | Question | Bounds |
|---|---|---|
| `race` | Do one execution and its record stay together when two processes serve the run at once? `TypeOK`, `Safe`, `EndedMeansReported`, `HeldWhileActive`, `NoOrphan`, `FinalMeansStopped`, `EndIsForGood` | 1 action, 2 processes, one event of any kind (at work, ended, ended without a stop) and the confirmed cancel, clock to 1 with every limit at 1 |
| `arm` | Do resources keep the executions of two runs apart? `ResourceExclusion` | 2 runs, 2 actions, 2 processes, one action with two resources and one, not cancellable, with one of them |
| `stream` | Is a plan executed in order, on fresh evidence, also across a revision? `Serial`, `SerialExecution`, `CheckpointsGate`, `SuccessHasEvidence`, `DispatchSeesThePast`, and the refinement `StreamSpec` | 2 actions with disjoint resources, so that only the plan keeps them apart; 2 plans, 3 observations, which may be late |
| `progress` | Does the program learn of every end, answer every stop, and act on each event once and in order? `EndIsConfirmed`, `StopIsAnswered`, `EventsActInOrder` | 1 action, 1 process, requested stops that cancel and that replan, 2 events of any kind and the confirmed cancel, clock to 2 with time-outs at 1, fairness as below |
| `stale` | Does an unresolved execution keep its run blocked? `UnresolvedStaysBlocked`, which is violated | 1 action, 1 process |
| `crash` | Does a driver that dies and resumes tell results once and truly, give the agent its task first, pay for what is limited, and replan only for a cause; does it have one action under way, and the robot still while it plans and judges? `RuntimeTypeOK`, `ResultsOnce`, `ResultsTrue`, `BudgetsHold`, `RepairsBounded`, `TaskFirst`, `OneUnderWay`, `StandsStill`, `CallKeepsAction`, `RevisionHasCause`, and the refinement `DialogueSpec` | 1 driver, 2 deaths, 2 actions and room in the stream for both, 3 plans, 3 model calls, 5 observations |
| `cancel` | Do a driver and an operator beside it still tell results once, and do no more to the ledger than the scheduler allows? `ResultsOnce`, the refinement `Spec` | 2 processes, 2 actions, 2 plans, 3 model calls, no correction, no death |
| `told` | Does every end reach the agent? `ResultIsTold` | 1 action, 1 driver, 1 death, an invalid observation, a failing model call, all tools; fairness |
| `ends` | Does every run come to an end or to a block? `RunEnds`; under the run's time-out, is the robot still while the driver plans and judges (`StandsStill`), and is all that happens the scheduler's own steps (`Spec`)? | 1 action, 1 driver, 1 death, clock to 2 with every limit at 1, 2 model calls, no replan; fairness |
| `canceled` | Does a cancelled run stay cancelled? `CanceledIsFinal`, which is violated | 1 action, a driver and an operator, 2 model calls, a robot that reports nothing of itself |
| `stranded` | Does a driver leave an action queued? `NothingLeftQueued`, which is violated | 1 action, 1 driver, 1 death |
| `refused` | Does a driver leave a refusal unanswered? `NothingLeftRefused`, which is violated | 1 action, 1 driver, 1 death |

Why these bounds are enough to be interesting.  A race needs two processes, and
two actions only where it is about their relation; an event and a cancel give
every pair of a stale and a fresh answer; two plans show what a revision keeps,
and the third in `crash` that a failure of the first is not used again; the
clock has to pass each limit once.  Two deaths reach the death of a driver that
is recovering from a death.  Two actions with three model calls let an action
fail, be replaced and be finished; `crash` has a capacity of two so that it is
not the limit of the stream that keeps a second action out.  `MaxReports`, `MaxTime`, `MaxPlan` and
`MaxCrashes` are bounds of the model (the code's counters are unbounded);
`MaxObs`, `MaxModelCalls`, `MaxApiRetries`, `MaxInvalidProposals` and
`MaxReplans` are budgets of the task.  `MaxPlan` is above `MaxReplans`, so it
never keeps a paid replan from being made.  `arm` needs no events beyond a
confirmed cancel, and no clock: what frees a resource is a terminal event, of
whichever kind.  Deadlock is not checked: a run that has ended, with the clock
at its bound, has nothing left to do.

Every property of a passing run is broken by a mutant of the code's model
(`PROJECT.json`): a dropped test, a status tested in place of another, evidence
that may move backwards, a claim that is not taken, an outbox delivered without
looking, a budget tested one too late.

Fairness of `progress`.  Time passes; an operator resumes the run again and
again (`Tick` is strongly fair); a call that has begun goes on unless its
process dies, and processes do not die for ever; a lookup that is repeated for
ever is answered at last, which is weaker than a working connection.  Nothing is
assumed of the robot, which need never report nor confirm a stop.  The code
justifies no more: it has no background loop, `resume` has to be called.  A
death is a step `Crash(p)` that is not also a last step of the call: for
instance a tick that finds nothing to conclude and a tick that dies there leave
the same state, and forbidding such steps would forbid the ticks.  The clock of
the model stops at `MaxTime`, so `StopIsAnswered` speaks of stops whose time is
up before that (`TimeForStops`); the program's clock does not stop.  What counts
as an answer depends on the stop (`StopConcluded`): RECOVERING is one only of a
replan, and only once all its actions have ended, since `apply` writes the same
status as soon as one action ends badly, before `tick` has concluded anything.

Fairness of `told` and `ends` is the same, one level up: `Resume` is strongly
fair, a method that has begun goes on (`Drive` and the scheduler's `Step`, weakly
fair), repeated lookups are answered, time passes.  Deaths are bounded by
`MaxCrashes`, so there is a last one.  Nothing is assumed of the model (its
calls may all fail, all be invalid, or never act), of the verifier, of
observations (any may fail), nor of an operator.  `RunEnds` says that a run is
at an end or at a block again and again, not that it stays there: the answer of
a lookup may lift a block (see `stale`), and then a tick has to set it again or
conclude.  `told` has one action, so a second action begun within a delivery is
left to `crash`, which checks that results stay in order.  `ResultIsTold` has the escape
the code has: a run stopped for good need not tell its agent.  `RunEnds` has
`TimeForStops` for the same reason as above.

### What `stale` shows

`_accept_snapshot` (scheduler.py:163-173) takes a snapshot that was not
terminal for proof that the execution is known again: it writes RUNNING or
STOPPING over EXECUTION_UNKNOWN and turns a BLOCKED run to EXECUTING.  The
snapshot may be stale.  A stop is requested; the executor answers the cancel
without confirming it; the robot then reports an end without having stopped,
and `feedback` applies that report, which blocks the run; now the answer of the
cancel is accepted and lifts the block.  In that case the answer carries no
event, or one that was applied already, so `feedback` has nothing more to apply.
The run says EXECUTING, with an execution that nobody can account for, until a
`tick` after `stop_seconds` finds the stop expired and blocks it again
(lines 358-363).
The project's README says that unknown execution status blocks further actions
until resolved, and test `i09` shows it for one order of the steps.  What
keeps the robot safe even then is proved below: the resources are still held.

### What `canceled` shows

`recover` (runtime.py:272) requests a stop for replanning whatever stop is in
force.  The agent finishes its task, which closes the stream; an operator
cancels, the run has nothing at work and a tick reports CANCELED; the driver's
final verification then fails and writes RECOVERING over it; `recover` pays for
a replan and overwrites the intent *cancel* by *replan*; the plan is revised,
the run is READY, the agent is asked again and its next action goes to the
robot.  `terminate` guards its own reason against this (lines 249-253);
`recover` does not.

### What `stranded` and `refused` show

`execute_action` records its intent (the action queued, or the refusal) with the
binding in one transaction and dispatches, or answers, afterwards.  If the
process dies between the two, `resume` takes the binding for a durable intent:
it writes a pending receipt to the session and calls `continue_execution`.  With
the action still queued that returns at once (line 388): nothing dispatches it,
and nothing can report on it.  With a refusal there is no action at all and it
returns at line 385, whereas the refusal is only ever answered by `_run` (line
192).  Each further `resume` does the same, until the run's time is up and a
tick stops it - which `ends` confirms it does.

## Proofs

The theorems hold for all sets of runs, actions, processes and resources, all
contracts, all bounds and all time limits, from the assumptions named in
`Executor` (`ReportsAssumption`, `BoundsAssumption`), `Scheduler`
(`SchedulerAssumption`) and, for the runtime, `Driver` (`DriverAssumption`).
`Scheduler_proofs`:

* `SafeInvariant`: `Spec => []Safe`, the inductive invariant;
* `TypeCorrect`, `ResourcesHeld`, `EndsReported`: `TypeOK`, `HeldWhileActive`
  and `EndedMeansReported`, conjuncts of it;
* `Exclusion`: `ResourceExclusion`.

`Plan_proofs`:

* `SerialInvariant`: `Spec => []Serial`, `Safe` with the plan's part;
* `OneAtWork`, `NothingOrphaned`, `FinalIsStill`, `Gated`, `Evidenced`:
  `SerialExecution`, `NoOrphan`, `FinalMeansStopped`, `CheckpointsGate` and
  `SuccessHasEvidence`;
* `EndsStay`, `DispatchSees`, `EventsOnce`: the action properties
  `EndIsForGood`, `DispatchSeesThePast` and `EventsActInOrder`.

`Stream_proofs`:

* `ImplementsStream`: `Spec => StreamSpec`, the refinement of `ActionStream`.

`Runtime_proofs`:

* `DrivenInvariant`: `RuntimeSpec => [](Serial /\ Driven)`;
* `RuntimeImplements`: `RuntimeSpec => Spec`, so that every theorem above is
  one about the runtime, too;
* `RuntimeTyped`, `ToldOnce`, `ToldTrue`: `RuntimeTypeOK`, `ResultsOnce` and
  `ResultsTrue`;
* `RepeatKeepsAction`: the action property `CallKeepsAction`.

`Budget_proofs`:

* `WarrantedInvariant`: `RuntimeSpec => [](Serial /\ Driven /\ Warranted)`;
* `PaidFor`: `BudgetsHold`;
* `ReplacedForCause`: the action property `RevisionHasCause`.

`Repair_proofs`:

* `AttendedInvariant`: `RuntimeSpec => [](Serial /\ Driven /\ Attended)`;
* `OneAtATime`, `RobotStandsStill`: `OneUnderWay` and `StandsStill`;
* `RestrainedInvariant`, `RepairsAreBounded`: `Restrained` on top of `Attended`,
  and `RepairsBounded`;
* `TaskComesFirst`: `TaskFirst`, by the invariant `Opening` on top of `Driven`.

`Dialogue_proofs`:

* `ConversingInvariant`: `RuntimeSpec => [](Serial /\ Driven /\ Conversing)`;
* `HoldsDialogue`: `RuntimeSpec => DialogueSpec`, the refinement of `Dialogue`.

`Promises_proofs`:

* `RuntimeStreams`: `RuntimeSpec => StreamSpec`;
* `RuntimeIsSafe`: the safety theorems of the scheduler hold of the whole program;
* `RuntimeIsOrderly`: the whole program works off its plans `InTurn`, in an
  `Orderly` dialogue with the agent.  Two lemmas show that the abstract
  specifications have these properties, and the refinements carry them over.

Executions and resources.  `ResourceExclusion` is about what may *move*: live
executions, submissions under way and submissions about to be made.  The ledger
knows only statuses.  The bridge between the two is `MayMoveIsActive`: what may
move was submitted, so it has left the queue (`IntentFirst`: the durable intent
precedes every submission), and it has not ended, because ends are only recorded
on the executor's word that the robot stopped (`EndedMeansReported`), an
execution that stopped says nothing afterwards (`LastWord`), and a submission
that is still under way has no execution (`SubmittedOnce`, `KnownIsSubmitted`).
So it is active, an active action holds its resources (`HeldWhileActive`), and a
row of the resources table has one owner.  `FramesOK` says what an interrupted
call may rely on when it goes on: its actions were submitted, its snapshot is
one the executor really had, and an event is applied only after its execution id
is recorded.

The proof has one lemma per transaction, which says how it changes the ledger.
Most of them only do `Bookkeeping` (statuses move among the active ones, queued
actions are dropped), and one lemma shows that this keeps all of `Safe`; the
submission, the event and the appended batch have proofs of their own.  Then one
lemma per step puts the transaction and the frame together, where `Grows` is
what every step keeps for the calls of everybody else.

The plan.  None of the properties of the plan is inductive.  Two executions of
one run are excluded because both would be active, so of the plan in force
(`PendingInPlan`), so at different places of it (`PlanOrder`), and the later one
was submitted only after the earlier had completed (`CheckpointsGate`) - which a
dispatch guarantees only because a plan that is not frozen has no dropped
actions it could skip (`FrozenIsDropped`).  That evidence is never older than
what it judges rests on `LeftBehind`: checkpoints passed and plans replaced are
never later than the observation in force, and observations do not move
backwards.  `Onward` says what every step but append and revise may do to a run
and to an action; it is shown of each transaction once, `OnwardPlan` shows that
it keeps the plan, and the action properties are read off it.

The stream.  `StageOf` reads the stage of an action off the ledger alone.  A
step of the scheduler maps to one step of `ActionStream` or to a stutter:
submission to `Start`, the event that ends an action to `End`, a checkpoint to
`Pass`, a freeze to `Stop`.  That these are *allowed* by the abstract
specification is where `Serial` comes in: `Start` asks that nothing else of the
run is busy and that all before it has passed, `Replan` that nothing is queued
or busy.

The runtime.  That a result is told once is not inductive by itself: between
the moment a driver looks the result up in the session (`Deliver`) and the
moment it is appended (`Prompt`) the result is in nobody's books.  `Driven` says
what the stores say of each other (`Accounts`: a binding has its call in the
session, the outbox a result that is settled, a refusal has no result) and what
each frame may rely on (`Fits`): a driver that carries a result to the agent
carries one the session has not (`CarriesNews`), and turns to other things only
when the outbox has been delivered (`DeliversFirst`); one that looks after an
action looks after an ended one (`LooksAfter`).  These are facts about what one
driver read and others could have changed since, so they need that only one
process has the claim (`Exclusive`) and that the others, operators, touch none
of it (`Operates`).  A death only forgets a frame.  There is one lemma per
method step; the scheduler's steps are shown once to leave ends and verdicts of
actions alone.

What the runtime spends.  A budget is raised in one transaction and what it pays
for happens in a later step, so a bound on what happened holds only because a
frame that is about to do something has already paid for it.  `Due` says so of
each: a call of the model under way is one more than the decisions in the
session, an observation being made has its count, a replan under way
(`Renewing`) has not yet made its plan, and is under way because the plan in
force has failed.  Only the holder of the claim spends (`Exclusive` again), so
nobody else uses up what a frame has paid for; operators owe nothing, and a
death only loses what was paid.  That a plan has failed is a fact about actions
of the plan in force that ended without passing, and stays true until the plan
is replaced: an action is marked as verified only by a verdict that passed
(`VerifiedPassed`), so one that was judged and failed is not, and a stream that
`finish_task` closed is still closed when its final verification fails
(`Finishing`).

One action at a time.  The scheduler would take several; it is the runtime that
has one under way.  That is a fact about where a driver can be while an action
has not ended: nowhere near the model, an observation or a verdict.  `MayWait`
lists the places, `SessionWaits` says that the session then ends with the call
or its receipt, so that a turn that is resumed does not reach the model, and
`OutboxFirst` that an undelivered result and an action at work exclude each
other, so that the message of a delivery does not either.  A new action is only
begun at a place where, by the same list, none is pending.  `StandsStill` follows
with `NoOrphan`: what may move is active, hence pending.

Corrections.  An invalid decision is counted in one step, and what the count
leads to, a stop for good, takes several; a driver may die in between, and the
next finds the count at its limit.  So the bound has a term for the deaths, and
the invariant has to say who owes the stop: once all corrections are spent, a
driver is on its way to stop the run (`GivesUp`, from `terminate` to the tick
that concludes it), or the run has been stopped and nobody gives it to the agent
again (`GivenUpForGood`).  That last part needs that the outbox is empty, for
`resume` delivers it whatever stop is in force: a driver that gives up clears
what it was delivering (`Faithful`).

The task.  `resume` has only the session to tell it whether the agent has its
task, and a driver may die after creating the session, after paying for the turn
or after appending the task.  `Opening` says that as long as the session has at
most the event of its creation, there is nothing to take up - no binding, no
outbox - and whoever has the claim brings the task, or is giving up (`Opens`).
So a second event is the task; a session that exists need not have had it.

The dialogue.  The abstract specification knows actions that were proposed, that
are over, and letters.  A step of `Runtime` that binds an action maps to
`Propose`, the step that records the verdict on a completed action, or the end of
any other, to `End`, and the step that appends a result to the session to `Tell`.
`Propose` asks that the agent has heard of all earlier actions: `Conversing` says
that it has heard of all but the bound one (`OldAreTold`), and that as long as it
has not heard of that one, no driver is where the agent can act (`MayHold`).
`Tell` asks that the letter is about an action that was not told of before,
although the code only looks for the *call*: results, outbox and frames name the
bound action exactly when they name the bound call (`Matches`, `MindsBound`).

The abstract specifications.  A specification can be implemented because it
forbids too little.  `InTurn` and `Orderly` say what the two are for.  That
`ActionStream` and `Dialogue` have them follows from their own actions; that the
program has them is `RuntimeIsOrderly`, which needs both refinements.

Only model-checked: the liveness properties (`EndIsConfirmed`, `StopIsAnswered`,
`ResultIsTold`, `RunEnds`), since liveness under fairness is out of the prover's
reach, and the four violations.  Every other property of the passing runs is
proved.

## Not modelled

* The contents of goals, arguments, schemas, preconditions, images and worlds;
  how a verifier comes to its verdict, which is a free choice here, and so is
  why a proposal is refused.
* `context.py`, `catalog.py`, `tasks.py`, and the receipts' and results' texts:
  pure functions of data no property here is about.
* `world_version`, which `observe` tests like the time of an observation.
* Failures of SQLite itself (a full disk, a lock held for more than 5 s), and of
  the ADK session store.
* The checks of association that a correct executor never fails (a snapshot for
  another key, a changed execution id, a duplicate event with another payload).
* ADK's inside: see above for what is assumed of it.
* `run_mock` and `resume_mock`, which call `start`, `resume` and `feedback` in a
  fixed order and so do nothing the model does not; the scripted model; `cli.py`.
* A run driven in two ledgers, or with its lock file removed.

## What is left

Deeper rather than wider: liveness with two drivers competing for the claim, a
dialogue that includes refused proposals and texts, and preconditions that read
the observed world.
