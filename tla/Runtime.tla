------------------------------ MODULE Runtime -------------------------------
(***************************************************************************)
(* The Runtime class of runtime.py: drivers of one run, which hold its     *)
(* claim, beside operators who cancel it without one, in processes that    *)
(* may die at any point.  What they do to the ledger they do through the   *)
(* transactions of Scheduler.                                              *)
(***************************************************************************)
EXTENDS Bridge

-----------------------------------------------------------------------------
(* refresh, terminate, and the scheduler's calls in the middle of methods. *)

\* [variant] The last observation is spent twice.
RefreshOnceMore(p) ==
  IF book.observation_count > MaxObs THEN Goes(p, "refresh", Raised(p))
  ELSE Records(p, "refresh", [book EXCEPT !.observation_count = @ + 1], To(p, "observe"))

\* refresh, its transaction: an observation is paid for,
Refresh(p) ==
  IF book.observation_count >= MaxObs THEN Goes(p, "refresh", Raised(p))
  ELSE Records(p, "refresh", [book EXCEPT !.observation_count = @ + 1], To(p, "observe"))

\* then made; the executor may fail, and evidence from the past is refused.
ObserveWorld(p) ==
  \/ /\ Observing(Run)
     /\ Move(p, "observe", To(p, driver[p].next))
     /\ UNCHANGED <<book, session>>
  \/ Goes(p, "observe", Raised(p))

\* terminate reads the intent in force: a cancel or a timeout keeps its name.
Terminate(p) ==
  Goes(p, "terminate",
       [To(p, "stop") EXCEPT !.reason = IF state[Run].stop_intent \in {"cancel", "timeout"}
                                        THEN state[Run].stop_intent ELSE @])

\* request_stop with the reason read before ...
Stop(p) ==
  /\ RequestStop(p, Run, driver[p].reason)
  /\ Move(p, "stop", To(p, "tick"))
  /\ UNCHANGED <<book, session>>

\* ... and a tick, which has nothing to do for a run that is over.
TickRun(p) ==
  \/ /\ Tick(p, Run)
     /\ Move(p, "tick", To(p, driver[p].next))
     /\ UNCHANGED <<book, session>>
  \/ Over /\ Goes(p, "tick", To(p, driver[p].next))

-----------------------------------------------------------------------------
(* recover, called by continue_execution and, while running, by the tool   *)
(* finish_task, which goes on to respond.                                  *)

\* Where recover's caller goes on when it did not, or did, get a new plan.
GivenUp(p) == IF driver[p].running THEN "respond" ELSE "leave"
GoneOn(p) == IF driver[p].running THEN "respond" ELSE "prepare"

\* A replan is paid for, and the plan stopped.
Recover(p) ==
  IF book.replans >= MaxReplans
  THEN Goes(p, "recover", [To(p, "terminate") EXCEPT !.reason = "failure", !.next = GivenUp(p)])
  ELSE Records(p, "recover", [book EXCEPT !.replans = @ + 1],
               [To(p, "stop") EXCEPT !.reason = "replan", !.next = "replanned"])

\* Only a plan that has come to rest is replaced,
Replanned(p) ==
  IF Pending(Run) # {} THEN Goes(p, "replanned", To(p, GivenUp(p)))
  ELSE Goes(p, "replanned", [To(p, "refresh") EXCEPT !.next = "revise"])

\* on the observation just made; revise may refuse.
ReviseRun(p) ==
  \/ /\ Revise(Run, state[Run].observation)
     /\ state[Run].plan_version < MaxPlan
     /\ Move(p, "revise", To(p, GoneOn(p)))
     /\ UNCHANGED <<robot, proc, book, session>>
  \/ /\ \/ ~state[Run].frozen \/ ~AllEnded(Run) \/ ~state[Run].observation.valid
        \/ ~SeesEveryEnd(Run, state[Run].observation)
     /\ Goes(p, "revise", Raised(p))

-----------------------------------------------------------------------------
(* _run, around a turn of the agent.                                       *)

\* The frame that enters _run.
Running(p, message) ==
  [To(p, "prompt") EXCEPT !.running = TRUE, !.message = message]

\* The head of the loop.
RunLoop(p) ==
  IF now >= TotalSeconds THEN Goes(p, "prompt", Raised(p)) ELSE Goes(p, "prompt", To(p, "agent"))

\* The frame is in _drive, below the time-out of the whole run.
InTurn(frame) ==
  /\ frame.running /\ frame.next # "ran"
  /\ frame.pc \in {"agent", "model", "thinking", "tool", "dispatch", "receipt", "respond",
                   "final", "conclude", "refresh", "observe", "recover", "replanned", "revise",
                   "terminate", "stop", "tick"}

\* [variant] The cancelled dispatch takes its intent back.
TimeOutUndone(p) ==
  /\ now >= TotalSeconds /\ InTurn(driver[p])
  /\ driver' = [driver EXCEPT ![p] = Raised(p)]
  /\ proc' = [proc EXCEPT ![p] = Idle]
  /\ action' = [a \in Actions |-> IF action[a].status = "SUBMITTING"
                                  THEN [action[a] EXCEPT !.status = "QUEUED"] ELSE action[a]]
  /\ UNCHANGED <<robot, state, owner, received, book, session, crashes>>

\* The time-out cuts the turn off at an await, in a call of the scheduler too.
TimeOut(p) ==
  /\ now >= TotalSeconds /\ InTurn(driver[p])
  /\ driver' = [driver EXCEPT ![p] = Raised(p)]
  /\ proc' = [proc EXCEPT ![p] = Idle]
  /\ UNCHANGED <<robot, ledger, book, session, crashes>>

\* The turn is over: a rejected proposal, or a turn that neither acts nor ends
\* the task, is an invalid decision.
Returned(p) ==
  LET waits == \/ driver[p].paused
               \/ book.binding.act # None /\ ~Has("result", book.binding.call)
      idle == /\ state[Run].status \notin FinalStatus \cup {"BLOCKED"} /\ ~state[Run].closed
              /\ ~waits /\ Pending(Run) = {}
  IN  Goes(p, "returned",
           CASE Rejected -> [To(p, "invalid") EXCEPT !.message = Result(book.binding.call, None)]
             [] ~Rejected /\ idle -> [To(p, "invalid") EXCEPT !.message = Of("user")]
             [] OTHER -> To(p, "ran"))

\* [variant] The count is compared before it is raised.
InvalidOnceMore(p) ==
  Records(p, "invalid", [book EXCEPT !.invalid_proposals = @ + 1],
          IF book.invalid_proposals > MaxInvalidProposals THEN Raised(p) ELSE To(p, "reply"))

\* An invalid decision counts, up to a limit,
Invalid(p) ==
  Records(p, "invalid", [book EXCEPT !.invalid_proposals = @ + 1],
          IF book.invalid_proposals + 1 > MaxInvalidProposals THEN Raised(p) ELSE To(p, "reply"))

\* and is answered.
Reply(p) ==
  Records(p, "reply", [book EXCEPT !.binding = IF Rejected THEN NoBinding ELSE @], To(p, "prompt"))

-----------------------------------------------------------------------------
(* The outbox and continue_execution.                                      *)

\* [variant] Whether the result was delivered is not looked up.
DeliverAgain(p) ==
  Goes(p, "deliver", [Running(p, book.feedback) EXCEPT !.delivering = book.feedback.call])

\* _deliver_feedback: the message is sent unless the session has it already.
Deliver(p) ==
  Goes(p, "deliver", [Running(p, IF Has("result", book.feedback.call) THEN Nothing ELSE book.feedback)
                        EXCEPT !.delivering = book.feedback.call])

\* _run has returned: to start and resume, or to _deliver_feedback, which
\* clears the outbox and looks after an action bound in the meantime.
Ran(p) ==
  LET call == driver[p].delivering
  IN  Records(p, "ran",
              [book EXCEPT !.feedback = IF call # 0 /\ @ # Nothing /\ @.call = call
                                        THEN Nothing ELSE @],
              IF call # 0 /\ book.binding.call # call
              THEN [AtRest EXCEPT !.pc = "continue", !.claims = TRUE] ELSE AtRest)

\* [variant] The result is given while the execution goes on.
EndedOrAtWork(a) == action[a].status # "QUEUED"

\* [variant] Only a completion is told.
Completed(a) == action[a].status = "COMPLETED"

\* The bound action has ended.
BoundEnded(a) == action[a].status \in TERMINAL

ContinueExecution(p) ==
  LET a == book.binding.act
      stopped == Over \/ state[Run].stop_intent \in {"cancel", "timeout", "failure"}
  IN  Goes(p, "continue",
           CASE stopped -> AtRest
             [] ~stopped /\ book.feedback # Nothing -> To(p, "deliver")
             [] ~stopped /\ book.feedback = Nothing /\ a # None /\ BoundEnded(a) ->
                  [To(p, "refresh") EXCEPT !.next = "judge", !.act = a]
             [] OTHER -> AtRest)

\* [variant] A crash after a revision replans again.
FailedEver(a, verdict) == action[a].status # "COMPLETED" \/ verdict = "FAIL"

\* The plan in force has failed with this action.
Failed(a, verdict) ==
  /\ action[a].plan_version = state[Run].plan_version
  /\ action[a].status # "COMPLETED" \/ verdict = "FAIL"

\* continue_execution, the checkpoint: a plan that failed is replaced before
\* the agent is told.
Judged(p, verdict) ==
  To(p, IF Failed(driver[p].act, verdict) THEN "recover" ELSE "prepare")

\* [variant] Completed actions are left to the final verification.
LeftForFinal(a) == FALSE

Unjudged(a) == action[a].status = "COMPLETED" /\ ~action[a].verified

\* The verdict on a completed action, on the new observation; verify may refuse.
Judge(p) ==
  LET a == driver[p].act
  IN  /\ At(p, "judge") /\ Unjudged(a)
      /\ \/ \E verdict \in Verdicts :
              /\ IF verdict = "PASS" THEN PassCheckpoint(Run, a) ELSE FailVerification(Run)
              /\ book' = [book EXCEPT !.verdict[a] = verdict]
              /\ Move(p, "judge", Judged(p, verdict))
              /\ UNCHANGED <<robot, proc, session>>
         \/ /\ ~Evidence(Run) \/ ("PASS" \in Verdicts /\ a \notin Finished(Run))
            /\ Goes(p, "judge", Raised(p))

\* Any other action keeps the verdict it has.
JudgedBefore(p) ==
  /\ At(p, "judge") /\ ~Unjudged(driver[p].act)
  /\ Goes(p, "judge", Judged(p, book.verdict[driver[p].act]))

\* The result of the call goes to the outbox.
Prepare(p) ==
  Records(p, "prepare", [book EXCEPT !.feedback = Result(book.binding.call, driver[p].act)],
          To(p, "deliver"))

-----------------------------------------------------------------------------
(* The methods callers use.                                                *)

\* [variant] Nothing is claimed.
ClaimNothing == TRUE

\* ledger.claim: no other process is driving the run.
Unclaimed == \A q \in Procs : ~driver[q].claims

\* exclusive
Claim(p, frame) == Unclaimed /\ Move(p, "rest", [frame EXCEPT !.claims = TRUE])

FirstMessage == Of("user")

\* start, on a run without a session.
Start(p) ==
  /\ session = <<>>
  /\ Claim(p, Running(p, FirstMessage))
  /\ session' = <<Of("created")>>
  /\ UNCHANGED <<vars, book>>

\* feedback, with an event of the robot.
ReceiveFeedback(p) ==
  /\ \E a \in ActionsOf(Run) : Feedback(a)
  /\ Claim(p, To(p, "continue"))
  /\ UNCHANGED <<book, session>>

\* resume: tick ...
Resume(p) ==
  /\ Tick(p, Run)
  /\ Claim(p, To(p, "resumed"))
  /\ UNCHANGED <<book, session>>

\* A tool call is bound to an action or a rejection.
Bound == book.binding.call # 0

\* The session has the call of the binding.
BoundCallKnown == /\ book.binding.call \in DOMAIN session
                  /\ session[book.binding.call].kind = "execute_action"

\* [variant] A session that exists has had the task.
OpeningBySession == IF session # <<>> THEN Nothing ELSE FirstMessage

\* What a resumed agent is told: its task, unless it has had that.
OpeningMessage == IF Len(session) > 1 THEN Nothing ELSE FirstMessage

\* ... and go on where the session and the ledger were left.
Resumed(p) ==
  \/ Over /\ Rest(p, "resumed")
  \/ /\ ~Over /\ session = <<>>
     /\ IF ActionsOf(Run) # {} THEN Rest(p, "resumed")
        ELSE /\ Move(p, "resumed", Running(p, FirstMessage))
             /\ session' = <<Of("created")>>
             /\ UNCHANGED <<vars, book>>
  \/ /\ ~Over /\ session # <<>> /\ book.feedback # Nothing
     /\ Goes(p, "resumed", To(p, "deliver"))
  \/ /\ ~Over /\ session # <<>> /\ book.feedback = Nothing /\ Bound
     /\ \/ Has("receipt", book.binding.call) /\ Goes(p, "resumed", To(p, "continue"))
        \/ /\ ~Has("receipt", book.binding.call) /\ BoundCallKnown
           /\ Tells(p, "resumed", Receipt(book.binding.call, book.binding.act), To(p, "continue"))
        \/ /\ ~Has("receipt", book.binding.call) /\ ~BoundCallKnown
           /\ Rest(p, "resumed")
  \/ /\ ~Over /\ session # <<>> /\ book.feedback = Nothing /\ ~Bound
     /\ Goes(p, "resumed", Running(p, OpeningMessage))

\* cancel, by an operator, without the claim,
Cancel(p) ==
  /\ ~Over
  /\ Goes(p, "rest", [AtRest EXCEPT !.pc = "terminate", !.reason = "cancel", !.next = "leave"])

\* also from the command line (cancel_mock).
CancelMock(p) ==
  /\ ~Over
  /\ Goes(p, "rest", [AtRest EXCEPT !.pc = "stop", !.reason = "cancel", !.next = "leave"])

\* A method returns, after the last call it has made: the claim is released.
Leave(p) == Rest(p, "leave")

\* The process dies.  The operating system releases its claim.
Die(p) ==
  /\ crashes < MaxCrashes
  /\ driver[p] # AtRest
  /\ driver' = [driver EXCEPT ![p] = AtRest]
  /\ proc' = [proc EXCEPT ![p] = Idle]
  /\ crashes' = crashes + 1
  /\ UNCHANGED <<robot, ledger, book, session>>
-----------------------------------------------------------------------------
\* Methods begin ...
Begin(p) == Start(p) \/ ReceiveFeedback(p) \/ Resume(p) \/ Cancel(p) \/ CancelMock(p)

\* ... and go on.
Drive(p) ==
  \/ Turn(p) \/ Refresh(p) \/ ObserveWorld(p) \/ Terminate(p) \/ Stop(p) \/ TickRun(p)
  \/ Recover(p) \/ Replanned(p) \/ ReviseRun(p)
  \/ RunLoop(p) \/ TimeOut(p) \/ Returned(p) \/ Invalid(p) \/ Reply(p)
  \/ Deliver(p) \/ Ran(p) \/ ContinueExecution(p) \/ Judge(p)
  \/ JudgedBefore(p) \/ Prepare(p) \/ Resumed(p) \/ Leave(p)

RuntimeNext ==
  \/ Environment /\ UNCHANGED driving
  \/ \E p \in Procs :
       \/ Step(p) /\ UNCHANGED driving
       \/ Begin(p) \/ Drive(p) \/ Die(p)

allvars == <<vars, driving>>

RuntimeSpec == DriverInit /\ [][RuntimeNext]_allvars

(***************************************************************************)
(* An operator who resumes the run again and again: see Scheduler for what *)
(* is assumed of the executor, and what is not.                            *)
(***************************************************************************)
RuntimeFairness ==
  /\ WF_allvars(Pass /\ UNCHANGED <<ledger, proc, driving>>)
  /\ \A p \in Procs :
       /\ SF_allvars(Resume(p))
       /\ WF_allvars(Drive(p))
       /\ WF_allvars(Step(p) /\ UNCHANGED driving)
       /\ SF_allvars(LookupAnswered(p) /\ UNCHANGED driving)

FairRuntimeSpec == RuntimeSpec /\ RuntimeFairness

-----------------------------------------------------------------------------
(* Properties.                                                             *)

RuntimeTypeOK ==
  /\ TypeOK
  /\ book \in Book
  /\ session \in Seq(SessionEvent)
  /\ driver \in [Procs -> Frame]
  /\ crashes \in 0..MaxCrashes

\* The agent is told the result of a call at most once, whatever died between
\* preparing it, delivering it and clearing the outbox (runtime.py 350-371).
ResultsOnce ==
  \A i, j \in DOMAIN session :
    session[i].kind = "result" /\ session[j] = session[i] => i = j

\* What the agent is told has happened: the action of a result has ended, and
\* was judged if it completed (runtime.py 387-421).
ResultsTrue ==
  \A i \in DOMAIN session :
    LET a == session[i].act
    IN  session[i].kind = "result" /\ a # None =>
          /\ action[a].status \in TERMINAL
          /\ action[a].status = "COMPLETED" => book.verdict[a] # "none"

\* A tool call that is repeated, after a crash between its action and its
\* receipt, keeps the action that it has made (bridge.py 30, 39-48).
CallKeepsAction ==
  [][book'.binding.call = book.binding.call => book'.binding.act = book.binding.act]_allvars

\* What the model has decided, by its place in the session.
Decisions == {i \in DOMAIN session : session[i].kind \in Tools \cup {"text"}}

\* Whatever is limited is paid for before it happens, so that no crash gets
\* anything for free: decisions of the model, plans, observations (runtime.py
\* 76-91, 100-107, 264-268).
BudgetsHold ==
  /\ Cardinality(Decisions) <= book.model_calls /\ book.model_calls <= MaxModelCalls
  /\ book.api_retries <= MaxApiRetries
  /\ state[Run].plan_version <= 1 + book.replans /\ book.replans <= MaxReplans
  /\ state[Run].observation.id <= book.observation_count /\ book.observation_count <= MaxObs

\* An agent that does not take a correction is stopped: one more invalid decision
\* than the limit is counted, and one for each death of a driver before it had
\* the run stopped (runtime.py 212-224).
RepairsBounded == book.invalid_proposals <= MaxInvalidProposals + 1 + crashes

\* The agent is asked for the next action when the last one has come to an end:
\* nothing is at work, or queued, but what the run is bound to and will be told
\* of (bridge.py 20-48, runtime.py 296-345).
OneUnderWay == Pending(Run) \subseteq {book.binding.act}

\* The driver p has the agent plan, or observes, judges or revises.
Considers(p) ==
  /\ driver[p].claims
  /\ driver[p].pc \in {"model", "thinking", "observe", "judge", "prepare", "final", "revise"}

\* The robot stands still while it is planned for and judged: evidence for a
\* verdict or a new plan is never taken, nor the agent asked, while an execution
\* of the run may move or a submission is under way, whoever died, was cut off
\* or cancelled before (runtime.py 100-108, 141-171, 264-278, 387-402).
StandsStill ==
  \A p \in Procs : Considers(p) => \A a \in ActionsOf(Run) : ~MayMove(a)

\* The agent is given its task before anything else, whatever dies between
\* creating the session, telling the task and asking the model: resume reads off
\* the session whether the task is in it (runtime.py 129-139, 346-348).
TaskFirst == Len(session) > 1 => session[2] = FirstMessage

\* The plan in force has an action that ended without passing its checkpoint,
\* or its stream was closed and the goal not reached.
PlanHasFailed ==
  \/ state[Run].closed
  \/ \E a \in ActionsOf(Run) :
       /\ action[a].plan_version = state[Run].plan_version
       /\ action[a].status \in TERMINAL /\ ~action[a].verified

\* A plan is replaced, and a replan spent, only because the plan has failed.  A
\* crash after a revision does not do so again for the old action (runtime.py
\* 399-404).
RevisionHasCause ==
  [][\/ state'[Run].plan_version # state[Run].plan_version
     \/ book'.replans # book.replans
     => PlanHasFailed]_allvars

\* The end of an action reaches the agent, or the run has been stopped for
\* good, whoever died on the way (runtime.py 303-345, 383-426).
ResultIsTold ==
  \A a \in Actions :
    (book.binding.act = a /\ action[a].status \in TERMINAL)
      ~> (\/ \E i \in DOMAIN session : session[i].kind = "result" /\ session[i].act = a
          \/ state[Run].stop_intent \in {"cancel", "timeout", "failure"})

\* A run comes, again and again, to an end or to a block by an execution that
\* nobody can account for: no crash and no disagreement of its parts keeps it
\* waiting without either once its time is over
\* (take_model_call 79, _run 176-181, tick 342-373).
RunEnds == []<>(\/ state[Run].status \in FinalStatus \cup {"BLOCKED"}
                \/ ~TimeForStops(Run))

\* The driver p returns to its caller, of a run that may go on.
Returns(p) == /\ driver[p].claims /\ driver'[p] = AtRest /\ crashes' = crashes
              /\ ~Over /\ ~state[Run].frozen

\* Submit one registered semantic action and wait for feedback (bridge.py 20): a
\* driver leaves no action queued, for nobody else would submit it.
NothingLeftQueued ==
  [][\A p \in Procs : Returns(p) => \A a \in ActionsOf(Run) : action[a].status # "QUEUED"]_allvars

\* The receipt that resume restores stands for a durable intent (runtime.py
\* 321): a driver leaves no refused proposal unanswered.
NothingLeftRefused ==
  [][\A p \in Procs : Returns(p) => ~Rejected]_allvars

\* A run that was reported CANCELED never sets the robot to work again.
CanceledIsFinal ==
  [](state[Run].status = "CANCELED" => [](state[Run].status # "EXECUTING"))
=============================================================================
