--------------------------- MODULE Repair_proofs ----------------------------
(***************************************************************************)
(* Theorems about the loop of corrections: one action at a time is under   *)
(* way, an agent that takes no correction is stopped, and an agent begins  *)
(* with its task, wherever a process dies.  The first rests on Attended,   *)
(* the second on Restrained, which are inductive one on top of the other,  *)
(* and of Driven; the third on Opening, which is inductive on Driven.      *)
(***************************************************************************)
EXTENDS Runtime_proofs

-----------------------------------------------------------------------------
(* Only a proposal adds to the run, and to what it waits for.              *)

Shrinks ==
  /\ Pending(Run)' \subseteq Pending(Run)
  /\ ActionsOf(Run)' = ActionsOf(Run)
  /\ EndsKept

LEMMA UntouchedShrinks ==
  ASSUME UNCHANGED action
  PROVE  Shrinks
  BY DEF Shrinks, Pending, ActionsOf, EndsKept

LEMMA OnwardShrinks ==
  ASSUME Onward
  PROVE  Shrinks
  BY DEF Shrinks, Pending, ActionsOf, EndsKept, Onward, ActionOnward

LEMMA TurnShrinks ==
  ASSUME Serial, NEW p \in Procs, Turn(p), ~Propose(p)
  PROVE  Shrinks
<1>1. CASE UNCHANGED vars
  BY <1>1, UntouchedShrinks DEF vars
<1>2. CASE DispatchNext(p)
  <2>1. ASSUME NEW a \in NextUp, Dispatch(p, Run, a)
        PROVE  Shrinks
    <3>1. a \in Actions
      BY DEF NextUp, Unverified, Current, ActionsOf
    <3>. QED
      BY <2>1, <3>1, DriverFacts, SubmitIntentOnward, OnwardShrinks DEF Dispatch, Serial
  <2>. QED
    BY <1>1, <1>2, <2>1 DEF DispatchNext, Goes
<1>3. CASE FinishTask(p) \/ VerifyFinal(p)
  <2>1. UNCHANGED action
    BY <1>3 DEF FinishTask, VerifyFinal, Close, Passed, PassFinal, FailVerification, ledger,
         Goes, vars
  <2>. QED
    BY <2>1, UntouchedShrinks
<1>. QED
  BY <1>1, <1>2, <1>3
  DEF Turn, Prompt, ResumeTurn, TakeModelCall, ModelFails, ModelAnswers, ModelBreaksOff,
      Repeated, Receive, Conclude, Respond, ObserveTool, Goes, Rest, Tells, Records

LEMMA DriveShrinks ==
  ASSUME Serial, Driven, NEW p \in Procs, Drive(p), ~Propose(p)
  PROVE  Shrinks
<1>1. UNCHANGED vars => Shrinks
  BY UntouchedShrinks DEF vars
<1>2. UNCHANGED ledger => Shrinks
  BY UntouchedShrinks DEF ledger
<1>3. CASE ObserveWorld(p) \/ ReviseRun(p)
  <2>1. UNCHANGED action
    BY <1>3 DEF ObserveWorld, Observing, Observe, ReviseRun, Revise, Goes, vars
  <2>. QED
    BY <2>1, UntouchedShrinks
<1>4. CASE Stop(p)
  <2>1. driver[p].pc = "stop" /\ FreezePlan(Run, driver[p].reason)
    BY <1>4 DEF Stop, RequestStop, Move, At
  <2>2. driver[p].reason \in StopReasons
    BY <2>1 DEF Driven, Fits, Guided
  <2>. QED
    BY <2>1, <2>2, DriverFacts, FreezePlanOnward, OnwardShrinks DEF Serial
<1>5. CASE Judge(p)
  <2>1. ASSUME NEW a, PassCheckpoint(Run, a)
        PROVE  Shrinks
    <3>1. a \in Actions
      BY <2>1 DEF PassCheckpoint, Finished, Current, ActionsOf
    <3>. QED
      BY <2>1, <3>1, DriverFacts, PassCheckpointOnward, OnwardShrinks DEF Serial
  <2>2. FailVerification(Run) => Shrinks
    BY UntouchedShrinks DEF FailVerification
  <2>. QED
    BY <1>1, <1>5, <2>1, <2>2 DEF Judge, Goes
<1>. QED
  BY <1>1, <1>2, <1>3, <1>4, <1>5, TurnShrinks
  DEF Drive, Refresh, Terminate, TickRun, Tick, Recover, Replanned, RunLoop, TimeOut, Returned,
      Invalid, Reply, Deliver, Ran, ContinueExecution, JudgedBefore, Prepare, Resumed, Leave,
      Goes, Rest, Tells, Records

LEMMA BeginShrinks ==
  ASSUME Serial, NEW p \in Procs, Begin(p) \/ Die(p)
  PROVE  Shrinks
<1>1. CASE ReceiveFeedback(p)
  <2>1. PICK a \in Actions : action[a].run_id = Run /\ Feedback(a)
    BY <1>1 DEF ReceiveFeedback, ActionsOf
  <2>2. PICK n \in 1..Len(events[a]) : Apply(Run, a, n)
    BY <2>1 DEF Feedback
  <2>. QED
    BY <2>2, DriverFacts, ApplyOnward, OnwardShrinks DEF Serial
<1>2. UNCHANGED vars \/ UNCHANGED ledger => Shrinks
  BY UntouchedShrinks DEF vars, ledger
<1>. QED
  BY <1>1, <1>2 DEF Begin, Start, Resume, Tick, Cancel, CancelMock, Goes, Die

\* Whoever moves, the run waits for nothing new unless an action is proposed.
LEMMA PendingShrinks ==
  ASSUME Serial, Driven, [RuntimeNext]_allvars, ~\E p \in Procs : Propose(p)
  PROVE  Shrinks
<1>1. UNCHANGED vars \/ UNCHANGED ledger => Shrinks
  BY UntouchedShrinks DEF vars, ledger
<1>2. ASSUME NEW p \in Procs, Step(p)
      PROVE  Shrinks
  BY <1>2, StepsOnward, OnwardShrinks DEF Serial
<1>. QED
  BY <1>1, <1>2, DriveShrinks, BeginShrinks DEF RuntimeNext, Environment, allvars

-----------------------------------------------------------------------------
(* While the run waits for an action.                                      *)

\* What is known of a driver in the meantime.
LEMMA WaitingFrame ==
  ASSUME Driven, Attended, Pending(Run) # {}, NEW p \in Procs
  PROVE  \E f \in Frame :
           /\ f = driver[p] /\ Fits(f) /\ Guided(f)
           /\ f.claims => MayWait(f)
           /\ f.pc \notin {"rest", "leave", "terminate", "stop", "tick"} => f.claims
           /\ ~f.claims => ~f.running /\ (f.pc \in {"terminate", "stop", "tick"} => f.next = "leave")
<1>1. PICK f \in Frame : f = driver[p] /\ Fits(f)
  BY DrivenTyped DEF Driven
<1>2. f.claims => MayWait(f)
  BY <1>1 DEF Attended
<1>. QED
  BY <1>1, <1>2 DEF Fits, Operates

\* The run is bound to what it waits for, and its call is in the session.
LEMMA WaitingBook ==
  ASSUME Driven, Attended, Pending(Run) # {}
  PROVE  /\ Pending(Run) = {book.binding.act} /\ book.binding.act \in Actions
         /\ Bound /\ BoundCallKnown /\ ~Rejected
         /\ book.binding.act \in ActionsOf(Run)
         /\ action[book.binding.act].status \notin TERMINAL
         /\ session \in Seq(SessionEvent) /\ session # <<>>
         /\ LastKind \in {"receipt", "execute_action"}
         /\ LastKind = "execute_action" => Known
         /\ book.feedback # Nothing => Has("result", book.feedback.call)
<1>1. PICK a \in Pending(Run) : TRUE
  OBVIOUS
<1>2. a = book.binding.act /\ a \in ActionsOf(Run) /\ a \in Actions
      /\ action[a].status \notin TERMINAL
  BY <1>1 DEF Attended, OneUnderWay, Pending, ActionsOf
<1>3. Pending(Run) = {book.binding.act}
  BY <1>1, <1>2 DEF Attended, OneUnderWay
<1>4. Bound /\ BoundCallKnown /\ ~Rejected
  BY <1>2, DriverFacts DEF Driven, Accounts, BindingOK, Rejected
<1>. QED
  BY <1>2, <1>3, <1>4, DrivenTyped DEF Attended, SessionWaits, OutboxFirst

\* Nobody waits for nothing.
LEMMA NothingToWaitFor ==
  ASSUME Pending(Run) = {}
  PROVE  Attended
  BY DEF Attended, OneUnderWay, SessionWaits, OutboxFirst

\* What the session says has been told stays told.
LEMMA TellsMore ==
  ASSUME Driven, NEW event, session' = Append(session, event), NEW kind, NEW call, Has(kind, call)
  PROVE  Has(kind, call)'
<1>1. session \in Seq(SessionEvent)
  BY DrivenTyped
<1>2. PICK i \in DOMAIN session : session[i].kind = kind /\ session[i].call = call
  BY DEF Has
<1>3. i \in DOMAIN session' /\ session'[i] = session[i]
  BY <1>1, <1>2
<1>. QED
  BY <1>2, <1>3 DEF Has

\* A step that keeps the binding, tells at most a receipt, and leads to a frame
\* that may wait.
LEMMA WaitsOn ==
  ASSUME Driven, Attended, Pending(Run) # {}, Shrinks,
         book'.binding = book.binding, book'.feedback \in {book.feedback, Nothing},
         \/ session' = session
         \/ \E event : event.kind = "receipt" /\ session' = Append(session, event),
         NEW p \in Procs, NEW g, driver' = [driver EXCEPT ![p] = g], g.claims => MayWait(g)
  PROVE  Attended'
<1>1. OneUnderWay'
  BY DEF Attended, OneUnderWay, Shrinks
<1>2. SessionWaits' /\ OutboxFirst'
  <2>1. CASE session' = session
    BY <2>1, WaitingBook DEF SessionWaits, OutboxFirst, LastKind, Known, CallId, Has
  <2>2. ASSUME NEW event, event.kind = "receipt", session' = Append(session, event)
        PROVE  SessionWaits' /\ OutboxFirst'
    <3>1. session' # <<>> /\ LastKind' = "receipt"
      BY <2>2, WaitingBook DEF LastKind
    <3>2. OutboxFirst'
      <4>1. book'.feedback # Nothing => Has("result", book.feedback.call)'
        BY <2>2, WaitingBook, TellsMore
      <4>. QED
        BY <4>1 DEF OutboxFirst, Has
    <3>. QED
      BY <3>1, <3>2 DEF SessionWaits
  <2>. QED
    BY <2>1, <2>2
<1>3. ASSUME NEW q \in Procs, driver'[q].claims
      PROVE  MayWait(driver[q])'
  <2>1. CASE q = p
    <3>1. driver'[q] = g
      BY <2>1, DrivenTyped
    <3>. QED
      BY <1>3, <3>1 DEF MayWait
  <2>2. CASE q # p
    <3>1. driver'[q] = driver[q]
      BY <2>2, DrivenTyped
    <3>2. MayWait(driver[q])
      BY <1>3, <3>1 DEF Attended
    <3>. QED
      BY <3>1, <3>2 DEF MayWait
  <2>. QED
    BY <2>1, <2>2
<1>. QED
  BY <1>1, <1>2, <1>3 DEF Attended

LEMMA GoesWaits ==
  ASSUME Driven, Attended, Pending(Run) # {}, Shrinks, NEW p \in Procs, NEW pc, NEW g,
         Move(p, pc, g), UNCHANGED <<book, session>>, g.claims => MayWait(g)
  PROVE  Attended'
  BY WaitsOn DEF Move

LEMMA RestWaits ==
  ASSUME Driven, Attended, Pending(Run) # {}, Shrinks, NEW p \in Procs, NEW pc, Rest(p, pc)
  PROVE  Attended'
  BY GoesWaits DEF Rest, AtRest

\* Frames that may wait.
WaitingPlaces == {"rest", "leave", "resumed", "continue", "deliver",
                  "tool", "dispatch", "receipt", "returned", "ran"}

LEMMA WaitsAt ==
  ASSUME Driven, NEW p \in Procs, NEW pc \in WaitingPlaces
  PROVE  /\ MayWait(To(p, pc))
         /\ \A b : MayWait([To(p, pc) EXCEPT !.claims = b])
         /\ \A b, c : MayWait([To(p, pc) EXCEPT !.paused = b, !.answering = c])
<1>1. PICK f \in Frame : f = driver[p]
  BY DrivenTyped
<1>2. pc \in Places
  BY DEF WaitingPlaces, Places
<1>. QED
  BY <1>1, <1>2 DEF To, MayWait, WaitingPlaces, Frame

LEMMA RaisedWaits ==
  ASSUME Driven, NEW p \in Procs
  PROVE  MayWait(Raised(p))
<1>1. PICK f \in Frame : f = driver[p]
  BY DrivenTyped
<1>. QED
  BY <1>1 DEF Raised, MayWait, Frame

-----------------------------------------------------------------------------
(* Steps of drivers while the run waits.                                   *)

LEMMA TurnWaits ==
  ASSUME Driven, Attended, Pending(Run) # {}, Shrinks, NEW p \in Procs, Turn(p)
  PROVE  Attended'
<1>1. PICK f \in Frame :
        /\ f = driver[p] /\ Fits(f) /\ Guided(f)
        /\ f.claims => MayWait(f)
        /\ f.pc \notin {"rest", "leave", "terminate", "stop", "tick"} => f.claims
  BY WaitingFrame
<1>2. CASE \/ Prompt(p) \/ TakeModelCall(p) \/ ModelFails(p) \/ ModelAnswers(p)
           \/ VerifyFinal(p) \/ Conclude(p) \/ Respond(p)
  BY <1>1, <1>2
  DEF Prompt, TakeModelCall, ModelFails, ModelAnswers, VerifyFinal, Conclude, Respond,
      Tells, Goes, Records, Move, At, MayWait
<1>3. CASE Propose(p) \/ FinishTask(p) \/ ObserveTool(p)
  BY <1>3, WaitingBook DEF Propose, FinishTask, ObserveTool
<1>4. CASE ResumeTurn(p)
  <2>1. \/ \E b : Goes(p, "agent", [To(p, "returned") EXCEPT !.paused = b, !.answering = FALSE])
        \/ \E b : Goes(p, "agent", [To(p, "tool") EXCEPT !.paused = b, !.answering = FALSE])
    BY <1>4, WaitingBook DEF ResumeTurn
  <2>. QED
    BY <2>1, WaitsAt, GoesWaits DEF Goes, WaitingPlaces
<1>5. CASE Repeated(p)
  BY <1>5, RestWaits, WaitsAt, GoesWaits DEF Repeated, Goes, WaitingPlaces
<1>6. CASE DispatchNext(p)
  <2>1. \/ Move(p, "dispatch", To(p, "receipt")) /\ UNCHANGED <<book, session>>
        \/ Move(p, "dispatch", Raised(p)) /\ UNCHANGED <<book, session>>
    BY <1>6 DEF DispatchNext, Goes
  <2>. QED
    BY <2>1, WaitsAt, RaisedWaits, GoesWaits DEF WaitingPlaces
<1>7. CASE Receive(p)
  <2>1. /\ session' = Append(session, Receipt(CallId, book.binding.act)) /\ UNCHANGED book
        /\ driver' = [driver EXCEPT ![p] = To(p, "returned")]
    BY <1>7 DEF Receive, Tells, Move
  <2>2. Receipt(CallId, book.binding.act).kind = "receipt"
    BY DEF Receipt
  <2>3. MayWait(To(p, "returned"))
    BY WaitsAt DEF WaitingPlaces
  <2>. QED
    BY <2>1, <2>2, <2>3, WaitsOn
<1>8. CASE ModelBreaksOff(p)
  BY <1>8, RaisedWaits, GoesWaits DEF ModelBreaksOff, Goes
<1>. QED
  BY <1>2, <1>3, <1>4, <1>5, <1>6, <1>7, <1>8 DEF Turn

\* Around a turn.
LEMMA RunWaits ==
  ASSUME Driven, Attended, Pending(Run) # {}, Shrinks, NEW p \in Procs,
         RunLoop(p) \/ TimeOut(p) \/ Returned(p) \/ Invalid(p) \/ Reply(p) \/ Ran(p)
  PROVE  Attended'
<1>1. PICK f \in Frame :
        /\ f = driver[p] /\ Fits(f) /\ Guided(f)
        /\ f.claims => MayWait(f)
        /\ f.pc \notin {"rest", "leave", "terminate", "stop", "tick"} => f.claims
  BY WaitingFrame
<1>2. CASE RunLoop(p)
  <2>1. f.pc = "prompt" => f.message = Nothing
    BY <1>1 DEF MayWait
  <2>2. f.pc = "prompt" /\ \E g \in {Raised(p), To(p, "agent")} : Goes(p, "prompt", g)
    BY <1>1, <1>2 DEF RunLoop, Goes, Move, At
  <2>3. MayWait(To(p, "agent"))
    BY <1>1, <2>1, <2>2 DEF To, MayWait, Frame, Places
  <2>. QED
    BY <2>2, <2>3, RaisedWaits, GoesWaits DEF Goes
<1>3. CASE TimeOut(p)
  BY <1>3, RaisedWaits, WaitsOn DEF TimeOut
<1>4. CASE Returned(p)
  <2>1. Goes(p, "returned", To(p, "ran"))
    BY <1>4, WaitingBook DEF Returned
  <2>. QED
    BY <2>1, WaitsAt, GoesWaits DEF Goes, WaitingPlaces
<1>5. CASE Invalid(p) \/ Reply(p)
  BY <1>1, <1>5 DEF Invalid, Reply, Records, Move, At, MayWait
<1>6. CASE Ran(p)
  <2>1. PICK b, g : /\ Records(p, "ran", b, g)
                    /\ \E m \in {book.feedback, Nothing} : b = [book EXCEPT !.feedback = m]
                    /\ g = AtRest \/ g = [AtRest EXCEPT !.pc = "continue", !.claims = TRUE]
    BY <1>6 DEF Ran
  <2>2. b.binding = book.binding /\ b.feedback \in {book.feedback, Nothing}
    BY <2>1, DrivenTyped DEF Book
  <2>3. g.claims => MayWait(g)
    <3>1. g = AtRest => ~g.claims
      BY DEF AtRest
    <3>2. g = [AtRest EXCEPT !.pc = "continue", !.claims = TRUE] => g.pc = "continue"
      BY DEF AtRest
    <3>. QED
      BY <2>1, <3>1, <3>2 DEF MayWait
  <2>. QED
    BY <2>1, <2>2, <2>3, WaitsOn DEF Records, Move
<1>. QED
  BY <1>2, <1>3, <1>4, <1>5, <1>6

\* Methods that look, stop or recover.
LEMMA LooksWait ==
  ASSUME Driven, Attended, Pending(Run) # {}, Shrinks, NEW p \in Procs,
         \/ Refresh(p) \/ ObserveWorld(p) \/ Terminate(p) \/ Stop(p) \/ TickRun(p)
         \/ Recover(p) \/ Replanned(p) \/ ReviseRun(p)
         \/ Judge(p) \/ JudgedBefore(p) \/ Prepare(p) \/ Leave(p)
  PROVE  Attended'
<1>1. PICK f \in Frame :
        /\ f = driver[p] /\ Fits(f) /\ Guided(f)
        /\ f.claims => MayWait(f)
        /\ f.pc \notin {"rest", "leave", "terminate", "stop", "tick"} => f.claims
        /\ ~f.claims => ~f.running /\ (f.pc \in {"terminate", "stop", "tick"} => f.next = "leave")
  BY WaitingFrame
<1>2. CASE \/ Refresh(p) \/ ObserveWorld(p) \/ Recover(p) \/ Replanned(p) \/ ReviseRun(p)
           \/ Judge(p) \/ JudgedBefore(p) \/ Prepare(p)
  BY <1>1, <1>2
  DEF Refresh, ObserveWorld, Recover, Replanned, ReviseRun, Judge, JudgedBefore, Prepare,
      Goes, Records, Move, At, MayWait
<1>3. CASE Leave(p)
  BY <1>3, RestWaits DEF Leave
<1>4. f.pc \in {"terminate", "stop", "tick"} => f.next \in {"ran", "leave"}
  BY <1>1 DEF MayWait
<1>5. CASE Terminate(p) \/ Stop(p)
  <2>1. /\ \/ \E r : Move(p, "terminate", [To(p, "stop") EXCEPT !.reason = r])
           \/ Move(p, "stop", To(p, "tick"))
        /\ UNCHANGED <<book, session>>
    BY <1>5 DEF Terminate, Stop, Goes
  <2>2. f.next \in {"ran", "leave"}
    BY <1>1, <1>4, <2>1 DEF Move, At
  <2>3. MayWait(To(p, "tick")) /\ \A r : MayWait([To(p, "stop") EXCEPT !.reason = r])
    BY <1>1, <2>2 DEF To, MayWait, Frame, Places
  <2>. QED
    BY <2>1, <2>3, GoesWaits
<1>6. CASE TickRun(p)
  <2>1. Move(p, "tick", To(p, driver[p].next)) /\ UNCHANGED <<book, session>>
    BY <1>6 DEF TickRun, Goes
  <2>2. driver[p].next \in WaitingPlaces
    BY <1>1, <1>4, <2>1 DEF Move, At, WaitingPlaces
  <2>. QED
    BY <2>1, <2>2, WaitsAt, GoesWaits
<1>. QED
  BY <1>2, <1>3, <1>5, <1>6

\* The outbox, and what has been bound.
LEMMA ContinuesWait ==
  ASSUME Driven, Attended, Pending(Run) # {}, Shrinks, NEW p \in Procs,
         Deliver(p) \/ ContinueExecution(p) \/ Resumed(p)
  PROVE  Attended'
<1>1. PICK f \in Frame :
        /\ f = driver[p] /\ Fits(f) /\ Guided(f)
        /\ f.claims => MayWait(f)
        /\ f.pc \notin {"rest", "leave", "terminate", "stop", "tick"} => f.claims
  BY WaitingFrame
<1>2. CASE Deliver(p)
  <2>1. f.pc = "deliver"
    BY <1>1, <1>2 DEF Deliver, Goes, Move, At
  <2>2. Has("result", book.feedback.call)
    BY <1>1, <2>1, WaitingBook DEF Fits, LooksAfter
  <2>3. PICK g : /\ g = [Running(p, Nothing) EXCEPT !.delivering = book.feedback.call]
                 /\ Goes(p, "deliver", g)
    BY <1>2, <2>2 DEF Deliver
  <2>4. g.pc = "prompt" /\ g.message = Nothing
    BY <1>1, <2>3 DEF Running, To, Frame
  <2>. QED
    BY <2>3, <2>4, GoesWaits DEF MayWait, Goes
<1>3. CASE ContinueExecution(p)
  <2>1. ~(book.binding.act # None /\ BoundEnded(book.binding.act))
    BY WaitingBook DEF BoundEnded
  <2>2. Goes(p, "continue", AtRest) \/ Goes(p, "continue", To(p, "deliver"))
    BY <1>3, <2>1 DEF ContinueExecution
  <2>3. ~AtRest.claims /\ MayWait(To(p, "deliver"))
    BY WaitsAt DEF AtRest, WaitingPlaces
  <2>. QED
    BY <2>2, <2>3, GoesWaits DEF Goes
<1>4. CASE Resumed(p)
  <2>1. \/ Rest(p, "resumed")
        \/ Goes(p, "resumed", To(p, "deliver")) \/ Goes(p, "resumed", To(p, "continue"))
        \/ Tells(p, "resumed", Receipt(book.binding.call, book.binding.act), To(p, "continue"))
    BY <1>4, WaitingBook DEF Resumed
  <2>2. MayWait(To(p, "deliver")) /\ MayWait(To(p, "continue"))
    BY WaitsAt DEF WaitingPlaces
  <2>3. Receipt(book.binding.call, book.binding.act).kind = "receipt"
    BY DEF Receipt
  <2>4. CASE Tells(p, "resumed", Receipt(book.binding.call, book.binding.act), To(p, "continue"))
    BY <2>2, <2>3, <2>4, WaitsOn DEF Tells, Move
  <2>. QED
    BY <2>1, <2>2, <2>4, RestWaits, GoesWaits DEF Goes
<1>. QED
  BY <1>2, <1>3, <1>4

\* Methods begin, and processes die.
LEMMA BeginWaits ==
  ASSUME Driven, Attended, Pending(Run) # {}, Shrinks, NEW p \in Procs, Begin(p) \/ Die(p)
  PROVE  Attended'
<1>1. CASE Start(p)
  BY <1>1, WaitingBook DEF Start
<1>2. CASE ReceiveFeedback(p) \/ Resume(p)
  <2>1. PICK pc \in {"continue", "resumed"} :
          Move(p, "rest", [To(p, pc) EXCEPT !.claims = TRUE]) /\ UNCHANGED <<book, session>>
    BY <1>2 DEF ReceiveFeedback, Resume, Claim
  <2>. QED
    BY <2>1, WaitsAt, GoesWaits DEF WaitingPlaces
<1>3. CASE Cancel(p) \/ CancelMock(p)
  <2>1. PICK g : ~g.claims /\ Goes(p, "rest", g)
    BY <1>3 DEF Cancel, CancelMock, AtRest
  <2>. QED
    BY <2>1, GoesWaits DEF Goes
<1>4. CASE Die(p)
  <2>1. driver' = [driver EXCEPT ![p] = AtRest] /\ UNCHANGED <<book, session>>
    BY <1>4 DEF Die
  <2>. QED
    BY <2>1, WaitsOn DEF AtRest
<1>. QED
  BY <1>1, <1>2, <1>3, <1>4 DEF Begin

LEMMA OthersWait ==
  ASSUME Driven, Attended, Pending(Run) # {}, Shrinks, UNCHANGED driving
  PROVE  Attended'
<1>1. OneUnderWay' /\ SessionWaits' /\ OutboxFirst'
  BY WaitingBook
  DEF driving, Attended, OneUnderWay, Shrinks, SessionWaits, OutboxFirst, LastKind, Known, CallId, Has
<1>2. \A q \in Procs : driver'[q].claims => MayWait(driver[q])'
  BY DEF driving, Attended, MayWait
<1>. QED
  BY <1>1, <1>2 DEF Attended

\* An action is proposed when nothing else is under way.
LEMMA ProposesAlone ==
  ASSUME Driven, Attended, NEW p \in Procs, Propose(p)
  PROVE  Attended'
<1>1. Pending(Run) = {}
  BY WaitingBook DEF Propose
<1>2. PICK f \in Frame :
        /\ f = driver[p] /\ f.pc = "tool" /\ f.claims /\ f.running /\ session # <<>>
        /\ book.feedback # Nothing => Has("result", book.feedback.call)
  <2>1. PICK f \in Frame : /\ f = driver[p] /\ Fits(f)
                           /\ f.pc \notin {"rest", "leave", "terminate", "stop", "tick"} => f.claims
    BY MidCall
  <2>2. f.pc = "tool"
    BY <2>1 DEF Propose, At
  <2>3. f.claims /\ f.running
    BY <2>1, <2>2 DEF Fits, Guided, InRun
  <2>. QED
    BY <2>1, <2>2, <2>3 DEF Fits, DeliversFirst, Leaving
<1>3. CASE UNCHANGED vars
  <2>1. OneUnderWay' /\ SessionWaits' /\ OutboxFirst' /\ Pending(Run)' = {}
    BY <1>1, <1>3 DEF vars, Pending, ActionsOf, OneUnderWay, SessionWaits, OutboxFirst
  <2>. QED
    BY <2>1 DEF Attended
<1>4. ASSUME NEW a \in Actions, AppendActions(Run, <<a>>),
             book' = [book EXCEPT !.binding = [call |-> CallId, act |-> a]],
             Move(p, "tool", To(p, "dispatch")), UNCHANGED session
      PROVE  Attended'
  <2>1. book'.binding = [call |-> CallId, act |-> a] /\ book'.feedback = book.feedback
    BY <1>4, DrivenTyped DEF Book
  <2>2. OneUnderWay'
    <3>1. \A b \in Actions : b # a => action'[b] = action[b]
      BY <1>4, AppendOne
    <3>. QED
      BY <1>1, <2>1, <3>1 DEF OneUnderWay, Pending, ActionsOf
  <2>3. SessionWaits'
    BY <1>2, <1>4, <2>1 DEF SessionWaits, LastKind, Known, CallId, Propose
  <2>4. OutboxFirst'
    BY <1>2, <1>4, <2>1 DEF OutboxFirst, Has
  <2>5. ASSUME NEW q \in Procs, driver'[q].claims
        PROVE  MayWait(driver[q])'
    <3>1. driver' = [driver EXCEPT ![p] = To(p, "dispatch")]
      BY <1>4 DEF Move
    <3>2. q = p
      BY <1>2, <2>5, <3>1, DrivenTyped DEF Driven, Exclusive
    <3>3. driver'[q] = To(p, "dispatch")
      BY <3>1, <3>2, DrivenTyped
    <3>. QED
      BY <3>3, WaitsAt DEF WaitingPlaces, MayWait
  <2>. QED
    BY <2>2, <2>3, <2>4, <2>5 DEF Attended
<1>. QED
  BY <1>3, <1>4 DEF Propose, Records

-----------------------------------------------------------------------------
(* Attended is inductive.                                                  *)

LEMMA DriveWaits ==
  ASSUME Driven, Attended, Pending(Run) # {}, Shrinks, NEW p \in Procs, Drive(p)
  PROVE  Attended'
  BY TurnWaits, RunWaits, LooksWait, ContinuesWait DEF Drive

LEMMA AttendedStep ==
  ASSUME Serial, Driven, Attended, [RuntimeNext]_allvars
  PROVE  Attended'
<1>1. CASE \E p \in Procs : Propose(p)
  BY <1>1, ProposesAlone
<1>2. CASE ~\E p \in Procs : Propose(p)
  <2>1. Shrinks
    BY <1>2, PendingShrinks
  <2>2. CASE Pending(Run) = {}
    BY <2>1, <2>2 DEF Shrinks, Attended, OneUnderWay, SessionWaits, OutboxFirst
  <2>3. CASE Pending(Run) # {}
    <3>1. CASE UNCHANGED driving
      BY <2>1, <2>3, <3>1, OthersWait
    <3>2. ASSUME NEW p \in Procs, Begin(p) \/ Drive(p) \/ Die(p)
          PROVE  Attended'
      BY <2>1, <2>3, <3>2, BeginWaits, DriveWaits
    <3>. QED
      BY <3>1, <3>2 DEF RuntimeNext, allvars
  <2>. QED
    BY <2>2, <2>3
<1>. QED
  BY <1>1, <1>2

LEMMA InitAttended ==
  ASSUME DriverInit
  PROVE  Attended
<1>1. action = [a \in Actions |-> NewAction(None, 0, 0)]
  BY DEF DriverInit, Init
<1>2. ASSUME NEW a \in Actions
      PROVE  a \notin ActionsOf(Run)
  <2>1. action[a].run_id = None
    BY <1>1, NewActionQueued
  <2>. QED
    BY <2>1, ConstantFacts, DriverFacts DEF ActionsOf
<1>3. Pending(Run) = {}
  BY <1>2 DEF Pending, ActionsOf
<1>. QED
  BY <1>3, NothingToWaitFor

\* Attended is inductive on top of Serial and Driven.
THEOREM AttendedInvariant == RuntimeSpec => [](Serial /\ Driven /\ Attended)
<1>1. DriverInit => Serial /\ Driven /\ Attended
  BY InitDriven, InitAttended
<1>2. Serial /\ Driven /\ Attended /\ [RuntimeNext]_allvars => (Serial /\ Driven /\ Attended)'
  BY DrivenStep, SerialStep, AttendedStep
<1>. QED
  BY <1>1, <1>2, PTL DEF RuntimeSpec

\* One action at a time: whoever died between proposing an action, sending it,
\* and telling its end, a run waits for nothing but the action it is bound to,
\* and the next one is proposed when that has ended (bridge.py 20-48, runtime.py
\* 296-345).
THEOREM OneAtATime == RuntimeSpec => []OneUnderWay
<1>1. Attended => OneUnderWay
  BY DEF Attended
<1>. QED
  BY <1>1, AttendedInvariant, PTL

\* What may move is active, so pending, and for that a driver waits before it
\* considers anything: before it asks the model, observes, judges or revises
\* (runtime.py 100-108, 141-171, 264-278, 387-402).
THEOREM RobotStandsStill == RuntimeSpec => []StandsStill
<1>1. ASSUME NoOrphan, Driven, Attended
      PROVE  StandsStill
  <2>. SUFFICES ASSUME NEW p \in Procs, Considers(p), NEW a \in ActionsOf(Run), MayMove(a)
                PROVE  FALSE
    BY DEF StandsStill
  <2>1. a \in Pending(Run)
    BY <1>1 DEF NoOrphan, Active, Pending, ActionsOf
  <2>2. MayWait(driver[p])
    BY <1>1, <2>1 DEF Attended, Considers
  <2>. QED
    BY <2>2 DEF MayWait, Considers
<1>. QED
  BY <1>1, AttendedInvariant, RuntimeImplements, NothingOrphaned, PTL

-----------------------------------------------------------------------------
(* Frames keep faith: see Faithful.                                        *)

AllFaithful == \A p \in Procs : Faithful(driver[p])

LEMMA MoveFaithful ==
  ASSUME Driven, AllFaithful, NEW p \in Procs, NEW g, driver' = [driver EXCEPT ![p] = g],
         g.running /\ book'.feedback # Nothing => g.delivering = book'.feedback.call,
         ~g.claims /\ g.pc \in {"terminate", "stop"} => g.reason \in ForGood,
         book'.feedback = book.feedback \/ driver[p].claims
  PROVE  AllFaithful'
<1>. SUFFICES ASSUME NEW q \in Procs PROVE Faithful(driver[q])'
  BY DEF AllFaithful
<1>1. CASE q = p
  <2>1. driver'[q] = g
    BY <1>1, DrivenTyped
  <2>. QED
    BY <2>1 DEF Faithful
<1>2. CASE q # p
  <2>1. driver'[q] = driver[q]
    BY <1>2, DrivenTyped
  <2>2. book'.feedback = book.feedback \/ ~driver[q].running
    BY <1>2 DEF Driven, Exclusive, Fits, Operates
  <2>. QED
    BY <2>1, <2>2 DEF AllFaithful, Faithful
<1>. QED
  BY <1>1, <1>2

\* Frames that only carry on.
Kept(p, g) ==
  \/ g = AtRest
  \/ g = Raised(p)
  \/ \E pc : \/ g = To(p, pc)
             \/ \E b : g = [To(p, pc) EXCEPT !.paused = b]
             \/ \E b : g = [To(p, pc) EXCEPT !.answering = b]
             \/ \E b, c : g = [To(p, pc) EXCEPT !.paused = b, !.answering = c]
             \/ \E m : g = [To(p, pc) EXCEPT !.message = m]
             \/ \E m, b, c : g = [To(p, pc) EXCEPT !.message = m, !.paused = b, !.answering = c]
             \/ \E n : g = [To(p, pc) EXCEPT !.next = n]
             \/ \E r, n : g = [To(p, pc) EXCEPT !.reason = r, !.next = n]
             \/ \E n, a : g = [To(p, pc) EXCEPT !.next = n, !.act = a]

LEMMA KeptFrame ==
  ASSUME Driven, NEW p \in Procs, NEW g, Kept(p, g)
  PROVE  \/ g.claims = FALSE /\ g.running = FALSE /\ g.pc = "rest"
         \/ /\ g.claims = driver[p].claims
            /\ g.running = driver[p].running /\ g.delivering = driver[p].delivering
<1>1. PICK f \in Frame : f = driver[p]
  BY DrivenTyped
<1>2. CASE g = AtRest
  BY <1>2 DEF AtRest
<1>3. CASE g = Raised(p)
  BY <1>1, <1>3 DEF Raised, Frame
<1>4. ASSUME NEW pc,
             \/ g = To(p, pc)
             \/ \E b : g = [To(p, pc) EXCEPT !.paused = b]
             \/ \E b : g = [To(p, pc) EXCEPT !.answering = b]
             \/ \E b, c : g = [To(p, pc) EXCEPT !.paused = b, !.answering = c]
             \/ \E m : g = [To(p, pc) EXCEPT !.message = m]
             \/ \E m, b, c : g = [To(p, pc) EXCEPT !.message = m, !.paused = b, !.answering = c]
             \/ \E n : g = [To(p, pc) EXCEPT !.next = n]
             \/ \E r, n : g = [To(p, pc) EXCEPT !.reason = r, !.next = n]
             \/ \E n, a : g = [To(p, pc) EXCEPT !.next = n, !.act = a]
      PROVE  g.claims = f.claims /\ g.running = f.running /\ g.delivering = f.delivering
  <2>0. To(p, pc) = [f EXCEPT !.pc = pc]
    BY <1>1 DEF To
  <2>1. CASE \/ \E b : g = [To(p, pc) EXCEPT !.paused = b]
             \/ \E b : g = [To(p, pc) EXCEPT !.answering = b]
             \/ \E b, c : g = [To(p, pc) EXCEPT !.paused = b, !.answering = c]
    BY <2>0, <2>1 DEF Frame
  <2>2. CASE \E m : g = [To(p, pc) EXCEPT !.message = m]
    BY <2>0, <2>2 DEF Frame
  <2>3. CASE \E m, b, c : g = [To(p, pc) EXCEPT !.message = m, !.paused = b, !.answering = c]
    BY <2>0, <2>3 DEF Frame
  <2>4. CASE \E n : g = [To(p, pc) EXCEPT !.next = n]
    BY <2>0, <2>4 DEF Frame
  <2>5. CASE \E r, n : g = [To(p, pc) EXCEPT !.reason = r, !.next = n]
    BY <2>0, <2>5 DEF Frame
  <2>6. CASE \E n, a : g = [To(p, pc) EXCEPT !.next = n, !.act = a]
    BY <2>0, <2>6 DEF Frame
  <2>7. CASE g = To(p, pc)
    BY <2>0, <2>7 DEF Frame
  <2>. QED
    BY <1>4, <2>1, <2>2, <2>3, <2>4, <2>5, <2>6, <2>7
<1>. QED
  BY <1>1, <1>2, <1>3, <1>4 DEF Kept

\* A driver that carries on.
LEMMA KeptFaithful ==
  ASSUME Driven, AllFaithful, NEW p \in Procs, driver[p].claims, NEW g,
         driver' = [driver EXCEPT ![p] = g], Kept(p, g), book'.feedback = book.feedback
  PROVE  AllFaithful'
<1>1. \/ g.claims = FALSE /\ g.running = FALSE /\ g.pc = "rest"
      \/ /\ g.claims = driver[p].claims
         /\ g.running = driver[p].running /\ g.delivering = driver[p].delivering
  BY KeptFrame
<1>. QED
  BY <1>1, MoveFaithful DEF AllFaithful, Faithful

LEMMA GoesFaithful ==
  ASSUME Driven, AllFaithful, NEW p \in Procs, driver[p].claims, NEW pc, NEW g,
         Move(p, pc, g), book'.feedback = book.feedback, Kept(p, g)
  PROVE  AllFaithful'
  BY KeptFaithful DEF Move

\* Who is here has the claim.
LEMMA Claims ==
  ASSUME Driven, NEW p \in Procs, driver[p].pc \notin {"rest", "leave", "terminate", "stop", "tick"}
  PROVE  driver[p].claims
  BY MidCall

LEMMA TurnFaithful ==
  ASSUME Driven, AllFaithful, NEW p \in Procs, Turn(p)
  PROVE  AllFaithful'
<1>1. ASSUME NEW pc, At(p, pc), pc \notin {"rest", "leave", "terminate", "stop", "tick"}
      PROVE  driver[p].claims
  BY <1>1, Claims DEF At
<1>2. \A b, binding : b = [book EXCEPT !.binding = binding] => b.feedback = book.feedback
  BY DrivenTyped DEF Book
<1>3. \A b : b = [book EXCEPT !.model_calls = @ + 1] => b.feedback = book.feedback
  BY DrivenTyped DEF Book
<1>4. \A b : b = [book EXCEPT !.api_retries = @ + 1] => b.feedback = book.feedback
  BY DrivenTyped DEF Book
<1>5. CASE Prompt(p) \/ ResumeTurn(p) \/ Repeated(p) \/ Receive(p)
  BY <1>1, <1>5, GoesFaithful
  DEF Prompt, ResumeTurn, Repeated, Receive, Tells, Goes, Rest, Move, Kept
<1>6. CASE TakeModelCall(p) \/ ModelFails(p) \/ ModelBreaksOff(p)
  BY <1>1, <1>3, <1>4, <1>6, GoesFaithful
  DEF TakeModelCall, ModelFails, ModelBreaksOff, Records, Goes, Move, Kept
<1>7. CASE ModelAnswers(p)
  BY <1>1, <1>7, GoesFaithful DEF ModelAnswers, Tells, Goes, Move, Kept
<1>8. CASE Propose(p)
  BY <1>1, <1>2, <1>8, GoesFaithful DEF Propose, Records, Move, Kept
<1>9. CASE DispatchNext(p)
  BY <1>1, <1>9, GoesFaithful DEF DispatchNext, Goes, Move, Kept
<1>10. CASE FinishTask(p) \/ VerifyFinal(p)
  BY <1>1, <1>10, GoesFaithful DEF FinishTask, VerifyFinal, Goes, Move, Kept
<1>11. CASE Conclude(p) \/ Respond(p) \/ ObserveTool(p)
  BY <1>1, <1>11, GoesFaithful DEF Conclude, Respond, ObserveTool, Tells, Goes, Move, Kept
<1>. QED
  BY <1>5, <1>6, <1>7, <1>8, <1>9, <1>10, <1>11 DEF Turn

\* What looks, recovers and judges has the claim.
LEMMA LooksFaithful ==
  ASSUME Driven, AllFaithful, NEW p \in Procs,
         \/ Refresh(p) \/ ObserveWorld(p) \/ Recover(p) \/ Replanned(p) \/ ReviseRun(p)
         \/ RunLoop(p) \/ Returned(p) \/ Invalid(p) \/ Reply(p)
         \/ ContinueExecution(p) \/ Judge(p) \/ JudgedBefore(p)
  PROVE  AllFaithful'
<1>1. ASSUME NEW pc, At(p, pc), pc \notin {"rest", "leave", "terminate", "stop", "tick"}
      PROVE  driver[p].claims
  BY <1>1, Claims DEF At
<1>2. CASE Refresh(p)
  <2>1. \A b : b = [book EXCEPT !.observation_count = @ + 1] => b.feedback = book.feedback
    BY DrivenTyped DEF Book
  <2>. QED
    BY <1>1, <1>2, <2>1, GoesFaithful DEF Refresh, Goes, Records, Move, Kept
<1>3. CASE ObserveWorld(p) \/ Replanned(p) \/ ReviseRun(p) \/ RunLoop(p)
  BY <1>1, <1>3, GoesFaithful DEF ObserveWorld, Replanned, ReviseRun, RunLoop, Goes, Move, Kept
<1>4. CASE Recover(p)
  <2>1. \A b : b = [book EXCEPT !.replans = @ + 1] => b.feedback = book.feedback
    BY DrivenTyped DEF Book
  <2>. QED
    BY <1>1, <1>4, <2>1, GoesFaithful DEF Recover, Goes, Records, Move, Kept
<1>5. CASE Returned(p)
  BY <1>1, <1>5, GoesFaithful DEF Returned, Goes, Move, Kept
<1>6. CASE Invalid(p)
  <2>1. \A b : b = [book EXCEPT !.invalid_proposals = @ + 1] => b.feedback = book.feedback
    BY DrivenTyped DEF Book
  <2>. QED
    BY <1>1, <1>6, <2>1, GoesFaithful DEF Invalid, Records, Move, Kept
<1>7. CASE Reply(p)
  <2>1. \A b, binding : b = [book EXCEPT !.binding = binding] => b.feedback = book.feedback
    BY DrivenTyped DEF Book
  <2>. QED
    BY <1>1, <1>7, <2>1, GoesFaithful DEF Reply, Records, Move, Kept
<1>8. CASE ContinueExecution(p)
  BY <1>1, <1>8, GoesFaithful DEF ContinueExecution, Goes, Move, Kept
<1>9. CASE Judge(p) \/ JudgedBefore(p)
  <2>1. \A b, verdicts : b = [book EXCEPT !.verdict = verdicts] => b.feedback = book.feedback
    BY DrivenTyped DEF Book
  <2>. QED
    BY <1>1, <1>9, <2>1, GoesFaithful DEF Judge, JudgedBefore, Judged, Goes, Move, Kept
<1>. QED
  BY <1>2, <1>3, <1>4, <1>5, <1>6, <1>7, <1>8, <1>9

\* Operators stop for good, and drivers for the reason they are given.
LEMMA StopsFaithful ==
  ASSUME Driven, AllFaithful, NEW p \in Procs,
         Terminate(p) \/ Stop(p) \/ TickRun(p) \/ TimeOut(p) \/ Leave(p)
  PROVE  AllFaithful'
<1>1. PICK f \in Frame : f = driver[p] /\ Faithful(f)
  BY DrivenTyped DEF AllFaithful
<1>2. CASE Terminate(p)
  <2>0. To(p, "stop").reason = f.reason
    BY <1>1, ToTyped DEF Places
  <2>1. PICK r : /\ r \in {"cancel", "timeout"} \/ r = f.reason
                 /\ Goes(p, "terminate", [To(p, "stop") EXCEPT !.reason = r])
    BY <1>2, <2>0 DEF Terminate
  <2>2. PICK g : /\ g = [f EXCEPT !.pc = "stop", !.reason = r]
                 /\ driver' = [driver EXCEPT ![p] = g] /\ book' = book /\ f.pc = "terminate"
    BY <1>1, <2>1 DEF To, Goes, Move, At, Frame
  <2>3. /\ g.running = f.running /\ g.delivering = f.delivering
        /\ g.claims = f.claims /\ g.reason = r
    BY <2>2 DEF Frame
  <2>4. ~g.claims => g.reason \in ForGood
    BY <1>1, <2>1, <2>2, <2>3 DEF Faithful, ForGood
  <2>5. g.running /\ book'.feedback # Nothing => g.delivering = book'.feedback.call
    BY <1>1, <2>2, <2>3 DEF Faithful
  <2>. QED
    BY <2>2, <2>4, <2>5, MoveFaithful
<1>3. CASE Stop(p) \/ TickRun(p)
  <2>1. PICK g, pc : /\ g = [f EXCEPT !.pc = pc]
                     /\ driver' = [driver EXCEPT ![p] = g] /\ book' = book
                     /\ pc \in {"tick", f.next} /\ f.pc \in {"stop", "tick"}
                     /\ pc = "tick" \/ f.pc = "tick"
    BY <1>1, <1>3 DEF Stop, TickRun, Goes, Move, At, To
  <2>2. /\ g.running = f.running /\ g.delivering = f.delivering
        /\ g.claims = f.claims /\ g.pc = pc
    BY <2>1 DEF Frame
  <2>3. ~f.claims /\ f.pc = "tick" => f.next = "leave"
    BY <1>1 DEF Driven, Fits, Operates
  <2>4. ~g.claims => g.pc \notin {"terminate", "stop"}
    BY <2>1, <2>2, <2>3
  <2>5. g.running /\ book'.feedback # Nothing => g.delivering = book'.feedback.call
    BY <1>1, <2>1, <2>2 DEF Faithful
  <2>. QED
    BY <2>1, <2>4, <2>5, MoveFaithful
<1>4. CASE TimeOut(p)
  <2>1. driver[p].claims
    BY <1>4, MidCall DEF TimeOut, InTurn
  <2>. QED
    BY <1>4, <2>1, KeptFaithful DEF TimeOut, Kept
<1>5. CASE Leave(p)
  BY <1>5, MoveFaithful DEF Leave, Rest, Move, AtRest
<1>. QED
  BY <1>2, <1>3, <1>4, <1>5

\* The outbox is handed to _run, and cleared when it returns.
LEMMA OutboxFaithful ==
  ASSUME Driven, AllFaithful, NEW p \in Procs, Deliver(p) \/ Ran(p) \/ Prepare(p) \/ Resumed(p)
  PROVE  AllFaithful'
<1>1. PICK f \in Frame : f = driver[p] /\ Faithful(f) /\ Fits(f)
  BY DrivenTyped DEF AllFaithful, Driven
<1>2. f.claims /\ (f.pc \in {"deliver", "prepare", "resumed"} => ~f.running)
  <2>1. f.pc \in {"deliver", "ran", "prepare", "resumed"}
    BY <1>1 DEF Deliver, Ran, Prepare, Resumed, Goes, Records, Rest, Move, At, Tells
  <2>. QED
    BY <1>1, <2>1, Claims DEF Fits, Guided, OutOfRun
<1>3. CASE Deliver(p)
  <2>1. PICK m, g : /\ g = [[f EXCEPT !.pc = "prompt", !.running = TRUE, !.message = m]
                              EXCEPT !.delivering = book.feedback.call]
                    /\ driver' = [driver EXCEPT ![p] = g] /\ book' = book
    BY <1>1, <1>3 DEF Deliver, Running, To, Goes, Move
  <2>2. g.delivering = book.feedback.call /\ g.claims
    BY <1>2, <2>1 DEF Frame
  <2>. QED
    BY <2>1, <2>2, MoveFaithful
<1>4. CASE Ran(p)
  <2>1. PICK g : /\ g = AtRest \/ g = [AtRest EXCEPT !.pc = "continue", !.claims = TRUE]
                 /\ driver' = [driver EXCEPT ![p] = g]
    BY <1>4 DEF Ran, Records, Move
  <2>2. ~g.running /\ g.pc \in {"rest", "continue"}
    <3>1. g = AtRest => ~g.running /\ g.pc = "rest"
      BY DEF AtRest
    <3>2. g = [AtRest EXCEPT !.pc = "continue", !.claims = TRUE] => ~g.running /\ g.pc = "continue"
      BY DEF AtRest
    <3>. QED
      BY <2>1, <3>1, <3>2
  <2>. QED
    BY <1>1, <1>2, <2>1, <2>2, MoveFaithful
<1>5. CASE Prepare(p)
  <2>1. PICK g : /\ g = [f EXCEPT !.pc = "deliver"] /\ driver' = [driver EXCEPT ![p] = g]
                 /\ f.pc = "prepare"
    BY <1>1, <1>5 DEF Prepare, Records, Move, At, To
  <2>2. g.claims /\ ~g.running
    BY <1>2, <2>1 DEF Frame
  <2>. QED
    BY <1>1, <1>2, <2>1, <2>2, MoveFaithful
<1>6. CASE Resumed(p)
  <2>1. CASE Rest(p, "resumed")
    BY <2>1, MoveFaithful DEF Rest, Move, AtRest
  <2>2. CASE Goes(p, "resumed", To(p, "deliver"))
    BY <1>1, <1>2, <2>2, GoesFaithful DEF Goes, Kept
  <2>3. CASE \/ Goes(p, "resumed", To(p, "continue"))
             \/ Tells(p, "resumed", Receipt(book.binding.call, book.binding.act), To(p, "continue"))
    BY <1>1, <1>2, <2>3, GoesFaithful DEF Goes, Tells, Kept
  <2>4. ASSUME NEW m, Move(p, "resumed", Running(p, m)), book' = book, book.feedback = Nothing
        PROVE  AllFaithful'
    <3>1. PICK g : /\ g = [f EXCEPT !.pc = "prompt", !.running = TRUE, !.message = m]
                   /\ driver' = [driver EXCEPT ![p] = g]
      BY <1>1, <2>4 DEF Running, To, Move
    <3>2. g.claims
      BY <1>2, <3>1 DEF Frame
    <3>. QED
      BY <2>4, <3>1, <3>2, MoveFaithful
  <2>5. session = <<>> => book.feedback = Nothing
    BY DEF Driven, Accounts, OutboxOK
  <2>. QED
    BY <1>6, <2>1, <2>2, <2>3, <2>4, <2>5 DEF Resumed, Goes
<1>. QED
  BY <1>3, <1>4, <1>5, <1>6

LEMMA BeginFaithful ==
  ASSUME Driven, AllFaithful, NEW p \in Procs, Begin(p) \/ Die(p)
  PROVE  AllFaithful'
<1>1. PICK f \in Frame : f = driver[p] /\ Fits(f)
  BY DrivenTyped DEF Driven
<1>2. CASE Start(p)
  <2>1. book.feedback = Nothing
    BY <1>2 DEF Start, Driven, Accounts, OutboxOK
  <2>2. PICK m, g : /\ g = [[f EXCEPT !.pc = "prompt", !.running = TRUE, !.message = m]
                              EXCEPT !.claims = TRUE]
                    /\ driver' = [driver EXCEPT ![p] = g] /\ book' = book
    BY <1>1, <1>2 DEF Start, Claim, Move, Running, To
  <2>3. g.claims
    BY <2>2 DEF Frame
  <2>. QED
    BY <2>1, <2>2, <2>3, MoveFaithful
<1>3. CASE ReceiveFeedback(p) \/ Resume(p)
  <2>1. PICK pc, g : /\ g = [[f EXCEPT !.pc = pc] EXCEPT !.claims = TRUE]
                     /\ driver' = [driver EXCEPT ![p] = g] /\ book' = book /\ f.pc = "rest"
    BY <1>1, <1>3 DEF ReceiveFeedback, Resume, Claim, Move, At, To
  <2>2. g.claims /\ ~g.running
    BY <1>1, <2>1 DEF Frame, Fits, Guided, AtRest
  <2>. QED
    BY <2>1, <2>2, MoveFaithful
<1>4. CASE Cancel(p) \/ CancelMock(p)
  <2>1. PICK pc, g : /\ g = [AtRest EXCEPT !.pc = pc, !.reason = "cancel", !.next = "leave"]
                     /\ driver' = [driver EXCEPT ![p] = g] /\ book' = book
    BY <1>4 DEF Cancel, CancelMock, Goes, Move
  <2>2. ~g.running /\ g.reason = "cancel"
    BY <2>1 DEF AtRest
  <2>. QED
    BY <2>1, <2>2, MoveFaithful DEF ForGood
<1>5. CASE Die(p)
  BY <1>5, MoveFaithful DEF Die, AtRest
<1>. QED
  BY <1>2, <1>3, <1>4, <1>5 DEF Begin

LEMMA FaithfulStep ==
  ASSUME Driven, AllFaithful, [RuntimeNext]_allvars
  PROVE  AllFaithful'
<1>1. CASE UNCHANGED driving
  BY <1>1 DEF driving, AllFaithful, Faithful
<1>2. ASSUME NEW p \in Procs, Drive(p)
      PROVE  AllFaithful'
  BY <1>2, TurnFaithful, LooksFaithful, StopsFaithful, OutboxFaithful DEF Drive
<1>. QED
  BY <1>1, <1>2, BeginFaithful DEF RuntimeNext, allvars

-----------------------------------------------------------------------------
(* A run that was stopped for good stays so, and one that is over as well. *)

Stands == Halted => Halted' /\ (Over => Over')

LEMMA NothingStands ==
  ASSUME UNCHANGED state
  PROVE  Stands
  BY DEF Stands, Halted, Over

LEMMA StatusStands ==
  ASSUME Safe, NEW r \in Runs, NEW s,
         state' = [state EXCEPT ![r] = [state[r] EXCEPT !.status = s]],
         r = Run /\ Halted /\ Over => s \in FinalStatus
  PROVE  Stands
<1>1. CASE r = Run
  BY <1>1 DEF Stands, Halted, Over, Safe, TypeOK, TypeLedger, RunState
<1>2. CASE r # Run
  BY <1>2, DriverFacts DEF Stands, Halted, Over, Safe, TypeOK, TypeLedger
<1>. QED
  BY <1>1, <1>2

\* When a run is over its actions have ended.
LEMMA OverIsEnded ==
  ASSUME Serial, Over
  PROVE  /\ Pending(Run) = {}
         /\ \A a \in Actions : action[a].run_id = Run => action[a].status \in TERMINAL
  BY DriverFacts DEF Serial, Plan, FinalIsEnded, AllEnded, Over, Pending, ActionsOf

LEMMA UnknownStands ==
  ASSUME Serial, NEW r \in Runs, NEW a \in Actions, r = action[a].run_id, MarkUnknown(r, a)
  PROVE  Stands
<1>1. CASE action[a].status \in TERMINAL
  BY <1>1, NothingStands DEF MarkUnknown
<1>2. CASE action[a].status \notin TERMINAL
  <2>1. state' = [state EXCEPT ![r] = [state[r] EXCEPT !.status = "BLOCKED"]]
    BY <1>2 DEF MarkUnknown
  <2>. QED
    BY <1>2, <2>1, OverIsEnded, StatusStands DEF Serial
<1>. QED
  BY <1>1, <1>2

LEMMA SnapshotStands ==
  ASSUME Serial, NEW r \in Runs, NEW a \in Actions, NEW n, r = action[a].run_id,
         AcceptSnapshot(r, a, n)
  PROVE  Stands
<1>1. PICK s : /\ s = IF FoundAtWork(a, n) /\ state[r].status = "BLOCKED" THEN "EXECUTING"
                      ELSE state[r].status
  OBVIOUS
<1>2. state' = [state EXCEPT ![r] = [state[r] EXCEPT !.status = s]]
  BY <1>1 DEF AcceptSnapshot
<1>3. r = Run /\ Over => s \in FinalStatus
  BY <1>1 DEF Over, FinalStatus
<1>. QED
  BY <1>2, <1>3, StatusStands DEF Serial

LEMMA ApplyStands ==
  ASSUME Serial, NEW r \in Runs, NEW a \in Actions, NEW n, r = action[a].run_id, Apply(r, a, n)
  PROVE  Stands
<1>1. CASE state' = state
  BY <1>1, NothingStands
<1>2. CASE state' # state
  <2>1. PICK s : s = RunStatusReported(r, a, events[a][n])
    OBVIOUS
  <2>2. /\ News(a, n)
        /\ state' = [state EXCEPT ![r] = [state[r] EXCEPT !.status = s]]
    BY <1>2, <2>1 DEF Apply
  <2>3. ~(r = Run /\ Over)
    BY <2>2, OverIsEnded DEF News
  <2>. QED
    BY <2>2, <2>3, StatusStands DEF Serial
<1>. QED
  BY <1>1, <1>2

LEMMA FreezeStands ==
  ASSUME Serial, NEW r \in Runs, NEW reason \in ForGood, FreezePlan(r, reason)
  PROVE  Stands /\ (r = Run => Halted')
<1>1. state' = [state EXCEPT ![r] = [state[r] EXCEPT !.frozen = TRUE, !.stop_intent = reason]]
  BY DEF FreezePlan
<1>2. CASE r = Run
  BY <1>1, <1>2 DEF Stands, Halted, Over, Serial, Safe, TypeOK, TypeLedger, RunState
<1>3. CASE r # Run
  BY <1>1, <1>3, DriverFacts DEF Stands, Halted, Over, Serial, Safe, TypeOK, TypeLedger
<1>. QED
  BY <1>2, <1>3

\* A tick that finds nothing pending concludes a run that was stopped for good.
LEMMA ConcludeStands ==
  ASSUME Serial, NEW r \in Runs, ConcludeStop(r)
  PROVE  Stands /\ (r = Run /\ Halted /\ Pending(Run) = {} => Over')
<1>1. PICK s : s = IF StopExpired(r) # {} THEN "BLOCKED"
                   ELSE IF state[r].stop_intent # NoIntent /\ AllEnded(r)
                   THEN OutcomeOf(state[r].stop_intent)
                   ELSE state[r].status
  OBVIOUS
<1>2. state' = [state EXCEPT ![r] = [state[r] EXCEPT !.status = s]]
  BY <1>1 DEF ConcludeStop
<1>3. r = Run /\ Halted /\ Pending(Run) = {} => s \in FinalStatus
  <2>. SUFFICES ASSUME r = Run, Halted, Pending(Run) = {}
                PROVE  s \in FinalStatus
    OBVIOUS
  <2>1. StopExpired(r) = {} /\ AllEnded(r)
    BY DEF StopExpired, AllEnded
  <2>2. s = OutcomeOf(state[r].stop_intent)
    BY <1>1, <2>1 DEF Halted, ForGood, NoIntent
  <2>. QED
    BY <2>2 DEF Halted, ForGood, OutcomeOf, FinalStatus
<1>4. Stands
  BY <1>2, <1>3, OverIsEnded, StatusStands DEF Serial
<1>5. r = Run => state'[Run].status = s
  BY <1>2, DriverFacts DEF Serial, Safe, TypeOK, TypeLedger, RunState
<1>. QED
  BY <1>3, <1>4, <1>5 DEF Over

LEMMA StepStands ==
  ASSUME Serial, NEW p \in Procs, Step(p)
  PROVE  Stands
<1>1. PICK f \in ProcState : f = proc[p] /\ FrameOK(f)
  BY FrameOf DEF Serial
<1>2. CASE UNCHANGED ledger
  BY <1>2, NothingStands DEF ledger
<1>3. CASE Unknown(p)
  <2>1. MarkUnknown(f.run, f.act) /\ f.pc = "unknown"
    BY <1>1, <1>3 DEF Unknown, Goto
  <2>. QED
    BY <1>1, <2>1, UnknownStands DEF FrameOK
<1>4. CASE CancelUnsupported(p)
  <2>1. PICK a \in f.todo : MarkUnknown(f.run, a) /\ f.pc = "cancel"
    BY <1>1, <1>4 DEF CancelUnsupported, Goto
  <2>2. a \in Actions
    BY <1>1, <2>1 DEF ProcState
  <2>. QED
    BY <1>1, <2>1, <2>2, UnknownStands DEF FrameOK
<1>5. CASE AcceptAnswer(p)
  <2>1. AcceptSnapshot(f.run, f.act, f.snap) /\ f.pc = "accept"
    BY <1>1, <1>5 DEF AcceptAnswer, Goto
  <2>. QED
    BY <1>1, <2>1, SnapshotStands DEF FrameOK
<1>6. CASE ApplyAnswer(p)
  <2>1. Apply(f.run, f.act, f.snap) /\ f.pc = "apply"
    BY <1>1, <1>6 DEF ApplyAnswer, Goto
  <2>. QED
    BY <1>1, <2>1, ApplyStands DEF FrameOK
<1>7. CASE TickStop(p)
  <2>1. FreezePlan(f.run, "timeout") /\ f.pc = "tick_stop"
    BY <1>1, <1>7 DEF TickStop, Goto
  <2>. QED
    BY <1>1, <2>1, FreezeStands DEF FrameOK, ForGood
<1>8. CASE Settle(p)
  <2>1. ConcludeStop(f.run) /\ f.pc = "settle"
    BY <1>1, <1>8 DEF Settle, Goto
  <2>. QED
    BY <1>1, <2>1, ConcludeStands DEF FrameOK
<1>. QED
  BY <1>2, <1>3, <1>4, <1>5, <1>6, <1>7, <1>8
  DEF Step, SubmitAnswered, SubmitReplyLost, SubmitTimesOut, SubmitDisconnected,
      StopRead, CancelConfirmed, CancelAnswered, CancelFails, ReconcileRead, LookupAnswered,
      LookupFails

\* The tick that concludes the run goes on to its end.
LEMMA ConcludingGoesOn ==
  ASSUME Serial, Shrinks, NEW p \in Procs, Step(p), Halted, Concluding(proc[p])
  PROVE  Concluding(proc[p])' \/ Over'
<1>1. PICK f \in ProcState : f = proc[p] /\ FrameOK(f)
  BY FrameOf DEF Serial
<1>2. /\ f.pc \in {"reconcile", "settle"} /\ f.ticking /\ f.run = Run
      /\ Pending(Run) = {} /\ Pending(Run)' = {}
  BY <1>1 DEF Concluding, Shrinks
<1>3. CASE ReconcileRead(p)
  <2>1. ActiveOf(f.run) = {}
    BY <1>2 DEF ActiveOf, Active, Pending
  <2>2. proc' = [proc EXCEPT ![p] = Continue([f EXCEPT !.loop = "lookup", !.todo = {}])]
    BY <1>1, <1>3, <2>1 DEF ReconcileRead, Goto
  <2>3. PICK h : h = [f EXCEPT !.loop = "lookup", !.todo = {}]
    OBVIOUS
  <2>4. h \in ProcState /\ h.loop = "lookup" /\ h.todo = {} /\ h.ticking /\ h.run = Run
    BY <1>2, <2>3 DEF ProcState
  <2>5. Continue(h) = [h EXCEPT !.pc = "settle", !.act = None, !.snap = 0]
    BY <2>4 DEF Continue
  <2>6. Continue(h).pc = "settle" /\ Continue(h).ticking /\ Continue(h).run = Run
    BY <2>4, <2>5 DEF ProcState
  <2>7. proc'[p] = Continue(h)
    BY <2>2, <2>3 DEF Serial, Safe, TypeOK
  <2>. QED
    BY <1>2, <2>6, <2>7 DEF Concluding
<1>4. CASE Settle(p)
  <2>1. ConcludeStop(Run)
    BY <1>1, <1>2, <1>4 DEF Settle
  <2>. QED
    BY <1>2, <2>1, DriverFacts, ConcludeStands
<1>. QED
  BY <1>1, <1>2, <1>3, <1>4
  DEF Step, SubmitAnswered, SubmitReplyLost, SubmitTimesOut, SubmitDisconnected, Unknown,
      AcceptAnswer, ApplyAnswer, StopRead, CancelUnsupported, CancelConfirmed, CancelAnswered,
      CancelFails, LookupAnswered, LookupFails, TickStop, Goto

-----------------------------------------------------------------------------
(* After the last invalid decision.                                        *)

\* Who stops, returns or begins does nothing else.
LEMMA WhoMoves ==
  ASSUME NEW p \in Procs, Drive(p), ~InTurn(driver[p]),
         driver[p].pc \in {"rest", "leave", "terminate", "stop", "tick", "ran", "continue", "resumed"}
  PROVE  \/ driver[p].pc = "terminate" /\ Terminate(p)
         \/ driver[p].pc = "stop" /\ Stop(p)
         \/ driver[p].pc = "tick" /\ TickRun(p)
         \/ driver[p].pc = "leave" /\ Leave(p)
         \/ driver[p].pc = "ran" /\ Ran(p)
         \/ driver[p].pc = "continue" /\ ContinueExecution(p)
         \/ driver[p].pc = "resumed" /\ Resumed(p)
<1>1. ~Turn(p)
  BY DEF Turn, Prompt, ResumeTurn, TakeModelCall, ModelFails, ModelAnswers, ModelBreaksOff, Propose,
         Repeated, DispatchNext, Receive, FinishTask, VerifyFinal, Conclude, Respond, ObserveTool,
         Goes, Rest, Tells, Records, Move, At
<1>2. /\ ~Refresh(p) /\ ~ObserveWorld(p) /\ ~Recover(p) /\ ~Replanned(p) /\ ~ReviseRun(p)
      /\ ~RunLoop(p) /\ ~TimeOut(p) /\ ~Returned(p) /\ ~Invalid(p) /\ ~Reply(p)
      /\ ~Deliver(p) /\ ~Judge(p) /\ ~JudgedBefore(p) /\ ~Prepare(p)
  BY DEF Refresh, ObserveWorld, Recover, Replanned, ReviseRun, RunLoop, TimeOut, Returned,
         Invalid, Reply, Deliver, Judge, JudgedBefore, Prepare, Goes, Records, Move, At
<1>. QED
  BY <1>1, <1>2
  DEF Drive, Terminate, Stop, TickRun, Leave, Ran, ContinueExecution, Resumed,
      Goes, Rest, Tells, Records, Move, At

\* An operator stops the run for good, and leaves everything else to drivers.
LEMMA OperatorMoves ==
  ASSUME Serial, Driven, AllFaithful, NEW p \in Procs, ~driver[p].claims, Drive(p)
  PROVE  /\ Stands /\ UNCHANGED <<book, session>>
         /\ \A q \in Procs \ {p} : proc'[q] = proc[q]
         /\ \E g : ~g.claims /\ driver' = [driver EXCEPT ![p] = g]
<1>1. PICK f \in Frame : f = driver[p] /\ Fits(f) /\ Faithful(f)
  BY DrivenTyped DEF AllFaithful, Driven
<1>2. /\ ~f.running /\ f.pc \in {"rest", "leave", "terminate", "stop", "tick"}
      /\ f.pc \in {"terminate", "stop"} => f.reason \in ForGood
  BY <1>1 DEF Fits, Operates, Faithful
<1>3. Terminate(p) \/ Stop(p) \/ TickRun(p) \/ Leave(p)
  BY <1>1, <1>2, WhoMoves DEF InTurn
<1>4. /\ UNCHANGED <<book, session>>
      /\ \E g : ~g.claims /\ driver' = [driver EXCEPT ![p] = g]
  <2>1. ~To(p, "tick").claims /\ ~To(p, driver[p].next).claims
    BY <1>1 DEF To, Frame
  <2>2. \A r : ~[To(p, "stop") EXCEPT !.reason = r].claims
    BY <1>1 DEF To, Frame
  <2>3. ~AtRest.claims
    BY DEF AtRest
  <2>. QED
    BY <1>3, <2>1, <2>2, <2>3 DEF Terminate, Stop, TickRun, Leave, Goes, Rest, Move
<1>5. \A q \in Procs \ {p} : proc'[q] = proc[q]
  BY <1>3 DEF Terminate, Stop, RequestStop, TickRun, Tick, Leave, Goes, Rest, vars, Goto,
              Serial, Safe, TypeOK
<1>6. Stands
  <2>1. CASE Stop(p)
    <3>1. FreezePlan(Run, f.reason) /\ f.pc = "stop"
      BY <1>1, <2>1 DEF Stop, RequestStop, Move, At
    <3>. QED
      BY <1>2, <3>1, DriverFacts, FreezeStands
  <2>2. CASE Terminate(p) \/ TickRun(p) \/ Leave(p)
    BY <2>2, NothingStands DEF Terminate, TickRun, Tick, Leave, Goes, Rest, vars, ledger
  <2>. QED
    BY <1>3, <2>1, <2>2
<1>. QED
  BY <1>4, <1>5, <1>6

\* A run that nobody gives to the agent again.
LEMMA GivenUpStays ==
  ASSUME Driven, GivenUpForGood, Stands,
         book'.binding = book.binding, book'.feedback = book.feedback,
         NEW p \in Procs, NEW g, driver' = [driver EXCEPT ![p] = g],
         g.claims => g.pc \in {"continue", "resumed"}
  PROVE  GivenUpForGood'
<1>1. Halted' /\ Settling' /\ book'.feedback = Nothing
  BY DEF GivenUpForGood, Stands, Settling, Bound
<1>2. ASSUME NEW q \in Procs, driver'[q].claims
      PROVE  driver'[q].pc \in {"continue", "resumed"}
  BY <1>2, DrivenTyped DEF GivenUpForGood
<1>. QED
  BY <1>1, <1>2 DEF GivenUpForGood

\* It is resumed, and left alone.
LEMMA GivenUpDrives ==
  ASSUME Serial, Driven, AllFaithful, GivenUpForGood, session # <<>>, NEW p \in Procs, Drive(p)
  PROVE  GivenUpForGood'
<1>1. CASE ~driver[p].claims
  BY <1>1, OperatorMoves, GivenUpStays
<1>2. CASE driver[p].claims
  <2>1. driver[p].pc \in {"continue", "resumed"}
    BY <1>2 DEF GivenUpForGood
  <2>2. ContinueExecution(p) \/ Resumed(p)
    BY <2>1, WhoMoves DEF InTurn
  <2>3. AtRest.claims = FALSE
    BY DEF AtRest
  <2>4. To(p, "continue").pc = "continue"
    BY <2>1, ToTyped DEF Places
  <2>5. CASE ContinueExecution(p)
    <3>1. Goes(p, "continue", AtRest)
      BY <2>5 DEF ContinueExecution, GivenUpForGood, Halted, ForGood
    <3>. QED
      BY <2>3, <3>1, NothingStands, GivenUpStays DEF Goes, Move, vars
  <2>6. CASE Resumed(p)
    <3>1. \/ Rest(p, "resumed") \/ Goes(p, "resumed", To(p, "continue"))
          \/ Tells(p, "resumed", Receipt(book.binding.call, book.binding.act), To(p, "continue"))
      BY <2>6 DEF Resumed, GivenUpForGood, Settling
    <3>2. \E g \in {AtRest, To(p, "continue")} :
            driver' = [driver EXCEPT ![p] = g] /\ UNCHANGED <<vars, book>>
      BY <3>1 DEF Rest, Goes, Tells, Move
    <3>. QED
      BY <2>3, <2>4, <3>2, NothingStands, GivenUpStays DEF vars
  <2>. QED
    BY <2>2, <2>5, <2>6
<1>. QED
  BY <1>1, <1>2

LEMMA GivenUpBegins ==
  ASSUME Serial, Driven, GivenUpForGood, session # <<>>, NEW p \in Procs, Begin(p)
  PROVE  GivenUpForGood'
<1>1. ~Start(p)
  BY DEF Start
<1>2. CASE ReceiveFeedback(p) \/ Resume(p)
  <2>1. Stands
    <3>1. CASE ReceiveFeedback(p)
      <4>1. PICK a \in Actions : action[a].run_id = Run /\ Feedback(a)
        BY <3>1 DEF ReceiveFeedback, ActionsOf
      <4>2. PICK n : Apply(Run, a, n)
        BY <4>1 DEF Feedback
      <4>. QED
        BY <4>1, <4>2, DriverFacts, ApplyStands
    <3>2. CASE Resume(p)
      BY <3>2, NothingStands DEF Resume, Tick, ledger
    <3>. QED
      BY <1>2, <3>1, <3>2
  <2>2. PICK pc \in {"continue", "resumed"} :
          Move(p, "rest", [To(p, pc) EXCEPT !.claims = TRUE]) /\ UNCHANGED <<book, session>>
    BY <1>2 DEF ReceiveFeedback, Resume, Claim
  <2>3. [To(p, pc) EXCEPT !.claims = TRUE].pc = pc
    BY DrivenTyped DEF To, Frame
  <2>. QED
    BY <2>1, <2>2, <2>3, GivenUpStays DEF Move
<1>3. CASE Cancel(p) \/ CancelMock(p)
  <2>1. PICK g : ~g.claims /\ Goes(p, "rest", g)
    BY <1>3 DEF Cancel, CancelMock, AtRest
  <2>. QED
    BY <2>1, NothingStands, GivenUpStays DEF Goes, Move, vars
<1>. QED
  BY <1>1, <1>2, <1>3 DEF Begin

\* Others move while p has the run stopped.
LEMMA GivesUpStays ==
  ASSUME Driven, Stands, book'.binding = book.binding, book'.feedback = book.feedback,
         NEW p \in Procs, GivesUp(p), driver'[p] = driver[p],
         Halted /\ Concluding(proc[p]) => Concluding(proc[p])' \/ Over'
  PROVE  GivesUp(p)'
<1>1. PICK f \in Frame : f = driver[p] /\ f = driver'[p]
  BY DrivenTyped
<1>2. f.claims /\ (book'.feedback # Nothing => f.delivering = book'.feedback.call)
  BY <1>1 DEF GivesUp
<1>3. CASE f.pc \in {"terminate", "stop"}
  BY <1>1, <1>2, <1>3 DEF GivesUp
<1>4. CASE f.pc \notin {"terminate", "stop"}
  <2>1. Halted /\ Halted' /\ ((f.pc = "tick" /\ f.next = "ran") \/ f.pc = "ran")
    BY <1>1, <1>4 DEF GivesUp, Stands
  <2>2. f.pc = "ran" => Settling' \/ Concluding(proc[p])'
    BY <1>1, <1>4, <2>1 DEF GivesUp, Stands, Settling, Bound
  <2>. QED
    BY <1>1, <1>2, <2>1, <2>2 DEF GivesUp
<1>. QED
  BY <1>3, <1>4

\* The tick that others do not touch.
LEMMA ConcludingStays ==
  ASSUME Shrinks, NEW p \in Procs, proc'[p] = proc[p], Concluding(proc[p])
  PROVE  Concluding(proc[p])'
  BY DEF Concluding, Shrinks

LEMMA OthersGiveUp ==
  ASSUME Serial, Driven, AllFaithful, Shrinks, NEW p \in Procs, GivesUp(p),
         NEW q \in Procs, q # p, Begin(q) \/ Drive(q)
  PROVE  GivesUp(p)'
<1>1. ~driver[q].claims /\ driver[p].claims
  BY DEF GivesUp, Driven, Exclusive
<1>2. CASE Drive(q)
  <2>1. PICK g : driver' = [driver EXCEPT ![q] = g]
    BY <1>1, <1>2, OperatorMoves
  <2>2. driver'[p] = driver[p] /\ proc'[p] = proc[p] /\ Stands /\ book' = book
    BY <1>1, <1>2, <2>1, OperatorMoves, DrivenTyped
  <2>. QED
    BY <2>2, ConcludingStays, GivesUpStays
<1>3. CASE Cancel(q) \/ CancelMock(q)
  <2>1. PICK g : driver' = [driver EXCEPT ![q] = g] /\ UNCHANGED vars /\ UNCHANGED book
    BY <1>3 DEF Cancel, CancelMock, Goes, Move
  <2>2. driver'[p] = driver[p] /\ proc'[p] = proc[p] /\ Stands
    BY <2>1, DrivenTyped, NothingStands DEF vars
  <2>. QED
    BY <2>1, <2>2, ConcludingStays, GivesUpStays
<1>4. ~Start(q) /\ ~ReceiveFeedback(q) /\ ~Resume(q)
  BY <1>1 DEF Start, ReceiveFeedback, Resume, Claim, Unclaimed
<1>. QED
  BY <1>2, <1>3, <1>4 DEF Begin

\* p itself goes from the stop to the tick, and returns from _run.
LEMMA GivesUpOn ==
  ASSUME Serial, Driven, Attended, NEW p \in Procs, GivesUp(p), Begin(p) \/ Drive(p)
  PROVE  GivesUp(p)' \/ GivenUpForGood'
<1>1. PICK f \in Frame :
        /\ f = driver[p] /\ f.claims /\ Fits(f)
        /\ book.feedback # Nothing => f.delivering = book.feedback.call
        /\ \/ f.pc \in {"terminate", "stop"} /\ f.next = "ran" /\ f.reason \in ForGood
           \/ f.pc = "tick" /\ f.next = "ran" /\ Halted
           \/ f.pc = "ran" /\ Halted /\ (Settling \/ Concluding(proc[p]))
  BY DrivenTyped DEF GivesUp, Driven
<1>2. ~Begin(p)
  BY <1>1 DEF Begin, Start, ReceiveFeedback, Resume, Claim, Cancel, CancelMock, Goes, Move, At
<1>3. \/ f.pc = "terminate" /\ Terminate(p)
      \/ f.pc = "stop" /\ Stop(p)
      \/ f.pc = "tick" /\ TickRun(p)
      \/ f.pc = "ran" /\ Ran(p)
  BY <1>1, <1>2, WhoMoves DEF InTurn
<1>4. ASSUME NEW g \in Frame, driver' = [driver EXCEPT ![p] = g], book' = book,
             g.claims = f.claims, g.delivering = f.delivering,
             \/ g.pc = "stop" /\ g.next = "ran" /\ g.reason \in ForGood
             \/ g.pc = "tick" /\ g.next = "ran" /\ Halted'
             \/ g.pc = "ran" /\ Halted' /\ (Settling' \/ Concluding(proc[p])')
      PROVE  GivesUp(p)'
  <2>1. driver'[p] = g
    BY <1>4, DrivenTyped
  <2>. QED
    BY <1>1, <1>4, <2>1 DEF GivesUp
<1>5. CASE f.pc = "terminate" /\ Terminate(p)
  <2>1. To(p, "stop").reason = f.reason
    BY <1>1, ToTyped DEF Places
  <2>2. PICK r, g : /\ r \in {"cancel", "timeout"} \/ r = f.reason
                    /\ g = [f EXCEPT !.pc = "stop", !.reason = r]
                    /\ driver' = [driver EXCEPT ![p] = g] /\ book' = book
    BY <1>1, <1>5, <2>1 DEF Terminate, Goes, Move, To
  <2>3. r \in ForGood
    BY <1>1, <1>5, <2>2 DEF ForGood
  <2>4. /\ g \in Frame /\ g.claims = f.claims /\ g.delivering = f.delivering
        /\ g.pc = "stop" /\ g.next = "ran" /\ g.reason = r
    BY <1>1, <1>5, <2>2, <2>3 DEF Frame, Places, ForGood, StopReasons
  <2>. QED
    BY <1>4, <2>2, <2>3, <2>4
<1>6. CASE f.pc = "stop" /\ Stop(p)
  <2>1. PICK g : /\ g = [f EXCEPT !.pc = "tick"]
                 /\ driver' = [driver EXCEPT ![p] = g] /\ book' = book
                 /\ FreezePlan(Run, f.reason)
    BY <1>1, <1>6 DEF Stop, RequestStop, Move, To
  <2>2. Halted'
    BY <1>1, <1>6, <2>1, DriverFacts, FreezeStands
  <2>3. /\ g \in Frame /\ g.claims = f.claims /\ g.delivering = f.delivering
        /\ g.pc = "tick" /\ g.next = "ran"
    BY <1>1, <1>6, <2>1 DEF Frame, Places
  <2>. QED
    BY <1>4, <2>1, <2>2, <2>3
<1>7. CASE f.pc = "tick" /\ TickRun(p)
  <2>1. Halted /\ f.next = "ran"
    BY <1>1, <1>7
  <2>2. PICK g : /\ g = [f EXCEPT !.pc = "ran"]
                 /\ driver' = [driver EXCEPT ![p] = g] /\ book' = book
                 /\ UNCHANGED ledger /\ proc[p] = Idle
    BY <1>1, <1>7, <2>1 DEF TickRun, Tick, Goes, Move, At, To, vars, ledger
  <2>3. Halted' /\ Pending(Run)' = Pending(Run) /\ (Over <=> Over')
    BY <2>1, <2>2 DEF Halted, Over, Pending, ActionsOf, ledger
  <2>4. Settling' \/ Concluding(proc[p])'
    <3>1. CASE Over
      BY <2>3, <3>1 DEF Settling
    <3>2. CASE Pending(Run) # {}
      BY <2>2, <3>2, WaitingBook DEF Settling, Bound
    <3>3. CASE ~Over /\ Pending(Run) = {}
      <4>1. Tick(p, Run)
        BY <1>7, <3>3 DEF TickRun
      <4>2. proc' = [proc EXCEPT ![p] =
                [Idle EXCEPT !.pc = "reconcile", !.run = Run, !.ticking = TRUE]]
        BY <2>1, <4>1 DEF Tick, Goto, Halted, ForGood, NoIntent
      <4>3. proc'[p] = [Idle EXCEPT !.pc = "reconcile", !.run = Run, !.ticking = TRUE]
        BY <4>2 DEF Serial, Safe, TypeOK
      <4>4. proc'[p].pc = "reconcile" /\ proc'[p].run = Run /\ proc'[p].ticking
        BY <4>3 DEF Idle
      <4>. QED
        BY <2>3, <3>3, <4>4 DEF Concluding
    <3>. QED
      BY <3>1, <3>2, <3>3
  <2>5. g \in Frame /\ g.claims = f.claims /\ g.delivering = f.delivering /\ g.pc = "ran"
    BY <2>2 DEF Frame, Places
  <2>. QED
    BY <1>4, <2>2, <2>3, <2>4, <2>5
<1>8. CASE f.pc = "ran" /\ Ran(p)
  <2>1. proc[p] = Idle /\ UNCHANGED vars
    BY <1>8 DEF Ran, Records, Move, At
  <2>2. Halted /\ Settling
    BY <1>1, <1>8, <2>1 DEF Concluding, Idle
  <2>3. PICK m : /\ book' = [book EXCEPT !.feedback = m]
                 /\ m = IF f.delivering # 0 /\ book.feedback # Nothing
                           /\ book.feedback.call = f.delivering
                        THEN Nothing ELSE book.feedback
    BY <1>1, <1>8 DEF Ran, Records
  <2>4. book.feedback # Nothing => book.feedback.call # 0
    BY DrivenTyped DEF Driven, Accounts, OutboxOK
  <2>5. book'.feedback = Nothing /\ book'.binding = book.binding
    BY <1>1, <2>3, <2>4, DrivenTyped DEF Book
  <2>6. Halted' /\ Settling'
    BY <2>1, <2>2, <2>5 DEF Halted, Settling, Over, Bound, vars
  <2>7. PICK g : /\ g = AtRest \/ g = [AtRest EXCEPT !.pc = "continue", !.claims = TRUE]
                 /\ driver' = [driver EXCEPT ![p] = g]
    BY <1>8 DEF Ran, Records, Move
  <2>8. g.pc \in {"rest", "continue"} /\ (g.pc = "rest" => ~g.claims)
    <3>1. g = AtRest => ~g.claims /\ g.pc = "rest"
      BY DEF AtRest
    <3>2. g = [AtRest EXCEPT !.pc = "continue", !.claims = TRUE] => g.pc = "continue"
      BY DEF AtRest
    <3>. QED
      BY <2>7, <3>1, <3>2
  <2>9. ASSUME NEW q \in Procs, driver'[q].claims
        PROVE  driver'[q].pc = "continue"
    <3>1. q = p
      BY <1>1, <2>7, <2>9, DrivenTyped DEF Driven, Exclusive
    <3>2. driver'[q] = g
      BY <2>7, <3>1, DrivenTyped
    <3>. QED
      BY <2>8, <2>9, <3>2
  <2>. QED
    BY <2>5, <2>6, <2>9 DEF GivenUpForGood
<1>. QED
  BY <1>3, <1>5, <1>6, <1>7, <1>8

-----------------------------------------------------------------------------
(* Restrained is inductive.                                                *)

\* What is counted, and when.
LEMMA Counted ==
  ASSUME Driven, [RuntimeNext]_allvars
  PROVE  \/ \E p \in Procs : Die(p)
         \/ \E p \in Procs : Invalid(p)
         \/ crashes' = crashes /\ book'.invalid_proposals = book.invalid_proposals
<1>1. crashes' = crashes \/ \E p \in Procs : Die(p)
  <2>1. \A p \in Procs : Begin(p) => crashes' = crashes
    BY DEF Begin, Start, ReceiveFeedback, Resume, Claim, Cancel, CancelMock, Goes, Move
  <2>2. \A p \in Procs : Turn(p) => crashes' = crashes
    BY DEF Turn, Prompt, ResumeTurn, TakeModelCall, ModelFails, ModelAnswers, ModelBreaksOff, Propose,
           Repeated, DispatchNext, Receive, FinishTask, VerifyFinal, Conclude, Respond, ObserveTool,
           Goes, Rest, Tells, Records, Move
  <2>3. \A p \in Procs : Drive(p) => crashes' = crashes
    BY <2>2 DEF Drive, Refresh, ObserveWorld, Terminate, Stop, TickRun, Recover, Replanned,
           ReviseRun, RunLoop, TimeOut, Returned, Invalid, Reply, Deliver, Ran,
           ContinueExecution, Judge, JudgedBefore, Prepare, Resumed, Leave,
           Goes, Rest, Tells, Records, Move
  <2>. QED
    BY <2>1, <2>3 DEF RuntimeNext, allvars, driving
<1>2. book'.invalid_proposals = book.invalid_proposals \/ \E p \in Procs : Invalid(p)
  <2>1. \A p \in Procs : Begin(p) \/ Die(p) => book' = book
    BY DEF Begin, Start, ReceiveFeedback, Resume, Cancel, CancelMock, Goes, Die
  <2>2. \A p \in Procs : Turn(p) => book'.invalid_proposals = book.invalid_proposals
    <3>1. \A b : \/ b = [book EXCEPT !.model_calls = @ + 1]
                 \/ b = [book EXCEPT !.api_retries = @ + 1]
                 \/ \E binding : b = [book EXCEPT !.binding = binding]
                 => b.invalid_proposals = book.invalid_proposals
      BY DrivenTyped DEF Book
    <3>2. \A p \in Procs : TakeModelCall(p) \/ ModelFails(p) \/ Propose(p)
                          => book'.invalid_proposals = book.invalid_proposals
      <4>1. \A p \in Procs : TakeModelCall(p) => book'.invalid_proposals = book.invalid_proposals
        BY <3>1 DEF TakeModelCall, Goes, Rest, Tells, Records
      <4>2. \A p \in Procs : ModelFails(p) => book'.invalid_proposals = book.invalid_proposals
        BY <3>1 DEF ModelFails, Goes, Rest, Tells, Records
      <4>3. \A p \in Procs : Propose(p) => book'.invalid_proposals = book.invalid_proposals
        <5>1. \A x : [book EXCEPT !.binding = x].invalid_proposals = book.invalid_proposals
          BY DrivenTyped DEF Book
        <5>2. \A p \in Procs : Propose(p) => \E x : book' = [book EXCEPT !.binding = x]
          BY DEF Propose, Records
        <5>. QED
          BY <5>1, <5>2
      <4>. QED
        BY <4>1, <4>2, <4>3
    <3>3. \A p \in Procs : Prompt(p) \/ ResumeTurn(p) \/ ModelAnswers(p) \/ ModelBreaksOff(p)
                            \/ Repeated(p)
                            \/ DispatchNext(p) \/ Receive(p) \/ FinishTask(p) \/ VerifyFinal(p)
                            \/ Conclude(p) \/ Respond(p) \/ ObserveTool(p)
                          => book' = book
      BY DEF Prompt, ResumeTurn, ModelAnswers, ModelBreaksOff, Repeated, DispatchNext, Receive, FinishTask,
             VerifyFinal, Conclude, Respond, ObserveTool, Goes, Rest, Tells
    <3>. QED
      BY <3>2, <3>3 DEF Turn
  <2>3. ASSUME NEW p \in Procs, Drive(p), ~Invalid(p), ~Turn(p)
        PROVE  book'.invalid_proposals = book.invalid_proposals
    <3>1. \A b : \/ b = [book EXCEPT !.observation_count = @ + 1]
                 \/ b = [book EXCEPT !.replans = @ + 1]
                 \/ \E binding : b = [book EXCEPT !.binding = binding]
                 \/ \E feedback : b = [book EXCEPT !.feedback = feedback]
                 \/ \E verdict : b = [book EXCEPT !.verdict = verdict]
                 => b.invalid_proposals = book.invalid_proposals
      BY DrivenTyped DEF Book
    <3>. QED
      BY <2>3, <3>1
      DEF Drive, Refresh, ObserveWorld, Terminate, Stop, TickRun, Recover, Replanned,
          ReviseRun, RunLoop, TimeOut, Returned, Reply, Deliver, Ran,
          ContinueExecution, Judge, JudgedBefore, Prepare, Resumed, Leave,
          Goes, Rest, Tells, Records
  <2>. QED
    BY <2>1, <2>2, <2>3 DEF RuntimeNext, allvars, driving
<1>. QED
  BY <1>1, <1>2

\* A session stays open.
LEMMA SessionGrows ==
  ASSUME Driven, [RuntimeNext]_allvars, session # <<>>
  PROVE  session' # <<>>
<1>1. \A event : Append(session, event) # <<>>
  BY DrivenTyped
<1>2. \A p \in Procs : Begin(p) \/ Die(p) => session' # <<>>
  BY DEF Begin, Start, ReceiveFeedback, Resume, Cancel, CancelMock, Goes, Die
<1>3. \A p \in Procs : Turn(p) => session' # <<>>
  BY <1>1
  DEF Turn, Prompt, ResumeTurn, TakeModelCall, ModelFails, ModelAnswers, ModelBreaksOff, Propose,
      Repeated, DispatchNext, Receive, FinishTask, VerifyFinal, Conclude, Respond, ObserveTool,
      Goes, Rest, Tells, Records
<1>4. \A p \in Procs : Drive(p) => session' # <<>>
  BY <1>1, <1>3
  DEF Drive, Refresh, ObserveWorld, Terminate, Stop, TickRun, Recover, Replanned,
      ReviseRun, RunLoop, TimeOut, Returned, Invalid, Reply, Deliver, Ran,
      ContinueExecution, Judge, JudgedBefore, Prepare, Resumed, Leave,
      Goes, Rest, Tells, Records
<1>. QED
  BY <1>2, <1>4 DEF RuntimeNext, allvars, driving

Limits ==
  /\ MaxInvalidProposals \in Nat /\ crashes \in Nat /\ book.invalid_proposals \in Nat

LEMMA LimitsTyped ==
  ASSUME Driven
  PROVE  Limits
  BY DrivenTyped, DriverFacts, BookTyped DEF Limits

\* Nothing invalid is decided any more.
LEMMA SpentStep ==
  ASSUME Serial, Driven, Attended, Restrained, Spent, [RuntimeNext]_allvars,
         ~\E p \in Procs : Die(p)
  PROVE  /\ GivenUpForGood' \/ \E p \in Procs : GivesUp(p)'
         /\ ~\E p \in Procs : Invalid(p)
<1>1. session # <<>> /\ AllFaithful
  BY LimitsTyped DEF Restrained, Spent, Limits, AllFaithful
<1>2. ASSUME NEW p \in Procs, driver[p].pc \in {"tool", "invalid"}
      PROVE  FALSE
  <2>1. driver[p].claims
    BY <1>2, Claims
  <2>2. ~GivenUpForGood
    BY <1>2, <2>1 DEF GivenUpForGood
  <2>3. ASSUME NEW q \in Procs, GivesUp(q)
        PROVE  FALSE
    BY <1>2, <2>1, <2>3 DEF GivesUp, Driven, Exclusive
  <2>. QED
    BY <2>2, <2>3 DEF Restrained
<1>3. ~\E p \in Procs : Invalid(p)
  BY <1>2 DEF Invalid, Records, Move, At
<1>4. Shrinks
  BY <1>2, PendingShrinks DEF Propose, At
<1>5. ASSUME UNCHANGED driving, Environment \/ (\E p \in Procs : Step(p)) \/ UNCHANGED vars
      PROVE  GivenUpForGood' \/ \E p \in Procs : GivesUp(p)'
  <2>1. Stands
    BY <1>5, StepStands, NothingStands DEF Environment, vars, ledger
  <2>2. CASE GivenUpForGood
    BY <1>5, <2>1, <2>2 DEF GivenUpForGood, Stands, Settling, Bound, driving
  <2>3. ASSUME NEW p \in Procs, GivesUp(p)
        PROVE  GivesUp(p)'
    <3>1. Halted /\ Concluding(proc[p]) => Concluding(proc[p])' \/ Over'
      <4>1. CASE proc'[p] = proc[p]
        BY <1>4, <4>1, ConcludingStays
      <4>2. CASE Step(p)
        BY <1>4, <4>2, ConcludingGoesOn
      <4>3. ASSUME NEW q \in Procs, q # p, Step(q)
            PROVE  proc'[p] = proc[p]
        <5>1. PICK frame : proc' = [proc EXCEPT ![q] = frame]
          BY <4>3
          DEF Step, SubmitAnswered, SubmitReplyLost, SubmitTimesOut, SubmitDisconnected, Unknown,
              AcceptAnswer, ApplyAnswer, StopRead, CancelUnsupported, CancelConfirmed,
              CancelAnswered, CancelFails, ReconcileRead, LookupAnswered, LookupFails, TickStop,
              Settle, Goto
        <5>. QED
          BY <4>3, <5>1 DEF Serial, Safe, TypeOK
      <4>. QED
        BY <1>5, <4>1, <4>2, <4>3 DEF Environment, vars
    <3>. QED
      BY <1>5, <2>1, <2>3, <3>1, GivesUpStays DEF driving
  <2>. QED
    BY <2>2, <2>3 DEF Restrained
<1>6. ASSUME NEW q \in Procs, Begin(q) \/ Drive(q)
      PROVE  GivenUpForGood' \/ \E p \in Procs : GivesUp(p)'
  <2>1. CASE GivenUpForGood
    BY <1>1, <1>6, <2>1, GivenUpDrives, GivenUpBegins
  <2>2. ASSUME NEW p \in Procs, GivesUp(p)
        PROVE  GivesUp(p)' \/ GivenUpForGood'
    BY <1>1, <1>4, <1>6, <2>2, OthersGiveUp, GivesUpOn
  <2>. QED
    BY <2>1, <2>2 DEF Restrained
<1>. QED
  BY <1>3, <1>5, <1>6 DEF RuntimeNext, allvars

\* The invalid decision beyond the limit has the run stopped.
LEMMA InvalidStep ==
  ASSUME Serial, Driven, Driven', Attended, Restrained, NEW p \in Procs, Invalid(p)
  PROVE  /\ RepairsBounded'
         /\ session' # <<>>
         /\ Spent' => GivesUp(p)'
<1>1. PICK f \in Frame : f = driver[p] /\ f.pc = "invalid" /\ Fits(f) /\ Faithful(f)
  BY DrivenTyped DEF Invalid, Records, Move, At, Driven, Restrained
<1>2. f.claims /\ f.running /\ session # <<>>
  BY <1>1, Claims DEF Fits, Guided, InRun, DeliversFirst
<1>3. ~Spent
  <2>1. ~GivenUpForGood
    BY <1>1, <1>2 DEF GivenUpForGood
  <2>2. ASSUME NEW q \in Procs, GivesUp(q)
        PROVE  FALSE
    BY <1>1, <1>2, <2>2 DEF GivesUp, Driven, Exclusive
  <2>. QED
    BY <2>1, <2>2 DEF Restrained
<1>4. /\ book' = [book EXCEPT !.invalid_proposals = book.invalid_proposals + 1]
      /\ crashes' = crashes /\ session' = session
  BY DEF Invalid, Records, Move
<1>5. /\ book'.invalid_proposals = book.invalid_proposals + 1 /\ book'.feedback = book.feedback
      /\ Limits
  BY <1>4, DrivenTyped, LimitsTyped DEF Book
<1>6. RepairsBounded'
  BY <1>3, <1>4, <1>5 DEF RepairsBounded, Spent, Limits
<1>7. ASSUME Spent'
      PROVE  GivesUp(p)'
  <2>1. book.invalid_proposals + 1 > MaxInvalidProposals
    BY <1>4, <1>5, <1>7 DEF Spent, Limits
  <2>2. PICK g : /\ g = [f EXCEPT !.pc = "terminate", !.reason = "failure", !.next = "ran"]
                 /\ driver' = [driver EXCEPT ![p] = g]
    BY <1>1, <1>2, <2>1 DEF Invalid, Records, Move, Raised
  <2>3. /\ g.pc = "terminate" /\ g.reason \in ForGood /\ g.next = "ran"
        /\ g.claims /\ g.delivering = f.delivering
    BY <1>2, <2>2 DEF Frame, ForGood
  <2>4. driver'[p] = g
    BY <2>2, DrivenTyped
  <2>. QED
    BY <1>1, <1>2, <1>5, <2>3, <2>4 DEF GivesUp, Faithful
<1>. QED
  BY <1>2, <1>4, <1>6, <1>7

LEMMA DieStep ==
  ASSUME Driven, Restrained, NEW p \in Procs, Die(p)
  PROVE  RepairsBounded' /\ ~Spent'
<1>1. crashes' = crashes + 1 /\ book' = book
  BY DEF Die
<1>. QED
  BY <1>1, LimitsTyped DEF Restrained, RepairsBounded, Spent, Limits

LEMMA RestrainedStep ==
  ASSUME Serial, Driven, Driven', Attended, Restrained, [RuntimeNext]_allvars
  PROVE  Restrained'
<1>1. \A p \in Procs : Faithful(driver[p])'
  BY FaithfulStep DEF Restrained, AllFaithful
<1>2. CASE \E p \in Procs : Die(p)
  <2>1. book' = book
    BY <1>2 DEF Die
  <2>2. (book.invalid_proposals > 0 => session # <<>>)'
    BY <2>1, SessionGrows DEF Restrained
  <2>. QED
    BY <1>1, <1>2, <2>2, DieStep DEF Restrained
<1>3. CASE \E p \in Procs : Invalid(p)
  BY <1>1, <1>3, InvalidStep DEF Restrained
<1>4. CASE /\ ~\E p \in Procs : Die(p)
           /\ crashes' = crashes /\ book'.invalid_proposals = book.invalid_proposals
  <2>1. RepairsBounded' /\ (Spent' <=> Spent)
    BY <1>4 DEF Restrained, RepairsBounded, Spent
  <2>2. (book.invalid_proposals > 0 => session # <<>>)'
    BY <1>4, SessionGrows DEF Restrained
  <2>. QED
    BY <1>1, <1>4, <2>1, <2>2, SpentStep DEF Restrained
<1>. QED
  BY <1>2, <1>3, <1>4, Counted

LEMMA InitRestrained ==
  ASSUME DriverInit
  PROVE  Restrained
<1>1. book.invalid_proposals = 0 /\ book.feedback = Nothing
  BY DEF DriverInit, NewBook
<1>2. crashes = 0 /\ \A p \in Procs : driver[p] = AtRest
  BY DEF DriverInit
<1>3. \A p \in Procs : Faithful(driver[p])
  BY <1>2 DEF Faithful, AtRest
<1>. QED
  BY <1>1, <1>2, <1>3, DriverFacts DEF Restrained, RepairsBounded, Spent

\* Restrained is inductive on top of Attended.
THEOREM RestrainedInvariant == RuntimeSpec => [](Serial /\ Driven /\ Attended /\ Restrained)
<1>1. DriverInit => Serial /\ Driven /\ Attended /\ Restrained
  BY InitDriven, InitAttended, InitRestrained
<1>2. Serial /\ Driven /\ Attended /\ Restrained /\ [RuntimeNext]_allvars =>
        (Serial /\ Driven /\ Attended /\ Restrained)'
  BY DrivenStep, SerialStep, AttendedStep, RestrainedStep
<1>. QED
  BY <1>1, <1>2, PTL DEF RuntimeSpec

\* An agent that does not take a correction is stopped: one more invalid decision
\* than the limit is counted, and one for each death of a driver before it had
\* the run stopped, however often the run is resumed (runtime.py 212-224).
THEOREM RepairsAreBounded == RuntimeSpec => []RepairsBounded
<1>1. Restrained => RepairsBounded
  BY DEF Restrained
<1>. QED
  BY <1>1, RestrainedInvariant, PTL

-----------------------------------------------------------------------------
(* The agent begins with its task.                                         *)

\* Events are only added to a session, and the first opens it.
LEMMA SessionExtends ==
  ASSUME Driven, [RuntimeNext]_allvars, session # <<>>
  PROVE  session' = session \/ \E event : session' = Append(session, event)
<1>. DEFINE Goal == session' = session \/ \E event : session' = Append(session, event)
<1>1. \A p \in Procs : Begin(p) \/ Die(p) => Goal
  BY DEF Begin, Start, ReceiveFeedback, Resume, Cancel, CancelMock, Goes, Die
<1>2. \A p \in Procs : Turn(p) => Goal
  BY DEF Turn, Prompt, ResumeTurn, TakeModelCall, ModelFails, ModelAnswers, ModelBreaksOff, Propose,
      Repeated, DispatchNext, Receive, FinishTask, VerifyFinal, Conclude, Respond, ObserveTool,
      Goes, Rest, Tells, Records
<1>3. \A p \in Procs : Drive(p) => Goal
  BY <1>2
  DEF Drive, Refresh, ObserveWorld, Terminate, Stop, TickRun, Recover, Replanned,
      ReviseRun, RunLoop, TimeOut, Returned, Invalid, Reply, Deliver, Ran,
      ContinueExecution, Judge, JudgedBefore, Prepare, Resumed, Leave,
      Goes, Rest, Tells, Records
<1>. QED
  BY <1>1, <1>3 DEF RuntimeNext, allvars, driving

\* A session with the task keeps it.
LEMMA TaskStays ==
  ASSUME Driven, Opening, [RuntimeNext]_allvars, Len(session) > 1
  PROVE  Opening'
<1>1. session \in Seq(SessionEvent) /\ session # <<>>
  BY DrivenTyped
<1>2. Len(session') > 1 /\ session'[2] = session[2]
  <2>1. CASE session' = session
    BY <2>1
  <2>2. ASSUME NEW event, session' = Append(session, event)
        PROVE  Len(session') > 1 /\ session'[2] = session[2]
    BY <1>1, <2>2
  <2>. QED
    BY <1>1, <2>1, <2>2, SessionExtends
<1>3. session[2] = FirstMessage
  BY DEF Opening, TaskFirst
<1>4. TaskFirst' /\ ~(Len(session') < 2)
  <2>1. Len(session') \in Nat
    <3>1. CASE session' = session
      BY <1>1, <3>1
    <3>2. ASSUME NEW event, session' = Append(session, event)
          PROVE  Len(session') \in Nat
      BY <1>1, <3>2
    <3>. QED
      BY <1>1, <3>1, <3>2, SessionExtends
  <2>. QED
    BY <1>2, <1>3, <2>1 DEF TaskFirst, FirstMessage, Of
<1>. QED
  BY <1>4 DEF Opening

\* A driver that has brought nothing yet goes on.
LEMMA OpeningMoves ==
  ASSUME Driven, Opening, Len(session) < 2, NEW p \in Procs, NEW g,
         driver' = [driver EXCEPT ![p] = g], g.claims => Opens(g),
         session' = session, book'.binding = book.binding, book'.feedback = book.feedback
  PROVE  Opening'
<1>1. ASSUME NEW q \in Procs, driver'[q].claims
      PROVE  Opens(driver[q])'
  <2>1. CASE q = p
    <3>1. driver'[q] = g
      BY <2>1, DrivenTyped
    <3>. QED
      BY <1>1, <3>1 DEF Opens, Leaving
  <2>2. CASE q # p
    <3>1. driver'[q] = driver[q]
      BY <2>2, DrivenTyped
    <3>. QED
      BY <1>1, <3>1 DEF Opening, Opens, Leaving
  <2>. QED
    BY <2>1, <2>2
<1>2. TaskFirst' /\ ~Bound'
  BY DEF Opening, TaskFirst, Bound, FirstMessage
<1>. QED
  BY <1>1, <1>2 DEF Opening

\* The session is created.
LEMMA OpeningBegins ==
  ASSUME Driven, Opening, NEW p \in Procs, NEW f, session = <<>>,
         driver[p].claims \/ Unclaimed, f.pc = "prompt", f.running, f.message = FirstMessage,
         driver' = [driver EXCEPT ![p] = f], session' = <<Of("created")>>, book' = book
  PROVE  Opening'
<1>1. Opens(f)'
  BY DEF Opens, FirstMessage
<1>2. ASSUME NEW q \in Procs, driver'[q].claims
      PROVE  q = p
  <2>1. CASE q # p
    <3>1. driver[q].claims
      BY <1>2, <2>1, DrivenTyped
    <3>. QED
      BY <2>1, <3>1 DEF Unclaimed, Driven, Exclusive
  <2>. QED
    BY <2>1
<1>3. driver'[p] = f
  BY DrivenTyped
<1>4. ASSUME NEW q \in Procs, driver'[q].claims
      PROVE  Opens(driver[q])'
  BY <1>1, <1>2, <1>3, <1>4
<1>5. Len(session) = 0 /\ Len(session') = 1
  OBVIOUS
<1>6. TaskFirst'
  BY <1>5 DEF TaskFirst
<1>. QED
  BY <1>4, <1>5, <1>6 DEF Opening, Bound

LEMMA OnlyOne ==
  ASSUME NEW n \in Nat, n # 0, n < 2
  PROVE  n = 1
  OBVIOUS

\* The driver p has the claim, and the agent has not had its task.
LEMMA OpensDrive ==
  ASSUME Driven, Opening, Len(session) < 2, NEW p \in Procs, Drive(p), driver[p].claims
  PROVE  Opening'
<1>1. PICK f \in Frame : f = driver[p] /\ Fits(f) /\ Guided(f) /\ Opens(f)
  <2>1. PICK f \in Frame : f = driver[p] /\ Fits(f)
    BY MidCall
  <2>. QED
    BY <2>1 DEF Fits, Opening
<1>2. /\ ~Bound /\ book.feedback = Nothing /\ book.binding.act = None
  BY DEF Opening, Driven, Accounts, BindingOK
<1>3. session \in Seq(SessionEvent)
  BY DrivenTyped
<1>4. ASSUME NEW pc, NEW g, Goes(p, pc, g), g.claims => Opens(g)
      PROVE  Opening'
  BY <1>4, OpeningMoves DEF Goes, Move
<1>5. ASSUME NEW pc, Rest(p, pc)
      PROVE  Opening'
  BY <1>5, OpeningMoves DEF Rest, Move, AtRest
<1>6. ASSUME NEW pc, Goes(p, pc, Raised(p)), f.running
      PROVE  Opening'
  <2>1. PICK g : g = Raised(p)
    OBVIOUS
  <2>2. g.pc = "terminate" /\ g.next = "ran" /\ g.running
    BY <1>1, <1>6, <2>1 DEF Raised, Frame
  <2>. QED
    BY <1>4, <1>6, <2>1, <2>2 DEF Opens, Leaving
<1>7. CASE f.running /\ f.pc \in {"prompt", "agent"} /\ f.message = FirstMessage
  <2>1. driver[p].pc \in {"prompt", "agent"} /\ driver[p].message # Nothing
    BY <1>1, <1>7 DEF FirstMessage, Of, Nothing
  <2>2. Prompt(p) \/ RunLoop(p) \/ TimeOut(p)
    <3>1. ~TakeModelCall(p) /\ ~ModelFails(p) /\ ~ModelAnswers(p) /\ ~ModelBreaksOff(p)
          /\ ~Propose(p) /\ ~Repeated(p) /\ ~DispatchNext(p) /\ ~Receive(p) /\ ~FinishTask(p)
          /\ ~VerifyFinal(p) /\ ~Conclude(p) /\ ~Respond(p) /\ ~ObserveTool(p) /\ ~ResumeTurn(p)
      BY <2>1
      DEF TakeModelCall, ModelFails, ModelAnswers, ModelBreaksOff, Propose, Repeated, DispatchNext,
          Receive, FinishTask, VerifyFinal, Conclude, Respond, ObserveTool, ResumeTurn,
          Goes, Rest, Tells, Records, Move, At
    <3>2. ~Refresh(p) /\ ~ObserveWorld(p) /\ ~Recover(p) /\ ~Replanned(p) /\ ~ReviseRun(p)
          /\ ~Returned(p) /\ ~Invalid(p) /\ ~Reply(p) /\ ~Deliver(p) /\ ~Judge(p)
          /\ ~JudgedBefore(p) /\ ~Prepare(p) /\ ~Terminate(p) /\ ~Stop(p) /\ ~TickRun(p)
          /\ ~Leave(p) /\ ~Ran(p) /\ ~ContinueExecution(p) /\ ~Resumed(p)
      BY <2>1
      DEF Refresh, ObserveWorld, Recover, Replanned, ReviseRun, Returned, Invalid, Reply,
          Deliver, Judge, JudgedBefore, Prepare, Terminate, Stop, TickRun, Leave, Ran,
          ContinueExecution, Resumed, Goes, Rest, Tells, Records, Move, At
    <3>. QED
      BY <3>1, <3>2 DEF Drive, Turn
  <2>3. CASE Prompt(p)
    <3>1. session' = Append(session, FirstMessage)
      BY <1>1, <1>7, <2>3 DEF Prompt, Tells
    <3>2. session # <<>>
      BY <1>1, <1>7 DEF Fits, Operates, DeliversFirst
    <3>3. Len(session) = 1
      <4>1. Len(session) \in Nat
        BY <1>3
      <4>2. Len(session) # 0
        BY <1>3, <3>2
      <4>. QED
        BY <4>1, <4>2, OnlyOne
    <3>4. Len(session') = 2 /\ session'[2] = FirstMessage
      <4>1. FirstMessage \in SessionEvent
        BY FirstMessageEvent
      <4>2. /\ Len(session') = Len(session) + 1
            /\ session'[Len(session) + 1] = FirstMessage
        BY <1>3, <3>1, <4>1
      <4>. QED
        BY <3>3, <4>2
    <3>. QED
      BY <3>4 DEF Opening, TaskFirst, FirstMessage, Of
  <2>4. CASE RunLoop(p)
    <3>1. CASE Goes(p, "prompt", Raised(p))
      BY <1>6, <1>7, <3>1
    <3>2. CASE Goes(p, "prompt", To(p, "agent"))
      <4>1. PICK g : g = To(p, "agent")
        OBVIOUS
      <4>2. g.pc = "agent" /\ g.running /\ g.message = FirstMessage
        BY <1>1, <1>7, <4>1 DEF To, Frame
      <4>. QED
        BY <1>4, <3>2, <4>1, <4>2 DEF Opens
    <3>. QED
      BY <2>4, <3>1, <3>2 DEF RunLoop
  <2>5. CASE TimeOut(p)
    <3>1. PICK g : g = Raised(p)
      OBVIOUS
    <3>2. g.pc = "terminate" /\ g.next = "ran" /\ g.running
      BY <1>1, <1>7, <3>1 DEF Raised, Frame
    <3>. QED
      BY <2>5, <3>1, <3>2, OpeningMoves DEF TimeOut, Opens, Leaving
  <2>. QED
    BY <2>2, <2>3, <2>4, <2>5
<1>8. CASE f.pc = "ran" \/ Leaving(f) \/ f.pc \in {"leave", "resumed", "continue"}
  <2>1. ~InTurn(driver[p])
    BY <1>1, <1>8 DEF InTurn, Leaving
  <2>2. \/ driver[p].pc = "terminate" /\ Terminate(p)
        \/ driver[p].pc = "stop" /\ Stop(p)
        \/ driver[p].pc = "tick" /\ TickRun(p)
        \/ driver[p].pc = "leave" /\ Leave(p)
        \/ driver[p].pc = "ran" /\ Ran(p)
        \/ driver[p].pc = "continue" /\ ContinueExecution(p)
        \/ driver[p].pc = "resumed" /\ Resumed(p)
    BY <1>1, <1>8, <2>1, WhoMoves DEF Leaving
  <2>3. CASE driver[p].pc = "terminate" /\ Terminate(p)
    <3>1. PICK reason : Goes(p, "terminate", [To(p, "stop") EXCEPT !.reason = reason])
      BY <2>3 DEF Terminate
    <3>2. PICK g : g = [To(p, "stop") EXCEPT !.reason = reason]
      OBVIOUS
    <3>3. g.pc = "stop" /\ g.next = f.next /\ g.running = f.running
      BY <1>1, <3>2 DEF To, Frame
    <3>4. f.running /\ f.next = "ran"
      BY <1>1, <2>3 DEF Opens, Leaving
    <3>. QED
      BY <1>4, <3>1, <3>2, <3>3, <3>4 DEF Opens, Leaving
  <2>4. CASE driver[p].pc = "stop" /\ Stop(p)
    <3>1. PICK g : g = To(p, "tick")
      OBVIOUS
    <3>2. g.pc = "tick" /\ g.next = f.next /\ g.running = f.running
      BY <1>1, <3>1 DEF To, Frame
    <3>3. f.running /\ f.next = "ran"
      BY <1>1, <2>4 DEF Opens, Leaving
    <3>4. /\ driver' = [driver EXCEPT ![p] = g] /\ UNCHANGED <<book, session>>
      BY <2>4, <3>1 DEF Stop, Move
    <3>. QED
      BY <3>2, <3>3, <3>4, OpeningMoves DEF Opens, Leaving
  <2>5. CASE driver[p].pc = "tick" /\ TickRun(p)
    <3>1. f.running /\ f.next = "ran"
      BY <1>1, <2>5 DEF Opens, Leaving
    <3>2. PICK g : g = To(p, "ran")
      OBVIOUS
    <3>3. g.pc = "ran" /\ g.running
      BY <1>1, <3>1, <3>2 DEF To, Frame
    <3>4. /\ driver' = [driver EXCEPT ![p] = g] /\ UNCHANGED <<book, session>>
      BY <1>1, <2>5, <3>1, <3>2 DEF TickRun, Goes, Move
    <3>. QED
      BY <3>3, <3>4, OpeningMoves DEF Opens
  <2>6. CASE driver[p].pc = "leave" /\ Leave(p)
    BY <1>5, <2>6 DEF Leave
  <2>7. CASE driver[p].pc = "ran" /\ Ran(p)
    <3>1. PICK b, g : Records(p, "ran", b, g) /\ \E m : b = [book EXCEPT !.feedback = m] /\ m = Nothing
                      /\ (g = AtRest \/ g = [AtRest EXCEPT !.pc = "continue", !.claims = TRUE])
      BY <1>2, <2>7 DEF Ran
    <3>2. b.feedback = Nothing /\ b.binding = book.binding
      <4>1. b = [book EXCEPT !.feedback = Nothing]
        BY <3>1
      <4>2. book \in Book
        BY DrivenTyped
      <4>. QED
        BY <4>1, <4>2 DEF Book
    <3>3. g.claims => g.pc = "continue" /\ ~g.running
      <4>1. CASE g = AtRest
        BY <4>1 DEF AtRest
      <4>2. CASE g = [AtRest EXCEPT !.pc = "continue", !.claims = TRUE]
        BY <4>2 DEF AtRest
      <4>. QED
        BY <3>1, <4>1, <4>2
    <3>4. g.claims => Opens(g)
      BY <3>3 DEF Opens
    <3>5. /\ driver' = [driver EXCEPT ![p] = g] /\ session' = session
          /\ book'.binding = book.binding /\ book'.feedback = book.feedback
      BY <1>2, <3>1, <3>2 DEF Records, Move
    <3>. QED
      BY <3>4, <3>5, OpeningMoves
  <2>8. CASE driver[p].pc = "continue" /\ ContinueExecution(p)
    <3>1. Goes(p, "continue", AtRest)
      BY <1>2, <2>8 DEF ContinueExecution
    <3>. QED
      BY <1>4, <3>1 DEF AtRest
  <2>9. CASE driver[p].pc = "resumed" /\ Resumed(p)
    <3>1. \/ Rest(p, "resumed")
          \/ /\ session = <<>> /\ Move(p, "resumed", Running(p, FirstMessage))
             /\ session' = <<Of("created")>> /\ UNCHANGED <<vars, book>>
          \/ Goes(p, "resumed", Running(p, FirstMessage))
      BY <1>2, <1>3, <2>9 DEF Resumed, OpeningMessage
    <3>2. PICK g : g = Running(p, FirstMessage)
      OBVIOUS
    <3>3. g.pc = "prompt" /\ g.running /\ g.message = FirstMessage
      BY <1>1, <3>2 DEF Running, To, Frame
    <3>4. CASE /\ session = <<>> /\ Move(p, "resumed", Running(p, FirstMessage))
               /\ session' = <<Of("created")>> /\ UNCHANGED <<vars, book>>
      BY <3>2, <3>3, <3>4, OpeningBegins DEF Move
    <3>5. CASE Goes(p, "resumed", Running(p, FirstMessage))
      BY <1>4, <3>2, <3>3, <3>5 DEF Opens
    <3>. QED
      BY <1>5, <3>1, <3>4, <3>5
  <2>. QED
    BY <2>2, <2>3, <2>4, <2>5, <2>6, <2>7, <2>8, <2>9
<1>. QED
  BY <1>1, <1>7, <1>8 DEF Opens

\* An operator has no part in it.
LEMMA OperatorOpens ==
  ASSUME Driven, Opening, Len(session) < 2, NEW p \in Procs, Drive(p), ~driver[p].claims
  PROVE  Opening'
<1>1. PICK f \in Frame : f = driver[p] /\ Operates(f)
  BY MidCall DEF Fits
<1>2. f.pc \in {"rest", "leave", "terminate", "stop", "tick"} /\ ~InTurn(driver[p])
  BY <1>1 DEF Operates, InTurn
<1>3. Terminate(p) \/ Stop(p) \/ TickRun(p) \/ Leave(p)
  BY <1>1, <1>2, WhoMoves
<1>5. \A pc : ~To(p, pc).claims /\ \A r : ~[To(p, pc) EXCEPT !.reason = r].claims
  BY <1>1 DEF To, Frame
<1>6. CASE Terminate(p)
  <2>1. PICK r : driver' = [driver EXCEPT ![p] = [To(p, "stop") EXCEPT !.reason = r]]
    BY <1>6 DEF Terminate, Goes, Move
  <2>2. UNCHANGED <<book, session>>
    BY <1>6 DEF Terminate, Goes
  <2>. QED
    BY <1>5, <2>1, <2>2, OpeningMoves
<1>7. CASE Stop(p) \/ TickRun(p)
  <2>1. PICK pc : driver' = [driver EXCEPT ![p] = To(p, pc)]
    BY <1>7 DEF Stop, TickRun, Goes, Move
  <2>2. UNCHANGED <<book, session>>
    BY <1>7 DEF Stop, TickRun, Goes
  <2>. QED
    BY <1>5, <2>1, <2>2, OpeningMoves
<1>8. CASE Leave(p)
  BY <1>8, OpeningMoves DEF Leave, Rest, Move, AtRest
<1>. QED
  BY <1>3, <1>6, <1>7, <1>8

\* A method begins.
LEMMA BeginOpens ==
  ASSUME Driven, Opening, Len(session) < 2, NEW p \in Procs, Begin(p)
  PROVE  Opening'
<1>1. driver[p].pc = "rest"
  BY DEF Begin, Start, ReceiveFeedback, Resume, Cancel, CancelMock, Claim, Goes, Move, At
<1>2. driver[p] = AtRest
  BY <1>1, MidCall DEF Fits, Guided
<1>3. CASE Start(p)
  <2>1. PICK g : g = [Running(p, FirstMessage) EXCEPT !.claims = TRUE]
    OBVIOUS
  <2>2. g.pc = "prompt" /\ g.running /\ g.message = FirstMessage
    BY <1>2, <2>1 DEF Running, To, AtRest
  <2>3. /\ driver' = [driver EXCEPT ![p] = g] /\ session = <<>> /\ Unclaimed
        /\ session' = <<Of("created")>> /\ book' = book
    BY <1>3, <2>1 DEF Start, Claim, Move
  <2>. QED
    BY <2>2, <2>3, OpeningBegins
<1>4. CASE ReceiveFeedback(p) \/ Resume(p)
  <2>1. ASSUME NEW pc \in {"continue", "resumed"},
               driver' = [driver EXCEPT ![p] = [To(p, pc) EXCEPT !.claims = TRUE]]
        PROVE  Opening'
    <3>1. PICK g : g = [To(p, pc) EXCEPT !.claims = TRUE]
      OBVIOUS
    <3>2. g.pc = pc /\ ~g.running
      BY <1>2, <3>1 DEF To, AtRest
    <3>3. driver' = [driver EXCEPT ![p] = g]
      BY <2>1, <3>1
    <3>4. UNCHANGED <<book, session>>
      BY <1>4 DEF ReceiveFeedback, Resume
    <3>. QED
      BY <3>2, <3>3, <3>4, OpeningMoves DEF Opens
  <2>2. \/ driver' = [driver EXCEPT ![p] = [To(p, "continue") EXCEPT !.claims = TRUE]]
        \/ driver' = [driver EXCEPT ![p] = [To(p, "resumed") EXCEPT !.claims = TRUE]]
    BY <1>4 DEF ReceiveFeedback, Resume, Claim, Move
  <2>. QED
    BY <2>1, <2>2
<1>5. CASE Cancel(p) \/ CancelMock(p)
  <2>1. PICK g : ~g.claims /\ driver' = [driver EXCEPT ![p] = g]
    BY <1>5 DEF Cancel, CancelMock, Goes, Move, AtRest
  <2>2. UNCHANGED <<book, session>>
    BY <1>5 DEF Cancel, CancelMock, Goes
  <2>. QED
    BY <2>1, <2>2, OpeningMoves
<1>. QED
  BY <1>3, <1>4, <1>5 DEF Begin

LEMMA OpeningStep ==
  ASSUME Driven, Opening, [RuntimeNext]_allvars
  PROVE  Opening'
<1>1. CASE Len(session) > 1
  BY <1>1, TaskStays
<1>2. CASE Len(session) < 2
  <2>1. CASE UNCHANGED driving
    BY <2>1 DEF driving, Opening, TaskFirst, Bound, Opens, Leaving, FirstMessage
  <2>2. ASSUME NEW p \in Procs, Die(p)
        PROVE  Opening'
    BY <1>2, <2>2, OpeningMoves DEF Die, AtRest
  <2>3. ASSUME NEW p \in Procs, Begin(p) \/ Drive(p)
        PROVE  Opening'
    BY <1>2, <2>3, BeginOpens, OpensDrive, OperatorOpens
  <2>. QED
    BY <2>1, <2>2, <2>3 DEF RuntimeNext, allvars
<1>3. Len(session) \in Nat
  BY DrivenTyped
<1>. QED
  BY <1>1, <1>2, <1>3

\* The agent is given its task before anything else, whatever dies while it
\* begins (runtime.py 129-139, 346-348).
THEOREM TaskComesFirst == RuntimeSpec => []TaskFirst
<1>1. DriverInit => Opening
  <2>1. ASSUME DriverInit
        PROVE  Opening
    <3>1. session = <<>> /\ book.feedback = Nothing /\ book.binding.call = 0
      BY <2>1 DEF DriverInit, NewBook, NoBinding
    <3>2. \A p \in Procs : ~driver[p].claims
      BY <2>1 DEF DriverInit, AtRest
    <3>3. Len(session) = 0
      BY <3>1
    <3>. QED
      BY <3>1, <3>2, <3>3 DEF Opening, TaskFirst, Bound
  <2>. QED
    BY <2>1
<1>2. (Serial /\ Driven) /\ Opening /\ [RuntimeNext]_allvars => Opening'
  BY OpeningStep
<1>3. Opening => TaskFirst
  BY DEF Opening
<1>. QED
  BY <1>1, <1>2, <1>3, DrivenInvariant, PTL DEF RuntimeSpec
=============================================================================
