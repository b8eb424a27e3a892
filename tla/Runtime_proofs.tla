--------------------------- MODULE Runtime_proofs ---------------------------
(***************************************************************************)
(* Theorems about the runtime: what drives a run only takes the steps of   *)
(* Scheduler, whose theorems therefore hold of it; and no crash makes it   *)
(* tell the agent a result twice, or one that is not so.                   *)
(***************************************************************************)
EXTENDS RuntimeInvariant, Plan_proofs

USE DEF NoTime, NoIntent

LEMMA DriverFacts ==
  /\ Run \in Runs /\ StopRequests = StopReasons /\ MaxReplans < MaxPlan
  /\ {MaxModelCalls, MaxApiRetries, MaxInvalidProposals, MaxReplans, MaxCrashes} \subseteq Nat
  /\ MaxPlan \in Nat /\ Capacity \in Nat \ {0} /\ None \notin Actions
  BY DriverAssumption, SchedulerAssumption DEF DriverAssumption, SchedulerAssumption

-----------------------------------------------------------------------------
(* Every step of a driver is one of the scheduler, or none.                *)

\* What a driver does on its own is no step of the scheduler.
LEMMA OwnSteps ==
  ASSUME NEW p, NEW pc, NEW frame,
         \/ Rest(p, pc) \/ Goes(p, pc, frame)
         \/ \E event : Tells(p, pc, event, frame)
         \/ \E newBook : Records(p, pc, newBook, frame)
  PROVE  UNCHANGED vars
  BY DEF Rest, Goes, Tells, Records

LEMMA ProposalIsBatch ==
  ASSUME NEW a \in Actions, action[a].run_id = None
  PROVE  <<a>> \in Batches
<1>. DEFINE unused == {b \in Actions : action[b].run_id = None}
<1>1. <<a>> \in [1..1 -> unused]
  OBVIOUS
<1>2. <<a>> \in Injection(1..1, unused)
  BY <1>1 DEF Injection, IsInjective
<1>3. 1 \in 1..Capacity
  BY DriverFacts
<1>. QED
  BY <1>2, <1>3 DEF Batches

\* A call of the scheduler for the run that is driven.
LEMMA CallIsStep ==
  ASSUME \/ Call(Run)
         \/ \E p \in Procs : Step(p) \/ Crash(p)
         \/ \E a \in Actions : Feedback(a)
         \/ Environment
         \/ UNCHANGED vars
  PROVE  [Next]_vars
  BY DriverFacts DEF Next

LEMMA CloseAgain ==
  ASSUME Serial, PlanIsDone, Close(Run, state[Run].next_sequence - 1), UNCHANGED <<robot, proc>>
  PROVE  [Next]_vars
<1>1. CASE ~state[Run].closed
  BY <1>1, CallIsStep DEF Closing, Call
<1>2. CASE state[Run].closed
  <2>1. state' = state
    BY <1>2, DriverFacts DEF Close, Serial, Safe, TypeOK, TypeLedger, RunState
  <2>. QED
    BY <2>1, CallIsStep DEF Close, vars, robot
<1>. QED
  BY <1>1, <1>2

LEMMA TurnIsStep ==
  ASSUME Serial, NEW p \in Procs, Turn(p)
  PROVE  [Next]_vars
<1>1. CASE Prompt(p) \/ ResumeTurn(p) \/ TakeModelCall(p) \/ ModelFails(p)
        \/ ModelAnswers(p) \/ ModelBreaksOff(p)
  BY <1>1, OwnSteps DEF Prompt, ResumeTurn, TakeModelCall, ModelFails, ModelAnswers, ModelBreaksOff
<1>2. CASE Repeated(p) \/ Receive(p) \/ Conclude(p) \/ Respond(p) \/ ObserveTool(p)
  BY <1>2, OwnSteps DEF Repeated, Receive, Conclude, Respond, ObserveTool
<1>3. CASE Propose(p)
  <2>1. CASE UNCHANGED vars
    BY <2>1
  <2>2. ASSUME NEW a \in Actions, action[a].run_id = None, AppendActions(Run, <<a>>),
               UNCHANGED <<robot, proc>>
        PROVE  [Next]_vars
    BY <2>2, ProposalIsBatch, CallIsStep DEF Appending, Call
  <2>. QED
    BY <1>3, <2>1, <2>2, OwnSteps DEF Propose
<1>4. CASE DispatchNext(p)
  <2>1. CASE UNCHANGED vars
    BY <2>1
  <2>2. ASSUME NEW a \in Actions, Dispatch(p, Run, a)
        PROVE  [Next]_vars
    BY <2>2, CallIsStep DEF Call
  <2>3. NextUp \subseteq Actions
    BY DEF NextUp, Unverified, Current, ActionsOf
  <2>. QED
    BY <1>4, <2>1, <2>2, <2>3, OwnSteps DEF DispatchNext
<1>5. CASE FinishTask(p)
  BY <1>5, CloseAgain, OwnSteps DEF FinishTask
<1>6. CASE VerifyFinal(p)
  <2>1. CASE UNCHANGED vars
    BY <2>1
  <2>2. CASE (PassFinal(Run) \/ FailVerification(Run)) /\ UNCHANGED <<robot, proc>>
    BY <2>2, CallIsStep DEF Verifying, Call
  <2>3. CASE UNCHANGED ledger /\ UNCHANGED <<robot, proc>>
    BY <2>3 DEF ledger, robot, vars
  <2>. QED
    BY <1>6, <2>1, <2>2, <2>3, OwnSteps DEF VerifyFinal, Passed
<1>. QED
  BY <1>1, <1>2, <1>3, <1>4, <1>5, <1>6 DEF Turn

LEMMA DriveIsStep ==
  ASSUME Serial, NEW p \in Procs, Fits(driver[p]), Drive(p)
  PROVE  [Next]_vars
<1>1. CASE Turn(p)
  BY <1>1, TurnIsStep
<1>2. CASE \/ Refresh(p) \/ Terminate(p) \/ Recover(p) \/ Replanned(p) \/ RunLoop(p)
           \/ Returned(p) \/ Invalid(p) \/ Reply(p) \/ Deliver(p) \/ Ran(p)
           \/ ContinueExecution(p) \/ JudgedBefore(p) \/ Prepare(p) \/ Leave(p)
  BY <1>2, OwnSteps DEF Refresh, Terminate, Recover, Replanned, RunLoop, Returned, Invalid,
       Reply, Deliver, Ran, ContinueExecution, JudgedBefore, Prepare, Leave
<1>3. CASE ObserveWorld(p)
  BY <1>3, OwnSteps, CallIsStep DEF ObserveWorld, Call
<1>4. CASE Stop(p)
  <2>1. driver[p].reason \in StopRequests
    BY <1>4, DriverFacts DEF Stop, Move, At, Fits, Guided
  <2>. QED
    BY <1>4, <2>1, CallIsStep DEF Stop, Call
<1>5. CASE TickRun(p)
  BY <1>5, OwnSteps, CallIsStep DEF TickRun, Call
<1>6. CASE ReviseRun(p)
  <2>1. CASE Revise(Run, state[Run].observation) /\ state[Run].plan_version < MaxPlan
             /\ UNCHANGED <<robot, proc>>
    BY <2>1, CallIsStep DEF Revising, Call
  <2>. QED
    BY <1>6, <2>1, OwnSteps DEF ReviseRun
<1>7. CASE TimeOut(p)
  <2>1. CASE proc[p] = Idle
    <3>1. proc' = proc
      BY <1>7, <2>1 DEF TimeOut, Serial, Safe, TypeOK
    <3>. QED
      BY <1>7, <3>1 DEF TimeOut, vars, ledger, robot
  <2>2. CASE proc[p] # Idle
    BY <1>7, <2>2, CallIsStep DEF TimeOut, Crash
  <2>. QED
    BY <2>1, <2>2
<1>8. CASE Judge(p)
  <2>1. CASE UNCHANGED vars
    BY <2>1
  <2>2. CASE (PassCheckpoint(Run, driver[p].act) \/ FailVerification(Run)) /\ UNCHANGED <<robot, proc>>
    <3>1. PassCheckpoint(Run, driver[p].act) => driver[p].act \in Actions
      BY DEF PassCheckpoint, Finished, Current, ActionsOf
    <3>. QED
      BY <2>2, <3>1, CallIsStep DEF Verifying, Call
  <2>. QED
    BY <1>8, <2>1, <2>2, OwnSteps DEF Judge
<1>9. CASE Resumed(p)
  BY <1>9, OwnSteps DEF Resumed
<1>. QED
  BY <1>1, <1>2, <1>3, <1>4, <1>5, <1>6, <1>7, <1>8, <1>9 DEF Drive

LEMMA RuntimeIsStep ==
  ASSUME Serial, \A p \in Procs : Fits(driver[p]), [RuntimeNext]_allvars
  PROVE  [Next]_vars
<1>1. CASE UNCHANGED allvars
  BY <1>1 DEF allvars
<1>2. CASE Environment
  BY <1>2, CallIsStep
<1>3. ASSUME NEW p \in Procs, Step(p)
      PROVE  [Next]_vars
  BY <1>3, CallIsStep
<1>4. ASSUME NEW p \in Procs, Begin(p)
      PROVE  [Next]_vars
  <2>1. CASE Start(p) \/ Cancel(p) \/ CancelMock(p)
    BY <2>1, OwnSteps DEF Start, Cancel, CancelMock
  <2>2. CASE ReceiveFeedback(p)
    BY <2>2, CallIsStep DEF ReceiveFeedback, ActionsOf
  <2>3. CASE Resume(p)
    BY <1>4, <2>3, CallIsStep DEF Resume, Call
  <2>. QED
    BY <1>4, <2>1, <2>2, <2>3 DEF Begin
<1>5. ASSUME NEW p \in Procs, Drive(p)
      PROVE  [Next]_vars
  BY <1>5, DriveIsStep
<1>6. ASSUME NEW p \in Procs, Die(p)
      PROVE  [Next]_vars
  <2>1. CASE proc[p] = Idle
    <3>1. proc' = proc
      BY <1>6, <2>1 DEF Die, Serial, Safe, TypeOK
    <3>. QED
      BY <1>6, <3>1 DEF Die, vars, ledger, robot
  <2>2. CASE proc[p] # Idle
    BY <1>6, <2>2, CallIsStep DEF Die, Crash
  <2>. QED
    BY <2>1, <2>2
<1>. QED
  BY <1>1, <1>2, <1>3, <1>4, <1>5, <1>6 DEF RuntimeNext
-----------------------------------------------------------------------------
(* What changes leave of the accounts and of the frames.                   *)

\* Ends are for good, and so are verdicts.
EndsKept == \A a \in Actions : action[a].status \in TERMINAL => action'[a].status = action[a].status
VerdictsKept == \A a \in Actions : book.verdict[a] # "none" => book'.verdict[a] # "none"

\* The frames keep fitting.
AllFit == \A f \in Frame : Fits(f) => Fits(f)'

LEMMA SettledStays ==
  ASSUME EndsKept, VerdictsKept, NEW a \in Actions, Settled(a)
  PROVE  Settled(a)'
  BY DEF EndsKept, VerdictsKept, Settled

LEMMA DrivenTyped ==
  ASSUME Driven
  PROVE  /\ book \in Book /\ session \in Seq(SessionEvent) /\ driver \in [Procs -> Frame]
         /\ crashes \in 0..MaxCrashes /\ TypeOK
  BY DEF Driven, RuntimeTypeOK

LEMMA EventTyped ==
  ASSUME Driven, NEW i \in DOMAIN session
  PROVE  i \in 1..Len(session) /\ session[i] \in SessionEvent
<1>1. session \in Seq(SessionEvent)
  BY DrivenTyped
<1>. QED
  BY <1>1

\* Frames that fit look at the ledger for ends and verdicts only.
LEMMA FitsStays ==
  ASSUME EndsKept, VerdictsKept, UNCHANGED session,
         book'.binding = book.binding, book'.feedback = book.feedback
  PROVE  AllFit
<1>. SUFFICES ASSUME NEW f \in Frame, Fits(f) PROVE Fits(f)'
  BY DEF AllFit
<1>1. Guided(f)' /\ (~f.claims => Operates(f)')
  BY DEF Fits, Guided, Operates
<1>. SUFFICES ASSUME f.claims PROVE (CarriesNews(f) /\ DeliversFirst(f) /\ LooksAfter(f))'
  BY <1>1 DEF Fits
<1>2. CarriesNews(f) /\ DeliversFirst(f) /\ LooksAfter(f)
  BY DEF Fits
<1>3. f.message.act # None /\ f.message.kind = "result" => f.message.act \in Actions
  BY DEF Frame, SessionEvent, Nothing
<1>4. CarriesNews(f)'
  BY <1>2, <1>3, SettledStays DEF CarriesNews, Has, Rejected
<1>5. DeliversFirst(f)'
  BY <1>2 DEF DeliversFirst, Has, Leaving
<1>6. LooksAfter(f)'
  <2>1. f.act # None => f.act \in Actions
    BY DEF Frame
  <2>. QED
    BY <1>2, <2>1, SettledStays DEF LooksAfter, Judging, JudgedIn, EndsKept
<1>. QED
  BY <1>4, <1>5, <1>6

\* The part of the accounts that is about the ledger.
LedgerKept ==
  /\ EndsKept
  /\ \A a \in Actions : action'[a].verified => action[a].verified
  /\ ActionsOf(Run)' = ActionsOf(Run)

LEMMA AccountsStay ==
  ASSUME Driven, EndsKept, VerdictsKept, VerifiedIsJudged', ActionsOf(Run)' = ActionsOf(Run),
         UNCHANGED session, book'.binding = book.binding, book'.feedback = book.feedback
  PROVE  Accounts'
<1>0. Accounts
  BY DEF Driven
<1>1. Numbered' /\ ResultsOnce' /\ BindingOK'
  BY <1>0 DEF Accounts, Numbered, ResultsOnce, BindingOK, Bound, BoundCallKnown, Rejected, Has
<1>2. OutboxOK'
  <2>1. book.feedback # Nothing /\ book.feedback.act # None => book.feedback.act \in Actions
    <3>1. book.feedback \in SessionEvent \cup {Nothing}
      BY DrivenTyped DEF Book
    <3>. QED
      BY <3>1 DEF SessionEvent
  <2>2. book.feedback # Nothing /\ book.feedback.act # None => Settled(book.feedback.act)'
    <3>. SUFFICES ASSUME book.feedback # Nothing, book.feedback.act # None
                  PROVE  Settled(book.feedback.act)'
      OBVIOUS
    <3>1. PICK a \in Actions : a = book.feedback.act
      BY <2>1
    <3>2. Settled(a)
      BY <1>0, <3>1 DEF Accounts, OutboxOK
    <3>. QED
      BY <1>0, <3>1, <3>2, SettledStays
  <2>. QED
    BY <1>0, <2>2 DEF Accounts, OutboxOK, Rejected
<1>3. ResultsTrue'
  <2>. SUFFICES ASSUME NEW i \in DOMAIN session, session[i].kind = "result", session[i].act # None
                PROVE  Settled(session[i].act)'
    BY DEF ResultsTrue, Settled
  <2>1. session[i].act \in Actions
    BY EventTyped DEF SessionEvent
  <2>2. Settled(session[i].act)
    BY <1>0 DEF Accounts, ResultsTrue, Settled
  <2>. QED
    BY <1>0, <2>1, <2>2, SettledStays
<1>4. ActionsOf(Run)' # {} => session' # <<>>
  BY <1>0 DEF Accounts
<1>. QED
  BY <1>1, <1>2, <1>3, <1>4 DEF Accounts

\* One process moves; the others have no claim, or find all they need.
LEMMA MoveKeeps ==
  ASSUME Driven, Accounts', TypeOK', book' \in Book, session' \in Seq(SessionEvent),
         crashes' \in 0..MaxCrashes,
         NEW p \in Procs, NEW g \in Frame, driver' = [driver EXCEPT ![p] = g], Fits(g)',
         g.claims => driver[p].claims \/ Unclaimed,
         AllFit \/ driver[p].claims \/ Unclaimed
  PROVE  Driven'
<1>1. RuntimeTypeOK'
  BY DrivenTyped DEF RuntimeTypeOK
<1>2. driver'[p] = g /\ \A q \in Procs \ {p} : driver'[q] = driver[q]
  BY DrivenTyped
<1>3. ASSUME NEW q \in Procs
      PROVE  Fits(driver[q])'
  <2>1. CASE q = p
    BY <1>2, <2>1
  <2>2. CASE q # p
    <3>1. PICK f \in Frame : f = driver[q]
      BY DrivenTyped
    <3>2. Fits(f) /\ driver'[q] = f
      BY <1>2, <2>2, <3>1 DEF Driven
    <3>3. Fits(f)'
      <4>1. CASE AllFit
        BY <3>2, <4>1 DEF AllFit
      <4>2. CASE ~f.claims
        BY <3>2, <4>2 DEF Fits, Guided, Operates
      <4>. QED
        BY <2>2, <3>1, <4>1, <4>2 DEF Driven, Exclusive, Unclaimed
    <3>. QED
      BY <3>2, <3>3
  <2>. QED
    BY <2>1, <2>2
<1>4. Exclusive'
  <2>. SUFFICES ASSUME NEW q \in Procs, NEW o \in Procs, driver'[q].claims, driver'[o].claims
                PROVE  q = o
    BY DEF Exclusive
  <2>. QED
    BY <1>2 DEF Driven, Exclusive, Unclaimed
<1>. QED
  BY <1>1, <1>3, <1>4 DEF Driven
-----------------------------------------------------------------------------
(* Steps that leave session, binding, outbox and verdicts alone.           *)

LEMMA QuietKeeps ==
  ASSUME Driven, LedgerKept, TypeOK', UNCHANGED session, book' \in Book,
         book'.verdict = book.verdict, book'.binding = book.binding,
         book'.feedback = book.feedback, crashes' \in 0..MaxCrashes,
         NEW p \in Procs, NEW g \in Frame, driver' = [driver EXCEPT ![p] = g], Fits(g),
         g.claims => driver[p].claims \/ Unclaimed
  PROVE  Driven'
<1>0. EndsKept /\ VerdictsKept /\ VerifiedIsJudged' /\ ActionsOf(Run)' = ActionsOf(Run)
  BY DEF LedgerKept, VerdictsKept, VerifiedIsJudged, Driven, Accounts
<1>1. Accounts' /\ AllFit
  BY <1>0, AccountsStay, FitsStays
<1>2. Fits(g)'
  BY <1>1 DEF AllFit
<1>. QED
  BY <1>1, <1>2, DrivenTyped, MoveKeeps

LEMMA NothingKept ==
  ASSUME Driven, UNCHANGED vars
  PROVE  LedgerKept /\ TypeOK'
<1>1. TypeOK'
  BY DrivenTyped DEF TypeOK, TypeExecutor, TypeLedger, vars
<1>. QED
  BY <1>1 DEF LedgerKept, EndsKept, ActionsOf, vars

LEMMA GoesKeeps ==
  ASSUME Driven, NEW p \in Procs, NEW pc, NEW g \in Frame, Goes(p, pc, g), Fits(g),
         g.claims => driver[p].claims \/ Unclaimed
  PROVE  Driven'
<1>1. /\ driver' = [driver EXCEPT ![p] = g] /\ crashes' = crashes
      /\ UNCHANGED vars /\ UNCHANGED <<book, session>>
  BY DEF Goes, Move
<1>. QED
  BY <1>1, NothingKept, DrivenTyped, QuietKeeps

LEMMA RestKeeps ==
  ASSUME Driven, NEW p \in Procs, NEW pc, Rest(p, pc)
  PROVE  Driven'
<1>1. AtRest \in Frame /\ ~AtRest.claims /\ Fits(AtRest) /\ Goes(p, pc, AtRest)
  BY DEF AtRest, Frame, Places, Fits, Guided, Operates, InRun, OutOfRun, Rest, Goes
<1>. QED
  BY <1>1, GoesKeeps

\* Only what is counted is recorded.
LEMMA CountsKeep ==
  ASSUME Driven, NEW p \in Procs, NEW pc, NEW b \in Book, NEW g \in Frame, Records(p, pc, b, g),
         b.verdict = book.verdict, b.binding = book.binding, b.feedback = book.feedback,
         Fits(g), g.claims => driver[p].claims \/ Unclaimed
  PROVE  Driven'
<1>1. /\ driver' = [driver EXCEPT ![p] = g] /\ crashes' = crashes
      /\ UNCHANGED vars /\ UNCHANGED session /\ book' = b
  BY DEF Records, Move
<1>. QED
  BY <1>1, NothingKept, DrivenTyped, QuietKeeps

-----------------------------------------------------------------------------
(* Frames.                                                                 *)

LEMMA ToTyped ==
  ASSUME Driven, NEW p \in Procs, NEW pc \in Places
  PROVE  /\ driver[p] \in Frame /\ Fits(driver[p])
         /\ To(p, pc) \in Frame /\ To(p, pc).pc = pc
         /\ To(p, pc).claims = driver[p].claims /\ To(p, pc).running = driver[p].running
         /\ To(p, pc).next = driver[p].next /\ To(p, pc).reason = driver[p].reason
         /\ To(p, pc).delivering = driver[p].delivering /\ To(p, pc).act = driver[p].act
         /\ To(p, pc).message = driver[p].message /\ To(p, pc).paused = driver[p].paused
<1>1. driver[p] \in Frame /\ Fits(driver[p])
  BY DrivenTyped DEF Driven
<1>. QED
  BY <1>1 DEF To, Frame

\* A driver in _run that has delivered the outbox.
Busy(f) == /\ f.claims /\ f.running
           /\ book.feedback # Nothing => Has("result", book.feedback.call)

LEMMA InRunIsBusy ==
  ASSUME NEW f \in Frame, Fits(f),
         f.pc \in InRun \/ f.running,
         f.pc # "ran", ~Leaving(f), f.pc \notin {"prompt", "agent"} \/ f.message.kind # "result",
         OutboxOK
  PROVE  Busy(f)
<1>1. f.running
  BY DEF Fits, Guided
<1>2. f.claims
  BY <1>1 DEF Fits, Operates
<1>. QED
  BY <1>1, <1>2 DEF Busy, Fits, DeliversFirst, OutboxOK

LEMMA BusyFits ==
  ASSUME NEW f \in Frame, Fits(f), Busy(f), NEW g \in Frame, Guided(g), g.claims, g.running,
         g.message = f.message \/ (g.message.kind # "result" /\ g.message.call = 0),
         g.pc \notin {"prompt", "agent"} \/ ~Rejected
  PROVE  Fits(g)
<1>1. CarriesNews(g)
  <2>1. CarriesNews(f)
    BY DEF Fits, Busy
  <2>2. Len(session) >= 0 /\ g.message.call <= Len(session)
    BY <2>1 DEF CarriesNews
  <2>. QED
    BY <2>1, <2>2 DEF CarriesNews
<1>2. DeliversFirst(g)
  BY DEF Fits, DeliversFirst, Busy
<1>3. LooksAfter(g)
  BY DEF LooksAfter, Judging, JudgedIn, Guided, OutOfRun
<1>. QED
  BY <1>1, <1>2, <1>3 DEF Fits
\* An exception leads out of _run, and out of continue_execution.
LEMMA RaisedFits ==
  ASSUME Driven, NEW p \in Procs, driver[p].claims, driver[p].pc # "rest"
  PROVE  Raised(p) \in Frame /\ Fits(Raised(p)) /\ Raised(p).claims
<1>1. PICK f \in Frame : f = driver[p] /\ Fits(f)
  BY DrivenTyped DEF Driven
<1>2. PICK g : g = Raised(p)
  OBVIOUS
<1>3. /\ g \in Frame /\ g.pc = "terminate" /\ g.reason = "failure"
      /\ g.next = (IF f.running THEN "ran" ELSE "leave")
      /\ g.claims /\ g.running = f.running /\ g.message = f.message /\ g.act = f.act
  <2>. DEFINE next == IF f.running THEN "ran" ELSE "leave"
  <2>1. g = [f EXCEPT !.pc = "terminate", !.reason = "failure", !.next = next]
    BY <1>1, <1>2 DEF Raised
  <2>2. next \in Places /\ {"terminate"} \subseteq Places /\ "failure" \in StopReasons
    BY DEF Places, StopReasons
  <2>. HIDE DEF next
  <2>. QED
    BY <1>1, <2>1, <2>2 DEF Frame, next
<1>4. Guided(g)
  BY <1>3 DEF Guided, InRun, OutOfRun, StopReasons
<1>5. CarriesNews(g) /\ DeliversFirst(g) /\ LooksAfter(g)
  BY <1>1, <1>3 DEF Fits, CarriesNews, DeliversFirst, LooksAfter, Judging, JudgedIn, Leaving
<1>. QED
  BY <1>2, <1>3, <1>4, <1>5 DEF Fits

LEMMA RaisesKeeps ==
  ASSUME Driven, NEW p \in Procs, NEW pc, Goes(p, pc, Raised(p)), driver[p].claims, pc # "rest"
  PROVE  Driven'
  BY RaisedFits, GoesKeeps DEF Goes, Move, At

\* From place to place in _run, and where the model's call begins or goes on.
LEMMA RunsOn ==
  ASSUME Driven, NEW p \in Procs, Busy(driver[p]), NEW pc \in InRun \ {"prompt", "agent"},
         NEW paused \in BOOLEAN
  PROVE  /\ To(p, pc) \in Frame /\ Fits(To(p, pc)) /\ To(p, pc).claims
         /\ [To(p, pc) EXCEPT !.paused = paused] \in Frame
         /\ Fits([To(p, pc) EXCEPT !.paused = paused])
         /\ [To(p, pc) EXCEPT !.paused = paused].claims
         /\ [To(p, pc) EXCEPT !.answering = paused] \in Frame
         /\ Fits([To(p, pc) EXCEPT !.answering = paused])
         /\ [To(p, pc) EXCEPT !.answering = paused].claims
<1>1. pc \in Places
  BY DEF InRun, Places
<1>2. PICK g \in Frame : g = To(p, pc)
  BY <1>1, ToTyped
<1>3. /\ g.pc = pc /\ g.claims /\ g.running /\ g.message = driver[p].message
  BY <1>1, <1>2, ToTyped DEF Busy, Frame
<1>4. ASSUME NEW h \in Frame, \/ h = g
                              \/ h = [g EXCEPT !.paused = paused]
                              \/ h = [g EXCEPT !.answering = paused]
      PROVE  Fits(h) /\ h.claims
  <2>1. h.pc = pc /\ h.claims /\ h.running /\ h.message = driver[p].message
    BY <1>3, <1>4 DEF Frame
  <2>2. Guided(h)
    BY <2>1 DEF Guided, InRun, OutOfRun
  <2>. QED
    BY <1>1, <2>1, <2>2, ToTyped, BusyFits
<1>5. [g EXCEPT !.paused = paused] \in Frame /\ [g EXCEPT !.answering = paused] \in Frame
  BY DEF Frame
<1>. QED
  BY <1>2, <1>4, <1>5

\* Where the answer of the model leads.
LEMMA AnswersOn ==
  ASSUME Driven, NEW p \in Procs, Busy(driver[p]), NEW pc \in InRun \ {"prompt", "agent"},
         NEW paused \in BOOLEAN, NEW answering \in BOOLEAN
  PROVE  /\ [To(p, pc) EXCEPT !.paused = paused, !.answering = answering] \in Frame
         /\ Fits([To(p, pc) EXCEPT !.paused = paused, !.answering = answering])
         /\ [To(p, pc) EXCEPT !.paused = paused, !.answering = answering].claims
<1>1. pc \in Places
  BY DEF InRun, Places
<1>2. PICK f \in Frame : f = To(p, pc)
  BY <1>1, ToTyped
<1>3. PICK g \in Frame : g = [f EXCEPT !.paused = paused, !.answering = answering]
  <2>1. [f EXCEPT !.paused = paused, !.answering = answering] \in Frame
    BY DEF Frame
  <2>. QED
    BY <2>1
<1>4. g.pc = pc /\ g.claims /\ g.running /\ g.message = driver[p].message
  BY <1>1, <1>2, <1>3, ToTyped DEF Busy, Frame
<1>5. Guided(g)
  BY <1>4 DEF Guided, InRun, OutOfRun
<1>6. Fits(g)
  BY <1>1, <1>4, <1>5, ToTyped, BusyFits
<1>. QED
  BY <1>2, <1>3, <1>4, <1>6

\* A process in _run, at one of the places from which a turn goes on.
LEMMA AtWorkIsBusy ==
  ASSUME Driven, NEW p \in Procs, driver[p].pc \in InRun \ {"ran"},
         driver[p].pc \in {"prompt", "agent"} => driver[p].message.kind # "result"
  PROVE  Busy(driver[p]) /\ driver[p].claims /\ driver[p].pc # "rest"
<1>1. PICK f \in Frame : f = driver[p] /\ Fits(f)
  BY DrivenTyped DEF Driven
<1>2. /\ f.pc \in InRun /\ f.pc # "ran" /\ f.pc # "rest" /\ ~Leaving(f)
      /\ f.pc \in {"prompt", "agent"} => f.message.kind # "result"
  BY <1>1 DEF Leaving, InRun
<1>3. OutboxOK
  BY DEF Driven, Accounts
<1>4. Busy(f)
  BY <1>1, <1>2, <1>3, InRunIsBusy
<1>. QED
  BY <1>1, <1>2, <1>4 DEF Busy

LEMMA NothingToSay ==
  ASSUME Driven, NEW p \in Procs, driver[p].message = Nothing
  PROVE  driver[p].message.kind # "result"
  BY DEF Nothing

-----------------------------------------------------------------------------
(* The agent's turn.                                                       *)

\* An event that is no result.
LEMMA TellsKeeps ==
  ASSUME Driven, NEW p \in Procs, NEW pc, NEW event \in SessionEvent, NEW g \in Frame,
         Tells(p, pc, event, g), event.kind # "result", event.call <= Len(session),
         session # <<>>, Fits(g), g.claims, driver[p].claims
  PROVE  Driven'
<1>1. /\ driver' = [driver EXCEPT ![p] = g] /\ crashes' = crashes
      /\ UNCHANGED vars /\ UNCHANGED book /\ session' = Append(session, event)
  BY DEF Tells, Move
<1>2. /\ session \in Seq(SessionEvent) /\ session' \in Seq(SessionEvent)
      /\ Len(session') = Len(session) + 1 /\ session'[Len(session) + 1] = event
      /\ \A i \in 1..Len(session) : session'[i] = session[i]
      /\ DOMAIN session = 1..Len(session) /\ DOMAIN session' = 1..(Len(session) + 1)
      /\ Len(session) \in Nat
  BY <1>1, DrivenTyped
<1>. HIDE DEF Driven
<1>3. \A c : Has("result", c)' <=> Has("result", c)
  BY <1>2 DEF Has
<1>4. Accounts
  BY DEF Driven
<1>5. /\ action' = action /\ book' = book
  BY <1>1 DEF vars
<1>6. Numbered'
  BY <1>2, <1>4 DEF Accounts, Numbered, SessionEvent
<1>7. BindingOK' /\ VerifiedIsJudged'
  BY <1>2, <1>3, <1>4, <1>5 DEF Accounts, BindingOK, VerifiedIsJudged, Bound, BoundCallKnown, Rejected
<1>8. OutboxOK'
  BY <1>2, <1>4, <1>5 DEF Accounts, OutboxOK, Rejected, Settled
<1>9. ResultsOnce' /\ ResultsTrue'
  BY <1>2, <1>4, <1>5 DEF Accounts, ResultsOnce, ResultsTrue
<1>10. session' # <<>>
  BY <1>2
<1>11. Accounts'
  BY <1>6, <1>7, <1>8, <1>9, <1>10 DEF Accounts
<1>12. Fits(g)'
  <2>1. Guided(g)'
    BY DEF Fits, Guided
  <2>2. CarriesNews(g)'
    <3>1. g.message.call <= Len(session')
      BY <1>2 DEF Fits, CarriesNews, Frame, SessionEvent, Nothing
    <3>. QED
      BY <1>3, <1>5, <3>1 DEF Fits, CarriesNews, Rejected, Settled
  <2>3. DeliversFirst(g)'
    BY <1>3, <1>5, <1>10 DEF Fits, DeliversFirst, Leaving
  <2>4. LooksAfter(g)'
    BY <1>5 DEF Fits, LooksAfter, Judging, JudgedIn, Settled
  <2>. QED
    BY <2>1, <2>2, <2>3, <2>4 DEF Fits
<1>. QED
  BY <1>1, <1>2, <1>5, <1>11, <1>12, DrivenTyped, NothingKept, MoveKeeps
-----------------------------------------------------------------------------
(* No transaction but verify passes a checkpoint.                          *)

ChecksStay == \A a \in Actions : action'[a].verified => action[a].verified

LEMMA ChecksUnknown ==
  ASSUME Safe, NEW r \in Runs, NEW a \in Actions, MarkUnknown(r, a)
  PROVE  ChecksStay
  BY DEF ChecksStay, MarkUnknown, Safe, TypeOK, TypeLedger, ActionRecord

LEMMA ChecksSnapshot ==
  ASSUME Safe, NEW r \in Runs, NEW a \in Actions, NEW n, AcceptSnapshot(r, a, n)
  PROVE  ChecksStay
<1>. DEFINE s == StatusFound(a, n)
<1>1. action' = [action EXCEPT ![a] = [action[a] EXCEPT !.execution_id = TRUE, !.status = s]]
  BY DEF AcceptSnapshot
<1>. HIDE DEF s
<1>. QED
  BY <1>1 DEF ChecksStay, Safe, TypeOK, TypeLedger, ActionRecord

LEMMA ChecksApply ==
  ASSUME Safe, NEW r \in Runs, NEW a \in Actions, NEW n, Apply(r, a, n)
  PROVE  ChecksStay
<1>. DEFINE s == StatusReported(a, events[a][n])
            t == IF Confirms(events[a][n]) THEN events[a][n].at ELSE action[a].finished_at
<1>1. \/ action' = action
      \/ action' = [action EXCEPT ![a] = [action[a] EXCEPT !.last_event_sequence = n,
                      !.status = s, !.finished_at = t]]
  BY DEF Apply
<1>. HIDE DEF s, t
<1>. QED
  BY <1>1 DEF ChecksStay, Safe, TypeOK, TypeLedger, ActionRecord

LEMMA ChecksFreeze ==
  ASSUME Safe, NEW r \in Runs, NEW reason, FreezePlan(r, reason)
  PROVE  ChecksStay
<1>. SUFFICES ASSUME NEW a \in Actions PROVE action'[a].verified = action[a].verified
  BY DEF ChecksStay
<1>1. action[a] \in ActionRecord
  BY DEF Safe, TypeOK, TypeLedger
<1>2. CASE a \notin Pending(r)
  BY <1>2 DEF FreezePlan
<1>3. CASE a \in Pending(r) /\ Droppable(a)
  <2>1. action'[a] = [action[a] EXCEPT !.status = "INVALIDATED"]
    BY <1>3 DEF FreezePlan
  <2>. QED
    BY <1>1, <2>1 DEF ActionRecord
<1>4. CASE a \in Pending(r) /\ ~Droppable(a)
  <2>. DEFINE t == IF action[a].stop_requested_at = NoTime THEN now ELSE action[a].stop_requested_at
  <2>1. action'[a] = [action[a] EXCEPT !.status = "STOPPING", !.stop_requested_at = t]
    BY <1>1, <1>4 DEF FreezePlan, ActionRecord
  <2>. HIDE DEF t
  <2>. QED
    BY <1>1, <2>1 DEF ActionRecord
<1>. QED
  BY <1>2, <1>3, <1>4

LEMMA ChecksConclude ==
  ASSUME Safe, NEW r \in Runs, ConcludeStop(r)
  PROVE  ChecksStay
  BY DEF ChecksStay, ConcludeStop, Safe, TypeOK, TypeLedger, ActionRecord

LEMMA ChecksSubmit ==
  ASSUME Safe, NEW r \in Runs, NEW a \in Actions, SubmitIntent(r, a)
  PROVE  ChecksStay
  BY DEF ChecksStay, SubmitIntent, Safe, TypeOK, TypeLedger, ActionRecord

LEMMA ChecksStep ==
  ASSUME Safe, NEW p \in Procs, Step(p)
  PROVE  ChecksStay
<1>1. PICK f \in ProcState : f = proc[p] /\ FrameOK(f)
  BY FrameOf
<1>2. CASE UNCHANGED ledger
  BY <1>2 DEF ledger, ChecksStay
<1>3. CASE Unknown(p)
  <2>1. MarkUnknown(f.run, f.act) /\ f.pc = "unknown"
    BY <1>1, <1>3 DEF Unknown, Goto
  <2>. QED
    BY <1>1, <2>1, ChecksUnknown DEF FrameOK
<1>4. CASE CancelUnsupported(p)
  <2>1. PICK a \in f.todo : MarkUnknown(f.run, a) /\ f.pc = "cancel"
    BY <1>1, <1>4 DEF CancelUnsupported, Goto
  <2>. QED
    BY <1>1, <2>1, ChecksUnknown DEF FrameOK, ProcState
<1>5. CASE AcceptAnswer(p)
  <2>1. AcceptSnapshot(f.run, f.act, f.snap) /\ f.pc = "accept"
    BY <1>1, <1>5 DEF AcceptAnswer, Goto
  <2>. QED
    BY <1>1, <2>1, ChecksSnapshot DEF FrameOK
<1>6. CASE ApplyAnswer(p)
  <2>1. Apply(f.run, f.act, f.snap) /\ f.pc = "apply"
    BY <1>1, <1>6 DEF ApplyAnswer, Goto
  <2>. QED
    BY <1>1, <2>1, ChecksApply DEF FrameOK
<1>7. CASE TickStop(p)
  <2>1. FreezePlan(f.run, "timeout") /\ f.pc = "tick_stop"
    BY <1>1, <1>7 DEF TickStop, Goto
  <2>. QED
    BY <1>1, <2>1, ChecksFreeze DEF FrameOK
<1>8. CASE Settle(p)
  <2>1. ConcludeStop(f.run) /\ f.pc = "settle"
    BY <1>1, <1>8 DEF Settle, Goto
  <2>. QED
    BY <1>1, <2>1, ChecksConclude DEF FrameOK
<1>. QED
  BY <1>2, <1>3, <1>4, <1>5, <1>6, <1>7, <1>8
  DEF Step, SubmitAnswered, SubmitReplyLost, SubmitTimesOut, SubmitDisconnected,
      StopRead, CancelConfirmed, CancelAnswered, CancelFails, ReconcileRead, LookupAnswered,
      LookupFails

LEMMA OnwardKept ==
  ASSUME Serial, [Next]_vars, Onward, ChecksStay
  PROVE  LedgerKept /\ TypeOK'
<1>1. TypeOK'
  BY SerialStep DEF Serial, Safe
<1>2. EndsKept /\ ActionsOf(Run)' = ActionsOf(Run)
  BY DEF Onward, ActionOnward, EndsKept, ActionsOf
<1>. QED
  BY <1>1, <1>2 DEF LedgerKept, ChecksStay
-----------------------------------------------------------------------------
(* The agent's turn, step by step.                                         *)

\* The frame that has no more to say.
LEMMA SaidFits ==
  ASSUME Driven, NEW p \in Procs, driver[p].pc = "agent", driver[p].message # Nothing
  PROVE  \E g \in Frame :
           /\ g = [To(p, "model") EXCEPT !.message = Nothing, !.paused = FALSE, !.answering = FALSE]
           /\ g.pc = "model" /\ g.claims /\ g.running /\ g.message = Nothing /\ Guided(g)
           /\ driver[p].claims /\ driver[p].message \in SessionEvent
           /\ CarriesNews(driver[p]) /\ DeliversFirst(driver[p]) /\ driver[p].running
<1>1. PICK f \in Frame : f = driver[p] /\ Fits(f)
  BY DrivenTyped DEF Driven
<1>2. f.running /\ f.claims
  BY <1>1 DEF Fits, Guided, Operates, InRun
<1>3. PICK g : g = [f EXCEPT !.pc = "model", !.message = Nothing, !.paused = FALSE, !.answering = FALSE]
  OBVIOUS
<1>4. g = [To(p, "model") EXCEPT !.message = Nothing, !.paused = FALSE, !.answering = FALSE]
  BY <1>1, <1>3 DEF To, Frame
<1>5. g \in Frame /\ g.pc = "model" /\ g.claims /\ g.running /\ g.message = Nothing
  BY <1>2, <1>3 DEF Frame, Places
<1>6. Guided(g)
  BY <1>5 DEF Guided, InRun, OutOfRun
<1>7. f.message \in SessionEvent
  BY <1>1 DEF Frame
<1>. QED
  BY <1>1, <1>2, <1>4, <1>5, <1>6, <1>7 DEF Fits

LEMMA PromptKeeps ==
  ASSUME Driven, NEW p \in Procs, Prompt(p)
  PROVE  Driven'
<1>. DEFINE event == driver[p].message
<1>1. At(p, "agent") /\ event # Nothing
  BY DEF Prompt
<1>2. PICK g \in Frame :
           /\ g = [To(p, "model") EXCEPT !.message = Nothing, !.paused = FALSE, !.answering = FALSE]
           /\ g.pc = "model" /\ g.claims /\ g.running /\ g.message = Nothing /\ Guided(g)
           /\ driver[p].claims /\ event \in SessionEvent
           /\ CarriesNews(driver[p]) /\ DeliversFirst(driver[p]) /\ driver[p].running
  BY <1>1, SaidFits DEF At
<1>3. Tells(p, "agent", event, g)
  BY <1>2 DEF Prompt
<1>4. session # <<>> /\ event.call <= Len(session)
  BY <1>2 DEF DeliversFirst, CarriesNews
<1>5. CASE event.kind # "result"
  <2>1. Busy(driver[p])
    BY <1>1, <1>5, AtWorkIsBusy DEF At, InRun
  <2>2. Fits(g)
    <3>1. g.message.kind # "result" /\ g.message.call = 0
      BY <1>2 DEF Nothing
    <3>2. driver[p] \in Frame /\ Fits(driver[p])
      BY DrivenTyped DEF Driven
    <3>. QED
      BY <1>2, <2>1, <3>1, <3>2, BusyFits
  <2>. QED
    BY <1>2, <1>3, <1>4, <1>5, <2>2, TellsKeeps
<1>6. CASE event.kind = "result"
  <2>1. /\ driver' = [driver EXCEPT ![p] = g] /\ crashes' = crashes
        /\ UNCHANGED vars /\ UNCHANGED book /\ session' = Append(session, event)
    BY <1>3 DEF Tells, Move
  <2>2. /\ session \in Seq(SessionEvent) /\ session' \in Seq(SessionEvent)
        /\ Len(session') = Len(session) + 1 /\ session'[Len(session) + 1] = event
        /\ \A i \in 1..Len(session) : session'[i] = session[i]
        /\ DOMAIN session = 1..Len(session) /\ DOMAIN session' = 1..(Len(session) + 1)
        /\ Len(session) \in Nat
    BY <1>2, <2>1, DrivenTyped
  <2>3. /\ ~Has("result", event.call)
        /\ Rejected => event.call # book.binding.call
        /\ event.act # None => Settled(event.act)
    BY <1>1, <1>2, <1>6 DEF CarriesNews, At
  <2>4. Accounts
    BY DEF Driven
  <2>. HIDE DEF Driven, event
  <2>5. \A c : Has("result", c)' <=> Has("result", c) \/ c = event.call
    BY <1>6, <2>2 DEF Has
  <2>6. action' = action /\ book' = book
    BY <2>1 DEF vars
  <2>7. Numbered'
    BY <1>2, <1>4, <2>2, <2>4 DEF Accounts, Numbered, SessionEvent
  <2>8. BindingOK' /\ VerifiedIsJudged'
    BY <2>2, <2>3, <2>4, <2>5, <2>6
    DEF Accounts, BindingOK, VerifiedIsJudged, Bound, BoundCallKnown, Rejected
  <2>9. OutboxOK'
    BY <2>2, <2>4, <2>6 DEF Accounts, OutboxOK, Rejected, Settled
  <2>10. ResultsOnce'
    <3>1. ASSUME NEW i \in DOMAIN session, session[i].kind = "result"
          PROVE  session[i] # event
      BY <2>3, <3>1 DEF Has
    <3>. QED
      BY <1>6, <2>2, <2>4, <3>1 DEF Accounts, ResultsOnce
  <2>11. ResultsTrue'
    BY <2>2, <2>3, <2>4, <2>6 DEF Accounts, ResultsTrue, Settled
  <2>12. session' # <<>>
    BY <2>2
  <2>13. Accounts'
    BY <2>7, <2>8, <2>9, <2>10, <2>11, <2>12 DEF Accounts
  <2>14. Fits(g)'
    <3>1. CarriesNews(g)'
      BY <1>2, <2>2 DEF CarriesNews, Nothing
    <3>2. DeliversFirst(g)'
      BY <1>1, <1>2, <2>5, <2>6, <2>12 DEF DeliversFirst, At, event, Leaving
    <3>3. LooksAfter(g)'
      BY <1>2 DEF LooksAfter, Judging, JudgedIn
    <3>. QED
      BY <1>2, <3>1, <3>2, <3>3 DEF Fits, Guided
  <2>. QED
    BY <1>2, <2>1, <2>2, <2>6, <2>13, <2>14, DrivenTyped, NothingKept, MoveKeeps
<1>. QED
  BY <1>5, <1>6

LEMMA ResumeTurnKeeps ==
  ASSUME Driven, NEW p \in Procs, ResumeTurn(p)
  PROVE  Driven'
<1>1. driver[p].pc = "agent" /\ driver[p].message = Nothing
  BY DEF ResumeTurn, At
<1>2. Busy(driver[p]) /\ driver[p].claims
  BY <1>1, NothingToSay, AtWorkIsBusy DEF InRun
<1>3. PICK pc \in InRun \ {"prompt", "agent"}, paused \in BOOLEAN :
        Goes(p, "agent", [To(p, pc) EXCEPT !.paused = paused, !.answering = FALSE])
  BY DEF ResumeTurn, InRun
<1>. QED
  BY <1>2, <1>3, AnswersOn, GoesKeeps
LEMMA BookTyped ==
  ASSUME Driven
  PROVE  /\ book.model_calls \in Nat /\ book.api_retries \in Nat /\ book.invalid_proposals \in Nat
         /\ book.replans \in Nat /\ book.observation_count \in Nat
         /\ book.binding \in [call : Nat, act : Actions \cup {None}]
         /\ book.feedback \in SessionEvent \cup {Nothing}
         /\ book.verdict \in [Actions -> {"none", "PASS", "FAIL"}]
  BY DrivenTyped DEF Book

\* A counter goes up.
LEMMA CountUp ==
  ASSUME Driven,
         NEW b, \/ b = [book EXCEPT !.model_calls = book.model_calls + 1]
                \/ b = [book EXCEPT !.api_retries = book.api_retries + 1]
                \/ b = [book EXCEPT !.invalid_proposals = book.invalid_proposals + 1]
                \/ b = [book EXCEPT !.replans = book.replans + 1]
                \/ b = [book EXCEPT !.observation_count = book.observation_count + 1]
  PROVE  /\ b \in Book /\ b.verdict = book.verdict /\ b.binding = book.binding
         /\ b.feedback = book.feedback
<1>1. book \in Book
  BY DrivenTyped
<1>. QED
  BY <1>1 DEF Book

LEMMA TakeModelCallKeeps ==
  ASSUME Driven, NEW p \in Procs, TakeModelCall(p)
  PROVE  Driven'
<1>1. driver[p].pc = "model"
  BY DEF TakeModelCall, Goes, Records, Move, At
<1>2. Busy(driver[p]) /\ driver[p].claims
  BY <1>1, AtWorkIsBusy DEF InRun
<1>3. CASE Goes(p, "model", Raised(p))
  BY <1>2, <1>3, RaisesKeeps
<1>4. CASE Records(p, "model", [book EXCEPT !.model_calls = @ + 1],
                   [To(p, "thinking") EXCEPT !.answering = FALSE])
  BY <1>2, <1>4, RunsOn, CountUp, CountsKeep DEF InRun
<1>. QED
  BY <1>3, <1>4 DEF TakeModelCall

LEMMA ModelFailsKeeps ==
  ASSUME Driven, NEW p \in Procs, ModelFails(p)
  PROVE  Driven'
<1>1. driver[p].pc = "thinking"
  BY DEF ModelFails, Goes, Records, Move, At
<1>2. Busy(driver[p]) /\ driver[p].claims
  BY <1>1, AtWorkIsBusy DEF InRun
<1>3. CASE Goes(p, "thinking", Raised(p))
  BY <1>2, <1>3, RaisesKeeps
<1>4. CASE Records(p, "thinking", [book EXCEPT !.api_retries = @ + 1], To(p, "model"))
  BY <1>2, <1>4, RunsOn, CountUp, CountsKeep DEF InRun
<1>. QED
  BY <1>3, <1>4 DEF ModelFails

LEMMA ModelBreaksOffKeeps ==
  ASSUME Driven, NEW p \in Procs, ModelBreaksOff(p)
  PROVE  Driven'
<1>1. PICK pc \in {"model", "returned"} : Goes(p, pc, Raised(p))
  BY DEF ModelBreaksOff
<1>2. Busy(driver[p]) /\ driver[p].claims
  BY <1>1, AtWorkIsBusy DEF InRun, Goes, Move, At
<1>. QED
  BY <1>1, <1>2, RaisesKeeps

\* The answer to an invalid decision is ready.
LEMMA InvalidFits ==
  ASSUME Driven, NEW p \in Procs, Busy(driver[p]), NEW m \in SessionEvent,
         \/ m.kind # "result" /\ m.call = 0
         \/ m = Result(book.binding.call, None) /\ Rejected
  PROVE  /\ [To(p, "invalid") EXCEPT !.message = m] \in Frame
         /\ Fits([To(p, "invalid") EXCEPT !.message = m])
<1>1. PICK f \in Frame : f = driver[p] /\ Fits(f)
  BY DrivenTyped DEF Driven
<1>2. PICK g : g = [f EXCEPT !.pc = "invalid", !.message = m]
  OBVIOUS
<1>3. g = [To(p, "invalid") EXCEPT !.message = m]
  BY <1>1, <1>2 DEF To, Frame
<1>4. g \in Frame /\ g.pc = "invalid" /\ g.claims /\ g.running /\ g.message = m
  BY <1>1, <1>2 DEF Busy, Frame, Places
<1>5. Guided(g)
  BY <1>4 DEF Guided, InRun, OutOfRun
<1>6. CASE m.kind # "result" /\ m.call = 0
  BY <1>1, <1>3, <1>4, <1>5, <1>6, BusyFits
<1>7. CASE m = Result(book.binding.call, None) /\ Rejected
  <2>1. BindingOK /\ session \in Seq(SessionEvent)
    BY DrivenTyped DEF Driven, Accounts
  <2>2. /\ m.kind = "result" /\ m.call = book.binding.call /\ m.act = None
    BY <1>7 DEF Result
  <2>3. m.call <= Len(session) /\ ~Has("result", m.call)
    BY <1>7, <2>1, <2>2 DEF BindingOK, Bound, BoundCallKnown, Rejected
  <2>4. CarriesNews(g)
    BY <1>4, <2>2, <2>3 DEF CarriesNews
  <2>5. DeliversFirst(g) /\ LooksAfter(g)
    BY <1>1, <1>4 DEF Fits, DeliversFirst, Busy, LooksAfter, Judging, JudgedIn
  <2>. QED
    BY <1>3, <1>4, <1>5, <2>4, <2>5 DEF Fits
<1>. QED
  BY <1>6, <1>7

LEMMA OfEvent ==
  ASSUME NEW kind \in Kinds
  PROVE  /\ Of(kind) \in SessionEvent /\ Of(kind).kind = kind /\ Of(kind).call = 0
         /\ Of(kind).act = None
  BY DEF Of, SessionEvent

LEMMA ModelAnswersKeeps ==
  ASSUME Driven, NEW p \in Procs, ModelAnswers(p)
  PROVE  Driven'
<1>1. driver[p].pc = "thinking"
  BY DEF ModelAnswers, Goes, Tells, Move, At
<1>2. Busy(driver[p]) /\ driver[p].claims
  BY <1>1, AtWorkIsBusy DEF InRun
<1>3. session # <<>> /\ Len(session) \in Nat
  BY <1>2, DrivenTyped DEF Driven, Fits, DeliversFirst, Busy
<1>4. CASE Goes(p, "thinking", Raised(p))
  BY <1>2, <1>4, RaisesKeeps
<1>5. CASE Goes(p, "thinking", [To(p, "invalid") EXCEPT !.message = Of("user")])
  <2>1. PICK g \in Frame : g = [To(p, "invalid") EXCEPT !.message = Of("user")] /\ Fits(g)
    BY <1>2, OfEvent, InvalidFits DEF Kinds
  <2>. QED
    BY <1>2, <1>5, <2>1, GoesKeeps
<1>6. ASSUME NEW kind \in Kinds \ {"result"}, NEW pc \in InRun \ {"prompt", "agent"}, NEW paused \in BOOLEAN,
             Tells(p, "thinking", Of(kind),
                   [To(p, pc) EXCEPT !.paused = paused, !.answering = TRUE])
      PROVE  Driven'
  <2>1. Of(kind).kind # "result" /\ Of(kind).call <= Len(session) /\ Of(kind) \in SessionEvent
    BY <1>3, OfEvent
  <2>. QED
    BY <1>2, <1>3, <1>6, <2>1, AnswersOn, TellsKeeps
<1>7. CASE Tells(p, "thinking", Of("text"),
                 [To(p, "returned") EXCEPT !.paused = FALSE, !.answering = TRUE])
  BY <1>6, <1>7 DEF Kinds, InRun
<1>8. ASSUME NEW tool \in Tools,
             Tells(p, "thinking", Of(tool),
                   [To(p, "tool") EXCEPT !.paused = tool = "execute_action", !.answering = TRUE])
      PROVE  Driven'
  <2>1. tool \in Kinds \ {"result"} /\ "tool" \in InRun \ {"prompt", "agent"}
    BY DriverAssumption DEF DriverAssumption, Kinds, InRun
  <2>2. (tool = "execute_action") \in BOOLEAN
    OBVIOUS
  <2>. QED
    BY <1>6, <1>8, <2>1, <2>2
<1>. QED
  BY <1>4, <1>5, <1>7, <1>8 DEF ModelAnswers
LEMMA NewActionQueued ==
  ASSUME NEW r, NEW version, NEW sequence
  PROVE  /\ NewAction(r, version, sequence).status = "QUEUED"
         /\ NewAction(r, version, sequence).verified = FALSE
         /\ NewAction(r, version, sequence).run_id = r
  BY DEF NewAction

LEMMA AppendOne ==
  ASSUME NEW a \in Actions, AppendActions(Run, <<a>>)
  PROVE  /\ action'[a].verified = FALSE /\ action'[a].run_id = Run /\ action'[a].status = "QUEUED"
         /\ \A b \in Actions : b # a => action'[b] = action[b]
<1>1. \A b : (\E i \in DOMAIN <<a>> : <<a>>[i] = b) <=> b = a
  <2>1. DOMAIN <<a>> = {1} /\ <<a>>[1] = a
    OBVIOUS
  <2>. QED
    BY <2>1
<1>. DEFINE place == [b \in Actions |->
              state[Run].next_sequence - 1 + CHOOSE i \in DOMAIN <<a>> : <<a>>[i] = b]
<1>2. \A b \in Actions : action'[b] =
        IF \E i \in DOMAIN <<a>> : <<a>>[i] = b
        THEN NewAction(Run, state[Run].plan_version, place[b]) ELSE action[b]
  BY DEF AppendActions
<1>3. \A s : /\ NewAction(Run, state[Run].plan_version, s).verified = FALSE
             /\ NewAction(Run, state[Run].plan_version, s).run_id = Run
             /\ NewAction(Run, state[Run].plan_version, s).status = "QUEUED"
  BY DEF NewAction
<1>. HIDE DEF place
<1>4. \E s : action'[a] = NewAction(Run, state[Run].plan_version, s)
  BY <1>1, <1>2
<1>5. \A b \in Actions : b # a => action'[b] = action[b]
  BY <1>1, <1>2
<1>. QED
  BY <1>3, <1>4, <1>5

\* A call is bound, to a new action or to none.
LEMMA BindKeeps ==
  ASSUME Driven, TypeOK', NEW p \in Procs, NEW a \in Actions \cup {None},
         driver[p].pc = "tool", LastKind = "execute_action", session # <<>>,
         UNCHANGED session, EndsKept,
         \A b \in Actions : action'[b].verified => action[b].verified,
         book' = [book EXCEPT !.binding = [call |-> CallId, act |-> a]],
         crashes' = crashes,
         NEW pc \in InRun \ {"prompt", "agent"}, driver' = [driver EXCEPT ![p] = To(p, pc)]
  PROVE  Driven'
<1>1. Busy(driver[p]) /\ driver[p].claims
  BY AtWorkIsBusy DEF InRun
<1>2. PICK g \in Frame : g = To(p, pc) /\ Fits(g) /\ g.claims /\ g.pc = pc /\ g.running
  <2>1. pc \in Places
    BY DEF InRun, Places
  <2>. QED
    BY <1>1, <2>1, RunsOn, ToTyped DEF Busy
<1>3. /\ book' \in Book /\ book'.verdict = book.verdict /\ book'.feedback = book.feedback
      /\ book'.binding.call = CallId /\ book'.binding.act = a
  <2>1. [call |-> CallId, act |-> a] \in [call : Nat, act : Actions \cup {None}]
    BY DrivenTyped DEF CallId
  <2>2. book \in Book
    BY DrivenTyped
  <2>. QED
    BY <2>1, <2>2 DEF Book
<1>4. /\ CallId \in 1..Len(session) /\ session[CallId].kind = "execute_action"
      /\ DOMAIN session = 1..Len(session) /\ Len(session) \in Nat
  BY DrivenTyped DEF CallId, LastKind
<1>5. \A c : Has("result", c) => c # CallId
  <2>. SUFFICES ASSUME NEW i \in DOMAIN session, session[i].kind = "result" PROVE session[i].call # CallId
    BY DEF Has
  <2>1. session[i].call < i /\ session[i].call \in Nat
    BY EventTyped DEF Driven, Accounts, Numbered, SessionEvent
  <2>. QED
    BY <1>4, <2>1 DEF CallId
<1>6. Accounts /\ VerdictsKept
  BY <1>3 DEF Driven, VerdictsKept
<1>. HIDE DEF Driven, CallId
<1>7. Numbered' /\ ResultsOnce' /\ VerifiedIsJudged'
  BY <1>3, <1>6 DEF Accounts, Numbered, ResultsOnce, VerifiedIsJudged
<1>8. BindingOK'
  BY <1>3, <1>4, <1>5 DEF BindingOK, Bound, BoundCallKnown, Rejected, Has
<1>9. OutboxOK'
  <2>. SUFFICES ASSUME book.feedback # Nothing
                PROVE  /\ book.feedback.kind = "result" /\ book.feedback.call \in 1..Len(session)
                       /\ book.feedback.act # None => Settled(book.feedback.act)'
                       /\ book.feedback.call # CallId
    BY <1>3 DEF OutboxOK, Settled
  <2>1. book.feedback.act # None => book.feedback.act \in Actions
    BY BookTyped DEF SessionEvent
  <2>2. book.feedback.call # CallId
    BY <1>1, <1>5 DEF Busy
  <2>3. OutboxOK
    BY <1>6 DEF Accounts
  <2>4. book.feedback.act # None => Settled(book.feedback.act)'
    <3>. SUFFICES ASSUME book.feedback.act # None PROVE Settled(book.feedback.act)'
      OBVIOUS
    <3>1. PICK b \in Actions : b = book.feedback.act
      BY <2>1
    <3>. QED
      BY <1>6, <2>3, <3>1, SettledStays DEF OutboxOK
  <2>. QED
    BY <2>2, <2>3, <2>4 DEF OutboxOK
<1>10. ResultsTrue'
  <2>. SUFFICES ASSUME NEW i \in DOMAIN session, session[i].kind = "result", session[i].act # None
                PROVE  Settled(session[i].act)'
    BY DEF ResultsTrue, Settled
  <2>1. session[i].act \in Actions
    BY EventTyped DEF SessionEvent
  <2>2. Settled(session[i].act)
    BY <1>6 DEF Accounts, ResultsTrue, Settled
  <2>. QED
    BY <1>6, <2>1, <2>2, SettledStays
<1>11. Accounts'
  BY <1>7, <1>8, <1>9, <1>10 DEF Accounts
<1>12. Fits(g)'
  <2>1. Guided(g)'
    BY <1>2 DEF Fits, Guided
  <2>2. CarriesNews(g)'
    <3>1. CarriesNews(g)
      BY <1>2 DEF Fits
    <3>2. g.message.kind = "result" /\ g.message.act # None => Settled(g.message.act)'
      <4>1. g.message.kind = "result" /\ g.message.act # None => g.message.act \in Actions
        BY DEF Frame, SessionEvent, Nothing
      <4>. QED
        BY <1>6, <3>1, <4>1, SettledStays DEF CarriesNews
    <3>. QED
      BY <1>2, <3>1, <3>2 DEF CarriesNews, Has
  <2>3. DeliversFirst(g)'
    BY <1>2, <1>3 DEF Fits, DeliversFirst, Has, Leaving
  <2>4. LooksAfter(g)'
    BY <1>2, <2>1 DEF LooksAfter, Judging, JudgedIn, Guided, OutOfRun
  <2>. QED
    BY <1>2, <2>1, <2>2, <2>3, <2>4 DEF Fits
<1>. QED
  BY <1>1, <1>2, <1>3, <1>11, <1>12, DrivenTyped, MoveKeeps

LEMMA ProposeKeeps ==
  ASSUME Driven, Serial, TypeOK', NEW p \in Procs, Propose(p)
  PROVE  Driven'
<1>1. At(p, "tool") /\ LastKind = "execute_action"
  BY DEF Propose
<1>2. Busy(driver[p]) /\ session # <<>>
  BY <1>1, AtWorkIsBusy DEF InRun, At, Driven, Fits, DeliversFirst, Busy
<1>3. ASSUME NEW a \in Actions, action[a].run_id = None, AppendActions(Run, <<a>>),
             book' = [book EXCEPT !.binding = [call |-> CallId, act |-> a]],
             Move(p, "tool", To(p, "dispatch")), UNCHANGED session
      PROVE  Driven'
  <2>1. action[a].status = "QUEUED"
    BY <1>3 DEF Serial, Plan, UnusedIsNew, NewAction
  <2>2. \A b \in Actions : b # a => action'[b] = action[b]
    BY <1>3, AppendOne
  <2>3. action'[a].verified = FALSE
    BY <1>3, AppendOne
  <2>4. EndsKept /\ \A b \in Actions : action'[b].verified => action[b].verified
    BY <2>1, <2>2, <2>3 DEF EndsKept, TERMINAL
  <2>. QED
    BY <1>1, <1>2, <1>3, <2>4, BindKeeps DEF At, Move, InRun
<1>4. CASE Records(p, "tool", [book EXCEPT !.binding = [call |-> CallId, act |-> None]], To(p, "receipt"))
  <2>1. EndsKept /\ \A b \in Actions : action'[b].verified => action[b].verified
    BY <1>4 DEF Records, vars, EndsKept
  <2>. QED
    BY <1>1, <1>2, <1>4, <2>1, BindKeeps DEF At, Records, Move, InRun
<1>. QED
  BY <1>3, <1>4 DEF Propose

LEMMA MovesKeep ==
  ASSUME Driven, LedgerKept, TypeOK', NEW p \in Procs, NEW pc, NEW g \in Frame,
         Move(p, pc, g), UNCHANGED <<book, session>>, Fits(g),
         g.claims => driver[p].claims \/ Unclaimed
  PROVE  Driven'
<1>1. driver' = [driver EXCEPT ![p] = g] /\ crashes' = crashes
  BY DEF Move
<1>. QED
  BY <1>1, DrivenTyped, QuietKeeps

\* A frame that goes on elsewhere.
Onto(f, pc, next, reason) == [f EXCEPT !.pc = pc, !.next = next, !.reason = reason]

LEMMA OntoTyped ==
  ASSUME NEW f \in Frame, NEW pc \in Places, NEW next \in Places,
         NEW reason \in StopReasons \cup {NoIntent}
  PROVE  /\ Onto(f, pc, next, reason) \in Frame
         /\ Onto(f, pc, next, reason).pc = pc /\ Onto(f, pc, next, reason).next = next
         /\ Onto(f, pc, next, reason).reason = reason
         /\ Onto(f, pc, next, reason).claims = f.claims
         /\ Onto(f, pc, next, reason).running = f.running
         /\ Onto(f, pc, next, reason).message = f.message
         /\ Onto(f, pc, next, reason).act = f.act
  BY DEF Onto, Frame

LEMMA OntoIs ==
  ASSUME Driven, NEW p \in Procs, NEW pc, NEW next
  PROVE  /\ To(p, pc) = Onto(driver[p], pc, driver[p].next, driver[p].reason)
         /\ [To(p, pc) EXCEPT !.next = next] = Onto(driver[p], pc, next, driver[p].reason)
         /\ driver[p] \in Frame /\ driver[p].pc \in Places /\ driver[p].next \in Places
         /\ driver[p].reason \in StopReasons \cup {NoIntent} /\ Fits(driver[p])
<1>1. driver[p] \in Frame /\ Fits(driver[p])
  BY DrivenTyped DEF Driven
<1>2. PICK f \in Frame : f = driver[p]
  BY <1>1
<1>3. f.pc \in Places /\ f.next \in Places /\ f.reason \in StopReasons \cup {NoIntent}
  BY DEF Frame
<1>4. /\ [f EXCEPT !.pc = pc] = Onto(f, pc, f.next, f.reason)
      /\ [[f EXCEPT !.pc = pc] EXCEPT !.next = next] = Onto(f, pc, next, f.reason)
  BY DEF Frame, Onto
<1>. QED
  BY <1>1, <1>2, <1>3, <1>4 DEF To

LEMMA OntoReason ==
  ASSUME Driven, NEW p \in Procs, NEW pc, NEW reason
  PROVE  [To(p, pc) EXCEPT !.reason = reason] = Onto(driver[p], pc, driver[p].next, reason)
<1>1. PICK f \in Frame : f = driver[p]
  BY DrivenTyped
<1>2. [[f EXCEPT !.pc = pc] EXCEPT !.reason = reason] = Onto(f, pc, f.next, reason)
  BY DEF Frame, Onto
<1>. QED
  BY <1>1, <1>2 DEF To

\* It fits when it knows what it must in the new place.
LEMMA OntoFits ==
  ASSUME NEW f \in Frame, Fits(f), f.claims, OutboxOK, NEW pc \in Places \ {"prompt", "agent"},
         NEW next \in Places, NEW reason \in StopReasons \cup {NoIntent},
         Guided(Onto(f, pc, next, reason)), LooksAfter(Onto(f, pc, next, reason)),
         \/ ~f.running \/ Busy(f) \/ pc = "ran"
         \/ pc \in {"terminate", "stop", "tick"} /\ next = "ran"
  PROVE  Fits(Onto(f, pc, next, reason))
<1>. DEFINE g == Onto(f, pc, next, reason)
<1>1. /\ g \in Frame /\ g.pc = pc /\ g.next = next /\ g.claims /\ g.running = f.running
      /\ g.message = f.message
  BY OntoTyped
<1>. HIDE DEF g
<1>2. CarriesNews(g)
  BY <1>1 DEF Fits, CarriesNews
<1>3. DeliversFirst(g)
  BY <1>1 DEF Fits, DeliversFirst, Busy, Leaving
<1>. QED
  BY <1>1, <1>2, <1>3 DEF Fits, g

\* An operator's frame.
LEMMA OperatorFits ==
  ASSUME NEW f \in Frame, Fits(f), ~f.claims, NEW pc \in {"leave", "terminate", "stop", "tick"},
         NEW next \in Places, pc = "leave" \/ next = "leave",
         NEW reason \in StopReasons \cup {NoIntent},
         pc \notin {"terminate", "stop"} \/ reason \in StopReasons,
         NEW g, g = Onto(f, pc, next, reason)
  PROVE  Fits(g)
<1>1. /\ g.pc = pc /\ g.next = next /\ ~g.claims /\ g.running = f.running
      /\ g.reason = reason
  <2>1. pc \in Places
    BY DEF Places
  <2>. QED
    BY <2>1, OntoTyped
<1>2. ~f.running
  BY DEF Fits, Operates
<1>. QED
  BY <1>1, <1>2 DEF Fits, Guided, Operates, InRun, OutOfRun

-----------------------------------------------------------------------------
(* The tools.                                                              *)

LEMMA RepeatedKeeps ==
  ASSUME Driven, NEW p \in Procs, Repeated(p)
  PROVE  Driven'
<1>1. Busy(driver[p]) /\ driver[p].claims
  BY AtWorkIsBusy DEF InRun, Repeated, At
<1>2. CASE Rest(p, "tool")
  BY <1>2, RestKeeps
<1>3. CASE Goes(p, "tool", To(p, "receipt"))
  BY <1>1, <1>3, RunsOn, GoesKeeps DEF InRun
<1>. QED
  BY <1>2, <1>3 DEF Repeated

LEMMA DispatchNextKeeps ==
  ASSUME Driven, Serial, [Next]_vars, NEW p \in Procs, DispatchNext(p)
  PROVE  Driven'
<1>1. driver[p].pc = "dispatch"
  BY DEF DispatchNext, Goes, Move, At
<1>2. Busy(driver[p]) /\ driver[p].claims
  BY <1>1, AtWorkIsBusy DEF InRun
<1>3. CASE Goes(p, "dispatch", Raised(p))
  BY <1>2, <1>3, RaisesKeeps
<1>4. CASE Goes(p, "dispatch", To(p, "receipt"))
  BY <1>2, <1>4, RunsOn, GoesKeeps DEF InRun
<1>5. ASSUME NEW a \in NextUp, Move(p, "dispatch", To(p, "receipt")), Dispatch(p, Run, a),
             UNCHANGED <<book, session>>
      PROVE  Driven'
  <2>1. a \in Actions
    BY DEF NextUp, Unverified, Current, ActionsOf
  <2>2. Onward /\ ChecksStay
    BY <1>5, <2>1, DriverFacts, SubmitIntentOnward, ChecksSubmit DEF Dispatch, Serial
  <2>3. LedgerKept /\ TypeOK'
    BY <2>2, OnwardKept
  <2>. QED
    BY <1>2, <1>5, <2>3, RunsOn, MovesKeep DEF InRun
<1>. QED
  BY <1>3, <1>4, <1>5 DEF DispatchNext

LEMMA ReceiveKeeps ==
  ASSUME Driven, NEW p \in Procs, Receive(p)
  PROVE  Driven'
<1>1. Busy(driver[p]) /\ driver[p].claims
  BY AtWorkIsBusy DEF InRun, Receive, Tells, Move, At
<1>2. session # <<>> /\ Len(session) \in Nat
  BY <1>1, DrivenTyped DEF Driven, Fits, DeliversFirst, Busy
<1>3. PICK e : e = Receipt(CallId, book.binding.act)
  OBVIOUS
<1>4. e \in SessionEvent /\ e.kind = "receipt" /\ e.call = Len(session)
  BY <1>2, <1>3, BookTyped DEF Receipt, SessionEvent, Kinds, CallId
<1>5. To(p, "returned") \in Frame /\ Fits(To(p, "returned")) /\ To(p, "returned").claims
  BY <1>1, RunsOn DEF InRun
<1>6. e.kind # "result" /\ e.call <= Len(session) /\ Tells(p, "receipt", e, To(p, "returned"))
  BY <1>2, <1>3, <1>4 DEF Receive
<1>. QED
  BY <1>1, <1>2, <1>4, <1>5, <1>6, TellsKeeps

\* An observation on the agent's behalf.
LEMMA LooksFits ==
  ASSUME Driven, NEW p \in Procs, Busy(driver[p]), NEW next \in {"final", "respond"}
  PROVE  /\ [To(p, "refresh") EXCEPT !.next = next] \in Frame
         /\ Fits([To(p, "refresh") EXCEPT !.next = next])
         /\ [To(p, "refresh") EXCEPT !.next = next].claims
<1>1. PICK f \in Frame : f = driver[p] /\ Fits(f) /\ f.reason \in StopReasons \cup {NoIntent}
  BY OntoIs
<1>2. PICK g : g = Onto(f, "refresh", next, f.reason)
  OBVIOUS
<1>3. next \in Places /\ "refresh" \in Places \ {"prompt", "agent"}
  BY DEF Places
<1>4. /\ g \in Frame /\ g.pc = "refresh" /\ g.next = next /\ g.claims /\ g.running
      /\ f.claims /\ f.running /\ Busy(f)
  BY <1>1, <1>2, <1>3, OntoTyped DEF Busy
<1>5. Guided(g) /\ LooksAfter(g)
  BY <1>4 DEF Guided, InRun, OutOfRun, LooksAfter, Judging, JudgedIn
<1>6. OutboxOK
  BY DEF Driven, Accounts
<1>7. Fits(g)
  <2>1. /\ Guided(Onto(f, "refresh", next, f.reason))
        /\ LooksAfter(Onto(f, "refresh", next, f.reason))
    BY <1>2, <1>5
  <2>2. Fits(Onto(f, "refresh", next, f.reason))
    BY <1>1, <1>3, <1>4, <1>6, <2>1, OntoFits
  <2>. QED
    BY <1>2, <2>2
<1>8. [To(p, "refresh") EXCEPT !.next = next] = Onto(driver[p], "refresh", next, driver[p].reason)
  BY OntoIs
<1>. QED
  BY <1>1, <1>2, <1>4, <1>7, <1>8

LEMMA FinishTaskKeeps ==
  ASSUME Driven, Serial, [Next]_vars, NEW p \in Procs, FinishTask(p)
  PROVE  Driven'
<1>1. Busy(driver[p]) /\ driver[p].claims
  BY AtWorkIsBusy DEF InRun, FinishTask, At
<1>2. CASE Goes(p, "tool", Raised(p))
  BY <1>1, <1>2, RaisesKeeps
<1>3. CASE Goes(p, "tool", To(p, "respond"))
  BY <1>1, <1>3, RunsOn, GoesKeeps DEF InRun
<1>4. CASE /\ Close(Run, state[Run].next_sequence - 1)
           /\ Move(p, "tool", [To(p, "refresh") EXCEPT !.next = "final"])
           /\ UNCHANGED <<robot, proc, book, session>>
  <2>1. Onward
    BY <1>4, DriverFacts, CloseOnward DEF Serial
  <2>2. ChecksStay
    BY <1>4 DEF Close, ChecksStay
  <2>3. LedgerKept /\ TypeOK'
    BY <2>1, <2>2, OnwardKept
  <2>4. PICK g \in Frame :
             g = [To(p, "refresh") EXCEPT !.next = "final"] /\ Fits(g) /\ g.claims
    BY <1>1, LooksFits
  <2>. QED
    BY <1>1, <1>4, <2>3, <2>4, MovesKeep
<1>. QED
  BY <1>2, <1>3, <1>4 DEF FinishTask

LEMMA VerifyFinalKeeps ==
  ASSUME Driven, Serial, [Next]_vars, NEW p \in Procs, VerifyFinal(p)
  PROVE  Driven'
<1>1. driver[p].pc = "final"
  BY DEF VerifyFinal, Goes, Move, At
<1>2. Busy(driver[p]) /\ driver[p].claims
  BY <1>1, AtWorkIsBusy DEF InRun
<1>3. CASE Goes(p, "final", Raised(p))
  BY <1>2, <1>3, RaisesKeeps
<1>4. CASE /\ Passed \/ FailVerification(Run)
           /\ Move(p, "final", To(p, "conclude")) \/ Move(p, "final", To(p, "recover"))
           /\ UNCHANGED <<robot, proc, book, session>>
  <2>1. LedgerKept /\ TypeOK'
    <3>1. CASE PassFinal(Run) \/ FailVerification(Run)
      <4>1. Onward
        BY <3>1, DriverFacts, VerdictOnward
      <4>2. ChecksStay
        BY <3>1 DEF PassFinal, FailVerification, ChecksStay
      <4>. QED
        BY <4>1, <4>2, OnwardKept
    <3>2. CASE UNCHANGED ledger
      BY <1>4, <3>2, NothingKept DEF ledger, robot, vars
    <3>. QED
      BY <1>4, <3>1, <3>2 DEF Passed
  <2>2. CASE Move(p, "final", To(p, "conclude"))
    BY <1>2, <1>4, <2>1, <2>2, RunsOn, MovesKeep DEF InRun
  <2>3. CASE Move(p, "final", To(p, "recover"))
    <3>1. PICK f \in Frame : f = driver[p] /\ Fits(f)
      BY OntoIs
    <3>2. PICK g \in Frame : /\ g = To(p, "recover") /\ g.pc = "recover" /\ g.claims /\ g.running
                             /\ g.message = f.message
      BY <1>2, <3>1, ToTyped DEF Places, Busy
    <3>3. Guided(g)
      BY <3>2 DEF Guided, InRun, OutOfRun
    <3>4. Fits(g)
      BY <1>2, <3>1, <3>2, <3>3, BusyFits
    <3>. QED
      BY <1>2, <1>4, <2>1, <2>3, <3>2, <3>4, MovesKeep
  <2>. QED
    BY <1>4, <2>2, <2>3
<1>. QED
  BY <1>3, <1>4 DEF VerifyFinal

LEMMA SpokenKeeps ==
  ASSUME Driven, NEW p \in Procs, Conclude(p) \/ Respond(p)
  PROVE  Driven'
<1>1. driver[p].pc \in {"conclude", "respond"}
  BY DEF Conclude, Respond, Tells, Move, At
<1>2. Busy(driver[p]) /\ driver[p].claims
  BY <1>1, AtWorkIsBusy DEF InRun
<1>3. session # <<>> /\ Len(session) \in Nat
  BY <1>2, DrivenTyped DEF Driven, Fits, DeliversFirst, Busy
<1>4. ASSUME NEW kind \in {"final", "response"}
      PROVE  Of(kind) \in SessionEvent /\ Of(kind).kind # "result" /\ Of(kind).call <= Len(session)
  BY <1>3, OfEvent DEF Kinds
<1>5. CASE Conclude(p)
  BY <1>2, <1>3, <1>4, <1>5, RunsOn, TellsKeeps DEF Conclude, InRun
<1>6. CASE Respond(p)
  BY <1>2, <1>3, <1>4, <1>6, RunsOn, TellsKeeps DEF Respond, InRun
<1>. QED
  BY <1>5, <1>6

LEMMA ObserveToolKeeps ==
  ASSUME Driven, NEW p \in Procs, ObserveTool(p)
  PROVE  Driven'
<1>1. Busy(driver[p]) /\ driver[p].claims
  BY AtWorkIsBusy DEF InRun, ObserveTool, At
<1>2. PICK g \in Frame : g = [To(p, "refresh") EXCEPT !.next = "respond"] /\ Fits(g) /\ g.claims
  BY <1>1, LooksFits
<1>. QED
  BY <1>1, <1>2, GoesKeeps DEF ObserveTool

LEMMA TurnKeeps ==
  ASSUME Driven, Serial, [Next]_vars, NEW p \in Procs, Turn(p)
  PROVE  Driven'
<1>1. TypeOK'
  BY SerialStep DEF Serial, Safe
<1>. QED
  BY <1>1, PromptKeeps, ResumeTurnKeeps, TakeModelCallKeeps, ModelFailsKeeps, ModelAnswersKeeps,
     ModelBreaksOffKeeps,
     ProposeKeeps, RepeatedKeeps, DispatchNextKeeps, ReceiveKeeps, FinishTaskKeeps,
     VerifyFinalKeeps, SpokenKeeps, ObserveToolKeeps DEF Turn

-----------------------------------------------------------------------------
(* What the methods share.                                                 *)

\* A frame in the middle of a method.
LEMMA MidCall ==
  ASSUME Driven, NEW p \in Procs
  PROVE  \E f \in Frame :
           /\ f = driver[p] /\ Fits(f) /\ OutboxOK
           /\ f.pc \in Places /\ f.next \in Places /\ f.reason \in StopReasons \cup {NoIntent}
           /\ f.running => f.claims
           /\ f.pc \notin {"rest", "leave", "terminate", "stop", "tick"} => f.claims
           /\ f.running /\ f.pc \notin {"prompt", "agent", "ran"} /\ ~Leaving(f) => Busy(f)
<1>1. PICK f \in Frame : f = driver[p] /\ Fits(f)
  BY DrivenTyped DEF Driven
<1>2. OutboxOK
  BY DEF Driven, Accounts
<1>3. /\ f.running => f.claims
      /\ f.pc \notin {"rest", "leave", "terminate", "stop", "tick"} => f.claims
  BY <1>1 DEF Fits, Operates
<1>4. f.running /\ f.pc \notin {"prompt", "agent", "ran"} /\ ~Leaving(f) => Busy(f)
  BY <1>1, <1>2, InRunIsBusy
<1>. QED
  BY <1>1, <1>2, <1>3, <1>4 DEF Frame

LEMMA GoesOntoKeeps ==
  ASSUME Driven, LedgerKept, TypeOK', NEW p \in Procs, NEW pc, NEW g \in Frame,
         Move(p, pc, g), UNCHANGED session, book' \in Book,
         book'.verdict = book.verdict, book'.binding = book.binding,
         book'.feedback = book.feedback, Fits(g), g.claims => driver[p].claims
  PROVE  Driven'
<1>1. driver' = [driver EXCEPT ![p] = g] /\ crashes' = crashes
  BY DEF Move
<1>. QED
  BY <1>1, DrivenTyped, QuietKeeps

LEMMA RefreshKeeps ==
  ASSUME Driven, NEW p \in Procs, Refresh(p)
  PROVE  Driven'
<1>1. driver[p].pc = "refresh"
  BY DEF Refresh, Goes, Records, Move, At
<1>2. PICK f \in Frame : /\ f = driver[p] /\ Fits(f) /\ OutboxOK /\ f.claims
                         /\ f.next \in Places /\ f.reason \in StopReasons \cup {NoIntent}
                         /\ f.running => Busy(f)
  BY <1>1, MidCall DEF Leaving
<1>3. CASE Goes(p, "refresh", Raised(p))
  BY <1>2, <1>3, RaisesKeeps
<1>4. CASE Records(p, "refresh", [book EXCEPT !.observation_count = @ + 1], To(p, "observe"))
  <2>1. "observe" \in Places \ {"prompt", "agent"}
    BY DEF Places
  <2>2. PICK g \in Frame : /\ g = Onto(f, "observe", f.next, f.reason)
                           /\ g.pc = "observe" /\ g.next = f.next /\ g.claims
                           /\ g.running = f.running /\ g.act = f.act
    BY <1>2, <2>1, OntoTyped
  <2>3. g = To(p, "observe")
    BY <1>2, <2>2, OntoIs
  <2>4. Guided(g) /\ LooksAfter(g)
    BY <1>1, <1>2, <2>2 DEF Fits, Guided, InRun, OutOfRun, LooksAfter, Judging, JudgedIn
  <2>5. Fits(g)
    BY <1>2, <2>1, <2>2, <2>4, OntoFits
  <2>. QED
    BY <1>2, <1>4, <2>2, <2>3, <2>5, CountUp, CountsKeep
<1>. QED
  BY <1>3, <1>4 DEF Refresh

LEMMA ObserveWorldKeeps ==
  ASSUME Driven, Serial, [Next]_vars, NEW p \in Procs, ObserveWorld(p)
  PROVE  Driven'
<1>1. driver[p].pc = "observe"
  BY DEF ObserveWorld, Goes, Move, At
<1>2. PICK f \in Frame : /\ f = driver[p] /\ Fits(f) /\ OutboxOK /\ f.claims
                         /\ f.next \in Places /\ f.reason \in StopReasons \cup {NoIntent}
                         /\ f.running => Busy(f)
  BY <1>1, MidCall DEF Leaving
<1>3. CASE Goes(p, "observe", Raised(p))
  BY <1>2, <1>3, RaisesKeeps
<1>4. CASE Observing(Run) /\ Move(p, "observe", To(p, driver[p].next)) /\ UNCHANGED <<book, session>>
  <2>1. LedgerKept /\ TypeOK'
    <3>1. PICK observation \in Observation : Observe(Run, observation)
      BY <1>4, DriverFacts, ObservationsTyped DEF Observing, Serial
    <3>2. Onward
      BY <3>1, DriverFacts, ObserveOnward DEF Serial
    <3>3. ChecksStay
      BY <3>1 DEF Observe, ChecksStay
    <3>. QED
      BY <3>2, <3>3, OnwardKept
  <2>2. f.next \in {"revise", "final", "respond", "judge"}
    BY <1>1, <1>2 DEF Fits, Guided
  <2>3. PICK g \in Frame : /\ g = Onto(f, f.next, f.next, f.reason)
                           /\ g.pc = f.next /\ g.next = f.next /\ g.claims
                           /\ g.running = f.running /\ g.act = f.act
    BY <1>2, OntoTyped
  <2>4. g = To(p, driver[p].next)
    BY <1>2, <2>3, OntoIs
  <2>5. Guided(g) /\ LooksAfter(g)
    BY <1>1, <1>2, <2>2, <2>3 DEF Fits, Guided, InRun, OutOfRun, LooksAfter, Judging, JudgedIn
  <2>6. Fits(g)
    BY <1>2, <2>2, <2>3, <2>5, OntoFits
  <2>. QED
    BY <1>2, <1>4, <2>1, <2>3, <2>4, <2>6, MovesKeep
<1>. QED
  BY <1>3, <1>4 DEF ObserveWorld

\* Giving up, with the claim or without.
LEMMA StopFits ==
  ASSUME Driven, NEW p \in Procs, NEW f \in Frame, f = driver[p],
         \/ f.pc = "terminate"
         \/ f.pc \in {"stop", "tick"},
         NEW pc \in {"stop", "tick"}, NEW reason \in StopReasons \cup {NoIntent},
         pc = "stop" => reason \in StopReasons
  PROVE  /\ Onto(f, pc, f.next, reason) \in Frame /\ Fits(Onto(f, pc, f.next, reason))
         /\ Onto(f, pc, f.next, reason).claims = f.claims
<1>1. /\ Fits(f) /\ OutboxOK /\ f.next \in Places
      /\ f.running /\ ~Leaving(f) => Busy(f)
  BY MidCall
<1>2. pc \in Places \ {"prompt", "agent"}
  BY DEF Places
<1>3. PICK g \in Frame : /\ g = Onto(f, pc, f.next, reason)
                         /\ g.pc = pc /\ g.next = f.next /\ g.claims = f.claims
                         /\ g.running = f.running /\ g.act = f.act /\ g.reason = reason
  <2>. PICK next \in Places : next = f.next
    BY <1>1
  <2>1. pc \in Places
    BY <1>2
  <2>. QED
    BY <2>1, OntoTyped
<1>4. CASE ~f.claims
  <2>1. f.next = "leave"
    BY <1>1, <1>4 DEF Fits, Operates
  <2>2. Fits(g)
    BY <1>1, <1>3, <1>4, <2>1, OperatorFits
  <2>. QED
    BY <1>3, <2>2
<1>5. CASE f.claims
  <2>1. Guided(g) /\ LooksAfter(g)
    BY <1>1, <1>3, <1>5 DEF Fits, Guided, InRun, OutOfRun, LooksAfter, Judging, JudgedIn
  <2>2. \/ ~f.running \/ Busy(f) \/ pc = "ran"
        \/ pc \in {"terminate", "stop", "tick"} /\ f.next = "ran"
    BY <1>1 DEF Leaving
  <2>3. Fits(g)
    BY <1>1, <1>2, <1>3, <1>5, <2>1, <2>2, OntoFits
  <2>. QED
    BY <1>3, <2>3
<1>. QED
  BY <1>4, <1>5

LEMMA TerminateKeeps ==
  ASSUME Driven, NEW p \in Procs, Terminate(p)
  PROVE  Driven'
<1>. DEFINE named == IF state[Run].stop_intent \in {"cancel", "timeout"}
                     THEN state[Run].stop_intent ELSE driver[p].reason
<1>1. /\ driver[p].pc = "terminate"
      /\ Goes(p, "terminate", [To(p, "stop") EXCEPT !.reason = named])
  <2>1. To(p, "stop").reason = driver[p].reason
    BY ToTyped DEF Places
  <2>. QED
    BY <2>1 DEF Terminate, Goes, Move, At
<1>2. PICK f \in Frame : f = driver[p] /\ Fits(f)
  BY MidCall
<1>3. named \in StopReasons
  BY <1>1, <1>2 DEF Fits, Guided, StopReasons
<1>. HIDE DEF named
<1>4. PICK reason \in StopReasons : reason = named
  BY <1>3
<1>5. PICK g \in Frame : g = Onto(f, "stop", f.next, reason) /\ Fits(g) /\ g.claims = f.claims
  BY <1>1, <1>2, StopFits
<1>6. g = [To(p, "stop") EXCEPT !.reason = reason]
  <2>1. [To(p, "stop") EXCEPT !.reason = reason] = Onto(driver[p], "stop", driver[p].next, reason)
    BY OntoReason
  <2>. QED
    BY <1>2, <1>5, <2>1
<1>. QED
  BY <1>1, <1>2, <1>4, <1>5, <1>6, GoesKeeps

LEMMA StopKeeps ==
  ASSUME Driven, Serial, [Next]_vars, NEW p \in Procs, Stop(p)
  PROVE  Driven'
<1>1. /\ driver[p].pc = "stop" /\ FreezePlan(Run, driver[p].reason)
      /\ Move(p, "stop", To(p, "tick")) /\ UNCHANGED <<book, session>>
  BY DEF Stop, RequestStop, Move, At
<1>2. PICK f \in Frame : f = driver[p] /\ Fits(f) /\ f.reason \in StopReasons \cup {NoIntent}
  BY MidCall
<1>3. f.reason \in StopReasons
  BY <1>1, <1>2 DEF Fits, Guided
<1>4. LedgerKept /\ TypeOK'
  <2>1. Onward /\ ChecksStay
    BY <1>1, <1>2, <1>3, DriverFacts, FreezePlanOnward, ChecksFreeze DEF Serial
  <2>. QED
    BY <2>1, OnwardKept
<1>5. PICK g \in Frame : /\ g = Onto(f, "tick", f.next, f.reason) /\ Fits(g)
                         /\ g.claims = f.claims
  BY <1>1, <1>2, StopFits
<1>6. g = To(p, "tick")
  BY <1>2, <1>5, OntoIs
<1>. QED
  BY <1>1, <1>2, <1>4, <1>5, <1>6, MovesKeep

LEMMA TickRunKeeps ==
  ASSUME Driven, Serial, [Next]_vars, NEW p \in Procs, TickRun(p)
  PROVE  Driven'
<1>1. /\ driver[p].pc = "tick" /\ UNCHANGED ledger /\ UNCHANGED <<book, session>>
      /\ Move(p, "tick", To(p, driver[p].next))
  BY DEF TickRun, Tick, Goes, Move, At, vars, ledger
<1>2. PICK f \in Frame : /\ f = driver[p] /\ Fits(f) /\ OutboxOK /\ f.next \in Places
                         /\ f.reason \in StopReasons \cup {NoIntent}
                         /\ f.running => f.claims
                         /\ f.running /\ ~Leaving(f) => Busy(f)
  BY <1>1, MidCall
<1>3. LedgerKept /\ TypeOK'
  <2>1. Onward /\ ChecksStay
    BY <1>1, NothingOnward DEF ledger, Serial, ChecksStay
  <2>. QED
    BY <2>1, OnwardKept
<1>4. PICK g \in Frame : /\ g = Onto(f, f.next, f.next, f.reason)
                         /\ g.pc = f.next /\ g.next = f.next /\ g.claims = f.claims
                         /\ g.running = f.running /\ g.act = f.act
  BY <1>2, OntoTyped
<1>5. g = To(p, driver[p].next)
  BY <1>2, <1>4, OntoIs
<1>6. CASE ~f.claims
  <2>1. f.next = "leave"
    BY <1>1, <1>2, <1>6 DEF Fits, Operates
  <2>2. Fits(g)
    <3>1. g = Onto(f, "leave", "leave", f.reason) /\ "leave" \in Places
      BY <1>4, <2>1 DEF Places
    <3>. PICK reason \in StopReasons \cup {NoIntent} : reason = f.reason
      BY <1>2
    <3>. QED
      BY <1>2, <1>6, <3>1, OperatorFits
  <2>. QED
    BY <1>1, <1>3, <1>4, <1>5, <1>6, <2>2, MovesKeep
<1>7. CASE f.claims
  <2>1. f.next \in {"ran", "respond", "leave", "replanned"}
    BY <1>1, <1>2 DEF Fits, Guided
  <2>2. Guided(g) /\ LooksAfter(g)
    BY <1>1, <1>2, <1>4, <1>7, <2>1 DEF Fits, Guided, InRun, OutOfRun, LooksAfter, Judging, JudgedIn
  <2>3. \/ ~f.running \/ Busy(f) \/ f.next = "ran"
    BY <1>2 DEF Leaving
  <2>4. Fits(g)
    BY <1>2, <1>4, <1>7, <2>1, <2>2, <2>3, OntoFits
  <2>. QED
    BY <1>1, <1>2, <1>3, <1>4, <1>5, <1>7, <2>4, MovesKeep
<1>. QED
  BY <1>6, <1>7

-----------------------------------------------------------------------------
(* recover.                                                                *)

\* The places that recover's caller goes on from.
LEMMA RecoverFits ==
  ASSUME Driven, NEW p \in Procs, NEW f \in Frame, f = driver[p],
         \/ f.pc \in {"recover", "replanned", "revise"},
         NEW pc, NEW next, NEW reason \in StopReasons,
         \/ pc = "terminate" /\ next = GivenUp(p)
         \/ pc = "stop" /\ next = "replanned"
         \/ pc = "refresh" /\ next = "revise"
         \/ pc \in {GivenUp(p), GoneOn(p)} /\ next = f.next
  PROVE  /\ f.claims
         /\ \A why \in {f.reason, reason} :
              pc \notin {"terminate", "stop"} \/ why = reason =>
                /\ Onto(f, pc, next, why) \in Frame /\ Fits(Onto(f, pc, next, why))
                /\ Onto(f, pc, next, why).claims
<1>1. /\ Fits(f) /\ OutboxOK /\ f.next \in Places /\ f.claims
      /\ f.reason \in StopReasons \cup {NoIntent}
      /\ f.running => Busy(f)
  BY MidCall DEF Leaving
<1>. SUFFICES ASSUME NEW why \in {f.reason, reason},
                     pc \notin {"terminate", "stop"} \/ why = reason
              PROVE  /\ Onto(f, pc, next, why) \in Frame /\ Fits(Onto(f, pc, next, why))
                     /\ Onto(f, pc, next, why).claims
  BY <1>1
<1>2. PICK there \in Places \ {"prompt", "agent"} : there = pc
  BY DEF Places, GivenUp, GoneOn
<1>3. PICK after \in Places : after = next
  BY <1>1 DEF Places, GivenUp
<1>4. why \in StopReasons \cup {NoIntent}
  BY <1>1
<1>5. PICK g \in Frame : /\ g = Onto(f, there, after, why)
                         /\ g.pc = pc /\ g.next = next /\ g.claims /\ g.reason = why
                         /\ g.running = f.running /\ g.act = f.act
  <2>1. there \in Places
    OBVIOUS
  <2>2. /\ Onto(f, there, after, why) \in Frame
        /\ Onto(f, there, after, why).pc = there /\ Onto(f, there, after, why).next = after
        /\ Onto(f, there, after, why).reason = why
        /\ Onto(f, there, after, why).claims = f.claims
        /\ Onto(f, there, after, why).running = f.running
        /\ Onto(f, there, after, why).act = f.act
    BY <1>4, <2>1, OntoTyped
  <2>. QED
    BY <1>1, <1>2, <1>3, <2>2
<1>6. /\ GivenUp(p) = IF f.running THEN "respond" ELSE "leave"
      /\ GoneOn(p) = IF f.running THEN "respond" ELSE "prepare"
  BY DEF GivenUp, GoneOn
<1>7. Guided(g) /\ LooksAfter(g)
  <2>1. CASE pc = "terminate" /\ next = GivenUp(p)
    BY <1>5, <1>6, <2>1 DEF Guided, InRun, OutOfRun, LooksAfter, Judging, JudgedIn
  <2>2. CASE pc = "stop" /\ next = "replanned"
    BY <1>1, <1>5, <2>2 DEF Fits, Guided, InRun, OutOfRun, LooksAfter, Judging, JudgedIn
  <2>3. CASE pc = "refresh" /\ next = "revise"
    BY <1>1, <1>5, <2>3 DEF Fits, Guided, InRun, OutOfRun, LooksAfter, Judging, JudgedIn
  <2>4. CASE pc \in {GivenUp(p), GoneOn(p)} /\ next = f.next
    BY <1>1, <1>5, <1>6, <2>4 DEF Fits, Guided, InRun, OutOfRun, LooksAfter, Judging, JudgedIn
  <2>. QED
    BY <2>1, <2>2, <2>3, <2>4
<1>8. Fits(g)
  BY <1>1, <1>4, <1>5, <1>6, <1>7, OntoFits
<1>. QED
  BY <1>2, <1>3, <1>5, <1>8

LEMMA RecoverKeeps ==
  ASSUME Driven, NEW p \in Procs, Recover(p)
  PROVE  Driven'
<1>1. driver[p].pc = "recover"
  BY DEF Recover, Goes, Records, Move, At
<1>2. PICK f \in Frame : f = driver[p]
  BY DrivenTyped
<1>3. ASSUME NEW pc, NEW reason \in StopReasons, NEW next,
             \/ pc = "terminate" /\ next = GivenUp(p)
             \/ pc = "stop" /\ next = "replanned"
      PROVE  \E g \in Frame : /\ g = [To(p, pc) EXCEPT !.reason = reason, !.next = next]
                              /\ Fits(g) /\ f.claims
  <2>1. PICK g \in Frame : g = Onto(f, pc, next, reason) /\ Fits(g) /\ f.claims
    BY <1>1, <1>2, <1>3, RecoverFits
  <2>2. g = [[f EXCEPT !.pc = pc] EXCEPT !.reason = reason, !.next = next]
    BY <2>1 DEF Frame, Onto
  <2>. QED
    BY <1>2, <2>1, <2>2 DEF To
<1>4. CASE Goes(p, "recover", [To(p, "terminate") EXCEPT !.reason = "failure", !.next = GivenUp(p)])
  <2>1. PICK next : next = GivenUp(p)
    OBVIOUS
  <2>2. PICK g \in Frame : /\ g = [To(p, "terminate") EXCEPT !.reason = "failure", !.next = next]
                           /\ Fits(g) /\ f.claims
    BY <1>3, <2>1 DEF StopReasons
  <2>. QED
    BY <1>2, <1>4, <2>1, <2>2, GoesKeeps
<1>5. CASE Records(p, "recover", [book EXCEPT !.replans = @ + 1],
                   [To(p, "stop") EXCEPT !.reason = "replan", !.next = "replanned"])
  <2>1. PICK g \in Frame : /\ g = [To(p, "stop") EXCEPT !.reason = "replan", !.next = "replanned"]
                           /\ Fits(g) /\ f.claims
    BY <1>3 DEF StopReasons
  <2>. QED
    BY <1>2, <1>5, <2>1, CountUp, CountsKeep
<1>. QED
  BY <1>4, <1>5 DEF Recover

LEMMA ReplannedKeeps ==
  ASSUME Driven, NEW p \in Procs, Replanned(p)
  PROVE  Driven'
<1>1. driver[p].pc = "replanned"
  BY DEF Replanned, Goes, Move, At
<1>2. PICK f \in Frame : f = driver[p]
  BY DrivenTyped
<1>3. "replan" \in StopReasons
  BY DEF StopReasons
<1>4. CASE Goes(p, "replanned", To(p, GivenUp(p)))
  <2>1. PICK pc : pc = GivenUp(p) /\ pc \notin {"terminate", "stop"}
    BY DEF GivenUp
  <2>2. PICK g \in Frame : g = Onto(f, pc, f.next, f.reason) /\ Fits(g) /\ f.claims
    BY <1>1, <1>2, <1>3, <2>1, RecoverFits
  <2>3. g = To(p, pc)
    BY <1>2, <2>2, OntoIs
  <2>. QED
    BY <1>2, <1>4, <2>1, <2>2, <2>3, GoesKeeps
<1>5. CASE Goes(p, "replanned", [To(p, "refresh") EXCEPT !.next = "revise"])
  <2>1. PICK g \in Frame : g = Onto(f, "refresh", "revise", f.reason) /\ Fits(g) /\ f.claims
    BY <1>1, <1>2, <1>3, RecoverFits
  <2>2. g = [To(p, "refresh") EXCEPT !.next = "revise"]
    <3>1. [To(p, "refresh") EXCEPT !.next = "revise"] = Onto(driver[p], "refresh", "revise", driver[p].reason)
      BY OntoIs
    <3>. QED
      BY <1>2, <2>1, <3>1
  <2>. QED
    BY <1>2, <1>5, <2>1, <2>2, GoesKeeps
<1>. QED
  BY <1>4, <1>5 DEF Replanned

LEMMA ReviseRunKeeps ==
  ASSUME Driven, Serial, [Next]_vars, NEW p \in Procs, ReviseRun(p)
  PROVE  Driven'
<1>1. driver[p].pc = "revise"
  BY DEF ReviseRun, Goes, Move, At
<1>2. PICK f \in Frame : f = driver[p] /\ f.claims
  BY <1>1, MidCall
<1>3. "replan" \in StopReasons
  BY DEF StopReasons
<1>4. CASE Goes(p, "revise", Raised(p))
  BY <1>2, <1>4, RaisesKeeps
<1>5. CASE /\ Revise(Run, state[Run].observation) /\ Move(p, "revise", To(p, GoneOn(p)))
           /\ UNCHANGED <<robot, proc, book, session>>
  <2>1. LedgerKept /\ TypeOK'
    <3>1. action' = action
      BY <1>5 DEF Revise
    <3>2. TypeOK'
      BY SerialStep DEF Serial, Safe
    <3>. QED
      BY <3>1, <3>2 DEF LedgerKept, EndsKept, ActionsOf
  <2>2. PICK pc : pc = GoneOn(p) /\ pc \notin {"terminate", "stop"}
    BY DEF GoneOn
  <2>3. PICK g \in Frame : g = Onto(f, pc, f.next, f.reason) /\ Fits(g)
    BY <1>1, <1>2, <1>3, <2>2, RecoverFits
  <2>4. g = To(p, pc)
    BY <1>2, <2>3, OntoIs
  <2>. QED
    BY <1>2, <1>5, <2>1, <2>2, <2>3, <2>4, MovesKeep
<1>. QED
  BY <1>4, <1>5 DEF ReviseRun

-----------------------------------------------------------------------------
(* _run.                                                                   *)

LEMMA RunLoopKeeps ==
  ASSUME Driven, NEW p \in Procs, RunLoop(p)
  PROVE  Driven'
<1>1. driver[p].pc = "prompt"
  BY DEF RunLoop, Goes, Move, At
<1>2. PICK f \in Frame : f = driver[p] /\ Fits(f) /\ f.claims /\ f.running
  BY <1>1, MidCall DEF Fits, Guided, InRun
<1>3. CASE Goes(p, "prompt", Raised(p))
  BY <1>2, <1>1, <1>3, RaisesKeeps
<1>4. CASE Goes(p, "prompt", To(p, "agent"))
  <2>1. PICK g \in Frame : /\ g = To(p, "agent") /\ g.pc = "agent" /\ g.claims /\ g.running
                           /\ g.message = f.message
    BY <1>2, ToTyped DEF Places
  <2>2. Guided(g)
    BY <2>1 DEF Guided, InRun, OutOfRun
  <2>3. CarriesNews(g) /\ DeliversFirst(g)
    BY <1>1, <1>2, <2>1 DEF Fits, CarriesNews, DeliversFirst, Leaving
  <2>4. LooksAfter(g)
    BY <2>1 DEF LooksAfter, Judging, JudgedIn
  <2>5. Fits(g)
    BY <2>1, <2>2, <2>3, <2>4 DEF Fits
  <2>. QED
    BY <1>2, <1>4, <2>1, <2>5, GoesKeeps
<1>. QED
  BY <1>3, <1>4 DEF RunLoop

LEMMA TimeOutKeeps ==
  ASSUME Driven, Serial, [Next]_vars, NEW p \in Procs, TimeOut(p)
  PROVE  Driven'
<1>1. PICK f \in Frame : f = driver[p] /\ f.claims /\ f.pc # "rest"
  <2>1. driver[p].running /\ driver[p].pc # "rest"
    BY DEF TimeOut, InTurn
  <2>. QED
    BY <2>1, MidCall
<1>2. PICK g \in Frame : g = Raised(p) /\ Fits(g)
  BY <1>1, RaisedFits
<1>3. LedgerKept /\ TypeOK'
  <2>1. Onward /\ ChecksStay
    BY NothingOnward DEF TimeOut, ledger, Serial, ChecksStay
  <2>. QED
    BY <2>1, OnwardKept
<1>. QED
  BY <1>1, <1>2, <1>3, DrivenTyped, QuietKeeps DEF TimeOut

LEMMA ReturnedKeeps ==
  ASSUME Driven, NEW p \in Procs, Returned(p)
  PROVE  Driven'
<1>1. driver[p].pc = "returned"
  BY DEF Returned, Goes, Move, At
<1>2. Busy(driver[p]) /\ driver[p].claims
  BY <1>1, AtWorkIsBusy DEF InRun
<1>3. CASE Rejected /\ Goes(p, "returned", [To(p, "invalid") EXCEPT
                              !.message = Result(book.binding.call, None)])
  <2>1. PICK m \in SessionEvent : m = Result(book.binding.call, None)
    BY BookTyped DEF Result, SessionEvent, Kinds
  <2>2. PICK g \in Frame : g = [To(p, "invalid") EXCEPT !.message = m] /\ Fits(g)
    BY <1>2, <1>3, <2>1, InvalidFits
  <2>. QED
    BY <1>2, <1>3, <2>1, <2>2, GoesKeeps
<1>4. CASE Goes(p, "returned", [To(p, "invalid") EXCEPT !.message = Of("user")])
  <2>1. PICK g \in Frame : g = [To(p, "invalid") EXCEPT !.message = Of("user")] /\ Fits(g)
    BY <1>2, OfEvent, InvalidFits DEF Kinds
  <2>. QED
    BY <1>2, <1>4, <2>1, GoesKeeps
<1>5. CASE Goes(p, "returned", To(p, "ran"))
  BY <1>2, <1>5, RunsOn, GoesKeeps DEF InRun
<1>6. \/ Rejected /\ Goes(p, "returned", [To(p, "invalid") EXCEPT
                              !.message = Result(book.binding.call, None)])
      \/ Goes(p, "returned", [To(p, "invalid") EXCEPT !.message = Of("user")])
      \/ Goes(p, "returned", To(p, "ran"))
  BY DEF Returned
<1>. QED
  BY <1>3, <1>4, <1>5, <1>6

LEMMA InvalidKeeps ==
  ASSUME Driven, NEW p \in Procs, Invalid(p)
  PROVE  Driven'
<1>1. driver[p].pc = "invalid"
  BY DEF Invalid, Records, Move, At
<1>2. Busy(driver[p]) /\ driver[p].claims
  BY <1>1, AtWorkIsBusy DEF InRun
<1>3. PICK g \in Frame : /\ Fits(g) /\ g.claims
                         /\ Records(p, "invalid", [book EXCEPT !.invalid_proposals = @ + 1], g)
  <2>1. CASE Records(p, "invalid", [book EXCEPT !.invalid_proposals = @ + 1], Raised(p))
    BY <1>1, <1>2, <2>1, RaisedFits
  <2>2. CASE Records(p, "invalid", [book EXCEPT !.invalid_proposals = @ + 1], To(p, "reply"))
    BY <1>2, <2>2, RunsOn DEF InRun
  <2>. QED
    BY <2>1, <2>2 DEF Invalid
<1>. QED
  BY <1>2, <1>3, CountUp, CountsKeep

LEMMA ReplyKeeps ==
  ASSUME Driven, NEW p \in Procs, Reply(p)
  PROVE  Driven'
<1>. DEFINE kept == IF Rejected THEN NoBinding ELSE book.binding
<1>1. /\ driver[p].pc = "reply" /\ UNCHANGED vars /\ UNCHANGED session /\ crashes' = crashes
      /\ book' = [book EXCEPT !.binding = kept]
      /\ driver' = [driver EXCEPT ![p] = To(p, "prompt")]
  BY DEF Reply, Records, Move, At
<1>2. Busy(driver[p]) /\ driver[p].claims
  BY <1>1, AtWorkIsBusy DEF InRun
<1>3. /\ book' \in Book /\ book'.verdict = book.verdict /\ book'.feedback = book.feedback
      /\ book'.binding = kept
  <2>1. kept \in [call : Nat, act : Actions \cup {None}]
    BY BookTyped DEF NoBinding
  <2>2. book \in Book
    BY DrivenTyped
  <2>. HIDE DEF kept
  <2>. QED
    BY <1>1, <2>1, <2>2 DEF Book
<1>4. ~Rejected' /\ (~Rejected => book'.binding = book.binding)
  BY <1>3 DEF Rejected, NoBinding
<1>5. Accounts /\ action' = action
  BY <1>1 DEF Driven, vars
<1>6. Accounts'
  <2>1. Numbered' /\ ResultsOnce' /\ VerifiedIsJudged' /\ ResultsTrue'
    BY <1>1, <1>3, <1>5 DEF Accounts, Numbered, ResultsOnce, VerifiedIsJudged, ResultsTrue
  <2>2. BindingOK'
    BY <1>1, <1>3, <1>4, <1>5
    DEF Accounts, BindingOK, Bound, BoundCallKnown, Rejected, NoBinding
  <2>3. OutboxOK'
    BY <1>1, <1>3, <1>4, <1>5 DEF Accounts, OutboxOK, Settled
  <2>4. (ActionsOf(Run) # {} => session # <<>>)'
    BY <1>1, <1>5 DEF Accounts, ActionsOf
  <2>. QED
    BY <2>1, <2>2, <2>3, <2>4 DEF Accounts
<1>7. PICK f \in Frame : f = driver[p] /\ Fits(f)
  BY MidCall
<1>8. PICK g \in Frame : /\ g = To(p, "prompt") /\ g.pc = "prompt" /\ g.claims /\ g.running
                         /\ g.message = f.message
  BY <1>2, <1>7, ToTyped DEF Places, Busy
<1>9. Fits(g)'
  <2>1. Guided(g)'
    BY <1>8 DEF Guided, InRun, OutOfRun
  <2>2. CarriesNews(g)'
    BY <1>1, <1>2, <1>3, <1>4, <1>5, <1>7, <1>8 DEF Fits, CarriesNews, Has, Settled
  <2>3. DeliversFirst(g)'
    BY <1>1, <1>2, <1>3, <1>7, <1>8 DEF Fits, DeliversFirst, Busy, Has
  <2>4. LooksAfter(g)'
    BY <1>8 DEF LooksAfter, Judging, JudgedIn
  <2>. QED
    BY <1>8, <2>1, <2>2, <2>3, <2>4 DEF Fits
<1>. QED
  BY <1>1, <1>2, <1>3, <1>6, <1>8, <1>9, NothingKept, DrivenTyped, MoveKeeps

-----------------------------------------------------------------------------
(* The outbox and continue_execution.                                      *)

LEMMA DeliverKeeps ==
  ASSUME Driven, NEW p \in Procs, Deliver(p)
  PROVE  Driven'
<1>. DEFINE said == IF Has("result", book.feedback.call) THEN Nothing ELSE book.feedback
<1>1. /\ driver[p].pc = "deliver"
      /\ Goes(p, "deliver", [Running(p, said) EXCEPT !.delivering = book.feedback.call])
  BY DEF Deliver, Goes, Move, At
<1>2. PICK f \in Frame : f = driver[p] /\ Fits(f) /\ OutboxOK /\ f.claims
  BY <1>1, MidCall
<1>3. /\ book.feedback # Nothing /\ book.feedback \in SessionEvent
      /\ book.feedback.kind = "result" /\ book.feedback.call \in 1..Len(session)
      /\ book.feedback.act # None => Settled(book.feedback.act)
      /\ Rejected => book.feedback.call # book.binding.call
  BY <1>1, <1>2, BookTyped DEF Fits, LooksAfter, OutboxOK
<1>4. PICK call \in Nat : call = book.feedback.call
  BY <1>3 DEF SessionEvent
<1>5. PICK m \in SessionEvent \cup {Nothing} : m = said
  BY <1>3
<1>6. PICK g \in Frame : g = [f EXCEPT !.pc = "prompt", !.running = TRUE, !.message = m,
                                       !.delivering = call]
  <2>1. [f EXCEPT !.pc = "prompt", !.running = TRUE, !.message = m, !.delivering = call] \in Frame
    BY DEF Frame, Places
  <2>. QED
    BY <2>1
<1>7. g = [Running(p, m) EXCEPT !.delivering = call]
  BY <1>2, <1>6 DEF Running, To, Frame
<1>8. g.pc = "prompt" /\ g.running /\ g.claims /\ g.message = m
  BY <1>2, <1>6 DEF Frame
<1>9. CarriesNews(g)
  BY <1>3, <1>5, <1>8 DEF CarriesNews, Nothing
<1>10. DeliversFirst(g)
  <2>1. session # <<>>
    BY <1>3
  <2>. QED
    BY <1>3, <1>5, <1>8, <2>1 DEF DeliversFirst
<1>11. Fits(g)
  BY <1>8, <1>9, <1>10 DEF Fits, Guided, InRun, OutOfRun, LooksAfter, Judging, JudgedIn
<1>. QED
  BY <1>1, <1>2, <1>4, <1>5, <1>7, <1>11, GoesKeeps

\* Looking after the bound action begins here.
LEMMA ContinueFits ==
  ASSUME NEW g, g = [AtRest EXCEPT !.pc = "continue", !.claims = TRUE]
  PROVE  g \in Frame /\ Fits(g) /\ g.claims /\ Fits(g)'
<1>1. /\ g.pc = "continue" /\ g.claims /\ ~g.running /\ g.message = Nothing /\ g \in Frame
  BY DEF AtRest, Frame, Places
<1>. QED
  BY <1>1 DEF Fits, Guided, InRun, OutOfRun, CarriesNews, DeliversFirst, LooksAfter, Judging,
       JudgedIn, Nothing

LEMMA RestFits ==
  /\ AtRest \in Frame /\ Fits(AtRest) /\ Fits(AtRest)' /\ ~AtRest.claims
  BY DEF AtRest, Frame, Places, Fits, Guided, Operates, InRun, OutOfRun

LEMMA RanKeeps ==
  ASSUME Driven, NEW p \in Procs, Ran(p)
  PROVE  Driven'
<1>. DEFINE call == driver[p].delivering
            out == IF call # 0 /\ book.feedback # Nothing /\ book.feedback.call = call
                   THEN Nothing ELSE book.feedback
            left == IF call # 0 /\ book.binding.call # call
                    THEN [AtRest EXCEPT !.pc = "continue", !.claims = TRUE] ELSE AtRest
<1>1. /\ driver[p].pc = "ran" /\ UNCHANGED vars /\ UNCHANGED session /\ crashes' = crashes
      /\ book' = [book EXCEPT !.feedback = out]
      /\ driver' = [driver EXCEPT ![p] = left]
  BY DEF Ran, Records, Move, At
<1>2. driver[p].claims
  BY <1>1, MidCall
<1>3. out \in SessionEvent \cup {Nothing} /\ (out = book.feedback \/ out = Nothing)
  BY BookTyped
<1>4. PICK g \in Frame : g = left /\ Fits(g)'
  BY ContinueFits, RestFits
<1>. HIDE DEF out, left
<1>5. /\ book' \in Book /\ book'.verdict = book.verdict /\ book'.binding = book.binding
      /\ book'.feedback = out
  <2>1. book \in Book
    BY DrivenTyped
  <2>. QED
    BY <1>1, <1>3, <2>1 DEF Book
<1>6. Accounts /\ action' = action
  BY <1>1 DEF Driven, vars
<1>7. Accounts'
  <2>1. Numbered' /\ ResultsOnce' /\ VerifiedIsJudged' /\ ResultsTrue' /\ BindingOK'
    BY <1>1, <1>5, <1>6 DEF Accounts, Numbered, ResultsOnce, VerifiedIsJudged, ResultsTrue,
         BindingOK, Bound, BoundCallKnown, Rejected, Has
  <2>2. OutboxOK'
    BY <1>1, <1>3, <1>5, <1>6 DEF Accounts, OutboxOK, Settled, Rejected
  <2>3. (ActionsOf(Run) # {} => session # <<>>)'
    BY <1>1, <1>6 DEF Accounts, ActionsOf
  <2>. QED
    BY <2>1, <2>2, <2>3 DEF Accounts
<1>. QED
  BY <1>1, <1>2, <1>4, <1>5, <1>7, NothingKept, DrivenTyped, MoveKeeps

LEMMA ContinueExecutionKeeps ==
  ASSUME Driven, NEW p \in Procs, ContinueExecution(p)
  PROVE  Driven'
<1>1. driver[p].pc = "continue"
  BY DEF ContinueExecution, Goes, Move, At
<1>2. PICK f \in Frame : /\ f = driver[p] /\ Fits(f) /\ OutboxOK /\ f.claims
                         /\ f.next \in Places /\ f.reason \in StopReasons \cup {NoIntent}
  BY <1>1, MidCall
<1>3. ~f.running
  BY <1>1, <1>2 DEF Fits, Guided, OutOfRun
<1>4. CASE Goes(p, "continue", AtRest)
  BY <1>4, RestFits, GoesKeeps
<1>5. CASE book.feedback # Nothing /\ Goes(p, "continue", To(p, "deliver"))
  <2>1. "deliver" \in Places \ {"prompt", "agent"}
    BY DEF Places
  <2>2. PICK g \in Frame : /\ g = Onto(f, "deliver", f.next, f.reason)
                           /\ g.pc = "deliver" /\ g.claims /\ ~g.running
    BY <1>2, <1>3, <2>1, OntoTyped
  <2>3. Guided(g) /\ LooksAfter(g)
    BY <1>5, <2>2 DEF Guided, InRun, OutOfRun, LooksAfter, Judging, JudgedIn
  <2>4. Fits(g) /\ g = To(p, "deliver")
    BY <1>2, <1>3, <2>1, <2>2, <2>3, OntoFits, OntoIs
  <2>. QED
    BY <1>2, <1>5, <2>2, <2>4, GoesKeeps
<1>6. ASSUME NEW a, a = book.binding.act, a # None, BoundEnded(a),
             Goes(p, "continue", [To(p, "refresh") EXCEPT !.next = "judge", !.act = a])
      PROVE  Driven'
  <2>1. a \in Actions
    BY <1>6, BookTyped
  <2>2. PICK g : g = [f EXCEPT !.pc = "refresh", !.next = "judge", !.act = a]
    OBVIOUS
  <2>3. g = [To(p, "refresh") EXCEPT !.next = "judge", !.act = a]
    BY <1>2, <2>2 DEF To, Frame
  <2>4. /\ g \in Frame /\ g.pc = "refresh" /\ g.next = "judge" /\ g.act = a /\ g.claims
        /\ ~g.running /\ g.message = f.message
    BY <1>2, <1>3, <2>1, <2>2 DEF Frame, Places
  <2>5. Guided(g)
    BY <2>4 DEF Guided, InRun, OutOfRun
  <2>6. CarriesNews(g) /\ DeliversFirst(g)
    BY <1>2, <2>4 DEF Fits, CarriesNews, DeliversFirst
  <2>7. LooksAfter(g)
    BY <1>6, <2>4 DEF LooksAfter, Judging, JudgedIn, BoundEnded
  <2>8. Fits(g)
    BY <2>4, <2>5, <2>6, <2>7 DEF Fits
  <2>. QED
    BY <1>2, <1>6, <2>3, <2>4, <2>8, GoesKeeps
<1>7. PICK a : a = book.binding.act
  OBVIOUS
<1>8. \/ Goes(p, "continue", AtRest)
      \/ book.feedback # Nothing /\ Goes(p, "continue", To(p, "deliver"))
      \/ /\ a # None /\ BoundEnded(a)
         /\ Goes(p, "continue", [To(p, "refresh") EXCEPT !.next = "judge", !.act = a])
  BY <1>7 DEF ContinueExecution
<1>. QED
  BY <1>4, <1>5, <1>6, <1>7, <1>8

\* The checkpoint is behind.
LEMMA JudgedFits ==
  ASSUME Driven, NEW p \in Procs, driver[p].pc = "judge", NEW verdict
  PROVE  \E g \in Frame :
           /\ g = Judged(p, verdict) /\ g.claims /\ driver[p].claims
           /\ g.act = driver[p].act /\ g.act \in Actions
           /\ action[g.act].status \in TERMINAL
           /\ Settled(g.act) => Fits(g)
           /\ Settled(g.act)' /\ UNCHANGED session /\ book'.binding = book.binding
                /\ book'.feedback = book.feedback /\ EndsKept /\ VerdictsKept => Fits(g)'
<1>1. PICK f \in Frame : /\ f = driver[p] /\ Fits(f) /\ OutboxOK /\ f.claims /\ f.pc = "judge"
                         /\ f.next \in Places /\ f.reason \in StopReasons \cup {NoIntent}
  BY MidCall
<1>2. ~f.running /\ f.act \in Actions /\ action[f.act].status \in TERMINAL
      /\ book.binding.act # None
  BY <1>1 DEF Fits, Guided, OutOfRun, LooksAfter, Judging, Frame
<1>3. PICK pc \in {"recover", "prepare"} : Judged(p, verdict) = To(p, pc)
  BY DEF Judged
<1>4. pc \in Places \ {"prompt", "agent"}
  BY DEF Places
<1>5. PICK g \in Frame : /\ g = To(p, pc) /\ g.pc = pc /\ g.claims /\ ~g.running
                         /\ g.act = f.act /\ g.message = f.message
  BY <1>1, <1>2, <1>4, ToTyped
<1>6. Guided(g)
  BY <1>5 DEF Guided, InRun, OutOfRun
<1>7. CarriesNews(g) /\ DeliversFirst(g)
  BY <1>1, <1>5 DEF Fits, CarriesNews, DeliversFirst
<1>8. ASSUME Settled(g.act)
      PROVE  Fits(g)
  <2>1. LooksAfter(g)
    BY <1>2, <1>5, <1>8, DriverFacts DEF LooksAfter, Judging, JudgedIn
  <2>. QED
    BY <1>5, <1>6, <1>7, <2>1 DEF Fits
<1>9. ASSUME Settled(g.act)', UNCHANGED session, book'.binding = book.binding,
             book'.feedback = book.feedback, EndsKept, VerdictsKept
      PROVE  Fits(g)'
  <2>1. Guided(g)' /\ DeliversFirst(g)'
    BY <1>5, <1>6 DEF Guided, DeliversFirst
  <2>2. CarriesNews(g)'
    <3>1. g.message.kind = "result" /\ g.message.act # None => g.message.act \in Actions
      BY DEF Frame, SessionEvent, Nothing
    <3>. QED
      BY <1>7, <1>9, <3>1, SettledStays DEF CarriesNews, Has, Rejected
  <2>3. LooksAfter(g)'
    BY <1>2, <1>5, <1>9, DriverFacts DEF LooksAfter, Judging, JudgedIn
  <2>. QED
    BY <1>5, <2>1, <2>2, <2>3 DEF Fits
<1>. QED
  BY <1>1, <1>2, <1>3, <1>5, <1>8, <1>9

LEMMA JudgeKeeps ==
  ASSUME Driven, Serial, [Next]_vars, NEW p \in Procs, Judge(p)
  PROVE  Driven'
<1>1. driver[p].pc = "judge"
  BY DEF Judge, At
<1>2. CASE Goes(p, "judge", Raised(p))
  <2>1. driver[p].claims
    BY <1>1, MidCall
  <2>. QED
    BY <1>2, <2>1, RaisesKeeps
<1>3. ASSUME NEW verdict \in Verdicts,
             IF verdict = "PASS" THEN PassCheckpoint(Run, driver[p].act) ELSE FailVerification(Run),
             book' = [book EXCEPT !.verdict[driver[p].act] = verdict],
             Move(p, "judge", Judged(p, verdict)), UNCHANGED session
      PROVE  Driven'
  <2>1. PICK g \in Frame :
           /\ g = Judged(p, verdict) /\ g.claims /\ driver[p].claims
           /\ g.act = driver[p].act /\ g.act \in Actions
           /\ action[g.act].status \in TERMINAL
           /\ Settled(g.act)' /\ UNCHANGED session /\ book'.binding = book.binding
                /\ book'.feedback = book.feedback /\ EndsKept /\ VerdictsKept => Fits(g)'
    BY <1>1, JudgedFits
  <2>2. verdict \in {"PASS", "FAIL"}
    BY DriverAssumption DEF DriverAssumption
  <2>3. /\ book'.verdict = [book.verdict EXCEPT ![g.act] = verdict] /\ book' \in Book
        /\ book'.binding = book.binding /\ book'.feedback = book.feedback
    <3>1. book \in Book
      BY DrivenTyped
    <3>2. book' = [book EXCEPT !.verdict = [book.verdict EXCEPT ![g.act] = verdict]]
      BY <1>3, <2>1, <3>1 DEF Book
    <3>3. [book.verdict EXCEPT ![g.act] = verdict] \in [Actions -> {"none", "PASS", "FAIL"}]
      BY <2>2, <3>1 DEF Book
    <3>. QED
      BY <3>1, <3>2, <3>3 DEF Book
  <2>4. VerdictsKept /\ book'.verdict[g.act] # "none"
    BY <2>1, <2>2, <2>3, BookTyped DEF VerdictsKept
  <2>5. Onward /\ \A a \in Actions : a # g.act => action'[a].verified = action[a].verified
    <3>1. CASE PassCheckpoint(Run, g.act)
      <4>1. Onward
        BY <2>1, <3>1, DriverFacts, PassCheckpointOnward DEF Serial
      <4>2. action \in [Actions -> ActionRecord]
        BY DEF Serial, Safe, TypeOK, TypeLedger
      <4>. QED
        BY <2>1, <3>1, <4>1, <4>2 DEF PassCheckpoint
    <3>2. CASE FailVerification(Run)
      BY <2>1, <3>2, DriverFacts, VerdictOnward DEF FailVerification
    <3>. QED
      BY <1>3, <2>1, <3>1, <3>2
  <2>6. TypeOK' /\ EndsKept /\ ActionsOf(Run)' = ActionsOf(Run)
    <3>1. TypeOK'
      BY SerialStep DEF Serial, Safe
    <3>. QED
      BY <2>5, <3>1 DEF Onward, ActionOnward, EndsKept, ActionsOf
  <2>7. VerifiedIsJudged'
    <3>1. VerifiedIsJudged
      BY DEF Driven, Accounts
    <3>. QED
      BY <2>4, <2>5, <3>1 DEF VerifiedIsJudged, VerdictsKept
  <2>8. Accounts'
    BY <1>3, <2>3, <2>4, <2>6, <2>7, AccountsStay
  <2>9. Settled(g.act)'
    BY <2>1, <2>4, <2>6 DEF Settled, EndsKept
  <2>10. Fits(g)'
    BY <1>3, <2>1, <2>3, <2>4, <2>6, <2>9
  <2>11. driver' = [driver EXCEPT ![p] = g] /\ crashes' = crashes
    BY <1>3, <2>1 DEF Move
  <2>. QED
    BY <1>3, <2>1, <2>3, <2>6, <2>8, <2>10, <2>11, DrivenTyped, MoveKeeps
<1>. QED
  BY <1>2, <1>3 DEF Judge

LEMMA JudgedBeforeKeeps ==
  ASSUME Driven, Serial, NEW p \in Procs, JudgedBefore(p)
  PROVE  Driven'
<1>1. driver[p].pc = "judge" /\ ~Unjudged(driver[p].act)
  BY DEF JudgedBefore, At
<1>2. PICK verdict : verdict = book.verdict[driver[p].act]
  OBVIOUS
<1>3. PICK g \in Frame :
         /\ g = Judged(p, verdict) /\ g.claims /\ driver[p].claims
         /\ g.act = driver[p].act /\ g.act \in Actions
         /\ action[g.act].status \in TERMINAL
         /\ Settled(g.act) => Fits(g)
  BY <1>1, JudgedFits
<1>4. Settled(g.act)
  BY <1>1, <1>3 DEF Unjudged, Settled, Driven, Accounts, VerifiedIsJudged
<1>. QED
  BY <1>2, <1>3, <1>4, GoesKeeps DEF JudgedBefore

LEMMA PrepareKeeps ==
  ASSUME Driven, NEW p \in Procs, Prepare(p)
  PROVE  Driven'
<1>1. /\ driver[p].pc = "prepare" /\ UNCHANGED vars /\ UNCHANGED session /\ crashes' = crashes
      /\ book' = [book EXCEPT !.feedback = Result(book.binding.call, driver[p].act)]
      /\ driver' = [driver EXCEPT ![p] = To(p, "deliver")]
  BY DEF Prepare, Records, Move, At
<1>2. PICK f \in Frame : f = driver[p] /\ Fits(f) /\ f.claims /\ f.pc = "prepare"
  BY <1>1, MidCall
<1>3. ~f.running /\ f.act \in Actions /\ Settled(f.act) /\ book.binding.act # None
  BY <1>2 DEF Fits, Guided, OutOfRun, LooksAfter, JudgedIn, Frame
<1>4. PICK e : e = Result(book.binding.call, f.act)
  OBVIOUS
<1>5. /\ e \in SessionEvent /\ e.kind = "result" /\ e.call = book.binding.call /\ e.act = f.act
      /\ e # Nothing
  BY <1>3, <1>4, BookTyped DEF Result, SessionEvent, Kinds, Nothing
<1>6. /\ book' \in Book /\ book'.verdict = book.verdict /\ book'.binding = book.binding
      /\ book'.feedback = e
  <2>1. book \in Book
    BY DrivenTyped
  <2>. QED
    BY <1>1, <1>2, <1>4, <1>5, <2>1 DEF Book
<1>7. Accounts /\ action' = action
  BY <1>1 DEF Driven, vars
<1>8. book.binding.call \in 1..Len(session) /\ ~Rejected
  <2>1. session \in Seq(SessionEvent)
    BY DrivenTyped
  <2>. QED
    BY <1>3, <1>7, <2>1 DEF Accounts, BindingOK, BoundCallKnown, Rejected
<1>9. Accounts'
  <2>1. Numbered' /\ ResultsOnce' /\ VerifiedIsJudged' /\ ResultsTrue' /\ BindingOK'
    BY <1>1, <1>6, <1>7 DEF Accounts, Numbered, ResultsOnce, VerifiedIsJudged, ResultsTrue,
         BindingOK, Bound, BoundCallKnown, Rejected, Has
  <2>2. OutboxOK'
    BY <1>1, <1>3, <1>5, <1>6, <1>7, <1>8 DEF OutboxOK, Settled, Rejected
  <2>3. (ActionsOf(Run) # {} => session # <<>>)'
    BY <1>1, <1>7 DEF Accounts, ActionsOf
  <2>. QED
    BY <2>1, <2>2, <2>3 DEF Accounts
<1>10. PICK g \in Frame : /\ g = To(p, "deliver") /\ g.pc = "deliver" /\ g.claims /\ ~g.running
                          /\ g.message = f.message
  BY <1>2, <1>3, ToTyped DEF Places
<1>11. Fits(g)'
  <2>1. Guided(g)' /\ DeliversFirst(g)'
    BY <1>10 DEF Guided, InRun, OutOfRun, DeliversFirst
  <2>2. CarriesNews(g)'
    BY <1>1, <1>2, <1>6, <1>7, <1>10 DEF Fits, CarriesNews, Has, Settled
  <2>3. LooksAfter(g)'
    BY <1>5, <1>6, <1>10 DEF LooksAfter, Judging, JudgedIn
  <2>. QED
    BY <1>10, <2>1, <2>2, <2>3 DEF Fits
<1>. QED
  BY <1>1, <1>2, <1>6, <1>9, <1>10, <1>11, NothingKept, DrivenTyped, MoveKeeps

-----------------------------------------------------------------------------
(* The methods callers use.                                                *)

\* A frame that enters _run with nothing to deliver.
LEMMA RunningFits ==
  ASSUME NEW f \in Frame, f.claims, NEW m \in SessionEvent \cup {Nothing},
         m.kind # "result", m.call = 0
  PROVE  \E g \in Frame :
           /\ g = [f EXCEPT !.pc = "prompt", !.running = TRUE, !.message = m]
           /\ g.claims /\ g.running /\ g.pc = "prompt"
           /\ session # <<>> /\ book.feedback = Nothing => Fits(g)
           /\ session' # <<>> /\ book'.feedback = Nothing => Fits(g)'
<1>1. PICK g \in Frame : g = [f EXCEPT !.pc = "prompt", !.running = TRUE, !.message = m]
  <2>1. [f EXCEPT !.pc = "prompt", !.running = TRUE, !.message = m] \in Frame
    BY DEF Frame, Places
  <2>. QED
    BY <2>1
<1>2. g.claims /\ g.running /\ g.pc = "prompt" /\ g.message = m
  BY <1>1 DEF Frame
<1>3. /\ session # <<>> /\ book.feedback = Nothing => Fits(g)
      /\ session' # <<>> /\ book'.feedback = Nothing => Fits(g)'
  BY <1>2 DEF Fits, Guided, InRun, OutOfRun, CarriesNews, DeliversFirst, LooksAfter, Judging, JudgedIn
<1>. QED
  BY <1>1, <1>2, <1>3

LEMMA FirstMessageEvent ==
  /\ FirstMessage \in SessionEvent /\ FirstMessage.kind # "result" /\ FirstMessage.call = 0
  /\ Nothing.kind # "result" /\ Nothing.call = 0
  BY OfEvent DEF FirstMessage, Kinds, Nothing

\* The session is created, and the agent given its first message.
LEMMA CreatedKeeps ==
  ASSUME Driven, NEW p \in Procs, NEW f \in Frame, f.claims, driver[p].claims \/ Unclaimed,
         session = <<>>, session' = <<Of("created")>>, UNCHANGED <<vars, book>>,
         crashes' = crashes,
         driver' = [driver EXCEPT ![p] = [f EXCEPT !.pc = "prompt", !.running = TRUE,
                                                   !.message = FirstMessage]]
  PROVE  Driven'
<1>1. PICK g \in Frame :
         /\ g = [f EXCEPT !.pc = "prompt", !.running = TRUE, !.message = FirstMessage]
         /\ g.claims
         /\ session' # <<>> /\ book'.feedback = Nothing => Fits(g)'
  BY RunningFits, FirstMessageEvent
<1>2. Accounts /\ action' = action /\ book' = book
  BY DEF Driven, vars
<1>3. book.feedback = Nothing /\ ~Bound /\ book.binding.act = None
  BY <1>2 DEF Accounts, OutboxOK, BindingOK, BoundCallKnown
<1>4. /\ session' \in Seq(SessionEvent) /\ session' # <<>> /\ DOMAIN session' = 1..1
      /\ session'[1].kind = "created" /\ session'[1].call = 0
  BY OfEvent DEF Kinds
<1>5. Accounts'
  <2>1. Numbered' /\ ResultsOnce' /\ ResultsTrue'
    BY <1>4 DEF Numbered, ResultsOnce, ResultsTrue
  <2>2. VerifiedIsJudged' /\ OutboxOK' /\ BindingOK'
    BY <1>2, <1>3 DEF Accounts, VerifiedIsJudged, OutboxOK, BindingOK, Bound, Rejected
  <2>. QED
    BY <1>4, <2>1, <2>2 DEF Accounts
<1>. QED
  BY <1>1, <1>2, <1>3, <1>4, <1>5, NothingKept, DrivenTyped, MoveKeeps

LEMMA StartKeeps ==
  ASSUME Driven, NEW p \in Procs, Start(p)
  PROVE  Driven'
<1>1. PICK f \in Frame : f = [driver[p] EXCEPT !.claims = TRUE] /\ f.claims
  <2>1. [driver[p] EXCEPT !.claims = TRUE] \in Frame /\ [driver[p] EXCEPT !.claims = TRUE].claims
    BY DrivenTyped DEF Frame
  <2>. QED
    BY <2>1
<1>2. [Running(p, FirstMessage) EXCEPT !.claims = TRUE]
        = [f EXCEPT !.pc = "prompt", !.running = TRUE, !.message = FirstMessage]
  BY <1>1, DrivenTyped DEF Running, To, Frame
<1>. QED
  BY <1>1, <1>2, CreatedKeeps DEF Start, Claim, Move

\* What a driver begins with when it has the claim.
LEMMA ClaimFits ==
  ASSUME Driven, NEW p \in Procs, driver[p].pc = "rest", NEW pc \in {"continue", "resumed"}
  PROVE  \E g \in Frame : g = [To(p, pc) EXCEPT !.claims = TRUE] /\ Fits(g)
<1>1. PICK f \in Frame : f = driver[p] /\ f = AtRest
  BY MidCall DEF Fits, Guided
<1>2. PICK g : g = [f EXCEPT !.pc = pc, !.claims = TRUE]
  OBVIOUS
<1>3. g = [To(p, pc) EXCEPT !.claims = TRUE]
  BY <1>1, <1>2 DEF To, Frame
<1>4. /\ g \in Frame /\ g.pc = pc /\ g.claims /\ ~g.running /\ g.message = Nothing
  <2>1. pc \in Places
    BY DEF Places
  <2>2. ~f.running /\ f.message = Nothing
    BY <1>1 DEF AtRest
  <2>. QED
    BY <1>2, <2>1, <2>2 DEF Frame
<1>5. Fits(g)
  BY <1>4 DEF Fits, Guided, InRun, OutOfRun, CarriesNews, DeliversFirst, LooksAfter, Judging,
       JudgedIn, Nothing
<1>. QED
  BY <1>3, <1>4, <1>5

LEMMA ReceiveFeedbackKeeps ==
  ASSUME Driven, Serial, [Next]_vars, NEW p \in Procs, ReceiveFeedback(p)
  PROVE  Driven'
<1>1. /\ Unclaimed /\ Move(p, "rest", [To(p, "continue") EXCEPT !.claims = TRUE])
      /\ driver[p].pc = "rest" /\ UNCHANGED <<book, session>>
  BY DEF ReceiveFeedback, Claim, Move, At
<1>2. PICK a \in Actions : action[a].run_id = Run /\ Feedback(a)
  BY DEF ReceiveFeedback, ActionsOf
<1>3. PICK n \in 1..Len(events[a]) : Apply(Run, a, n)
  BY <1>2 DEF Feedback
<1>4. LedgerKept /\ TypeOK'
  <2>1. Onward /\ ChecksStay
    BY <1>3, DriverFacts, ApplyOnward, ChecksApply DEF Serial
  <2>. QED
    BY <2>1, OnwardKept
<1>5. PICK g \in Frame : g = [To(p, "continue") EXCEPT !.claims = TRUE] /\ Fits(g)
  BY <1>1, ClaimFits
<1>. QED
  BY <1>1, <1>4, <1>5, MovesKeep

LEMMA ResumeKeeps ==
  ASSUME Driven, Serial, [Next]_vars, NEW p \in Procs, Resume(p)
  PROVE  Driven'
<1>1. /\ Unclaimed /\ Move(p, "rest", [To(p, "resumed") EXCEPT !.claims = TRUE])
      /\ driver[p].pc = "rest" /\ UNCHANGED <<book, session>> /\ UNCHANGED ledger
  BY DEF Resume, Claim, Move, At, Tick
<1>2. LedgerKept /\ TypeOK'
  <2>1. Onward /\ ChecksStay
    BY <1>1, NothingOnward DEF ledger, Serial, ChecksStay
  <2>. QED
    BY <2>1, OnwardKept
<1>3. PICK g \in Frame : g = [To(p, "resumed") EXCEPT !.claims = TRUE] /\ Fits(g)
  BY <1>1, ClaimFits
<1>. QED
  BY <1>1, <1>2, <1>3, MovesKeep

LEMMA ResumedKeeps ==
  ASSUME Driven, NEW p \in Procs, Resumed(p)
  PROVE  Driven'
<1>1. driver[p].pc = "resumed"
  BY DEF Resumed, Rest, Goes, Tells, Move, At
<1>2. PICK f \in Frame : /\ f = driver[p] /\ Fits(f) /\ OutboxOK /\ f.claims
                         /\ f.next \in Places /\ f.reason \in StopReasons \cup {NoIntent}
  BY <1>1, MidCall
<1>3. ~f.running
  BY <1>1, <1>2 DEF Fits, Guided, OutOfRun
<1>4. ASSUME NEW m \in SessionEvent \cup {Nothing}
      PROVE  Running(p, m) = [f EXCEPT !.pc = "prompt", !.running = TRUE, !.message = m]
  BY <1>2 DEF Running, To, Frame
<1>5. CASE Rest(p, "resumed")
  BY <1>5, RestKeeps
<1>6. CASE /\ session = <<>> /\ Move(p, "resumed", Running(p, FirstMessage))
           /\ session' = <<Of("created")>> /\ UNCHANGED <<vars, book>>
  BY <1>2, <1>4, <1>6, FirstMessageEvent, CreatedKeeps DEF Move
<1>7. ASSUME NEW pc \in {"deliver", "continue"}, pc = "deliver" => book.feedback # Nothing
      PROVE  \E g \in Frame : g = To(p, pc) /\ Fits(g) /\ g.claims
  <2>1. pc \in Places \ {"prompt", "agent"}
    BY DEF Places
  <2>2. PICK g \in Frame : /\ g = Onto(f, pc, f.next, f.reason)
                           /\ g.pc = pc /\ g.claims /\ ~g.running
    <3>. PICK next \in Places, reason \in StopReasons \cup {NoIntent} :
              next = f.next /\ reason = f.reason
      BY <1>2
    <3>1. pc \in Places
      BY <2>1
    <3>. QED
      BY <1>2, <1>3, <3>1, OntoTyped
  <2>3. Guided(g) /\ LooksAfter(g)
    BY <1>7, <2>2 DEF Guided, InRun, OutOfRun, LooksAfter, Judging, JudgedIn
  <2>4. Fits(g)
    BY <1>2, <1>3, <2>1, <2>2, <2>3, OntoFits
  <2>5. g = To(p, pc)
    BY <1>2, <2>2, OntoIs
  <2>. QED
    BY <2>2, <2>4, <2>5
<1>8. CASE book.feedback # Nothing /\ Goes(p, "resumed", To(p, "deliver"))
  <2>1. PICK g \in Frame : g = To(p, "deliver") /\ Fits(g)
    BY <1>7, <1>8
  <2>. QED
    BY <1>2, <1>8, <2>1, GoesKeeps
<1>9. CASE Goes(p, "resumed", To(p, "continue"))
  <2>1. PICK g \in Frame : g = To(p, "continue") /\ Fits(g)
    BY <1>7
  <2>. QED
    BY <1>2, <1>9, <2>1, GoesKeeps
<1>10. CASE /\ session # <<>> /\ BoundCallKnown
            /\ Tells(p, "resumed", Receipt(book.binding.call, book.binding.act), To(p, "continue"))
  <2>1. PICK g \in Frame : g = To(p, "continue") /\ Fits(g) /\ g.claims
    BY <1>7
  <2>2. PICK e : e = Receipt(book.binding.call, book.binding.act)
    OBVIOUS
  <2>3. e \in SessionEvent /\ e.kind = "receipt" /\ e.call = book.binding.call
    BY <2>2, BookTyped DEF Receipt, SessionEvent, Kinds
  <2>4. e.call <= Len(session)
    BY <1>10, <2>3, DrivenTyped DEF BoundCallKnown
  <2>. QED
    BY <1>2, <1>10, <2>1, <2>2, <2>3, <2>4, TellsKeeps
<1>11. ASSUME session # <<>>, book.feedback = Nothing, NEW m \in {Nothing, FirstMessage},
              Goes(p, "resumed", Running(p, m))
       PROVE  Driven'
  <2>1. m \in SessionEvent \cup {Nothing} /\ m.kind # "result" /\ m.call = 0
    BY FirstMessageEvent
  <2>2. PICK g \in Frame : /\ g = [f EXCEPT !.pc = "prompt", !.running = TRUE, !.message = m]
                           /\ Fits(g)
    BY <1>2, <1>11, <2>1, RunningFits
  <2>. QED
    BY <1>2, <1>4, <1>11, <2>1, <2>2, GoesKeeps
<1>. QED
  BY <1>5, <1>6, <1>8, <1>9, <1>10, <1>11 DEF Resumed, OpeningMessage

LEMMA OperatorKeeps ==
  ASSUME Driven, NEW p \in Procs, Cancel(p) \/ CancelMock(p)
  PROVE  Driven'
<1>1. PICK pc \in {"terminate", "stop"} :
        Goes(p, "rest", [AtRest EXCEPT !.pc = pc, !.reason = "cancel", !.next = "leave"])
  BY DEF Cancel, CancelMock
<1>2. PICK g : g = [AtRest EXCEPT !.pc = pc, !.reason = "cancel", !.next = "leave"]
  OBVIOUS
<1>3. /\ g \in Frame /\ g.pc = pc /\ g.reason = "cancel" /\ g.next = "leave"
      /\ ~g.claims /\ ~g.running
  BY <1>2 DEF AtRest, Frame, Places, StopReasons
<1>4. Fits(g)
  BY <1>3 DEF Fits, Guided, Operates, InRun, OutOfRun, StopReasons
<1>. QED
  BY <1>1, <1>2, <1>3, <1>4, GoesKeeps

LEMMA DieKeeps ==
  ASSUME Driven, Serial, [Next]_vars, NEW p \in Procs, Die(p)
  PROVE  Driven'
<1>1. LedgerKept /\ TypeOK'
  <2>1. Onward /\ ChecksStay
    BY NothingOnward DEF Die, ledger, Serial, ChecksStay
  <2>. QED
    BY <2>1, OnwardKept
<1>2. crashes' \in 0..MaxCrashes
  BY DrivenTyped, DriverFacts DEF Die
<1>. QED
  BY <1>1, <1>2, RestFits, DrivenTyped, QuietKeeps DEF Die

-----------------------------------------------------------------------------
(* The invariant.                                                          *)

LEMMA DriveKeeps ==
  ASSUME Driven, Serial, [Next]_vars, NEW p \in Procs, Drive(p)
  PROVE  Driven'
<1>1. CASE Leave(p)
  BY <1>1, RestKeeps DEF Leave
<1>. QED
  BY <1>1, TurnKeeps, RefreshKeeps, ObserveWorldKeeps, TerminateKeeps, StopKeeps, TickRunKeeps,
     RecoverKeeps, ReplannedKeeps, ReviseRunKeeps, RunLoopKeeps, TimeOutKeeps, ReturnedKeeps,
     InvalidKeeps, ReplyKeeps, DeliverKeeps, RanKeeps, ContinueExecutionKeeps, JudgeKeeps,
     JudgedBeforeKeeps, PrepareKeeps, ResumedKeeps DEF Drive

\* Calls of the scheduler go on, and so does the robot.
LEMMA OthersKeep ==
  ASSUME Driven, Serial, [Next]_vars, UNCHANGED driving,
         Environment \/ (\E p \in Procs : Step(p)) \/ UNCHANGED vars
  PROVE  Driven'
<1>1. Onward /\ ChecksStay
  <2>1. CASE UNCHANGED ledger
    BY <2>1, NothingOnward DEF ledger, Serial, ChecksStay
  <2>2. ASSUME NEW p \in Procs, Step(p)
        PROVE  Onward /\ ChecksStay
    BY <2>2, StepsOnward, ChecksStep DEF Serial
  <2>. QED
    BY <2>1, <2>2 DEF Environment, vars, ledger
<1>2. LedgerKept /\ TypeOK'
  BY <1>1, OnwardKept
<1>3. EndsKept /\ VerdictsKept /\ VerifiedIsJudged' /\ ActionsOf(Run)' = ActionsOf(Run)
  BY <1>2 DEF LedgerKept, VerdictsKept, VerifiedIsJudged, Driven, Accounts, driving
<1>4. Accounts' /\ AllFit
  BY <1>3, AccountsStay, FitsStays DEF driving
<1>5. RuntimeTypeOK' /\ Exclusive'
  BY <1>2 DEF Driven, RuntimeTypeOK, Exclusive, driving
<1>6. ASSUME NEW q \in Procs
      PROVE  Fits(driver[q])'
  <2>1. PICK f \in Frame : f = driver[q] /\ Fits(f)
    BY MidCall
  <2>2. Fits(f)' /\ driver'[q] = f
    BY <1>4, <2>1 DEF AllFit, driving
  <2>. QED
    BY <2>2
<1>. QED
  BY <1>4, <1>5, <1>6 DEF Driven

LEMMA DrivenStep ==
  ASSUME Serial, Driven, [RuntimeNext]_allvars
  PROVE  Driven' /\ [Next]_vars
<1>1. [Next]_vars
  BY RuntimeIsStep DEF Driven
<1>2. CASE UNCHANGED allvars
  BY <1>1, <1>2, OthersKeep DEF allvars
<1>3. CASE Environment /\ UNCHANGED driving
  BY <1>1, <1>3, OthersKeep
<1>4. ASSUME NEW p \in Procs, Step(p), UNCHANGED driving
      PROVE  Driven'
  BY <1>1, <1>4, OthersKeep
<1>5. ASSUME NEW p \in Procs, Begin(p) \/ Drive(p) \/ Die(p)
      PROVE  Driven'
  BY <1>1, <1>5, StartKeeps, ReceiveFeedbackKeeps, ResumeKeeps, OperatorKeeps, DriveKeeps, DieKeeps
  DEF Begin
<1>. QED
  BY <1>1, <1>2, <1>3, <1>4, <1>5 DEF RuntimeNext

LEMMA InitDriven ==
  ASSUME DriverInit
  PROVE  Serial /\ Driven
<1>1. Serial /\ TypeOK
  BY InitSerial DEF DriverInit, Serial, Safe
<1>2. /\ book \in Book /\ book.binding = NoBinding /\ book.feedback = Nothing
  BY DEF DriverInit, NewBook, Book, NoBinding, Nothing
<1>3. RuntimeTypeOK
  BY <1>1, <1>2, RestFits, DriverFacts DEF DriverInit, RuntimeTypeOK
<1>4. \A a \in Actions : action[a].run_id = None /\ ~action[a].verified
  BY DEF DriverInit, Init, NewAction
<1>5. Accounts
  <2>1. session = <<>> /\ DOMAIN session = {}
    BY DEF DriverInit
  <2>2. Numbered /\ ResultsOnce /\ ResultsTrue /\ VerifiedIsJudged
    BY <1>4, <2>1 DEF Numbered, ResultsOnce, ResultsTrue, VerifiedIsJudged
  <2>3. BindingOK /\ OutboxOK
    BY <1>2 DEF BindingOK, OutboxOK, Bound, Rejected, NoBinding
  <2>4. ActionsOf(Run) = {}
    BY <1>4, DriverFacts, SchedulerAssumption DEF ActionsOf, SchedulerAssumption
  <2>. QED
    BY <2>2, <2>3, <2>4 DEF Accounts
<1>6. Exclusive /\ \A p \in Procs : Fits(driver[p])
  BY RestFits DEF DriverInit, Exclusive
<1>. QED
  BY <1>1, <1>3, <1>5, <1>6 DEF Driven

\* Serial of the scheduler and Driven of the runtime, together, are inductive.
THEOREM DrivenInvariant == RuntimeSpec => [](Serial /\ Driven)
<1>1. DriverInit => Serial /\ Driven
  BY InitDriven
<1>2. (Serial /\ Driven) /\ [RuntimeNext]_allvars => (Serial /\ Driven)'
  BY DrivenStep, SerialStep
<1>. QED
  BY <1>1, <1>2, PTL DEF RuntimeSpec

\* The runtime implements the scheduler's specification: whatever its methods,
\* the tools and an operator do, and wherever a process dies, the ledger takes
\* a step of Scheduler or none (runtime.py, agent/bridge.py).
THEOREM RuntimeImplements == RuntimeSpec => Spec
<1>1. DriverInit => Init
  BY DEF DriverInit
<1>2. (Serial /\ Driven) /\ [RuntimeNext]_allvars => [Next]_vars
  BY DrivenStep
<1>. QED
  BY <1>1, <1>2, DrivenInvariant, PTL DEF RuntimeSpec, Spec

\* Every variable of the runtime holds values of its type.
THEOREM RuntimeTyped == RuntimeSpec => []RuntimeTypeOK
<1>1. Driven => RuntimeTypeOK
  BY DEF Driven
<1>. QED
  BY <1>1, DrivenInvariant, PTL

\* No crash, and no cancel, makes the runtime tell the agent a result twice.
THEOREM ToldOnce == RuntimeSpec => []ResultsOnce
<1>1. Driven => ResultsOnce
  BY DEF Driven, Accounts
<1>. QED
  BY <1>1, DrivenInvariant, PTL

\* What the agent is told has happened, and was judged.
THEOREM ToldTrue == RuntimeSpec => []ResultsTrue
<1>1. Driven => ResultsTrue
  BY DEF Driven, Accounts
<1>. QED
  BY <1>1, DrivenInvariant, PTL

-----------------------------------------------------------------------------
(* Bindings.                                                               *)

\* Only execute_action binds a call, and only the reply to a refused one
\* forgets it.
LEMMA BindingMoves ==
  ASSUME Driven, [RuntimeNext]_allvars
  PROVE  \/ book'.binding = book.binding
         \/ book'.binding.call = CallId /\ ~Known
         \/ book'.binding = NoBinding /\ Rejected
<1>1. book \in Book
  BY DrivenTyped
<1>2. CASE UNCHANGED book
  BY <1>2
<1>3. ASSUME NEW p \in Procs, Turn(p)
      PROVE  \/ book'.binding = book.binding
             \/ book'.binding.call = CallId /\ ~Known
  <2>1. CASE Propose(p)
    <3>1. PICK act : book' = [book EXCEPT !.binding = [call |-> CallId, act |-> act]]
      BY <2>1 DEF Propose, Records
    <3>2. book'.binding = [call |-> CallId, act |-> act]
      BY <1>1, <3>1 DEF Book
    <3>. QED
      BY <2>1, <3>2 DEF Propose
  <2>2. CASE ~Propose(p)
    BY <1>1, <1>3, <2>2
    DEF Turn, Book, Prompt, ResumeTurn, TakeModelCall, ModelFails, ModelAnswers, ModelBreaksOff,
        Repeated, DispatchNext, Receive, FinishTask, VerifyFinal, Conclude, Respond, ObserveTool,
        Goes, Rest, Tells, Records
  <2>. QED
    BY <2>1, <2>2
<1>4. ASSUME NEW p \in Procs, Reply(p)
      PROVE  book'.binding = book.binding \/ (book'.binding = NoBinding /\ Rejected)
  BY <1>1, <1>4 DEF Reply, Records, Book
<1>5. ASSUME NEW p \in Procs, Judge(p)
      PROVE  book'.binding = book.binding
  BY <1>1, <1>5 DEF Judge, Goes, Book
<1>6. ASSUME NEW p \in Procs, Drive(p), ~Turn(p), ~Reply(p), ~Judge(p)
      PROVE  book'.binding = book.binding
  BY <1>1, <1>6
  DEF Drive, Book, Refresh, ObserveWorld, Terminate, Stop, TickRun, Recover, Replanned, ReviseRun,
      RunLoop, TimeOut, Returned, Invalid, Deliver, Ran, ContinueExecution, JudgedBefore, Prepare,
      Resumed, Leave, Goes, Rest, Tells, Records
<1>7. ASSUME NEW p \in Procs, Begin(p) \/ Die(p)
      PROVE  UNCHANGED book
  BY <1>7 DEF Begin, Start, ReceiveFeedback, Resume, Cancel, CancelMock, Goes, Die
<1>. QED
  BY <1>2, <1>3, <1>4, <1>5, <1>6, <1>7 DEF RuntimeNext, allvars, driving

\* A tool call that is repeated keeps the action that it has made.
THEOREM RepeatKeepsAction == RuntimeSpec => CallKeepsAction
<1>1. (Serial /\ Driven) /\ [RuntimeNext]_allvars =>
        [book'.binding.call = book.binding.call => book'.binding.act = book.binding.act]_allvars
  BY BindingMoves DEF Known, Rejected, NoBinding
<1>. QED
  BY <1>1, DrivenInvariant, PTL DEF RuntimeSpec, CallKeepsAction
=============================================================================
