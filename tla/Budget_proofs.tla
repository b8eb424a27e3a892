--------------------------- MODULE Budget_proofs ----------------------------
(***************************************************************************)
(* Theorems about what the runtime spends: nothing limited is had before   *)
(* it is paid for, and no plan is replaced that has not failed, wherever a *)
(* process dies.  Both rest on Warranted, which is inductive on top of     *)
(* Driven.                                                                 *)
(***************************************************************************)
EXTENDS Runtime_proofs, FiniteSetTheorems

-----------------------------------------------------------------------------
(* Steps that spend nothing.                                               *)

\* The ledger of the run keeps its plan and observation, and no action passes.
LedgerFrugal ==
  /\ state'[Run].plan_version = state[Run].plan_version
  /\ state'[Run].observation = state[Run].observation
  /\ state'[Run].closed = state[Run].closed
  /\ ChecksStay
  /\ \A a \in Actions : /\ action'[a].run_id = action[a].run_id
                        /\ action'[a].plan_version = action[a].plan_version
                        /\ action[a].status \in TERMINAL => action'[a].status \in TERMINAL

\* Nothing is counted, and at most the binding is forgotten.
BookFrugal ==
  /\ Decisions' = Decisions
  /\ book'.model_calls = book.model_calls /\ book'.api_retries = book.api_retries
  /\ book'.replans = book.replans /\ book'.observation_count = book.observation_count
  /\ book'.verdict = book.verdict /\ book'.binding.act \in {book.binding.act, None}

DuesStay == \A f \in Frame : Due(f) => Due(f)'

LEMMA FailedStays ==
  ASSUME LedgerFrugal, PlanHasFailed
  PROVE  PlanHasFailed'
<1>1. CASE state[Run].closed
  BY <1>1 DEF LedgerFrugal, PlanHasFailed
<1>2. CASE ~state[Run].closed
  <2>1. PICK a \in ActionsOf(Run) : /\ action[a].plan_version = state[Run].plan_version
                                    /\ action[a].status \in TERMINAL /\ ~action[a].verified
    BY <1>2 DEF PlanHasFailed
  <2>2. a \in Actions /\ a \in ActionsOf(Run)'
    BY <2>1 DEF LedgerFrugal, ActionsOf
  <2>3. /\ action'[a].plan_version = state'[Run].plan_version
        /\ action'[a].status \in TERMINAL /\ ~action'[a].verified
    BY <2>1, <2>2 DEF LedgerFrugal, ChecksStay
  <2>. QED
    BY <2>2, <2>3 DEF PlanHasFailed
<1>. QED
  BY <1>1, <1>2

LEMMA FrugalStays ==
  ASSUME Warranted, LedgerFrugal, BookFrugal
  PROVE  DuesStay /\ BudgetsHold' /\ BoundHere' /\ VerifiedPassed'
<1>1. ActionsOf(Run)' = ActionsOf(Run)
  BY DEF LedgerFrugal, ActionsOf
<1>2. DuesStay
  <2>. SUFFICES ASSUME NEW f \in Frame, Due(f) PROVE Due(f)'
    BY DEF DuesStay
  <2>1. Cardinality(Decisions)' = Cardinality(Decisions)
    BY DEF BookFrugal
  <2>. QED
    BY <1>1, <2>1, FailedStays DEF Due, BookFrugal, LedgerFrugal, Renewing, Finishing, Judging
<1>3. BudgetsHold'
  BY DEF Warranted, BudgetsHold, BookFrugal, LedgerFrugal
<1>4. BoundHere' /\ VerifiedPassed'
  BY <1>1 DEF Warranted, BoundHere, VerifiedPassed, BookFrugal, LedgerFrugal, ChecksStay
<1>. QED
  BY <1>2, <1>3, <1>4

LEMMA NothingFrugal ==
  ASSUME UNCHANGED vars
  PROVE  LedgerFrugal
  BY DEF LedgerFrugal, ChecksStay, vars

\* A frame that holds nothing but a message.
Owing == {"thinking", "observe", "replanned", "revise", "refresh", "stop", "tick",
          "recover", "final", "judge"}

LEMMA NotOwing ==
  ASSUME NEW f, f.pc \notin Owing, f.message.kind \in {"none", "user", "result"}
  PROVE  Due(f) /\ Due(f)'
  BY DEF Owing, Due, Renewing, Finishing, Judging

\* An operator's frame owes nothing, whatever others do.
LEMMA OperatorOwesNothing ==
  ASSUME NEW f \in Frame, Fits(f), ~f.claims, Due(f)
  PROVE  Due(f)'
  BY DEF Fits, Operates, Due, Renewing, Finishing, Judging

\* One process moves; the others are operators, or find all they need.
LEMMA MoveWarrants ==
  ASSUME Driven, Warranted, NEW p \in Procs, NEW g \in Frame,
         driver' = [driver EXCEPT ![p] = g], Due(g)',
         BudgetsHold', BoundHere', VerifiedPassed',
         driver[p].claims \/ DuesStay
  PROVE  Warranted'
<1>. SUFFICES ASSUME NEW q \in Procs PROVE Due(driver[q])'
  BY DEF Warranted
<1>1. CASE q = p
  BY <1>1, DrivenTyped
<1>2. CASE q # p
  <2>1. PICK f \in Frame : f = driver[q] /\ Fits(f) /\ Due(f)
    BY DrivenTyped DEF Driven, Warranted
  <2>2. driver'[q] = f
    BY <1>2, <2>1, DrivenTyped
  <2>3. Due(f)'
    <3>1. CASE DuesStay
      BY <2>1, <3>1 DEF DuesStay
    <3>2. CASE driver[p].claims
      <4>1. ~f.claims
        BY <1>2, <2>1, <3>2 DEF Driven, Exclusive
      <4>. QED
        BY <2>1, <4>1, OperatorOwesNothing
    <3>. QED
      BY <3>1, <3>2
  <2>. QED
    BY <2>2, <2>3
<1>. QED
  BY <1>1, <1>2

\* A frugal step to a frame that owes nothing new.
LEMMA FrugalWarrants ==
  ASSUME Driven, Warranted, LedgerFrugal, BookFrugal, NEW p \in Procs, NEW g \in Frame,
         driver' = [driver EXCEPT ![p] = g], Due(g)
  PROVE  Warranted'
<1>1. DuesStay /\ BudgetsHold' /\ BoundHere' /\ VerifiedPassed'
  BY FrugalStays
<1>. QED
  BY <1>1, MoveWarrants DEF DuesStay

-----------------------------------------------------------------------------
(* The scheduler's steps that drivers and operators leave to others.       *)

\* No transaction but close, observe and revise changes what a run stands on.
RunsStay == \A r \in Runs : /\ state'[r].closed = state[r].closed
                            /\ state'[r].observation = state[r].observation

LEMMA OnwardFrugal ==
  ASSUME Onward, ChecksStay, RunsStay
  PROVE  LedgerFrugal
  BY DriverFacts DEF Onward, ActionOnward, RunOnward, RunsStay, LedgerFrugal

\* A transaction that writes the status of one run.
LEMMA StatusStays ==
  ASSUME Safe, NEW r \in Runs, NEW s, state' = [state EXCEPT ![r] = [state[r] EXCEPT !.status = s]]
  PROVE  RunsStay
  BY DEF RunsStay, Safe, TypeOK, TypeLedger, RunState

LEMMA FreezeStays ==
  ASSUME Safe, NEW r \in Runs, NEW reason, FreezePlan(r, reason)
  PROVE  RunsStay
  BY DEF RunsStay, FreezePlan, Safe, TypeOK, TypeLedger, RunState

LEMMA UnknownStays ==
  ASSUME Safe, NEW r \in Runs, NEW a, MarkUnknown(r, a)
  PROVE  RunsStay
  BY StatusStays DEF MarkUnknown, RunsStay

LEMMA SnapshotStays ==
  ASSUME Safe, NEW r \in Runs, NEW a, NEW n, AcceptSnapshot(r, a, n)
  PROVE  RunsStay
<1>1. PICK s : s = IF FoundAtWork(a, n) /\ state[r].status = "BLOCKED" THEN "EXECUTING"
                   ELSE state[r].status
  OBVIOUS
<1>2. state' = [state EXCEPT ![r] = [state[r] EXCEPT !.status = s]]
  BY <1>1 DEF AcceptSnapshot
<1>. QED
  BY <1>2, StatusStays

LEMMA ApplyStays ==
  ASSUME Safe, NEW r \in Runs, NEW a, NEW n, Apply(r, a, n)
  PROVE  RunsStay
<1>1. PICK s : s = RunStatusReported(r, a, events[a][n])
  OBVIOUS
<1>2. \/ state' = [state EXCEPT ![r] = [state[r] EXCEPT !.status = s]]
      \/ state' = state
  BY <1>1 DEF Apply
<1>. QED
  BY <1>2, StatusStays DEF RunsStay

LEMMA ConcludeStays ==
  ASSUME Safe, NEW r \in Runs, ConcludeStop(r)
  PROVE  RunsStay
<1>1. PICK s : s = IF StopExpired(r) # {} THEN "BLOCKED"
                   ELSE IF state[r].stop_intent # NoIntent /\ AllEnded(r)
                   THEN OutcomeOf(state[r].stop_intent)
                   ELSE state[r].status
  OBVIOUS
<1>2. state' = [state EXCEPT ![r] = [state[r] EXCEPT !.status = s]]
  BY <1>1 DEF ConcludeStop
<1>. QED
  BY <1>2, StatusStays

LEMMA StepStays ==
  ASSUME Safe, NEW p \in Procs, Step(p)
  PROVE  RunsStay
<1>1. PICK f \in ProcState : f = proc[p] /\ FrameOK(f)
  BY FrameOf
<1>2. CASE UNCHANGED ledger
  BY <1>2 DEF ledger, RunsStay
<1>3. CASE Unknown(p)
  <2>1. MarkUnknown(f.run, f.act) /\ f.pc = "unknown"
    BY <1>1, <1>3 DEF Unknown, Goto
  <2>. QED
    BY <1>1, <2>1, UnknownStays DEF FrameOK
<1>4. CASE CancelUnsupported(p)
  <2>1. PICK a \in f.todo : MarkUnknown(f.run, a) /\ f.pc = "cancel"
    BY <1>1, <1>4 DEF CancelUnsupported, Goto
  <2>. QED
    BY <1>1, <2>1, UnknownStays DEF FrameOK
<1>5. CASE AcceptAnswer(p)
  <2>1. AcceptSnapshot(f.run, f.act, f.snap) /\ f.pc = "accept"
    BY <1>1, <1>5 DEF AcceptAnswer, Goto
  <2>. QED
    BY <1>1, <2>1, SnapshotStays DEF FrameOK
<1>6. CASE ApplyAnswer(p)
  <2>1. Apply(f.run, f.act, f.snap) /\ f.pc = "apply"
    BY <1>1, <1>6 DEF ApplyAnswer, Goto
  <2>. QED
    BY <1>1, <2>1, ApplyStays DEF FrameOK
<1>7. CASE TickStop(p)
  <2>1. FreezePlan(f.run, "timeout") /\ f.pc = "tick_stop"
    BY <1>1, <1>7 DEF TickStop, Goto
  <2>. QED
    BY <1>1, <2>1, FreezeStays DEF FrameOK
<1>8. CASE Settle(p)
  <2>1. ConcludeStop(f.run) /\ f.pc = "settle"
    BY <1>1, <1>8 DEF Settle, Goto
  <2>. QED
    BY <1>1, <2>1, ConcludeStays DEF FrameOK
<1>. QED
  BY <1>2, <1>3, <1>4, <1>5, <1>6, <1>7, <1>8
  DEF Step, SubmitAnswered, SubmitReplyLost, SubmitTimesOut, SubmitDisconnected,
      StopRead, CancelConfirmed, CancelAnswered, CancelFails, ReconcileRead, LookupAnswered,
      LookupFails

LEMMA LedgerStays ==
  ASSUME UNCHANGED ledger
  PROVE  LedgerFrugal
  BY DEF ledger, LedgerFrugal, ChecksStay

\* Calls of the scheduler go on, and so does the robot.
LEMMA OthersWarrant ==
  ASSUME Driven, Serial, Warranted, UNCHANGED driving,
         Environment \/ (\E p \in Procs : Step(p)) \/ UNCHANGED vars
  PROVE  Warranted'
<1>1. LedgerFrugal
  <2>1. CASE UNCHANGED ledger
    BY <2>1, LedgerStays
  <2>2. ASSUME NEW p \in Procs, Step(p)
        PROVE  LedgerFrugal
    BY <2>2, StepsOnward, ChecksStep, StepStays, OnwardFrugal DEF Serial
  <2>. QED
    BY <2>1, <2>2 DEF Environment, vars, ledger
<1>2. BookFrugal
  BY DEF BookFrugal, driving, Decisions
<1>3. DuesStay /\ BudgetsHold' /\ BoundHere' /\ VerifiedPassed'
  BY <1>1, <1>2, FrugalStays
<1>4. ASSUME NEW q \in Procs
      PROVE  Due(driver[q])'
  <2>1. PICK f \in Frame : f = driver[q] /\ Due(f)
    BY DrivenTyped DEF Warranted
  <2>2. Due(f)' /\ driver'[q] = f
    BY <1>3, <2>1 DEF DuesStay, driving
  <2>. QED
    BY <2>2
<1>. QED
  BY <1>3, <1>4 DEF Warranted

-----------------------------------------------------------------------------
(* Frames of drivers.                                                      *)

UserKinds == {"none", "user", "result"}

LEMMA FrameDue ==
  ASSUME Driven, Warranted, NEW p \in Procs
  PROVE  \E f \in Frame : /\ f = driver[p] /\ Fits(f) /\ Due(f) /\ f.message.kind \in UserKinds
                          /\ f.pc \notin {"rest", "leave", "terminate", "stop", "tick"} => f.claims
<1>1. PICK f \in Frame : f = driver[p] /\ Fits(f) /\ Due(f)
  BY DrivenTyped DEF Driven, Warranted
<1>2. f.message.kind \in UserKinds
  BY <1>1 DEF Due, UserKinds
<1>3. f.pc \notin {"rest", "leave", "terminate", "stop", "tick"} => f.claims
  BY <1>1 DEF Fits, Operates
<1>. QED
  BY <1>1, <1>2, <1>3

\* A frame that goes on to pc, perhaps with a message or a flag, owes nothing
\* when pc does not.
LEMMA Lands ==
  ASSUME Driven, Warranted, NEW p \in Procs, NEW pc, pc \notin Owing, NEW g,
         \/ g = To(p, pc)
         \/ \E b : g = [To(p, pc) EXCEPT !.paused = b]
         \/ \E m : m.kind \in UserKinds /\ g = [To(p, pc) EXCEPT !.message = m]
         \/ \E b : g = [To(p, pc) EXCEPT !.answering = b]
         \/ \E b, c : g = [To(p, pc) EXCEPT !.paused = b, !.answering = c]
         \/ \E m, b, c : m.kind \in UserKinds
             /\ g = [To(p, pc) EXCEPT !.message = m, !.paused = b, !.answering = c]
         \/ \E b, m : m.kind \in UserKinds
                        /\ g = [To(p, pc) EXCEPT !.running = b, !.message = m]
         \/ \E r, n : g = [To(p, pc) EXCEPT !.reason = r, !.next = n]
         \/ \E r : g = [To(p, pc) EXCEPT !.reason = r]
         \/ \E b : g = [To(p, pc) EXCEPT !.claims = b]
  PROVE  g.pc = pc /\ Due(g) /\ Due(g)'
<1>1. PICK f \in Frame : f.message.kind \in UserKinds /\ To(p, pc) = [f EXCEPT !.pc = pc]
  <2>1. PICK f \in Frame : f.message.kind \in UserKinds /\ f = driver[p]
    BY FrameDue
  <2>. QED
    BY <2>1 DEF To
<1>2. g.pc = pc /\ g.message.kind \in UserKinds
  <2>1. CASE \/ \E b : g = [To(p, pc) EXCEPT !.paused = b]
             \/ \E b : g = [To(p, pc) EXCEPT !.answering = b]
             \/ \E b, c : g = [To(p, pc) EXCEPT !.paused = b, !.answering = c]
    BY <1>1, <2>1 DEF Frame
  <2>2. CASE \E m : m.kind \in UserKinds /\ g = [To(p, pc) EXCEPT !.message = m]
    BY <1>1, <2>2 DEF Frame
  <2>3. CASE \E m, b, c : m.kind \in UserKinds
               /\ g = [To(p, pc) EXCEPT !.message = m, !.paused = b, !.answering = c]
    BY <1>1, <2>3 DEF Frame
  <2>4. CASE \E b, m : m.kind \in UserKinds
                         /\ g = [To(p, pc) EXCEPT !.running = b, !.message = m]
    BY <1>1, <2>4 DEF Frame
  <2>5. CASE \E r, n : g = [To(p, pc) EXCEPT !.reason = r, !.next = n]
    BY <1>1, <2>5 DEF Frame
  <2>6. CASE g = To(p, pc) \/ \E r : g = [To(p, pc) EXCEPT !.reason = r]
    BY <1>1, <2>6 DEF Frame
  <2>7. CASE \E b : g = [To(p, pc) EXCEPT !.claims = b]
    BY <1>1, <2>7 DEF Frame
  <2>. QED
    BY <2>1, <2>2, <2>3, <2>4, <2>5, <2>6, <2>7
<1>. QED
  BY <1>2, NotOwing DEF UserKinds

LEMMA RaisedLands ==
  ASSUME Driven, Warranted, NEW p \in Procs, NEW g, g = Raised(p)
  PROVE  Due(g) /\ Due(g)'
<1>1. PICK f \in Frame : f.message.kind \in UserKinds /\ f = driver[p]
  BY FrameDue
<1>2. g.pc = "terminate" /\ g.message.kind \in UserKinds
  BY <1>1 DEF Raised, Frame
<1>. QED
  BY <1>2, NotOwing DEF UserKinds, Owing

LEMMA AtRestLands ==
  ASSUME NEW g, \/ g = AtRest
                \/ g = [AtRest EXCEPT !.pc = "terminate", !.reason = "cancel", !.next = "leave"]
                \/ g = [AtRest EXCEPT !.pc = "continue", !.claims = TRUE]
                \/ g = [AtRest EXCEPT !.pc = "stop", !.reason = "cancel", !.next = "leave"]
  PROVE  Due(g) /\ Due(g)'
<1>1. /\ g.message.kind = "none"
      /\ g.pc \in {"rest", "continue", "terminate"} \/ (g.pc = "stop" /\ g.next = "leave")
  <2>1. CASE g = AtRest
    BY <2>1 DEF AtRest, Nothing
  <2>2. CASE g = [AtRest EXCEPT !.pc = "terminate", !.reason = "cancel", !.next = "leave"]
    BY <2>2 DEF AtRest, Nothing
  <2>3. CASE g = [AtRest EXCEPT !.pc = "continue", !.claims = TRUE]
    BY <2>3 DEF AtRest, Nothing
  <2>4. CASE g = [AtRest EXCEPT !.pc = "stop", !.reason = "cancel", !.next = "leave"]
    BY <2>4 DEF AtRest, Nothing
  <2>. QED
    BY <2>1, <2>2, <2>3, <2>4
<1>. QED
  BY <1>1 DEF Due, Renewing, Finishing, Judging

\* The frame a process moves to is one.
LEMMA LandsTyped ==
  ASSUME Driven, Driven', NEW p \in Procs, NEW g, driver' = [driver EXCEPT ![p] = g]
  PROVE  g \in Frame
<1>1. driver \in [Procs -> Frame] /\ driver' \in [Procs -> Frame]
  BY DEF Driven, RuntimeTypeOK
<1>. QED
  BY <1>1

LEMMA GoesWarrants ==
  ASSUME Driven, Driven', Warranted, NEW p \in Procs, NEW pc, NEW g, Goes(p, pc, g), Due(g)
  PROVE  Warranted'
<1>1. driver' = [driver EXCEPT ![p] = g] /\ UNCHANGED vars /\ UNCHANGED <<book, session>>
  BY DEF Goes, Move
<1>2. g \in Frame
  BY <1>1, LandsTyped
<1>3. LedgerFrugal /\ BookFrugal
  BY <1>1, NothingFrugal DEF BookFrugal, Decisions
<1>. QED
  BY <1>1, <1>2, <1>3, FrugalWarrants

LEMMA RestWarrants ==
  ASSUME Driven, Driven', Warranted, NEW p \in Procs, NEW pc, Rest(p, pc)
  PROVE  Warranted'
<1>1. PICK g : g = AtRest
  OBVIOUS
<1>2. Goes(p, pc, g) /\ Due(g)
  BY <1>1, AtRestLands DEF Rest, Goes
<1>. QED
  BY <1>2, GoesWarrants

\* Only the model decides.
LEMMA TellsWarrants ==
  ASSUME Driven, Driven', Warranted, NEW p \in Procs, NEW pc, NEW event, NEW g,
         Tells(p, pc, event, g), Due(g), event.kind \notin Tools \cup {"text"}
  PROVE  Warranted'
<1>1. /\ driver' = [driver EXCEPT ![p] = g] /\ UNCHANGED vars /\ UNCHANGED book
      /\ session' = Append(session, event)
  BY DEF Tells, Move
<1>2. g \in Frame
  BY <1>1, LandsTyped
<1>3. LedgerFrugal
  BY <1>1, NothingFrugal
<1>4. Decisions' = Decisions
  <2>1. session \in Seq(SessionEvent)
    BY DrivenTyped
  <2>2. /\ DOMAIN session = 1..Len(session) /\ DOMAIN session' = 1..(Len(session) + 1)
        /\ \A i \in 1..Len(session) : session'[i] = session[i]
        /\ session'[Len(session) + 1] = event
    BY <1>1, <2>1
  <2>. QED
    BY <2>1, <2>2 DEF Decisions
<1>5. BookFrugal
  BY <1>1, <1>4 DEF BookFrugal
<1>. QED
  BY <1>1, <1>2, <1>3, <1>5, FrugalWarrants

\* What is recorded is neither counted nor bound.
LEMMA RecordsWarrants ==
  ASSUME Driven, Driven', Warranted, NEW p \in Procs, NEW pc, NEW b, NEW g,
         Records(p, pc, b, g), Due(g),
         b.model_calls = book.model_calls, b.api_retries = book.api_retries,
         b.replans = book.replans, b.observation_count = book.observation_count,
         b.verdict = book.verdict, b.binding.act \in {book.binding.act, None}
  PROVE  Warranted'
<1>1. /\ driver' = [driver EXCEPT ![p] = g] /\ UNCHANGED vars /\ UNCHANGED session /\ book' = b
  BY DEF Records, Move
<1>2. g \in Frame
  BY <1>1, LandsTyped
<1>3. LedgerFrugal /\ BookFrugal
  BY <1>1, NothingFrugal DEF BookFrugal, Decisions
<1>. QED
  BY <1>1, <1>2, <1>3, FrugalWarrants

\* A refresh on the way to something that is warranted already.
LEMMA ErrandDue ==
  ASSUME Driven, Warranted, NEW p \in Procs, NEW n \in {"respond", "final", "revise"}, NEW g,
         g = [To(p, "refresh") EXCEPT !.next = n],
         n = "final" => state[Run].closed,
         n = "revise" => PlanHasFailed /\ state[Run].plan_version <= book.replans
  PROVE  Due(g)
<1>1. PICK f \in Frame : f.message.kind \in UserKinds /\ f = driver[p]
  BY FrameDue
<1>2. g.pc = "refresh" /\ g.next = n /\ g.message.kind \in UserKinds
  BY <1>1 DEF To, Frame
<1>. QED
  BY <1>2 DEF Due, Renewing, Finishing, Judging, UserKinds

-----------------------------------------------------------------------------
(* The agent's turn, where it spends nothing.                              *)

LEMMA PromptWarrants ==
  ASSUME Driven, Driven', Warranted, NEW p \in Procs, Prompt(p)
  PROVE  Warranted'
<1>1. PICK m, b, g :
        /\ m = Nothing /\ b = FALSE
        /\ g = [To(p, "model") EXCEPT !.message = m, !.paused = b, !.answering = b]
  OBVIOUS
<1>2. m.kind \in UserKinds /\ "model" \notin Owing
  BY <1>1 DEF Nothing, UserKinds, Owing
<1>3. Due(g)
  <2>1. \E n, c, d : n.kind \in UserKinds
          /\ g = [To(p, "model") EXCEPT !.message = n, !.paused = c, !.answering = d]
    BY <1>1, <1>2
  <2>. QED
    BY <1>2, <2>1, Lands
<1>4. driver[p].message.kind \in UserKinds
  <2>1. PICK f \in Frame : f.message.kind \in UserKinds /\ f = driver[p]
    BY FrameDue
  <2>. QED
    BY <2>1
<1>5. driver[p].message.kind \notin Tools \cup {"text"}
  BY <1>4, DriverAssumption DEF DriverAssumption, UserKinds
<1>. QED
  BY <1>1, <1>3, <1>5, TellsWarrants DEF Prompt

LEMMA ResumeTurnWarrants ==
  ASSUME Driven, Driven', Warranted, NEW p \in Procs, ResumeTurn(p)
  PROVE  Warranted'
<1>1. PICK pc \in {"returned", "tool", "model"}, b \in BOOLEAN :
        Goes(p, "agent", [To(p, pc) EXCEPT !.paused = b, !.answering = FALSE])
  BY DEF ResumeTurn
<1>2. PICK g : g = [To(p, pc) EXCEPT !.paused = b, !.answering = FALSE]
  OBVIOUS
<1>3. Due(g)
  <2>1. pc \notin Owing
    BY DEF Owing
  <2>2. \E c, d : g = [To(p, pc) EXCEPT !.paused = c, !.answering = d]
    BY <1>2
  <2>. QED
    BY <2>1, <2>2, Lands
<1>. QED
  BY <1>1, <1>2, <1>3, GoesWarrants

LEMMA RepeatedWarrants ==
  ASSUME Driven, Driven', Warranted, NEW p \in Procs, Repeated(p)
  PROVE  Warranted'
<1>1. CASE Rest(p, "tool")
  BY <1>1, RestWarrants
<1>2. CASE Goes(p, "tool", To(p, "receipt"))
  <2>1. PICK g : g = To(p, "receipt")
    OBVIOUS
  <2>2. Due(g)
    BY <2>1, Lands DEF Owing
  <2>. QED
    BY <1>2, <2>1, <2>2, GoesWarrants
<1>. QED
  BY <1>1, <1>2 DEF Repeated

\* The tools answer.
LEMMA SaysWarrants ==
  ASSUME Driven, Driven', Warranted, NEW p \in Procs, NEW pc, NEW e, NEW to \in {"returned", "model"},
         NEW g, Tells(p, pc, e, g), e.kind \in {"receipt", "final", "response"},
         g = To(p, to) \/ g = [To(p, to) EXCEPT !.paused = FALSE]
  PROVE  Warranted'
<1>1. to \notin Owing
  BY DEF Owing
<1>2. Due(g)
  BY <1>1, Lands
<1>3. e.kind \notin Tools \cup {"text"}
  BY DriverAssumption DEF DriverAssumption
<1>. QED
  BY <1>2, <1>3, TellsWarrants

LEMMA AnswersWarrant ==
  ASSUME Driven, Driven', Warranted, NEW p \in Procs, Receive(p) \/ Conclude(p) \/ Respond(p)
  PROVE  Warranted'
<1>1. CASE Receive(p)
  <2>1. PICK e, g : e = Receipt(CallId, book.binding.act) /\ g = To(p, "returned")
    OBVIOUS
  <2>2. e.kind = "receipt" /\ Tells(p, "receipt", e, g)
    BY <1>1, <2>1 DEF Receive, Receipt
  <2>. QED
    BY <2>1, <2>2, SaysWarrants
<1>2. CASE Conclude(p)
  <2>1. PICK e, g : e = Of("final") /\ g = [To(p, "returned") EXCEPT !.paused = FALSE]
    OBVIOUS
  <2>2. e.kind = "final" /\ Tells(p, "conclude", e, g)
    BY <1>2, <2>1 DEF Conclude, Of
  <2>. QED
    BY <2>1, <2>2, SaysWarrants
<1>3. CASE Respond(p)
  <2>1. PICK e, g : e = Of("response") /\ g = To(p, "model")
    OBVIOUS
  <2>2. e.kind = "response" /\ Tells(p, "respond", e, g)
    BY <1>3, <2>1 DEF Respond, Of
  <2>. QED
    BY <2>1, <2>2, SaysWarrants
<1>. QED
  BY <1>1, <1>2, <1>3

LEMMA ObserveToolWarrants ==
  ASSUME Driven, Driven', Warranted, NEW p \in Procs, ObserveTool(p)
  PROVE  Warranted'
<1>1. PICK g : g = [To(p, "refresh") EXCEPT !.next = "respond"]
  OBVIOUS
<1>2. Due(g)
  BY <1>1, ErrandDue
<1>. QED
  BY <1>1, <1>2, GoesWarrants DEF ObserveTool

LEMMA RaisesWarrants ==
  ASSUME Driven, Driven', Warranted, NEW p \in Procs, NEW pc, Goes(p, pc, Raised(p))
  PROVE  Warranted'
<1>1. PICK g : g = Raised(p)
  OBVIOUS
<1>. QED
  BY <1>1, RaisedLands, GoesWarrants

\* A method goes on where nothing is owed.
LEMMA GoesOnWarrants ==
  ASSUME Driven, Driven', Warranted, NEW p \in Procs, NEW pc, NEW to, to \notin Owing,
         Goes(p, pc, To(p, to))
  PROVE  Warranted'
<1>1. PICK g : g = To(p, to)
  OBVIOUS
<1>2. Due(g)
  BY <1>1, Lands
<1>. QED
  BY <1>1, <1>2, GoesWarrants

-----------------------------------------------------------------------------
(* The methods of Runtime, where they spend nothing.                       *)

LEMMA TerminateWarrants ==
  ASSUME Driven, Driven', Warranted, NEW p \in Procs, Terminate(p)
  PROVE  Warranted'
<1>1. PICK reason, g : Goes(p, "terminate", g) /\ g = [To(p, "stop") EXCEPT !.reason = reason]
  BY DEF Terminate
<1>2. PICK f \in Frame : f = driver[p] /\ Fits(f) /\ f.message.kind \in UserKinds
  BY FrameDue
<1>3. f.next \in {"ran", "respond", "leave"}
  BY <1>1, <1>2 DEF Fits, Guided, Goes, Move, At
<1>4. g.pc = "stop" /\ g.next = f.next /\ g.message.kind \in UserKinds
  BY <1>1, <1>2 DEF To, Frame
<1>5. Due(g)
  BY <1>3, <1>4 DEF Due, Renewing, Finishing, Judging, UserKinds
<1>. QED
  BY <1>1, <1>5, GoesWarrants

LEMMA ReplannedWarrants ==
  ASSUME Driven, Driven', Warranted, NEW p \in Procs, Replanned(p)
  PROVE  Warranted'
<1>1. CASE Goes(p, "replanned", To(p, GivenUp(p)))
  <2>1. GivenUp(p) \notin Owing
    BY DEF GivenUp, Owing
  <2>. QED
    BY <1>1, <2>1, GoesOnWarrants
<1>2. CASE Goes(p, "replanned", [To(p, "refresh") EXCEPT !.next = "revise"])
  <2>1. PICK f \in Frame : f = driver[p] /\ Due(f) /\ f.pc = "replanned"
    BY <1>2, FrameDue DEF Goes, Move, At
  <2>2. PlanHasFailed /\ state[Run].plan_version <= book.replans
    BY <2>1 DEF Due, Renewing
  <2>3. PICK g : g = [To(p, "refresh") EXCEPT !.next = "revise"]
    OBVIOUS
  <2>4. Due(g)
    BY <2>2, <2>3, ErrandDue
  <2>. QED
    BY <1>2, <2>3, <2>4, GoesWarrants
<1>. QED
  BY <1>1, <1>2 DEF Replanned

LEMMA RunLoopWarrants ==
  ASSUME Driven, Driven', Warranted, NEW p \in Procs, RunLoop(p)
  PROVE  Warranted'
  BY RaisesWarrants, GoesOnWarrants DEF RunLoop, Owing

LEMMA TimeOutWarrants ==
  ASSUME Driven, Driven', Warranted, NEW p \in Procs, TimeOut(p)
  PROVE  Warranted'
<1>1. PICK g : g = Raised(p)
  OBVIOUS
<1>2. Due(g) /\ driver' = [driver EXCEPT ![p] = g]
  BY <1>1, RaisedLands DEF TimeOut
<1>3. g \in Frame
  BY <1>2, LandsTyped
<1>4. LedgerFrugal /\ BookFrugal
  BY LedgerStays DEF TimeOut, BookFrugal, Decisions
<1>. QED
  BY <1>2, <1>3, <1>4, FrugalWarrants

LEMMA ReturnedWarrants ==
  ASSUME Driven, Driven', Warranted, NEW p \in Procs, Returned(p)
  PROVE  Warranted'
<1>1. CASE Goes(p, "returned", To(p, "ran"))
  BY <1>1, GoesOnWarrants DEF Owing
<1>2. CASE \E m : Goes(p, "returned", [To(p, "invalid") EXCEPT !.message = m])
                  /\ m.kind \in {"result", "user"}
  <2>1. PICK m, g : /\ Goes(p, "returned", g) /\ m.kind \in UserKinds
                    /\ g = [To(p, "invalid") EXCEPT !.message = m]
    BY <1>2 DEF UserKinds
  <2>2. Due(g)
    BY <2>1, Lands DEF Owing
  <2>. QED
    BY <2>1, <2>2, GoesWarrants
<1>3. Result(book.binding.call, None).kind = "result" /\ Of("user").kind = "user"
  BY DEF Result, Of
<1>. QED
  BY <1>1, <1>2, <1>3 DEF Returned

LEMMA InvalidWarrants ==
  ASSUME Driven, Driven', Warranted, NEW p \in Procs, Invalid(p)
  PROVE  Warranted'
<1>1. PICK b, g : /\ Records(p, "invalid", b, g)
                  /\ b = [book EXCEPT !.invalid_proposals = @ + 1]
                  /\ g = Raised(p) \/ g = To(p, "reply")
  BY DEF Invalid
<1>2. Due(g)
  BY <1>1, RaisedLands, Lands DEF Owing
<1>3. /\ b.model_calls = book.model_calls /\ b.api_retries = book.api_retries
      /\ b.replans = book.replans /\ b.observation_count = book.observation_count
      /\ b.verdict = book.verdict /\ b.binding.act = book.binding.act
  BY <1>1, DrivenTyped DEF Book
<1>. QED
  BY <1>1, <1>2, <1>3, RecordsWarrants

LEMMA ReplyWarrants ==
  ASSUME Driven, Driven', Warranted, NEW p \in Procs, Reply(p)
  PROVE  Warranted'
<1>0. PICK c \in {NoBinding, book.binding} : c = IF Rejected THEN NoBinding ELSE book.binding
  OBVIOUS
<1>1. PICK b, g : Records(p, "reply", b, g) /\ b = [book EXCEPT !.binding = c] /\ g = To(p, "prompt")
  BY <1>0 DEF Reply
<1>2. Due(g)
  BY <1>1, Lands DEF Owing
<1>3. /\ b.model_calls = book.model_calls /\ b.api_retries = book.api_retries
      /\ b.replans = book.replans /\ b.observation_count = book.observation_count
      /\ b.verdict = book.verdict /\ b.binding.act \in {book.binding.act, None}
  BY <1>1, DrivenTyped DEF Book, NoBinding
<1>. QED
  BY <1>1, <1>2, <1>3, RecordsWarrants

\* Into _run, with a message.
LEMMA EntersDue ==
  ASSUME Driven, Warranted, NEW p \in Procs, NEW m, m.kind \in UserKinds, NEW g,
         \/ g = Running(p, m)
         \/ \E c : g = [Running(p, m) EXCEPT !.delivering = c]
         \/ \E c : g = [Running(p, m) EXCEPT !.claims = c]
  PROVE  Due(g)
<1>1. PICK f \in Frame : f = driver[p]
  BY FrameDue
<1>2. PICK h : h = [f EXCEPT !.pc = "prompt", !.running = TRUE, !.message = m]
  OBVIOUS
<1>3. Running(p, m) = h
  BY <1>1, <1>2 DEF Running, To, Frame
<1>4. h.pc = "prompt" /\ h.message = m /\ "pc" \in DOMAIN h /\ "message" \in DOMAIN h
  BY <1>2 DEF Frame
<1>5. g.pc = "prompt" /\ g.message = m
  <2>1. CASE g = Running(p, m)
    BY <1>3, <1>4, <2>1
  <2>2. CASE \E c : g = [Running(p, m) EXCEPT !.delivering = c]
    BY <1>3, <1>4, <2>2
  <2>3. CASE \E c : g = [Running(p, m) EXCEPT !.claims = c]
    BY <1>3, <1>4, <2>3
  <2>. QED
    BY <2>1, <2>2, <2>3
<1>. QED
  BY <1>5, NotOwing DEF UserKinds, Owing

LEMMA OutboxKind ==
  ASSUME Driven
  PROVE  book.feedback.kind \in UserKinds /\ Nothing.kind \in UserKinds
         /\ FirstMessage.kind \in UserKinds
<1>1. CASE book.feedback = Nothing
  BY <1>1 DEF Nothing, UserKinds, FirstMessage, Of
<1>2. CASE book.feedback # Nothing
  BY <1>2 DEF Driven, Accounts, OutboxOK, UserKinds, Nothing, FirstMessage, Of
<1>. QED
  BY <1>1, <1>2

LEMMA DeliverWarrants ==
  ASSUME Driven, Driven', Warranted, NEW p \in Procs, Deliver(p)
  PROVE  Warranted'
<1>1. PICK m \in {Nothing, book.feedback} :
        m = IF Has("result", book.feedback.call) THEN Nothing ELSE book.feedback
  OBVIOUS
<1>2. PICK g : /\ g = [Running(p, m) EXCEPT !.delivering = book.feedback.call]
               /\ Goes(p, "deliver", g)
  BY <1>1 DEF Deliver
<1>3. m.kind \in UserKinds
  BY <1>1, OutboxKind
<1>4. Due(g)
  BY <1>2, <1>3, EntersDue
<1>. QED
  BY <1>2, <1>4, GoesWarrants

LEMMA RanWarrants ==
  ASSUME Driven, Driven', Warranted, NEW p \in Procs, Ran(p)
  PROVE  Warranted'
<1>1. PICK e, g : /\ Records(p, "ran", [book EXCEPT !.feedback = e], g)
                  /\ g = AtRest \/ g = [AtRest EXCEPT !.pc = "continue", !.claims = TRUE]
  <2>1. PICK e : e = IF driver[p].delivering # 0 /\ book.feedback # Nothing
                        /\ book.feedback.call = driver[p].delivering
                     THEN Nothing ELSE book.feedback
    OBVIOUS
  <2>2. PICK g : g = IF driver[p].delivering # 0 /\ book.binding.call # driver[p].delivering
                     THEN [AtRest EXCEPT !.pc = "continue", !.claims = TRUE] ELSE AtRest
    OBVIOUS
  <2>3. Records(p, "ran", [book EXCEPT !.feedback = e], g)
    BY <2>1, <2>2 DEF Ran
  <2>. QED
    BY <2>2, <2>3
<1>2. Due(g)
  BY <1>1, AtRestLands
<1>3. PICK b : b = [book EXCEPT !.feedback = e]
  OBVIOUS
<1>4. /\ b.model_calls = book.model_calls /\ b.api_retries = book.api_retries
      /\ b.replans = book.replans /\ b.observation_count = book.observation_count
      /\ b.verdict = book.verdict /\ b.binding.act = book.binding.act
  BY <1>3, DrivenTyped DEF Book
<1>. QED
  BY <1>1, <1>2, <1>3, <1>4, RecordsWarrants

LEMMA ContinueExecutionWarrants ==
  ASSUME Driven, Driven', Warranted, NEW p \in Procs, ContinueExecution(p)
  PROVE  Warranted'
<1>1. CASE Goes(p, "continue", AtRest)
  BY <1>1, RestWarrants DEF Goes, Rest
<1>2. CASE Goes(p, "continue", To(p, "deliver"))
  BY <1>2, GoesOnWarrants DEF Owing
<1>3. CASE /\ book.binding.act # None
           /\ Goes(p, "continue", [To(p, "refresh") EXCEPT !.next = "judge", !.act = book.binding.act])
  <2>1. PICK a, g :
          /\ a \in ActionsOf(Run)
          /\ g = [To(p, "refresh") EXCEPT !.next = "judge", !.act = a]
          /\ Goes(p, "continue", g)
    BY <1>3 DEF Warranted, BoundHere
  <2>2. PICK f \in Frame : f.message.kind \in UserKinds /\ f = driver[p]
    BY FrameDue
  <2>3. /\ g.pc = "refresh" /\ g.next = "judge" /\ g.act = a /\ g.message.kind \in UserKinds
    BY <2>1, <2>2 DEF To, Frame
  <2>4. Due(g)
    BY <2>1, <2>3 DEF Due, Renewing, Finishing, Judging, UserKinds
  <2>. QED
    BY <2>1, <2>4, GoesWarrants
<1>. QED
  BY <1>1, <1>2, <1>3 DEF ContinueExecution

\* To recover, for cause.
LEMMA RecoverDue ==
  ASSUME Driven, Warranted, NEW p \in Procs, NEW g, g = To(p, "recover")
  PROVE  (PlanHasFailed => Due(g)) /\ (PlanHasFailed' => Due(g)')
<1>1. PICK f \in Frame : f.message.kind \in UserKinds /\ f = driver[p]
  BY FrameDue
<1>2. g.pc = "recover" /\ g.message.kind \in UserKinds
  BY <1>1 DEF To, Frame
<1>. QED
  BY <1>2 DEF Due, Renewing, Finishing, Judging, UserKinds

\* An action that ended in the plan in force, and failed its checkpoint.
LEMMA FailureFails ==
  ASSUME NEW a \in ActionsOf(Run), action[a].status \in TERMINAL, ~action[a].verified,
         action[a].plan_version = state[Run].plan_version
  PROVE  PlanHasFailed
  BY DEF PlanHasFailed

LEMMA JudgedBeforeWarrants ==
  ASSUME Driven, Driven', Serial, Warranted, NEW p \in Procs, JudgedBefore(p)
  PROVE  Warranted'
<1>1. PICK f \in Frame : f = driver[p] /\ Fits(f) /\ Due(f) /\ f.claims /\ f.pc = "judge"
  BY FrameDue DEF JudgedBefore, At
<1>2. PICK a : a = f.act
  OBVIOUS
<1>3. Judging(f)
  BY <1>1 DEF Fits, Guided, OutOfRun, Judging
<1>4. a \in ActionsOf(Run) /\ action[a].status \in TERMINAL /\ a \in Actions
  BY <1>1, <1>2, <1>3 DEF Fits, LooksAfter, Due, ActionsOf
<1>5. CASE Failed(a, book.verdict[a])
  <2>1. PICK g : g = To(p, "recover") /\ Goes(p, "judge", g)
    BY <1>1, <1>2, <1>5 DEF JudgedBefore, Judged
  <2>2. ~action[a].verified
    BY <1>4, <1>5 DEF Failed, Warranted, VerifiedPassed, Serial, Plan, VerifiedIsCompleted
  <2>3. PlanHasFailed
    BY <1>4, <1>5, <2>2, FailureFails DEF Failed
  <2>4. Due(g)
    BY <2>1, <2>3, RecoverDue
  <2>. QED
    BY <2>1, <2>4, GoesWarrants
<1>6. CASE ~Failed(a, book.verdict[a])
  <2>1. Goes(p, "judge", To(p, "prepare"))
    BY <1>1, <1>2, <1>6 DEF JudgedBefore, Judged
  <2>. QED
    BY <2>1, GoesOnWarrants DEF Owing
<1>. QED
  BY <1>5, <1>6

LEMMA PrepareWarrants ==
  ASSUME Driven, Driven', Warranted, NEW p \in Procs, Prepare(p)
  PROVE  Warranted'
<1>1. PICK b, g, e : /\ Records(p, "prepare", b, g)
                     /\ b = [book EXCEPT !.feedback = e] /\ g = To(p, "deliver")
  BY DEF Prepare
<1>2. Due(g)
  BY <1>1, Lands DEF Owing
<1>3. /\ b.model_calls = book.model_calls /\ b.api_retries = book.api_retries
      /\ b.replans = book.replans /\ b.observation_count = book.observation_count
      /\ b.verdict = book.verdict /\ b.binding.act = book.binding.act
  BY <1>1, DrivenTyped DEF Book
<1>. QED
  BY <1>1, <1>2, <1>3, RecordsWarrants

\* The session is created, in which nothing is decided.
LEMMA CreatedFrugal ==
  ASSUME session = <<>>, session' = <<Of("created")>>, UNCHANGED <<vars, book>>
  PROVE  LedgerFrugal /\ BookFrugal
<1>1. Of("created").kind \notin Tools \cup {"text"}
  BY DriverAssumption DEF Of, DriverAssumption
<1>2. Decisions = {} /\ Decisions' = {}
  BY <1>1 DEF Decisions
<1>. QED
  BY <1>2, NothingFrugal DEF BookFrugal

LEMMA StartWarrants ==
  ASSUME Driven, Driven', Warranted, NEW p \in Procs, Start(p)
  PROVE  Warranted'
<1>1. PICK g : /\ g = [Running(p, FirstMessage) EXCEPT !.claims = TRUE]
               /\ driver' = [driver EXCEPT ![p] = g]
  BY DEF Start, Claim, Move
<1>2. Due(g)
  BY <1>1, OutboxKind, EntersDue
<1>3. g \in Frame
  BY <1>1, LandsTyped
<1>4. LedgerFrugal /\ BookFrugal
  BY CreatedFrugal DEF Start
<1>. QED
  BY <1>1, <1>2, <1>3, <1>4, FrugalWarrants

LEMMA ResumedWarrants ==
  ASSUME Driven, Driven', Warranted, NEW p \in Procs, Resumed(p)
  PROVE  Warranted'
<1>1. CASE Rest(p, "resumed")
  BY <1>1, RestWarrants
<1>2. CASE /\ Move(p, "resumed", Running(p, FirstMessage))
           /\ session = <<>> /\ session' = <<Of("created")>> /\ UNCHANGED <<vars, book>>
  <2>1. PICK g : g = Running(p, FirstMessage) /\ driver' = [driver EXCEPT ![p] = g]
    BY <1>2 DEF Move
  <2>2. Due(g)
    BY <2>1, OutboxKind, EntersDue
  <2>3. g \in Frame
    BY <2>1, LandsTyped
  <2>4. LedgerFrugal /\ BookFrugal
    BY <1>2, CreatedFrugal
  <2>. QED
    BY <2>1, <2>2, <2>3, <2>4, FrugalWarrants
<1>3. CASE Goes(p, "resumed", To(p, "deliver")) \/ Goes(p, "resumed", To(p, "continue"))
  BY <1>3, GoesOnWarrants DEF Owing
<1>4. CASE Tells(p, "resumed", Receipt(book.binding.call, book.binding.act), To(p, "continue"))
  <2>1. PICK e, g : /\ e = Receipt(book.binding.call, book.binding.act) /\ g = To(p, "continue")
                    /\ Tells(p, "resumed", e, g)
    BY <1>4
  <2>2. Due(g)
    BY <2>1, Lands DEF Owing
  <2>3. e.kind \notin Tools \cup {"text"}
    BY <2>1, DriverAssumption DEF DriverAssumption, Receipt
  <2>. QED
    BY <2>1, <2>2, <2>3, TellsWarrants
<1>5. ASSUME NEW m \in {Nothing, FirstMessage}, Goes(p, "resumed", Running(p, m))
      PROVE  Warranted'
  <2>1. PICK g : g = Running(p, m)
    OBVIOUS
  <2>2. Due(g)
    BY <2>1, OutboxKind, EntersDue
  <2>. QED
    BY <1>5, <2>1, <2>2, GoesWarrants
<1>. QED
  BY <1>1, <1>2, <1>3, <1>4, <1>5 DEF Resumed, OpeningMessage

LEMMA OperatorWarrants ==
  ASSUME Driven, Driven', Warranted, NEW p \in Procs, Cancel(p) \/ CancelMock(p)
  PROVE  Warranted'
<1>1. PICK pc \in {"terminate", "stop"} :
        Goes(p, "rest", [AtRest EXCEPT !.pc = pc, !.reason = "cancel", !.next = "leave"])
  BY DEF Cancel, CancelMock
<1>2. PICK g : g = [AtRest EXCEPT !.pc = pc, !.reason = "cancel", !.next = "leave"]
  OBVIOUS
<1>3. Due(g)
  BY <1>2, AtRestLands
<1>. QED
  BY <1>1, <1>2, <1>3, GoesWarrants

-----------------------------------------------------------------------------
(* The scheduler's transactions that change no plan.                       *)

LEMMA FrugalMove ==
  ASSUME Driven, Driven', Serial, Warranted, Onward, ChecksStay, RunsStay,
         NEW p \in Procs, NEW pc, NEW g, Move(p, pc, g), UNCHANGED <<book, session>>, Due(g)
  PROVE  Warranted'
<1>1. driver' = [driver EXCEPT ![p] = g]
  BY DEF Move
<1>2. g \in Frame
  BY <1>1, LandsTyped
<1>3. LedgerFrugal /\ BookFrugal
  BY OnwardFrugal DEF BookFrugal, Decisions
<1>. QED
  BY <1>1, <1>2, <1>3, FrugalWarrants

\* The same, with the ledger left alone.
LEMMA IdleMove ==
  ASSUME Driven, Driven', Warranted, UNCHANGED ledger,
         NEW p \in Procs, NEW pc, NEW g, Move(p, pc, g), UNCHANGED <<book, session>>, Due(g)
  PROVE  Warranted'
<1>1. driver' = [driver EXCEPT ![p] = g]
  BY DEF Move
<1>2. g \in Frame
  BY <1>1, LandsTyped
<1>3. LedgerFrugal /\ BookFrugal
  BY LedgerStays DEF BookFrugal, Decisions
<1>. QED
  BY <1>1, <1>2, <1>3, FrugalWarrants

LEMMA SubmitStays ==
  ASSUME Safe, NEW r \in Runs, NEW a, SubmitIntent(r, a)
  PROVE  RunsStay
<1>1. state' = [state EXCEPT ![r] = [state[r] EXCEPT !.status = "EXECUTING"]]
  BY DEF SubmitIntent
<1>. QED
  BY <1>1, StatusStays

LEMMA DispatchNextWarrants ==
  ASSUME Driven, Driven', Serial, Warranted, NEW p \in Procs, DispatchNext(p)
  PROVE  Warranted'
<1>1. CASE Goes(p, "dispatch", Raised(p))
  BY <1>1, RaisesWarrants
<1>2. CASE Goes(p, "dispatch", To(p, "receipt"))
  BY <1>2, GoesOnWarrants DEF Owing
<1>3. ASSUME NEW a \in NextUp, Move(p, "dispatch", To(p, "receipt")), Dispatch(p, Run, a),
             UNCHANGED <<book, session>>
      PROVE  Warranted'
  <2>1. a \in Actions
    BY DEF NextUp, Unverified, Current, ActionsOf
  <2>2. Onward /\ ChecksStay /\ RunsStay
    BY <1>3, <2>1, DriverFacts, SubmitIntentOnward, ChecksSubmit, SubmitStays DEF Dispatch, Serial
  <2>3. PICK g : g = To(p, "receipt")
    OBVIOUS
  <2>4. Due(g)
    BY <2>3, Lands DEF Owing
  <2>. QED
    BY <1>3, <2>2, <2>3, <2>4, FrugalMove
<1>. QED
  BY <1>1, <1>2, <1>3 DEF DispatchNext

LEMMA StopWarrants ==
  ASSUME Driven, Driven', Serial, Warranted, NEW p \in Procs, Stop(p)
  PROVE  Warranted'
<1>1. /\ driver[p].pc = "stop" /\ FreezePlan(Run, driver[p].reason)
      /\ Move(p, "stop", To(p, "tick")) /\ UNCHANGED <<book, session>>
  BY DEF Stop, RequestStop, Move, At
<1>2. PICK f \in Frame : f = driver[p] /\ Fits(f) /\ Due(f) /\ f.message.kind \in UserKinds
  BY FrameDue
<1>3. f.reason \in StopReasons
  BY <1>1, <1>2 DEF Fits, Guided
<1>4. Onward /\ ChecksStay /\ RunsStay
  BY <1>1, <1>2, <1>3, DriverFacts, FreezePlanOnward, ChecksFreeze, FreezeStays DEF Serial
<1>5. PICK g : g = To(p, "tick")
  OBVIOUS
<1>6. g.pc = "tick" /\ g.next = f.next /\ g.message.kind \in UserKinds
  BY <1>2, <1>5 DEF To, Frame
<1>7. Due(g)
  BY <1>1, <1>2, <1>6 DEF Due, Renewing, Finishing, Judging, UserKinds
<1>. QED
  BY <1>1, <1>4, <1>5, <1>7, FrugalMove

LEMMA TickRunWarrants ==
  ASSUME Driven, Driven', Warranted, NEW p \in Procs, TickRun(p)
  PROVE  Warranted'
<1>1. /\ driver[p].pc = "tick" /\ UNCHANGED ledger /\ UNCHANGED <<book, session>>
      /\ Move(p, "tick", To(p, driver[p].next))
  BY DEF TickRun, Tick, Goes, Move, At, vars, ledger
<1>2. PICK f \in Frame : f = driver[p] /\ Fits(f) /\ Due(f) /\ f.message.kind \in UserKinds
  BY FrameDue
<1>3. f.next \in {"ran", "respond", "leave", "replanned"}
  BY <1>1, <1>2 DEF Fits, Guided
<1>4. PICK g : g = To(p, f.next)
  OBVIOUS
<1>5. g.pc = f.next /\ g.next = f.next /\ g.message.kind \in UserKinds
  BY <1>2, <1>4 DEF To, Frame
<1>6. Due(g)
  BY <1>1, <1>2, <1>3, <1>5 DEF Due, Renewing, Finishing, Judging, UserKinds
<1>. QED
  BY <1>1, <1>2, <1>4, <1>6, IdleMove

\* A driver takes the claim.
LEMMA ClaimDue ==
  ASSUME Driven, Warranted, NEW p \in Procs, NEW to \in {"continue", "resumed"}, NEW g,
         g = [To(p, to) EXCEPT !.claims = TRUE]
  PROVE  Due(g)
  BY Lands DEF Owing

LEMMA ReceiveFeedbackWarrants ==
  ASSUME Driven, Driven', Serial, Warranted, NEW p \in Procs, ReceiveFeedback(p)
  PROVE  Warranted'
<1>1. PICK g : /\ g = [To(p, "continue") EXCEPT !.claims = TRUE]
               /\ Move(p, "rest", g) /\ UNCHANGED <<book, session>>
  BY DEF ReceiveFeedback, Claim
<1>2. PICK a \in Actions : action[a].run_id = Run /\ Feedback(a)
  BY DEF ReceiveFeedback, ActionsOf
<1>3. PICK n \in 1..Len(events[a]) : Apply(Run, a, n)
  BY <1>2 DEF Feedback
<1>4. Onward /\ ChecksStay /\ RunsStay
  BY <1>3, DriverFacts, ApplyOnward, ChecksApply, ApplyStays DEF Serial
<1>5. Due(g)
  BY <1>1, ClaimDue
<1>. QED
  BY <1>1, <1>4, <1>5, FrugalMove

LEMMA ResumeWarrants ==
  ASSUME Driven, Driven', Warranted, NEW p \in Procs, Resume(p)
  PROVE  Warranted'
<1>1. PICK g : /\ g = [To(p, "resumed") EXCEPT !.claims = TRUE]
               /\ Move(p, "rest", g) /\ UNCHANGED <<book, session>> /\ UNCHANGED ledger
  BY DEF Resume, Claim, Tick
<1>2. Due(g)
  BY <1>1, ClaimDue
<1>. QED
  BY <1>1, <1>2, IdleMove

LEMMA DieWarrants ==
  ASSUME Driven, Driven', Warranted, NEW p \in Procs, Die(p)
  PROVE  Warranted'
<1>1. PICK g : g = AtRest /\ driver' = [driver EXCEPT ![p] = g]
  BY DEF Die
<1>2. Due(g)
  BY <1>1, AtRestLands
<1>3. g \in Frame
  BY <1>1, LandsTyped
<1>4. LedgerFrugal /\ BookFrugal
  BY LedgerStays DEF Die, BookFrugal, Decisions
<1>. QED
  BY <1>1, <1>2, <1>3, <1>4, FrugalWarrants

-----------------------------------------------------------------------------
(* What is spent.                                                          *)

\* A driver that moves, with the claim.
LEMMA DriverMoves ==
  ASSUME Driven, Driven', Warranted, NEW p \in Procs, driver[p].claims, NEW g,
         driver' = [driver EXCEPT ![p] = g], Due(g)',
         BudgetsHold', BoundHere', VerifiedPassed'
  PROVE  Warranted'
<1>1. g \in Frame
  BY LandsTyped
<1>. QED
  BY <1>1, MoveWarrants

\* A counter is raised.
LEMMA CountedMoves ==
  ASSUME Driven, Driven', Warranted, NEW p \in Procs, driver[p].claims, NEW pc, NEW b, NEW g,
         Records(p, pc, b, g), b.binding = book.binding, b.verdict = book.verdict,
         Due(g)', BudgetsHold'
  PROVE  Warranted'
<1>1. /\ driver' = [driver EXCEPT ![p] = g] /\ book' = b /\ UNCHANGED vars
  BY DEF Records, Move
<1>2. UNCHANGED <<state, action>>
  BY <1>1 DEF vars
<1>3. ActionsOf(Run)' = ActionsOf(Run)
  BY <1>2 DEF ActionsOf
<1>4. BoundHere' /\ VerifiedPassed'
  BY <1>1, <1>2, <1>3 DEF Warranted, BoundHere, VerifiedPassed
<1>. QED
  BY <1>1, <1>4, DriverMoves

LEMMA Counts ==
  ASSUME Driven, Serial
  PROVE  /\ IsFiniteSet(Decisions) /\ Cardinality(Decisions) \in Nat
         /\ state[Run].plan_version \in Nat /\ state[Run].observation.id \in Nat
         /\ book.model_calls \in Nat /\ book.api_retries \in Nat /\ book.replans \in Nat
         /\ book.observation_count \in Nat /\ MaxObs \in Nat
<1>1. IsFiniteSet(Decisions) /\ Cardinality(Decisions) \in Nat
  <2>1. Len(session) \in Nat /\ DOMAIN session = 1..Len(session)
    BY DrivenTyped
  <2>2. IsFiniteSet(1..Len(session))
    BY <2>1, FS_Interval
  <2>3. Decisions \in SUBSET (1..Len(session))
    BY <2>1 DEF Decisions
  <2>4. IsFiniteSet(Decisions)
    BY <2>2, <2>3, FS_Subset
  <2>. QED
    BY <2>4, FS_CardinalityType
<1>2. state[Run].plan_version \in Nat /\ state[Run].observation.id \in Nat
  BY DriverFacts DEF Serial, Safe, TypeOK, TypeLedger, RunState, Observation
<1>3. MaxObs \in Nat
  BY SchedulerAssumption DEF SchedulerAssumption
<1>. QED
  BY <1>1, <1>2, <1>3, BookTyped

LEMMA TakeModelCallWarrants ==
  ASSUME Driven, Driven', Serial, Warranted, NEW p \in Procs, TakeModelCall(p)
  PROVE  Warranted'
<1>1. CASE Goes(p, "model", Raised(p))
  BY <1>1, RaisesWarrants
<1>2. CASE /\ Records(p, "model", [book EXCEPT !.model_calls = @ + 1],
                      [To(p, "thinking") EXCEPT !.answering = FALSE])
           /\ ~ModelRefused
  <2>1. PICK b, g : /\ b = [book EXCEPT !.model_calls = book.model_calls + 1]
                    /\ g = [To(p, "thinking") EXCEPT !.answering = FALSE]
                    /\ Records(p, "model", b, g)
    BY <1>2
  <2>2. PICK f \in Frame : f = driver[p] /\ f.claims /\ f.message.kind \in UserKinds
    BY <1>2, FrameDue DEF Records, Move, At
  <2>3. /\ book' = b /\ UNCHANGED vars /\ Decisions' = Decisions
    BY <2>1 DEF Records, Move, Decisions
  <2>4. /\ b.model_calls = book.model_calls + 1 /\ b.api_retries = book.api_retries
        /\ b.replans = book.replans /\ b.observation_count = book.observation_count
        /\ b.binding = book.binding /\ b.verdict = book.verdict
    BY <2>1, DrivenTyped DEF Book
  <2>5. book.model_calls + 1 <= MaxModelCalls
    BY <1>2, Counts, DriverFacts DEF ModelRefused
  <2>6. Cardinality(Decisions) < book'.model_calls
    BY <2>3, <2>4, Counts DEF Warranted, BudgetsHold
  <2>7. BudgetsHold'
    BY <2>3, <2>4, <2>5, <2>6, Counts DEF Warranted, BudgetsHold, vars
  <2>8. g.pc = "thinking" /\ g.message.kind \in UserKinds
    BY <2>1, <2>2 DEF To, Frame
  <2>9. Cardinality(Decisions)' < book'.model_calls
    BY <2>3, <2>6
  <2>10. Due(g)'
    BY <2>8, <2>9 DEF Due, Renewing, Finishing, Judging, UserKinds
  <2>. QED
    BY <2>1, <2>2, <2>4, <2>7, <2>10, CountedMoves
<1>. QED
  BY <1>1, <1>2 DEF TakeModelCall

LEMMA ModelFailsWarrants ==
  ASSUME Driven, Driven', Serial, Warranted, NEW p \in Procs, ModelFails(p)
  PROVE  Warranted'
<1>1. CASE Goes(p, "thinking", Raised(p))
  BY <1>1, RaisesWarrants
<1>2. CASE /\ Records(p, "thinking", [book EXCEPT !.api_retries = @ + 1], To(p, "model"))
           /\ book.api_retries < MaxApiRetries
  <2>1. PICK b, g : /\ b = [book EXCEPT !.api_retries = book.api_retries + 1]
                    /\ g = To(p, "model") /\ Records(p, "thinking", b, g)
    BY <1>2
  <2>2. driver[p].claims
    BY <1>2, FrameDue DEF Records, Move, At
  <2>3. /\ book' = b /\ UNCHANGED vars /\ Decisions' = Decisions
    BY <2>1 DEF Records, Move, Decisions
  <2>4. /\ b.model_calls = book.model_calls /\ b.api_retries = book.api_retries + 1
        /\ b.replans = book.replans /\ b.observation_count = book.observation_count
        /\ b.binding = book.binding /\ b.verdict = book.verdict
    BY <2>1, DrivenTyped DEF Book
  <2>5. book.api_retries + 1 <= MaxApiRetries
    BY <1>2, Counts, DriverFacts
  <2>6. BudgetsHold'
    BY <2>3, <2>4, <2>5 DEF Warranted, BudgetsHold, vars
  <2>7. Due(g)'
    BY <2>1, Lands DEF Owing
  <2>. QED
    BY <2>1, <2>2, <2>4, <2>6, <2>7, CountedMoves
<1>. QED
  BY <1>1, <1>2 DEF ModelFails

LEMMA ModelBreaksOffWarrants ==
  ASSUME Driven, Driven', Warranted, NEW p \in Procs, ModelBreaksOff(p)
  PROVE  Warranted'
  BY RaisesWarrants DEF ModelBreaksOff

\* The model's answer has been paid for.
LEMMA DecisionWarrants ==
  ASSUME Driven, Driven', Serial, Warranted, NEW p \in Procs, NEW event, NEW g,
         Tells(p, "thinking", event, g), Due(g)'
  PROVE  Warranted'
<1>1. PICK f \in Frame : f = driver[p] /\ f.claims /\ f.pc = "thinking" /\ Due(f)
  BY FrameDue DEF Tells, Move, At
<1>2. /\ driver' = [driver EXCEPT ![p] = g] /\ UNCHANGED vars /\ UNCHANGED book
      /\ session' = Append(session, event)
  BY DEF Tells, Move
<1>3. Cardinality(Decisions) < book.model_calls
  BY <1>1 DEF Due
<1>4. Decisions' \in SUBSET (Decisions \cup {Len(session) + 1})
  <2>1. session \in Seq(SessionEvent)
    BY DrivenTyped
  <2>2. /\ DOMAIN session = 1..Len(session) /\ DOMAIN session' = 1..(Len(session) + 1)
        /\ Len(session) \in Nat
        /\ \A i \in 1..Len(session) : session'[i] = session[i]
    BY <1>2, <2>1
  <2>. QED
    BY <2>2 DEF Decisions
<1>5. Cardinality(Decisions)' <= book.model_calls
  <2>1. PICK d : d = Decisions
    OBVIOUS
  <2>2. PICK e : e = Decisions'
    OBVIOUS
  <2>3. IsFiniteSet(d) /\ Cardinality(d) \in Nat /\ Cardinality(d) < book.model_calls
    BY <1>3, <2>1, Counts
  <2>4. /\ IsFiniteSet(d \cup {Len(session) + 1})
        /\ Cardinality(d \cup {Len(session) + 1}) <= Cardinality(d) + 1
    BY <2>3, FS_AddElement
  <2>5. /\ Cardinality(e) <= Cardinality(d \cup {Len(session) + 1})
        /\ IsFiniteSet(e)
    BY <1>4, <2>1, <2>2, <2>4, FS_Subset
  <2>6. Cardinality(e) \in Nat /\ Cardinality(d \cup {Len(session) + 1}) \in Nat
    BY <2>4, <2>5, FS_CardinalityType
  <2>7. Cardinality(e) <= book.model_calls
    BY <2>3, <2>4, <2>5, <2>6, BookTyped
  <2>. QED
    BY <2>2, <2>7
<1>6. UNCHANGED <<state, action>>
  BY <1>2 DEF vars
<1>7. ActionsOf(Run)' = ActionsOf(Run)
  BY <1>6 DEF ActionsOf
<1>8. BudgetsHold'
  BY <1>2, <1>5, <1>6 DEF Warranted, BudgetsHold
<1>9. BoundHere' /\ VerifiedPassed'
  BY <1>2, <1>6, <1>7 DEF Warranted, BoundHere, VerifiedPassed
<1>. QED
  BY <1>1, <1>2, <1>8, <1>9, DriverMoves

LEMMA ModelAnswersWarrants ==
  ASSUME Driven, Driven', Serial, Warranted, NEW p \in Procs, ModelAnswers(p)
  PROVE  Warranted'
<1>1. CASE Goes(p, "thinking", Raised(p))
  BY <1>1, RaisesWarrants
<1>2. CASE Goes(p, "thinking", [To(p, "invalid") EXCEPT !.message = Of("user")])
  <2>1. PICK m, g : /\ m = Of("user") /\ g = [To(p, "invalid") EXCEPT !.message = m]
                    /\ Goes(p, "thinking", g)
    BY <1>2
  <2>2. m.kind \in UserKinds
    BY <2>1 DEF Of, UserKinds
  <2>3. Due(g)
    BY <2>1, <2>2, Lands DEF Owing
  <2>. QED
    BY <2>1, <2>3, GoesWarrants
<1>3. ASSUME NEW event, NEW to \in {"returned", "tool"}, NEW paused,
             Tells(p, "thinking", event,
                   [To(p, to) EXCEPT !.paused = paused, !.answering = TRUE])
      PROVE  Warranted'
  <2>1. PICK g : g = [To(p, to) EXCEPT !.paused = paused, !.answering = TRUE]
    OBVIOUS
  <2>2. to \notin Owing /\ \E b, c : g = [To(p, to) EXCEPT !.paused = b, !.answering = c]
    BY <2>1 DEF Owing
  <2>3. Due(g)'
    BY <2>2, Lands
  <2>. QED
    BY <1>3, <2>1, <2>3, DecisionWarrants
<1>4. CASE Tells(p, "thinking", Of("text"),
                 [To(p, "returned") EXCEPT !.paused = FALSE, !.answering = TRUE])
  BY <1>3, <1>4
<1>5. ASSUME NEW tool \in Tools,
             Tells(p, "thinking", Of(tool),
                   [To(p, "tool") EXCEPT !.paused = tool = "execute_action", !.answering = TRUE])
      PROVE  Warranted'
  BY <1>3, <1>5
<1>. QED
  BY <1>1, <1>2, <1>4, <1>5 DEF ModelAnswers

LEMMA BindingSet ==
  ASSUME Driven, NEW binding, NEW b, b = [book EXCEPT !.binding = binding]
  PROVE  /\ b.model_calls = book.model_calls /\ b.api_retries = book.api_retries
         /\ b.replans = book.replans /\ b.observation_count = book.observation_count
         /\ b.verdict = book.verdict /\ b.binding = binding
<1>1. book \in Book
  BY DrivenTyped
<1>. QED
  BY <1>1 DEF Book

LEMMA ProposeWarrants ==
  ASSUME Driven, Driven', Serial, Warranted, NEW p \in Procs, Propose(p)
  PROVE  Warranted'
<1>1. driver[p].claims
  BY FrameDue DEF Propose, At
<1>2. ASSUME NEW a \in Actions, action[a].run_id = None, AppendActions(Run, <<a>>),
             book' = [book EXCEPT !.binding = [call |-> CallId, act |-> a]],
             Move(p, "tool", To(p, "dispatch")), UNCHANGED session
      PROVE  Warranted'
  <2>1. PICK g : g = To(p, "dispatch") /\ driver' = [driver EXCEPT ![p] = g]
    BY <1>2 DEF Move
  <2>2. Due(g)'
    BY <2>1, Lands DEF Owing
  <2>3. /\ state'[Run].plan_version = state[Run].plan_version
        /\ state'[Run].observation = state[Run].observation
    <3>1. PICK n : n = state[Run].next_sequence + Len(<<a>>)
      OBVIOUS
    <3>2. state' = [state EXCEPT ![Run] = [state[Run] EXCEPT !.next_sequence = n]]
      BY <1>2, <3>1 DEF AppendActions
    <3>. QED
      BY <3>2, DriverFacts DEF Serial, Safe, TypeOK, TypeLedger, RunState
  <2>4. /\ action'[a].verified = FALSE /\ action'[a].run_id = Run
        /\ \A b \in Actions : b # a => action'[b] = action[b]
    BY <1>2, AppendOne
  <2>5. /\ book'.model_calls = book.model_calls /\ book'.api_retries = book.api_retries
        /\ book'.replans = book.replans /\ book'.observation_count = book.observation_count
        /\ book'.verdict = book.verdict /\ book'.binding.act = a
    BY <1>2, BindingSet
  <2>6. BudgetsHold'
    BY <1>2, <2>3, <2>5 DEF Warranted, BudgetsHold, Decisions
  <2>7. BoundHere'
    BY <2>4, <2>5 DEF BoundHere, ActionsOf
  <2>8. VerifiedPassed'
    BY <2>4, <2>5 DEF Warranted, VerifiedPassed
  <2>. QED
    BY <1>1, <2>1, <2>2, <2>6, <2>7, <2>8, DriverMoves
<1>3. CASE Records(p, "tool", [book EXCEPT !.binding = [call |-> CallId, act |-> None]],
                   To(p, "receipt"))
  <2>1. PICK c, b, g : /\ c = [call |-> CallId, act |-> None] /\ b = [book EXCEPT !.binding = c]
                       /\ g = To(p, "receipt") /\ Records(p, "tool", b, g)
    BY <1>3
  <2>2. Due(g)
    BY <2>1, Lands DEF Owing
  <2>3. c.act = None
    BY <2>1
  <2>. QED
    BY <2>1, <2>2, <2>3, BindingSet, RecordsWarrants
<1>. QED
  BY <1>2, <1>3 DEF Propose

LEMMA FinishTaskWarrants ==
  ASSUME Driven, Driven', Serial, Warranted, NEW p \in Procs, FinishTask(p)
  PROVE  Warranted'
<1>1. CASE Goes(p, "tool", To(p, "respond"))
  BY <1>1, GoesOnWarrants DEF Owing
<1>2. CASE Goes(p, "tool", Raised(p))
  BY <1>2, RaisesWarrants
<1>3. CASE /\ Close(Run, state[Run].next_sequence - 1)
           /\ Move(p, "tool", [To(p, "refresh") EXCEPT !.next = "final"])
           /\ UNCHANGED <<book, session>>
  <2>1. PICK g : /\ g = [To(p, "refresh") EXCEPT !.next = "final"]
                 /\ driver' = [driver EXCEPT ![p] = g]
    BY <1>3 DEF Move
  <2>2. PICK f \in Frame : f = driver[p] /\ f.claims /\ f.message.kind \in UserKinds
    BY <1>3, FrameDue DEF Move, At
  <2>3. /\ state'[Run].closed
        /\ state'[Run].plan_version = state[Run].plan_version
        /\ state'[Run].observation = state[Run].observation
    <3>1. state' = [state EXCEPT ![Run] = [state[Run] EXCEPT !.closed = TRUE]]
      BY <1>3 DEF Close
    <3>. QED
      BY <3>1, DriverFacts DEF Serial, Safe, TypeOK, TypeLedger, RunState
  <2>4. action' = action
    BY <1>3 DEF Close
  <2>5. g.pc = "refresh" /\ g.next = "final" /\ g.message.kind \in UserKinds
    BY <2>1, <2>2 DEF To, Frame
  <2>6. Due(g)'
    BY <2>3, <2>5 DEF Due, Renewing, Finishing, Judging, UserKinds
  <2>7. BudgetsHold'
    BY <1>3, <2>3 DEF Warranted, BudgetsHold, Decisions
  <2>8. ActionsOf(Run)' = ActionsOf(Run)
    BY <2>4 DEF ActionsOf
  <2>9. BoundHere' /\ VerifiedPassed'
    BY <1>3, <2>4, <2>8 DEF Warranted, BoundHere, VerifiedPassed
  <2>. QED
    BY <2>1, <2>2, <2>6, <2>7, <2>9, DriverMoves
<1>. QED
  BY <1>1, <1>2, <1>3 DEF FinishTask

\* A verdict on the goal writes the run's status.
LEMMA StatusFrugal ==
  ASSUME Serial, NEW s, state' = [state EXCEPT ![Run] = [state[Run] EXCEPT !.status = s]],
         UNCHANGED action
  PROVE  LedgerFrugal
<1>1. /\ state'[Run].plan_version = state[Run].plan_version
      /\ state'[Run].observation = state[Run].observation
      /\ state'[Run].closed = state[Run].closed
  BY DriverFacts DEF Serial, Safe, TypeOK, TypeLedger, RunState
<1>. QED
  BY <1>1 DEF LedgerFrugal, ChecksStay

LEMMA VerifyFinalWarrants ==
  ASSUME Driven, Driven', Serial, Warranted, NEW p \in Procs, VerifyFinal(p)
  PROVE  Warranted'
<1>1. CASE Goes(p, "final", Raised(p))
  BY <1>1, RaisesWarrants
<1>2. ASSUME NEW to \in {"conclude", "recover"}, Move(p, "final", To(p, to)), LedgerFrugal,
             UNCHANGED <<book, session>>
      PROVE  Warranted'
  <2>1. PICK g : g = To(p, to) /\ driver' = [driver EXCEPT ![p] = g]
    BY <1>2 DEF Move
  <2>2. PICK f \in Frame : f = driver[p] /\ Due(f) /\ f.pc = "final"
    BY <1>2, FrameDue DEF Move, At
  <2>3. PlanHasFailed
    BY <2>2 DEF Due, Finishing, PlanHasFailed
  <2>4. Due(g)
    <3>1. CASE to = "conclude"
      BY <2>1, <3>1, Lands DEF Owing
    <3>2. CASE to = "recover"
      BY <2>1, <2>3, <3>2, RecoverDue
    <3>. QED
      BY <3>1, <3>2
  <2>5. BookFrugal /\ g \in Frame
    BY <1>2, <2>1, LandsTyped DEF BookFrugal, Decisions
  <2>. QED
    BY <1>2, <2>1, <2>4, <2>5, FrugalWarrants
<1>3. CASE Passed /\ Move(p, "final", To(p, "conclude")) /\ UNCHANGED <<book, session>>
  <2>1. CASE PassFinal(Run)
    <3>1. LedgerFrugal
      BY <2>1, StatusFrugal DEF PassFinal
    <3>. QED
      BY <1>2, <1>3, <3>1
  <2>2. CASE UNCHANGED ledger
    BY <1>2, <1>3, <2>2, LedgerStays
  <2>. QED
    BY <1>3, <2>1, <2>2 DEF Passed
<1>4. CASE FailVerification(Run) /\ Move(p, "final", To(p, "recover")) /\ UNCHANGED <<book, session>>
  <2>1. LedgerFrugal
    BY <1>4, StatusFrugal DEF FailVerification
  <2>. QED
    BY <1>2, <1>4, <2>1
<1>. QED
  BY <1>1, <1>3, <1>4 DEF VerifyFinal

LEMMA RefreshWarrants ==
  ASSUME Driven, Driven', Serial, Warranted, NEW p \in Procs, Refresh(p)
  PROVE  Warranted'
<1>1. CASE Goes(p, "refresh", Raised(p))
  BY <1>1, RaisesWarrants
<1>2. CASE /\ Records(p, "refresh", [book EXCEPT !.observation_count = @ + 1], To(p, "observe"))
           /\ ~(book.observation_count >= MaxObs)
  <2>1. PICK b, g : /\ b = [book EXCEPT !.observation_count = book.observation_count + 1]
                    /\ g = To(p, "observe") /\ Records(p, "refresh", b, g)
    BY <1>2
  <2>2. PICK f \in Frame : /\ f = driver[p] /\ f.claims /\ f.message.kind \in UserKinds
                           /\ Due(f) /\ f.pc = "refresh"
    BY <1>2, FrameDue DEF Records, Move, At
  <2>3. /\ book' = b /\ UNCHANGED vars /\ Decisions' = Decisions
    BY <2>1 DEF Records, Move, Decisions
  <2>4. /\ b.model_calls = book.model_calls /\ b.api_retries = book.api_retries
        /\ b.replans = book.replans /\ b.observation_count = book.observation_count + 1
        /\ b.binding = book.binding /\ b.verdict = book.verdict
    BY <2>1, DrivenTyped DEF Book
  <2>5. BudgetsHold' /\ state'[Run].observation.id < book'.observation_count
    BY <1>2, <2>3, <2>4, Counts DEF Warranted, BudgetsHold, vars
  <2>6. /\ g.pc = "observe" /\ g.next = f.next /\ g.act = f.act /\ g.running = f.running
        /\ g.message = f.message
    BY <2>1, <2>2 DEF To, Frame
  <2>7. UNCHANGED <<state, action>> /\ PlanHasFailed' = PlanHasFailed
    BY <2>3 DEF vars, PlanHasFailed, ActionsOf
  <2>8. ActionsOf(Run)' = ActionsOf(Run) /\ book'.replans = book.replans
    BY <2>3, <2>4, <2>7 DEF ActionsOf
  <2>9. Due(g)'
    BY <2>2, <2>5, <2>6, <2>7, <2>8 DEF Due, Renewing, Finishing, Judging, UserKinds
  <2>. QED
    BY <2>1, <2>2, <2>4, <2>5, <2>9, CountedMoves
<1>. QED
  BY <1>1, <1>2 DEF Refresh

LEMMA ObserveWorldWarrants ==
  ASSUME Driven, Driven', Serial, Warranted, NEW p \in Procs, ObserveWorld(p)
  PROVE  Warranted'
<1>1. CASE Goes(p, "observe", Raised(p))
  BY <1>1, RaisesWarrants
<1>2. CASE /\ Observing(Run) /\ Move(p, "observe", To(p, driver[p].next))
           /\ UNCHANGED <<book, session>>
  <2>1. PICK f \in Frame : /\ f = driver[p] /\ f.claims /\ f.message.kind \in UserKinds
                           /\ Due(f) /\ f.pc = "observe" /\ Fits(f)
    BY <1>2, FrameDue DEF Move, At
  <2>2. f.next \in {"revise", "final", "respond", "judge"}
    BY <2>1 DEF Fits, Guided
  <2>3. PICK o \in NewObservations(Run) : Observe(Run, o)
    BY <1>2 DEF Observing
  <2>4. o.id = state[Run].observation.id + 1
    BY <2>3 DEF NewObservations
  <2>5. /\ state'[Run].plan_version = state[Run].plan_version
        /\ state'[Run].observation = o
        /\ state'[Run].closed = state[Run].closed
    <3>1. state' = [state EXCEPT ![Run] = [state[Run] EXCEPT !.observation = o]]
      BY <2>3 DEF Observe
    <3>. QED
      BY <3>1, DriverFacts DEF Serial, Safe, TypeOK, TypeLedger, RunState
  <2>6. action' = action /\ ActionsOf(Run)' = ActionsOf(Run) /\ Decisions' = Decisions
    BY <1>2, <2>3 DEF Observe, ActionsOf, Decisions
  <2>7. PlanHasFailed' = PlanHasFailed
    BY <2>5, <2>6 DEF PlanHasFailed
  <2>8. state'[Run].observation.id <= book'.observation_count
    BY <1>2, <2>1, <2>4, <2>5, Counts DEF Due
  <2>9. BudgetsHold'
    BY <1>2, <2>5, <2>6, <2>8 DEF Warranted, BudgetsHold
  <2>10. BoundHere' /\ VerifiedPassed'
    BY <1>2, <2>6 DEF Warranted, BoundHere, VerifiedPassed
  <2>11. PICK g : g = To(p, f.next) /\ driver' = [driver EXCEPT ![p] = g]
    BY <1>2, <2>1 DEF Move
  <2>12. /\ g.pc = f.next /\ g.next = f.next /\ g.act = f.act /\ g.running = f.running
         /\ g.message = f.message
    BY <2>1, <2>11 DEF To, Frame
  <2>13. Due(g)'
    BY <1>2, <2>1, <2>2, <2>5, <2>6, <2>7, <2>12 DEF Due, Renewing, Finishing, Judging, UserKinds
  <2>. QED
    BY <2>1, <2>9, <2>10, <2>11, <2>13, DriverMoves
<1>. QED
  BY <1>1, <1>2 DEF ObserveWorld

LEMMA RecoverWarrants ==
  ASSUME Driven, Driven', Serial, Warranted, NEW p \in Procs, Recover(p)
  PROVE  Warranted'
<1>1. CASE Goes(p, "recover",
                [To(p, "terminate") EXCEPT !.reason = "failure", !.next = GivenUp(p)])
  <2>1. PICK r, n, g : /\ r = "failure" /\ n = GivenUp(p) /\ Goes(p, "recover", g)
                       /\ g = [To(p, "terminate") EXCEPT !.reason = r, !.next = n]
    BY <1>1
  <2>2. Due(g)
    <3>1. \E s, m : g = [To(p, "terminate") EXCEPT !.reason = s, !.next = m]
      BY <2>1
    <3>. QED
      BY <3>1, Lands DEF Owing
  <2>. QED
    BY <2>1, <2>2, GoesWarrants
<1>2. CASE /\ Records(p, "recover", [book EXCEPT !.replans = @ + 1],
                      [To(p, "stop") EXCEPT !.reason = "replan", !.next = "replanned"])
           /\ ~(book.replans >= MaxReplans)
  <2>1. PICK b, g : /\ b = [book EXCEPT !.replans = book.replans + 1]
                    /\ g = [To(p, "stop") EXCEPT !.reason = "replan", !.next = "replanned"]
                    /\ Records(p, "recover", b, g)
    BY <1>2
  <2>2. PICK f \in Frame : /\ f = driver[p] /\ f.claims /\ f.message.kind \in UserKinds
                           /\ Due(f) /\ f.pc = "recover"
    BY <1>2, FrameDue DEF Records, Move, At
  <2>3. /\ book' = b /\ UNCHANGED vars /\ Decisions' = Decisions
    BY <2>1 DEF Records, Move, Decisions
  <2>4. /\ b.model_calls = book.model_calls /\ b.api_retries = book.api_retries
        /\ b.replans = book.replans + 1 /\ b.observation_count = book.observation_count
        /\ b.binding = book.binding /\ b.verdict = book.verdict
    BY <2>1, DrivenTyped DEF Book
  <2>5. book.replans + 1 <= MaxReplans
    BY <1>2, Counts, DriverFacts
  <2>6. state[Run].plan_version <= book.replans + 1
    BY Counts DEF Warranted, BudgetsHold
  <2>7. UNCHANGED <<state, action>> /\ PlanHasFailed' = PlanHasFailed
    BY <2>3 DEF vars, PlanHasFailed, ActionsOf
  <2>8. BudgetsHold' /\ state'[Run].plan_version <= book'.replans
    BY <2>3, <2>4, <2>5, <2>6, <2>7, Counts DEF Warranted, BudgetsHold
  <2>9. PlanHasFailed'
    BY <2>2, <2>7 DEF Due
  <2>10. g.pc = "stop" /\ g.next = "replanned" /\ g.message.kind \in UserKinds
    BY <2>1, <2>2 DEF To, Frame
  <2>11. Due(g)'
    BY <2>8, <2>9, <2>10 DEF Due, Renewing, Finishing, Judging, UserKinds
  <2>. QED
    BY <2>1, <2>2, <2>4, <2>8, <2>11, CountedMoves
<1>. QED
  BY <1>1, <1>2 DEF Recover

\* A plan is replaced for a cause, and once for each replan that was paid for.
LEMMA ReviseRunWarrants ==
  ASSUME Driven, Driven', Serial, Warranted, NEW p \in Procs, ReviseRun(p)
  PROVE  Warranted' /\ PlanHasFailed
<1>1. PICK f \in Frame : /\ f = driver[p] /\ f.claims /\ Due(f) /\ f.pc = "revise"
  BY FrameDue DEF ReviseRun, Goes, Move, At
<1>2. PlanHasFailed /\ state[Run].plan_version <= book.replans
  BY <1>1 DEF Due, Renewing
<1>3. CASE Goes(p, "revise", Raised(p))
  BY <1>2, <1>3, RaisesWarrants
<1>4. CASE /\ Revise(Run, state[Run].observation) /\ Move(p, "revise", To(p, GoneOn(p)))
           /\ UNCHANGED <<book, session>>
  <2>1. PICK g : g = To(p, GoneOn(p)) /\ driver' = [driver EXCEPT ![p] = g]
    BY <1>4 DEF Move
  <2>2. Due(g)'
    BY <2>1, Lands DEF Owing, GoneOn
  <2>3. /\ state'[Run].plan_version = state[Run].plan_version + 1
        /\ state'[Run].observation = state[Run].observation
    BY <1>4, DriverFacts DEF Revise, Serial, Safe, TypeOK, TypeLedger, RunState
  <2>4. action' = action /\ ActionsOf(Run)' = ActionsOf(Run) /\ Decisions' = Decisions
    BY <1>4 DEF Revise, ActionsOf, Decisions
  <2>5. BudgetsHold'
    BY <1>2, <1>4, <2>3, <2>4, Counts DEF Warranted, BudgetsHold
  <2>6. BoundHere' /\ VerifiedPassed'
    BY <1>4, <2>4 DEF Warranted, BoundHere, VerifiedPassed
  <2>. QED
    BY <1>1, <1>2, <2>1, <2>2, <2>5, <2>6, DriverMoves
<1>. QED
  BY <1>2, <1>3, <1>4 DEF ReviseRun

LEMMA JudgeWarrants ==
  ASSUME Driven, Driven', Serial, Warranted, NEW p \in Procs, Judge(p)
  PROVE  Warranted'
<1>1. PICK f \in Frame : f = driver[p] /\ Fits(f) /\ Due(f) /\ f.claims /\ f.pc = "judge"
  BY FrameDue DEF Judge, At
<1>2. PICK a : a = f.act
  OBVIOUS
<1>3. a \in ActionsOf(Run) /\ a \in Actions
  BY <1>1, <1>2 DEF Fits, Guided, OutOfRun, Judging, Due, ActionsOf
<1>4. action[a].status = "COMPLETED" /\ ~action[a].verified
  BY <1>1, <1>2 DEF Judge, Unjudged
<1>5. CASE Goes(p, "judge", Raised(p))
  BY <1>5, RaisesWarrants
<1>6. ASSUME NEW verdict \in Verdicts,
             IF verdict = "PASS" THEN PassCheckpoint(Run, a) ELSE FailVerification(Run),
             book' = [book EXCEPT !.verdict[a] = verdict],
             Move(p, "judge", Judged(p, verdict)), UNCHANGED session
      PROVE  Warranted'
  <2>1. verdict \in {"PASS", "FAIL"}
    BY DriverAssumption DEF DriverAssumption
  <2>2. /\ book'.model_calls = book.model_calls /\ book'.api_retries = book.api_retries
        /\ book'.replans = book.replans /\ book'.observation_count = book.observation_count
        /\ book'.binding = book.binding /\ book'.verdict = [book.verdict EXCEPT ![a] = verdict]
    <3>1. book \in Book
      BY DrivenTyped
    <3>2. PICK v : v = [book.verdict EXCEPT ![a] = verdict]
      OBVIOUS
    <3>3. book' = [book EXCEPT !.verdict = v]
      BY <1>6, <3>1, <3>2 DEF Book
    <3>. QED
      BY <3>1, <3>2, <3>3 DEF Book
  <2>3. /\ state'[Run].plan_version = state[Run].plan_version
        /\ state'[Run].observation = state[Run].observation
        /\ \A b \in Actions :
             /\ action'[b].run_id = action[b].run_id
             /\ action'[b].status = action[b].status
             /\ action'[b].plan_version = action[b].plan_version
             /\ action'[b].verified => action[b].verified \/ (b = a /\ verdict = "PASS")
    <3>1. CASE verdict = "PASS"
      <4>1. state' = state /\ action' = [action EXCEPT ![a] = [action[a] EXCEPT !.verified = TRUE]]
        BY <1>6, <3>1 DEF PassCheckpoint
      <4>2. action \in [Actions -> ActionRecord]
        BY DEF Serial, Safe, TypeOK, TypeLedger
      <4>. QED
        BY <1>3, <3>1, <4>1, <4>2 DEF ActionRecord
    <3>2. CASE verdict # "PASS"
      <4>1. /\ state' = [state EXCEPT ![Run] = [state[Run] EXCEPT !.status = "RECOVERING"]]
            /\ action' = action
        BY <1>6, <3>2 DEF FailVerification
      <4>. QED
        BY <4>1, StatusFrugal DEF LedgerFrugal
    <3>. QED
      BY <3>1, <3>2
  <2>4. BudgetsHold'
    BY <1>6, <2>2, <2>3 DEF Warranted, BudgetsHold, Decisions
  <2>5. ActionsOf(Run)' = ActionsOf(Run)
    BY <2>3 DEF ActionsOf
  <2>6. BoundHere'
    BY <2>2, <2>5 DEF Warranted, BoundHere
  <2>7. VerifiedPassed'
    <3>. SUFFICES ASSUME NEW b \in Actions, action'[b].verified
                  PROVE  book'.verdict[b] = "PASS"
      BY DEF VerifiedPassed
    <3>1. book.verdict \in [Actions -> {"none", "PASS", "FAIL"}]
      BY BookTyped
    <3>2. CASE b = a
      BY <1>3, <1>4, <2>2, <2>3, <3>1, <3>2
    <3>3. CASE b # a
      BY <2>2, <2>3, <3>1, <3>3 DEF Warranted, VerifiedPassed
    <3>. QED
      BY <3>2, <3>3
  <2>8. PICK g : g = Judged(p, verdict) /\ driver' = [driver EXCEPT ![p] = g]
    BY <1>6 DEF Move
  <2>9. Due(g)'
    <3>1. CASE g = To(p, "prepare")
      BY <3>1, Lands DEF Owing
    <3>2. CASE g = To(p, "recover") /\ Failed(a, verdict)
      <4>1. verdict = "FAIL" /\ action[a].plan_version = state[Run].plan_version
        BY <1>4, <3>2 DEF Failed
      <4>2. /\ action'[a].status = "COMPLETED" /\ ~action'[a].verified
            /\ action'[a].plan_version = state'[Run].plan_version
        BY <1>3, <1>4, <2>3, <4>1
      <4>3. PlanHasFailed'
        BY <1>3, <2>5, <4>2 DEF PlanHasFailed, TERMINAL
      <4>. QED
        BY <3>2, <4>3, RecoverDue
    <3>. QED
      BY <1>1, <1>2, <2>8, <3>1, <3>2 DEF Judged
  <2>. QED
    BY <1>1, <2>4, <2>6, <2>7, <2>8, <2>9, DriverMoves
<1>. QED
  BY <1>1, <1>2, <1>5, <1>6 DEF Judge

-----------------------------------------------------------------------------
(* The invariant and what follows from it.                                 *)

LEMMA TurnWarrants ==
  ASSUME Driven, Driven', Serial, Warranted, NEW p \in Procs, Turn(p)
  PROVE  Warranted'
  BY PromptWarrants, ResumeTurnWarrants, TakeModelCallWarrants, ModelFailsWarrants,
     ModelAnswersWarrants, ModelBreaksOffWarrants, ProposeWarrants, RepeatedWarrants, DispatchNextWarrants,
     AnswersWarrant, FinishTaskWarrants, VerifyFinalWarrants, ObserveToolWarrants DEF Turn

LEMMA DriveWarrants ==
  ASSUME Driven, Driven', Serial, Warranted, NEW p \in Procs, Drive(p)
  PROVE  Warranted'
<1>1. CASE Leave(p)
  BY <1>1, RestWarrants DEF Leave
<1>. QED
  BY <1>1, TurnWarrants, RefreshWarrants, ObserveWorldWarrants, TerminateWarrants, StopWarrants,
     TickRunWarrants, RecoverWarrants, ReplannedWarrants, ReviseRunWarrants, RunLoopWarrants,
     TimeOutWarrants, ReturnedWarrants, InvalidWarrants, ReplyWarrants, DeliverWarrants,
     RanWarrants, ContinueExecutionWarrants, JudgeWarrants, JudgedBeforeWarrants,
     PrepareWarrants, ResumedWarrants DEF Drive

LEMMA WarrantedStep ==
  ASSUME Serial, Driven, Driven', Warranted, [RuntimeNext]_allvars
  PROVE  Warranted'
<1>1. CASE UNCHANGED allvars
  BY <1>1, OthersWarrant DEF allvars
<1>2. CASE Environment /\ UNCHANGED driving
  BY <1>2, OthersWarrant
<1>3. ASSUME NEW p \in Procs, Step(p), UNCHANGED driving
      PROVE  Warranted'
  BY <1>3, OthersWarrant
<1>4. ASSUME NEW p \in Procs, Begin(p) \/ Drive(p) \/ Die(p)
      PROVE  Warranted'
  BY <1>4, StartWarrants, ReceiveFeedbackWarrants, ResumeWarrants, OperatorWarrants,
     DriveWarrants, DieWarrants DEF Begin
<1>. QED
  BY <1>1, <1>2, <1>3, <1>4 DEF RuntimeNext

LEMMA InitWarranted ==
  ASSUME DriverInit
  PROVE  Warranted
<1>1. /\ session = <<>> /\ book = NewBook /\ driver = [p \in Procs |-> AtRest]
      /\ \A a \in Actions : ~action[a].verified
      /\ state[Run].plan_version = 1 /\ state[Run].observation.id <= 1
  <2>1. /\ state = [r \in Runs |-> NewRun] /\ action = [a \in Actions |-> NewAction(None, 0, 0)]
        /\ session = <<>> /\ book = NewBook /\ driver = [p \in Procs |-> AtRest]
    BY DEF DriverInit, Init
  <2>2. state[Run] = NewRun
    BY <2>1, DriverFacts
  <2>3. \A a \in Actions : ~action[a].verified
    BY <2>1 DEF NewAction
  <2>. QED
    BY <2>1, <2>2, <2>3 DEF NewRun
<1>2. Cardinality(Decisions) = 0
  <2>1. Decisions = {}
    BY <1>1 DEF Decisions
  <2>. QED
    BY <2>1, FS_EmptySet
<1>3. MaxObs \in Nat \ {0}
  BY SchedulerAssumption DEF SchedulerAssumption
<1>4. BudgetsHold
  BY <1>1, <1>2, <1>3, DriverFacts DEF BudgetsHold, NewBook
<1>5. BoundHere /\ VerifiedPassed
  BY <1>1 DEF BoundHere, VerifiedPassed, NewBook, NoBinding
<1>6. \A p \in Procs : Due(driver[p])
  BY <1>1, AtRestLands
<1>. QED
  BY <1>4, <1>5, <1>6 DEF Warranted

\* Nothing is under way that is not paid for and has no cause: Warranted is
\* inductive, on top of Serial and Driven.
THEOREM WarrantedInvariant == RuntimeSpec => [](Serial /\ Driven /\ Warranted)
<1>1. DriverInit => Serial /\ Driven /\ Warranted
  BY InitDriven, InitWarranted
<1>2. Serial /\ Driven /\ Warranted /\ [RuntimeNext]_allvars => (Serial /\ Driven /\ Warranted)'
  BY DrivenStep, SerialStep, WarrantedStep
<1>. QED
  BY <1>1, <1>2, PTL DEF RuntimeSpec

\* Decisions of the model, retries, observations and replans never exceed what
\* has been paid for, nor that the budget, wherever a process dies (runtime.py
\* 73-91, 100-107, 264-278, agent/model.py).
THEOREM PaidFor == RuntimeSpec => []BudgetsHold
<1>1. Warranted => BudgetsHold
  BY DEF Warranted
<1>. QED
  BY <1>1, WarrantedInvariant, PTL

SamePlan == state'[Run].plan_version = state[Run].plan_version

LEMMA LedgerKeepsPlan ==
  ASSUME Serial,
         \/ UNCHANGED ledger
         \/ Onward
         \/ \E s : state' = [state EXCEPT ![Run] = [state[Run] EXCEPT !.status = s]]
         \/ \E n : state' = [state EXCEPT ![Run] = [state[Run] EXCEPT !.next_sequence = n]]
         \/ \E c : state' = [state EXCEPT ![Run] = [state[Run] EXCEPT !.closed = c]]
         \/ \E o : state' = [state EXCEPT ![Run] = [state[Run] EXCEPT !.observation = o]]
  PROVE  SamePlan
<1>1. CASE Onward
  BY <1>1, DriverFacts DEF Onward, RunOnward, SamePlan
<1>2. CASE ~Onward
  BY <1>2, DriverFacts DEF ledger, Serial, Safe, TypeOK, TypeLedger, RunState, SamePlan
<1>. QED
  BY <1>1, <1>2

LEMMA TurnKeepsPlan ==
  ASSUME Serial, Driven, NEW p \in Procs, Turn(p)
  PROVE  SamePlan
<1>1. CASE UNCHANGED vars
  BY <1>1 DEF vars, SamePlan
<1>2. CASE Propose(p)
  <2>1. CASE UNCHANGED vars
    BY <1>1, <2>1
  <2>2. ASSUME NEW a \in Actions, AppendActions(Run, <<a>>)
        PROVE  SamePlan
    <3>1. PICK n : n = state[Run].next_sequence + Len(<<a>>)
      OBVIOUS
    <3>2. state' = [state EXCEPT ![Run] = [state[Run] EXCEPT !.next_sequence = n]]
      BY <2>2, <3>1 DEF AppendActions
    <3>. QED
      BY <3>2, LedgerKeepsPlan
  <2>. QED
    BY <1>2, <2>1, <2>2 DEF Propose, Records
<1>3. CASE DispatchNext(p)
  <2>1. CASE UNCHANGED vars
    BY <1>1, <2>1
  <2>2. ASSUME NEW a \in NextUp, Dispatch(p, Run, a)
        PROVE  SamePlan
    <3>1. a \in Actions
      BY DEF NextUp, Unverified, Current, ActionsOf
    <3>2. Onward
      BY <2>2, <3>1, DriverFacts, SubmitIntentOnward DEF Dispatch, Serial
    <3>. QED
      BY <3>2, LedgerKeepsPlan
  <2>. QED
    BY <1>3, <2>1, <2>2 DEF DispatchNext, Goes
<1>4. CASE FinishTask(p)
  <2>1. CASE UNCHANGED vars
    BY <1>1, <2>1
  <2>2. CASE Close(Run, state[Run].next_sequence - 1)
    <3>1. state' = [state EXCEPT ![Run] = [state[Run] EXCEPT !.closed = TRUE]]
      BY <2>2 DEF Close
    <3>. QED
      BY <3>1, LedgerKeepsPlan
  <2>. QED
    BY <1>4, <2>1, <2>2 DEF FinishTask, Goes
<1>5. CASE VerifyFinal(p)
  <2>1. CASE UNCHANGED vars
    BY <1>1, <2>1
  <2>2. CASE UNCHANGED ledger
    BY <2>2, LedgerKeepsPlan
  <2>3. CASE PassFinal(Run) \/ FailVerification(Run)
    BY <2>3, StatusFrugal DEF PassFinal, FailVerification, LedgerFrugal, SamePlan
  <2>. QED
    BY <1>5, <2>1, <2>2, <2>3 DEF VerifyFinal, Passed, Goes
<1>. QED
  BY <1>1, <1>2, <1>3, <1>4, <1>5
  DEF Turn, Prompt, ResumeTurn, TakeModelCall, ModelFails, ModelAnswers, ModelBreaksOff,
      Repeated, Receive, Conclude, Respond, ObserveTool, Goes, Rest, Tells, Records

\* Only the revision at the end of recover makes a new plan.
LEMMA PlanKept ==
  ASSUME Serial, Driven, Driven', Warranted, [RuntimeNext]_allvars
  PROVE  SamePlan \/ PlanHasFailed
<1>1. UNCHANGED vars => SamePlan
  BY DEF vars, SamePlan
<1>2. UNCHANGED ledger => SamePlan
  BY LedgerKeepsPlan
<1>3. ASSUME NEW p \in Procs, Step(p)
      PROVE  SamePlan
  BY <1>3, StepsOnward, LedgerKeepsPlan DEF Serial
<1>4. ASSUME NEW p \in Procs, ReceiveFeedback(p)
      PROVE  SamePlan
  <2>1. PICK a \in Actions : action[a].run_id = Run /\ Feedback(a)
    BY <1>4 DEF ReceiveFeedback, ActionsOf
  <2>2. PICK n \in 1..Len(events[a]) : Apply(Run, a, n)
    BY <2>1 DEF Feedback
  <2>. QED
    BY <2>2, DriverFacts, ApplyOnward, LedgerKeepsPlan DEF Serial
<1>5. ASSUME NEW p \in Procs, Begin(p) \/ Die(p)
      PROVE  SamePlan
  BY <1>1, <1>2, <1>4, <1>5
  DEF Begin, Start, Resume, Tick, Cancel, CancelMock, Goes, Die
<1>6. ASSUME NEW p \in Procs, ObserveWorld(p)
      PROVE  SamePlan
  <2>1. CASE Observing(Run)
    <3>1. PICK o \in NewObservations(Run) : Observe(Run, o)
      BY <2>1 DEF Observing
    <3>2. state' = [state EXCEPT ![Run] = [state[Run] EXCEPT !.observation = o]]
      BY <3>1 DEF Observe
    <3>. QED
      BY <3>2, LedgerKeepsPlan
  <2>. QED
    BY <1>1, <1>6, <2>1 DEF ObserveWorld, Goes
<1>7. ASSUME NEW p \in Procs, Stop(p)
      PROVE  SamePlan
  <2>1. driver[p].pc = "stop" /\ FreezePlan(Run, driver[p].reason)
    BY <1>7 DEF Stop, RequestStop, Move, At
  <2>2. PICK f \in Frame : f = driver[p] /\ Fits(f)
    BY FrameDue
  <2>3. f.reason \in StopReasons
    BY <2>1, <2>2 DEF Fits, Guided
  <2>. QED
    BY <2>1, <2>2, <2>3, DriverFacts, FreezePlanOnward, LedgerKeepsPlan DEF Serial
<1>8. ASSUME NEW p \in Procs, Judge(p)
      PROVE  SamePlan
  <2>1. CASE \E a : PassCheckpoint(Run, a)
    BY <2>1 DEF PassCheckpoint, SamePlan
  <2>2. CASE FailVerification(Run)
    BY <2>2, StatusFrugal DEF FailVerification, LedgerFrugal, SamePlan
  <2>. QED
    BY <1>1, <1>8, <2>1, <2>2 DEF Judge, Goes
<1>9. ASSUME NEW p \in Procs, ReviseRun(p)
      PROVE  PlanHasFailed
  BY <1>9, ReviseRunWarrants
<1>10. ASSUME NEW p \in Procs, Drive(p), ~ReviseRun(p), ~ObserveWorld(p), ~Stop(p), ~Judge(p)
       PROVE  SamePlan
  BY <1>1, <1>2, <1>10, TurnKeepsPlan
  DEF Drive, Refresh, Terminate, TickRun, Tick, Recover, Replanned, RunLoop, TimeOut, Returned,
      Invalid, Reply, Deliver, Ran, ContinueExecution, JudgedBefore, Prepare, Resumed, Leave,
      Goes, Rest, Tells, Records
<1>. QED
  BY <1>1, <1>2, <1>3, <1>5, <1>6, <1>7, <1>8, <1>9, <1>10
  DEF RuntimeNext, Environment, allvars, ledger

\* Only recover spends a replan.
LEMMA ReplansKept ==
  ASSUME Driven, Warranted, [RuntimeNext]_allvars
  PROVE  book'.replans = book.replans \/ PlanHasFailed
<1>1. book \in Book
  BY DrivenTyped
<1>2. CASE UNCHANGED book
  BY <1>2
<1>3. ASSUME NEW p \in Procs, Recover(p)
      PROVE  book'.replans = book.replans \/ PlanHasFailed
  <2>1. driver[p].pc = "recover"
    BY <1>3 DEF Recover, Goes, Records, Move, At
  <2>. QED
    BY <2>1 DEF Warranted, Due
<1>4. ASSUME NEW p \in Procs, Turn(p)
      PROVE  book'.replans = book.replans
  BY <1>1, <1>4
  DEF Turn, Book, Prompt, ResumeTurn, TakeModelCall, ModelFails, ModelAnswers, ModelBreaksOff,
      Propose, Repeated, DispatchNext, Receive, FinishTask, VerifyFinal, Conclude, Respond,
      ObserveTool, Goes, Rest, Tells, Records
<1>5. ASSUME NEW p \in Procs, Reply(p) \/ Judge(p) \/ Refresh(p) \/ Invalid(p) \/ Prepare(p) \/ Ran(p)
      PROVE  book'.replans = book.replans
  BY <1>1, <1>5 DEF Reply, Judge, Refresh, Invalid, Prepare, Ran, Goes, Records, Book
<1>6. ASSUME NEW p \in Procs, Drive(p), ~Turn(p), ~Recover(p),
             ~(Reply(p) \/ Judge(p) \/ Refresh(p) \/ Invalid(p) \/ Prepare(p) \/ Ran(p))
      PROVE  UNCHANGED book
  BY <1>6
  DEF Drive, ObserveWorld, Terminate, Stop, TickRun, Replanned, ReviseRun, RunLoop, TimeOut,
      Returned, Deliver, ContinueExecution, JudgedBefore, Resumed, Leave, Goes, Rest, Tells
<1>7. ASSUME NEW p \in Procs, Begin(p) \/ Die(p)
      PROVE  UNCHANGED book
  BY <1>7 DEF Begin, Start, ReceiveFeedback, Resume, Cancel, CancelMock, Goes, Die
<1>. QED
  BY <1>2, <1>3, <1>4, <1>5, <1>6, <1>7 DEF RuntimeNext, allvars, driving

\* A plan is replaced, and a replan spent, only because the plan has failed, also
\* by a driver that takes up what one that died has left (runtime.py 264-278,
\* 399-404).
THEOREM ReplacedForCause == RuntimeSpec => RevisionHasCause
<1>1. (Serial /\ Driven /\ Warranted) /\ [RuntimeNext]_allvars =>
        [\/ state'[Run].plan_version # state[Run].plan_version
         \/ book'.replans # book.replans
         => PlanHasFailed]_allvars
  BY PlanKept, ReplansKept, DrivenStep DEF SamePlan
<1>. QED
  BY <1>1, WarrantedInvariant, PTL DEF RuntimeSpec, RevisionHasCause
=============================================================================
