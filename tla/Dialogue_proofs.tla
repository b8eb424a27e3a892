-------------------------- MODULE Dialogue_proofs ---------------------------
(***************************************************************************)
(* The runtime holds a dialogue with its agent: Runtime implements         *)
(* Dialogue.  The proof rests on Conversing, which is inductive on top of  *)
(* Driven and Attended.                                                    *)
(***************************************************************************)
EXTENDS RuntimeDialogue, Repair_proofs

-----------------------------------------------------------------------------
(* What a step has to keep.                                                *)

\* What is known of a driver.
LEMMA ConversingFrame ==
  ASSUME Driven, Conversing, NEW p \in Procs
  PROVE  \E f \in Frame :
           /\ f = driver[p] /\ Fits(f) /\ Guided(f) /\ MindsBound(f)
           /\ f.pc \in Places /\ f.next \in Places
           /\ Unheard => MayHold(f)
           /\ f.running => f.claims
           /\ f.pc \notin {"rest", "leave", "terminate", "stop", "tick"} => f.claims
           /\ ~f.claims => Operates(f)
<1>1. PICK f \in Frame : f = driver[p] /\ Fits(f)
  BY DrivenTyped DEF Driven
<1>2. MindsBound(f) /\ (f.claims /\ Unheard => MayHold(f))
  BY <1>1 DEF Conversing
<1>3. f.running => f.claims
  BY <1>1 DEF Fits, Operates
<1>4. Unheard => MayHold(f)
  BY <1>2, <1>3 DEF MayHold
<1>. QED
  BY <1>1, <1>2, <1>3, <1>4 DEF Fits, Operates, Frame

\* An operator minds nothing.
LEMMA OperatorMinds ==
  ASSUME NEW f, Operates(f)
  PROVE  MindsBound(f)'
  BY DEF Operates, MindsBound, Judging, JudgedIn

\* One process moves; the others mind what they did.
LEMMA MoveConverses ==
  ASSUME Driven, Conversing, BoundHere', ResultsMatch', OldAreTold', SessionHolds',
         NEW p \in Procs, NEW g, driver' = [driver EXCEPT ![p] = g],
         MindsBound(g)', g.claims /\ Unheard' => MayHold(g),
         \/ driver[p].claims
         \/ book'.binding = book.binding /\ (Unheard' => Unheard)
  PROVE  Conversing'
<1>1. ASSUME NEW q \in Procs
      PROVE  /\ MindsBound(driver[q])'
             /\ driver'[q].claims /\ Unheard' => MayHold(driver[q])'
  <2>1. CASE q = p
    <3>1. driver'[q] = g
      BY <2>1, DrivenTyped
    <3>2. MindsBound(driver[q])'
      BY <3>1 DEF MindsBound, Judging, JudgedIn, IsOfBound
    <3>3. driver'[q].claims /\ Unheard' => MayHold(driver[q])'
      BY <3>1 DEF MayHold, Leaving
    <3>. QED
      BY <3>2, <3>3
  <2>2. CASE q # p
    <3>1. PICK f \in Frame :
            /\ f = driver[q] /\ MindsBound(f) /\ (Unheard => MayHold(f))
            /\ ~f.claims => Operates(f)
      BY ConversingFrame
    <3>2. driver'[q] = f
      BY <2>2, <3>1, DrivenTyped
    <3>3. CASE driver[p].claims
      <4>1. ~f.claims
        BY <2>2, <3>1, <3>3 DEF Driven, Exclusive
      <4>2. MindsBound(f)'
        BY <3>1, <4>1, OperatorMinds
      <4>3. MindsBound(driver[q])'
        BY <3>2, <4>2 DEF MindsBound, Judging, JudgedIn, IsOfBound
      <4>. QED
        BY <3>2, <4>1, <4>3
    <3>4. CASE book'.binding = book.binding /\ (Unheard' => Unheard)
      <4>1. MindsBound(driver[q])'
        BY <3>1, <3>2, <3>4 DEF MindsBound, Judging, JudgedIn, IsOfBound
      <4>2. driver'[q].claims /\ Unheard' => MayHold(driver[q])'
        BY <3>1, <3>2, <3>4 DEF MayHold, Leaving
      <4>. QED
        BY <4>1, <4>2
    <3>. QED
      BY <3>3, <3>4
  <2>. QED
    BY <2>1, <2>2
<1>. QED
  BY <1>1 DEF Conversing

\* Nothing is told or bound.
LEMMA BooksStay ==
  ASSUME Conversing, Shrinks, session' = session,
         book'.binding = book.binding, book'.feedback \in {book.feedback, Nothing}
  PROVE  /\ BoundHere' /\ ResultsMatch' /\ OldAreTold' /\ SessionHolds'
         /\ Unheard' <=> Unheard
<1>1. \A m : Matches(m) => Matches(m)'
  BY DEF Matches, Shrinks
<1>2. \A m : IsOfBound(m) => IsOfBound(m)'
  BY DEF IsOfBound
<1>3. ResultsMatch'
  BY <1>1, <1>2 DEF Conversing, ResultsMatch, Has, Matches, IsOfBound, Shrinks
<1>4. OldAreTold'
  BY DEF Conversing, OldAreTold, TellsEnd, Shrinks
<1>5. BoundHere'
  BY DEF Conversing, BoundHere, Shrinks
<1>. QED
  BY <1>3, <1>4, <1>5 DEF Conversing, SessionHolds, Unheard, LastKind, Known, CallId, Has

LEMMA GoesConverses ==
  ASSUME Driven, Conversing, Shrinks, NEW p \in Procs, NEW g, driver' = [driver EXCEPT ![p] = g],
         session' = session, book'.binding = book.binding,
         book'.feedback \in {book.feedback, Nothing}, MindsBound(g), Unheard => MayHold(g)
  PROVE  Conversing'
<1>1. MindsBound(g)'
  BY DEF MindsBound, Judging, JudgedIn, IsOfBound
<1>. QED
  BY <1>1, BooksStay, MoveConverses

\* An event that is no result tells nothing new.
LEMMA OldNews ==
  ASSUME Driven, NEW event, event.kind # "result", session' = Append(session, event)
  PROVE  /\ \A i \in DOMAIN session : i \in DOMAIN session' /\ session'[i] = session[i]
         /\ \A i \in DOMAIN session' : session'[i].kind = "result" =>
              i \in DOMAIN session /\ session'[i] = session[i]
         /\ \A call : Has("result", call)' <=> Has("result", call)
         /\ session' # <<>> /\ LastKind' = event.kind
<1>1. session \in Seq(SessionEvent)
  BY DrivenTyped
<1>2. \A i \in DOMAIN session : i \in DOMAIN session' /\ session'[i] = session[i]
  BY <1>1
<1>3. \A i \in DOMAIN session' : i \notin DOMAIN session => session'[i] = event
  BY <1>1
<1>4. session' # <<>> /\ LastKind' = event.kind
  BY <1>1 DEF LastKind
<1>. QED
  BY <1>2, <1>3, <1>4 DEF Has

LEMMA TellsConverses ==
  ASSUME Driven, Conversing, Shrinks, NEW p \in Procs, NEW g, driver' = [driver EXCEPT ![p] = g],
         NEW event, event.kind # "result", session' = Append(session, event),
         book'.binding = book.binding, book'.feedback = book.feedback,
         MindsBound(g), Unheard => MayHold(g) /\ event.kind = "receipt"
  PROVE  Conversing'
<1>1. Unheard' <=> Unheard
  BY OldNews DEF Unheard
<1>2. \A m : Matches(m) => Matches(m)'
  BY DEF Matches, Shrinks
<1>3. ResultsMatch'
  <2>1. ASSUME NEW i \in DOMAIN session', session'[i].kind = "result"
        PROVE  Matches(session[i])'
    <3>1. i \in DOMAIN session /\ session'[i] = session[i]
      BY <2>1, OldNews
    <3>. QED
      BY <2>1, <3>1 DEF Conversing, ResultsMatch, Matches, Shrinks
  <2>2. book'.feedback # Nothing => Matches(book.feedback)'
    BY DEF Conversing, ResultsMatch, Matches, Shrinks
  <2>3. book'.feedback # Nothing /\ ~Has("result", book.feedback.call)' => IsOfBound(book.feedback)'
    <3>1. PICK call : call = book.feedback.call
      OBVIOUS
    <3>2. Has("result", call)' <=> Has("result", call)
      BY OldNews
    <3>3. Has("result", book.feedback.call)' <=> Has("result", book.feedback.call)
      BY <3>1, <3>2 DEF Has
    <3>. QED
      BY <3>3 DEF Conversing, ResultsMatch, IsOfBound
  <2>. QED
    BY <2>1, <2>2, <2>3 DEF ResultsMatch
<1>4. OldAreTold'
  BY OldNews DEF Conversing, OldAreTold, TellsEnd, Shrinks
<1>5. SessionHolds'
  BY <1>1, OldNews DEF SessionHolds
<1>6. MindsBound(g)'
  BY DEF MindsBound, Judging, JudgedIn, IsOfBound
<1>7. BoundHere'
  BY DEF Conversing, BoundHere, Shrinks
<1>. QED
  BY <1>1, <1>3, <1>4, <1>5, <1>6, <1>7, MoveConverses

-----------------------------------------------------------------------------
(* Frames.                                                                 *)

LEMMA RaisedMinds ==
  ASSUME Driven, NEW p \in Procs
  PROVE  MindsBound(Raised(p)) /\ MayHold(Raised(p))
<1>1. PICK f \in Frame : f = driver[p]
  BY DrivenTyped
<1>2. /\ Raised(p).pc = "terminate" /\ Raised(p).running = f.running
      /\ Raised(p).next = IF f.running THEN "ran" ELSE "leave"
  BY <1>1 DEF Raised, Frame
<1>. QED
  BY <1>2 DEF MindsBound, MayHold, Judging, JudgedIn, Leaving

\* Where an operator begins.
Canceling(pc) == [AtRest EXCEPT !.pc = pc, !.reason = "cancel", !.next = "leave"]

LEMMA RestMinds ==
  /\ MindsBound(AtRest) /\ MayHold(AtRest)
  /\ \A pc \in {"stop", "terminate"} : MindsBound(Canceling(pc)) /\ MayHold(Canceling(pc))
  /\ LET g == [AtRest EXCEPT !.pc = "continue", !.claims = TRUE] IN MindsBound(g) /\ MayHold(g)
  BY DEF Canceling, AtRest, Nothing, MindsBound, MayHold, Judging, JudgedIn

\* Where a driver minds neither an act nor a message, and may hold.
AtTool == {"tool", "dispatch", "receipt", "returned", "ran"}
InTask == AtTool \cup {"model", "thinking", "respond", "final", "conclude", "refresh", "observe",
                       "recover", "replanned", "revise", "terminate", "stop", "tick"}

\* In _run, elsewhere.
LEMMA TaskMinds ==
  ASSUME NEW g, g.running, g.pc \in InTask
  PROVE  MindsBound(g) /\ (g.pc \in AtTool => MayHold(g))
  BY DEF InTask, AtTool, MindsBound, MayHold, Judging, JudgedIn

LEMMA ToMinds ==
  ASSUME Driven, NEW p \in Procs, driver[p].running, NEW pc \in InTask
  PROVE  /\ MindsBound(To(p, pc)) /\ (pc \in AtTool => MayHold(To(p, pc)))
         /\ \A m, b, c : LET g == [To(p, pc) EXCEPT !.message = m, !.paused = b, !.answering = c]
                         IN  MindsBound(g) /\ (pc \in AtTool => MayHold(g))
         /\ \A b : LET g == [To(p, pc) EXCEPT !.paused = b]
                   IN  MindsBound(g) /\ (pc \in AtTool => MayHold(g))
         /\ \A b : LET g == [To(p, pc) EXCEPT !.answering = b]
                   IN  MindsBound(g) /\ (pc \in AtTool => MayHold(g))
         /\ \A b, c : LET g == [To(p, pc) EXCEPT !.paused = b, !.answering = c]
                      IN  MindsBound(g) /\ (pc \in AtTool => MayHold(g))
         /\ \A n : MindsBound([To(p, pc) EXCEPT !.next = n])
         /\ \A r : MindsBound([To(p, pc) EXCEPT !.reason = r])
         /\ \A r, n : MindsBound([To(p, pc) EXCEPT !.reason = r, !.next = n])
<1>1. pc \in Places
  BY DEF InTask, AtTool, Places
<1>2. To(p, pc) \in Frame /\ To(p, pc).running /\ To(p, pc).pc = pc
  BY <1>1, ToTyped
<1>3. PICK h \in Frame : h = To(p, pc) /\ h.running /\ h.pc = pc
  BY <1>2
<1>4. \A m, b, c : LET g == [h EXCEPT !.message = m, !.paused = b, !.answering = c]
                   IN  g.running /\ g.pc = pc
  BY <1>3 DEF Frame
<1>5. \A b, c : /\ LET g == [h EXCEPT !.paused = b] IN g.running /\ g.pc = pc
                /\ LET g == [h EXCEPT !.answering = b] IN g.running /\ g.pc = pc
                /\ LET g == [h EXCEPT !.paused = b, !.answering = c] IN g.running /\ g.pc = pc
  BY <1>3 DEF Frame
<1>6. \A n : LET g == [h EXCEPT !.next = n] IN g.running /\ g.pc = pc
  BY <1>3 DEF Frame
<1>7. \A r : LET g == [h EXCEPT !.reason = r] IN g.running /\ g.pc = pc
  BY <1>3 DEF Frame
<1>8. \A r, n : LET g == [h EXCEPT !.reason = r, !.next = n] IN g.running /\ g.pc = pc
  BY <1>3 DEF Frame
<1>9. \A m, b, c : LET g == [To(p, pc) EXCEPT !.message = m, !.paused = b, !.answering = c]
                   IN  MindsBound(g) /\ (pc \in AtTool => MayHold(g))
  <2>1. ASSUME NEW m, NEW b, NEW c, NEW g, g = [h EXCEPT !.message = m, !.paused = b, !.answering = c]
        PROVE  MindsBound(g) /\ (pc \in AtTool => MayHold(g))
    BY <1>4, <2>1, TaskMinds
  <2>. QED
    BY <1>3, <2>1
<1>10. \A b, c : /\ LET g == [To(p, pc) EXCEPT !.paused = b]
                     IN  MindsBound(g) /\ (pc \in AtTool => MayHold(g))
                 /\ LET g == [To(p, pc) EXCEPT !.answering = b]
                     IN  MindsBound(g) /\ (pc \in AtTool => MayHold(g))
                 /\ LET g == [To(p, pc) EXCEPT !.paused = b, !.answering = c]
                     IN  MindsBound(g) /\ (pc \in AtTool => MayHold(g))
  BY <1>3, <1>5, TaskMinds
<1>11. /\ \A n : MindsBound([To(p, pc) EXCEPT !.next = n])
       /\ \A r : MindsBound([To(p, pc) EXCEPT !.reason = r])
       /\ \A r, n : MindsBound([To(p, pc) EXCEPT !.reason = r, !.next = n])
  BY <1>3, <1>6, <1>7, <1>8, TaskMinds
<1>. QED
  BY <1>3, <1>9, <1>10, <1>11, TaskMinds

\* Who is at work on the agent's turn knows that the agent has heard.
LEMMA HeardAtWork ==
  ASSUME Driven, Conversing, NEW p \in Procs,
         driver[p].pc \in {"model", "thinking", "respond", "final", "conclude", "invalid", "reply"}
  PROVE  ~Unheard /\ driver[p].running
<1>1. PICK f \in Frame : f = driver[p] /\ Guided(f) /\ (Unheard => MayHold(f))
  BY ConversingFrame
<1>2. f.running
  BY <1>1 DEF Guided, InRun
<1>3. ~MayHold(f)
  BY <1>1, <1>2 DEF MayHold, Leaving
<1>. QED
  BY <1>1, <1>2, <1>3

\* A driver of a turn goes on.
LEMMA TurnGoes ==
  ASSUME Driven, Conversing, Shrinks, NEW p \in Procs, NEW pc, NEW g, Move(p, pc, g),
         session' = session, book'.binding = book.binding,
         book'.feedback \in {book.feedback, Nothing}, MindsBound(g), Unheard => MayHold(g)
  PROVE  Conversing'
  BY GoesConverses DEF Move

LEMMA TurnTells ==
  ASSUME Driven, Conversing, Shrinks, NEW p \in Procs, NEW pc, NEW g, NEW event,
         Tells(p, pc, event, g), event.kind # "result", MindsBound(g),
         Unheard => MayHold(g) /\ event.kind = "receipt"
  PROVE  Conversing'
  BY TellsConverses DEF Tells, Move

LEMMA RestConverses ==
  ASSUME Driven, Conversing, Shrinks, NEW p \in Procs, NEW pc, Rest(p, pc)
  PROVE  Conversing'
  BY TurnGoes, RestMinds DEF Rest

LEMMA RaiseConverses ==
  ASSUME Driven, Conversing, Shrinks, NEW p \in Procs, NEW pc, Move(p, pc, Raised(p)),
         session' = session, book'.binding = book.binding, book'.feedback = book.feedback
  PROVE  Conversing'
  BY TurnGoes, RaisedMinds

-----------------------------------------------------------------------------
(* Steps of a turn.                                                        *)

LEMMA ResumeTurnConverses ==
  ASSUME Driven, Conversing, Shrinks, NEW p \in Procs, ResumeTurn(p)
  PROVE  Conversing'
<1>1. driver[p].running
  BY ConversingFrame DEF ResumeTurn, At, Guided, InRun
<1>2. PICK b, pc : /\ Goes(p, "agent", [To(p, pc) EXCEPT !.paused = b, !.answering = FALSE])
                   /\ \/ pc \in {"returned", "tool"}
                      \/ pc = "model" /\ LastKind \notin {"receipt", "execute_action"}
  BY DEF ResumeTurn
<1>3. pc \in InTask /\ (pc = "model" => ~Unheard)
  BY <1>2 DEF InTask, AtTool, Conversing, SessionHolds
<1>4. PICK g : g = [To(p, pc) EXCEPT !.paused = b, !.answering = FALSE]
  OBVIOUS
<1>5. MindsBound(g) /\ (pc \in AtTool => MayHold(g))
  BY <1>1, <1>3, <1>4, ToMinds
<1>. QED
  BY <1>2, <1>3, <1>4, <1>5, TurnGoes DEF Goes, AtTool

LEMMA ModelConverses ==
  ASSUME Driven, Conversing, Shrinks, NEW p \in Procs,
         TakeModelCall(p) \/ ModelFails(p) \/ ModelAnswers(p)
  PROVE  Conversing'
<1>1. driver[p].pc \in {"model", "thinking"}
  BY DEF TakeModelCall, ModelFails, ModelAnswers, Goes, Records, Tells, Move, At
<1>2. ~Unheard /\ driver[p].running
  BY <1>1, HeardAtWork
<1>3. \A pc : Goes(p, pc, Raised(p)) => Conversing'
  BY RaiseConverses DEF Goes
<1>4. ASSUME NEW pc, NEW b, NEW to \in {"model", "thinking"},
             \/ b = [book EXCEPT !.model_calls = book.model_calls + 1]
             \/ b = [book EXCEPT !.api_retries = book.api_retries + 1],
             NEW g, g = To(p, to) \/ g = [To(p, to) EXCEPT !.answering = FALSE],
             Records(p, pc, b, g)
      PROVE  Conversing'
  <2>1. b.binding = book.binding /\ b.feedback = book.feedback
    BY <1>4, CountUp
  <2>2. MindsBound(g)
    <3>1. to \in InTask
      BY DEF InTask
    <3>2. CASE g = To(p, to)
      BY <1>2, <3>1, <3>2, ToMinds
    <3>3. CASE g = [To(p, to) EXCEPT !.answering = FALSE]
      BY <1>2, <3>1, <3>3, ToMinds
    <3>. QED
      BY <1>4, <3>2, <3>3
  <2>. QED
    BY <1>2, <1>4, <2>1, <2>2, TurnGoes DEF Records
<1>5. CASE TakeModelCall(p)
  BY <1>3, <1>4, <1>5 DEF TakeModelCall
<1>6. CASE ModelFails(p)
  BY <1>3, <1>4, <1>6 DEF ModelFails
<1>7. CASE ModelAnswers(p)
  <2>1. CASE Goes(p, "thinking", [To(p, "invalid") EXCEPT !.message = Of("user")])
    <3>1. PICK g : g = [To(p, "invalid") EXCEPT !.message = Of("user")]
      OBVIOUS
    <3>2. g.message.kind = "user" /\ g.running
      BY <1>2, <3>1, ToTyped DEF Of, Frame, Places
    <3>3. MindsBound(g)
      BY <3>2 DEF MindsBound, Judging, JudgedIn
    <3>. QED
      BY <1>2, <2>1, <3>1, <3>3, TurnGoes DEF Goes
  <2>2. ASSUME NEW kind \in {"text"} \cup Tools, NEW to \in {"returned", "tool"}, NEW b,
               Tells(p, "thinking", Of(kind), [To(p, to) EXCEPT !.paused = b, !.answering = TRUE])
        PROVE  Conversing'
    <3>1. PICK g : g = [To(p, to) EXCEPT !.paused = b, !.answering = TRUE]
      OBVIOUS
    <3>2. MindsBound(g)
      BY <1>2, <3>1, ToMinds DEF InTask, AtTool
    <3>3. Of(kind).kind # "result"
      BY DriverAssumption DEF DriverAssumption, Of
    <3>. QED
      BY <1>2, <2>2, <3>1, <3>2, <3>3, TurnTells
  <2>3. \/ Goes(p, "thinking", Raised(p))
        \/ Goes(p, "thinking", [To(p, "invalid") EXCEPT !.message = Of("user")])
        \/ Tells(p, "thinking", Of("text"),
                 [To(p, "returned") EXCEPT !.paused = FALSE, !.answering = TRUE])
        \/ \E tool \in Tools :
             Tells(p, "thinking", Of(tool),
                   [To(p, "tool") EXCEPT !.paused = tool = "execute_action", !.answering = TRUE])
    BY <1>7 DEF ModelAnswers
  <2>4. CASE \E tool \in Tools :
               Tells(p, "thinking", Of(tool),
                     [To(p, "tool") EXCEPT !.paused = tool = "execute_action", !.answering = TRUE])
    BY <2>2, <2>4
  <2>. QED
    BY <1>3, <2>1, <2>2, <2>3, <2>4
<1>. QED
  BY <1>5, <1>6, <1>7

LEMMA ModelBreaksOffConverses ==
  ASSUME Driven, Conversing, Shrinks, NEW p \in Procs, ModelBreaksOff(p)
  PROVE  Conversing'
  BY RaiseConverses DEF ModelBreaksOff, Goes

\* The tools, but for a new proposal.
LEMMA ToolConverses ==
  ASSUME Driven, Conversing, Shrinks, NEW p \in Procs,
         \/ Repeated(p) \/ DispatchNext(p) \/ Receive(p) \/ FinishTask(p) \/ ObserveTool(p)
  PROVE  Conversing'
<1>1. driver[p].pc \in {"tool", "dispatch", "receipt"}
  BY DEF Repeated, DispatchNext, Receive, FinishTask, ObserveTool, Tells, Goes, Move, At
<1>2. driver[p].running
  BY <1>1, ConversingFrame DEF Guided, InRun
<1>3. \A pc \in AtTool : MindsBound(To(p, pc)) /\ MayHold(To(p, pc))
  BY <1>2, ToMinds DEF InTask
<1>4. CASE Repeated(p)
  BY <1>3, <1>4, RestConverses, TurnGoes DEF Repeated, Goes, AtTool
<1>5. CASE DispatchNext(p)
  <2>1. /\ Move(p, "dispatch", To(p, "receipt")) \/ Move(p, "dispatch", Raised(p))
        /\ UNCHANGED <<book, session>>
    BY <1>5 DEF DispatchNext, Goes
  <2>. QED
    BY <1>3, <2>1, RaiseConverses, TurnGoes DEF AtTool
<1>6. CASE Receive(p)
  BY <1>3, <1>6, TurnTells DEF Receive, Receipt, AtTool
<1>7. CASE FinishTask(p) \/ ObserveTool(p)
  <2>1. ~Unheard
    BY <1>7 DEF FinishTask, ObserveTool, Conversing, SessionHolds
  <2>2. /\ \/ Move(p, "tool", To(p, "respond")) \/ Move(p, "tool", Raised(p))
           \/ \E n : Move(p, "tool", [To(p, "refresh") EXCEPT !.next = n])
        /\ UNCHANGED <<book, session>>
    BY <1>7 DEF FinishTask, ObserveTool, Goes
  <2>3. MindsBound(To(p, "respond")) /\ \A n : MindsBound([To(p, "refresh") EXCEPT !.next = n])
    BY <1>2, ToMinds DEF InTask
  <2>. QED
    BY <2>1, <2>2, <2>3, RaiseConverses, TurnGoes
<1>. QED
  BY <1>4, <1>5, <1>6, <1>7

LEMMA FinalConverses ==
  ASSUME Driven, Conversing, Shrinks, NEW p \in Procs, VerifyFinal(p) \/ Conclude(p) \/ Respond(p)
  PROVE  Conversing'
<1>1. driver[p].pc \in {"final", "conclude", "respond"}
  BY DEF VerifyFinal, Conclude, Respond, Tells, Goes, Move, At
<1>2. ~Unheard /\ driver[p].running
  BY <1>1, HeardAtWork
<1>3. CASE VerifyFinal(p)
  <2>1. /\ \/ Move(p, "final", To(p, "conclude")) \/ Move(p, "final", To(p, "recover"))
           \/ Move(p, "final", Raised(p))
        /\ UNCHANGED <<book, session>>
    BY <1>3 DEF VerifyFinal, Goes
  <2>2. MindsBound(To(p, "conclude")) /\ MindsBound(To(p, "recover"))
    BY <1>2, ToMinds DEF InTask
  <2>. QED
    BY <1>2, <2>1, <2>2, RaiseConverses, TurnGoes
<1>4. CASE Conclude(p) \/ Respond(p)
  <2>1. PICK g : /\ MindsBound(g)
                 /\ \/ Tells(p, "conclude", Of("final"), g)
                    \/ Tells(p, "respond", Of("response"), g)
    BY <1>2, <1>4, ToMinds DEF InTask, AtTool, Conclude, Respond
  <2>2. Of("final").kind # "result" /\ Of("response").kind # "result"
    BY DEF Of
  <2>. QED
    BY <1>2, <2>1, <2>2, TurnTells
<1>. QED
  BY <1>3, <1>4

-----------------------------------------------------------------------------
(* Steps that tell and bind.                                               *)

\* What the agent has heard of the bound call, it has heard of the bound action.
LEMMA BoundIsTold ==
  ASSUME Driven, Conversing, book.binding.act # None, ~Unheard
  PROVE  \E i \in DOMAIN session : TellsEnd(i) /\ session[i].act = book.binding.act
<1>1. PICK i \in DOMAIN session : session[i].kind = "result" /\ session[i].call = book.binding.call
  BY DEF Unheard, Has
<1>2. Matches(session[i])
  BY <1>1 DEF Conversing, ResultsMatch
<1>. QED
  BY <1>1, <1>2 DEF Matches, TellsEnd

\* All old actions have been told when nobody is left to hear of.
LEMMA AllAreTold ==
  ASSUME Driven, Conversing, ~Unheard, NEW a \in ActionsOf(Run)
  PROVE  \E i \in DOMAIN session : TellsEnd(i) /\ session[i].act = a
<1>1. a # None
  BY DriverFacts DEF ActionsOf
<1>. QED
  BY <1>1, BoundIsTold DEF Conversing, OldAreTold

\* What is delivered: the end of the bound action, that the agent has not heard,
\* or the refusal of a proposal when no action is bound.
LEMMA PromptIsNews ==
  ASSUME Driven, Conversing, NEW p \in Procs, Prompt(p), driver[p].message.kind = "result"
  PROVE  LET m == driver[p].message
         IN  /\ m \in SessionEvent /\ ~Has("result", m.call) /\ m.call <= Len(session)
             /\ m.act # None => IsOfBound(m) /\ Settled(m.act) /\ m.act \in ActionsOf(Run)
             /\ m.act = None => book.binding.act = None
<1>1. PICK f \in Frame : f = driver[p] /\ Fits(f) /\ MindsBound(f) /\ f.claims /\ f.pc = "agent"
  BY ConversingFrame DEF Prompt, At
<1>2. f.message \in SessionEvent
  BY <1>1 DEF Frame, Nothing
<1>3. CarriesNews(f)
  BY <1>1 DEF Fits
<1>4. IF f.message.act = None THEN book.binding.act = None ELSE IsOfBound(f.message)
  BY <1>1 DEF MindsBound
<1>5. IsOfBound(f.message) => f.message.act \in ActionsOf(Run)
  BY DEF IsOfBound, Result, Conversing, BoundHere
<1>. QED
  BY <1>1, <1>2, <1>3, <1>4, <1>5 DEF CarriesNews

LEMMA PromptConverses ==
  ASSUME Driven, Conversing, Shrinks, NEW p \in Procs, Prompt(p)
  PROVE  Conversing'
<1>1. PICK f \in Frame : /\ f = driver[p] /\ f.pc = "agent" /\ f.running
                         /\ Unheard => MayHold(f)
  BY ConversingFrame DEF Prompt, At, Guided, InRun
<1>2. PICK g : /\ g = [To(p, "model") EXCEPT !.message = Nothing, !.paused = FALSE, !.answering = FALSE]
               /\ Tells(p, "agent", f.message, g) /\ f.message # Nothing
  BY <1>1 DEF Prompt
<1>3. MindsBound(g)
  BY <1>1, <1>2, ToMinds DEF InTask
<1>4. CASE f.message.kind # "result"
  <2>1. ~MayHold(f)
    BY <1>1, <1>2, <1>4 DEF MayHold, Leaving
  <2>. QED
    BY <1>1, <1>2, <1>3, <1>4, <2>1, TurnTells
<1>5. CASE f.message.kind = "result"
  <2>1. PICK m : m = f.message
    OBVIOUS
  <2>2. /\ m \in SessionEvent /\ m.kind = "result" /\ ~Has("result", m.call)
        /\ m.act # None => IsOfBound(m) /\ m.act \in ActionsOf(Run)
        /\ m.act = None => book.binding.act = None
    BY <1>1, <1>5, <2>1, PromptIsNews
  <2>3. /\ session' = Append(session, m) /\ book' = book
        /\ driver' = [driver EXCEPT ![p] = g]
    BY <1>2, <2>1 DEF Tells, Move
  <2>4. session \in Seq(SessionEvent)
    BY DrivenTyped
  <2>5. \A i \in DOMAIN session : i \in DOMAIN session' /\ session'[i] = session[i]
    BY <2>3, <2>4
  <2>6. \A i \in DOMAIN session' : (i \in DOMAIN session /\ session'[i] = session[i]) \/ session'[i] = m
    BY <2>3, <2>4
  <2>7. Len(session') \in DOMAIN session' /\ session'[Len(session')] = m
    BY <2>3, <2>4
  <2>8. BoundHere'
    BY <2>3 DEF Conversing, BoundHere, Shrinks
  <2>9. ResultsMatch'
    <3>1. Matches(m)
      BY <2>2 DEF Matches, IsOfBound, Result
    <3>2. \A i \in DOMAIN session' : session'[i].kind = "result" => Matches(session'[i])
      BY <2>6, <3>1 DEF Conversing, ResultsMatch
    <3>3. \A i \in DOMAIN session' : session'[i].kind = "result" => Matches(session[i])'
      BY <2>3, <3>2 DEF Matches, Shrinks
    <3>4. book'.feedback # Nothing => Matches(book.feedback)'
      BY <2>3 DEF Conversing, ResultsMatch, Matches, Shrinks
    <3>5. book'.feedback # Nothing /\ ~Has("result", book.feedback.call)' => IsOfBound(book.feedback)'
      <4>1. Has("result", book.feedback.call) => Has("result", book.feedback.call)'
        BY <2>3, <2>5 DEF Has
      <4>. QED
        BY <2>3, <4>1 DEF Conversing, ResultsMatch, IsOfBound
    <3>. QED
      BY <3>3, <3>4, <3>5 DEF ResultsMatch
  <2>10. OldAreTold'
    BY <2>3, <2>5 DEF Conversing, OldAreTold, TellsEnd, Shrinks
  <2>11. ~Unheard'
    BY <2>2, <2>3, <2>7 DEF Unheard, IsOfBound, Result, Has
  <2>12. MindsBound(g)'
    BY <1>3, <2>3 DEF MindsBound, Judging, JudgedIn, IsOfBound
  <2>. QED
    BY <2>3, <2>8, <2>9, <2>10, <2>11, <2>12, MoveConverses DEF SessionHolds
<1>. QED
  BY <1>4, <1>5

\* Calls of the results in the session are not the last one's.
LEMMA ResultsAreEarlier ==
  ASSUME Driven, NEW call, Has("result", call)
  PROVE  call # CallId
<1>1. PICK i \in DOMAIN session : session[i].call = call
  BY DEF Has
<1>2. session[i].call < i /\ i \in 1..Len(session) /\ session[i] \in SessionEvent
  BY EventTyped DEF Driven, Accounts, Numbered
<1>. QED
  BY <1>1, <1>2, DrivenTyped DEF CallId, SessionEvent

\* A call is bound, or a refusal is taken back, when the agent has heard of all
\* there is and the outbox has been delivered.
LEMMA RebindConverses ==
  ASSUME Driven, Conversing, ~Unheard,
         book.feedback # Nothing => Has("result", book.feedback.call),
         session' = session, book'.feedback = book.feedback,
         NEW p \in Procs, driver[p].claims, NEW g, driver' = [driver EXCEPT ![p] = g],
         MindsBound(g)', MayHold(g),
         \/ book'.binding.act = None /\ ActionsOf(Run)' = ActionsOf(Run)
         \/ /\ book'.binding.call = CallId /\ book'.binding.act \in Actions \ ActionsOf(Run)
            /\ ActionsOf(Run)' = ActionsOf(Run) \cup {book'.binding.act}
            /\ session # <<>> /\ LastKind = "execute_action"
  PROVE  Conversing'
<1>1. ActionsOf(Run) \subseteq ActionsOf(Run)' /\ (book'.binding.act # None =>
        book'.binding.act \in ActionsOf(Run)')
  OBVIOUS
<1>2. BoundHere'
  BY <1>1 DEF BoundHere
<1>3. ASSUME NEW m, Matches(m), m.call # CallId
      PROVE  /\ m.act # None => m.act \in ActionsOf(Run)'
             /\ book'.binding.act # None =>
                  (m.act = book'.binding.act <=> m.call = book'.binding.call)
  <2>1. m.act # None => m.act \in ActionsOf(Run)
    BY <1>3 DEF Matches
  <2>. QED
    BY <1>1, <1>3, <2>1
<1>4. \A i \in DOMAIN session : session[i].kind = "result" =>
        Matches(session[i]) /\ session[i].call # CallId
  <2>1. \A i \in DOMAIN session : session[i].kind = "result" => Has("result", session[i].call)
    BY DEF Has
  <2>. QED
    BY <2>1, ResultsAreEarlier DEF Conversing, ResultsMatch
<1>5. \A i \in DOMAIN session' : session'[i].kind = "result" => Matches(session[i])'
  BY <1>3, <1>4 DEF Matches
<1>6. book.feedback # Nothing => Matches(book.feedback) /\ book.feedback.call # CallId
  BY ResultsAreEarlier DEF Conversing, ResultsMatch
<1>7. book'.feedback # Nothing => Matches(book.feedback)'
  BY <1>3, <1>6 DEF Matches
<1>8. book'.feedback # Nothing => Has("result", book.feedback.call)'
  BY DEF Has
<1>9. ResultsMatch'
  BY <1>5, <1>7, <1>8 DEF ResultsMatch
<1>10. OldAreTold'
  <2>1. ASSUME NEW a \in ActionsOf(Run)', a # book'.binding.act
        PROVE  \E i \in DOMAIN session : TellsEnd(i) /\ session[i].act = a
    <3>1. a \in ActionsOf(Run)
      BY <2>1
    <3>. QED
      BY <3>1, AllAreTold
  <2>. QED
    BY <2>1 DEF OldAreTold, TellsEnd
<1>11. SessionHolds'
  BY DEF SessionHolds, Unheard, Known, CallId, LastKind
<1>. QED
  BY <1>2, <1>9, <1>10, <1>11, MoveConverses

LEMMA ProposeConverses ==
  ASSUME Serial, Driven, Conversing, NEW p \in Procs, Propose(p)
  PROVE  Conversing'
<1>1. PICK f \in Frame : /\ f = driver[p] /\ f.pc = "tool" /\ f.claims /\ f.running
                         /\ session # <<>>
                         /\ book.feedback # Nothing => Has("result", book.feedback.call)
  <2>1. PICK f \in Frame : /\ f = driver[p] /\ Fits(f)
                           /\ f.pc \notin {"rest", "leave", "terminate", "stop", "tick"} => f.claims
    BY MidCall
  <2>2. f.pc = "tool"
    BY <2>1 DEF Propose, At
  <2>3. f.claims /\ f.running
    BY <2>1, <2>2 DEF Fits, Guided, InRun
  <2>. QED
    BY <2>1, <2>2, <2>3 DEF Fits, DeliversFirst, Leaving
<1>2. ~Unheard /\ LastKind = "execute_action"
  BY DEF Propose, Conversing, SessionHolds
<1>3. ASSUME NEW pc \in AtTool
      PROVE  \E g : g = To(p, pc) /\ g.running /\ g.pc = pc
  BY <1>1, ToTyped DEF AtTool, Places
<1>4. ASSUME NEW g, g.running, g.pc \in AtTool
      PROVE  MindsBound(g)' /\ MayHold(g)
  BY <1>4 DEF AtTool, MindsBound, Judging, JudgedIn, MayHold
<1>5. CASE Records(p, "tool", [book EXCEPT !.binding = [call |-> CallId, act |-> None]], To(p, "receipt"))
  <2>0. PICK g : g = To(p, "receipt") /\ g.running /\ g.pc = "receipt"
    BY <1>3 DEF AtTool
  <2>1. /\ book'.binding = [call |-> CallId, act |-> None] /\ book'.feedback = book.feedback
        /\ session' = session /\ UNCHANGED vars /\ driver' = [driver EXCEPT ![p] = g]
    BY <1>5, <2>0, DrivenTyped DEF Records, Move, Book
  <2>2. ActionsOf(Run)' = ActionsOf(Run)
    BY <2>1 DEF vars, ActionsOf
  <2>3. MindsBound(g)' /\ MayHold(g)
    BY <1>4, <2>0 DEF AtTool
  <2>4. book'.binding.act = None /\ driver[p].claims
    BY <1>1, <2>1
  <2>. QED
    BY <1>1, <1>2, <2>1, <2>2, <2>3, <2>4, RebindConverses
<1>6. ASSUME NEW a \in Actions, action[a].run_id = None, AppendActions(Run, <<a>>),
             book' = [book EXCEPT !.binding = [call |-> CallId, act |-> a]],
             Move(p, "tool", To(p, "dispatch")), UNCHANGED session
      PROVE  Conversing'
  <2>1. book'.binding = [call |-> CallId, act |-> a] /\ book'.feedback = book.feedback
    BY <1>6, DrivenTyped DEF Book
  <2>2. Run # None
    BY DriverFacts, ConstantFacts
  <2>3. a \notin ActionsOf(Run)
    BY <1>6, <2>2 DEF ActionsOf
  <2>4. action'[a].run_id = Run /\ \A b \in Actions : b # a => action'[b] = action[b]
    BY <1>6, AppendOne
  <2>5. ActionsOf(Run)' = ActionsOf(Run) \cup {a}
    BY <2>4 DEF ActionsOf
  <2>6. PICK g : g = To(p, "dispatch") /\ g.running /\ g.pc = "dispatch"
    BY <1>3 DEF AtTool
  <2>7. driver' = [driver EXCEPT ![p] = g] /\ session' = session
    BY <1>6, <2>6 DEF Move
  <2>8. MindsBound(g)' /\ MayHold(g)
    BY <1>4, <2>6 DEF AtTool
  <2>9. /\ book'.binding.call = CallId /\ book'.binding.act \in Actions \ ActionsOf(Run)
        /\ ActionsOf(Run)' = ActionsOf(Run) \cup {book'.binding.act} /\ driver[p].claims
    BY <1>1, <2>1, <2>3, <2>5
  <2>. QED
    BY <1>1, <1>2, <2>1, <2>7, <2>8, <2>9, RebindConverses
<1>. QED
  BY <1>5, <1>6 DEF Propose

\* A refusal is taken back when it has been answered.
LEMMA ReplyConverses ==
  ASSUME Driven, Conversing, Shrinks, NEW p \in Procs, Reply(p)
  PROVE  Conversing'
<1>1. PICK f \in Frame : /\ f = driver[p] /\ f.pc = "reply" /\ f.claims /\ f.running
                         /\ MindsBound(f) /\ Fits(f)
  BY ConversingFrame DEF Reply, Records, Move, At, Guided, InRun
<1>2. ~Unheard
  BY <1>1, HeardAtWork
<1>3. PICK g : g = To(p, "prompt") /\ g.pc = "prompt" /\ g.running /\ g.message = f.message
  BY <1>1, ToTyped DEF Places
<1>4. /\ driver' = [driver EXCEPT ![p] = g] /\ session' = session
      /\ book'.binding = (IF Rejected THEN NoBinding ELSE book.binding)
      /\ book'.feedback = book.feedback
  BY <1>3, DrivenTyped DEF Reply, Records, Move, Book
<1>5. CASE ~Rejected
  <2>1. MindsBound(g)
    BY <1>1, <1>3 DEF MindsBound, Judging, JudgedIn
  <2>. QED
    BY <1>2, <1>4, <1>5, <2>1, GoesConverses
<1>6. CASE Rejected
  <2>1. book'.binding.act = None /\ book.binding.act = None
    BY <1>4, <1>6 DEF NoBinding, Rejected
  <2>2. MindsBound(g)'
    BY <1>1, <1>3, <2>1 DEF MindsBound, Judging, JudgedIn, IsOfBound
  <2>3. ActionsOf(Run)' = ActionsOf(Run)
    BY DEF Shrinks
  <2>4. book.feedback # Nothing => Has("result", book.feedback.call)
    BY <1>1 DEF Fits, DeliversFirst, Leaving
  <2>5. ~Unheard'
    BY <2>1 DEF Unheard
  <2>6. BoundHere' /\ SessionHolds' /\ OldAreTold'
    <3>1. \A a \in ActionsOf(Run) : \E i \in DOMAIN session : TellsEnd(i) /\ session[i].act = a
      BY <1>2, AllAreTold
    <3>. QED
      BY <1>4, <2>1, <2>3, <2>5, <3>1 DEF BoundHere, SessionHolds, OldAreTold, TellsEnd
  <2>7. ResultsMatch'
    BY <1>4, <2>1, <2>3, <2>4 DEF Conversing, ResultsMatch, Matches, IsOfBound, Has
  <2>. QED
    BY <1>1, <1>4, <2>2, <2>5, <2>6, <2>7, MoveConverses
<1>. QED
  BY <1>5, <1>6

-----------------------------------------------------------------------------
(* Steps around a turn.                                                    *)

LEMMA RunConverses ==
  ASSUME Driven, Conversing, Shrinks, NEW p \in Procs,
         RunLoop(p) \/ TimeOut(p) \/ Returned(p) \/ Invalid(p) \/ Ran(p)
  PROVE  Conversing'
<1>1. PICK f \in Frame : /\ f = driver[p] /\ Guided(f) /\ MindsBound(f) /\ (Unheard => MayHold(f))
                         /\ f.pc \in InRun => f.running
  BY ConversingFrame DEF Guided
<1>2. CASE RunLoop(p)
  <2>1. f.pc = "prompt" /\ f.running
    BY <1>1, <1>2 DEF RunLoop, Goes, Move, At, InRun
  <2>2. PICK g : g = To(p, "agent") /\ g.pc = "agent" /\ g.running /\ g.message = f.message
    BY <1>1, <2>1, ToTyped DEF Places
  <2>3. MindsBound(g) /\ (Unheard => MayHold(g))
    BY <1>1, <2>1, <2>2 DEF MindsBound, MayHold, Judging, JudgedIn, Leaving
  <2>. QED
    BY <1>2, <2>2, <2>3, RaiseConverses, TurnGoes DEF RunLoop, Goes
<1>3. CASE TimeOut(p)
  BY <1>3, RaisedMinds, GoesConverses DEF TimeOut
<1>4. CASE Returned(p)
  <2>1. f.running
    BY <1>1, <1>4 DEF Returned, Goes, Move, At, InRun
  <2>2. ASSUME NEW m, Goes(p, "returned", [To(p, "invalid") EXCEPT !.message = m]), ~Unheard,
               m.kind = "result" => m.act = None /\ book.binding.act = None
        PROVE  Conversing'
    <3>1. PICK h \in Frame : h = To(p, "invalid") /\ h.pc = "invalid" /\ h.running
      BY <1>1, <2>1, ToTyped DEF Places
    <3>2. PICK g : g = [h EXCEPT !.message = m]
      OBVIOUS
    <3>3. g.pc = "invalid" /\ g.running /\ g.message = m
      BY <3>1, <3>2 DEF Frame
    <3>4. MindsBound(g)
      BY <2>2, <3>3 DEF MindsBound, Judging, JudgedIn
    <3>. QED
      BY <2>2, <3>1, <3>2, <3>4, TurnGoes DEF Goes
  <2>3. CASE Rejected /\ Goes(p, "returned", [To(p, "invalid") EXCEPT !.message =
                                               Result(book.binding.call, None)])
    <3>1. book.binding.act = None /\ Result(book.binding.call, None).act = None
      BY <2>3 DEF Rejected, Result
    <3>. QED
      BY <2>2, <2>3, <3>1 DEF Unheard
  <2>4. CASE ~Unheard /\ Goes(p, "returned", [To(p, "invalid") EXCEPT !.message = Of("user")])
    BY <2>2, <2>4 DEF Of
  <2>5. CASE Goes(p, "returned", To(p, "ran"))
    BY <1>1, <2>1, <2>5, ToMinds, TurnGoes DEF InTask, AtTool, Goes
  <2>. QED
    BY <1>4, <2>3, <2>4, <2>5 DEF Returned, Unheard
<1>5. CASE Invalid(p)
  <2>1. f.pc = "invalid"
    BY <1>1, <1>5 DEF Invalid, Records, Move, At
  <2>2. ~Unheard /\ f.running
    BY <1>1, <2>1, HeardAtWork
  <2>3. PICK g : g = To(p, "reply") /\ g.pc = "reply" /\ g.running /\ g.message = f.message
    BY <1>1, <2>2, ToTyped DEF Places
  <2>4. MindsBound(g)
    BY <1>1, <2>1, <2>3 DEF MindsBound, Judging, JudgedIn
  <2>5. PICK b : b = [book EXCEPT !.invalid_proposals = book.invalid_proposals + 1]
    OBVIOUS
  <2>6. b.binding = book.binding /\ b.feedback = book.feedback
    BY <2>5, CountUp
  <2>. QED
    BY <1>5, <2>2, <2>3, <2>4, <2>5, <2>6, RaiseConverses, TurnGoes DEF Invalid, Records
<1>6. CASE Ran(p)
  <2>1. PICK b, g : /\ Records(p, "ran", b, g)
                    /\ \E m \in {book.feedback, Nothing} : b = [book EXCEPT !.feedback = m]
                    /\ g = AtRest \/ g = [AtRest EXCEPT !.pc = "continue", !.claims = TRUE]
    BY <1>6 DEF Ran
  <2>2. b.binding = book.binding /\ b.feedback \in {book.feedback, Nothing}
    BY <2>1, DrivenTyped DEF Book
  <2>3. MindsBound(g) /\ MayHold(g)
    BY <2>1, RestMinds
  <2>. QED
    BY <2>1, <2>2, <2>3, TurnGoes DEF Records
<1>. QED
  BY <1>2, <1>3, <1>4, <1>5, <1>6

-----------------------------------------------------------------------------
(* Methods that look, stop, recover and judge.                             *)

\* A driver that has the same act goes on to look after it, or to give up.
LEMMA OntoMinds ==
  ASSUME Driven, Conversing, Shrinks, NEW p \in Procs, NEW pc, NEW g,
         Move(p, pc, g), UNCHANGED session, book'.binding = book.binding,
         book'.feedback = book.feedback,
         g.running = driver[p].running, g.act = driver[p].act,
         g.running => g.pc \in InTask /\ (Unheard => MayHold(g)),
         ~g.running => /\ g.pc \notin {"invalid", "reply", "prompt", "agent"}
                       /\ Judging(g) \/ JudgedIn(g) => Judging(driver[p]) \/ JudgedIn(driver[p])
  PROVE  Conversing'
<1>1. MindsBound(driver[p])
  BY ConversingFrame
<1>2. MindsBound(g)
  BY <1>1, TaskMinds DEF MindsBound
<1>3. ~g.running => MayHold(g)
  BY DEF MayHold
<1>. QED
  BY <1>2, <1>3, TurnGoes

\* Who looks, recovers or judges in _run knows that the agent has heard.
LEMMA LooksHeard ==
  ASSUME Driven, Conversing, NEW p \in Procs, driver[p].running,
         driver[p].pc \in {"refresh", "observe", "recover", "replanned", "revise"}
  PROVE  ~Unheard
<1>1. PICK f \in Frame : f = driver[p] /\ Guided(f) /\ (Unheard => MayHold(f))
  BY ConversingFrame
<1>2. ~MayHold(f)
  BY <1>1 DEF MayHold, Leaving
<1>. QED
  BY <1>1, <1>2

LEMMA LooksConverse ==
  ASSUME Driven, Conversing, Shrinks, NEW p \in Procs, Refresh(p) \/ ObserveWorld(p)
  PROVE  Conversing'
<1>1. PICK f \in Frame : f = driver[p] /\ Guided(f) /\ f.next \in Places
  BY ConversingFrame
<1>2. f.pc \in {"refresh", "observe"}
  BY <1>1 DEF Refresh, ObserveWorld, Goes, Records, Move, At
<1>3. /\ f.running => ~Unheard /\ f.next \in {"revise", "final", "respond"}
      /\ ~f.running => f.next \in {"revise", "judge"}
  BY <1>1, <1>2, LooksHeard DEF Guided
<1>4. CASE Refresh(p)
  <2>1. PICK b : b = [book EXCEPT !.observation_count = book.observation_count + 1]
    OBVIOUS
  <2>2. b.binding = book.binding /\ b.feedback = book.feedback
    BY <2>1, CountUp
  <2>3. PICK g : /\ g = To(p, "observe") /\ g.pc = "observe" /\ g.running = f.running
                 /\ g.act = f.act /\ g.next = f.next
    BY <1>1, ToTyped DEF Places
  <2>4. Goes(p, "refresh", Raised(p)) \/ Records(p, "refresh", b, g)
    BY <1>4, <2>1, <2>3 DEF Refresh
  <2>5. ~g.running => (Judging(g) \/ JudgedIn(g) => Judging(f) \/ JudgedIn(f))
    BY <1>2, <2>3, <2>4, <1>1, <1>3 DEF Judging, JudgedIn
  <2>6. g.pc \in InTask
    BY <2>3 DEF InTask
  <2>. QED
    BY <1>1, <1>3, <2>2, <2>3, <2>4, <2>5, <2>6, RaiseConverses, OntoMinds DEF Goes, Records
<1>5. CASE ObserveWorld(p)
  <2>1. PICK g : /\ g = To(p, f.next) /\ g.pc = f.next /\ g.running = f.running
                 /\ g.act = f.act /\ g.next = f.next
    BY <1>1, ToTyped
  <2>2. /\ Move(p, "observe", Raised(p)) \/ Move(p, "observe", g)
        /\ UNCHANGED <<book, session>>
    BY <1>1, <1>5, <2>1 DEF ObserveWorld, Goes
  <2>3. ~g.running => (Judging(g) \/ JudgedIn(g) => Judging(f) \/ JudgedIn(f))
    BY <1>2, <1>3, <2>1 DEF Judging, JudgedIn
  <2>4. g.running => g.pc \in InTask
    BY <1>3, <2>1 DEF InTask
  <2>. QED
    BY <1>1, <1>3, <2>1, <2>2, <2>3, <2>4, RaiseConverses, OntoMinds
<1>. QED
  BY <1>4, <1>5

LEMMA StopsConverse ==
  ASSUME Driven, Conversing, Shrinks, NEW p \in Procs, Terminate(p) \/ Stop(p) \/ TickRun(p)
  PROVE  Conversing'
<1>1. PICK f \in Frame : f = driver[p] /\ Guided(f) /\ f.next \in Places /\ (Unheard => MayHold(f))
  BY ConversingFrame
<1>2. /\ f.pc \in {"terminate", "stop", "tick"}
      /\ f.running /\ Unheard => f.next = "ran"
      /\ f.next \in {"ran", "respond", "leave", "replanned"}
      /\ f.pc = "terminate" => f.next # "replanned"
      /\ f.running => f.next # "leave"
      /\ ~f.running => f.next \in {"leave", "replanned"}
  BY <1>1 DEF Terminate, Stop, TickRun, Goes, Move, At, Guided, MayHold, Leaving
<1>3. CASE Terminate(p) \/ Stop(p)
  <2>1. PICK g : /\ g.pc \in {"stop", "tick"} /\ g.running = f.running /\ g.act = f.act
                 /\ g.next = f.next
                 /\ Move(p, f.pc, g) /\ UNCHANGED <<book, session>>
                 /\ f.pc = "terminate" => g.pc = "stop"
    <3>1. PICK h \in Frame : /\ h = To(p, "stop") /\ h.pc = "stop" /\ h.running = f.running
                             /\ h.act = f.act /\ h.next = f.next
      BY <1>1, ToTyped DEF Places
    <3>2. \A r : LET g == [h EXCEPT !.reason = r]
                 IN g.pc = "stop" /\ g.running = f.running /\ g.act = f.act /\ g.next = f.next
      BY <3>1 DEF Frame
    <3>3. CASE Terminate(p)
      <4>1. PICK r : Move(p, "terminate", [h EXCEPT !.reason = r]) /\ UNCHANGED <<book, session>>
        BY <3>1, <3>3 DEF Terminate, Goes
      <4>2. f.pc = "terminate"
        BY <1>1, <4>1 DEF Move, At
      <4>. QED
        BY <3>2, <4>1, <4>2
    <3>4. CASE Stop(p)
      <4>1. Move(p, "stop", To(p, "tick")) /\ UNCHANGED <<book, session>> /\ f.pc = "stop"
        BY <1>1, <3>4 DEF Stop, Move, At
      <4>. QED
        BY <1>1, <4>1, ToTyped DEF Places
    <3>. QED
      BY <1>3, <3>3, <3>4
  <2>2. ~g.running => (Judging(g) \/ JudgedIn(g) => Judging(f) \/ JudgedIn(f))
    BY <1>2, <2>1 DEF Judging, JudgedIn
  <2>3. g.pc \in InTask /\ (g.running /\ Unheard => MayHold(g))
    BY <1>2, <2>1 DEF InTask, MayHold, Leaving
  <2>. QED
    BY <1>1, <2>1, <2>2, <2>3, OntoMinds
<1>4. CASE TickRun(p)
  <2>1. PICK g : g = To(p, f.next) /\ g.pc = f.next /\ g.running = f.running /\ g.act = f.act
    BY <1>1, ToTyped
  <2>2. Move(p, "tick", g) /\ UNCHANGED <<book, session>> /\ f.pc = "tick"
    BY <1>1, <1>4, <2>1 DEF TickRun, Goes, Move, At
  <2>3. ~g.running => (Judging(g) \/ JudgedIn(g) => Judging(f) \/ JudgedIn(f))
    BY <1>2, <2>1, <2>2 DEF Judging, JudgedIn
  <2>4. g.running => g.pc \in InTask /\ (Unheard => MayHold(g))
    BY <1>2, <2>1 DEF InTask, AtTool, MayHold
  <2>5. ~g.running => g.pc \notin {"invalid", "reply", "prompt", "agent"}
    BY <1>2, <2>1
  <2>. QED
    BY <1>1, <2>1, <2>2, <2>3, <2>4, <2>5, OntoMinds
<1>. QED
  BY <1>3, <1>4

\* Frames of recover, which stops and goes on.
LEMMA RecoverMinds ==
  ASSUME Driven, NEW p \in Procs, NEW pc \in Places
  PROVE  /\ \A n : LET g == [To(p, pc) EXCEPT !.next = n]
                   IN  g.pc = pc /\ g.running = driver[p].running /\ g.act = driver[p].act
                       /\ g.next = n
         /\ \A r, n : LET g == [To(p, pc) EXCEPT !.reason = r, !.next = n]
                      IN  g.pc = pc /\ g.running = driver[p].running /\ g.act = driver[p].act
                          /\ g.next = n
<1>1. PICK h \in Frame : /\ h = To(p, pc) /\ h.pc = pc /\ h.running = driver[p].running
                         /\ h.act = driver[p].act
  BY ToTyped
<1>2. \A n : LET g == [h EXCEPT !.next = n]
             IN  g.pc = h.pc /\ g.running = h.running /\ g.act = h.act /\ g.next = n
  BY <1>1 DEF Frame
<1>3. \A r, n : LET g == [h EXCEPT !.reason = r, !.next = n]
                IN  g.pc = h.pc /\ g.running = h.running /\ g.act = h.act /\ g.next = n
  BY <1>1 DEF Frame
<1>. QED
  BY <1>1, <1>2, <1>3

LEMMA RecoversConverse ==
  ASSUME Driven, Conversing, Shrinks, NEW p \in Procs, Recover(p) \/ Replanned(p) \/ ReviseRun(p)
  PROVE  Conversing'
<1>1. PICK f \in Frame : f = driver[p] /\ Guided(f)
  BY ConversingFrame
<1>2. f.pc \in {"recover", "replanned", "revise"}
  BY <1>1 DEF Recover, Replanned, ReviseRun, Goes, Records, Move, At
<1>3. (f.running => ~Unheard) /\ (~f.running => JudgedIn(f))
  BY <1>1, <1>2, LooksHeard DEF JudgedIn
<1>4. PICK b : b = [book EXCEPT !.replans = book.replans + 1]
  OBVIOUS
<1>5. b.binding = book.binding /\ b.feedback = book.feedback
  BY <1>4, CountUp
<1>6. PICK g : /\ g.running = f.running /\ g.act = f.act
               /\ \/ g.pc = "terminate" /\ g.next \in {"respond", "leave"}
                  \/ g.pc = "stop" /\ g.next = "replanned"
                  \/ g.pc = "refresh" /\ g.next = "revise"
                  \/ g.pc = GivenUp(p) \/ g.pc = GoneOn(p)
               /\ \/ \E pc : Goes(p, pc, g)
                  \/ \E pc : Records(p, pc, b, g)
                  \/ \E pc : Move(p, pc, g) /\ UNCHANGED <<book, session>>
                  \/ \E pc : Move(p, pc, Raised(p)) /\ UNCHANGED <<book, session>>
  <2>1. GivenUp(p) \in {"respond", "leave"} /\ GoneOn(p) \in {"respond", "prepare"}
    BY DEF GivenUp, GoneOn
  <2>2. CASE Recover(p)
    <3>1. \/ Goes(p, "recover", [To(p, "terminate") EXCEPT !.reason = "failure", !.next = GivenUp(p)])
          \/ Records(p, "recover", b, [To(p, "stop") EXCEPT !.reason = "replan", !.next = "replanned"])
      BY <1>4, <2>2 DEF Recover
    <3>2. PICK g : g = [To(p, "terminate") EXCEPT !.reason = "failure", !.next = GivenUp(p)]
      OBVIOUS
    <3>3. PICK h : h = [To(p, "stop") EXCEPT !.reason = "replan", !.next = "replanned"]
      OBVIOUS
    <3>4. g.pc = "terminate" /\ g.running = f.running /\ g.act = f.act /\ g.next = GivenUp(p)
      BY <1>1, <3>2, RecoverMinds DEF Places
    <3>5. h.pc = "stop" /\ h.running = f.running /\ h.act = f.act /\ h.next = "replanned"
      BY <1>1, <3>3, RecoverMinds DEF Places
    <3>. QED
      BY <2>1, <3>1, <3>2, <3>3, <3>4, <3>5
  <2>3. CASE Replanned(p)
    <3>1. \/ Goes(p, "replanned", To(p, GivenUp(p)))
          \/ Goes(p, "replanned", [To(p, "refresh") EXCEPT !.next = "revise"])
      BY <2>3 DEF Replanned
    <3>2. PICK g : g = To(p, GivenUp(p))
      OBVIOUS
    <3>3. PICK h : h = [To(p, "refresh") EXCEPT !.next = "revise"]
      OBVIOUS
    <3>4. g.pc = GivenUp(p) /\ g.running = f.running /\ g.act = f.act
      BY <1>1, <2>1, <3>2, ToTyped DEF Places
    <3>5. h.pc = "refresh" /\ h.running = f.running /\ h.act = f.act /\ h.next = "revise"
      BY <1>1, <3>3, RecoverMinds DEF Places
    <3>. QED
      BY <3>1, <3>2, <3>3, <3>4, <3>5
  <2>4. CASE ReviseRun(p)
    <3>1. /\ Move(p, "revise", To(p, GoneOn(p))) \/ Move(p, "revise", Raised(p))
          /\ UNCHANGED <<book, session>>
      BY <2>4 DEF ReviseRun, Goes
    <3>. QED
      BY <1>1, <2>1, <3>1, ToTyped DEF Places
  <2>. QED
    BY <2>2, <2>3, <2>4
<1>7. ~g.running => (Judging(g) \/ JudgedIn(g) => Judging(f) \/ JudgedIn(f))
  BY <1>3, <1>6
<1>8. /\ g.running => g.pc \in InTask
      /\ ~g.running => g.pc \notin {"invalid", "reply", "prompt", "agent"}
  BY <1>1, <1>6 DEF InTask, GivenUp, GoneOn
<1>. QED
  BY <1>1, <1>3, <1>5, <1>6, <1>7, <1>8, RaiseConverses, OntoMinds DEF Goes, Records

LEMMA JudgesConverse ==
  ASSUME Driven, Conversing, Shrinks, NEW p \in Procs, Judge(p) \/ JudgedBefore(p) \/ Leave(p)
  PROVE  Conversing'
<1>1. PICK f \in Frame : f = driver[p] /\ Guided(f)
  BY ConversingFrame
<1>2. CASE Judge(p) \/ JudgedBefore(p)
  <2>1. f.pc = "judge"
    BY <1>1, <1>2 DEF Judge, JudgedBefore, At
  <2>2. ~f.running /\ Judging(f)
    BY <1>1, <2>1 DEF Guided, OutOfRun, Judging
  <2>3. book'.binding = book.binding /\ book'.feedback = book.feedback /\ session' = session
    BY <1>2, DrivenTyped DEF Judge, JudgedBefore, Goes, Book
  <2>4. \/ Move(p, "judge", Raised(p))
        \/ \E to \in {"recover", "prepare"} : Move(p, "judge", To(p, to))
    BY <1>2 DEF Judge, JudgedBefore, Judged, Goes
  <2>5. ASSUME NEW to \in {"recover", "prepare"}, Move(p, "judge", To(p, to))
        PROVE  Conversing'
    <3>1. PICK g : g = To(p, to) /\ g.pc = to /\ g.running = f.running /\ g.act = f.act
      BY <1>1, ToTyped DEF Places
    <3>. QED
      BY <1>1, <2>2, <2>3, <2>5, <3>1, OntoMinds
  <2>. QED
    BY <2>3, <2>4, <2>5, RaiseConverses
<1>3. CASE Leave(p)
  BY <1>3, RestConverses DEF Leave
<1>. QED
  BY <1>2, <1>3

\* The outbox gets the end of the bound action.
LEMMA PrepareConverses ==
  ASSUME Driven, Conversing, Shrinks, NEW p \in Procs, Prepare(p)
  PROVE  Conversing'
<1>1. PICK f \in Frame : f = driver[p] /\ Guided(f) /\ MindsBound(f) /\ Fits(f) /\ f.claims
  BY ConversingFrame DEF Prepare, Records, Move, At
<1>2. f.pc = "prepare"
  BY <1>1 DEF Prepare, Records, Move, At
<1>3. ~f.running /\ JudgedIn(f)
  BY <1>1, <1>2 DEF Guided, OutOfRun, JudgedIn
<1>4. f.act = book.binding.act /\ book.binding.act # None
  BY <1>1, <1>3 DEF MindsBound, Fits, LooksAfter
<1>5. PICK g : g = To(p, "deliver") /\ g.pc = "deliver" /\ ~g.running
  BY <1>1, <1>3, ToTyped DEF Places
<1>6. /\ driver' = [driver EXCEPT ![p] = g] /\ session' = session
      /\ book'.binding = book.binding
      /\ book'.feedback = Result(book.binding.call, book.binding.act)
  BY <1>1, <1>4, <1>5, DrivenTyped DEF Prepare, Records, Move, Book
<1>7. BoundHere' /\ OldAreTold' /\ SessionHolds' /\ (Unheard' <=> Unheard)
  BY <1>6 DEF Conversing, BoundHere, OldAreTold, TellsEnd, SessionHolds, Unheard, Shrinks,
       LastKind, Known, CallId, Has
<1>8. ResultsMatch'
  <2>1. Matches(book.feedback)' /\ IsOfBound(book.feedback)'
    BY <1>4, <1>6, <1>7 DEF Matches, IsOfBound, Result, BoundHere
  <2>2. \A i \in DOMAIN session' : session'[i].kind = "result" => Matches(session[i])'
    BY <1>6 DEF Conversing, ResultsMatch, Matches, Shrinks
  <2>. QED
    BY <2>1, <2>2 DEF ResultsMatch
<1>9. MindsBound(g)' /\ MayHold(g)
  BY <1>5 DEF MindsBound, MayHold, Judging, JudgedIn
<1>. QED
  BY <1>1, <1>6, <1>7, <1>8, <1>9, MoveConverses

-----------------------------------------------------------------------------
(* The outbox, and methods that begin.                                     *)

\* A driver enters _run with the outbox, or with something else when the agent
\* has heard.
LEMMA RunningMinds ==
  ASSUME Driven, NEW p \in Procs, NEW m,
         m = Nothing \/ (m.kind = "result" /\ IsOfBound(m)) \/ (m.kind # "result" /\ ~Unheard)
  PROVE  /\ MindsBound(Running(p, m)) /\ (Unheard => MayHold(Running(p, m)))
         /\ \A d : LET g == [Running(p, m) EXCEPT !.delivering = d]
                   IN  MindsBound(g) /\ (Unheard => MayHold(g))
         /\ LET g == [Running(p, m) EXCEPT !.claims = TRUE]
            IN  MindsBound(g) /\ (Unheard => MayHold(g))
<1>1. PICK h \in Frame : h = To(p, "prompt") /\ h.pc = "prompt"
  BY ToTyped DEF Places
<1>2. PICK r : r = [h EXCEPT !.running = TRUE, !.message = m]
  OBVIOUS
<1>3. Running(p, m) = r
  BY <1>1, <1>2 DEF Running
<1>4. ASSUME NEW g, g.pc = "prompt", g.running, g.message = m
      PROVE  MindsBound(g) /\ (Unheard => MayHold(g))
  BY <1>4 DEF MindsBound, MayHold, Judging, JudgedIn, IsOfBound, Result, Nothing
<1>5. r.pc = "prompt" /\ r.running /\ r.message = m
  BY <1>1, <1>2 DEF Frame
<1>6. \A d : LET g == [r EXCEPT !.delivering = d]
             IN g.pc = "prompt" /\ g.running /\ g.message = m
  BY <1>1, <1>2 DEF Frame
<1>7. LET g == [r EXCEPT !.claims = TRUE] IN g.pc = "prompt" /\ g.running /\ g.message = m
  BY <1>1, <1>2 DEF Frame
<1>. QED
  BY <1>3, <1>4, <1>5, <1>6, <1>7

LEMMA NothingIsNone ==
  /\ Nothing.kind # "result" /\ FirstMessage.kind # "result"
  /\ Of("created").kind # "result"
  BY DEF Nothing, FirstMessage, Of

\* A run without a session has told nothing, and has nothing to tell.
LEMMA NoSession ==
  ASSUME Driven, session = <<>>
  PROVE  ~Unheard /\ book.feedback = Nothing /\ <<Of("created")>> = Append(session, Of("created"))
<1>1. ~BoundCallKnown
  BY DEF BoundCallKnown
<1>2. book.binding.act = None
  BY <1>1 DEF Driven, Accounts, BindingOK
<1>3. book.feedback = Nothing
  BY DEF Driven, Accounts, OutboxOK
<1>. QED
  BY <1>2, <1>3 DEF Unheard

LEMMA ContinuesConverse ==
  ASSUME Driven, Conversing, Shrinks, NEW p \in Procs, Deliver(p) \/ ContinueExecution(p)
  PROVE  Conversing'
<1>1. PICK f \in Frame :
        /\ f = driver[p] /\ Guided(f) /\ Fits(f)
        /\ f.pc \notin {"rest", "leave", "terminate", "stop", "tick"} => f.claims
  BY ConversingFrame
<1>2. CASE Deliver(p)
  <2>1. f.pc = "deliver"
    BY <1>1, <1>2 DEF Deliver, Goes, Move, At
  <2>2. book.feedback # Nothing /\ book.feedback.kind = "result"
    BY <1>1, <2>1 DEF Fits, LooksAfter, Driven, Accounts, OutboxOK
  <2>3. PICK m : m = IF Has("result", book.feedback.call) THEN Nothing ELSE book.feedback
    OBVIOUS
  <2>4. m = Nothing \/ (m.kind = "result" /\ IsOfBound(m))
    BY <2>2, <2>3 DEF Conversing, ResultsMatch
  <2>5. PICK g : g = [Running(p, m) EXCEPT !.delivering = book.feedback.call]
    OBVIOUS
  <2>6. MindsBound(g) /\ (Unheard => MayHold(g))
    BY <2>4, <2>5, RunningMinds
  <2>7. Goes(p, "deliver", g)
    BY <1>2, <2>3, <2>5 DEF Deliver
  <2>. QED
    BY <2>6, <2>7, TurnGoes DEF Goes
<1>3. CASE ContinueExecution(p)
  <2>1. f.pc = "continue"
    BY <1>1, <1>3 DEF ContinueExecution, Goes, Move, At
  <2>2. ~f.running
    BY <1>1, <2>1 DEF Guided, OutOfRun
  <2>3. CASE Goes(p, "continue", To(p, "deliver"))
    <3>1. PICK g : g = To(p, "deliver") /\ g.pc = "deliver" /\ ~g.running
      BY <1>1, <2>2, ToTyped DEF Places
    <3>2. MindsBound(g) /\ MayHold(g)
      BY <3>1 DEF MindsBound, MayHold, Judging, JudgedIn
    <3>. QED
      BY <2>3, <3>1, <3>2, TurnGoes DEF Goes
  <2>4. CASE Goes(p, "continue", [To(p, "refresh") EXCEPT !.next = "judge", !.act = book.binding.act])
    <3>1. PICK h \in Frame : h = To(p, "refresh") /\ h.pc = "refresh" /\ ~h.running
      BY <1>1, <2>2, ToTyped DEF Places
    <3>2. PICK g : g = [h EXCEPT !.next = "judge", !.act = book.binding.act]
      OBVIOUS
    <3>3. g.pc = "refresh" /\ ~g.running /\ g.act = book.binding.act
      BY <3>1, <3>2 DEF Frame
    <3>4. MindsBound(g) /\ MayHold(g)
      BY <3>3 DEF MindsBound, MayHold
    <3>. QED
      BY <2>4, <3>1, <3>2, <3>4, TurnGoes DEF Goes
  <2>5. CASE Goes(p, "continue", AtRest)
    BY <2>5, RestMinds, TurnGoes DEF Goes
  <2>. QED
    BY <1>3, <2>3, <2>4, <2>5 DEF ContinueExecution
<1>. QED
  BY <1>2, <1>3

LEMMA ResumedConverses ==
  ASSUME Driven, Conversing, Shrinks, NEW p \in Procs, Resumed(p)
  PROVE  Conversing'
<1>1. PICK f \in Frame : f = driver[p] /\ Guided(f) /\ f.pc = "resumed" /\ ~f.running
  BY ConversingFrame DEF Resumed, Rest, Goes, Tells, Move, At, Guided, OutOfRun
<1>2. \A pc \in {"deliver", "continue"} : MindsBound(To(p, pc)) /\ MayHold(To(p, pc))
  <2>. SUFFICES ASSUME NEW pc \in {"deliver", "continue"}
                PROVE  MindsBound(To(p, pc)) /\ MayHold(To(p, pc))
    OBVIOUS
  <2>1. PICK g : g = To(p, pc) /\ g.pc = pc /\ ~g.running
    BY <1>1, ToTyped DEF Places
  <2>2. MindsBound(g) /\ MayHold(g)
    BY <2>1 DEF MindsBound, MayHold, Judging, JudgedIn
  <2>. QED
    BY <2>1, <2>2
<1>3. CASE Rest(p, "resumed")
  BY <1>3, RestConverses
<1>4. CASE Goes(p, "resumed", To(p, "deliver")) \/ Goes(p, "resumed", To(p, "continue"))
  BY <1>2, <1>4, TurnGoes DEF Goes
<1>5. CASE Tells(p, "resumed", Receipt(book.binding.call, book.binding.act), To(p, "continue"))
  BY <1>2, <1>5, TurnTells DEF Receipt
<1>6. CASE /\ session = <<>> /\ Move(p, "resumed", Running(p, FirstMessage))
           /\ session' = <<Of("created")>> /\ UNCHANGED book
  <2>1. ~Unheard /\ session' = Append(session, Of("created"))
    BY <1>6, NoSession
  <2>2. MindsBound(Running(p, FirstMessage))
    BY <2>1, RunningMinds, NothingIsNone
  <2>. QED
    BY <1>6, <2>1, <2>2, NothingIsNone, TellsConverses DEF Move
<1>7. ASSUME ~Bound, NEW m \in {Nothing, FirstMessage}, Goes(p, "resumed", Running(p, m))
      PROVE  Conversing'
  <2>1. ~Unheard
    BY <1>7 DEF Unheard, Driven, Accounts, BindingOK
  <2>2. MindsBound(Running(p, m))
    BY <2>1, RunningMinds, NothingIsNone
  <2>. QED
    BY <1>7, <2>1, <2>2, TurnGoes DEF Goes
<1>. QED
  BY <1>3, <1>4, <1>5, <1>6, <1>7 DEF Resumed, OpeningMessage, vars

LEMMA BeginConverses ==
  ASSUME Driven, Conversing, Shrinks, NEW p \in Procs, Begin(p) \/ Die(p)
  PROVE  Conversing'
<1>1. CASE Start(p)
  <2>1. ~Unheard /\ session' = Append(session, Of("created"))
    BY <1>1, NoSession DEF Start
  <2>2. PICK g : g = [Running(p, FirstMessage) EXCEPT !.claims = TRUE]
    OBVIOUS
  <2>3. MindsBound(g)
    BY <2>1, <2>2, RunningMinds, NothingIsNone
  <2>4. driver' = [driver EXCEPT ![p] = g] /\ UNCHANGED book
    BY <1>1, <2>2 DEF Start, Claim, Move
  <2>. QED
    BY <2>1, <2>3, <2>4, NothingIsNone, TellsConverses
<1>2. CASE ReceiveFeedback(p) \/ Resume(p)
  <2>1. PICK pc \in {"continue", "resumed"} :
          Move(p, "rest", [To(p, pc) EXCEPT !.claims = TRUE]) /\ UNCHANGED <<book, session>>
    BY <1>2 DEF ReceiveFeedback, Resume, Claim
  <2>2. PICK f \in Frame : f = driver[p] /\ Guided(f)
    BY ConversingFrame
  <2>3. ~f.running
    BY <2>1, <2>2 DEF Move, At, Guided, OutOfRun
  <2>4. PICK h \in Frame : h = To(p, pc) /\ h.pc = pc /\ ~h.running
    BY <2>2, <2>3, ToTyped DEF Places
  <2>5. PICK g : g = [h EXCEPT !.claims = TRUE]
    OBVIOUS
  <2>6. g.pc = pc /\ ~g.running
    BY <2>4, <2>5 DEF Frame
  <2>7. MindsBound(g) /\ MayHold(g)
    BY <2>6 DEF MindsBound, MayHold, Judging, JudgedIn
  <2>. QED
    BY <2>1, <2>4, <2>5, <2>7, TurnGoes
<1>3. CASE Cancel(p) \/ CancelMock(p)
  <2>1. PICK g : Goes(p, "rest", g) /\ MindsBound(g) /\ MayHold(g)
    <3>1. PICK pc \in {"stop", "terminate"} : Goes(p, "rest", Canceling(pc))
      BY <1>3 DEF Cancel, CancelMock, Canceling
    <3>. QED
      BY <3>1, RestMinds
  <2>. QED
    BY <2>1, TurnGoes DEF Goes
<1>4. CASE Die(p)
  BY <1>4, RestMinds, GoesConverses DEF Die
<1>. QED
  BY <1>1, <1>2, <1>3, <1>4 DEF Begin

LEMMA OthersConverse ==
  ASSUME Driven, Conversing, Shrinks, UNCHANGED driving
  PROVE  Conversing'
<1>1. BoundHere' /\ ResultsMatch' /\ OldAreTold' /\ SessionHolds' /\ (Unheard' <=> Unheard)
  BY BooksStay DEF driving
<1>2. \A q \in Procs : MindsBound(driver[q])'
  BY DEF driving, Conversing, MindsBound, Judging, JudgedIn, IsOfBound
<1>3. \A q \in Procs : driver'[q].claims /\ Unheard' => MayHold(driver[q])'
  BY <1>1 DEF driving, Conversing, MayHold, Leaving
<1>. QED
  BY <1>1, <1>2, <1>3 DEF Conversing

-----------------------------------------------------------------------------
(* Conversing is inductive.                                                *)

LEMMA DriveConverses ==
  ASSUME Driven, Conversing, Shrinks, NEW p \in Procs, Drive(p), ~Propose(p)
  PROVE  Conversing'
<1>1. CASE Turn(p)
  BY <1>1, PromptConverses, ResumeTurnConverses, ModelConverses, ModelBreaksOffConverses,
     ToolConverses, FinalConverses
  DEF Turn
<1>2. CASE ~Turn(p)
  BY <1>2, RunConverses, ReplyConverses, LooksConverse, StopsConverse, RecoversConverse,
     JudgesConverse, PrepareConverses, ContinuesConverse, ResumedConverses DEF Drive
<1>. QED
  BY <1>1, <1>2

LEMMA ConversingStep ==
  ASSUME Serial, Driven, Conversing, [RuntimeNext]_allvars
  PROVE  Conversing'
<1>1. CASE \E p \in Procs : Propose(p)
  BY <1>1, ProposeConverses
<1>2. CASE ~\E p \in Procs : Propose(p)
  <2>1. Shrinks
    BY <1>2, PendingShrinks
  <2>2. CASE UNCHANGED driving
    BY <2>1, <2>2, OthersConverse
  <2>3. ASSUME NEW p \in Procs, Begin(p) \/ Drive(p) \/ Die(p)
        PROVE  Conversing'
    BY <1>2, <2>1, <2>3, BeginConverses, DriveConverses
  <2>. QED
    BY <2>2, <2>3 DEF RuntimeNext, allvars
<1>. QED
  BY <1>1, <1>2

LEMMA InitConversing ==
  ASSUME DriverInit
  PROVE  Conversing /\ ActionsOf(Run) = {} /\ session = <<>>
<1>1. action = [a \in Actions |-> NewAction(None, 0, 0)]
  BY DEF DriverInit, Init
<1>2. ActionsOf(Run) = {}
  <2>1. ASSUME NEW a \in Actions
        PROVE  a \notin ActionsOf(Run)
    <3>1. action[a].run_id = None
      BY <1>1, NewActionQueued
    <3>. QED
      BY <3>1, ConstantFacts, DriverFacts DEF ActionsOf
  <2>. QED
    BY <2>1 DEF ActionsOf
<1>3. /\ session = <<>> /\ book.binding.act = None /\ book.feedback = Nothing
      /\ driver = [p \in Procs |-> AtRest]
  BY DEF DriverInit, NewBook, NoBinding
<1>4. BoundHere /\ ResultsMatch /\ OldAreTold /\ SessionHolds
  BY <1>2, <1>3 DEF BoundHere, ResultsMatch, OldAreTold, SessionHolds, Unheard
<1>5. \A p \in Procs : MindsBound(driver[p]) /\ (driver[p].claims /\ Unheard => MayHold(driver[p]))
  BY <1>3, RestMinds
<1>. QED
  BY <1>2, <1>3, <1>4, <1>5 DEF Conversing

\* Conversing is inductive on top of Serial and Driven.
THEOREM ConversingInvariant == RuntimeSpec => [](Serial /\ Driven /\ Conversing)
<1>1. DriverInit => Serial /\ Driven /\ Conversing
  BY InitDriven, InitConversing
<1>2. Serial /\ Driven /\ Conversing /\ [RuntimeNext]_allvars => (Serial /\ Driven /\ Conversing)'
  BY DrivenStep, SerialStep, ConversingStep
<1>. QED
  BY <1>1, <1>2, PTL DEF RuntimeSpec

-----------------------------------------------------------------------------
(* What a step changes of the dialogue.                                    *)

\* The session grows by a message, by events that are no results, or not.
LEMMA SessionMoves ==
  ASSUME Driven, [RuntimeNext]_allvars
  PROVE  \/ session' = session
         \/ \E event : event.kind # "result" /\ session' = Append(session, event)
         \/ \E p \in Procs : Prompt(p)
<1>. DEFINE Goal == \/ session' = session
                    \/ \E event : event.kind # "result" /\ session' = Append(session, event)
                    \/ \E p \in Procs : Prompt(p)
<1>1. \A kind : kind # "result" => Of(kind).kind # "result"
  BY DEF Of
<1>2. ASSUME NEW event, event.kind # "result", session' = Append(session, event)
      PROVE  Goal
  BY <1>2
<1>3. "result" \notin Tools
  BY DriverAssumption DEF DriverAssumption
<1>4. ASSUME NEW p \in Procs, Turn(p)
      PROVE  Goal
  <2>1. CASE ModelAnswers(p) \/ Conclude(p) \/ Respond(p)
    <3>1. \/ session' = session
          \/ \E kind : kind # "result" /\ session' = Append(session, Of(kind))
      BY <1>3, <2>1 DEF ModelAnswers, Conclude, Respond, Tells, Goes
    <3>. QED
      BY <1>1, <1>2, <3>1
  <2>2. CASE Receive(p)
    <3>1. session' = Append(session, Receipt(CallId, book.binding.act))
      BY <2>2 DEF Receive, Tells
    <3>. QED
      BY <1>2, <3>1 DEF Receipt
  <2>3. CASE Prompt(p)
    BY <2>3
  <2>. QED
    BY <1>4, <2>1, <2>2, <2>3
    DEF Turn, ResumeTurn, TakeModelCall, ModelFails, ModelBreaksOff, Propose, Repeated, DispatchNext,
        FinishTask, VerifyFinal, ObserveTool, Goes, Rest, Records
<1>5. ASSUME NEW p \in Procs, Resumed(p) \/ Start(p)
      PROVE  Goal
  <2>1. session = <<>> => <<Of("created")>> = Append(session, Of("created"))
    BY NoSession
  <2>2. \/ session' = session
        \/ session' = Append(session, Of("created"))
        \/ session' = Append(session, Receipt(book.binding.call, book.binding.act))
    BY <1>5, <2>1 DEF Resumed, Start, Tells, Goes, Rest
  <2>. QED
    BY <1>1, <1>2, <2>2 DEF Receipt
<1>6. ASSUME NEW p \in Procs, Drive(p), ~Turn(p), ~Resumed(p)
      PROVE  session' = session
  BY <1>6
  DEF Drive, Refresh, ObserveWorld, Terminate, Stop, TickRun, Recover, Replanned, ReviseRun,
      RunLoop, TimeOut, Returned, Invalid, Reply, Deliver, Ran, ContinueExecution, Judge,
      JudgedBefore, Prepare, Leave, Goes, Rest, Records
<1>7. ASSUME NEW p \in Procs, Begin(p) \/ Die(p), ~Start(p)
      PROVE  session' = session
  BY <1>7 DEF Begin, ReceiveFeedback, Resume, Cancel, CancelMock, Goes, Die
<1>8. UNCHANGED driving => session' = session
  BY DEF driving
<1>. QED
  BY <1>4, <1>5, <1>6, <1>7, <1>8 DEF RuntimeNext, allvars

\* Only the bound action is judged, and a verdict stays.
LEMMA VerdictMoves ==
  ASSUME Driven, Conversing, [RuntimeNext]_allvars
  PROVE  /\ VerdictsKept
         /\ \A a \in Actions : a # book.binding.act => book'.verdict[a] = book.verdict[a]
         /\ (\E p \in Procs : Prompt(p) \/ Propose(p)) => book'.verdict = book.verdict
<1>1. book \in Book
  BY DrivenTyped
<1>2. book'.verdict = book.verdict =>
        /\ VerdictsKept
        /\ \A a \in Actions : a # book.binding.act => book'.verdict[a] = book.verdict[a]
  BY DEF VerdictsKept
<1>3. ASSUME NEW p \in Procs, Judge(p)
      PROVE  /\ VerdictsKept
             /\ \A a \in Actions : a # book.binding.act => book'.verdict[a] = book.verdict[a]
             /\ driver[p].pc = "judge"
  <2>1. PICK f \in Frame : f = driver[p] /\ MindsBound(f) /\ Guided(f)
    BY ConversingFrame
  <2>2. f.pc = "judge"
    BY <1>3, <2>1 DEF Judge, Goes, Move, At
  <2>3. f.act = book.binding.act
    BY <2>1, <2>2 DEF MindsBound, Judging, Guided, OutOfRun
  <2>4. CASE book' = book
    BY <1>2, <2>1, <2>2, <2>4
  <2>5. ASSUME NEW verdict \in Verdicts, book' = [book EXCEPT !.verdict[f.act] = verdict]
        PROVE  /\ VerdictsKept
               /\ \A a \in Actions : a # book.binding.act => book'.verdict[a] = book.verdict[a]
    <3>1. \A a \in Actions : a # f.act => book'.verdict[a] = book.verdict[a]
      BY <1>1, <2>5 DEF Book
    <3>2. f.act \in Actions => book'.verdict[f.act] = verdict
      BY <1>1, <2>5 DEF Book
    <3>3. verdict # "none"
      BY DriverAssumption DEF DriverAssumption
    <3>. QED
      BY <2>3, <3>1, <3>2, <3>3 DEF VerdictsKept
  <2>. QED
    BY <1>3, <2>1, <2>2, <2>4, <2>5 DEF Judge, Goes
<1>4. ASSUME NEW p \in Procs, Drive(p), ~Judge(p)
      PROVE  book'.verdict = book.verdict
  <2>1. ASSUME NEW q \in Procs, Turn(q)
        PROVE  book'.verdict = book.verdict
    BY <1>1, <2>1
    DEF Turn, Book, Prompt, ResumeTurn, TakeModelCall, ModelFails, ModelAnswers, ModelBreaksOff,
        Propose, Repeated, DispatchNext, Receive, FinishTask, VerifyFinal, Conclude, Respond, ObserveTool,
        Goes, Rest, Tells, Records
  <2>2. CASE ~Turn(p)
    BY <1>1, <1>4, <2>2
    DEF Drive, Book, Refresh, ObserveWorld, Terminate, Stop, TickRun, Recover, Replanned, ReviseRun,
        RunLoop, TimeOut, Returned, Invalid, Reply, Deliver, Ran, ContinueExecution, JudgedBefore,
        Prepare, Resumed, Leave, Goes, Rest, Tells, Records
  <2>. QED
    BY <1>4, <2>1, <2>2
<1>5. ASSUME NEW p \in Procs, Begin(p) \/ Die(p)
      PROVE  UNCHANGED book
  BY <1>5 DEF Begin, Start, ReceiveFeedback, Resume, Cancel, CancelMock, Goes, Die
<1>6. UNCHANGED driving => UNCHANGED book
  BY DEF driving
<1>7. ASSUME NEW p \in Procs, Prompt(p) \/ Propose(p)
      PROVE  book'.verdict = book.verdict
  BY <1>4, <1>7 DEF Drive, Turn, Judge, Prompt, Propose, Goes, Tells, Records, Move, At
<1>. QED
  BY <1>2, <1>3, <1>4, <1>5, <1>6, <1>7 DEF RuntimeNext, allvars

-----------------------------------------------------------------------------
(* Runtime implements Dialogue.                                            *)

DialogueStep == [Agent!Next]_(Agent!vars)

\* What tells no end is no letter.
LEMMA NothingTold ==
  ASSUME Driven, \/ session' = session
                 \/ \E event : /\ ~(event.kind = "result" /\ event.act # None)
                               /\ session' = Append(session, event)
  PROVE  Letters' = Letters
<1>1. session \in Seq(SessionEvent)
  BY DrivenTyped
<1>2. CASE session' = session
  BY <1>2 DEF Letters, TellsEnd
<1>3. ASSUME NEW event, ~(event.kind = "result" /\ event.act # None),
             session' = Append(session, event)
      PROVE  Letters' = Letters
  <2>1. \A i \in DOMAIN session : i \in DOMAIN session' /\ session'[i] = session[i]
    BY <1>1, <1>3
  <2>2. \A i \in DOMAIN session' : i \in DOMAIN session \/ session'[i] = event
    BY <1>1, <1>3
  <2>3. \A i : (i \in DOMAIN session' /\ TellsEnd(i)') <=> (i \in DOMAIN session /\ TellsEnd(i))
    BY <1>3, <2>1, <2>2 DEF TellsEnd
  <2>. QED
    BY <2>1, <2>3 DEF Letters
<1>. QED
  BY <1>2, <1>3

\* The agent has heard of what the session tells.
LEMMA HeardIs ==
  ASSUME NEW a
  PROVE  Agent!Heard(a) <=> \E i \in DOMAIN session : TellsEnd(i) /\ session[i].act = a
<1>1. ASSUME NEW i \in DOMAIN session, TellsEnd(i), session[i].act = a
      PROVE  \E letter \in Letters : letter[2] = a
  <2>1. <<i, a>> \in Letters
    BY <1>1 DEF Letters
  <2>2. <<i, a>>[2] = a
    OBVIOUS
  <2>. QED
    BY <2>1, <2>2
<1>2. ASSUME NEW letter \in Letters, letter[2] = a
      PROVE  \E i \in DOMAIN session : TellsEnd(i) /\ session[i].act = a
  <2>1. PICK i \in DOMAIN session : TellsEnd(i) /\ letter = <<i, session[i].act>>
    BY DEF Letters
  <2>2. letter[2] = session[i].act
    BY <2>1
  <2>. QED
    BY <1>2, <2>1, <2>2
<1>. QED
  BY <1>1, <1>2 DEF Agent!Heard

\* Ends come one at a time, to the bound action.
LEMMA EndsStep ==
  ASSUME Driven, Attended, Conversing, Shrinks, [RuntimeNext]_allvars, Letters' = Letters
  PROVE  DialogueStep
<1>1. VerdictsKept /\ \A a \in Actions : a # book.binding.act => book'.verdict[a] = book.verdict[a]
  BY VerdictMoves
<1>2. ActionsOf(Run)' = ActionsOf(Run) /\ EndsKept
  BY DEF Shrinks
<1>3. ASSUME NEW a \in Concluded
      PROVE  a \in Concluded'
  <2>1. a \in Actions /\ Settled(a) /\ a \in ActionsOf(Run)
    BY <1>3 DEF Concluded, ActionsOf
  <2>2. Settled(a)'
    BY <1>1, <1>2, <2>1, SettledStays
  <2>. QED
    BY <1>2, <2>1, <2>2 DEF Concluded
<1>4. ASSUME NEW a \in Concluded', a \notin Concluded
      PROVE  a = book.binding.act
  <2>1. a \in Actions /\ a \in ActionsOf(Run) /\ Settled(a)' /\ ~Settled(a)
    BY <1>2, <1>4 DEF Concluded, ActionsOf
  <2>2. CASE action[a].status \notin TERMINAL
    BY <2>1, <2>2 DEF Attended, OneUnderWay, Pending
  <2>3. CASE action[a].status \in TERMINAL
    <3>1. action'[a].status = action[a].status
      BY <1>2, <2>1, <2>3 DEF EndsKept
    <3>2. book'.verdict[a] # book.verdict[a]
      BY <2>1, <2>3, <3>1 DEF Settled
    <3>. QED
      BY <1>1, <2>1, <3>2
  <2>. QED
    BY <2>2, <2>3
<1>5. CASE Concluded' = Concluded
  BY <1>2, <1>5 DEF DialogueStep, Agent!vars
<1>6. CASE Concluded' # Concluded
  <2>1. PICK a \in Concluded' : a \notin Concluded
    BY <1>3, <1>6
  <2>2. a = book.binding.act /\ a \in ActionsOf(Run) /\ a \in Actions
    BY <1>2, <1>4, <2>1 DEF Concluded, ActionsOf
  <2>3. Concluded' = Concluded \cup {a}
    BY <1>3, <1>4, <2>1, <2>2
  <2>4. Agent!End(a)
    BY <1>2, <2>1, <2>2, <2>3 DEF Agent!End
  <2>. QED
    BY <2>2, <2>4 DEF DialogueStep, Agent!Next
<1>. QED
  BY <1>5, <1>6

LEMMA ProposeStep ==
  ASSUME Serial, Driven, Conversing, NEW p \in Procs, Propose(p)
  PROVE  DialogueStep
<1>1. Letters' = Letters
  BY NothingTold DEF Propose, Records
<1>2. book'.verdict = book.verdict
  BY DrivenTyped DEF Propose, Records, Book
<1>3. CASE UNCHANGED vars
  <2>1. ActionsOf(Run)' = ActionsOf(Run) /\ Concluded' = Concluded
    BY <1>2, <1>3 DEF vars, ActionsOf, Concluded, Settled
  <2>. QED
    BY <1>1, <2>1 DEF DialogueStep, Agent!vars
<1>4. ASSUME NEW a \in Actions, action[a].run_id = None, AppendActions(Run, <<a>>)
      PROVE  DialogueStep
  <2>1. /\ action'[a].run_id = Run /\ action'[a].status = "QUEUED"
        /\ \A b \in Actions : b # a => action'[b] = action[b]
    BY <1>4, AppendOne
  <2>2. a \notin ActionsOf(Run)
    BY <1>4, ConstantFacts, DriverFacts DEF ActionsOf
  <2>3. ActionsOf(Run)' = ActionsOf(Run) \cup {a}
    BY <2>1 DEF ActionsOf
  <2>4. Concluded' = Concluded
    <3>1. a \notin Concluded /\ a \notin Concluded'
      BY <2>1, <2>2 DEF Concluded, Settled, TERMINAL
    <3>2. \A b \in Actions : b # a => (Settled(b)' <=> Settled(b))
      BY <1>2, <2>1 DEF Settled
    <3>. QED
      BY <2>3, <3>1, <3>2 DEF Concluded, ActionsOf
  <2>5. \A b \in ActionsOf(Run) : Agent!Heard(b)
    <3>1. ~Unheard
      BY DEF Propose, Conversing, SessionHolds
    <3>. QED
      BY <3>1, AllAreTold, HeardIs
  <2>6. Agent!Propose(a)
    BY <1>1, <2>2, <2>3, <2>4, <2>5 DEF Agent!Propose
  <2>. QED
    BY <2>6 DEF DialogueStep, Agent!Next
<1>. QED
  BY <1>3, <1>4 DEF Propose, Records

\* A message that is a result tells the end of the bound action.
LEMMA TellsStep ==
  ASSUME Driven, Conversing, NEW p \in Procs, Prompt(p),
         driver[p].message.kind = "result", driver[p].message.act # None
  PROVE  DialogueStep
<1>1. PICK m \in SessionEvent :
        /\ m = driver[p].message /\ m.kind = "result" /\ m.act # None
        /\ ~Has("result", m.call) /\ IsOfBound(m) /\ Settled(m.act) /\ m.act \in ActionsOf(Run)
  BY PromptIsNews
<1>2. session' = Append(session, m) /\ UNCHANGED vars /\ UNCHANGED book
  BY <1>1 DEF Prompt, Tells
<1>3. ActionsOf(Run)' = ActionsOf(Run) /\ Concluded' = Concluded
  BY <1>2 DEF vars, ActionsOf, Concluded, Settled
<1>4. session \in Seq(SessionEvent)
  BY DrivenTyped
<1>5. PICK n : n = Len(session) + 1
  OBVIOUS
<1>6. DOMAIN session' = DOMAIN session \cup {n} /\ session'[n] = m
      /\ \A i \in DOMAIN session : session'[i] = session[i]
  BY <1>2, <1>4, <1>5
<1>7. Letters' = Letters \cup {<<n, m.act>>}
  <2>1. TellsEnd(n)'
    BY <1>1, <1>6 DEF TellsEnd
  <2>2. \A i \in DOMAIN session : TellsEnd(i)' <=> TellsEnd(i)
    BY <1>6 DEF TellsEnd
  <2>. QED
    BY <1>6, <2>1, <2>2 DEF Letters
<1>8. ~Agent!Heard(m.act)
  <2>1. ASSUME NEW i \in DOMAIN session, TellsEnd(i), session[i].act = m.act
        PROVE  FALSE
    <3>1. Matches(session[i]) /\ session[i].kind = "result"
      BY <2>1 DEF Conversing, ResultsMatch, TellsEnd
    <3>2. session[i].call = m.call
      BY <1>1, <2>1, <3>1 DEF Matches, IsOfBound, Result
    <3>. QED
      BY <1>1, <3>1, <3>2 DEF Has
  <2>. QED
    BY <2>1, HeardIs
<1>9. m.act \in Concluded /\ m.act \in Actions
  BY <1>1 DEF Concluded, ActionsOf
<1>10. <<n, m.act>> \in Letters' /\ <<n, m.act>>[2] = m.act
  BY <1>7
<1>11. Agent!Tell(m.act)
  BY <1>3, <1>7, <1>8, <1>9, <1>10 DEF Agent!Tell
<1>. QED
  BY <1>9, <1>11 DEF DialogueStep, Agent!Next

LEMMA EveryStepTalks ==
  ASSUME Serial, Driven, Attended, Conversing, [RuntimeNext]_allvars
  PROVE  DialogueStep
<1>1. CASE \E p \in Procs : Propose(p)
  BY <1>1, ProposeStep
<1>2. CASE ~\E p \in Procs : Propose(p)
  <2>1. Shrinks
    BY <1>2, PendingShrinks
  <2>2. ASSUME NEW p \in Procs, Prompt(p)
        PROVE  DialogueStep
    <3>1. CASE driver[p].message.kind = "result" /\ driver[p].message.act # None
      BY <2>2, <3>1, TellsStep
    <3>2. CASE ~(driver[p].message.kind = "result" /\ driver[p].message.act # None)
      <4>1. Letters' = Letters
        BY <2>2, <3>2, NothingTold DEF Prompt, Tells
      <4>. QED
        BY <2>1, <4>1, EndsStep
    <3>. QED
      BY <3>1, <3>2
  <2>3. CASE \/ session' = session
             \/ \E event : event.kind # "result" /\ session' = Append(session, event)
    <3>1. Letters' = Letters
      BY <2>3, NothingTold
    <3>. QED
      BY <2>1, <3>1, EndsStep
  <2>. QED
    BY <2>2, <2>3, SessionMoves
<1>. QED
  BY <1>1, <1>2

LEMMA InitDialogue == DriverInit => Agent!Init
<1>. SUFFICES ASSUME DriverInit PROVE Agent!Init
  OBVIOUS
<1>1. ActionsOf(Run) = {} /\ session = <<>>
  BY InitConversing
<1>2. Concluded = {} /\ Letters = {}
  BY <1>1 DEF Concluded, Letters
<1>. QED
  BY <1>1, <1>2 DEF Agent!Init

\* The runtime holds a dialogue with its agent, whoever dies on the way: the
\* agent proposes an action when it has heard the end of the one before, and
\* hears of each end once, when it has come and been judged (bridge.py 20-54,
\* runtime.py 183-211, 296-372, 383-426).
THEOREM HoldsDialogue == RuntimeSpec => DialogueSpec
<1>1. (Serial /\ Driven /\ Attended) /\ (Serial /\ Driven /\ Conversing) /\ [RuntimeNext]_allvars
        => [Agent!Next]_(Agent!vars)
  BY EveryStepTalks DEF DialogueStep
<1>. QED
  BY <1>1, InitDialogue, AttendedInvariant, ConversingInvariant, PTL
  DEF RuntimeSpec, DialogueSpec, Agent!Spec
=============================================================================
