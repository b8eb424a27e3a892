-------------------------- MODULE RuntimeInvariant --------------------------
(***************************************************************************)
(* The inductive invariants behind the safety properties of Runtime.       *)
(* Driven: what its part of RunState and the session say (Accounts), and   *)
(* what that means for the frame of each process (Fits).  On top of it:    *)
(* how the agent begins (Opening), what is paid for and has its cause      *)
(* (Warranted), who waits for what (Attended), who owes a stop             *)
(* (Restrained), and what the agent has heard (Conversing).                *)
(***************************************************************************)
EXTENDS Runtime

\* Events point back to earlier ones.
Numbered == \A i \in DOMAIN session : session[i].call < i

\* The end of a is known, and judged if it completed.
Settled(a) == /\ action[a].status \in TERMINAL
              /\ action[a].status = "COMPLETED" => book.verdict[a] # "none"

VerifiedIsJudged == \A a \in Actions : action[a].verified => book.verdict[a] # "none"

\* The binding is of a call in the session; a refused one has no result yet.
BindingOK ==
  /\ Bound => BoundCallKnown
  /\ book.binding.act # None => Bound
  /\ Rejected => ~Has("result", book.binding.call)

\* The outbox holds the result of a call that was not refused.
OutboxOK ==
  book.feedback # Nothing =>
    /\ book.feedback.kind = "result"
    /\ book.feedback.call \in 1..Len(session)
    /\ book.feedback.act # None => Settled(book.feedback.act)
    /\ Rejected => book.feedback.call # book.binding.call

Accounts ==
  /\ Numbered /\ VerifiedIsJudged /\ BindingOK /\ OutboxOK
  /\ ResultsOnce /\ ResultsTrue
  /\ ActionsOf(Run) # {} => session # <<>>

-----------------------------------------------------------------------------
\* A method that is giving up returns to its caller.
Leaving(f) == f.pc \in {"terminate", "stop", "tick"} /\ f.next = "ran"

\* Continue_execution is looking after the bound action: before the checkpoint,
\* and after it.
Judging(f) == ~f.running /\ (f.pc = "judge" \/ (f.pc \in {"refresh", "observe"} /\ f.next = "judge"))
JudgedIn(f) ==
  /\ ~f.running
  /\ \/ f.pc \in {"recover", "replanned", "revise", "prepare"}
     \/ f.pc \in {"refresh", "observe"} /\ f.next = "revise"
     \/ f.pc \in {"stop", "tick"} /\ f.next = "replanned"

InRun == {"prompt", "agent", "model", "thinking", "tool", "dispatch", "receipt", "respond",
          "final", "conclude", "returned", "invalid", "reply", "ran"}
OutOfRun == {"rest", "leave", "resumed", "continue", "deliver", "judge", "prepare"}

\* What every frame has to go on with.
Guided(f) ==
  /\ f.pc = "rest" => f = AtRest
  /\ f.pc \in InRun => f.running
  /\ f.pc \in OutOfRun => ~f.running
  /\ f.pc \in {"terminate", "stop"} => f.reason \in StopReasons
  /\ f.pc \in {"terminate", "stop", "tick"} =>
       \/ f.next \in (IF f.running THEN {"ran", "respond"} ELSE {"leave"})
       \/ f.pc # "terminate" /\ f.next = "replanned"
  /\ f.pc \in {"refresh", "observe"} =>
       f.next \in {"revise"} \cup (IF f.running THEN {"final", "respond"} ELSE {"judge"})

\* An operator only cancels.
Operates(f) ==
  /\ ~f.running
  /\ f.pc \in {"rest", "leave", "terminate", "stop", "tick"}
  /\ f.pc \in {"terminate", "stop", "tick"} => f.next = "leave"

\* A driver that carries a result to the agent carries news.
CarriesNews(f) ==
  /\ f.message.call <= Len(session)
  /\ f.message.kind = "result" =>
       /\ ~Has("result", f.message.call)
       /\ f.message.act # None => Settled(f.message.act)
       /\ f.pc \in {"prompt", "agent"} /\ Rejected => f.message.call # book.binding.call

\* It turns to other things only when the outbox has been delivered.
DeliversFirst(f) ==
  f.running =>
    /\ session # <<>>
    /\ book.feedback # Nothing =>
         \/ Has("result", book.feedback.call)
         \/ f.pc \in {"prompt", "agent"} /\ f.message = book.feedback
         \/ f.pc = "ran" \/ Leaving(f)

LooksAfter(f) ==
  /\ f.pc = "deliver" => book.feedback # Nothing
  /\ Judging(f) => f.act # None /\ action[f.act].status \in TERMINAL
  /\ JudgedIn(f) => f.act # None /\ Settled(f.act)
  /\ Judging(f) \/ JudgedIn(f) => book.binding.act # None

Fits(f) ==
  /\ Guided(f)
  /\ ~f.claims => Operates(f)
  /\ f.claims => CarriesNews(f) /\ DeliversFirst(f) /\ LooksAfter(f)

\* One process at a time has the claim.
Exclusive == \A p, q \in Procs : driver[p].claims /\ driver[q].claims => p = q

Driven ==
  /\ RuntimeTypeOK
  /\ Accounts
  /\ \A p \in Procs : Fits(driver[p])
  /\ Exclusive

-----------------------------------------------------------------------------
(* How the agent begins, besides Driven.                                   *)

\* A driver of an agent without its task brings it, or is giving up.
Opens(f) ==
  IF f.running THEN \/ f.pc \in {"prompt", "agent"} /\ f.message = FirstMessage
                    \/ f.pc = "ran" \/ Leaving(f)
  ELSE f.pc \in {"leave", "resumed", "continue"}

\* Before the agent has its task there is nothing else to tell it.
Opening ==
  /\ TaskFirst
  /\ Len(session) < 2 =>
       /\ ~Bound /\ book.feedback = Nothing
       /\ \A p \in Procs : driver[p].claims => Opens(driver[p])

-----------------------------------------------------------------------------
(* What is paid for and what is justified, besides Driven.                 *)

\* A replan is under way, paid for and not yet made.
Renewing(f) ==
  \/ f.pc \in {"replanned", "revise"}
  \/ f.pc \in {"refresh", "observe"} /\ f.next = "revise"
  \/ f.pc \in {"stop", "tick"} /\ f.next = "replanned"

\* finish_task has closed the stream.
Finishing(f) == f.pc = "final" \/ (f.pc \in {"refresh", "observe"} /\ f.next = "final")

\* What a frame is about to do is paid for and has its cause.
Due(f) ==
  /\ f.pc = "thinking" => Cardinality(Decisions) < book.model_calls
  /\ f.pc = "observe" => state[Run].observation.id < book.observation_count
  /\ Renewing(f) => state[Run].plan_version <= book.replans
  /\ f.pc = "recover" \/ Renewing(f) => PlanHasFailed
  /\ Finishing(f) => state[Run].closed
  /\ Judging(f) => f.act \in ActionsOf(Run)
  /\ f.message.kind \in {"none", "user", "result"}

BoundHere == book.binding.act # None => book.binding.act \in ActionsOf(Run)

\* A failed verdict is the last word on an action that was not verified.
VerifiedPassed == \A a \in Actions : action[a].verified => book.verdict[a] = "PASS"

Warranted ==
  /\ BudgetsHold /\ BoundHere /\ VerifiedPassed
  /\ \A p \in Procs : Due(driver[p])

-----------------------------------------------------------------------------
(* Who waits for what, besides Driven.                                     *)

\* Waiting for an action, the session ends with its call or its receipt.
SessionWaits ==
  Pending(Run) # {} =>
    /\ session # <<>>
    /\ LastKind = "receipt" \/ (LastKind = "execute_action" /\ Known)

\* Nothing is begun before the outbox has been delivered.
OutboxFirst == book.feedback # Nothing /\ ~Has("result", book.feedback.call) => Pending(Run) = {}

\* A driver here may have an action of the run before it that has not ended.
MayWait(f) ==
  \/ f.pc \in {"rest", "leave", "resumed", "continue", "deliver",
              "tool", "dispatch", "receipt", "returned", "ran"}
  \/ f.pc \in {"prompt", "agent"} /\ f.message = Nothing
  \/ f.pc \in {"terminate", "stop", "tick"} /\ f.next \in {"ran", "leave"}

Attended ==
  /\ OneUnderWay /\ SessionWaits /\ OutboxFirst
  /\ \A p \in Procs : driver[p].claims /\ ~MayWait(driver[p]) => Pending(Run) = {}

-----------------------------------------------------------------------------
(* What an agent that takes no correction can still do, besides Attended.  *)

ForGood == {"cancel", "timeout", "failure"}

\* _run owes what it was entered with; who has no claim stops for good.
Faithful(f) ==
  /\ f.running /\ book.feedback # Nothing => f.delivering = book.feedback.call
  /\ ~f.claims /\ f.pc \in {"terminate", "stop"} => f.reason \in ForGood

Halted == state[Run].frozen /\ state[Run].stop_intent \in ForGood

\* The run is over, or waits for its bound action.
Settling == Over \/ Bound

\* The tick that concludes the run is under way.
Concluding(frame) ==
  /\ frame.pc \in {"reconcile", "settle"} /\ frame.ticking /\ frame.run = Run
  /\ Pending(Run) = {}

\* The driver p is having the run stopped, and leaves nothing in the outbox.
GivesUp(p) ==
  LET f == driver[p]
  IN  /\ f.claims
      /\ book.feedback # Nothing => f.delivering = book.feedback.call
      /\ \/ f.pc \in {"terminate", "stop"} /\ f.next = "ran" /\ f.reason \in ForGood
         \/ f.pc = "tick" /\ f.next = "ran" /\ Halted
         \/ f.pc = "ran" /\ Halted /\ (Settling \/ Concluding(proc[p]))

\* A run that has been stopped, and that no driver gives to the agent again.
GivenUpForGood ==
  /\ Halted /\ Settling /\ book.feedback = Nothing
  /\ \A p \in Procs : driver[p].claims => driver[p].pc \in {"continue", "resumed"}

\* All invalid decisions that the limit and the deaths allow have been made.
Spent == book.invalid_proposals > MaxInvalidProposals + crashes

Restrained ==
  /\ RepairsBounded
  /\ book.invalid_proposals > 0 => session # <<>>
  /\ \A p \in Procs : Faithful(driver[p])
  /\ Spent => GivenUpForGood \/ \E p \in Procs : GivesUp(p)
-----------------------------------------------------------------------------
(* What the agent has heard, besides Driven and Attended.                  *)

\* The agent has yet to hear of the action that the run is bound to.
Unheard == book.binding.act # None /\ ~Has("result", book.binding.call)

\* A result is about an action of the run, and about the bound action exactly
\* if it is about the bound call.
Matches(m) ==
  /\ m.act # None => m.act \in ActionsOf(Run)
  /\ book.binding.act # None => (m.act = book.binding.act <=> m.call = book.binding.call)

IsOfBound(m) == book.binding.act # None /\ m = Result(book.binding.call, book.binding.act)

ResultsMatch ==
  /\ \A i \in DOMAIN session : session[i].kind = "result" => Matches(session[i])
  /\ book.feedback # Nothing =>
       /\ Matches(book.feedback)
       /\ ~Has("result", book.feedback.call) => IsOfBound(book.feedback)

\* What a driver judges, and what it brings to the agent, is of the binding.
MindsBound(f) ==
  /\ Judging(f) \/ JudgedIn(f) => f.act = book.binding.act
  /\ f.pc \in {"invalid", "reply", "prompt", "agent"} /\ f.message.kind = "result" =>
       IF f.message.act = None THEN book.binding.act = None ELSE IsOfBound(f.message)

\* The i-th event of the session tells the end of an action.
TellsEnd(i) == session[i].kind = "result" /\ session[i].act # None

\* Of the actions that the run is no longer bound to, the agent has heard.
OldAreTold ==
  \A a \in ActionsOf(Run) :
    a = book.binding.act \/ \E i \in DOMAIN session : TellsEnd(i) /\ session[i].act = a

\* Until the agent hears, the session ends with its call or the receipt,
SessionHolds ==
  Unheard => /\ session # <<>>
             /\ LastKind = "receipt" \/ (LastKind = "execute_action" /\ Known)

\* and no driver asks it for more.
MayHold(f) ==
  f.running =>
    \/ f.pc \in {"tool", "dispatch", "receipt", "returned", "ran"}
    \/ f.pc \in {"prompt", "agent"} /\ (f.message = Nothing \/ f.message.kind = "result")
    \/ Leaving(f)

Conversing ==
  /\ BoundHere /\ ResultsMatch /\ OldAreTold /\ SessionHolds
  /\ \A p \in Procs : MindsBound(driver[p])
  /\ \A p \in Procs : driver[p].claims /\ Unheard => MayHold(driver[p])
=============================================================================
