------------------------------- MODULE Bridge -------------------------------
(***************************************************************************)
(* The agent's turn: Runtime._drive over ADK's runner, the budgeted model  *)
(* of agent/model.py and the tools of agent/bridge.py.                     *)
(*                                                                         *)
(* ADK is not part of the repository.  It is modelled by what the runtime  *)
(* relies on: a message is appended to the session before the model is     *)
(* asked; the model's call is appended before its tool runs and the tool's *)
(* response after; a call of the long-running execute_action ends the      *)
(* turn.  Resumed without a message, the turn goes on from the last event  *)
(* of the session.                                                         *)
(***************************************************************************)
EXTENDS Driver

\* _drive with a message.
Prompt(p) ==
  /\ At(p, "agent") /\ driver[p].message # Nothing
  /\ Tells(p, "agent", driver[p].message,
             [To(p, "model") EXCEPT !.message = Nothing, !.paused = FALSE, !.answering = FALSE])

\* _drive without one: a paused or ended turn yields no event, a tool that has
\* not answered runs again, and otherwise it is the model's turn.
ResumeTurn(p) ==
  /\ At(p, "agent") /\ driver[p].message = Nothing
  /\ \/ /\ LastKind \in {"execute_action", "receipt", "text", "final"}
        /\ Goes(p, "agent", [To(p, "returned") EXCEPT !.paused = FALSE, !.answering = FALSE])
     \/ /\ LastKind \in {"execute_action", "finish_task", "observe"}
        /\ Goes(p, "agent", [To(p, "tool") EXCEPT !.paused = LastKind = "execute_action",
                                                  !.answering = FALSE])
     \/ /\ LastKind \in {"created", "user", "text", "response", "result"}
        /\ Goes(p, "agent", [To(p, "model") EXCEPT !.paused = FALSE, !.answering = FALSE])

-----------------------------------------------------------------------------
(* BudgetedModel.generate_content_async.                                   *)

\* take_model_call refuses.
ModelRefused == \/ state[Run].frozen
                \/ state[Run].status \in {"CANCELED", "FAILED"}
                \/ book.model_calls >= MaxModelCalls
                \/ now >= TotalSeconds

\* take_model_call: a call is paid for before it is made.
TakeModelCall(p) ==
  IF ModelRefused THEN Goes(p, "model", Raised(p))
  ELSE Records(p, "model", [book EXCEPT !.model_calls = @ + 1],
               [To(p, "thinking") EXCEPT !.answering = FALSE])

\* The call times out or is disconnected before it answers,
ModelFails(p) ==
  \/ /\ book.api_retries < MaxApiRetries
     /\ Records(p, "thinking", [book EXCEPT !.api_retries = @ + 1], To(p, "model"))
  \/ Goes(p, "thinking", Raised(p))

\* it answers, with too many calls, a text or the call of one tool,
ModelAnswers(p) ==
  IF state[Run].frozen THEN Goes(p, "thinking", Raised(p))
  ELSE \/ Goes(p, "thinking", [To(p, "invalid") EXCEPT !.message = Of("user")])
       \/ Tells(p, "thinking", Of("text"),
                [To(p, "returned") EXCEPT !.paused = FALSE, !.answering = TRUE])
       \/ \E tool \in Tools :
            Tells(p, "thinking", Of(tool),
                  [To(p, "tool") EXCEPT !.paused = tool = "execute_action", !.answering = TRUE])

\* or breaks off behind its answer, when the tool it called has run: such a call
\* is not made again.
ModelBreaksOff(p) ==
  /\ driver[p].answering
  /\ \E pc \in {"model", "returned"} : Goes(p, pc, Raised(p))

-----------------------------------------------------------------------------
(* ActionBridge.                                                           *)

\* The id of the call whose tool is running: no event has followed it.
CallId == Len(session)

\* [variant] A repeated call is a new proposal.
NeverKnown == FALSE

\* execute_action has seen this call before.
Known == book.binding.call = CallId

\* execute_action, its transaction: the proposal is queued, or refused for
\* whatever is wrong with it.
Propose(p) ==
  /\ At(p, "tool") /\ LastKind = "execute_action" /\ ~Known
  /\ \/ \E a \in Actions :
          /\ action[a].run_id = None
          /\ AppendActions(Run, <<a>>)
          /\ book' = [book EXCEPT !.binding = [call |-> CallId, act |-> a]]
          /\ Move(p, "tool", To(p, "dispatch"))
          /\ UNCHANGED <<robot, proc, session>>
     \/ Records(p, "tool", [book EXCEPT !.binding = [call |-> CallId, act |-> None]], To(p, "receipt"))

\* execute_action, repeated: the same receipt, or a KeyError, which nothing
\* catches, when the proposal had been refused.
Repeated(p) ==
  /\ At(p, "tool") /\ LastKind = "execute_action" /\ Known
  /\ IF Rejected THEN Rest(p, "tool") ELSE Goes(p, "tool", To(p, "receipt"))

\* The action that dispatch would submit.
NextUp == {a \in Unverified(Run) :
             /\ action[a].status = "QUEUED"
             /\ \A b \in Unverified(Run) : action[a].sequence <= action[b].sequence}

\* execute_action, its dispatch: submits, finds nothing to do, or refuses.
DispatchNext(p) ==
  \/ \E a \in NextUp : /\ Move(p, "dispatch", To(p, "receipt")) /\ Dispatch(p, Run, a)
                       /\ UNCHANGED <<book, session>>
  \/ /\ NextUp = {} \/ state[Run].frozen \/ state[Run].status \in FinalStatus \cup {"BLOCKED"}
     /\ Goes(p, "dispatch", To(p, "receipt"))
  \/ /\ \E a \in NextUp : ~Fresh(Run) \/ ~ResourcesFree(a)
     /\ ~state[Run].frozen /\ state[Run].status \notin FinalStatus \cup {"BLOCKED"}
     /\ Goes(p, "dispatch", Raised(p))

\* The response of execute_action ends the turn.
Receive(p) == Tells(p, "receipt", Receipt(CallId, book.binding.act), To(p, "returned"))

\* finish_task: not before every action of the plan has passed; then close.
PlanIsDone == \A a \in ActionsOf(Run) : action[a].plan_version = state[Run].plan_version =>
                action[a].status = "COMPLETED" /\ action[a].verified

FinishTask(p) ==
  /\ At(p, "tool") /\ LastKind = "finish_task"
  /\ \/ ~PlanIsDone /\ Goes(p, "tool", To(p, "respond"))
     \/ /\ PlanIsDone
        /\ Close(Run, state[Run].next_sequence - 1)
        /\ Move(p, "tool", [To(p, "refresh") EXCEPT !.next = "final"])
        /\ UNCHANGED <<robot, proc, book, session>>
     \/ PlanIsDone /\ state[Run].frozen /\ Goes(p, "tool", Raised(p))

\* [variant] The verdict alone decides.
PassedAnyway ==
  /\ Evidence(Run)
  /\ state' = [state EXCEPT ![Run].status = "SUCCEEDED"]
  /\ UNCHANGED <<action, owner, received>>

\* The verdict PASS succeeds, unless a stop came in between.
Passed ==
  \/ PassFinal(Run)
  \/ /\ Evidence(Run) /\ (~state[Run].closed \/ state[Run].frozen \/ Unverified(Run) # {})
     /\ UNCHANGED ledger

\* finish_task, verify("final"): PASS, FAIL, or evidence that verify refuses.
VerifyFinal(p) ==
  \/ /\ "PASS" \in Verdicts /\ Passed
     /\ Move(p, "final", To(p, "conclude"))
     /\ UNCHANGED <<robot, proc, book, session>>
  \/ /\ "FAIL" \in Verdicts /\ FailVerification(Run)
     /\ Move(p, "final", To(p, "recover"))
     /\ UNCHANGED <<robot, proc, book, session>>
  \/ ~Evidence(Run) /\ Goes(p, "final", Raised(p))

\* Its response ends the turn (skip_summarization) ...
Conclude(p) == Tells(p, "conclude", Of("final"), [To(p, "returned") EXCEPT !.paused = FALSE])

\* ... other responses do not.
Respond(p) == Tells(p, "respond", Of("response"), To(p, "model"))

\* observe
ObserveTool(p) ==
  /\ At(p, "tool") /\ LastKind = "observe"
  /\ Goes(p, "tool", [To(p, "refresh") EXCEPT !.next = "respond"])

Turn(p) ==
  \/ Prompt(p) \/ ResumeTurn(p) \/ TakeModelCall(p)
  \/ ModelFails(p) \/ ModelAnswers(p) \/ ModelBreaksOff(p)
  \/ Propose(p) \/ Repeated(p) \/ DispatchNext(p) \/ Receive(p)
  \/ FinishTask(p) \/ VerifyFinal(p) \/ Conclude(p) \/ Respond(p) \/ ObserveTool(p)
=============================================================================
