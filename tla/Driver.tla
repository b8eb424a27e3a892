------------------------------- MODULE Driver -------------------------------
(***************************************************************************)
(* What a driver of a run keeps, on top of Scheduler: the runtime's part   *)
(* of RunState, the ADK session, and the frame of each process that is in  *)
(* a method of Runtime (runtime.py).                                       *)
(*                                                                         *)
(* A method of Runtime calls the scheduler; while such a call is under way *)
(* proc[p] is its frame and driver[p] waits.  Every transaction, every     *)
(* await and every event appended to the session is a step of its own, so  *)
(* that a process can die, and the operator cancel, between any two.  The  *)
(* session has one writer, the holder of the claim: its reads are part of  *)
(* the step that uses them.                                                *)
(***************************************************************************)
EXTENDS Scheduler

CONSTANTS
  Run,                 \* the run that the runtimes drive
  MaxModelCalls, MaxApiRetries, MaxInvalidProposals, MaxReplans,  \* Budget
  Tools,               \* tools the model calls
  Verdicts,            \* verdicts of the verifier
  MaxCrashes           \* bound: processes that die

ASSUME DriverAssumption ==
  /\ Run \in Runs
  /\ {MaxModelCalls, MaxApiRetries, MaxInvalidProposals, MaxReplans, MaxCrashes} \subseteq Nat
  /\ MaxReplans < MaxPlan
  /\ StopRequests = StopReasons
  /\ Tools \subseteq {"execute_action", "finish_task", "observe"}
  /\ Verdicts \subseteq {"PASS", "FAIL"}

VARIABLES
  book,     \* counters, binding and outbox in the run's RunState
  session,  \* events of the run's ADK session
  driver,   \* the method of Runtime that each process is in
  crashes   \* processes that have died

driving == <<book, session, driver, crashes>>

(***************************************************************************)
(* Session events.  The first one stands for the session itself, and <<>>  *)
(* for none.  A tool call is an event whose kind is the tool's name; its   *)
(* call id is its place in the session.  A receipt is the tool's own       *)
(* (pending or rejected) response to execute_action, a result the response *)
(* the runtime gives in the user's name.                                   *)
(***************************************************************************)
Kinds == {"created", "user", "text", "execute_action", "finish_task", "observe",
          "receipt", "response", "final", "result"}

SessionEvent == [kind : Kinds, call : Nat, act : Actions \cup {None}]

Of(kind) == [kind |-> kind, call |-> 0, act |-> None]
Nothing == [kind |-> "none", call |-> 0, act |-> None]
Result(call, a) == [kind |-> "result", call |-> call, act |-> a]
Receipt(call, a) == [kind |-> "receipt", call |-> call, act |-> a]

LastKind == session[Len(session)].kind

\* The session has an event of this kind about the call.
Has(kind, call) == \E i \in DOMAIN session : session[i].kind = kind /\ session[i].call = call

(***************************************************************************)
(* The runtime's part of RunState.  binding names the latest tool call and *)
(* its action, none when the proposal was rejected; feedback is the outbox *)
(* pending_feedback; verdict is the last entry of verifications for each   *)
(* action.                                                                 *)
(***************************************************************************)
NoBinding == [call |-> 0, act |-> None]

Rejected == book.binding.call # 0 /\ book.binding.act = None

Book ==
  [model_calls : Nat, api_retries : Nat, invalid_proposals : Nat, replans : Nat,
   observation_count : Nat, binding : [call : Nat, act : Actions \cup {None}],
   feedback : SessionEvent \cup {Nothing}, verdict : [Actions -> {"none", "PASS", "FAIL"}]]

NewBook ==
  [model_calls |-> 0, api_retries |-> 0, invalid_proposals |-> 0, replans |-> 0,
   observation_count |-> 1, binding |-> NoBinding, feedback |-> Nothing,
   verdict |-> [a \in Actions |-> "none"]]

(***************************************************************************)
(* Frames.  claims: the process holds the claim of the run (exclusive);    *)
(* running: it is inside _run, which handles what goes wrong there, and    *)
(* otherwise inside continue_execution or cancel; next: where refresh or a *)
(* stop returns to; reason: of the stop; delivering: the call whose result *)
(* _deliver_feedback has handed to _run; act: the action judged; message,  *)
(* paused: arguments and result of _drive; answering: the model's call has *)
(* answered and goes on, for as long as ADK reads it.                      *)
(***************************************************************************)
AtRest == [pc |-> "rest", claims |-> FALSE, running |-> FALSE, next |-> "rest",
           reason |-> NoIntent, delivering |-> 0, act |-> None,
           message |-> Nothing, paused |-> FALSE, answering |-> FALSE]

Places == {"rest", "leave", "resumed", "deliver", "continue", "judge", "prepare",
           "prompt", "agent", "model", "thinking", "tool", "dispatch", "receipt", "respond",
           "final", "conclude", "returned", "invalid", "reply", "ran",
           "refresh", "observe", "recover", "replanned", "revise",
           "terminate", "stop", "tick"}

Frame == [pc : Places, claims : BOOLEAN, running : BOOLEAN, next : Places,
          reason : StopReasons \cup {NoIntent}, delivering : Nat, act : Actions \cup {None},
          message : SessionEvent \cup {Nothing}, paused : BOOLEAN, answering : BOOLEAN]

DriverInit ==
  /\ Init
  /\ book = NewBook
  /\ session = <<>>
  /\ driver = [p \in Procs |-> AtRest]
  /\ crashes = 0

\* Process p is at pc, with no call of the scheduler under way,
At(p, pc) == proc[p] = Idle /\ driver[p].pc = pc

\* and moves to frame.
Move(p, pc, frame) ==
  /\ At(p, pc)
  /\ driver' = [driver EXCEPT ![p] = frame]
  /\ crashes' = crashes

\* The frame of p, elsewhere.
To(p, pc) == [driver[p] EXCEPT !.pc = pc]

\* An exception: _run and continue_execution end the run with "failure", and
\* return.
Raised(p) == [driver[p] EXCEPT !.pc = "terminate", !.reason = "failure",
                               !.next = IF driver[p].running THEN "ran" ELSE "leave"]

Rest(p, pc) == Move(p, pc, AtRest) /\ UNCHANGED <<vars, book, session>>
Goes(p, pc, frame) == Move(p, pc, frame) /\ UNCHANGED <<vars, book, session>>

\* p, at pc, appends an event to the session.
Tells(p, pc, event, frame) ==
  /\ Move(p, pc, frame)
  /\ session' = Append(session, event)
  /\ UNCHANGED <<vars, book>>

\* p, at pc, changes the runtime's part of RunState in a transaction.
Records(p, pc, newBook, frame) ==
  /\ Move(p, pc, frame)
  /\ book' = newBook
  /\ UNCHANGED <<vars, session>>

Over == state[Run].status \in FinalStatus
=============================================================================
