-------------------------- MODULE Scheduler_proofs --------------------------
(***************************************************************************)
(* Theorems about Scheduler, for all values of its constants.              *)
(***************************************************************************)
EXTENDS SchedulerInvariant, TLAPS

-----------------------------------------------------------------------------
(* Types of the transactions.                                              *)

USE DEF NoTime, NoIntent

LEMMA ConstantFacts ==
  /\ None \notin Runs /\ None \notin Actions
  /\ ResourcesOf \in [Actions -> SUBSET Resources]
  /\ StopRequests \subseteq StopReasons
  BY SchedulerAssumption DEF SchedulerAssumption

LEMMA InitSafe == Init => Safe
<1>. SUFFICES ASSUME Init PROVE Safe
  OBVIOUS
<1>. USE ConstantFacts DEF Init, ExecutorInit
<1>1. TypeOK
  BY DEF TypeOK, TypeExecutor, TypeLedger, NewRun, RunState, Observation, NewAction,
         ActionRecord, Idle, ProcState, PC, TaskStatus, FinalStatus, ActionStatus, TERMINAL
<1>2. IntentFirst /\ KnownIsSubmitted
  BY DEF IntentFirst, KnownIsSubmitted, Submitted, Ended, EndedStatus, NewAction, TERMINAL
<1>3. FramesOK /\ SubmittedOnce
  BY DEF FramesOK, FrameOK, SubmittedOnce, Idle
<1>4. LastWord /\ EndedMeansReported
  BY DEF LastWord, EndedMeansReported, NewAction, TERMINAL
<1>5. HeldWhileActive
  BY DEF HeldWhileActive, Active, NewAction
<1>. QED
  BY <1>1, <1>2, <1>3, <1>4, <1>5 DEF Safe

-----------------------------------------------------------------------------
(* The transactions, while the robot stands still.                         *)

\* What a transaction has to keep of the ledger.
LedgerSafe == /\ TypeLedger /\ IntentFirst /\ KnownIsSubmitted
              /\ EndedMeansReported /\ HeldWhileActive

\* What a step of anybody keeps for the calls of everybody else.
Grows ==
  /\ started \subseteq started'
  /\ \A a \in Actions :
       /\ Len(events[a]) <= Len(events'[a])
       /\ Submitted(a) => Submitted(a)' /\ action'[a].run_id = action[a].run_id
       /\ action[a].execution_id => action'[a].execution_id

\* What most transactions do to actions: statuses change among the active ones,
\* queued ones are dropped, and executions found at the executor are recorded.
Bookkeeping ==
  \A a \in Actions :
    /\ action'[a].run_id = action[a].run_id
    /\ action'[a].plan_version = action[a].plan_version
    /\ action'[a].sequence = action[a].sequence
    /\ action'[a].submitted_at = action[a].submitted_at
    /\ action'[a].finished_at = action[a].finished_at
    /\ action[a].execution_id => action'[a].execution_id
    /\ action'[a].execution_id => action[a].execution_id \/ a \in started
    /\ action'[a].stop_requested_at = action[a].stop_requested_at \/ Submitted(a)
    /\ \/ action'[a].status = action[a].status
       \/ Active(a) /\ Active(a)'
       \/ action[a].status = "QUEUED" /\ action'[a].status = "INVALIDATED"

LEMMA BookkeepingSafe ==
  ASSUME Safe, TypeLedger', Bookkeeping, owner' = owner, UNCHANGED robot
  PROVE  LedgerSafe' /\ Grows
<1>. USE DEF Safe, robot
<1>1. IntentFirst'
  BY DEF Bookkeeping, IntentFirst, Submitted, Ended, EndedStatus, Active, TERMINAL,
         KnownIsSubmitted
<1>2. KnownIsSubmitted'
  BY DEF Bookkeeping, KnownIsSubmitted, Submitted
<1>3. EndedMeansReported'
  BY DEF Bookkeeping, EndedMeansReported, Stopped, Active, TERMINAL
<1>4. HeldWhileActive'
  BY DEF Bookkeeping, HeldWhileActive, Active, TERMINAL
<1>5. Grows
  BY DEF Bookkeeping, Grows, Submitted, TypeOK, TypeExecutor
<1>. QED
  BY <1>1, <1>2, <1>3, <1>4, <1>5 DEF LedgerSafe

LEMMA SubmittedIsKnown ==
  ASSUME Safe, NEW a \in Actions, Submitted(a)
  PROVE  action[a].status \notin {"QUEUED", "INVALIDATED"} /\ action[a].run_id \in Runs
  BY DEF Safe, IntentFirst

LEMMA MarkUnknownStep ==
  ASSUME Safe, NEW r \in Runs, NEW a \in Actions, Submitted(a), MarkUnknown(r, a)
  PROVE  TypeLedger' /\ Bookkeeping /\ owner' = owner
<1>a. action' \in [Actions -> ActionRecord]
  BY DEF Safe, TypeOK, TypeLedger, MarkUnknown, ActionRecord, ActionStatus
<1>b. state' \in [Runs -> RunState]
  BY DEF Safe, TypeOK, TypeLedger, MarkUnknown, RunState, TaskStatus
<1>1. TypeLedger' /\ owner' = owner
  BY <1>a, <1>b DEF Safe, TypeOK, TypeLedger, MarkUnknown
<1>2. CASE action[a].status \in TERMINAL
  BY <1>1, <1>2 DEF MarkUnknown, Bookkeeping, Safe, TypeOK, TypeLedger
<1>3. CASE action[a].status \notin TERMINAL
  <2>1. Active(a) /\ Active(a)'
    BY <1>3, SubmittedIsKnown DEF Active, MarkUnknown, Safe, TypeOK, TypeLedger, ActionRecord, TERMINAL
  <2>2. Bookkeeping
    BY <1>3, <2>1 DEF MarkUnknown, Bookkeeping, Safe, TypeOK, TypeLedger, ActionRecord
  <2>. QED
    BY <1>1, <2>2
<1>. QED
  BY <1>2, <1>3

LEMMA AcceptSnapshotStep ==
  ASSUME Safe, NEW r \in Runs, NEW a \in started, NEW n, AcceptSnapshot(r, a, n)
  PROVE  TypeLedger' /\ Bookkeeping /\ owner' = owner /\ action'[a].execution_id
<1>1. a \in Actions /\ Submitted(a)
  BY DEF Safe, TypeOK, TypeExecutor, KnownIsSubmitted
<1>2. {"STOPPING", "RUNNING"} \subseteq ActionStatus
  BY DEF ActionStatus
<1>0. /\ StatusFound(a, n) \in ActionStatus
      /\ \/ StatusFound(a, n) = action[a].status
         \/ action[a].status \notin TERMINAL /\ StatusFound(a, n) \in {"STOPPING", "RUNNING"}
  BY <1>1, <1>2 DEF StatusFound, FoundAtWork, AtWork, Safe, TypeOK, TypeLedger, ActionRecord
<1>3. action' \in [Actions -> ActionRecord]
  BY <1>0, <1>1 DEF AcceptSnapshot, Safe, TypeOK, TypeLedger, ActionRecord
<1>4. state' \in [Runs -> RunState]
  BY DEF AcceptSnapshot, Safe, TypeOK, TypeLedger, RunState, TaskStatus
<1>5. action'[a].status = action[a].status \/ (Active(a) /\ Active(a)')
  <2>1. action'[a].status = StatusFound(a, n)
    BY <1>1 DEF AcceptSnapshot, Safe, TypeOK, TypeLedger, ActionRecord
  <2>. SUFFICES ASSUME action'[a].status # action[a].status
                PROVE  Active(a) /\ Active(a)'
    OBVIOUS
  <2>2. action[a].status \notin TERMINAL /\ action'[a].status \in {"STOPPING", "RUNNING"}
    BY <1>0, <2>1
  <2>3. action[a].status # "QUEUED"
    BY <1>1, SubmittedIsKnown
  <2>. QED
    BY <2>2, <2>3 DEF Active, TERMINAL
<1>6. Bookkeeping /\ action'[a].execution_id
  BY <1>0, <1>1, <1>5 DEF AcceptSnapshot, Bookkeeping, Safe, TypeOK, TypeLedger, ActionRecord
<1>. QED
  BY <1>3, <1>4, <1>6 DEF AcceptSnapshot, Safe, TypeOK, TypeLedger

LEMMA FreezePlanStep ==
  ASSUME Safe, NEW r \in Runs, NEW reason \in StopReasons, FreezePlan(r, reason)
  PROVE  TypeLedger' /\ Bookkeeping /\ owner' = owner
<1>1. {"STOPPING", "INVALIDATED"} \subseteq ActionStatus /\ now \in Int
  BY DEF ActionStatus, TERMINAL, Safe, TypeOK, TypeExecutor
<1>2. action' \in [Actions -> ActionRecord]
  <2>. SUFFICES ASSUME NEW a \in Actions PROVE action'[a] \in ActionRecord
    BY DEF FreezePlan
  <2>1. action[a] \in ActionRecord
    BY DEF Safe, TypeOK, TypeLedger
  <2>. QED
    BY <1>1, <2>1 DEF FreezePlan, ActionRecord
<1>3. state' \in [Runs -> RunState]
  BY DEF FreezePlan, Safe, TypeOK, TypeLedger, RunState
<1>4. Bookkeeping
  <2>. SUFFICES ASSUME NEW a \in Actions PROVE Bookkeeping!(a)
    BY DEF Bookkeeping
  <2>1. CASE a \notin Pending(r)
    BY <2>1 DEF FreezePlan
  <2>2. CASE a \in Pending(r) /\ Droppable(a)
    BY <2>2 DEF FreezePlan, Droppable, Safe, TypeOK, TypeLedger, ActionRecord
  <2>3. CASE a \in Pending(r) /\ ~Droppable(a)
    <3>1. Active(a) /\ Submitted(a)
      BY <2>3 DEF Pending, ActionsOf, Droppable, Active, TERMINAL, Safe, IntentFirst
    <3>2. action'[a] = [action[a] EXCEPT !.status = "STOPPING",
                          !.stop_requested_at = IF @ = NoTime THEN now ELSE @]
      BY <2>3 DEF FreezePlan
    <3>. QED
      BY <3>1, <3>2 DEF Active, TERMINAL, Safe, TypeOK, TypeLedger, ActionRecord
  <2>. QED
    BY <2>1, <2>2, <2>3
<1>. QED
  BY <1>2, <1>3, <1>4 DEF FreezePlan, Safe, TypeOK, TypeLedger

LEMMA ConcludeStopStep ==
  ASSUME Safe, NEW r \in Runs, ConcludeStop(r)
  PROVE  TypeLedger' /\ Bookkeeping /\ owner' = owner
<1>1. "EXECUTION_UNKNOWN" \in ActionStatus
  BY DEF ActionStatus
<1>2. action' \in [Actions -> ActionRecord]
  BY <1>1 DEF ConcludeStop, Safe, TypeOK, TypeLedger, ActionRecord
<1>3. \A reason : OutcomeOf(reason) \in TaskStatus
  BY DEF OutcomeOf, TaskStatus, FinalStatus
<1>4. state' \in [Runs -> RunState]
  BY <1>3 DEF ConcludeStop, Safe, TypeOK, TypeLedger, RunState, TaskStatus
<1>5. Bookkeeping
  <2>. SUFFICES ASSUME NEW a \in Actions PROVE Bookkeeping!(a)
    BY DEF Bookkeeping
  <2>1. CASE a \notin StopExpired(r)
    BY <2>1 DEF ConcludeStop
  <2>2. CASE a \in StopExpired(r)
    <3>1. Active(a)
      BY <2>2 DEF StopExpired, Pending, ActionsOf, Active, TERMINAL, Safe, IntentFirst
    <3>2. action'[a] = [action[a] EXCEPT !.status = "EXECUTION_UNKNOWN"]
      BY <2>2 DEF ConcludeStop
    <3>. QED
      BY <3>1, <3>2 DEF Active, TERMINAL, Safe, TypeOK, TypeLedger, ActionRecord
  <2>. QED
    BY <2>1, <2>2
<1>. QED
  BY <1>2, <1>4, <1>5 DEF ConcludeStop, Safe, TypeOK, TypeLedger

LEMMA PassCheckpointStep ==
  ASSUME Safe, NEW r \in Runs, NEW a \in Actions, PassCheckpoint(r, a)
  PROVE  TypeLedger' /\ Bookkeeping /\ owner' = owner
<1>1. action' \in [Actions -> ActionRecord]
  BY DEF PassCheckpoint, Safe, TypeOK, TypeLedger, ActionRecord
<1>2. Bookkeeping
  BY DEF PassCheckpoint, Bookkeeping, Safe, TypeOK, TypeLedger, ActionRecord
<1>. QED
  BY <1>1, <1>2 DEF PassCheckpoint, Safe, TypeOK, TypeLedger

LEMMA ApplyStep ==
  ASSUME Safe, NEW r \in Runs, NEW a \in Actions, NEW n \in 1..Len(events[a]),
         Apply(r, a, n), UNCHANGED robot
  PROVE  LedgerSafe' /\ Grows
<1>. DEFINE event == events[a][n]
<1>1. /\ a \in started /\ Submitted(a) /\ n \in Nat
      /\ event \in Event
      /\ event.status \in TERMINAL => n = Len(events[a])
  BY DEF Apply, Safe, TypeOK, TypeExecutor, KnownIsSubmitted, LastWord
<1>2. action[a] \in ActionRecord /\ {"STOPPING", "RUNNING", "EXECUTION_UNKNOWN"} \subseteq ActionStatus
  BY DEF Safe, TypeOK, TypeLedger, ActionStatus
<1>3. StatusReported(a, event) \in ActionStatus
  BY <1>1, <1>2 DEF StatusReported, Confirms, AtWork, Event, ActionStatus
<1>4. action' \in [Actions -> ActionRecord]
  <2>1. CASE News(a, n) /\ Confirms(event)
    <3>1. action' = [action EXCEPT ![a] = [@ EXCEPT !.last_event_sequence = n,
                       !.status = StatusReported(a, event), !.finished_at = event.at]]
      BY <2>1 DEF Apply
    <3>. QED
      BY <1>1, <1>2, <1>3, <3>1 DEF Safe, TypeOK, TypeLedger, ActionRecord, Event
  <2>2. CASE News(a, n) /\ ~Confirms(event)
    <3>1. action' = [action EXCEPT ![a] = [@ EXCEPT !.last_event_sequence = n,
                       !.status = StatusReported(a, event), !.finished_at = action[a].finished_at]]
      BY <2>2 DEF Apply
    <3>2. action[a].finished_at \in Int
      BY <1>2 DEF ActionRecord
    <3>. QED
      BY <1>1, <1>2, <1>3, <3>1, <3>2 DEF Safe, TypeOK, TypeLedger, ActionRecord
  <2>3. CASE ~News(a, n)
    BY <2>3 DEF Apply, Safe, TypeOK, TypeLedger
  <2>. QED
    BY <2>1, <2>2, <2>3
<1>5. state' \in [Runs -> RunState]
  <2>1. state[r].status \in TaskStatus
    BY DEF Safe, TypeOK, TypeLedger, RunState
  <2>2. RunStatusReported(r, a, event) \in TaskStatus
    BY <2>1 DEF RunStatusReported, TaskStatus
  <2>3. \/ state' = state
        \/ state' = [state EXCEPT ![r].status = RunStatusReported(r, a, event)]
    BY DEF Apply
  <2>. QED
    BY <2>2, <2>3 DEF Safe, TypeOK, TypeLedger, RunState
<1>6. TypeLedger'
  BY <1>1, <1>4, <1>5 DEF Apply, Safe, TypeOK, TypeLedger
<1>7. CASE ~News(a, n)
  <2>1. action' = action /\ owner' = owner
    BY <1>7 DEF Apply, Safe, TypeOK, TypeLedger
  <2>. QED
    BY <1>6, <2>1, BookkeepingSafe DEF Bookkeeping
<1>8. CASE News(a, n) /\ ~Confirms(event)
  <2>1. owner' = owner
    BY <1>8 DEF Apply, Safe, TypeOK, TypeLedger
  <2>2. Active(a)
    BY <1>1, <1>8, SubmittedIsKnown DEF News, Active
  <2>3. action' = [action EXCEPT ![a] = [@ EXCEPT !.last_event_sequence = n,
                     !.status = StatusReported(a, event), !.finished_at = action[a].finished_at]]
    BY <1>8 DEF Apply
  <2>4. StatusReported(a, event) \in {"STOPPING", "RUNNING", "EXECUTION_UNKNOWN"}
    BY <1>8 DEF StatusReported, AtWork
  <2>5. Active(a)'
    BY <2>3, <2>4, <1>2 DEF Active, TERMINAL, Safe, TypeOK, TypeLedger, ActionRecord
  <2>6. Bookkeeping
    <3>1. action[a].finished_at \in Int
      BY <1>2 DEF ActionRecord
    <3>. SUFFICES ASSUME NEW b \in Actions PROVE Bookkeeping!(b)
      BY DEF Bookkeeping
    <3>2. CASE b = a
      BY <3>1, <3>2, <2>2, <2>3, <2>5, <1>1, <1>2 DEF Safe, TypeOK, TypeLedger, ActionRecord
    <3>3. CASE b # a
      BY <3>3, <2>3 DEF Safe, TypeOK, TypeLedger
    <3>. QED
      BY <3>2, <3>3
  <2>. QED
    BY <1>6, <2>1, <2>6, BookkeepingSafe
<1>9. CASE News(a, n) /\ Confirms(event)
  <2>1. action' = [action EXCEPT ![a] = [@ EXCEPT !.last_event_sequence = n,
                     !.status = event.status, !.finished_at = event.at]]
    BY <1>9 DEF Apply, StatusReported, Confirms, TERMINAL
  <2>2. /\ action'[a].status = event.status /\ action'[a].finished_at = event.at
        /\ action'[a].submitted_at = action[a].submitted_at
        /\ action'[a].run_id = action[a].run_id
        /\ action'[a].execution_id = action[a].execution_id
        /\ \A b \in Actions \ {a} : action'[b] = action[b]
    BY <2>1, <1>2 DEF Safe, TypeOK, TypeLedger, ActionRecord
  <2>3. event.status \in EndedStatus /\ event.stopped /\ n = Len(events[a])
    BY <1>9, <1>1 DEF Confirms, EndedStatus
  <2>4. IntentFirst'
    BY <1>1, <2>2, <2>3 DEF Safe, IntentFirst, Submitted, Ended, EndedStatus, TERMINAL
  <2>5. KnownIsSubmitted'
    BY <2>2 DEF Safe, KnownIsSubmitted, Submitted, robot
  <2>6. EndedMeansReported'
    BY <2>2, <2>3, <1>1 DEF Safe, EndedMeansReported, Stopped, robot, TypeOK, TypeExecutor
  <2>7. HeldWhileActive'
    <3>1. \A res \in Resources : owner'[res] = IF owner[res] = a THEN None ELSE owner[res]
      BY <1>9 DEF Apply
    <3>2. ~Active(a)'
      BY <2>2, <2>3 DEF Active, EndedStatus
    <3>. QED
      BY <2>2, <3>1, <3>2, ConstantFacts DEF Safe, HeldWhileActive, Active
  <2>8. Grows
    BY <2>2 DEF Grows, Submitted, robot, Safe, TypeOK, TypeExecutor
  <2>. QED
    BY <1>6, <2>4, <2>5, <2>6, <2>7, <2>8 DEF LedgerSafe
<1>. QED
  BY <1>7, <1>8, <1>9

LEMMA SubmitIntentStep ==
  ASSUME Safe, NEW r \in Runs, NEW a \in Actions, SubmitIntent(r, a), UNCHANGED robot
  PROVE  LedgerSafe' /\ Grows /\ Submitted(a)' /\ action'[a].run_id = r /\ ~Submitted(a)
<1>1. /\ action[a].run_id = r /\ action[a].status = "QUEUED"
      /\ ~Submitted(a) /\ ~Active(a)
      /\ a \notin started
  BY DEF SubmitIntent, Unverified, Current, ActionsOf, Safe, IntentFirst, KnownIsSubmitted, Active
<1>2. now \in Int /\ now # NoTime /\ action[a] \in ActionRecord /\ state[r].observation.id \in Int
  BY DEF Safe, TypeOK, TypeExecutor, TypeLedger, RunState, Observation
<1>3. "SUBMITTING" \in ActionStatus \ (TERMINAL \cup {"QUEUED"})
  BY DEF ActionStatus, TERMINAL
<1>4. /\ action'[a].status = "SUBMITTING" /\ action'[a].submitted_at = now
      /\ action'[a].run_id = r
      /\ action'[a].execution_id = action[a].execution_id
      /\ action'[a].finished_at = action[a].finished_at
      /\ \A b \in Actions \ {a} : action'[b] = action[b]
  BY <1>1, <1>2 DEF SubmitIntent, Safe, TypeOK, TypeLedger, ActionRecord
<1>5. TypeLedger'
  <2>1. action' \in [Actions -> ActionRecord]
    BY <1>2, <1>3 DEF SubmitIntent, Safe, TypeOK, TypeLedger, ActionRecord
  <2>2. state' \in [Runs -> RunState]
    BY DEF SubmitIntent, Safe, TypeOK, TypeLedger, RunState, TaskStatus
  <2>. QED
    BY <2>1, <2>2 DEF SubmitIntent, Safe, TypeOK, TypeLedger
<1>6. IntentFirst'
  BY <1>1, <1>2, <1>4 DEF Safe, IntentFirst, Submitted, Ended, EndedStatus, TERMINAL
<1>7. KnownIsSubmitted'
  BY <1>2, <1>4 DEF Safe, KnownIsSubmitted, Submitted, robot
<1>8. EndedMeansReported'
  BY <1>3, <1>4 DEF Safe, EndedMeansReported, Stopped, robot
<1>9. HeldWhileActive'
  <2>1. \A res \in Resources : owner'[res] = IF res \in ResourcesOf[a] THEN a ELSE owner[res]
    BY DEF SubmitIntent
  <2>2. Active(a)' /\ \A b \in Actions \ {a} : Active(b)' = Active(b)
    BY <1>3, <1>4 DEF Active
  <2>3. \A res \in ResourcesOf[a] : owner[res] = None
    BY DEF SubmitIntent, ResourcesFree
  <2>. QED
    BY <1>1, <2>1, <2>2, <2>3, ConstantFacts DEF Safe, HeldWhileActive
<1>10. Grows
  BY <1>1, <1>2, <1>4 DEF Grows, Submitted, robot, Safe, TypeOK, TypeExecutor
<1>. QED
  BY <1>1, <1>2, <1>4, <1>5, <1>6, <1>7, <1>8, <1>9, <1>10 DEF LedgerSafe, Submitted

LEMMA AppendStep ==
  ASSUME Safe, NEW r \in Runs, NEW batch \in Batches, AppendActions(r, batch), UNCHANGED robot
  PROVE  LedgerSafe' /\ Grows
<1>1. PICK n \in 1..Capacity : batch \in [1..n -> {a \in Actions : action[a].run_id = None}]
  BY DEF Batches, Injection
<1>2. n \in Nat /\ DOMAIN batch = 1..n /\ Len(batch) \in Nat
  <2>1. n \in Nat
    BY SchedulerAssumption DEF SchedulerAssumption
  <2>2. batch \in Seq(Actions)
    BY <1>1, <2>1
  <2>. QED
    BY <1>1, <2>1, <2>2
<1>3. state[r] \in RunState
  BY DEF Safe, TypeOK, TypeLedger
\* An id is either left alone or becomes a fresh, queued action.
<1>4. ASSUME NEW a \in Actions
      PROVE  \/ action'[a] = action[a]
             \/ /\ action[a].run_id = None
                /\ \E s \in Nat : action'[a] = NewAction(r, state[r].plan_version, s)
  <2>1. CASE \E i \in DOMAIN batch : batch[i] = a
    <3>. DEFINE i == CHOOSE i \in DOMAIN batch : batch[i] = a
    <3>1. i \in 1..n /\ batch[i] = a
      BY <2>1, <1>2
    <3>2. action[a].run_id = None
      BY <3>1, <1>1
    <3>3. state[r].next_sequence - 1 + i \in Nat
      BY <1>2, <1>3, <3>1 DEF RunState
    <3>4. action'[a] = NewAction(r, state[r].plan_version, state[r].next_sequence - 1 + i)
      BY <2>1 DEF AppendActions
    <3>. QED
      BY <3>2, <3>3, <3>4
  <2>2. CASE ~\E i \in DOMAIN batch : batch[i] = a
    BY <2>2 DEF AppendActions
  <2>. QED
    BY <2>1, <2>2
<1>5. ASSUME NEW a \in Actions, action[a].run_id = None
      PROVE  /\ ~Submitted(a) /\ ~Active(a) /\ ~action[a].execution_id
             /\ a \notin started \cup inflight
  BY <1>5, ConstantFacts DEF Safe, IntentFirst, KnownIsSubmitted, Active, TERMINAL
<1>6. ASSUME NEW a \in Actions, NEW s \in Nat,
             action'[a] = NewAction(r, state[r].plan_version, s)
      PROVE  /\ action'[a] \in ActionRecord
             /\ action'[a].status = "QUEUED" /\ ~action'[a].execution_id
             /\ action'[a].submitted_at = NoTime /\ action'[a].finished_at = NoTime
             /\ action'[a].stop_requested_at = NoTime
  <2>1. "QUEUED" \in ActionStatus
    BY DEF ActionStatus
  <2>. QED
    BY <1>3, <1>6, <2>1 DEF NewAction, ActionRecord, RunState
<1>7. TypeLedger'
  <2>1. action' \in [Actions -> ActionRecord]
    <3>1. \A a \in Actions : action'[a] \in ActionRecord
      BY <1>4, <1>6 DEF Safe, TypeOK, TypeLedger
    <3>. QED
      BY <3>1 DEF AppendActions
  <2>2. state' \in [Runs -> RunState]
    <3>1. state[r].next_sequence + Len(batch) \in Nat
      BY <1>2, <1>3 DEF RunState
    <3>2. state' = [state EXCEPT ![r].next_sequence = state[r].next_sequence + Len(batch)]
      BY DEF AppendActions
    <3>. QED
      BY <3>1, <3>2 DEF Safe, TypeOK, TypeLedger, RunState
  <2>. QED
    BY <2>1, <2>2 DEF AppendActions, Safe, TypeOK, TypeLedger
<1>8. IntentFirst'
  <2>. SUFFICES ASSUME NEW a \in Actions PROVE IntentFirst!(a)'
    BY DEF IntentFirst
  <2>1. CASE action'[a] = action[a]
    BY <2>1 DEF Safe, IntentFirst, Submitted, Ended
  <2>2. CASE action'[a] # action[a]
    BY <2>2, <1>4, <1>6 DEF IntentFirst, Submitted
  <2>. QED
    BY <2>1, <2>2
<1>9. KnownIsSubmitted'
  BY <1>4, <1>5, <1>6 DEF Safe, KnownIsSubmitted, Submitted, robot
<1>10. EndedMeansReported'
  BY <1>4, <1>6 DEF Safe, EndedMeansReported, Stopped, robot, TERMINAL
<1>11. HeldWhileActive'
  <2>1. \A a \in Actions : Active(a)' = Active(a)
    BY <1>4, <1>5, <1>6 DEF Active
  <2>. QED
    BY <2>1 DEF Safe, HeldWhileActive, AppendActions
<1>12. Grows
  BY <1>4, <1>5 DEF Grows, Submitted, robot, Safe, TypeOK, TypeExecutor
<1>. QED
  BY <1>7, <1>8, <1>9, <1>10, <1>11, <1>12 DEF LedgerSafe

\* Transactions on the run alone.
LEMMA RunOnlyStep ==
  ASSUME Safe, state' \in [Runs -> RunState], UNCHANGED <<robot, action, owner, received>>
  PROVE  LedgerSafe' /\ Grows
<1>1. TypeLedger'
  BY DEF Safe, TypeOK, TypeLedger
<1>2. Bookkeeping
  BY DEF Bookkeeping
<1>. QED
  BY <1>1, <1>2, BookkeepingSafe

LEMMA CloseStep ==
  ASSUME Safe, NEW r \in Runs, NEW last, Close(r, last)
  PROVE  state' \in [Runs -> RunState]
  BY DEF Close, Safe, TypeOK, TypeLedger, RunState

LEMMA ObservationsTyped ==
  ASSUME Safe, NEW r \in Runs
  PROVE  {state[r].observation} \cup NewObservations(r) \subseteq Observation
<1>1. now \in Nat /\ state[r].observation \in Observation /\ MaxObs \in Nat /\ Validity \subseteq BOOLEAN
  BY SchedulerAssumption DEF SchedulerAssumption, Safe, TypeOK, TypeExecutor, TypeLedger, RunState
<1>. QED
  BY <1>1 DEF NewObservations, Observation

LEMMA ReviseStep ==
  ASSUME Safe, NEW r \in Runs, NEW observation \in Observation, Revise(r, observation)
  PROVE  state' \in [Runs -> RunState]
<1>1. "READY" \in TaskStatus
  BY DEF TaskStatus
<1>2. state[r].plan_version + 1 \in Nat
  BY DEF Safe, TypeOK, TypeLedger, RunState
<1>. QED
  BY <1>1, <1>2 DEF Revise, Safe, TypeOK, TypeLedger, RunState

LEMMA ObserveStep ==
  ASSUME Safe, NEW r \in Runs, NEW observation \in Observation, Observe(r, observation)
  PROVE  state' \in [Runs -> RunState]
  BY DEF Observe, Safe, TypeOK, TypeLedger, RunState

LEMMA VerdictStep ==
  ASSUME Safe, NEW r \in Runs, PassFinal(r) \/ FailVerification(r)
  PROVE  state' \in [Runs -> RunState]
<1>1. {"SUCCEEDED", "RECOVERING"} \subseteq TaskStatus
  BY DEF TaskStatus, FinalStatus
<1>. QED
  BY <1>1 DEF PassFinal, FailVerification, Safe, TypeOK, TypeLedger, RunState

-----------------------------------------------------------------------------
(* The frames of the processes.                                            *)

LEMMA IdleFrame == Idle \in ProcState /\ FrameOK(Idle)'
  BY DEF Idle, ProcState, PC, FrameOK

LEMMA ContinueFrame ==
  ASSUME NEW f \in ProcState, f.pc # "idle", FrameOK(f)'
  PROVE  /\ Continue(f) \in ProcState /\ Continue(f).pc # "submit"
         /\ FrameOK(Continue(f))'
<1>1. CASE Continue(f) = Idle
  BY <1>1, IdleFrame DEF Idle
<1>2. CASE \E pc \in {"cancel", "lookup", "reconcile", "settle"} :
             Continue(f) = [f EXCEPT !.pc = pc, !.act = None, !.snap = 0]
  <2>1. PICK pc \in {"cancel", "lookup", "reconcile", "settle"} :
          Continue(f) = [f EXCEPT !.pc = pc, !.act = None, !.snap = 0]
    BY <1>2
  <2>2. Continue(f) \in ProcState /\ Continue(f).pc = pc
    <3>1. pc \in PC
      BY DEF PC
    <3>2. Continue(f).pc = pc
      BY <2>1 DEF ProcState
    <3>3. Continue(f) \in ProcState
      <4>1. [f EXCEPT !.pc = pc, !.act = None, !.snap = 0] \in ProcState
        BY <3>1 DEF ProcState
      <4>. QED
        BY <2>1, <4>1
    <3>. QED
      BY <3>2, <3>3
  <2>3. Continue(f).run = f.run /\ Continue(f).todo = f.todo
    BY <2>1 DEF ProcState
  <2>. QED
    BY <2>2, <2>3 DEF FrameOK
<1>3. f.loop \in {"dispatch", "cancel", "lookup"}
  BY DEF ProcState
<1>. QED
  BY <1>1, <1>2, <1>3 DEF Continue

\* A frame that is not touched stays good.
LEMMA FramesStay ==
  ASSUME Safe, Grows, TypeExecutor', NEW f \in ProcState, FrameOK(f)
  PROVE  FrameOK(f)'
<1>1. f.todo \subseteq Actions /\ f.snap \in Nat
  BY DEF ProcState
<1>2. \A a \in Actions : Len(events[a]) \in Nat /\ Len(events'[a]) \in Nat
  BY DEF Safe, TypeOK, TypeExecutor
<1>3. started \subseteq Actions
  BY DEF Safe, TypeOK, TypeExecutor
<1>. QED
  BY <1>1, <1>2, <1>3 DEF Grows, FrameOK

\* One process moves to frame g.
LEMMA GotoSafe ==
  ASSUME Safe, Grows, LedgerSafe', TypeExecutor', LastWord', SubmittedOnce',
         NEW p \in Procs, NEW g \in ProcState, FrameOK(g)',
         proc' = [proc EXCEPT ![p] = g]
  PROVE  Safe'
<1>1. proc \in [Procs -> ProcState]
  BY DEF Safe, TypeOK
<1>2. FramesOK'
  <2>. SUFFICES ASSUME NEW q \in Procs PROVE FrameOK(proc[q])'
    BY DEF FramesOK
  <2>1. CASE q = p
    BY <1>1, <2>1 DEF FrameOK
  <2>2. CASE q # p
    <3>1. PICK f \in ProcState : f = proc[q]
      BY <1>1
    <3>2. FrameOK(f)
      BY <3>1 DEF Safe, FramesOK
    <3>3. FrameOK(f)'
      BY <3>2, FramesStay
    <3>4. proc'[q] = f
      BY <1>1, <2>2, <3>1
    <3>. QED
      BY <3>3, <3>4 DEF FrameOK
  <2>. QED
    BY <2>1, <2>2
<1>3. proc' \in [Procs -> ProcState]
  BY <1>1
<1>. QED
  BY <1>2, <1>3 DEF Safe, LedgerSafe, TypeOK

\* No process moves.
LEMMA StaySafe ==
  ASSUME Safe, Grows, LedgerSafe', TypeExecutor', LastWord', SubmittedOnce', UNCHANGED proc
  PROVE  Safe'
<1>1. proc \in [Procs -> ProcState]
  BY DEF Safe, TypeOK
<1>2. FramesOK'
  <2>. SUFFICES ASSUME NEW q \in Procs PROVE FrameOK(proc[q])'
    BY DEF FramesOK
  <2>1. PICK f \in ProcState : f = proc[q]
    BY <1>1
  <2>2. FrameOK(f)'
    BY <2>1, FramesStay DEF Safe, FramesOK
  <2>. QED
    BY <2>1, <2>2 DEF FrameOK
<1>. QED
  BY <1>1, <1>2 DEF Safe, LedgerSafe, TypeOK

-----------------------------------------------------------------------------
(* The executor.                                                           *)

\* What a step of the executor keeps.
ExecutorSafe == TypeExecutor /\ LedgerSafe /\ LastWord

LEMMA AcceptStep ==
  ASSUME Safe, NEW a \in Actions, Submitted(a), Accept(a), UNCHANGED ledger
  PROVE  ExecutorSafe' /\ Grows
<1>. USE DEF ledger
<1>1. TypeExecutor' /\ LastWord' /\ TypeLedger'
  BY DEF Accept, Safe, TypeOK, TypeExecutor, LastWord, TypeLedger
<1>2. IntentFirst' /\ KnownIsSubmitted'
  BY DEF Accept, Safe, IntentFirst, KnownIsSubmitted, Submitted, Ended
<1>3. EndedMeansReported' /\ HeldWhileActive'
  BY DEF Accept, Safe, EndedMeansReported, Stopped, HeldWhileActive, Active
<1>4. Grows
  BY DEF Accept, Grows, Submitted, Safe, TypeOK, TypeExecutor
<1>. QED
  BY <1>1, <1>2, <1>3, <1>4 DEF ExecutorSafe, LedgerSafe

LEMMA InjectStep ==
  ASSUME Safe, NEW a \in Actions, NEW status \in TERMINAL \cup {"RUNNING"},
         NEW stopped \in BOOLEAN, stopped => status \in TERMINAL,
         Inject(a, status, stopped), UNCHANGED ledger
  PROVE  ExecutorSafe' /\ Grows /\ Len(events'[a]) = Len(events[a]) + 1
<1>. USE DEF ledger
<1>. DEFINE event == [status |-> status, stopped |-> stopped, at |-> now]
<1>1. /\ a \in started /\ events[a] \in Seq(Event) /\ event \in Event
      /\ events' = [events EXCEPT ![a] = Append(events[a], event)]
      /\ \A b \in Actions : events[b] \in Seq(Event)
  <2>1. event \in Event
    BY DEF Safe, TypeOK, TypeExecutor, Event
  <2>2. a \in started /\ events' = [events EXCEPT ![a] = Append(events[a], event)]
    BY DEF Inject
  <2>3. \A b \in Actions : events[b] \in Seq(Event)
    BY DEF Safe, TypeOK, TypeExecutor
  <2>. QED
    BY <2>1, <2>2, <2>3
<1>2. /\ events'[a] = Append(events[a], event)
      /\ \A b \in Actions \ {a} : events'[b] = events[b]
  BY <1>1 DEF Safe, TypeOK, TypeExecutor
<1>3. /\ Len(events'[a]) = Len(events[a]) + 1
      /\ events'[a][Len(events[a]) + 1] = event
      /\ \A n \in 1..Len(events[a]) : events'[a][n] = events[a][n]
  BY <1>1, <1>2
<1>4. \A n \in 1..Len(events[a]) : events[a][n].status \notin TERMINAL
  <2>1. \A n \in 1..Len(events[a]) :
          events[a][n].status \in TERMINAL => n = Len(events[a])
    BY DEF Safe, LastWord
  <2>2. events[a] # <<>> => events[a][Len(events[a])].status \notin TERMINAL
    BY <1>1 DEF Inject, Snapshot, SnapshotStatus
  <2>. QED
    BY <1>1, <2>1, <2>2
<1>5. TypeExecutor' /\ TypeLedger'
  BY <1>1 DEF Inject, Safe, TypeOK, TypeExecutor, TypeLedger
<1>6. LastWord'
  <2>. SUFFICES ASSUME NEW b \in Actions, NEW n \in 1..Len(events'[b])
                PROVE  /\ events'[b][n].status \in TERMINAL => n = Len(events'[b])
                       /\ events'[b][n].stopped => events'[b][n].status \in TERMINAL
    BY DEF LastWord
  <2>1. CASE b # a
    BY <2>1, <1>2 DEF Safe, LastWord
  <2>2. CASE b = a /\ n = Len(events[a]) + 1
    BY <2>2, <1>3
  <2>3. CASE b = a /\ n \in 1..Len(events[a])
    BY <2>3, <1>3, <1>4 DEF Safe, LastWord
  <2>. QED
    BY <1>1, <1>3, <2>1, <2>2, <2>3
<1>7. IntentFirst' /\ KnownIsSubmitted' /\ HeldWhileActive'
  <2>1. IntentFirst' /\ HeldWhileActive'
    BY DEF Safe, IntentFirst, HeldWhileActive, Active, Submitted, Ended
  <2>2. KnownIsSubmitted'
    BY <1>1, <1>2 DEF Inject, Safe, KnownIsSubmitted, Submitted
  <2>. QED
    BY <2>1, <2>2
<1>8. EndedMeansReported'
  <2>1. action[a].status \notin TERMINAL \ {"INVALIDATED"}
    <3>. SUFFICES ASSUME action[a].status \in TERMINAL \ {"INVALIDATED"} PROVE FALSE
      OBVIOUS
    <3>1. Stopped(a)
      BY DEF Safe, EndedMeansReported
    <3>2. Len(events[a]) \in 1..Len(events[a])
      BY <1>1, <3>1 DEF Stopped
    <3>. QED
      BY <1>4, <3>1, <3>2 DEF Stopped, Safe, LastWord
  <2>. QED
    BY <1>2, <2>1 DEF Safe, EndedMeansReported, Stopped
<1>9. Grows
  BY <1>1, <1>2, <1>3 DEF Grows, Inject, Submitted
<1>. QED
  BY <1>3, <1>5, <1>6, <1>7, <1>8, <1>9 DEF ExecutorSafe, LedgerSafe

\* Nothing but time, or requests under way.
LEMMA WaitStep ==
  ASSUME Safe, now' \in Nat, UNCHANGED <<started, events, ledger>>,
         inflight' \subseteq Actions, \A a \in inflight' : Submitted(a)
  PROVE  ExecutorSafe' /\ Grows
<1>. USE DEF ledger
<1>1. TypeExecutor' /\ LastWord' /\ TypeLedger'
  BY DEF Safe, TypeOK, TypeExecutor, LastWord, TypeLedger
<1>2. IntentFirst' /\ KnownIsSubmitted'
  BY DEF Safe, IntentFirst, KnownIsSubmitted, Submitted, Ended
<1>3. EndedMeansReported' /\ HeldWhileActive'
  BY DEF Safe, EndedMeansReported, Stopped, HeldWhileActive, Active
<1>4. Grows
  BY DEF Grows, Submitted, Safe, TypeOK, TypeExecutor
<1>. QED
  BY <1>1, <1>2, <1>3, <1>4 DEF ExecutorSafe, LedgerSafe

LEMMA RobotStands ==
  ASSUME Safe, UNCHANGED robot
  PROVE  TypeExecutor' /\ LastWord'
  BY DEF robot, Safe, TypeOK, TypeExecutor, LastWord

\* No submission is made, sent or received.
LEMMA OnceStays ==
  ASSUME Safe, UNCHANGED <<started, inflight>>,
         \A p \in Procs : proc'[p].pc = "submit" =>
            proc[p].pc = "submit" /\ proc'[p].act = proc[p].act
  PROVE  SubmittedOnce'
  BY DEF Safe, SubmittedOnce

-----------------------------------------------------------------------------
(* The steps of the processes.                                             *)

LEMMA FrameOf ==
  ASSUME Safe, NEW p \in Procs
  PROVE  \E f \in ProcState : f = proc[p] /\ FrameOK(f)
  BY DEF Safe, TypeOK, FramesOK

\* A transaction, after which p goes on with g.
LEMMA TransactionSafe ==
  ASSUME Safe, LedgerSafe', Grows, UNCHANGED robot,
         NEW p \in Procs, NEW g \in ProcState, FrameOK(g)', g.pc # "submit",
         proc' = [proc EXCEPT ![p] = g]
  PROVE  Safe'
<1>1. SubmittedOnce'
  BY OnceStays DEF Safe, TypeOK, robot
<1>. QED
  BY <1>1, RobotStands, GotoSafe

\* A read, or an answer without effect at the executor, after which p goes on with g.
LEMMA ReadSafe ==
  ASSUME Safe, UNCHANGED <<robot, ledger>>,
         NEW p \in Procs, NEW g \in ProcState, FrameOK(g), g.pc # "submit",
         proc' = [proc EXCEPT ![p] = g]
  PROVE  Safe'
<1>1. ExecutorSafe' /\ Grows
  BY WaitStep DEF robot, Safe, TypeOK, TypeExecutor, KnownIsSubmitted
<1>2. FrameOK(g)'
  BY <1>1, FramesStay DEF ExecutorSafe
<1>. QED
  BY <1>1, <1>2, TransactionSafe DEF ExecutorSafe

\* A transaction of one-step calls.
LEMMA CallSafe ==
  ASSUME Safe, LedgerSafe', Grows, UNCHANGED robot, UNCHANGED proc
  PROVE  Safe'
<1>1. SubmittedOnce'
  BY OnceStays DEF robot
<1>. QED
  BY <1>1, RobotStands, StaySafe

LEMMA DispatchSafe ==
  ASSUME Safe, NEW p \in Procs, NEW r \in Runs, NEW a \in Actions, Dispatch(p, r, a)
  PROVE  Safe'
<1>. DEFINE g == [Idle EXCEPT !.pc = "submit", !.run = r, !.act = a]
<1>1. SubmitIntent(r, a) /\ UNCHANGED robot /\ proc' = [proc EXCEPT ![p] = g]
  BY DEF Dispatch, Goto
<1>2. LedgerSafe' /\ Grows /\ Submitted(a)' /\ action'[a].run_id = r /\ ~Submitted(a)
  BY <1>1, SubmitIntentStep
<1>3. /\ g \in ProcState /\ g.pc = "submit" /\ g.run = r /\ g.act = a /\ g.todo = {}
  BY DEF Idle, ProcState, PC
<1>4. FrameOK(g)'
  BY <1>2, <1>3 DEF FrameOK
<1>5. SubmittedOnce'
  <2>1. a \notin started \cup inflight
    BY <1>2 DEF Safe, KnownIsSubmitted
  <2>2. \A q \in Procs : proc[q].pc = "submit" => proc[q].act # a
    BY <1>2 DEF Safe, FramesOK, FrameOK
  <2>3. \A q \in Procs : proc'[q] = IF q = p THEN g ELSE proc[q]
    BY <1>1 DEF Safe, TypeOK
  <2>. QED
    BY <1>1, <1>3, <2>1, <2>2, <2>3 DEF Safe, SubmittedOnce, robot
<1>. QED
  BY <1>1, <1>2, <1>3, <1>4, <1>5, RobotStands, GotoSafe

\* A submission that reaches the executor.
LEMMA SubmitReaches ==
  ASSUME Safe, NEW p \in Procs, NEW g \in ProcState, g.pc # "submit",
         proc[p].pc = "submit", Accept(proc[p].act), UNCHANGED ledger,
         proc' = [proc EXCEPT ![p] = g], Grows => FrameOK(g)'
  PROVE  Safe'
<1>1. PICK f \in ProcState : f = proc[p] /\ FrameOK(f)
  BY FrameOf
<1>2. f.act \in Actions /\ Submitted(f.act) /\ Accept(f.act)
  BY <1>1 DEF FrameOK
<1>3. ExecutorSafe' /\ Grows
  BY <1>2, AcceptStep
<1>4. SubmittedOnce'
  BY <1>1, <1>2 DEF Safe, TypeOK, SubmittedOnce, Accept
<1>. QED
  BY <1>3, <1>4, GotoSafe DEF ExecutorSafe

LEMMA SubmitAnsweredSafe ==
  ASSUME Safe, NEW p \in Procs, SubmitAnswered(p)
  PROVE  Safe'
<1>1. PICK f \in ProcState : f = proc[p] /\ FrameOK(f)
  BY FrameOf
<1>2. PICK n \in Nat : n = Len(events[f.act])
  BY <1>1 DEF FrameOK, SubmitAnswered, Goto, Safe, TypeOK, TypeExecutor
<1>. DEFINE g == [f EXCEPT !.pc = "accept", !.snap = n]
<1>3. /\ f.pc = "submit" /\ Accept(f.act) /\ UNCHANGED ledger
      /\ proc' = [proc EXCEPT ![p] = g]
  BY <1>1, <1>2 DEF SubmitAnswered, Goto, Snapshot
<1>4. /\ g \in ProcState /\ g.pc = "accept" /\ g.run = f.run /\ g.act = f.act
      /\ g.todo = f.todo /\ g.snap = n
  BY DEF ProcState, PC
<1>5. Grows => FrameOK(g)'
  BY <1>1, <1>2, <1>3, <1>4 DEF Grows, FrameOK, Accept, ProcState
<1>. QED
  BY <1>1, <1>3, <1>4, <1>5, SubmitReaches

LEMMA SubmitReplyLostSafe ==
  ASSUME Safe, NEW p \in Procs, SubmitReplyLost(p)
  PROVE  Safe'
<1>1. PICK f \in ProcState : f = proc[p] /\ FrameOK(f)
  BY FrameOf
<1>. DEFINE g == [f EXCEPT !.pc = "unknown"]
<1>3. /\ f.pc = "submit" /\ Accept(f.act) /\ UNCHANGED ledger
      /\ proc' = [proc EXCEPT ![p] = g]
  BY <1>1 DEF SubmitReplyLost, Goto
<1>4. /\ g \in ProcState /\ g.pc = "unknown" /\ g.run = f.run /\ g.act = f.act
      /\ g.todo = f.todo
  BY DEF ProcState, PC
<1>5. Grows => FrameOK(g)'
  BY <1>1, <1>3, <1>4 DEF Grows, FrameOK, ProcState
<1>. QED
  BY <1>1, <1>3, <1>4, <1>5, SubmitReaches

LEMMA SubmitTimesOutSafe ==
  ASSUME Safe, NEW p \in Procs, SubmitTimesOut(p)
  PROVE  Safe'
<1>1. PICK f \in ProcState : f = proc[p] /\ FrameOK(f)
  BY FrameOf
<1>. DEFINE g == [f EXCEPT !.pc = "unknown"]
<1>2. /\ f.pc = "submit" /\ inflight' = inflight \cup {f.act}
      /\ UNCHANGED <<started, events, now, ledger>>
      /\ proc' = [proc EXCEPT ![p] = g]
  BY <1>1 DEF SubmitTimesOut, Goto
<1>3. f.act \in Actions /\ Submitted(f.act) /\ f.run \in Runs /\ f.run = action[f.act].run_id
  BY <1>1, <1>2 DEF FrameOK
<1>4. ExecutorSafe' /\ Grows
  BY <1>2, <1>3, WaitStep DEF Safe, TypeOK, TypeExecutor, KnownIsSubmitted
<1>5. /\ g \in ProcState /\ g.pc = "unknown" /\ g.run = f.run /\ g.act = f.act
      /\ g.todo = f.todo
  BY DEF ProcState, PC
<1>6. FrameOK(g)'
  BY <1>1, <1>3, <1>4, <1>5 DEF Grows, FrameOK, ProcState
<1>7. SubmittedOnce'
  BY <1>1, <1>2, <1>5 DEF Safe, TypeOK, SubmittedOnce
<1>. QED
  BY <1>2, <1>4, <1>5, <1>6, <1>7, GotoSafe DEF ExecutorSafe

LEMMA SubmitDisconnectedSafe ==
  ASSUME Safe, NEW p \in Procs, SubmitDisconnected(p)
  PROVE  Safe'
<1>1. PICK f \in ProcState : f = proc[p] /\ FrameOK(f)
  BY FrameOf
<1>. DEFINE g == [f EXCEPT !.pc = "unknown"]
<1>2. f.pc = "submit" /\ UNCHANGED <<robot, ledger>> /\ proc' = [proc EXCEPT ![p] = g]
  BY <1>1 DEF SubmitDisconnected, Goto
<1>3. /\ g \in ProcState /\ g.pc = "unknown" /\ g.run = f.run /\ g.act = f.act
      /\ g.todo = f.todo
  BY DEF ProcState, PC
<1>4. FrameOK(g)
  BY <1>1, <1>2, <1>3 DEF FrameOK
<1>. QED
  BY <1>2, <1>3, <1>4, ReadSafe

LEMMA UnknownSafe ==
  ASSUME Safe, NEW p \in Procs, Unknown(p)
  PROVE  Safe'
<1>1. PICK f \in ProcState : f = proc[p] /\ FrameOK(f)
  BY FrameOf
<1>2. /\ f.pc = "unknown" /\ UNCHANGED robot /\ MarkUnknown(f.run, f.act)
      /\ proc' = [proc EXCEPT ![p] = Continue(f)]
  BY <1>1 DEF Unknown, Goto
<1>3. f.run \in Runs /\ f.act \in Actions /\ Submitted(f.act)
  BY <1>1, <1>2 DEF FrameOK
<1>4. LedgerSafe' /\ Grows
  BY <1>2, <1>3, MarkUnknownStep, BookkeepingSafe
<1>5. FrameOK(f)'
  BY <1>1, <1>2, <1>4, FramesStay, RobotStands
<1>. QED
  BY <1>2, <1>4, <1>5, ContinueFrame, TransactionSafe

LEMMA AcceptAnswerSafe ==
  ASSUME Safe, NEW p \in Procs, AcceptAnswer(p)
  PROVE  Safe'
<1>1. PICK f \in ProcState : f = proc[p] /\ FrameOK(f)
  BY FrameOf
<1>. DEFINE h == [f EXCEPT !.pc = "apply"]
<1>2. /\ f.pc = "accept" /\ UNCHANGED robot /\ AcceptSnapshot(f.run, f.act, f.snap)
      /\ proc' = [proc EXCEPT ![p] = IF f.snap > 0 THEN h ELSE Continue(f)]
  BY <1>1 DEF AcceptAnswer, Goto
<1>3. f.run \in Runs /\ f.act \in started
  BY <1>1, <1>2 DEF FrameOK
<1>4. LedgerSafe' /\ Grows /\ action'[f.act].execution_id
  BY <1>2, <1>3, AcceptSnapshotStep, BookkeepingSafe
<1>5. FrameOK(f)'
  BY <1>1, <1>2, <1>4, FramesStay, RobotStands
<1>6. CASE f.snap > 0
  <2>1. /\ h \in ProcState /\ h.pc = "apply" /\ h.run = f.run /\ h.act = f.act
        /\ h.todo = f.todo /\ h.snap = f.snap
    BY DEF ProcState, PC
  <2>2. FrameOK(h)'
    BY <1>2, <1>4, <1>5, <1>6, <2>1 DEF FrameOK
  <2>. QED
    BY <1>2, <1>4, <1>6, <2>1, <2>2, TransactionSafe
<1>7. CASE ~(f.snap > 0)
  BY <1>2, <1>4, <1>5, <1>7, ContinueFrame, TransactionSafe
<1>. QED
  BY <1>6, <1>7

LEMMA ApplyAnswerSafe ==
  ASSUME Safe, NEW p \in Procs, ApplyAnswer(p)
  PROVE  Safe'
<1>1. PICK f \in ProcState : f = proc[p] /\ FrameOK(f)
  BY FrameOf
<1>2. /\ f.pc = "apply" /\ UNCHANGED robot /\ Apply(f.run, f.act, f.snap)
      /\ proc' = [proc EXCEPT ![p] = Continue(f)]
  BY <1>1 DEF ApplyAnswer, Goto
<1>3. f.run \in Runs /\ f.act \in Actions /\ f.snap \in 1..Len(events[f.act])
  BY <1>1, <1>2 DEF FrameOK, ProcState, Safe, TypeOK, TypeExecutor
<1>4. LedgerSafe' /\ Grows
  BY <1>2, <1>3, ApplyStep
<1>5. FrameOK(f)'
  BY <1>1, <1>2, <1>4, FramesStay, RobotStands
<1>. QED
  BY <1>2, <1>4, <1>5, ContinueFrame, TransactionSafe

LEMMA FeedbackSafe ==
  ASSUME Safe, NEW a \in Actions, Feedback(a)
  PROVE  Safe'
<1>1. PICK n \in 1..Len(events[a]) : Apply(action[a].run_id, a, n)
  BY DEF Feedback
<1>2. action[a].run_id \in Runs
  BY <1>1 DEF Apply, Safe, KnownIsSubmitted, IntentFirst
<1>. QED
  BY <1>1, <1>2, ApplyStep, CallSafe DEF Feedback

LEMMA RequestStopSafe ==
  ASSUME Safe, NEW p \in Procs, NEW r \in Runs, NEW reason \in StopRequests,
         RequestStop(p, r, reason)
  PROVE  Safe'
<1>. DEFINE g == [Idle EXCEPT !.pc = "stop_read", !.run = r, !.loop = "cancel"]
<1>1. FreezePlan(r, reason) /\ UNCHANGED robot /\ proc' = [proc EXCEPT ![p] = g]
  BY DEF RequestStop, Goto
<1>2. g \in ProcState /\ g.pc = "stop_read" /\ g.run = r /\ g.todo = {}
  BY DEF Idle, ProcState, PC
<1>3. FrameOK(g)'
  BY <1>2 DEF FrameOK
<1>4. reason \in StopReasons
  BY ConstantFacts
<1>. QED
  BY <1>1, <1>2, <1>3, <1>4, FreezePlanStep, BookkeepingSafe, TransactionSafe

LEMMA TickStopSafe ==
  ASSUME Safe, NEW p \in Procs, TickStop(p)
  PROVE  Safe'
<1>1. PICK f \in ProcState : f = proc[p] /\ FrameOK(f)
  BY FrameOf
<1>. DEFINE g == [f EXCEPT !.pc = "stop_read", !.loop = "cancel"]
<1>2. /\ f.pc = "tick_stop" /\ UNCHANGED robot /\ FreezePlan(f.run, "timeout")
      /\ proc' = [proc EXCEPT ![p] = g]
  BY <1>1 DEF TickStop, Goto
<1>3. f.run \in Runs /\ "timeout" \in StopReasons
  BY <1>1, <1>2 DEF FrameOK, StopReasons
<1>4. LedgerSafe' /\ Grows
  BY <1>2, <1>3, FreezePlanStep, BookkeepingSafe
<1>5. g \in ProcState /\ g.pc = "stop_read" /\ g.run = f.run /\ g.todo = f.todo
  BY DEF ProcState, PC
<1>6. FrameOK(f)'
  BY <1>1, <1>2, <1>4, FramesStay, RobotStands
<1>7. FrameOK(g)'
  BY <1>3, <1>5, <1>6 DEF FrameOK
<1>. QED
  BY <1>2, <1>4, <1>5, <1>7, TransactionSafe

LEMMA SettleSafe ==
  ASSUME Safe, NEW p \in Procs, Settle(p)
  PROVE  Safe'
<1>1. /\ proc[p].pc = "settle" /\ UNCHANGED robot /\ ConcludeStop(proc[p].run)
      /\ proc' = [proc EXCEPT ![p] = Idle]
  BY DEF Settle, Goto
<1>2. proc[p].run \in Runs
  BY <1>1 DEF Safe, FramesOK, FrameOK
<1>3. LedgerSafe' /\ Grows
  BY <1>1, <1>2, ConcludeStopStep, BookkeepingSafe
<1>. QED
  BY <1>1, <1>3, IdleFrame, TransactionSafe DEF Idle

LEMMA CrashSafe ==
  ASSUME Safe, NEW p \in Procs, Crash(p)
  PROVE  Safe'
<1>1. FrameOK(Idle) /\ Idle \in ProcState /\ Idle.pc = "idle"
  BY IdleFrame DEF Idle, FrameOK
<1>. QED
  BY <1>1, ReadSafe DEF Crash

\* The state in which ContinueFrame is needed for a call that only reads.
LEMMA ContinueReads ==
  ASSUME Safe, NEW p \in Procs, NEW f \in ProcState, f.pc # "idle", FrameOK(f),
         UNCHANGED <<robot, ledger>>, proc' = [proc EXCEPT ![p] = Continue(f)]
  PROVE  Safe'
<1>1. ExecutorSafe' /\ Grows
  BY WaitStep DEF robot, Safe, TypeOK, TypeExecutor, KnownIsSubmitted
<1>2. FrameOK(f)'
  BY <1>1, FramesStay DEF ExecutorSafe
<1>. QED
  BY <1>1, <1>2, ContinueFrame, TransactionSafe DEF ExecutorSafe

LEMMA StopReadSafe ==
  ASSUME Safe, NEW p \in Procs, StopRead(p)
  PROVE  Safe'
<1>1. PICK f \in ProcState : f = proc[p] /\ FrameOK(f)
  BY FrameOf
<1>2. PICK S \in SUBSET Actions :
        S = {a \in ActionsOf(f.run) : action[a].status = "STOPPING"}
  BY DEF ActionsOf
<1>. DEFINE g == [f EXCEPT !.todo = S]
<1>3. /\ f.pc = "stop_read" /\ UNCHANGED <<robot, ledger>>
      /\ proc' = [proc EXCEPT ![p] = Continue(g)]
  BY <1>1, <1>2 DEF StopRead, Goto
<1>4. g \in ProcState /\ g.pc = "stop_read" /\ g.run = f.run /\ g.todo = S
  BY <1>3 DEF ProcState
<1>5. \A a \in S : Submitted(a) /\ f.run = action[a].run_id
  BY <1>2 DEF ActionsOf, Safe, IntentFirst
<1>6. FrameOK(g)
  BY <1>1, <1>3, <1>4, <1>5 DEF FrameOK
<1>. QED
  BY <1>3, <1>4, <1>6, ContinueReads

LEMMA ReconcileReadSafe ==
  ASSUME Safe, NEW p \in Procs, ReconcileRead(p)
  PROVE  Safe'
<1>1. PICK f \in ProcState : f = proc[p] /\ FrameOK(f)
  BY FrameOf
<1>2. PICK S \in SUBSET Actions : S = ActiveOf(f.run)
  BY DEF ActionsOf, ActiveOf
<1>. DEFINE g == [f EXCEPT !.loop = "lookup", !.todo = S]
<1>3. /\ f.pc = "reconcile" /\ UNCHANGED <<robot, ledger>>
      /\ proc' = [proc EXCEPT ![p] = Continue(g)]
  BY <1>1, <1>2 DEF ReconcileRead, Goto
<1>4. g \in ProcState /\ g.pc = "reconcile" /\ g.run = f.run /\ g.todo = S
  BY <1>3 DEF ProcState
<1>5. \A a \in S : Submitted(a) /\ f.run = action[a].run_id
  BY <1>2 DEF ActionsOf, ActiveOf, Active, TERMINAL, Safe, IntentFirst
<1>6. FrameOK(g)
  BY <1>1, <1>3, <1>4, <1>5 DEF FrameOK
<1>. QED
  BY <1>3, <1>4, <1>6, ContinueReads

LEMMA ReconcileSafe ==
  ASSUME Safe, NEW p \in Procs, NEW r \in Runs, Reconcile(p, r)
  PROVE  Safe'
<1>. DEFINE g == [Idle EXCEPT !.pc = "reconcile", !.run = r, !.loop = "lookup"]
<1>1. UNCHANGED <<robot, ledger>> /\ proc' = [proc EXCEPT ![p] = g]
  BY DEF Reconcile, Goto
<1>2. g \in ProcState /\ g.pc = "reconcile" /\ g.run = r /\ g.todo = {}
  BY DEF Idle, ProcState, PC
<1>3. FrameOK(g)
  BY <1>2 DEF FrameOK
<1>. QED
  BY <1>1, <1>2, <1>3, ReadSafe

LEMMA TickSafe ==
  ASSUME Safe, NEW p \in Procs, NEW r \in Runs, Tick(p, r)
  PROVE  Safe'
<1>1. PICK pc \in {"tick_stop", "reconcile"} :
        /\ UNCHANGED <<robot, ledger>>
        /\ proc' = [proc EXCEPT ![p] = [Idle EXCEPT !.pc = pc, !.run = r, !.ticking = TRUE]]
  BY DEF Tick, Goto
<1>. DEFINE g == [Idle EXCEPT !.pc = pc, !.run = r, !.ticking = TRUE]
<1>2. g \in ProcState /\ g.pc = pc /\ g.run = r /\ g.todo = {}
  BY DEF Idle, ProcState, PC
<1>3. FrameOK(g)
  BY <1>2 DEF FrameOK
<1>. QED
  BY <1>1, <1>2, <1>3, ReadSafe

\* The frame a loop moves to with the action it takes.
LEMMA TakeFrame ==
  ASSUME NEW f \in ProcState, NEW a \in f.todo, NEW pc \in PC, NEW n \in Nat
  PROVE  /\ Take(f, a, pc, n) \in ProcState
         /\ Take(f, a, pc, n).pc = pc /\ Take(f, a, pc, n).run = f.run
         /\ Take(f, a, pc, n).act = a /\ Take(f, a, pc, n).snap = n
         /\ Take(f, a, pc, n).todo = f.todo \ {a}
  BY DEF Take, ProcState

LEMMA CancelUnsupportedSafe ==
  ASSUME Safe, NEW p \in Procs, CancelUnsupported(p)
  PROVE  Safe'
<1>1. PICK f \in ProcState : f = proc[p] /\ FrameOK(f)
  BY FrameOf
<1>2. PICK a \in f.todo :
        /\ f.pc = "cancel" /\ UNCHANGED robot /\ MarkUnknown(f.run, a)
        /\ proc' = [proc EXCEPT ![p] = Continue(Take(f, a, "cancel", 0))]
  BY <1>1 DEF CancelUnsupported, Goto
<1>. DEFINE g == Take(f, a, "cancel", 0)
<1>3. f.run \in Runs /\ a \in Actions /\ Submitted(a)
  BY <1>1, <1>2 DEF FrameOK, ProcState
<1>4. LedgerSafe' /\ Grows
  BY <1>2, <1>3, MarkUnknownStep, BookkeepingSafe
<1>5. /\ g \in ProcState /\ g.pc = "cancel" /\ g.run = f.run /\ g.todo = f.todo \ {a}
  BY TakeFrame DEF PC
<1>6. FrameOK(f)'
  BY <1>1, <1>2, <1>4, FramesStay, RobotStands
<1>7. FrameOK(g)'
  BY <1>3, <1>5, <1>6 DEF FrameOK
<1>8. /\ Continue(g) \in ProcState /\ Continue(g).pc # "submit" /\ FrameOK(Continue(g))'
  BY <1>5, <1>7, ContinueFrame
<1>. QED
  BY <1>2, <1>4, <1>8, TransactionSafe

LEMMA CancelConfirmedSafe ==
  ASSUME Safe, NEW p \in Procs, CancelConfirmed(p)
  PROVE  Safe'
<1>1. PICK f \in ProcState : f = proc[p] /\ FrameOK(f)
  BY FrameOf
<1>2. PICK a \in f.todo :
        /\ f.pc = "cancel" /\ ConfirmCancel(a) /\ UNCHANGED ledger
        /\ proc' = [proc EXCEPT ![p] = Take(f, a, "accept", Snapshot(a) + 1)]
  BY <1>1 DEF CancelConfirmed, Goto
<1>3. f.run \in Runs /\ a \in Actions /\ f.run = action[a].run_id
  BY <1>1, <1>2 DEF FrameOK, ProcState
<1>4. a \in started /\ Inject(a, "CANCELED", TRUE) /\ "CANCELED" \in TERMINAL
  BY <1>2 DEF ConfirmCancel, Inject, TERMINAL
<1>5. ExecutorSafe' /\ Grows /\ Len(events'[a]) = Len(events[a]) + 1
  BY <1>2, <1>3, <1>4, InjectStep
<1>6. PICK n \in Nat : n = Snapshot(a) + 1
  BY <1>3 DEF Snapshot, Safe, TypeOK, TypeExecutor
<1>. DEFINE g == Take(f, a, "accept", n)
<1>7. /\ g \in ProcState /\ g.pc = "accept" /\ g.run = f.run /\ g.act = a
      /\ g.snap = n /\ g.todo = f.todo \ {a}
  BY TakeFrame DEF PC
<1>8. FrameOK(f)'
  BY <1>1, <1>5, FramesStay DEF ExecutorSafe
<1>9. FrameOK(g)'
  BY <1>3, <1>4, <1>5, <1>6, <1>7, <1>8 DEF FrameOK, Inject, Snapshot
<1>10. SubmittedOnce'
  BY <1>2, <1>4, <1>6, <1>7, OnceStays DEF Inject, Safe, TypeOK
<1>. QED
  BY <1>2, <1>5, <1>6, <1>7, <1>9, <1>10, GotoSafe DEF ExecutorSafe

\* The executor's answer about an action of a loop, or the lack of one.
LEMMA AnswerSafe ==
  ASSUME Safe, NEW p \in Procs, proc[p].pc \in {"cancel", "lookup"},
         NEW a \in proc[p].todo, NEW pc, UNCHANGED <<robot, ledger>>,
         NEW n,
         (pc = "accept" /\ a \in started /\ n = Snapshot(a)) \/ (pc = "unknown" /\ n = 0),
         proc' = [proc EXCEPT ![p] = Take(proc[p], a, pc, n)]
  PROVE  Safe'
<1>1. PICK f \in ProcState : f = proc[p] /\ FrameOK(f)
  BY FrameOf
<1>2. /\ f.run \in Runs /\ a \in f.todo /\ a \in Actions
      /\ Submitted(a) /\ f.run = action[a].run_id
  BY <1>1 DEF FrameOK, ProcState
<1>3. n \in Nat /\ pc \in PC
  BY <1>2 DEF Snapshot, Safe, TypeOK, TypeExecutor, PC
<1>4. PICK g \in ProcState :
        /\ g = Take(f, a, pc, n)
        /\ g.pc = pc /\ g.run = f.run /\ g.act = a /\ g.snap = n /\ g.todo = f.todo \ {a}
  BY <1>2, <1>3, TakeFrame
<1>5. FrameOK(g)
  BY <1>1, <1>2, <1>3, <1>4 DEF FrameOK, Snapshot
<1>. QED
  BY <1>1, <1>4, <1>5, ReadSafe

LEMMA CancelAnsweredSafe ==
  ASSUME Safe, NEW p \in Procs, CancelAnswered(p)
  PROVE  Safe'
  BY AnswerSafe DEF CancelAnswered, Goto

LEMMA CancelFailsSafe ==
  ASSUME Safe, NEW p \in Procs, CancelFails(p)
  PROVE  Safe'
  BY AnswerSafe DEF CancelFails, Goto

LEMMA LookupAnsweredSafe ==
  ASSUME Safe, NEW p \in Procs, LookupAnswered(p)
  PROVE  Safe'
  BY AnswerSafe DEF LookupAnswered, Goto

LEMMA LookupFailsSafe ==
  ASSUME Safe, NEW p \in Procs, LookupFails(p)
  PROVE  Safe'
  BY AnswerSafe DEF LookupFails, Goto

LEMMA EnvironmentSafe ==
  ASSUME Safe, Environment
  PROVE  Safe'
<1>1. CASE \E a \in Actions : AcceptLate(a)
  <2>1. PICK a \in Actions : AcceptLate(a)
    BY <1>1
  <2>2. a \in inflight /\ Submitted(a) /\ Accept(a) /\ UNCHANGED <<ledger, proc>>
    BY <2>1 DEF AcceptLate, Environment, Safe, KnownIsSubmitted
  <2>3. ExecutorSafe' /\ Grows
    BY <2>2, AcceptStep
  <2>4. SubmittedOnce'
    BY <2>2 DEF Safe, SubmittedOnce, Accept
  <2>. QED
    BY <2>2, <2>3, <2>4, StaySafe DEF ExecutorSafe
<1>2. CASE \E a \in Actions, rep \in Reports : Report(a, rep)
  <2>1. PICK a \in Actions, rep \in Reports : Report(a, rep)
    BY <1>2
  <2>2. /\ rep.status \in TERMINAL \cup {"RUNNING"} /\ rep.stopped \in BOOLEAN
        /\ rep.stopped => rep.status \in TERMINAL
    BY ReportsAssumption DEF ReportsAssumption
  <2>3. Inject(a, rep.status, rep.stopped) /\ UNCHANGED <<ledger, proc>>
    BY <2>1 DEF Report, Environment
  <2>4. ExecutorSafe' /\ Grows
    BY <2>2, <2>3, InjectStep
  <2>5. SubmittedOnce'
    BY <2>3, OnceStays DEF Inject
  <2>. QED
    BY <2>3, <2>4, <2>5, StaySafe DEF ExecutorSafe
<1>3. CASE Pass
  <2>1. now' \in Nat /\ UNCHANGED <<started, inflight, events, ledger, proc>>
    BY <1>3 DEF Pass, executor, Environment, Safe, TypeOK, TypeExecutor
  <2>2. ExecutorSafe' /\ Grows
    BY <2>1, WaitStep DEF Safe, TypeOK, TypeExecutor, KnownIsSubmitted
  <2>3. SubmittedOnce'
    BY <2>1, OnceStays
  <2>. QED
    BY <2>1, <2>2, <2>3, StaySafe DEF ExecutorSafe
<1>. QED
  BY <1>1, <1>2, <1>3 DEF Environment

LEMMA CallsSafe ==
  ASSUME Safe, NEW r \in Runs, Call(r)
  PROVE  Safe'
<1>1. CASE Appending(r)
  BY <1>1, AppendStep, CallSafe DEF Appending
<1>2. CASE Closing(r)
  <2>1. PICK last : Close(r, last) /\ UNCHANGED <<robot, proc>>
    BY <1>2 DEF Closing
  <2>. QED
    BY <2>1, CloseStep, RunOnlyStep, CallSafe DEF Close
<1>3. CASE Revising(r)
  <2>1. PICK observation \in Observation :
          Revise(r, observation) /\ UNCHANGED <<robot, proc>>
    BY <1>3, ObservationsTyped DEF Revising
  <2>. QED
    BY <2>1, ReviseStep, RunOnlyStep, CallSafe DEF Revise
<1>4. CASE Observing(r)
  <2>1. PICK observation \in Observation :
          Observe(r, observation) /\ UNCHANGED <<robot, proc>>
    BY <1>4, ObservationsTyped DEF Observing
  <2>. QED
    BY <2>1, ObserveStep, RunOnlyStep, CallSafe DEF Observe
<1>5. CASE Verifying(r)
  <2>1. CASE \E a \in Actions : PassCheckpoint(r, a)
    BY <1>5, <2>1, PassCheckpointStep, BookkeepingSafe, CallSafe DEF Verifying
  <2>2. CASE PassFinal(r) \/ FailVerification(r)
    <3>1. UNCHANGED <<action, owner, received>>
      BY <2>2 DEF PassFinal, FailVerification
    <3>. QED
      BY <1>5, <2>2, <3>1, VerdictStep, RunOnlyStep, CallSafe DEF Verifying
  <2>. QED
    BY <1>5, <2>1, <2>2 DEF Verifying
<1>6. ASSUME NEW p \in Procs
      PROVE  /\ \A a \in Actions : Dispatch(p, r, a) => Safe'
             /\ \A reason \in StopRequests : RequestStop(p, r, reason) => Safe'
             /\ Reconcile(p, r) \/ Tick(p, r) => Safe'
  BY DispatchSafe, RequestStopSafe, ReconcileSafe, TickSafe
<1>. QED
  BY <1>1, <1>2, <1>3, <1>4, <1>5, <1>6 DEF Call

LEMMA StepsSafe ==
  ASSUME Safe, NEW p \in Procs, Step(p)
  PROVE  Safe'
  BY SubmitAnsweredSafe, SubmitReplyLostSafe, SubmitTimesOutSafe, SubmitDisconnectedSafe,
     UnknownSafe, AcceptAnswerSafe, ApplyAnswerSafe, StopReadSafe, CancelUnsupportedSafe,
     CancelConfirmedSafe, CancelAnsweredSafe, CancelFailsSafe, ReconcileReadSafe,
     LookupAnsweredSafe, LookupFailsSafe, TickStopSafe, SettleSafe DEF Step

LEMMA StutterSafe ==
  ASSUME Safe, UNCHANGED vars
  PROVE  Safe'
  BY DEF vars, Safe, TypeOK, TypeExecutor, TypeLedger, IntentFirst, KnownIsSubmitted, FramesOK,
         FrameOK, SubmittedOnce, LastWord, EndedMeansReported, HeldWhileActive, Submitted, Ended,
         Active, Stopped

-----------------------------------------------------------------------------
(* The theorems.                                                           *)

\* Every step keeps Safe.
LEMMA SafeStep ==
  ASSUME Safe, [Next]_vars
  PROVE  Safe'
<1>1. CASE Environment
  BY <1>1, EnvironmentSafe
<1>2. CASE \E r \in Runs : Call(r)
  BY <1>2, CallsSafe
<1>3. CASE \E a \in Actions : Feedback(a)
  BY <1>3, FeedbackSafe
<1>4. CASE \E p \in Procs : Step(p) \/ Crash(p)
  BY <1>4, StepsSafe, CrashSafe
<1>5. CASE UNCHANGED vars
  BY <1>5, StutterSafe
<1>. QED
  BY <1>1, <1>2, <1>3, <1>4, <1>5 DEF Next

\* Safe is an invariant: it holds at the start, and every step keeps it.
THEOREM SafeInvariant == Spec => []Safe
<1>1. Safe /\ [Next]_vars => Safe'
  BY SafeStep
<1>. QED
  BY InitSafe, <1>1, PTL DEF Spec

\* Types, for all runs, actions, processes and bounds.
THEOREM TypeCorrect == Spec => []TypeOK
<1>1. Safe => TypeOK
  BY DEF Safe
<1>. QED
  BY <1>1, SafeInvariant, PTL

\* Resources are held exactly while their action is active.
THEOREM ResourcesHeld == Spec => []HeldWhileActive
<1>1. Safe => HeldWhileActive
  BY DEF Safe
<1>. QED
  BY <1>1, SafeInvariant, PTL

\* The ledger ends an execution only on the executor's word.
THEOREM EndsReported == Spec => []EndedMeansReported
<1>1. Safe => EndedMeansReported
  BY DEF Safe
<1>. QED
  BY <1>1, SafeInvariant, PTL

\* What may still move is active in the ledger.
LEMMA MayMoveIsActive ==
  ASSUME Safe, NEW a \in Actions, MayMove(a)
  PROVE  Active(a)
<1>1. Submitted(a)
  BY DEF MayMove, Live, Safe, KnownIsSubmitted, FramesOK, FrameOK
<1>2. action[a].status \notin {"QUEUED", "INVALIDATED"}
  BY <1>1, SubmittedIsKnown
<1>3. ~Stopped(a)
  <2>1. CASE Live(a)
    BY <2>1 DEF Live
  <2>2. CASE a \notin started
    BY <2>2 DEF Stopped, Safe, KnownIsSubmitted
  <2>. QED
    BY <2>1, <2>2 DEF MayMove, Safe, SubmittedOnce
<1>4. action[a].status \notin TERMINAL \ {"INVALIDATED"}
  BY <1>3 DEF Safe, EndedMeansReported
<1>. QED
  BY <1>2, <1>4 DEF Active

\* Two executions that may move the robot never need one resource.
THEOREM Exclusion == Spec => []ResourceExclusion
<1>1. Safe => ResourceExclusion
  <2>. SUFFICES ASSUME Safe, NEW a \in Actions, NEW b \in Actions,
                       a # b, MayMove(a), MayMove(b), NEW res \in ResourcesOf[a] \cap ResourcesOf[b]
                PROVE  FALSE
    BY DEF ResourceExclusion
  <2>1. res \in Resources
    BY ConstantFacts
  <2>2. owner[res] = a /\ owner[res] = b
    BY <2>1, MayMoveIsActive DEF Safe, HeldWhileActive
  <2>. QED
    BY <2>2
<1>. QED
  BY <1>1, SafeInvariant, PTL
=============================================================================
