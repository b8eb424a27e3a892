---------------------------- MODULE Plan_proofs ----------------------------
(***************************************************************************)
(* Theorems about the plan: Serial is an invariant, and what follows from  *)
(* it, for all values of the constants.  Every step but append and revise  *)
(* only takes actions and runs Onward; that alone keeps the plan in order. *)
(***************************************************************************)
EXTENDS Scheduler_proofs

USE DEF NoTime, NoIntent

-----------------------------------------------------------------------------
(* What a step may do to the ledger.                                       *)

\* All that precedes a in its plan has completed and passed its checkpoint.
GateOpen(a) ==
  \A b \in Actions :
    /\ action[b].run_id = action[a].run_id
    /\ action[b].plan_version = action[a].plan_version
    /\ action[b].sequence < action[a].sequence
    => action[b].status = "COMPLETED" /\ action[b].verified

ActionOnward(a) ==
  /\ action'[a].run_id = action[a].run_id
  /\ action'[a].plan_version = action[a].plan_version
  /\ action'[a].sequence = action[a].sequence
  /\ action[a].run_id = None => action'[a] = action[a]
  /\ action[a].status \in TERMINAL =>
       action'[a].status = action[a].status /\ action'[a].finished_at = action[a].finished_at
  /\ action'[a].status = "QUEUED" => action[a].status = "QUEUED"
  /\ action'[a].status = "INVALIDATED" =>
       action[a].status = "INVALIDATED" \/ state'[action[a].run_id].frozen
  /\ action[a].verified => action'[a].verified
  /\ action'[a].verified =>
       \/ action[a].verified
       \/ /\ action[a].status = "COMPLETED"
          /\ action[a].finished_at <= state[action[a].run_id].observation.at
  /\ \/ action'[a].submitted_at = action[a].submitted_at
     \/ ~Submitted(a) /\ action[a].run_id \in Runs /\ GateOpen(a)
        /\ action[a].plan_version = state[action[a].run_id].plan_version
  /\ \/ action'[a].last_event_sequence = action[a].last_event_sequence
     \/ /\ action'[a].last_event_sequence > action[a].last_event_sequence
        /\ <<a, action'[a].last_event_sequence>> \notin received

RunOnward(r) ==
  /\ state'[r].plan_version = state[r].plan_version
  /\ state'[r].next_sequence = state[r].next_sequence
  /\ state[r].observation.at <= state'[r].observation.at
  /\ state[r].frozen => state'[r].frozen
  /\ state'[r].frozen =>
       state[r].frozen \/ \A a \in ActionsOf(r) : action'[a].status # "QUEUED"
  /\ state'[r].status \in FinalStatus => state[r].status = state'[r].status \/ AllEnded(r)
  /\ state'[r].status = "SUCCEEDED" => state[r].status = "SUCCEEDED" \/ Unverified(r) = {}

Onward == (\A a \in Actions : ActionOnward(a)) /\ (\A r \in Runs : RunOnward(r))

\* What a transaction leaves alone goes onward.
LEMMA ActionStays ==
  ASSUME NEW a \in Actions, action'[a] = action[a]
  PROVE  ActionOnward(a)
  BY DEF ActionOnward

LEMMA RunTyped ==
  ASSUME Safe, NEW r \in Runs
  PROVE  /\ state[r] \in RunState /\ state[r].observation.at \in Nat
         /\ state[r].plan_version \in Nat /\ state[r].next_sequence \in Nat
  BY DEF Safe, TypeOK, TypeLedger, RunState, Observation

\* So does a run that at most changes its status, to one that is not final.
LEMMA RunStays ==
  ASSUME Safe, NEW r \in Runs,
         \/ state'[r] = state[r]
         \/ \E s : /\ state'[r] = [state[r] EXCEPT !.status = s]
                   /\ s \notin FinalStatus \/ s = state[r].status
  PROVE  RunOnward(r)
<1>1. /\ state'[r].plan_version = state[r].plan_version
      /\ state'[r].next_sequence = state[r].next_sequence
      /\ state'[r].observation = state[r].observation
      /\ state'[r].frozen = state[r].frozen
      /\ state'[r].status = state[r].status \/ state'[r].status \notin FinalStatus
  BY RunTyped DEF RunState
<1>. QED
  BY <1>1, RunTyped DEF RunOnward, FinalStatus

-----------------------------------------------------------------------------
(* The transactions that go onward.                                        *)

LEMMA NothingOnward ==
  ASSUME Safe, UNCHANGED <<state, action>>
  PROVE  Onward
  BY ActionStays, RunStays DEF Onward

\* Transactions that give one action another status, and leave its end alone.
LEMMA StatusOnward ==
  ASSUME Safe, NEW a \in Actions, NEW s,
         Submitted(a), action[a].status \notin TERMINAL \/ s = action[a].status,
         s \notin {"QUEUED", "INVALIDATED"}, NEW known \in BOOLEAN,
         action'[a] = [action[a] EXCEPT !.status = s, !.execution_id = known]
  PROVE  ActionOnward(a)
<1>1. action[a] \in ActionRecord /\ action[a].run_id # None
  BY ConstantFacts DEF Safe, TypeOK, TypeLedger, IntentFirst
<1>. QED
  BY <1>1 DEF ActionOnward, ActionRecord

LEMMA MarkUnknownOnward ==
  ASSUME Safe, NEW r \in Runs, NEW a \in Actions, Submitted(a), MarkUnknown(r, a)
  PROVE  Onward
<1>1. CASE action[a].status \in TERMINAL
  BY <1>1, NothingOnward DEF MarkUnknown
<1>2. CASE action[a].status \notin TERMINAL
  <2>1. /\ action' = [action EXCEPT ![a].status = "EXECUTION_UNKNOWN"]
        /\ state' = [state EXCEPT ![r].status = "BLOCKED"]
    BY <1>2 DEF MarkUnknown
  <2>2. ActionOnward(a)
    <3>1. action[a] \in ActionRecord
      BY DEF Safe, TypeOK, TypeLedger
    <3>2. action'[a] = [action[a] EXCEPT !.status = "EXECUTION_UNKNOWN",
                                         !.execution_id = action[a].execution_id]
      BY <2>1, <3>1 DEF Safe, TypeOK, TypeLedger, ActionRecord
    <3>. QED
      BY <1>2, <3>1, <3>2, StatusOnward DEF ActionRecord
  <2>3. \A b \in Actions \ {a} : action'[b] = action[b]
    BY <2>1 DEF Safe, TypeOK, TypeLedger
  <2>4. ASSUME NEW q \in Runs
        PROVE  RunOnward(q)
    <3>1. state'[q] = state[q] \/ state'[q] = [state[q] EXCEPT !.status = "BLOCKED"]
      BY <2>1 DEF Safe, TypeOK, TypeLedger
    <3>. QED
      BY <3>1, RunStays DEF FinalStatus
  <2>. QED
    BY <2>2, <2>3, <2>4, ActionStays DEF Onward
<1>. QED
  BY <1>1, <1>2

LEMMA AcceptSnapshotOnward ==
  ASSUME Safe, NEW r \in Runs, NEW a \in started, NEW n, AcceptSnapshot(r, a, n)
  PROVE  Onward
<1>1. a \in Actions /\ Submitted(a)
  BY DEF Safe, TypeOK, TypeExecutor, KnownIsSubmitted
<1>2. /\ action[a].status \notin TERMINAL \/ StatusFound(a, n) = action[a].status
      /\ StatusFound(a, n) \notin {"QUEUED", "INVALIDATED"}
  BY <1>1, SubmittedIsKnown DEF StatusFound, FoundAtWork, AtWork
<1>3. /\ action'[a] = [action[a] EXCEPT !.status = StatusFound(a, n), !.execution_id = TRUE]
      /\ \A b \in Actions \ {a} : action'[b] = action[b]
  BY <1>1 DEF AcceptSnapshot, Safe, TypeOK, TypeLedger, ActionRecord
<1>4. ActionOnward(a)
  BY <1>1, <1>2, <1>3, StatusOnward
<1>5. ASSUME NEW q \in Runs
      PROVE  RunOnward(q)
  <2>1. \/ state'[q] = state[q]
        \/ state'[q] = [state[q] EXCEPT !.status = "EXECUTING"]
        \/ state'[q] = [state[q] EXCEPT !.status = state[q].status]
    BY DEF AcceptSnapshot, Safe, TypeOK, TypeLedger
  <2>. QED
    BY <2>1, RunStays DEF FinalStatus
<1>. QED
  BY <1>3, <1>4, <1>5, ActionStays DEF Onward

LEMMA FreezePlanOnward ==
  ASSUME Safe, NEW r \in Runs, NEW reason \in StopReasons, FreezePlan(r, reason)
  PROVE  Onward
<1>1. ASSUME NEW q \in Runs
      PROVE  /\ state'[q].frozen = (q = r \/ state[q].frozen)
             /\ state'[q].status = state[q].status
             /\ state'[q].observation = state[q].observation
             /\ state'[q].plan_version = state[q].plan_version
             /\ state'[q].next_sequence = state[q].next_sequence
  <2>1. CASE q = r
    <3>1. state'[r] = [state[r] EXCEPT !.frozen = TRUE, !.stop_intent = reason]
      BY DEF FreezePlan, Safe, TypeOK, TypeLedger
    <3>. QED
      BY <2>1, <3>1, RunTyped DEF RunState
  <2>2. CASE q # r
    BY <2>2, RunTyped DEF FreezePlan, Safe, TypeOK, TypeLedger, RunState
  <2>. QED
    BY <2>1, <2>2
<1>2. ASSUME NEW a \in Actions
      PROVE  /\ ActionOnward(a)
             /\ a \in ActionsOf(r) => action'[a].status # "QUEUED"
  <2>0. action[a] \in ActionRecord /\ now \in Int
    BY DEF Safe, TypeOK, TypeLedger, TypeExecutor
  <2>1. CASE a \notin Pending(r)
    <3>1. action'[a] = action[a]
      BY <2>1 DEF FreezePlan
    <3>. QED
      BY <2>1, <3>1, ActionStays DEF Pending, TERMINAL
  <2>2. CASE a \in Pending(r) /\ Droppable(a)
    <3>1. action'[a] = [action[a] EXCEPT !.status = "INVALIDATED"]
      BY <2>2 DEF FreezePlan
    <3>2. action[a].run_id = r /\ r # None /\ action[a].status \notin TERMINAL
      BY <2>2, ConstantFacts DEF Pending, ActionsOf
    <3>. QED
      BY <1>1, <2>0, <3>1, <3>2 DEF ActionOnward, ActionRecord
  <2>3. CASE a \in Pending(r) /\ ~Droppable(a)
    <3>1. PICK t \in Int :
            action'[a] = [action[a] EXCEPT !.status = "STOPPING", !.stop_requested_at = t]
      <4>. DEFINE t == IF action[a].stop_requested_at = NoTime THEN now
                       ELSE action[a].stop_requested_at
      <4>1. t \in Int
        BY <2>0 DEF ActionRecord
      <4>2. action'[a] = [action[a] EXCEPT !.status = "STOPPING", !.stop_requested_at = t]
        BY <2>3 DEF FreezePlan
      <4>. QED
        BY <4>1, <4>2
    <3>2. action[a].run_id = r /\ r # None /\ action[a].status \notin TERMINAL
      BY <2>3, ConstantFacts DEF Pending, ActionsOf
    <3>. QED
      BY <2>0, <3>1, <3>2 DEF ActionOnward, ActionRecord
  <2>. QED
    BY <2>1, <2>2, <2>3
<1>3. ASSUME NEW q \in Runs
      PROVE  RunOnward(q)
  <2>1. /\ state[q].observation.at <= state'[q].observation.at
        /\ state[q].frozen => state'[q].frozen
        /\ state'[q].status = state[q].status
    BY <1>1, RunTyped DEF RunState
  <2>2. state'[q].frozen => state[q].frozen \/ \A a \in ActionsOf(q) : action'[a].status # "QUEUED"
    BY <1>1, <1>2 DEF ActionsOf
  <2>. QED
    BY <1>1, <2>1, <2>2 DEF RunOnward
<1>. QED
  BY <1>2, <1>3 DEF Onward

LEMMA ConcludeStopOnward ==
  ASSUME Safe, NEW r \in Runs, ConcludeStop(r)
  PROVE  Onward
<1>1. ASSUME NEW a \in Actions
      PROVE  ActionOnward(a)
  <2>1. CASE a \notin StopExpired(r)
    BY <2>1, ActionStays DEF ConcludeStop
  <2>2. CASE a \in StopExpired(r)
    <3>1. action'[a] = [action[a] EXCEPT !.status = "EXECUTION_UNKNOWN"]
      BY <2>2 DEF ConcludeStop
    <3>2. action[a].run_id = r /\ r # None /\ action[a].status \notin TERMINAL
      BY <2>2, ConstantFacts DEF StopExpired, Pending, ActionsOf
    <3>3. action[a] \in ActionRecord
      BY DEF Safe, TypeOK, TypeLedger
    <3>. QED
      BY <3>1, <3>2, <3>3 DEF ActionOnward, ActionRecord
  <2>. QED
    BY <2>1, <2>2
<1>2. ASSUME NEW q \in Runs
      PROVE  RunOnward(q)
  <2>1. CASE q # r
    <3>1. state'[q] = state[q]
      BY <2>1 DEF ConcludeStop, Safe, TypeOK, TypeLedger
    <3>. QED
      BY <3>1, RunStays
  <2>2. CASE q = r
    <3>1. PICK s : /\ state'[r] = [state[r] EXCEPT !.status = s]
                   /\ s = state[r].status \/ s \notin FinalStatus \/ AllEnded(r)
                   /\ s = "SUCCEEDED" => s = state[r].status
      <4>. DEFINE s == IF StopExpired(r) # {} THEN "BLOCKED"
                       ELSE IF state[r].stop_intent # NoIntent /\ AllEnded(r)
                       THEN OutcomeOf(state[r].stop_intent)
                       ELSE state[r].status
      <4>1. state'[r] = [state[r] EXCEPT !.status = s]
        BY DEF ConcludeStop, Safe, TypeOK, TypeLedger
      <4>2. /\ s = state[r].status \/ s \notin FinalStatus \/ AllEnded(r)
            /\ s = "SUCCEEDED" => s = state[r].status
        BY DEF OutcomeOf, FinalStatus
      <4>. QED
        BY <4>1, <4>2
    <3>2. /\ state'[r].status = s /\ state'[r].frozen = state[r].frozen
          /\ state'[r].plan_version = state[r].plan_version
          /\ state'[r].next_sequence = state[r].next_sequence
          /\ state'[r].observation = state[r].observation
      BY <3>1, RunTyped DEF RunState
    <3>. QED
      BY <2>2, <3>1, <3>2, RunTyped DEF RunOnward
  <2>. QED
    BY <2>1, <2>2
<1>. QED
  BY <1>1, <1>2 DEF Onward

LEMMA PassCheckpointOnward ==
  ASSUME Safe, NEW r \in Runs, NEW a \in Actions, PassCheckpoint(r, a)
  PROVE  Onward
<1>1. /\ action[a] \in ActionRecord
      /\ action'[a] = [action[a] EXCEPT !.verified = TRUE]
      /\ \A b \in Actions \ {a} : action'[b] = action[b]
      /\ state' = state
  BY DEF PassCheckpoint, Safe, TypeOK, TypeLedger
<1>2. /\ action[a].run_id = r /\ r # None /\ action[a].status = "COMPLETED"
      /\ action[a].finished_at <= state[r].observation.at
  <2>1. a \in Finished(r) /\ state[r].observation.at >= action[a].finished_at
    BY DEF PassCheckpoint, Evidence
  <2>2. action[a].finished_at \in Int
    BY <1>1 DEF ActionRecord
  <2>. QED
    BY <2>1, <2>2, ConstantFacts, RunTyped DEF Finished, Current, ActionsOf
<1>3. ActionOnward(a)
  BY <1>1, <1>2 DEF ActionOnward, ActionRecord, TERMINAL
<1>. QED
  BY <1>1, <1>3, ActionStays, RunStays DEF Onward

LEMMA ApplyOnward ==
  ASSUME Safe, NEW r \in Runs, NEW a \in Actions, NEW n \in 1..Len(events[a]), Apply(r, a, n)
  PROVE  Onward
<1>. DEFINE event == events[a][n]
<1>1. /\ action[a] \in ActionRecord /\ action[a].run_id # None
      /\ n \in Nat /\ event \in Event
  BY ConstantFacts DEF Apply, Safe, TypeOK, TypeExecutor, TypeLedger, KnownIsSubmitted, IntentFirst
<1>2. CASE ~News(a, n)
  BY <1>2, NothingOnward DEF Apply
<1>3. CASE News(a, n)
  <2>1. PICK t : action'[a] = [action[a] EXCEPT !.last_event_sequence = n,
                                 !.status = StatusReported(a, event), !.finished_at = t]
    <3>. DEFINE t == IF Confirms(event) THEN event.at ELSE action[a].finished_at
    <3>1. action'[a] = [action[a] EXCEPT !.last_event_sequence = n,
                          !.status = StatusReported(a, event), !.finished_at = t]
      BY <1>3 DEF Apply, Safe, TypeOK, TypeLedger
    <3>. QED
      BY <3>1
  <2>2. StatusReported(a, event) \notin {"QUEUED", "INVALIDATED"}
    BY DEF StatusReported, AtWork, Confirms, TERMINAL
  <2>3. /\ <<a, n>> \notin received /\ n > action[a].last_event_sequence
        /\ action[a].status \notin TERMINAL
    BY <1>3 DEF News
  <2>4. ActionOnward(a)
    BY <1>1, <2>1, <2>2, <2>3 DEF ActionOnward, ActionRecord
  <2>5. \A b \in Actions \ {a} : action'[b] = action[b]
    BY <1>3 DEF Apply, Safe, TypeOK, TypeLedger
  <2>6. ASSUME NEW q \in Runs
        PROVE  RunOnward(q)
    <3>. DEFINE s == RunStatusReported(r, a, event)
    <3>1. s \notin FinalStatus \/ s = state[r].status
      BY DEF RunStatusReported, FinalStatus
    <3>2. state'[q] = state[q] \/ (q = r /\ state'[q] = [state[q] EXCEPT !.status = s])
      BY <1>3 DEF Apply, Safe, TypeOK, TypeLedger
    <3>. QED
      BY <3>1, <3>2, RunStays
  <2>. QED
    BY <2>4, <2>5, <2>6, ActionStays DEF Onward
<1>. QED
  BY <1>2, <1>3

LEMMA SubmitIntentOnward ==
  ASSUME Serial, NEW r \in Runs, NEW a \in Actions, SubmitIntent(r, a)
  PROVE  Onward
<1>. USE DEF Serial
<1>1. /\ action[a].run_id = r /\ action[a].status = "QUEUED"
      /\ action[a].plan_version = state[r].plan_version
      /\ ~Submitted(a) /\ r # None
  BY ConstantFacts DEF SubmitIntent, Unverified, Current, ActionsOf, Safe, IntentFirst
<1>2. GateOpen(a)
  <2>. SUFFICES ASSUME NEW b \in Actions, action[b].run_id = action[a].run_id,
                       action[b].plan_version = action[a].plan_version,
                       action[b].sequence < action[a].sequence
                PROVE  action[b].status = "COMPLETED" /\ action[b].verified
    BY DEF GateOpen
  <2>1. action[b].status # "INVALIDATED"
    BY <1>1 DEF SubmitIntent, Plan, FrozenIsDropped
  <2>2. b \notin Unverified(r)
    <3>1. action[a].sequence \in Int /\ action[b].sequence \in Int
      BY DEF Safe, TypeOK, TypeLedger, ActionRecord
    <3>2. b \in Unverified(r) => action[a].sequence <= action[b].sequence
      BY DEF SubmitIntent
    <3>. QED
      BY <3>1, <3>2
  <2>. QED
    BY <1>1, <2>1, <2>2 DEF Unverified, Current, ActionsOf
<1>3. ActionOnward(a)
  <2>1. /\ action[a] \in ActionRecord
        /\ action'[a] = [action[a] EXCEPT !.status = "SUBMITTING", !.submitted_at = now,
                           !.execution_observation_id = state[r].observation.id]
    BY DEF SubmitIntent, Safe, TypeOK, TypeLedger
  <2>. QED
    BY <1>1, <1>2, <2>1 DEF ActionOnward, ActionRecord, TERMINAL
<1>4. \A b \in Actions \ {a} : action'[b] = action[b]
  BY DEF SubmitIntent, Safe, TypeOK, TypeLedger
<1>5. ASSUME NEW q \in Runs
      PROVE  RunOnward(q)
  <2>1. state'[q] = state[q] \/ state'[q] = [state[q] EXCEPT !.status = "EXECUTING"]
    BY DEF SubmitIntent, Safe, TypeOK, TypeLedger
  <2>. QED
    BY <2>1, RunStays DEF FinalStatus
<1>. QED
  BY <1>3, <1>4, <1>5, ActionStays DEF Onward

LEMMA CloseOnward ==
  ASSUME Safe, NEW r \in Runs, NEW last, Close(r, last)
  PROVE  Onward
<1>1. ASSUME NEW q \in Runs
      PROVE  RunOnward(q)
  <2>1. state'[q] = state[q] \/ state'[q] = [state[q] EXCEPT !.closed = TRUE]
    BY DEF Close, Safe, TypeOK, TypeLedger
  <2>. QED
    BY <2>1, RunTyped DEF RunOnward, RunState
<1>. QED
  BY <1>1, ActionStays DEF Close, Onward

LEMMA ObserveOnward ==
  ASSUME Safe, NEW r \in Runs, NEW observation \in Observation, Observe(r, observation)
  PROVE  Onward
<1>1. ASSUME NEW q \in Runs
      PROVE  RunOnward(q)
  <2>1. CASE q # r
    BY <2>1, RunStays DEF Observe, Safe, TypeOK, TypeLedger
  <2>2. CASE q = r
    <3>1. state'[r] = [state[r] EXCEPT !.observation = observation]
      BY DEF Observe, Safe, TypeOK, TypeLedger
    <3>2. state[r].observation.at <= observation.at
      BY RunTyped DEF Observe, Observation
    <3>. QED
      BY <2>2, <3>1, <3>2, RunTyped DEF RunOnward, RunState
  <2>. QED
    BY <2>1, <2>2
<1>. QED
  BY <1>1, ActionStays DEF Observe, Onward

LEMMA VerdictOnward ==
  ASSUME Serial, NEW r \in Runs, PassFinal(r) \/ FailVerification(r)
  PROVE  Onward
<1>. USE DEF Serial
<1>1. CASE FailVerification(r)
  <2>1. ASSUME NEW q \in Runs
        PROVE  RunOnward(q)
    <3>1. state'[q] = state[q] \/ state'[q] = [state[q] EXCEPT !.status = "RECOVERING"]
      BY <1>1 DEF FailVerification, Safe, TypeOK, TypeLedger
    <3>. QED
      BY <3>1, RunStays DEF FinalStatus
  <2>. QED
    BY <1>1, <2>1, ActionStays DEF FailVerification, Onward
<1>2. CASE PassFinal(r)
  <2>1. Unverified(r) = {} /\ ~state[r].frozen
    BY <1>2 DEF PassFinal
  <2>2. AllEnded(r)
    <3>. SUFFICES ASSUME NEW a \in Pending(r) PROVE FALSE
      BY DEF AllEnded
    <3>1. a \in Actions /\ action[a].run_id = r /\ action[a].status \notin TERMINAL
      BY DEF Pending, ActionsOf
    <3>2. a \in Unverified(r)
      BY <3>1 DEF Unverified, Current, ActionsOf, TERMINAL, Plan, PendingInPlan
    <3>. QED
      BY <2>1, <3>2
  <2>3. ASSUME NEW q \in Runs
        PROVE  RunOnward(q)
    <3>1. CASE q # r
      BY <1>2, <3>1, RunStays DEF PassFinal, Safe, TypeOK, TypeLedger
    <3>2. CASE q = r
      <4>1. state'[r] = [state[r] EXCEPT !.status = "SUCCEEDED"]
        BY <1>2 DEF PassFinal, Safe, TypeOK, TypeLedger
      <4>. QED
        BY <2>1, <2>2, <3>2, <4>1, RunTyped DEF RunOnward, RunState
    <3>. QED
      BY <3>1, <3>2
  <2>. QED
    BY <1>2, <2>3, ActionStays DEF PassFinal, Onward
<1>. QED
  BY <1>1, <1>2

-----------------------------------------------------------------------------
(* Going onward keeps the plan.                                            *)

LEMMA OnwardPlan ==
  ASSUME Serial, Safe', Onward
  PROVE  Plan'
<1>. USE DEF Serial, Plan
\* What the conjuncts read of an action, a run, and their next values.
<1>1. ASSUME NEW a \in Actions
      PROVE  /\ action[a] \in ActionRecord /\ action'[a] \in ActionRecord
             /\ ActionOnward(a)
  BY DEF Onward, Safe, TypeOK, TypeLedger
<1>2. ASSUME NEW r \in Runs
      PROVE  /\ state[r] \in RunState /\ state'[r] \in RunState
             /\ state[r].observation.at \in Nat /\ state'[r].observation.at \in Nat
             /\ RunOnward(r)
  BY DEF Onward, Safe, TypeOK, TypeLedger, RunState, Observation
<1>3. PendingInPlan'
  <2>. SUFFICES ASSUME NEW a \in Actions, action'[a].run_id \in Runs
                PROVE  PendingInPlan!(a)'
    BY DEF PendingInPlan
  <2>1. PICK r \in Runs : r = action[a].run_id /\ r = action'[a].run_id
    BY <1>1 DEF ActionOnward
  <2>2. /\ state'[r].plan_version = state[r].plan_version
        /\ action'[a].plan_version = action[a].plan_version
        /\ action'[a].status \notin TERMINAL => action[a].status \notin TERMINAL
    BY <1>1, <1>2 DEF ActionOnward, RunOnward
  <2>. QED
    BY <2>1, <2>2 DEF PendingInPlan
<1>4. PlanOrder'
  <2>1. ASSUME NEW a \in Actions
        PROVE  /\ action'[a].run_id = action[a].run_id
               /\ action'[a].plan_version = action[a].plan_version
               /\ action'[a].sequence = action[a].sequence
    BY <1>1 DEF ActionOnward
  <2>2. ASSUME NEW r \in Runs
        PROVE  /\ state'[r].plan_version = state[r].plan_version
               /\ state'[r].next_sequence = state[r].next_sequence
    BY <1>2 DEF RunOnward
  <2>. QED
    BY <2>1, <2>2 DEF PlanOrder
<1>5. FrozenIsDropped'
  <2>. SUFFICES ASSUME NEW a \in Actions, action'[a].run_id \in Runs
                PROVE  FrozenIsDropped!(a)'
    BY DEF FrozenIsDropped
  <2>1. action[a].run_id \in Runs
    BY <1>1 DEF ActionOnward
  <2>2. state'[action[a].run_id].frozen => action'[a].status # "QUEUED"
    BY <1>1, <1>2, <2>1 DEF FrozenIsDropped, ActionOnward, RunOnward, ActionsOf
  <2>3. (action'[a].status = "INVALIDATED"
           /\ action'[a].plan_version = state'[action[a].run_id].plan_version)
        => state'[action[a].run_id].frozen
    BY <1>1, <1>2, <2>1 DEF FrozenIsDropped, ActionOnward, RunOnward
  <2>. QED
    BY <1>1, <2>2, <2>3 DEF ActionOnward
<1>6. FinalIsEnded'
  <2>. SUFFICES ASSUME NEW r \in Runs, state'[r].status \in FinalStatus, NEW a \in Pending(r)'
                PROVE  FALSE
    BY DEF FinalIsEnded, AllEnded
  <2>1. AllEnded(r)
    BY <1>2 DEF RunOnward, FinalIsEnded
  <2>2. a \in Actions /\ action'[a].run_id = r /\ action'[a].status \notin TERMINAL
    BY DEF Pending, ActionsOf
  <2>3. action[a].status \in TERMINAL
    BY <1>1, <2>1, <2>2 DEF AllEnded, Pending, ActionsOf, ActionOnward
  <2>. QED
    BY <1>1, <2>2, <2>3 DEF ActionOnward
<1>7. CheckpointsGate'
  <2>. SUFFICES ASSUME NEW a \in Actions, NEW b \in Actions,
                       action'[a].run_id = action'[b].run_id,
                       action'[a].plan_version = action'[b].plan_version,
                       action'[a].sequence < action'[b].sequence,
                       action'[b].submitted_at # NoTime
                PROVE  action'[a].status = "COMPLETED" /\ action'[a].verified
    BY DEF CheckpointsGate
  <2>1. /\ action[a].run_id = action[b].run_id
        /\ action[a].plan_version = action[b].plan_version
        /\ action[a].sequence < action[b].sequence
    BY <1>1 DEF ActionOnward
  <2>2. Submitted(b) \/ GateOpen(b)
    BY <1>1 DEF ActionOnward, Submitted
  <2>3. action[a].status = "COMPLETED" /\ action[a].verified
    BY <2>1, <2>2 DEF CheckpointsGate, GateOpen, Submitted
  <2>. QED
    BY <1>1, <2>3 DEF ActionOnward, TERMINAL
<1>8. UnusedIsNew'
  BY <1>1 DEF UnusedIsNew, ActionOnward, NewAction
<1>9. VerifiedIsCompleted'
  <2>. SUFFICES ASSUME NEW a \in Actions, action'[a].verified
                PROVE  action'[a].status = "COMPLETED"
    BY DEF VerifiedIsCompleted
  <2>1. action[a].status = "COMPLETED"
    BY <1>1 DEF ActionOnward, VerifiedIsCompleted
  <2>. QED
    BY <1>1, <2>1 DEF ActionOnward, TERMINAL
<1>10. LeftBehind'
  <2>. SUFFICES ASSUME NEW a \in Actions, action'[a].run_id \in Runs,
                       \/ action'[a].verified
                       \/ action'[a].plan_version # state'[action'[a].run_id].plan_version
                PROVE  action'[a].finished_at <= state'[action'[a].run_id].observation.at
    BY DEF LeftBehind
  <2>1. PICK r \in Runs : r = action[a].run_id /\ r = action'[a].run_id
    BY <1>1 DEF ActionOnward
  <2>2. action[a].status \in TERMINAL /\ action[a].finished_at <= state[r].observation.at
    <3>1. CASE action[a].plan_version # state[r].plan_version
      BY <2>1, <3>1 DEF PendingInPlan, LeftBehind
    <3>2. CASE action[a].plan_version = state[r].plan_version
      <4>1. action'[a].verified
        BY <1>1, <1>2, <2>1, <3>2 DEF ActionOnward, RunOnward
      <4>2. CASE action[a].verified
        BY <2>1, <4>2 DEF LeftBehind, VerifiedIsCompleted, TERMINAL
      <4>3. CASE ~action[a].verified
        BY <1>1, <2>1, <4>1, <4>3 DEF ActionOnward, TERMINAL
      <4>. QED
        BY <4>2, <4>3
    <3>. QED
      BY <3>1, <3>2
  <2>3. action'[a].finished_at = action[a].finished_at /\ action[a].finished_at \in Int
    BY <1>1, <2>2 DEF ActionOnward, ActionRecord
  <2>. QED
    BY <1>2, <2>1, <2>2, <2>3 DEF RunOnward
<1>11. SuccessIsVerified'
  <2>. SUFFICES ASSUME NEW r \in Runs, state'[r].status = "SUCCEEDED", NEW a \in Unverified(r)'
                PROVE  FALSE
    BY DEF SuccessIsVerified
  <2>1. Unverified(r) = {} /\ AllEnded(r)
    BY <1>2 DEF RunOnward, SuccessIsVerified, FinalIsEnded, FinalStatus
  <2>2. /\ a \in Actions /\ action'[a].run_id = r /\ action'[a].status # "INVALIDATED"
        /\ action'[a].plan_version = state'[r].plan_version
        /\ action'[a].status # "COMPLETED" \/ ~action'[a].verified
    BY DEF Unverified, Current, ActionsOf
  <2>3. action[a].run_id = r /\ action[a].plan_version = state[r].plan_version
    BY <1>1, <1>2, <2>2 DEF ActionOnward, RunOnward
  <2>4. action[a].status \in TERMINAL
    BY <2>1, <2>2, <2>3 DEF AllEnded, Pending, ActionsOf
  <2>5. action'[a].status = action[a].status /\ (action[a].verified => action'[a].verified)
    BY <1>1, <2>2, <2>4 DEF ActionOnward
  <2>. QED
    BY <2>1, <2>2, <2>3, <2>5 DEF Unverified, Current, ActionsOf
<1>. QED
  BY <1>3, <1>4, <1>5, <1>6, <1>7, <1>8, <1>9, <1>10, <1>11

-----------------------------------------------------------------------------
(* A new batch, and a new plan.                                            *)

\* The batch turns ids that were not used into queued actions, numbered on.
LEMMA AppendChanges ==
  ASSUME Safe, NEW r \in Runs, NEW batch \in Batches, AppendActions(r, batch)
  PROVE  \E n \in Nat : \E place \in [Actions -> 0..n] :
           /\ \A a \in Actions : place[a] = 0 => action'[a] = action[a]
           /\ \A a \in Actions : place[a] # 0 =>
                /\ action[a].run_id = None
                /\ action'[a] = NewAction(r, state[r].plan_version,
                                          state[r].next_sequence - 1 + place[a])
           /\ \A a, b \in Actions : place[a] # 0 /\ place[a] = place[b] => a = b
           /\ state' = [state EXCEPT ![r].next_sequence = state[r].next_sequence + n]
<1>1. PICK n \in 1..Capacity : batch \in [1..n -> {a \in Actions : action[a].run_id = None}]
  BY DEF Batches, Injection
<1>2. n \in Nat /\ DOMAIN batch = 1..n /\ Len(batch) = n
  <2>1. n \in Nat
    BY SchedulerAssumption DEF SchedulerAssumption
  <2>2. batch \in Seq(Actions)
    BY <1>1, <2>1
  <2>. QED
    BY <1>1, <2>1, <2>2
<1>. DEFINE Chosen(a) == \E i \in DOMAIN batch : batch[i] = a
            place == [a \in Actions |->
                        IF Chosen(a) THEN CHOOSE i \in DOMAIN batch : batch[i] = a ELSE 0]
<1>3. ASSUME NEW a \in Actions, Chosen(a)
      PROVE  place[a] \in 1..n /\ batch[place[a]] = a
  BY <1>2, <1>3
<1>4. ASSUME NEW a \in Actions, ~Chosen(a)
      PROVE  place[a] = 0 /\ action'[a] = action[a]
  BY <1>4 DEF AppendActions
<1>5. place \in [Actions -> 0..n]
  <2>1. \A a \in Actions : place[a] \in 0..n
    BY <1>2, <1>3, <1>4
  <2>. QED
    BY <2>1
<1>6. ASSUME NEW a \in Actions, Chosen(a)
      PROVE  /\ action[a].run_id = None
             /\ action'[a] = NewAction(r, state[r].plan_version,
                                       state[r].next_sequence - 1 + place[a])
  <2>1. action[a].run_id = None
    BY <1>1, <1>3, <1>6
  <2>2. place[a] = CHOOSE i \in DOMAIN batch : batch[i] = a
    BY <1>6
  <2>3. action'[a] = NewAction(r, state[r].plan_version, state[r].next_sequence - 1
                                 + CHOOSE i \in DOMAIN batch : batch[i] = a)
    BY <1>6 DEF AppendActions
  <2>. QED
    BY <2>1, <2>2, <2>3
<1>7. state' = [state EXCEPT ![r].next_sequence = state[r].next_sequence + n]
  BY <1>2 DEF AppendActions
<1>. HIDE DEF place
<1>8. /\ \A a \in Actions : place[a] = 0 => action'[a] = action[a]
      /\ \A a \in Actions : place[a] # 0 =>
           /\ action[a].run_id = None
           /\ action'[a] = NewAction(r, state[r].plan_version,
                                     state[r].next_sequence - 1 + place[a])
  BY <1>2, <1>3, <1>4, <1>6
<1>9. \A a, b \in Actions : place[a] # 0 /\ place[a] = place[b] => a = b
  <2>. SUFFICES ASSUME NEW a \in Actions, NEW b \in Actions, place[a] # 0, place[a] = place[b]
                PROVE  a = b
    OBVIOUS
  <2>1. Chosen(a) /\ Chosen(b)
    BY <1>4
  <2>. QED
    BY <1>3, <2>1
<1>. QED
  BY <1>2, <1>5, <1>7, <1>8, <1>9

LEMMA AppendPlan ==
  ASSUME Serial, Safe', NEW r \in Runs, NEW batch \in Batches, AppendActions(r, batch)
  PROVE  Plan'
<1>. USE DEF Serial, Plan
<1>0. PICK n \in Nat : \E place \in [Actions -> 0..n] :
        /\ \A a \in Actions : place[a] = 0 => action'[a] = action[a]
        /\ \A a \in Actions : place[a] # 0 =>
             /\ action[a].run_id = None
             /\ action'[a] = NewAction(r, state[r].plan_version,
                                       state[r].next_sequence - 1 + place[a])
        /\ \A a, b \in Actions : place[a] # 0 /\ place[a] = place[b] => a = b
        /\ state' = [state EXCEPT ![r].next_sequence = state[r].next_sequence + n]
  BY AppendChanges
<1>1. PICK place \in [Actions -> 0..n] :
        /\ \A a \in Actions : place[a] = 0 => action'[a] = action[a]
        /\ \A a \in Actions : place[a] # 0 =>
             /\ action[a].run_id = None
             /\ action'[a] = NewAction(r, state[r].plan_version,
                                       state[r].next_sequence - 1 + place[a])
        /\ \A a, b \in Actions : place[a] # 0 /\ place[a] = place[b] => a = b
        /\ state' = [state EXCEPT ![r].next_sequence = state[r].next_sequence + n]
  BY <1>0
<1>2. ASSUME NEW q \in Runs
      PROVE  /\ state'[q].plan_version = state[q].plan_version
             /\ state'[q].frozen = state[q].frozen /\ state'[q].status = state[q].status
             /\ state'[q].observation = state[q].observation
             /\ state'[q].next_sequence =
                  IF q = r THEN state[r].next_sequence + n ELSE state[q].next_sequence
  BY <1>1, RunTyped DEF Safe, TypeOK, TypeLedger, RunState
<1>3. ~state[r].frozen /\ state[r].status \notin FinalStatus
  BY DEF AppendActions
\* The new actions, and the old ones.
<1>4. ASSUME NEW a \in Actions, place[a] # 0
      PROVE  /\ action'[a].run_id = r /\ action'[a].status = "QUEUED"
             /\ action'[a].plan_version = state[r].plan_version
             /\ action'[a].sequence = state[r].next_sequence - 1 + place[a]
             /\ ~action'[a].verified /\ action'[a].submitted_at = NoTime
  <2>1. PICK s : /\ s = state[r].next_sequence - 1 + place[a]
                 /\ action'[a] = NewAction(r, state[r].plan_version, s)
    BY <1>1, <1>4
  <2>2. action'[a].verified = FALSE
    BY <2>1 DEF NewAction
  <2>3. /\ action'[a].run_id = r /\ action'[a].status = "QUEUED"
        /\ action'[a].plan_version = state[r].plan_version
        /\ action'[a].sequence = s /\ action'[a].submitted_at = NoTime
    BY <2>1 DEF NewAction
  <2>. QED
    BY <2>1, <2>2, <2>3
<1>5. ASSUME NEW a \in Actions, place[a] = 0
      PROVE  action'[a] = action[a] /\ action[a] \in ActionRecord
  BY <1>1, <1>5 DEF Safe, TypeOK, TypeLedger
<1>6. r # None /\ \A a \in Actions : place[a] \in 0..n
  BY ConstantFacts
<1>7. PendingInPlan'
  <2>. SUFFICES ASSUME NEW a \in Actions, action'[a].run_id \in Runs
                PROVE  PendingInPlan!(a)'
    BY DEF PendingInPlan
  <2>1. CASE place[a] = 0
    BY <1>2, <1>5, <2>1 DEF PendingInPlan
  <2>2. CASE place[a] # 0
    BY <1>2, <1>4, <2>2, RunTyped
  <2>. QED
    BY <2>1, <2>2
<1>8. PlanOrder'
  <2>1. state[r].next_sequence \in Nat /\ state[r].next_sequence >= 1
    BY RunTyped DEF PlanOrder
  <2>2. ASSUME NEW a \in Actions, action'[a].run_id \in Runs
        PROVE  /\ action'[a].sequence >= 1
               /\ action'[a].plan_version = state'[action'[a].run_id].plan_version =>
                    action'[a].sequence < state'[action'[a].run_id].next_sequence
    <3>1. CASE place[a] = 0
      <4>1. PICK q \in Runs : q = action[a].run_id /\ q = action'[a].run_id
        BY <1>5, <2>2, <3>1
      <4>2. action[a].sequence \in Int /\ state[q].next_sequence \in Nat
        BY <1>5, <3>1, RunTyped DEF ActionRecord
      <4>. QED
        BY <1>2, <1>5, <3>1, <4>1, <4>2 DEF PlanOrder
    <3>2. CASE place[a] # 0
      BY <1>2, <1>4, <1>6, <2>1, <3>2
    <3>. QED
      BY <3>1, <3>2
  <2>3. \A q \in Runs : state'[q].next_sequence >= 1
    BY <1>2, <2>1 DEF PlanOrder
  \* An old action of the plan comes before every new one.
  <2>4. ASSUME NEW a \in Actions, NEW b \in Actions, place[a] = 0, place[b] # 0,
               action'[a].run_id = r, action'[a].plan_version = state[r].plan_version
        PROVE  action'[a].sequence < action'[b].sequence
    <3>1. action[a].sequence < state[r].next_sequence /\ action[a].sequence \in Int
      BY <1>5, <2>4 DEF PlanOrder, ActionRecord
    <3>. QED
      BY <1>4, <1>5, <1>6, <2>1, <2>4, <3>1
  <2>5. ASSUME NEW a \in Actions, NEW b \in Actions, action'[a].run_id \in Runs,
               action'[a].run_id = action'[b].run_id,
               action'[a].plan_version = action'[b].plan_version,
               action'[a].sequence = action'[b].sequence
        PROVE  a = b
    <3>1. CASE place[a] = 0 /\ place[b] = 0
      BY <1>5, <2>5, <3>1 DEF PlanOrder
    <3>2. CASE place[a] # 0 /\ place[b] # 0
      <4>1. state[r].next_sequence - 1 + place[a] = state[r].next_sequence - 1 + place[b]
        BY <1>4, <2>5, <3>2
      <4>2. place[a] = place[b]
        BY <1>6, <2>1, <4>1
      <4>. QED
        BY <1>1, <3>2, <4>2
    <3>3. CASE place[a] = 0 /\ place[b] # 0
      <4>1. action'[a].sequence < action'[b].sequence /\ action'[a].sequence \in Int
        BY <1>4, <1>5, <2>4, <2>5, <3>3 DEF ActionRecord
      <4>. QED
        BY <2>5, <4>1
    <3>4. CASE place[a] # 0 /\ place[b] = 0
      <4>1. action'[b].sequence < action'[a].sequence /\ action'[b].sequence \in Int
        BY <1>4, <1>5, <2>4, <2>5, <3>4 DEF ActionRecord
      <4>. QED
        BY <2>5, <4>1
    <3>. QED
      BY <3>1, <3>2, <3>3, <3>4
  <2>. QED
    BY <2>2, <2>3, <2>5 DEF PlanOrder
<1>9. FrozenIsDropped'
  <2>. SUFFICES ASSUME NEW a \in Actions, action'[a].run_id \in Runs
                PROVE  FrozenIsDropped!(a)'
    BY DEF FrozenIsDropped
  <2>1. CASE place[a] = 0
    BY <1>2, <1>5, <2>1 DEF FrozenIsDropped
  <2>2. CASE place[a] # 0
    BY <1>2, <1>3, <1>4, <2>2
  <2>. QED
    BY <2>1, <2>2
<1>10. FinalIsEnded'
  <2>. SUFFICES ASSUME NEW q \in Runs, state'[q].status \in FinalStatus, NEW a \in Pending(q)'
                PROVE  FALSE
    BY DEF FinalIsEnded, AllEnded
  <2>1. a \in Actions /\ action'[a].run_id = q /\ action'[a].status \notin TERMINAL
    BY DEF Pending, ActionsOf
  <2>2. AllEnded(q) /\ q # r
    BY <1>2, <1>3 DEF FinalIsEnded
  <2>. QED
    BY <1>4, <1>5, <2>1, <2>2 DEF AllEnded, Pending, ActionsOf
<1>11. CheckpointsGate'
  <2>. SUFFICES ASSUME NEW a \in Actions, NEW b \in Actions,
                       action'[a].run_id = action'[b].run_id,
                       action'[a].plan_version = action'[b].plan_version,
                       action'[a].sequence < action'[b].sequence,
                       action'[b].submitted_at # NoTime
                PROVE  action'[a].status = "COMPLETED" /\ action'[a].verified
    BY DEF CheckpointsGate
  <2>1. place[b] = 0
    BY <1>4
  <2>2. place[a] = 0
    <3>. SUFFICES ASSUME place[a] # 0 PROVE FALSE
      OBVIOUS
    <3>1. action[b].sequence < state[r].next_sequence /\ action[b].sequence \in Int
      BY <1>4, <1>5, <2>1 DEF PlanOrder, ActionRecord
    <3>2. state[r].next_sequence - 1 + place[a] < action[b].sequence
      BY <1>4, <1>5, <2>1
    <3>. QED
      BY <1>6, <3>1, <3>2, RunTyped
  <2>. QED
    BY <1>5, <2>1, <2>2 DEF CheckpointsGate
<1>12. UnusedIsNew' /\ VerifiedIsCompleted'
  BY <1>4, <1>5, <1>6 DEF UnusedIsNew, VerifiedIsCompleted, NewAction
<1>13. LeftBehind'
  <2>. SUFFICES ASSUME NEW a \in Actions, action'[a].run_id \in Runs,
                       \/ action'[a].verified
                       \/ action'[a].plan_version # state'[action'[a].run_id].plan_version
                PROVE  action'[a].finished_at <= state'[action'[a].run_id].observation.at
    BY DEF LeftBehind
  <2>1. place[a] = 0
    BY <1>2, <1>4
  <2>. QED
    BY <1>2, <1>5, <2>1 DEF LeftBehind
<1>14. SuccessIsVerified'
  <2>. SUFFICES ASSUME NEW q \in Runs, state'[q].status = "SUCCEEDED", NEW a \in Unverified(q)'
                PROVE  FALSE
    BY DEF SuccessIsVerified
  <2>1. state[q].status = "SUCCEEDED" /\ q # r
    BY <1>2, <1>3 DEF FinalStatus
  <2>2. /\ a \in Actions /\ action'[a].run_id = q /\ action'[a].status # "INVALIDATED"
        /\ action'[a].plan_version = state'[q].plan_version
        /\ action'[a].status # "COMPLETED" \/ ~action'[a].verified
    BY DEF Unverified, Current, ActionsOf
  <2>3. a \in Unverified(q)
    BY <1>2, <1>4, <1>5, <2>1, <2>2 DEF Unverified, Current, ActionsOf
  <2>. QED
    BY <2>1, <2>3 DEF SuccessIsVerified
<1>. QED
  BY <1>7, <1>8, <1>9, <1>10, <1>11, <1>12, <1>13, <1>14

LEMMA RevisePlan ==
  ASSUME Serial, Safe', NEW r \in Runs, NEW observation \in Observation, Revise(r, observation)
  PROVE  Plan'
<1>. USE DEF Serial, Plan
<1>1. /\ action' = action /\ AllEnded(r)
      /\ \A a \in ActionsOf(r) : action[a].finished_at <= observation.at
      /\ \A q \in Runs \ {r} : state'[q] = state[q]
      /\ state'[r] = [state[r] EXCEPT
           !.plan_version = state[r].plan_version + 1, !.next_sequence = 1,
           !.closed = FALSE, !.frozen = FALSE, !.stop_intent = NoIntent,
           !.observation = observation, !.status = "READY"]
  BY DEF Revise, SeesEveryEnd, Safe, TypeOK, TypeLedger
<1>2. /\ state'[r].plan_version = state[r].plan_version + 1 /\ state'[r].next_sequence = 1
      /\ ~state'[r].frozen /\ state'[r].observation = observation
      /\ state'[r].status = "READY"
  BY <1>1, RunTyped DEF RunState
<1>3. ASSUME NEW a \in Actions, action[a].run_id = r
      PROVE  /\ action[a].plan_version < state'[r].plan_version
             /\ action[a].status \in TERMINAL
             /\ action[a].finished_at <= observation.at
  <2>1. action[a].plan_version \in Int /\ action[a].plan_version <= state[r].plan_version
    BY <1>3 DEF PendingInPlan, Safe, TypeOK, TypeLedger, ActionRecord
  <2>2. action[a].status \in TERMINAL
    BY <1>1, <1>3 DEF AllEnded, Pending, ActionsOf
  <2>. QED
    BY <1>1, <1>2, <1>3, <2>1, <2>2, RunTyped DEF ActionsOf
<1>4. ASSUME NEW a \in Actions
      PROVE  action[a].plan_version \in Int
  BY DEF Safe, TypeOK, TypeLedger, ActionRecord
<1>5. state'[r].plan_version \in Int
  BY <1>2, RunTyped
<1>6. PendingInPlan' /\ FrozenIsDropped' /\ LeftBehind'
  <2>1. ASSUME NEW a \in Actions, NEW q \in Runs, q = action[a].run_id
        PROVE  /\ action[a].plan_version <= state'[q].plan_version
               /\ action[a].status \notin TERMINAL =>
                    action[a].plan_version = state'[q].plan_version
               /\ state'[q].frozen => action[a].status # "QUEUED"
               /\ (action[a].status = "INVALIDATED"
                     /\ action[a].plan_version = state'[q].plan_version) => state'[q].frozen
               /\ (action[a].verified \/ action[a].plan_version # state'[q].plan_version) =>
                    action[a].finished_at <= state'[q].observation.at
    <3>1. CASE q = r
      <4>0. action[a].plan_version < state'[r].plan_version
        BY <1>3, <2>1, <3>1
      <4>1. /\ action[a].plan_version <= state'[r].plan_version
            /\ action[a].plan_version # state'[r].plan_version
        BY <1>4, <1>5, <4>0
      <4>. QED
        BY <1>2, <1>3, <2>1, <3>1, <4>1
    <3>2. CASE q # r
      <4>1. state'[q] = state[q]
        BY <1>1, <3>2
      <4>2. /\ action[a].plan_version <= state[q].plan_version
            /\ action[a].status \notin TERMINAL =>
                 action[a].plan_version = state[q].plan_version
        BY <2>1 DEF PendingInPlan
      <4>3. /\ state[q].frozen => action[a].status # "QUEUED"
            /\ (action[a].status = "INVALIDATED"
                  /\ action[a].plan_version = state[q].plan_version) => state[q].frozen
        BY <2>1 DEF FrozenIsDropped
      <4>4. (action[a].verified \/ action[a].plan_version # state[q].plan_version) =>
              action[a].finished_at <= state[q].observation.at
        BY <2>1 DEF LeftBehind
      <4>. QED
        BY <4>1, <4>2, <4>3, <4>4
    <3>. QED
      BY <3>1, <3>2
  <2>. QED
    BY <1>1, <2>1 DEF PendingInPlan, FrozenIsDropped, LeftBehind
<1>7. PlanOrder'
  <2>1. ASSUME NEW a \in Actions, NEW q \in Runs, q = action[a].run_id
        PROVE  /\ action[a].sequence >= 1
               /\ action[a].plan_version = state'[q].plan_version =>
                    action[a].sequence < state'[q].next_sequence
    <3>1. CASE q = r
      <4>0. action[a].plan_version < state'[r].plan_version
        BY <1>3, <2>1, <3>1
      <4>1. action[a].plan_version # state'[r].plan_version
        BY <1>4, <1>5, <4>0
      <4>. QED
        BY <2>1, <3>1, <4>1 DEF PlanOrder
    <3>2. CASE q # r
      <4>1. state'[q] = state[q]
        BY <1>1, <3>2
      <4>2. /\ action[a].sequence >= 1
            /\ action[a].plan_version = state[q].plan_version =>
                 action[a].sequence < state[q].next_sequence
        BY <2>1 DEF PlanOrder
      <4>. QED
        BY <4>1, <4>2
    <3>. QED
      BY <3>1, <3>2
  <2>2. ASSUME NEW q \in Runs
        PROVE  state'[q].next_sequence >= 1
    <3>1. CASE q = r
      BY <1>2, <3>1
    <3>2. CASE q # r
      <4>1. state'[q] = state[q]
        BY <1>1, <3>2
      <4>. QED
        BY <4>1 DEF PlanOrder
    <3>. QED
      BY <3>1, <3>2
  <2>. QED
    BY <1>1, <2>1, <2>2 DEF PlanOrder
<1>8. FinalIsEnded'
  <2>. SUFFICES ASSUME NEW q \in Runs, state'[q].status \in FinalStatus PROVE AllEnded(q)'
    BY DEF FinalIsEnded
  <2>1. q # r
    BY <1>2 DEF FinalStatus
  <2>. QED
    BY <1>1, <2>1 DEF FinalIsEnded, AllEnded, Pending, ActionsOf
<1>9. CheckpointsGate' /\ UnusedIsNew' /\ VerifiedIsCompleted'
  BY <1>1 DEF CheckpointsGate, UnusedIsNew, VerifiedIsCompleted
<1>10. SuccessIsVerified'
  <2>. SUFFICES ASSUME NEW q \in Runs, state'[q].status = "SUCCEEDED" PROVE Unverified(q)' = {}
    BY DEF SuccessIsVerified
  <2>1. q # r
    BY <1>2
  <2>. QED
    BY <1>1, <2>1 DEF SuccessIsVerified, Unverified, Current, ActionsOf
<1>. QED
  BY <1>6, <1>7, <1>8, <1>9, <1>10

-----------------------------------------------------------------------------
(* Every step is one of these, as far as the ledger goes.                  *)

Appends == \E r \in Runs, batch \in Batches : AppendActions(r, batch)

Revises == \E r \in Runs, observation \in Observation : Revise(r, observation)

LEMMA CallsOnward ==
  ASSUME Serial, NEW r \in Runs, Call(r)
  PROVE  Appends \/ Revises \/ Onward
<1>. USE DEF Serial
<1>1. CASE Appending(r)
  BY <1>1 DEF Appending, Appends
<1>2. CASE Closing(r)
  BY <1>2, CloseOnward DEF Closing
<1>3. CASE Revising(r)
  BY <1>3, ObservationsTyped DEF Revising, Revises
<1>4. CASE Observing(r)
  <2>1. PICK observation \in Observation : Observe(r, observation)
    BY <1>4, ObservationsTyped DEF Observing
  <2>. QED
    BY <2>1, ObserveOnward
<1>5. CASE Verifying(r)
  BY <1>5, PassCheckpointOnward, VerdictOnward DEF Verifying
<1>6. ASSUME NEW p \in Procs, NEW a \in Actions, Dispatch(p, r, a)
      PROVE  Onward
  BY <1>6, SubmitIntentOnward DEF Dispatch
<1>7. ASSUME NEW p \in Procs, NEW reason \in StopRequests, RequestStop(p, r, reason)
      PROVE  Onward
  BY <1>7, ConstantFacts, FreezePlanOnward DEF RequestStop
<1>8. ASSUME NEW p \in Procs, Reconcile(p, r) \/ Tick(p, r)
      PROVE  Onward
  BY <1>8, NothingOnward DEF Reconcile, Tick, ledger
<1>. QED
  BY <1>1, <1>2, <1>3, <1>4, <1>5, <1>6, <1>7, <1>8 DEF Call

LEMMA StepsOnward ==
  ASSUME Safe, NEW p \in Procs, Step(p) \/ Crash(p)
  PROVE  Onward
<1>1. PICK f \in ProcState : f = proc[p] /\ FrameOK(f)
  BY FrameOf
<1>2. CASE UNCHANGED ledger
  BY <1>2, NothingOnward DEF ledger
<1>3. CASE Unknown(p)
  <2>1. MarkUnknown(f.run, f.act) /\ f.pc = "unknown"
    BY <1>1, <1>3 DEF Unknown, Goto
  <2>2. f.run \in Runs /\ f.act \in Actions /\ Submitted(f.act)
    BY <1>1, <2>1 DEF FrameOK
  <2>. QED
    BY <2>1, <2>2, MarkUnknownOnward
<1>4. CASE CancelUnsupported(p)
  <2>1. PICK a \in f.todo : MarkUnknown(f.run, a) /\ f.pc = "cancel"
    BY <1>1, <1>4 DEF CancelUnsupported, Goto
  <2>2. f.run \in Runs /\ a \in Actions /\ Submitted(a)
    BY <1>1, <2>1 DEF FrameOK, ProcState
  <2>. QED
    BY <2>1, <2>2, MarkUnknownOnward
<1>5. CASE AcceptAnswer(p)
  <2>1. AcceptSnapshot(f.run, f.act, f.snap) /\ f.pc = "accept"
    BY <1>1, <1>5 DEF AcceptAnswer, Goto
  <2>2. f.run \in Runs /\ f.act \in started
    BY <1>1, <2>1 DEF FrameOK
  <2>. QED
    BY <2>1, <2>2, AcceptSnapshotOnward
<1>6. CASE ApplyAnswer(p)
  <2>1. Apply(f.run, f.act, f.snap) /\ f.pc = "apply"
    BY <1>1, <1>6 DEF ApplyAnswer, Goto
  <2>2. f.run \in Runs /\ f.act \in Actions /\ f.snap \in 1..Len(events[f.act])
    BY <1>1, <2>1 DEF FrameOK, ProcState, Safe, TypeOK, TypeExecutor
  <2>. QED
    BY <2>1, <2>2, ApplyOnward
<1>7. CASE TickStop(p)
  <2>1. FreezePlan(f.run, "timeout") /\ f.pc = "tick_stop"
    BY <1>1, <1>7 DEF TickStop, Goto
  <2>2. f.run \in Runs /\ "timeout" \in StopReasons
    BY <1>1, <2>1 DEF FrameOK, StopReasons
  <2>. QED
    BY <2>1, <2>2, FreezePlanOnward
<1>8. CASE Settle(p)
  <2>1. ConcludeStop(f.run) /\ f.pc = "settle"
    BY <1>1, <1>8 DEF Settle, Goto
  <2>2. f.run \in Runs
    BY <1>1, <2>1 DEF FrameOK
  <2>. QED
    BY <2>1, <2>2, ConcludeStopOnward
<1>. QED
  BY <1>2, <1>3, <1>4, <1>5, <1>6, <1>7, <1>8
  DEF Step, Crash, SubmitAnswered, SubmitReplyLost, SubmitTimesOut, SubmitDisconnected,
      StopRead, CancelConfirmed, CancelAnswered, CancelFails, ReconcileRead, LookupAnswered,
      LookupFails

LEMMA LedgerSteps ==
  ASSUME Serial, [Next]_vars
  PROVE  Appends \/ Revises \/ Onward
<1>. USE DEF Serial
<1>1. CASE Environment \/ UNCHANGED vars
  BY <1>1, NothingOnward DEF Environment, ledger, vars
<1>2. CASE \E r \in Runs : Call(r)
  BY <1>2, CallsOnward
<1>3. CASE \E a \in Actions : Feedback(a)
  <2>1. PICK a \in Actions : Feedback(a)
    BY <1>3
  <2>2. PICK n \in 1..Len(events[a]) : Apply(action[a].run_id, a, n)
    BY <2>1 DEF Feedback
  <2>3. action[a].run_id \in Runs
    BY <2>2 DEF Apply, Safe, KnownIsSubmitted, IntentFirst
  <2>. QED
    BY <2>2, <2>3, ApplyOnward
<1>4. CASE \E p \in Procs : Step(p) \/ Crash(p)
  BY <1>4, StepsOnward
<1>. QED
  BY <1>1, <1>2, <1>3, <1>4 DEF Next

LEMMA SerialStep ==
  ASSUME Serial, [Next]_vars
  PROVE  Serial'
<1>1. Safe'
  BY SafeStep DEF Serial
<1>2. Plan'
  BY <1>1, LedgerSteps, AppendPlan, RevisePlan, OnwardPlan DEF Appends, Revises
<1>. QED
  BY <1>1, <1>2 DEF Serial

LEMMA InitSerial == Init => Serial
<1>. SUFFICES ASSUME Init PROVE Plan
  BY InitSafe DEF Serial
<1>1. /\ \A a \in Actions : action[a] = NewAction(None, 0, 0)
      /\ \A r \in Runs : state[r] = NewRun
      /\ None \notin Runs
  BY ConstantFacts DEF Init
<1>2. /\ \A a \in Actions : /\ action[a].run_id = None /\ action[a].status = "QUEUED"
                            /\ action[a].submitted_at = NoTime
      /\ \A a \in Actions : action[a].verified = FALSE
  BY <1>1 DEF NewAction
<1>3. \A r \in Runs : state[r].next_sequence = 1 /\ state[r].status = "READY"
  BY <1>1 DEF NewRun
<1>4. PendingInPlan /\ PlanOrder /\ FrozenIsDropped /\ LeftBehind
  BY <1>1, <1>2, <1>3 DEF PendingInPlan, PlanOrder, FrozenIsDropped, LeftBehind
<1>5. FinalIsEnded /\ SuccessIsVerified
  BY <1>3 DEF FinalIsEnded, SuccessIsVerified, FinalStatus
<1>6. CheckpointsGate /\ UnusedIsNew /\ VerifiedIsCompleted
  BY <1>1, <1>2 DEF CheckpointsGate, UnusedIsNew, VerifiedIsCompleted
<1>. QED
  BY <1>4, <1>5, <1>6 DEF Plan

-----------------------------------------------------------------------------
(* The theorems.                                                           *)

\* Serial is an invariant.
THEOREM SerialInvariant == Spec => []Serial
<1>1. Serial /\ [Next]_vars => Serial'
  BY SerialStep
<1>. QED
  BY InitSerial, <1>1, PTL DEF Spec

\* A submitted action that has not ended belongs to the plan in force, and its
\* run is not over.
LEMMA ActiveInPlan ==
  ASSUME Serial, NEW a \in Actions, Active(a)
  PROVE  /\ Submitted(a) /\ action[a].run_id \in Runs
         /\ action[a].plan_version = state[action[a].run_id].plan_version
         /\ state[action[a].run_id].status \notin FinalStatus
<1>. USE DEF Serial, Plan
<1>1. Submitted(a) /\ action[a].run_id \in Runs /\ action[a].status \notin TERMINAL
  BY DEF Active, Safe, IntentFirst, TERMINAL
<1>2. action[a].plan_version = state[action[a].run_id].plan_version
  BY <1>1 DEF PendingInPlan
<1>3. state[action[a].run_id].status \notin FinalStatus
  BY <1>1 DEF FinalIsEnded, AllEnded, Pending, ActionsOf
<1>. QED
  BY <1>1, <1>2, <1>3

\* A run never has two executions that may move the robot.
THEOREM OneAtWork == Spec => []SerialExecution
<1>1. Serial => SerialExecution
  <2>. SUFFICES ASSUME Serial, NEW a \in Actions, NEW b \in Actions,
                       MayMove(a), MayMove(b), action[a].run_id = action[b].run_id
                PROVE  a = b
    BY DEF SerialExecution
  <2>. USE DEF Serial, Plan
  <2>1. Active(a) /\ Active(b)
    BY MayMoveIsActive
  <2>2. /\ Submitted(a) /\ Submitted(b) /\ action[a].run_id \in Runs
        /\ action[a].plan_version = action[b].plan_version
    BY <2>1, ActiveInPlan
  <2>3. ~(action[a].sequence < action[b].sequence) /\ ~(action[b].sequence < action[a].sequence)
    BY <2>1, <2>2 DEF CheckpointsGate, Submitted, Active, TERMINAL
  <2>4. action[a].sequence \in Int /\ action[b].sequence \in Int
    BY DEF Safe, TypeOK, TypeLedger, ActionRecord
  <2>5. action[a].sequence = action[b].sequence
    BY <2>3, <2>4
  <2>. QED
    BY <2>2, <2>5 DEF PlanOrder
<1>. QED
  BY <1>1, SerialInvariant, PTL

\* What may move is active in the ledger, in the plan in force, in a run that
\* is not over.
THEOREM NothingOrphaned == Spec => []NoOrphan
<1>1. Serial => NoOrphan
  BY MayMoveIsActive, ActiveInPlan DEF Serial, NoOrphan
<1>. QED
  BY <1>1, SerialInvariant, PTL

\* A run that is over has nothing left that may move, or that waits.
THEOREM FinalIsStill == Spec => []FinalMeansStopped
<1>1. Serial => FinalMeansStopped
  <2>. SUFFICES ASSUME Serial, NEW r \in Runs, state[r].status \in FinalStatus,
                       NEW a \in ActionsOf(r)
                PROVE  action[a].status \in TERMINAL /\ ~MayMove(a)
    BY DEF FinalMeansStopped
  <2>1. a \in Actions /\ action[a].status \in TERMINAL
    BY DEF Serial, Plan, FinalIsEnded, AllEnded, Pending, ActionsOf
  <2>. QED
    BY <2>1, MayMoveIsActive DEF Serial, Active
<1>. QED
  BY <1>1, SerialInvariant, PTL

\* No action is handed over before the checkpoints of all before it.
THEOREM Gated == Spec => []CheckpointsGate
<1>1. Serial => CheckpointsGate
  BY DEF Serial, Plan
<1>. QED
  BY <1>1, SerialInvariant, PTL

\* What the plan has not left behind yet has no end that could be too late.
LEMMA PlanSeen ==
  ASSUME Serial, NEW r \in Runs,
         \A a \in ActionsOf(r) :
           action[a].plan_version = state[r].plan_version => action[a].verified \/ ~Ended(a)
  PROVE  SeesEveryEnd(r, state[r].observation)
<1>. SUFFICES ASSUME NEW a \in Actions, action[a].run_id = r
              PROVE  action[a].finished_at <= state[r].observation.at
  BY DEF SeesEveryEnd, ActionsOf
<1>. USE DEF Serial, Plan
<1>1. CASE action[a].verified \/ action[a].plan_version # state[r].plan_version
  BY <1>1 DEF LeftBehind
<1>2. CASE ~Ended(a)
  <2>1. action[a].finished_at = NoTime
    BY <1>2 DEF Safe, IntentFirst
  <2>. QED
    BY <2>1, RunTyped
<1>. QED
  BY <1>1, <1>2 DEF ActionsOf

\* Success rests on evidence from after the end of every execution.
THEOREM Evidenced == Spec => []SuccessHasEvidence
<1>1. Serial => SuccessHasEvidence
  <2>. SUFFICES ASSUME Serial, NEW r \in Runs, state[r].status = "SUCCEEDED"
                PROVE  Unverified(r) = {} /\ SeesEveryEnd(r, state[r].observation)
    BY DEF SuccessHasEvidence
  <2>1. Unverified(r) = {}
    BY DEF Serial, Plan, SuccessIsVerified
  <2>2. \A a \in ActionsOf(r) :
          action[a].plan_version = state[r].plan_version => action[a].verified \/ ~Ended(a)
    BY <2>1 DEF Unverified, Current, ActionsOf, Ended, EndedStatus
  <2>. QED
    BY <2>1, <2>2, PlanSeen
<1>. QED
  BY <1>1, SerialInvariant, PTL

\* Every action goes onward, or is an unused id that append turns into a queued one.
LEMMA ActionsKept ==
  ASSUME Serial, [Next]_vars, NEW a \in Actions
  PROVE  \/ ActionOnward(a)
         \/ /\ action[a].status = "QUEUED"
            /\ action'[a].submitted_at = action[a].submitted_at
            /\ action'[a].last_event_sequence = action[a].last_event_sequence
<1>1. CASE Onward
  BY <1>1 DEF Onward
<1>2. CASE Revises
  BY <1>2, ActionStays DEF Revises, Revise
<1>3. CASE Appends
  <2>1. PICK r \in Runs, batch \in Batches : AppendActions(r, batch)
    BY <1>3 DEF Appends
  <2>2. PICK n \in Nat : \E place \in [Actions -> 0..n] :
          /\ place[a] = 0 => action'[a] = action[a]
          /\ place[a] # 0 =>
               /\ action[a].run_id = None
               /\ action'[a] = NewAction(r, state[r].plan_version,
                                         state[r].next_sequence - 1 + place[a])
    BY <2>1, AppendChanges DEF Serial
  <2>3. PICK place \in [Actions -> 0..n] :
          /\ place[a] = 0 => action'[a] = action[a]
          /\ place[a] # 0 =>
               /\ action[a].run_id = None
               /\ action'[a] = NewAction(r, state[r].plan_version,
                                         state[r].next_sequence - 1 + place[a])
    BY <2>2
  <2>4. CASE place[a] = 0
    BY <2>3, <2>4, ActionStays
  <2>5. CASE place[a] # 0
    <3>1. action[a] = NewAction(None, 0, 0)
      BY <2>3, <2>5 DEF Serial, Plan, UnusedIsNew
    <3>2. PICK s : action'[a] = NewAction(r, state[r].plan_version, s)
      BY <2>3, <2>5
    <3>. QED
      BY <3>1, <3>2 DEF NewAction
  <2>. QED
    BY <2>4, <2>5
<1>. QED
  BY <1>1, <1>2, <1>3, LedgerSteps

\* An end is for good.
THEOREM EndsStay == Spec => EndIsForGood
<1>1. Serial /\ [Next]_vars =>
        [\A a \in Actions : action[a].status \in TERMINAL =>
           /\ action'[a].status = action[a].status
           /\ action'[a].finished_at = action[a].finished_at
           /\ action[a].verified => action'[a].verified]_vars
  <2>. SUFFICES ASSUME Serial, [Next]_vars, NEW a \in Actions, action[a].status \in TERMINAL
                PROVE  /\ action'[a].status = action[a].status
                       /\ action'[a].finished_at = action[a].finished_at
                       /\ action[a].verified => action'[a].verified
    OBVIOUS
  <2>1. ActionOnward(a)
    BY ActionsKept DEF TERMINAL
  <2>. QED
    BY <2>1 DEF ActionOnward
<1>. QED
  BY <1>1, SerialInvariant, PTL DEF Spec, EndIsForGood

\* Every submission follows evidence from after all that the run did before.
THEOREM DispatchSees == Spec => DispatchSeesThePast
<1>1. Serial /\ [Next]_vars =>
        [\A a \in Actions : action'[a].submitted_at # action[a].submitted_at =>
           /\ action[a].submitted_at = NoTime
           /\ SeesEveryEnd(action[a].run_id, state[action[a].run_id].observation)]_vars
  <2>. SUFFICES ASSUME Serial, [Next]_vars, NEW a \in Actions,
                       action'[a].submitted_at # action[a].submitted_at
                PROVE  /\ action[a].submitted_at = NoTime
                       /\ SeesEveryEnd(action[a].run_id, state[action[a].run_id].observation)
    OBVIOUS
  <2>1. ActionOnward(a)
    BY ActionsKept
  <2>2. PICK r \in Runs : r = action[a].run_id
    BY <2>1 DEF ActionOnward
  <2>3. ~Submitted(a) /\ GateOpen(a) /\ action[a].plan_version = state[r].plan_version
    BY <2>1, <2>2 DEF ActionOnward
  <2>4. ASSUME NEW b \in ActionsOf(r), action[b].plan_version = state[r].plan_version
        PROVE  action[b].verified \/ ~Ended(b)
    <3>1. b \in Actions /\ action[b].run_id = r
      BY DEF ActionsOf
    <3>2. action[a].sequence \in Int /\ action[b].sequence \in Int
      BY <3>1 DEF Serial, Safe, TypeOK, TypeLedger, ActionRecord
    <3>3. CASE action[b].sequence < action[a].sequence
      BY <2>2, <2>3, <2>4, <3>1, <3>3 DEF GateOpen
    <3>4. CASE action[b].sequence >= action[a].sequence
      <4>1. ~Submitted(b)
        <5>1. CASE action[b].sequence = action[a].sequence
          <6>1. b = a
            BY <2>2, <2>3, <2>4, <3>1, <5>1 DEF Serial, Plan, PlanOrder
          <6>. QED
            BY <2>3, <6>1
        <5>2. CASE action[a].sequence < action[b].sequence
          <6>1. Submitted(b) => action[a].status = "COMPLETED"
            BY <2>2, <2>3, <2>4, <3>1, <5>2 DEF Serial, Plan, CheckpointsGate, Submitted
          <6>. QED
            BY <2>3, <6>1 DEF Serial, Safe, IntentFirst
        <5>. QED
          BY <3>2, <3>4, <5>1, <5>2
      <4>. QED
        BY <3>1, <4>1 DEF Serial, Safe, IntentFirst, Ended, EndedStatus, TERMINAL
    <3>. QED
      BY <3>2, <3>3, <3>4
  <2>5. SeesEveryEnd(r, state[r].observation)
    BY <2>4, PlanSeen
  <2>. QED
    BY <2>2, <2>3, <2>5 DEF Submitted
<1>. QED
  BY <1>1, SerialInvariant, PTL DEF Spec, DispatchSeesThePast

\* Events act at most once, and in order.
THEOREM EventsOnce == Spec => EventsActInOrder
<1>1. Serial /\ [Next]_vars =>
        [\A a \in Actions :
           /\ action'[a].last_event_sequence >= action[a].last_event_sequence
           /\ action'[a].last_event_sequence # action[a].last_event_sequence =>
                <<a, action'[a].last_event_sequence>> \notin received]_vars
  <2>. SUFFICES ASSUME Serial, [Next]_vars, NEW a \in Actions
                PROVE  /\ action'[a].last_event_sequence >= action[a].last_event_sequence
                       /\ action'[a].last_event_sequence # action[a].last_event_sequence =>
                            <<a, action'[a].last_event_sequence>> \notin received
    OBVIOUS
  <2>1. action[a].last_event_sequence \in Nat /\ action'[a].last_event_sequence \in Nat
    <3>1. Safe /\ Safe'
      BY SafeStep DEF Serial
    <3>. QED
      BY <3>1 DEF Safe, TypeOK, TypeLedger, ActionRecord
  <2>2. CASE ActionOnward(a)
    BY <2>1, <2>2 DEF ActionOnward
  <2>3. CASE ~ActionOnward(a)
    BY <2>1, <2>3, ActionsKept
  <2>. QED
    BY <2>2, <2>3
<1>. QED
  BY <1>1, SerialInvariant, PTL DEF Spec, EventsActInOrder
=============================================================================
