--------------------------- MODULE Stream_proofs ---------------------------
(***************************************************************************)
(* Scheduler implements ActionStream, for all values of the constants: its *)
(* initial state is one of the stream, and every step of it is a step of   *)
(* the stream or leaves the stream alone.                                  *)
(***************************************************************************)
EXTENDS Plan_proofs, SchedulerStream

USE DEF NoTime, NoIntent

StreamStep == [Stream!Next]_(Stream!vars)

\* The plans in force stay, and so does what the actions are.
PlansStay ==
  /\ \A a \in Actions : /\ action'[a].run_id = action[a].run_id
                        /\ action'[a].plan_version = action[a].plan_version
                        /\ action'[a].sequence = action[a].sequence
  /\ \A r \in Runs : state'[r].plan_version = state[r].plan_version

LEMMA OnwardPlansStay ==
  ASSUME Onward PROVE PlansStay
  BY DEF Onward, ActionOnward, RunOnward, PlansStay

FrozenStays == \A r \in Runs : state'[r].frozen = state[r].frozen

LEMMA StreamStays ==
  ASSUME PlansStay, FrozenStays, \A a \in Actions : StageOf(a)' = StageOf(a)
  PROVE  StreamStep
  BY DEF StreamStep, PlansStay, FrozenStays, Stream!vars, Stream!contents

\* One action comes further.
LEMMA OneEnds ==
  ASSUME PlansStay, FrozenStays, NEW a \in Actions,
         \A b \in Actions \ {a} : StageOf(b)' = StageOf(b),
         StageOf(a) = "busy", StageOf(a)' \in {"completed", "failed"}
  PROVE  StreamStep
<1>1. Stream!End(a)
  BY DEF Stream!End, PlansStay, FrozenStays, Stream!contents
<1>. QED
  BY <1>1 DEF StreamStep, Stream!Next

LEMMA OnePasses ==
  ASSUME PlansStay, FrozenStays, NEW a \in Actions,
         \A b \in Actions \ {a} : StageOf(b)' = StageOf(b),
         StageOf(a) = "completed", StageOf(a)' = "passed",
         action[a].run_id \in Runs,
         action[a].plan_version = state[action[a].run_id].plan_version
  PROVE  StreamStep
<1>1. Stream!Pass(a)
  BY DEF Stream!Pass, PlansStay, FrozenStays, Stream!contents
<1>. QED
  BY <1>1 DEF StreamStep, Stream!Next

LEMMA StageKept ==
  ASSUME NEW a \in Actions, action'[a] = action[a]
  PROVE  StageOf(a)' = StageOf(a)
  BY DEF StageOf, Active

\* What is active in the ledger is at work in the stream.
LEMMA ActiveIsBusy ==
  ASSUME Safe, NEW a \in Actions
  PROVE  /\ Active(a) <=> StageOf(a) = "busy"
         /\ Submitted(a) /\ ~Ended(a) => Active(a)
  BY ConstantFacts DEF Safe, IntentFirst, StageOf, Active, Submitted, Ended, EndedStatus, TERMINAL

LEMMA StatusKeepsFrozen ==
  ASSUME Safe, NEW r \in Runs, NEW s, state' = [state EXCEPT ![r].status = s]
  PROVE  FrozenStays
<1>. SUFFICES ASSUME NEW q \in Runs PROVE state'[q].frozen = state[q].frozen
  BY DEF FrozenStays
<1>1. state'[q] = state[q] \/ state'[q] = [state[q] EXCEPT !.status = s]
  BY DEF Safe, TypeOK, TypeLedger
<1>. QED
  BY <1>1, RunTyped DEF RunState

-----------------------------------------------------------------------------
(* The transactions.                                                       *)

LEMMA ActionsUnchanged ==
  ASSUME Onward, FrozenStays, action' = action
  PROVE  StreamStep
  BY OnwardPlansStay, StreamStays, StageKept

LEMMA MarkUnknownStream ==
  ASSUME Safe, NEW r \in Runs, NEW a \in Actions, Submitted(a), MarkUnknown(r, a)
  PROVE  StreamStep
<1>1. Onward /\ FrozenStays
  BY MarkUnknownOnward DEF FrozenStays, MarkUnknown, Safe, TypeOK, TypeLedger, RunState
<1>2. CASE action' = action
  BY <1>1, <1>2, ActionsUnchanged
<1>3. CASE action[a].status \notin TERMINAL
  <2>1. /\ action'[a].status = "EXECUTION_UNKNOWN" /\ action'[a].run_id = action[a].run_id
        /\ \A b \in Actions \ {a} : action'[b] = action[b]
    BY <1>3 DEF MarkUnknown, Safe, TypeOK, TypeLedger, ActionRecord
  <2>2. action[a].run_id # None /\ action[a].status # "QUEUED"
    BY ConstantFacts DEF Safe, IntentFirst
  <2>3. StageOf(a)' = StageOf(a)
    BY <1>3, <2>1, <2>2 DEF StageOf, Active, TERMINAL
  <2>. QED
    BY <1>1, <2>1, <2>3, StageKept, OnwardPlansStay, StreamStays
<1>. QED
  BY <1>2, <1>3 DEF MarkUnknown

LEMMA AcceptSnapshotStream ==
  ASSUME Safe, NEW r \in Runs, NEW a \in started, NEW n, AcceptSnapshot(r, a, n)
  PROVE  StreamStep
<1>1. Onward /\ FrozenStays
  BY AcceptSnapshotOnward DEF FrozenStays, AcceptSnapshot, Safe, TypeOK, TypeLedger, RunState
<1>2. a \in Actions /\ Submitted(a)
  BY DEF Safe, TypeOK, TypeExecutor, KnownIsSubmitted
<1>3. action[a].run_id # None /\ action[a].status # "QUEUED"
  BY <1>2, ConstantFacts DEF Safe, IntentFirst
<1>4. /\ action'[a] = [action[a] EXCEPT !.status = StatusFound(a, n), !.execution_id = TRUE]
      /\ \A b \in Actions \ {a} : action'[b] = action[b]
  BY <1>2 DEF AcceptSnapshot, Safe, TypeOK, TypeLedger, ActionRecord
<1>5. /\ action'[a].run_id = action[a].run_id /\ action'[a].verified = action[a].verified
      /\ action'[a].status = StatusFound(a, n)
  BY <1>2, <1>4 DEF Safe, TypeOK, TypeLedger, ActionRecord
<1>6. \/ StatusFound(a, n) = action[a].status
      \/ action[a].status \notin TERMINAL /\ StatusFound(a, n) \in {"STOPPING", "RUNNING"}
  BY DEF StatusFound, FoundAtWork, AtWork
<1>7. StageOf(a)' = StageOf(a)
  BY <1>3, <1>5, <1>6 DEF StageOf, Active, TERMINAL
<1>. QED
  BY <1>1, <1>4, <1>7, StageKept, OnwardPlansStay, StreamStays

LEMMA ConcludeStopStream ==
  ASSUME Safe, NEW r \in Runs, ConcludeStop(r)
  PROVE  StreamStep
<1>1. Onward /\ FrozenStays
  BY ConcludeStopOnward DEF FrozenStays, ConcludeStop, Safe, TypeOK, TypeLedger, RunState
<1>2. ASSUME NEW a \in Actions, a \in StopExpired(r)
      PROVE  StageOf(a)' = StageOf(a)
  <2>1. /\ action'[a].status = "EXECUTION_UNKNOWN" /\ action'[a].run_id = action[a].run_id
    BY <1>2 DEF ConcludeStop, Safe, TypeOK, TypeLedger, ActionRecord
  <2>2. action[a].stop_requested_at # NoTime /\ action[a].status \notin TERMINAL
    BY <1>2 DEF StopExpired, Pending
  <2>3. action[a].run_id # None /\ action[a].status # "QUEUED"
    BY <2>2, ConstantFacts DEF Safe, IntentFirst
  <2>. QED
    BY <2>1, <2>2, <2>3 DEF StageOf, Active, TERMINAL
<1>3. ASSUME NEW a \in Actions, a \notin StopExpired(r)
      PROVE  StageOf(a)' = StageOf(a)
  BY <1>3, StageKept DEF ConcludeStop
<1>. QED
  BY <1>1, <1>2, <1>3, OnwardPlansStay, StreamStays

\* An event brings an action to its end, or is no news for the stream.
LEMMA ApplyStream ==
  ASSUME Serial, NEW r \in Runs, NEW a \in Actions, NEW n \in 1..Len(events[a]), Apply(r, a, n)
  PROVE  StreamStep
<1>. USE DEF Serial
<1>. DEFINE event == events[a][n]
<1>1. Onward /\ FrozenStays
  <2>1. CASE News(a, n)
    <3>1. state' = [state EXCEPT ![r].status = RunStatusReported(r, a, event)]
      BY <2>1 DEF Apply
    <3>2. PICK s : state' = [state EXCEPT ![r].status = s]
      BY <3>1
    <3>. QED
      BY <3>2, StatusKeepsFrozen, ApplyOnward
  <2>2. CASE ~News(a, n)
    BY <2>2, ApplyOnward DEF Apply, FrozenStays
  <2>. QED
    BY <2>1, <2>2
<1>2. /\ action[a] \in ActionRecord /\ action[a].run_id # None /\ Submitted(a)
  BY ConstantFacts DEF Apply, Safe, TypeOK, TypeLedger, KnownIsSubmitted, IntentFirst
<1>3. CASE ~News(a, n)
  BY <1>1, <1>3, ActionsUnchanged DEF Apply
<1>4. CASE News(a, n)
  <2>1. /\ action'[a].status = StatusReported(a, event)
        /\ action'[a].run_id = action[a].run_id
        /\ action'[a].verified = action[a].verified
        /\ \A b \in Actions \ {a} : action'[b] = action[b]
    <3>. DEFINE t == IF Confirms(event) THEN event.at ELSE action[a].finished_at
    <3>1. action' = [action EXCEPT ![a] = [action[a] EXCEPT !.last_event_sequence = n,
                       !.status = StatusReported(a, event), !.finished_at = t]]
      BY <1>4 DEF Apply
    <3>2. action'[a] = [action[a] EXCEPT !.last_event_sequence = n,
                          !.status = StatusReported(a, event), !.finished_at = t]
      BY <3>1 DEF Safe, TypeOK, TypeLedger
    <3>3. \A b \in Actions \ {a} : action'[b] = action[b]
      BY <3>1 DEF Safe, TypeOK, TypeLedger
    <3>. HIDE DEF t
    <3>. QED
      BY <1>2, <3>2, <3>3 DEF ActionRecord
  <2>2. action[a].status \notin TERMINAL /\ action[a].status # "QUEUED"
    BY <1>2, <1>4 DEF News, Safe, IntentFirst
  <2>3. StageOf(a) = "busy"
    BY <1>2, <2>2 DEF StageOf, Active, TERMINAL
  <2>4. CASE StatusReported(a, event) \in {"STOPPING", "RUNNING", "EXECUTION_UNKNOWN"}
    <3>1. StageOf(a)' = "busy"
      BY <1>2, <2>1, <2>4 DEF StageOf, Active, TERMINAL
    <3>. QED
      BY <1>1, <2>1, <2>3, <3>1, StageKept, OnwardPlansStay, StreamStays
  <2>5. CASE StatusReported(a, event) \in TERMINAL \ {"INVALIDATED"}
    <3>1. StageOf(a)' \in {"completed", "passed", "failed"}
      BY <1>2, <2>1, <2>5 DEF StageOf, Active, TERMINAL
    <3>2. action[a].verified = FALSE
      BY <2>2, <1>2 DEF ActionRecord, Plan, VerifiedIsCompleted, TERMINAL
    <3>. QED
      BY <1>1, <2>1, <2>3, <3>1, <3>2, StageKept, OnwardPlansStay, OneEnds DEF StageOf
  <2>. QED
    BY <2>4, <2>5 DEF StatusReported, AtWork, Confirms
<1>. QED
  BY <1>3, <1>4

LEMMA FreezePlanStream ==
  ASSUME Safe, NEW r \in Runs, NEW reason \in StopReasons, FreezePlan(r, reason)
  PROVE  StreamStep
<1>1. PlansStay
  BY FreezePlanOnward, OnwardPlansStay
<1>2. ASSUME NEW q \in Runs
      PROVE  state'[q].frozen = IF q = r THEN TRUE ELSE state[q].frozen
  BY DEF FreezePlan, Safe, TypeOK, TypeLedger, RunState
<1>3. ASSUME NEW a \in Actions
      PROVE  StageOf(a)' = IF action[a].run_id = r /\ StageOf(a) = "queued" THEN "dropped" ELSE StageOf(a)
  <2>1. r # None /\ action'[a].run_id = action[a].run_id
    BY <1>1, ConstantFacts DEF PlansStay
  <2>2. CASE a \notin Pending(r)
    <3>1. action'[a] = action[a]
      BY <2>2 DEF FreezePlan
    <3>2. ~(action[a].run_id = r /\ StageOf(a) = "queued")
      BY <2>1, <2>2 DEF Pending, ActionsOf, StageOf, Active, TERMINAL
    <3>. QED
      BY <3>1, <3>2, StageKept
  <2>3. CASE a \in Pending(r) /\ Droppable(a)
    <3>1. action'[a].status = "INVALIDATED"
      BY <2>3 DEF FreezePlan, Safe, TypeOK, TypeLedger, ActionRecord
    <3>. QED
      BY <2>1, <2>3, <3>1 DEF Pending, ActionsOf, StageOf, Droppable, Active, TERMINAL
  <2>4. CASE a \in Pending(r) /\ ~Droppable(a)
    <3>1. action'[a].status = "STOPPING"
      BY <2>4 DEF FreezePlan, Safe, TypeOK, TypeLedger, ActionRecord
    <3>. QED
      BY <2>1, <2>4, <3>1 DEF Pending, ActionsOf, StageOf, Droppable, Active, TERMINAL
  <2>. QED
    BY <2>2, <2>3, <2>4
<1>4. Stream!Stop(r)
  BY <1>1, <1>2, <1>3 DEF Stream!Stop, Stream!Of, Stream!contents, PlansStay
<1>. QED
  BY <1>4 DEF StreamStep, Stream!Next

LEMMA PassCheckpointStream ==
  ASSUME Serial, NEW r \in Runs, NEW a \in Actions, PassCheckpoint(r, a)
  PROVE  StreamStep
<1>. USE DEF Serial
<1>1. /\ action[a].run_id = r /\ action[a].plan_version = state[r].plan_version
      /\ action[a].status = "COMPLETED" /\ ~action[a].verified /\ r # None
  BY ConstantFacts DEF PassCheckpoint, Finished, Current, ActionsOf
<1>2. /\ action'[a].run_id = r /\ action'[a].status = "COMPLETED" /\ action'[a].verified
      /\ \A b \in Actions \ {a} : action'[b] = action[b]
      /\ FrozenStays
  BY <1>1 DEF PassCheckpoint, Safe, TypeOK, TypeLedger, ActionRecord, FrozenStays
<1>3. StageOf(a) = "completed" /\ StageOf(a)' = "passed"
  BY <1>1, <1>2 DEF StageOf, Active, TERMINAL
<1>. QED
  BY <1>1, <1>2, <1>3, StageKept, PassCheckpointOnward, OnwardPlansStay, OnePasses

\* The submission: the gate is open, and nothing of the run is at work.
LEMMA SubmitIntentStream ==
  ASSUME Serial, NEW r \in Runs, NEW a \in Actions, SubmitIntent(r, a)
  PROVE  StreamStep
<1>. USE DEF Serial
<1>1. /\ action[a].run_id = r /\ action[a].status = "QUEUED" /\ r # None
      /\ action[a].plan_version = state[r].plan_version
      /\ ~state[r].frozen /\ ~Submitted(a)
  BY ConstantFacts DEF SubmitIntent, Unverified, Current, ActionsOf, Safe, IntentFirst
<1>2. /\ action'[a].status = "SUBMITTING" /\ action'[a].run_id = r
      /\ action'[a].submitted_at # action[a].submitted_at
      /\ \A b \in Actions \ {a} : action'[b] = action[b]
      /\ FrozenStays
  <2>1. now # action[a].submitted_at
    <3>1. now \in Nat
      BY DEF Safe, TypeOK, TypeExecutor
    <3>2. action[a].submitted_at = -1
      BY <1>1 DEF Submitted
    <3>. QED
      BY <3>1, <3>2
  <2>2. /\ action'[a] = [action[a] EXCEPT !.status = "SUBMITTING", !.submitted_at = now,
                           !.execution_observation_id = state[r].observation.id]
        /\ \A b \in Actions \ {a} : action'[b] = action[b]
    BY DEF SubmitIntent, Safe, TypeOK, TypeLedger
  <2>3. FrozenStays
    BY DEF SubmitIntent, Safe, TypeOK, TypeLedger, RunState, FrozenStays
  <2>. QED
    BY <1>1, <2>1, <2>2, <2>3 DEF Safe, TypeOK, TypeLedger, ActionRecord
<1>3. StageOf(a) = "queued" /\ StageOf(a)' = "busy"
  BY <1>1, <1>2 DEF StageOf, Active, TERMINAL
<1>4. GateOpen(a) /\ PlansStay
  BY <1>2, SubmitIntentOnward, OnwardPlansStay DEF Onward, ActionOnward
<1>5. ASSUME NEW b \in Actions, action[b].run_id = r, action[b].plan_version = action[a].plan_version,
             action[b].sequence < action[a].sequence
      PROVE  StageOf(b) = "passed"
  <2>1. action[b].status = "COMPLETED" /\ action[b].verified
    BY <1>1, <1>4, <1>5 DEF GateOpen
  <2>. QED
    BY <1>1, <1>5, <2>1 DEF StageOf, Active, TERMINAL
<1>6. ASSUME NEW b \in Actions, action[b].run_id = r, StageOf(b) = "busy"
      PROVE  FALSE
  <2>1. Active(b) /\ Submitted(b) /\ action[b].plan_version = action[a].plan_version
    BY <1>1, <1>6, ActiveIsBusy, ActiveInPlan
  <2>2. action[a].sequence \in Int /\ action[b].sequence \in Int
    BY DEF Safe, TypeOK, TypeLedger, ActionRecord
  <2>3. CASE action[b].sequence < action[a].sequence
    BY <1>5, <1>6, <2>1, <2>3
  <2>4. CASE action[b].sequence = action[a].sequence
    BY <1>1, <1>6, <2>1, <2>4 DEF Plan, PlanOrder
  <2>5. CASE action[a].sequence < action[b].sequence
    BY <1>1, <1>6, <2>1, <2>5 DEF Plan, CheckpointsGate, Submitted
  <2>. QED
    BY <2>2, <2>3, <2>4, <2>5
<1>7. Stream!Start(a)
  <2>1. \A b \in Stream!Before(a) : StageOf(b) = "passed"
    BY <1>1, <1>5 DEF Stream!Before, Stream!Of
  <2>2. \A b \in Stream!Of(r) : StageOf(b) # "busy"
    BY <1>6 DEF Stream!Of
  <2>3. \A b \in Actions \ {a} : StageOf(b)' = StageOf(b)
    BY <1>2, StageKept
  <2>. QED
    BY <1>1, <1>2, <1>3, <1>4, <2>1, <2>2, <2>3
    DEF Stream!Start, Stream!Before, Stream!Of, Stream!contents, PlansStay, FrozenStays
<1>. QED
  BY <1>7 DEF StreamStep, Stream!Next

LEMMA ReviseStream ==
  ASSUME Serial, NEW r \in Runs, NEW observation \in Observation, Revise(r, observation)
  PROVE  StreamStep
<1>. USE DEF Serial
<1>1. /\ state[r].frozen /\ action' = action
      /\ \A q \in Runs \ {r} : state'[q] = state[q]
      /\ state'[r].plan_version = state[r].plan_version + 1 /\ state'[r].frozen = FALSE
  BY DEF Revise, Safe, TypeOK, TypeLedger, RunState
<1>2. ASSUME NEW a \in Actions, action[a].run_id = r
      PROVE  StageOf(a) \notin {"queued", "busy"}
  <2>1. action[a].status \in TERMINAL /\ r # None
    BY <1>2, ConstantFacts DEF Revise, AllEnded, Pending, ActionsOf
  <2>. QED
    BY <1>2, <2>1 DEF StageOf, Active, TERMINAL
<1>3. \A a \in Actions : StageOf(a)' = StageOf(a)
  BY <1>1, StageKept
<1>4. Stream!Replan(r)
  BY <1>1, <1>2, <1>3 DEF Stream!Replan, Stream!Of, Stream!contents
<1>. QED
  BY <1>4 DEF StreamStep, Stream!Next

LEMMA NewActionFields ==
  ASSUME NEW r, NEW version, NEW sequence
  PROVE  /\ NewAction(r, version, sequence).run_id = r
         /\ NewAction(r, version, sequence).plan_version = version
         /\ NewAction(r, version, sequence).sequence = sequence
         /\ NewAction(r, version, sequence).status = "QUEUED"
  BY DEF NewAction

LEMMA AppendStream ==
  ASSUME Serial, Safe', NEW r \in Runs, NEW batch \in Batches, AppendActions(r, batch)
  PROVE  StreamStep
<1>. USE DEF Serial
<1>1. PICK n \in Nat : \E place \in [Actions -> 0..n] :
        /\ \A a \in Actions : place[a] = 0 => action'[a] = action[a]
        /\ \A a \in Actions : place[a] # 0 =>
             /\ action[a].run_id = None
             /\ action'[a] = NewAction(r, state[r].plan_version,
                                       state[r].next_sequence - 1 + place[a])
        /\ \A a, b \in Actions : place[a] # 0 /\ place[a] = place[b] => a = b
        /\ state' = [state EXCEPT ![r].next_sequence = state[r].next_sequence + n]
  BY AppendChanges
<1>2. PICK place \in [Actions -> 0..n] :
        /\ \A a \in Actions : place[a] = 0 => action'[a] = action[a]
        /\ \A a \in Actions : place[a] # 0 =>
             /\ action[a].run_id = None
             /\ action'[a] = NewAction(r, state[r].plan_version,
                                       state[r].next_sequence - 1 + place[a])
        /\ \A a, b \in Actions : place[a] # 0 /\ place[a] = place[b] => a = b
        /\ state' = [state EXCEPT ![r].next_sequence = state[r].next_sequence + n]
  BY <1>1
<1>. DEFINE new == {a \in Actions : place[a] # 0}
<1>3. \A q \in Runs : /\ state'[q].plan_version = state[q].plan_version
                      /\ state'[q].frozen = state[q].frozen
  <2>. SUFFICES ASSUME NEW q \in Runs PROVE /\ state'[q].plan_version = state[q].plan_version
                                             /\ state'[q].frozen = state[q].frozen
    OBVIOUS
  <2>1. state[q] \in RunState /\ state \in [Runs -> RunState]
    BY RunTyped DEF Safe, TypeOK, TypeLedger
  <2>2. CASE q = r
    <3>. DEFINE next == state[r].next_sequence + n
    <3>1. state' = [state EXCEPT ![r].next_sequence = next]
      BY <1>2
    <3>. HIDE DEF next
    <3>2. state'[q] = [state[q] EXCEPT !.next_sequence = next]
      BY <2>1, <2>2, <3>1
    <3>. QED
      BY <2>1, <3>2 DEF RunState
  <2>3. CASE q # r
    <3>1. state'[q] = state[q]
      BY <1>2, <2>1, <2>3
    <3>. QED
      BY <3>1
  <2>. QED
    BY <2>2, <2>3
<1>4. ASSUME NEW a \in new
      PROVE  /\ StageOf(a) = "unused" /\ StageOf(a)' = "queued"
             /\ action'[a].run_id = r /\ action'[a].plan_version = state[r].plan_version
             /\ action'[a].sequence = state[r].next_sequence - 1 + place[a]
  <2>1. a \in Actions /\ action[a].run_id = None
    BY <1>2
  <2>2. /\ action'[a].run_id = r /\ action'[a].plan_version = state[r].plan_version
        /\ action'[a].sequence = state[r].next_sequence - 1 + place[a]
        /\ action'[a].status = "QUEUED"
    <3>1. action'[a] = NewAction(r, state[r].plan_version, state[r].next_sequence - 1 + place[a])
      BY <1>2, <2>1
    <3>. QED
      BY <3>1, NewActionFields
  <2>3. StageOf(a) = "unused"
    <3>1. action[a].status = "QUEUED"
      BY <2>1, NewActionFields DEF Plan, UnusedIsNew
    <3>. QED
      BY <2>1, <3>1 DEF StageOf, Active, TERMINAL
  <2>4. StageOf(a)' = "queued"
    BY <2>2, ConstantFacts DEF StageOf, Active, TERMINAL
  <2>. QED
    BY <2>2, <2>3, <2>4
<1>5. ASSUME NEW a \in Actions \ new
      PROVE  action'[a] = action[a] /\ StageOf(a)' = StageOf(a)
  BY <1>2, StageKept
<1>6. ASSUME NEW a \in new, NEW b \in Actions, action[b].run_id = r,
             action[b].plan_version = state[r].plan_version
      PROVE  action[b].sequence < action'[a].sequence
  <2>1. action[b].sequence < state[r].next_sequence
    BY <1>6 DEF Plan, PlanOrder
  <2>2. /\ action[b].sequence \in Int /\ state[r].next_sequence \in Int
        /\ place[a] \in Int /\ place[a] >= 1
    BY <1>2, RunTyped DEF Safe, TypeOK, TypeLedger, ActionRecord
  <2>. QED
    BY <1>4, <2>1, <2>2
<1>7. ASSUME NEW a \in new, NEW b \in new, action'[a].sequence = action'[b].sequence
      PROVE  b = a
  <2>1. state[r].next_sequence \in Int /\ place[a] \in Int /\ place[b] \in Int
    BY <1>2, RunTyped
  <2>2. place[a] = place[b]
    BY <1>4, <1>7, <2>1
  <2>. QED
    BY <1>2, <2>2
<1>8. \A a \in Actions : action'[a].sequence \in Nat
  BY DEF Safe, TypeOK, TypeLedger, ActionRecord
<1>9. ~state[r].frozen
  BY DEF AppendActions
<1>. HIDE DEF new
<1>10. Stream!Accept(r, new)
  <2>1. new \subseteq Actions
    BY DEF new
  <2>2. \A a \in Actions : /\ StageOf(a)' = IF a \in new THEN "queued" ELSE StageOf(a)
                           /\ action'[a].run_id = IF a \in new THEN r ELSE action[a].run_id
                           /\ action'[a].plan_version = IF a \in new THEN state[r].plan_version
                                                       ELSE action[a].plan_version
                           /\ a \notin new => action'[a].sequence = action[a].sequence
    BY <1>4, <1>5
  <2>3. [a \in Actions |-> action'[a].sequence] \in [Actions -> Nat]
    BY <1>8
  <2>4. \A a \in new : /\ \A b \in Stream!Of(r) :
                            action[b].plan_version = state[r].plan_version =>
                              action[b].sequence < action'[a].sequence
                       /\ \A b \in new : action'[b].sequence = action'[a].sequence => b = a
    BY <1>6, <1>7 DEF Stream!Of
  <2>5. /\ ~state[r].frozen /\ \A a \in new : StageOf(a) = "unused"
        /\ [a \in Actions |-> StageOf(a)]' =
             [a \in Actions |-> IF a \in new THEN "queued" ELSE [b \in Actions |-> StageOf(b)][a]]
    BY <1>4, <1>9, <2>1, <2>2
  <2>6. /\ [a \in Actions |-> action'[a].run_id] =
             [a \in Actions |-> IF a \in new THEN r ELSE [b \in Actions |-> action[b].run_id][a]]
        /\ [a \in Actions |-> action'[a].plan_version] =
             [a \in Actions |-> IF a \in new THEN state[r].plan_version
                               ELSE [b \in Actions |-> action[b].plan_version][a]]
    BY <2>1, <2>2
  <2>7. /\ [q \in Runs |-> state'[q].plan_version] = [q \in Runs |-> state[q].plan_version]
        /\ [q \in Runs |-> state'[q].frozen] = [q \in Runs |-> state[q].frozen]
    BY <1>3
  <2>. QED
    BY <2>1, <2>2, <2>3, <2>4, <2>5, <2>6, <2>7 DEF Stream!Accept, Stream!Of
<1>. QED
  BY <1>10 DEF StreamStep, Stream!Next, new
-----------------------------------------------------------------------------
(* The calls and their steps.                                              *)

\* Closing a stream and observing the world are no concern of the stream.
LEMMA CloseStream ==
  ASSUME Safe, NEW r \in Runs, NEW last, Close(r, last)
  PROVE  StreamStep
<1>1. FrozenStays
  BY DEF Close, FrozenStays, Safe, TypeOK, TypeLedger, RunState
<1>. QED
  BY <1>1, CloseOnward, ActionsUnchanged DEF Close

LEMMA ObserveStream ==
  ASSUME Safe, NEW r \in Runs, NEW observation \in Observation, Observe(r, observation)
  PROVE  StreamStep
<1>1. FrozenStays
  BY DEF Observe, FrozenStays, Safe, TypeOK, TypeLedger, RunState
<1>. QED
  BY <1>1, ObserveOnward, ActionsUnchanged DEF Observe

LEMMA VerdictStream ==
  ASSUME Serial, NEW r \in Runs, PassFinal(r) \/ FailVerification(r)
  PROVE  StreamStep
<1>1. FrozenStays /\ action' = action
  BY StatusKeepsFrozen DEF PassFinal, FailVerification, Serial
<1>. QED
  BY <1>1, VerdictOnward, ActionsUnchanged DEF Serial

LEMMA NothingStream ==
  ASSUME Safe, UNCHANGED <<state, action>>
  PROVE  StreamStep
  BY NothingOnward, ActionsUnchanged DEF FrozenStays

LEMMA CallsStream ==
  ASSUME Serial, Safe', NEW r \in Runs, Call(r)
  PROVE  StreamStep
<1>. USE DEF Serial
<1>1. CASE Appending(r)
  BY <1>1, AppendStream DEF Appending
<1>2. CASE Closing(r)
  BY <1>2, CloseStream DEF Closing
<1>3. CASE Revising(r)
  BY <1>3, ObservationsTyped, ReviseStream DEF Revising
<1>4. CASE Observing(r)
  BY <1>4, ObservationsTyped, ObserveStream DEF Observing
<1>5. CASE Verifying(r)
  BY <1>5, PassCheckpointStream, VerdictStream DEF Verifying
<1>6. ASSUME NEW p \in Procs, NEW a \in Actions, Dispatch(p, r, a)
      PROVE  StreamStep
  BY <1>6, SubmitIntentStream DEF Dispatch
<1>7. ASSUME NEW p \in Procs, NEW reason \in StopRequests, RequestStop(p, r, reason)
      PROVE  StreamStep
  BY <1>7, ConstantFacts, FreezePlanStream DEF RequestStop
<1>8. ASSUME NEW p \in Procs, Reconcile(p, r) \/ Tick(p, r)
      PROVE  StreamStep
  BY <1>8, NothingStream DEF Reconcile, Tick, ledger
<1>. QED
  BY <1>1, <1>2, <1>3, <1>4, <1>5, <1>6, <1>7, <1>8 DEF Call

LEMMA StepsStream ==
  ASSUME Serial, NEW p \in Procs, Step(p) \/ Crash(p)
  PROVE  StreamStep
<1>. USE DEF Serial
<1>1. PICK f \in ProcState : f = proc[p] /\ FrameOK(f)
  BY FrameOf
<1>2. CASE UNCHANGED ledger
  BY <1>2, NothingStream DEF ledger
<1>3. CASE Unknown(p)
  <2>1. MarkUnknown(f.run, f.act) /\ f.pc = "unknown"
    BY <1>1, <1>3 DEF Unknown, Goto
  <2>2. f.run \in Runs /\ f.act \in Actions /\ Submitted(f.act)
    BY <1>1, <2>1 DEF FrameOK
  <2>. QED
    BY <2>1, <2>2, MarkUnknownStream
<1>4. CASE CancelUnsupported(p)
  <2>1. PICK a \in f.todo : MarkUnknown(f.run, a) /\ f.pc = "cancel"
    BY <1>1, <1>4 DEF CancelUnsupported, Goto
  <2>2. f.run \in Runs /\ a \in Actions /\ Submitted(a)
    BY <1>1, <2>1 DEF FrameOK, ProcState
  <2>. QED
    BY <2>1, <2>2, MarkUnknownStream
<1>5. CASE AcceptAnswer(p)
  <2>1. AcceptSnapshot(f.run, f.act, f.snap) /\ f.pc = "accept"
    BY <1>1, <1>5 DEF AcceptAnswer, Goto
  <2>2. f.run \in Runs /\ f.act \in started
    BY <1>1, <2>1 DEF FrameOK
  <2>. QED
    BY <2>1, <2>2, AcceptSnapshotStream
<1>6. CASE ApplyAnswer(p)
  <2>1. Apply(f.run, f.act, f.snap) /\ f.pc = "apply"
    BY <1>1, <1>6 DEF ApplyAnswer, Goto
  <2>2. f.run \in Runs /\ f.act \in Actions /\ f.snap \in 1..Len(events[f.act])
    BY <1>1, <2>1 DEF FrameOK, ProcState, Safe, TypeOK, TypeExecutor
  <2>. QED
    BY <2>1, <2>2, ApplyStream
<1>7. CASE TickStop(p)
  <2>1. FreezePlan(f.run, "timeout") /\ f.pc = "tick_stop"
    BY <1>1, <1>7 DEF TickStop, Goto
  <2>2. f.run \in Runs /\ "timeout" \in StopReasons
    BY <1>1, <2>1 DEF FrameOK, StopReasons
  <2>. QED
    BY <2>1, <2>2, FreezePlanStream
<1>8. CASE Settle(p)
  <2>1. ConcludeStop(f.run) /\ f.pc = "settle"
    BY <1>1, <1>8 DEF Settle, Goto
  <2>2. f.run \in Runs
    BY <1>1, <2>1 DEF FrameOK
  <2>. QED
    BY <2>1, <2>2, ConcludeStopStream
<1>. QED
  BY <1>2, <1>3, <1>4, <1>5, <1>6, <1>7, <1>8
  DEF Step, Crash, SubmitAnswered, SubmitReplyLost, SubmitTimesOut, SubmitDisconnected,
      StopRead, CancelConfirmed, CancelAnswered, CancelFails, ReconcileRead, LookupAnswered,
      LookupFails

LEMMA EveryStepStreams ==
  ASSUME Serial, [Next]_vars
  PROVE  StreamStep
<1>. USE DEF Serial
<1>1. CASE Environment \/ UNCHANGED vars
  BY <1>1, NothingStream DEF Environment, ledger, vars
<1>2. CASE \E r \in Runs : Call(r)
  BY <1>2, SafeStep, CallsStream
<1>3. CASE \E a \in Actions : Feedback(a)
  <2>1. PICK a \in Actions : Feedback(a)
    BY <1>3
  <2>2. PICK n \in 1..Len(events[a]) : Apply(action[a].run_id, a, n)
    BY <2>1 DEF Feedback
  <2>3. action[a].run_id \in Runs
    BY <2>2 DEF Apply, Safe, KnownIsSubmitted, IntentFirst
  <2>. QED
    BY <2>2, <2>3, ApplyStream
<1>4. CASE \E p \in Procs : Step(p) \/ Crash(p)
  BY <1>4, StepsStream
<1>. QED
  BY <1>1, <1>2, <1>3, <1>4 DEF Next

LEMMA InitStream == Init => Stream!Init
<1>. SUFFICES ASSUME Init PROVE Stream!Init
  OBVIOUS
<1>1. ASSUME NEW a \in Actions
      PROVE  /\ action[a].run_id = None /\ action[a].plan_version = 0
             /\ action[a].sequence = 0 /\ action[a].status = "QUEUED"
  BY NewActionFields DEF Init
<1>2. \A a \in Actions : StageOf(a) = "unused"
  BY <1>1 DEF StageOf, Active, TERMINAL
<1>3. \A r \in Runs : state[r].plan_version = 1 /\ state[r].frozen = FALSE
  BY DEF Init, NewRun
<1>. QED
  BY <1>1, <1>2, <1>3 DEF Stream!Init

\* The ledger is a stream of actions: Scheduler implements ActionStream.
THEOREM ImplementsStream == Spec => StreamSpec
<1>1. Serial /\ [Next]_vars => [Stream!Next]_(Stream!vars)
  BY EveryStepStreams DEF StreamStep
<1>. QED
  BY <1>1, InitStream, SerialInvariant, PTL DEF Spec, StreamSpec, Stream!Spec
=============================================================================
