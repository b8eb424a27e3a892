-------------------------- MODULE Promises_proofs ---------------------------
(***************************************************************************)
(* What the program as a whole promises: the runtime keeps both abstract   *)
(* specifications, the stream of actions and the dialogue with the agent,  *)
(* and with them what these say of their own steps.                        *)
(***************************************************************************)
EXTENDS Stream_proofs, Dialogue_proofs

-----------------------------------------------------------------------------
(* The stream of actions.                                                  *)

\* The runtime, with all its drivers, operators and deaths, is a stream of
\* actions to those who append to it (scheduler.py 58-370, runtime.py 129-426).
THEOREM RuntimeStreams == RuntimeSpec => StreamSpec
  BY RuntimeImplements, ImplementsStream

\* What most steps of a stream leave alone: where an action belongs,
ContentsKept ==
  \A a \in Actions : /\ action'[a].run_id = action[a].run_id
                     /\ action'[a].plan_version = action[a].plan_version
                     /\ action'[a].sequence = action[a].sequence

\* and which plan is in force.
SamePlans == \A r \in Runs : state'[r].plan_version = state[r].plan_version

\* Of one run and one plan.
Together(a, b) == /\ action[a].run_id = action[b].run_id
                  /\ action[a].plan_version = action[b].plan_version

\* InTurn, and what it rests on: an action in use has a run.
StreamOrder ==
  \A a \in Actions :
    /\ StageOf(a) # "unused" => action[a].run_id \in Runs
    /\ StageOf(a) = "busy" =>
         /\ action[a].plan_version = state[action[a].run_id].plan_version
         /\ \A b \in Actions :
              /\ Together(a, b) /\ action[b].sequence < action[a].sequence => StageOf(b) = "passed"
              /\ action[b].run_id = action[a].run_id /\ StageOf(b) = "busy" => b = a

LEMMA OrderIsInTurn == StreamOrder => Stream!InTurn
<1>. SUFFICES ASSUME StreamOrder, NEW a \in Actions, StageOf(a) = "busy"
              PROVE  /\ action[a].plan_version = state[action[a].run_id].plan_version
                     /\ action[a].run_id \in Runs
                     /\ \A b \in Stream!Before(a) : StageOf(b) = "passed"
                     /\ \A b \in Stream!Of(action[a].run_id) : StageOf(b) = "busy" => b = a
  BY DEF Stream!InTurn, Stream!Before, Stream!Of
<1>. QED
  BY DEF StreamOrder, Together, Stream!Before, Stream!Of

LEMMA StreamInitInTurn == Stream!Init => StreamOrder
<1>. SUFFICES ASSUME Stream!Init PROVE StreamOrder
  OBVIOUS
<1>1. ASSUME NEW a \in Actions PROVE StageOf(a) = "unused"
  BY DEF Stream!Init
<1>. QED
  BY <1>1 DEF StreamOrder

LEMMA KeptFacts == UNCHANGED Stream!contents => ContentsKept
  BY DEF Stream!contents, ContentsKept

\* A step that sets nothing to work, and lets nothing go back to work.
LEMMA NothingStarts ==
  ASSUME StreamOrder, ContentsKept, SamePlans,
         \A a \in Actions : /\ StageOf(a)' = "busy" => StageOf(a) = "busy"
                            /\ StageOf(a)' # "unused" => StageOf(a) # "unused"
                            /\ StageOf(a) = "passed" => StageOf(a)' = "passed"
  PROVE  StreamOrder'
  BY DEF StreamOrder, ContentsKept, SamePlans, Together

LEMMA StreamNextInTurn == StreamOrder /\ [Stream!Next]_(Stream!vars) => StreamOrder'
<1>. SUFFICES ASSUME StreamOrder, [Stream!Next]_(Stream!vars) PROVE StreamOrder'
  OBVIOUS
<1>. USE KeptFacts
<1>1. CASE UNCHANGED Stream!vars
  <2>1. ContentsKept /\ SamePlans /\ \A a \in Actions : StageOf(a)' = StageOf(a)
    BY <1>1 DEF Stream!vars, SamePlans
  <2>. QED
    BY <2>1, NothingStarts
<1>2. ASSUME NEW r \in Runs, Stream!Stop(r) PROVE StreamOrder'
  <2>1. ContentsKept /\ SamePlans
    BY <1>2 DEF Stream!Stop, SamePlans
  <2>2. \A a \in Actions : \/ StageOf(a)' = StageOf(a)
                           \/ StageOf(a) = "queued" /\ StageOf(a)' = "dropped"
    BY <1>2 DEF Stream!Stop
  <2>. QED
    BY <2>1, <2>2, NothingStarts
<1>3. ASSUME NEW r \in Runs, Stream!Replan(r) PROVE StreamOrder'
  <2>1. ContentsKept /\ \A a \in Actions : StageOf(a)' = StageOf(a)
    BY <1>3 DEF Stream!Replan
  <2>2. \A s \in Runs : s # r => state'[s].plan_version = state[s].plan_version
    BY <1>3 DEF Stream!Replan
  <2>3. \A a \in Actions : action[a].run_id = r => StageOf(a) # "busy"
    BY <1>3 DEF Stream!Replan, Stream!Of
  <2>. QED
    BY <2>1, <2>2, <2>3 DEF StreamOrder, ContentsKept, Together
<1>4. ASSUME NEW r \in Runs, NEW new \in SUBSET Actions, Stream!Accept(r, new)
      PROVE  StreamOrder'
  <2>1. SamePlans
    BY <1>4 DEF Stream!Accept, SamePlans
  <2>2. \A a \in new : /\ StageOf(a) = "unused" /\ StageOf(a)' = "queued"
                        /\ action'[a].run_id = r
                        /\ action'[a].plan_version = state[r].plan_version
    BY <1>4 DEF Stream!Accept
  <2>3. \A a \in Actions \ new :
          /\ StageOf(a)' = StageOf(a)
          /\ action'[a].run_id = action[a].run_id
          /\ action'[a].plan_version = action[a].plan_version
          /\ action'[a].sequence = action[a].sequence
    BY <1>4 DEF Stream!Accept
  <2>4. \A a \in new : \A b \in Actions :
          action[b].run_id = r /\ action[b].plan_version = state[r].plan_version
            => action[b].sequence < action'[a].sequence
    BY <1>4 DEF Stream!Accept, Stream!Of
  <2>5. \A a \in Actions : action'[a].sequence \in Nat
    BY <1>4 DEF Stream!Accept
  <2>. QED
    BY <2>1, <2>2, <2>3, <2>4, <2>5 DEF StreamOrder, SamePlans, Together
<1>5. ASSUME NEW a \in Actions, Stream!Start(a) PROVE StreamOrder'
  <2>1. ContentsKept /\ SamePlans
    BY <1>5 DEF Stream!Start, SamePlans
  <2>2. StageOf(a) = "queued" /\ \A b \in Actions \ {a} : StageOf(b)' = StageOf(b)
    BY <1>5 DEF Stream!Start
  <2>3. action[a].run_id \in Runs
    BY <2>2 DEF StreamOrder
  <2>4. action[a].plan_version = state[action[a].run_id].plan_version
    BY <1>5, <2>3 DEF Stream!Start
  <2>5. \A b \in Actions :
          /\ Together(a, b) /\ action[b].sequence < action[a].sequence => StageOf(b) = "passed"
          /\ action[b].run_id = action[a].run_id => StageOf(b) # "busy"
    BY <1>5 DEF Stream!Start, Stream!Before, Stream!Of, Together
  <2>6. StageOf(a)' = "busy"
    BY <1>5 DEF Stream!Start
  <2>. QED
    BY <2>1, <2>2, <2>3, <2>4, <2>5, <2>6 DEF StreamOrder, ContentsKept, SamePlans, Together
<1>6. ASSUME NEW a \in Actions, Stream!End(a) PROVE StreamOrder'
  <2>1. ContentsKept /\ SamePlans
    BY <1>6 DEF Stream!End, SamePlans
  <2>2. \A b \in Actions : \/ StageOf(b)' = StageOf(b)
                           \/ StageOf(b) = "busy" /\ StageOf(b)' \in {"completed", "failed"}
    BY <1>6 DEF Stream!End
  <2>. QED
    BY <2>1, <2>2, NothingStarts
<1>7. ASSUME NEW a \in Actions, Stream!Pass(a) PROVE StreamOrder'
  <2>1. ContentsKept /\ SamePlans
    BY <1>7 DEF Stream!Pass, SamePlans
  <2>2. \A b \in Actions : \/ StageOf(b)' = StageOf(b)
                           \/ StageOf(b) = "completed" /\ StageOf(b)' = "passed"
    BY <1>7 DEF Stream!Pass
  <2>. QED
    BY <2>1, <2>2, NothingStarts
<1>. QED
  BY <1>1, <1>2, <1>3, <1>4, <1>5, <1>6, <1>7 DEF Stream!Next

\* The abstract stream works off its actions in turn (dispatch 101-137, revise
\* 267-285); of the program this is RuntimeIsOrderly.
LEMMA StreamsInTurn == StreamSpec => []Stream!InTurn
  BY StreamInitInTurn, StreamNextInTurn, OrderIsInTurn, PTL DEF StreamSpec, Stream!Spec

-----------------------------------------------------------------------------
(* The dialogue with the agent.                                            *)

DialogueOrder == Concluded \subseteq ActionsOf(Run) /\ Agent!Orderly

LEMMA DialogueNextOrderly == DialogueOrder /\ [Agent!Next]_(Agent!vars) => DialogueOrder'
<1>. SUFFICES ASSUME DialogueOrder, [Agent!Next]_(Agent!vars) PROVE DialogueOrder'
  OBVIOUS
<1>. USE DEF DialogueOrder, Agent!Orderly, Agent!Heard
<1>1. CASE UNCHANGED Agent!vars
  BY <1>1 DEF Agent!vars
<1>2. ASSUME NEW a \in Actions, Agent!Propose(a) PROVE DialogueOrder'
  BY <1>2 DEF Agent!Propose
<1>3. ASSUME NEW a \in Actions, Agent!End(a) PROVE DialogueOrder'
  BY <1>3 DEF Agent!End
<1>4. ASSUME NEW a \in Actions, Agent!Tell(a) PROVE DialogueOrder'
  BY <1>4 DEF Agent!Tell
<1>. QED
  BY <1>1, <1>2, <1>3, <1>4 DEF Agent!Next

LEMMA DialogueInitOrderly == Agent!Init => DialogueOrder
  BY DEF Agent!Init, DialogueOrder, Agent!Orderly

\* The abstract dialogue is orderly: no action is told of twice, or before it has
\* ended, and the agent never waits for two (runtime.py 350-372, 383-426).
LEMMA DialogueIsOrderly == DialogueSpec => []Agent!Orderly
<1>1. DialogueOrder => Agent!Orderly
  BY DEF DialogueOrder
<1>. QED
  BY <1>1, DialogueInitOrderly, DialogueNextOrderly, PTL DEF DialogueSpec, Agent!Spec

-----------------------------------------------------------------------------
(* All together.                                                           *)

\* Whatever drivers, operators and deaths do, the robot is safe in their hands:
\* what is proved of the scheduler by itself holds of the whole program
\* (scheduler.py 101-374 as called by runtime.py 129-426).
THEOREM RuntimeIsSafe ==
  RuntimeSpec => [](/\ ResourceExclusion /\ SerialExecution /\ NoOrphan
                    /\ FinalMeansStopped /\ CheckpointsGate /\ SuccessHasEvidence)
  BY RuntimeImplements, Exclusion, OneAtWork, NothingOrphaned, FinalIsStill, Gated, Evidenced, PTL

\* And it works off its plans in turn, in an orderly dialogue with the agent
\* (runtime.py 129-426).
THEOREM RuntimeIsOrderly == RuntimeSpec => [](Stream!InTurn /\ Agent!Orderly)
  BY RuntimeStreams, StreamsInTurn, HoldsDialogue, DialogueIsOrderly, PTL
=============================================================================
