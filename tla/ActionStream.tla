---------------------------- MODULE ActionStream ----------------------------
(***************************************************************************)
(* What RoboWeaver promises to those who append actions to a run, without  *)
(* ledger, executor, processes or clock: the actions of a plan are worked  *)
(* on one at a time, in their order, each after the checkpoint of the one  *)
(* before; what has begun is brought to an end, what has not is dropped by *)
(* a stop; and a new plan begins only when the old one is at rest.         *)
(***************************************************************************)
EXTENDS Naturals

CONSTANTS Runs, Actions, None

VARIABLES
  stage,     \* how far each action has come
  run,       \* the run, the plan of that run, and the place in that plan
  plan,      \*   that each action belongs to
  place,
  current,   \* the plan in force of each run
  stopped    \* runs whose plan in force takes no more actions

contents == <<run, plan, place>>
vars == <<stage, contents, current, stopped>>

Stages == {"unused", "queued", "busy", "completed", "passed", "failed", "dropped"}

Init ==
  /\ stage = [a \in Actions |-> "unused"]
  /\ run = [a \in Actions |-> None]
  /\ plan = [a \in Actions |-> 0]
  /\ place = [a \in Actions |-> 0]
  /\ current = [r \in Runs |-> 1]
  /\ stopped = [r \in Runs |-> FALSE]

Of(r) == {a \in Actions : run[a] = r}

Before(a) == {b \in Of(run[a]) : plan[b] = plan[a] /\ place[b] < place[a]}

\* New actions join the end of the plan in force, at places of their own.
Accept(r, new) ==
  /\ ~stopped[r]
  /\ \A a \in new : stage[a] = "unused"
  /\ stage' = [a \in Actions |-> IF a \in new THEN "queued" ELSE stage[a]]
  /\ run' = [a \in Actions |-> IF a \in new THEN r ELSE run[a]]
  /\ plan' = [a \in Actions |-> IF a \in new THEN current[r] ELSE plan[a]]
  /\ place' \in [Actions -> Nat] /\ \A a \in Actions \ new : place'[a] = place[a]
  /\ \A a \in new :
       /\ \A b \in Of(r) : plan[b] = current[r] => place[b] < place'[a]
       /\ \A b \in new : place'[b] = place'[a] => b = a
  /\ UNCHANGED <<current, stopped>>

\* The robot is set to work on the next action of the plan in force.
Start(a) ==
  /\ stage[a] = "queued" /\ plan[a] = current[run[a]] /\ ~stopped[run[a]]
  /\ \A b \in Before(a) : stage[b] = "passed"
  /\ \A b \in Of(run[a]) : stage[b] # "busy"
  /\ stage' = [stage EXCEPT ![a] = "busy"]
  /\ UNCHANGED <<contents, current, stopped>>

\* It has stopped working on it.
End(a) ==
  /\ stage[a] = "busy"
  /\ \E end \in {"completed", "failed"} : stage' = [stage EXCEPT ![a] = end]
  /\ UNCHANGED <<contents, current, stopped>>

\* The action has passed its checkpoint.
Pass(a) ==
  /\ stage[a] = "completed" /\ plan[a] = current[run[a]]
  /\ stage' = [stage EXCEPT ![a] = "passed"]
  /\ UNCHANGED <<contents, current, stopped>>

\* The plan in force is stopped; what has not begun will not begin.
Stop(r) ==
  /\ stopped' = [stopped EXCEPT ![r] = TRUE]
  /\ stage' = [a \in Actions |-> IF a \in Of(r) /\ stage[a] = "queued" THEN "dropped" ELSE stage[a]]
  /\ UNCHANGED <<contents, current>>

\* A new plan takes the place of one that has been stopped and come to rest.
Replan(r) ==
  /\ stopped[r]
  /\ \A a \in Of(r) : stage[a] \notin {"queued", "busy"}
  /\ current' = [current EXCEPT ![r] = @ + 1]
  /\ stopped' = [stopped EXCEPT ![r] = FALSE]
  /\ UNCHANGED <<stage, contents>>

Next ==
  \/ \E r \in Runs : Stop(r) \/ Replan(r) \/ \E new \in SUBSET Actions : Accept(r, new)
  \/ \E a \in Actions : Start(a) \/ End(a) \/ Pass(a)

Spec == Init /\ [][Next]_vars

-----------------------------------------------------------------------------
\* What that comes to: the robot works on one action of a run at a time, which
\* belongs to the plan in force, after all before it have passed (dispatch
\* 101-137, revise 267-285).
InTurn ==
  \A a \in Actions : stage[a] = "busy" =>
    /\ plan[a] = current[run[a]]
    /\ \A b \in Before(a) : stage[b] = "passed"
    /\ \A b \in Of(run[a]) : stage[b] = "busy" => b = a
=============================================================================
