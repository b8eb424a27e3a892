------------------------------ MODULE Dialogue ------------------------------
(***************************************************************************)
(* What RoboWeaver promises to the agent, without ledger, robot, processes *)
(* and their deaths: an action it proposes is brought to an end, or        *)
(* dropped, and of that end the agent is told, once; until then it is not  *)
(* asked for another.                                                      *)
(***************************************************************************)
EXTENDS Naturals

CONSTANT Actions

VARIABLES
  begun,    \* actions the agent has proposed
  over,     \* those that have come to an end
  told      \* what it has been told: numbered letters, each about one action

vars == <<begun, over, told>>

Init == begun = {} /\ over = {} /\ told = {}

Heard(a) == \E letter \in told : letter[2] = a

\* The agent has heard of all it has proposed, and proposes another action.
Propose(a) ==
  /\ a \notin begun
  /\ \A b \in begun : Heard(b)
  /\ begun' = begun \cup {a}
  /\ UNCHANGED <<over, told>>

\* The end of an action has come, and been judged.
End(a) ==
  /\ a \in begun \ over
  /\ over' = over \cup {a}
  /\ UNCHANGED <<begun, told>>

\* The agent is told of it.
Tell(a) ==
  /\ a \in over /\ ~Heard(a)
  /\ \E letter \in told' : letter[2] = a /\ told' = told \cup {letter}
  /\ UNCHANGED <<begun, over>>

Next == \E a \in Actions : Propose(a) \/ End(a) \/ Tell(a)

Spec == Init /\ [][Next]_vars

-----------------------------------------------------------------------------
\* What that comes to: no action is told of twice, or before it has ended, and
\* the agent never waits for two (runtime.py 350-372, 383-426).
Orderly ==
  /\ \A letter, other \in told : letter[2] = other[2] => letter = other
  /\ \A letter \in told : letter[2] \in over
  /\ \A a, b \in begun : ~Heard(a) /\ ~Heard(b) => a = b
=============================================================================
