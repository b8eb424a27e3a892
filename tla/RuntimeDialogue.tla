--------------------------- MODULE RuntimeDialogue ---------------------------
(***************************************************************************)
(* The dialogue with the agent that Runtime implements: Dialogue, read off *)
(* the ledger and the session.                                             *)
(***************************************************************************)
EXTENDS RuntimeInvariant

\* Actions whose end has come and been judged.
Concluded == {a \in ActionsOf(Run) : Settled(a)}

\* What the session tells, each event a letter.
Letters == {<<i, session[i].act>> : i \in {j \in DOMAIN session : TellsEnd(j)}}

Agent == INSTANCE Dialogue WITH begun <- ActionsOf(Run), over <- Concluded, told <- Letters

\* The runtime holds a dialogue with its agent: whatever dies, is lost or is
\* delivered again, the agent proposes an action when it has heard the end of
\* the one before, and hears each end once, when it has come and been judged
\* (bridge.py 20-54, runtime.py 183-211, 296-372, 383-426).
DialogueSpec == Agent!Spec
=============================================================================
