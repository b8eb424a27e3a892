----------------------------- MODULE MCRuntime ------------------------------
(***************************************************************************)
(* Instances of Runtime for TLC.                                           *)
(***************************************************************************)
EXTENDS RuntimeDialogue, TLC

\* Every action needs all there is.
OneArm == [a \in Actions |-> Resources]

\* The robot ends well or fails.
CleanEnds == {[status |-> "COMPLETED", stopped |-> TRUE], [status |-> "FAILED", stopped |-> TRUE]}

\* No instance tells processes or actions apart.
Symmetry == Permutations(Actions) \cup Permutations(Procs)
=============================================================================
