---------------------------- MODULE MCTurnQueue -----------------------------
(* Instances of TurnQueue with two requests, which play the same role. *)
EXTENDS TurnQueue, TLC

CONSTANTS r1, r2

Symmetry == Permutations(Requests)

\* Any two of: user calls besides followups, lost connections or restarts, native
\* approvals; or one of each.
Bounded == \/ calls + faults + asked <= 2
           \/ calls <= 1 /\ faults <= 1 /\ asked <= 1
=============================================================================
