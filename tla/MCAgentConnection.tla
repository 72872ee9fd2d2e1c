------------------------- MODULE MCAgentConnection -------------------------
(* An instance of AgentConnection with two sessions, of which an earlier run *)
(* has left one behind.                                                      *)
EXTENDS AgentConnection

CONSTANTS s1, s2

\* Tool calls are announced only while one session works alone.
Bounded == calls # {} => work[s2] = NoWork /\ s2 \notin agent.exists
=============================================================================
