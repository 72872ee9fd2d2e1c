---------------------------- MODULE TurnService -----------------------------
(***************************************************************************)
(* What the per-job coordinator promises to whoever dispatched the job     *)
(* (docs/wait-lifecycle.md, "lifecycle"): requests are accepted, turns run *)
(* for accepted requests one at a time, nothing starts while a             *)
(* cancellation is on its way to the agent, and an answer is recorded only *)
(* for the turn that is live at that moment, at most once per turn.        *)
(***************************************************************************)
EXTENDS Naturals

CONSTANTS Requests, NoRequest

VARIABLES
  accepted,     \* requests taken on
  begun,        \* number of turns begun; the last one has this id
  live,         \* the turn whose answer still counts
  cancelling,   \* a cancellation is being delivered
  answers       \* answers recorded, by turn and request

svars == <<accepted, begun, live, cancelling, answers>>

NoTurn == [id |-> 0, req |-> NoRequest]

SInit == \E r \in Requests : /\ accepted = {r}
                             /\ begun = 0 /\ live = NoTurn
                             /\ cancelling = FALSE /\ answers = {}

Accept(r) == /\ r \in Requests \ accepted
             /\ accepted' = accepted \cup {r}
             /\ UNCHANGED <<begun, live, cancelling, answers>>

Begin(r) == /\ r \in accepted /\ live = NoTurn /\ ~cancelling
            /\ begun' = begun + 1
            /\ live' = [id |-> begun + 1, req |-> r]
            /\ UNCHANGED <<accepted, cancelling, answers>>

Answer == /\ live # NoTurn
          /\ answers' = answers \cup {[turn |-> live.id, req |-> live.req]}
          /\ live' = NoTurn
          /\ UNCHANGED <<accepted, begun, cancelling>>

\* The turn failed, was cut off, or was refused.
Abandon == /\ live # NoTurn /\ live' = NoTurn
           /\ UNCHANGED <<accepted, begun, cancelling, answers>>

StartCancel == /\ ~cancelling /\ cancelling' = TRUE /\ live' = NoTurn
               /\ UNCHANGED <<accepted, begun, answers>>

EndCancel == /\ cancelling /\ cancelling' = FALSE
             /\ UNCHANGED <<accepted, begun, live, answers>>

Crash == /\ live' = NoTurn /\ cancelling' = FALSE
         /\ UNCHANGED <<accepted, begun, answers>>

SNext == \/ \E r \in Requests : Accept(r) \/ Begin(r)
         \/ Answer \/ Abandon \/ StartCancel \/ EndCancel \/ Crash

SSpec == SInit /\ [][SNext]_svars
=============================================================================
