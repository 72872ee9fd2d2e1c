-------------------------- MODULE AgentConnection --------------------------
(***************************************************************************)
(* The connection to the Grok agent (agent/lifecycle.go, grok.go,          *)
(* client.go) and the idle gate of the supervisor (supervisor/idle.go).    *)
(* One connection serves every session.  EnsureLeader starts at most one   *)
(* attempt, whose goroutine opens a connection; a watcher notices its      *)
(* death; Release takes it down when the supervisor is idle or closes.     *)
(* Requests run on whatever connection they find, and the agent's plan     *)
(* permissions come back on it, bound to the turn their call came in, if any*)
(* Connections are numbered by the attempt that opens them; 0 is none.     *)
(***************************************************************************)
EXTENDS Integers, FiniteSets

CONSTANTS
    Sessions,       \* Grok sessions, one job each
    Old,            \* those an earlier run of the program has left behind
    Conns,          \* bound: the attempts to connect, in their order
    Turns,          \* bound: the requests, each with a turn of its own, in their order
    Asks,           \* bound: the plan permissions, in their order
    MaxCalls        \* bound: the tool calls of different origins known at a time

ASSUME ConnectionAssumption ==
    /\ IsFiniteSet(Sessions) /\ Old \subseteq Sessions
    /\ \A S \in {Conns, Turns, Asks} : IsFiniteSet(S) /\ S = 1..Cardinality(S)
    /\ MaxCalls \in Nat

VARIABLES
    g,        \* what g.mu guards of the connection
    init,     \* the goroutine of the attempt
    results,  \* [Conns -> result]: how an attempt ended (connectionAttempt)
    open,     \* the connections whose processes, pipes and console are open
    alive,    \* the connections whose agent answers
    watchers, \* the connections a goroutine watches
    release,  \* the callers of Release: the idle gate and Close
    gate,     \* the supervisor's idle gate
    work,     \* [Sessions -> work]: the operation or the turn of each session's job
    agent,    \* the agent: the sessions that exist, and those loaded on a connection
    plan,     \* what g.mu guards of the permissions: turns, pending, approvals
    calls,    \* acpClient.calls: tool calls, told apart by the turn they came in
    asks      \* [Asks -> ask]: the agent's permission calls

conVars == <<g, init, results, open, alive, watchers>>
planVars == <<plan, calls, asks>>
vars == <<g, init, results, open, alive, watchers, release, gate, work, agent,
          plan, calls, asks>>

NoInit == [at |-> "none", ok |-> FALSE, cancelled |-> FALSE]
\* `op` while its operation runs, `conn` the connection or the attempt it is at.
NoWork == [at |-> "idle", op |-> FALSE, conn |-> 0, turn |-> 0]
NoAsk == [at |-> "none", chosen |-> FALSE]
Over == [at |-> "over", chosen |-> FALSE]

Init ==
    /\ g = [closed |-> FALSE, conn |-> 0, id |-> 0, attempt |-> 0, loaded |-> {}]
    /\ init = NoInit /\ results = [c \in Conns |-> "none"]
    /\ open = {} /\ alive = {} /\ watchers = {}
    /\ release = [r \in {"idle", "close"} |-> [at |-> "none", attempt |-> 0]]
    /\ gate \in [idling : {FALSE}, ready : SUBSET Old, turns : {0}]
    /\ work = [s \in Sessions |-> NoWork]
    /\ agent = [exists |-> Old, loaded |-> {}]
    /\ plan = [turn |-> [s \in Sessions |-> 0],
               pending |-> [s \in Sessions |-> 0], approvals |-> {}]
    /\ calls = {} /\ asks = [a \in Asks |-> NoAsk]

-----------------------------------------------------------------------------
(* Connecting.                                                             *)

\* resourceMu: the goroutine of an attempt holds it while it connects; the watcher
\* and Release hold it for their one step.
ResourcesFree == init.at \in {"none", "start"}
Gone == [g EXCEPT !.conn = 0, !.id = 0, !.loaded = {}]
Forgotten == [plan EXCEPT !.pending = [s \in Sessions |-> 0], !.approvals = {}]

NeedsAttempt_Always == TRUE
NeedsAttempt == g.attempt = 0
\* EnsureLeader: join the attempt under way, or start one.
Ensure(s) ==
    /\ work[s].at = "ensure"
    /\ \/ /\ g.closed
          /\ work' = [work EXCEPT ![s] = NoWork] /\ UNCHANGED <<g, init>>
       \/ /\ ~g.closed /\ g.conn # 0
          /\ work' = [work EXCEPT ![s].at = "connected"] /\ UNCHANGED <<g, init>>
       \/ /\ ~g.closed /\ g.conn = 0 /\ ~NeedsAttempt
          /\ work' = [work EXCEPT ![s].at = "waiting", ![s].conn = g.attempt]
          /\ UNCHANGED <<g, init>>
       \/ \E c \in Conns :
             /\ ~g.closed /\ g.conn = 0 /\ NeedsAttempt /\ init.at = "none"
             /\ results[c] = "none" /\ \A d \in 1..c - 1 : results[d] # "none"
             /\ g' = [g EXCEPT !.attempt = c] /\ init' = [NoInit EXCEPT !.at = "start"]
             /\ work' = [work EXCEPT ![s].at = "waiting", ![s].conn = c]
    /\ UNCHANGED <<results, open, alive, watchers, release, gate, agent>>
    /\ UNCHANGED planVars

\* The attempt ends for its callers; one whose context ends leaves before.
Ensured(s) ==
    /\ work[s].at = "waiting" /\ results[work[s].conn] # "none"
    /\ work' = [work EXCEPT ![s] = IF results[work[s].conn] = "ok"
                                   THEN [work[s] EXCEPT !.at = "connected", !.conn = 0]
                                   ELSE NoWork]
    /\ UNCHANGED <<release, gate, agent>> /\ UNCHANGED conVars /\ UNCHANGED planVars

Opened == g.attempt
Shut(c) == open' = open \ {c} /\ alive' = alive \ {c}
\* connect: the process group with the leader and the agent, and their pipes; what a
\* failing connect has opened by then is closed by Publish.
Opens == open' = open \cup {Opened} /\ alive' = alive \cup {Opened}
\* connectACP: from here on permissions of an earlier connection are refused.
Identified == [g EXCEPT !.id = Opened]
\* initialize: nothing is opened for a cancelled attempt; the handshake is reached or
\* the attempt has already failed.
InitStarts ==
    /\ init.at = "start"
    /\ \/ init.cancelled /\ init' = [init EXCEPT !.at = "settle"] /\ UNCHANGED <<g, open, alive>>
       \/ \E reached \in BOOLEAN :
             /\ ~init.cancelled
             /\ Opens
             /\ g' = IF reached THEN Identified ELSE g
             /\ init' = [init EXCEPT !.at = IF reached THEN "handshake" ELSE "failed"]
    /\ UNCHANGED <<results, watchers, release, gate, work, agent>>
    /\ UNCHANGED planVars

\* The budget of an attempt, 15 seconds by default.
AttemptTimesOut ==
    /\ init.at \in {"start", "handshake"} /\ ~init.cancelled
    /\ init' = [init EXCEPT !.cancelled = TRUE]
    /\ UNCHANGED <<g, results, open, alive, watchers, release, gate, work, agent>>
    /\ UNCHANGED planVars

\* The handshake ends; a connection that failed, or comes too late, is closed again.
Publish ==
    /\ \E answered \in BOOLEAN :
          LET ok == answered /\ ~init.cancelled /\ ~g.closed IN
          /\ init.at = "handshake" \/ (init.at = "failed" /\ ~answered)
          /\ init' = [init EXCEPT !.at = "settle", !.ok = ok]
          /\ IF ok THEN /\ g' = [g EXCEPT !.conn = Opened, !.loaded = {}]
                        /\ UNCHANGED <<open, alive>>
                   ELSE /\ Shut(Opened)
                        /\ UNCHANGED g
    /\ UNCHANGED <<results, watchers, release, gate, work, agent>>
    /\ UNCHANGED planVars

Outcome_OfSuccess == IF init.ok THEN "ok" ELSE "none"
Outcome == IF init.ok THEN "ok" ELSE "failed"
Settled_Keeps == g
Settled == [g EXCEPT !.attempt = 0]
\* The result is written before the callers are told; only a success is watched.
Settle ==
    /\ init.at = "settle"
    /\ results' = [results EXCEPT ![g.attempt] = Outcome]
    /\ watchers' = IF init.ok THEN watchers \cup {g.attempt} ELSE watchers
    /\ g' = Settled
    /\ init' = NoInit
    /\ UNCHANGED <<open, alive, release, gate, work, agent>>
    /\ UNCHANGED planVars

\* The client process, the leader or the pipe ends.
Dies(c) ==
    /\ c \in alive
    /\ alive' = alive \ {c}
    /\ UNCHANGED <<g, init, results, open, watchers, release, gate, work, agent>>
    /\ UNCHANGED planVars

\* What goes with a connection: its client's tool calls, its agent's sessions.
Without(c) ==
    /\ calls' = {k \in calls : k.conn # c}
    /\ agent' = [agent EXCEPT !.loaded = {l \in @ : l[1] # c}]
\* The watcher: a connection that Release took down before is no loss; any other is
\* reported to the supervisor (TurnQueue!ConnectionLost), whose turns then end.
Watch(c) ==
    /\ c \in watchers \ alive /\ ResourcesFree
    /\ watchers' = watchers \ {c} /\ open' = open \ {c}
    /\ IF g.conn = c THEN g' = Gone /\ plan' = Forgotten ELSE UNCHANGED <<g, plan>>
    /\ Without(c)
    /\ UNCHANGED <<init, results, alive, release, gate, work, asks>>

-----------------------------------------------------------------------------
(* Release, Close and the idle gate.                                       *)

ReleaseBegins(r) ==
    /\ release[r].at = "begin"
    /\ release' = [release EXCEPT ![r] = [at |-> "await", attempt |-> g.attempt]]
    /\ init' = [init EXCEPT !.cancelled = @ \/ g.attempt # 0]
    /\ UNCHANGED <<g, results, open, alive, watchers, gate, work, agent>>
    /\ UNCHANGED planVars

Awaited_Not(r) == TRUE
Awaited(r) == release[r].attempt \notin {c \in Conns : results[c] = "none"}
ReleaseTakes(r) ==
    /\ release[r].at = "await" /\ Awaited(r) /\ ResourcesFree
    /\ g' = Gone /\ plan' = Forgotten
    /\ Shut(g.conn)
    /\ release' = [release EXCEPT ![r] = [at |-> IF r = "close" THEN "done" ELSE "none",
                                              attempt |-> 0]]
    /\ gate' = IF r = "idle" THEN [gate EXCEPT !.idling = FALSE] ELSE gate
    /\ Without(g.conn)
    /\ UNCHANGED <<init, results, watchers, work, asks>>

Close ==
    /\ ~g.closed
    /\ g' = [g EXCEPT !.closed = TRUE]
    /\ release' = [release EXCEPT !["close"].at = "begin"]
    /\ UNCHANGED <<init, results, open, alive, watchers, gate, work, agent>>
    /\ UNCHANGED planVars

Occupied_Turns == \E s \in Sessions : work[s].at # "idle" /\ ~work[s].op
\* An operation, a turn or a queued request, or a loaded plan that waits for its user.
\* Views and their terminals, which keep the connection too (idle.go:43), are left out:
\* the model releases more often.
Occupied == (\E s \in Sessions : work[s].at # "idle") \/ gate.ready \cap g.loaded # {}
\* releaseIfIdle, once per tick: after enough ticks with nothing to do, and none in
\* between that found something, the connection is released.
Tick ==
    /\ ~gate.idling /\ ~g.closed /\ ~Occupied
    /\ gate' = [gate EXCEPT !.idling = TRUE]
    /\ release' = [release EXCEPT !["idle"].at = "begin"]
    /\ UNCHANGED <<work, agent>> /\ UNCHANGED conVars /\ UNCHANGED planVars

GateOpen_Always == ~g.closed
GateOpen == ~g.closed /\ ~gate.idling
\* beginOperation of a dispatch or a followup; it waits while the connection goes.
Begin(s) ==
    /\ work[s].at = "idle" /\ GateOpen /\ gate.turns + 1 \in Turns
    /\ work' = [work EXCEPT ![s] = [at |-> "ensure", op |-> s \notin agent.exists,
                                    conn |-> 0, turn |-> gate.turns + 1]]
    /\ gate' = [gate EXCEPT !.turns = @ + 1]
    /\ UNCHANGED <<release, agent>> /\ UNCHANGED conVars /\ UNCHANGED planVars

-----------------------------------------------------------------------------
(* Sessions and prompts.                                                   *)

\* NewSession and LoadConnectedSession take the connection they find; loadMu lets
\* one load run at a time.
Connected(s) ==
    /\ work[s].at = "connected"
    /\ ~work[s].op => \A t \in Sessions : work[t].at # "loading"
    /\ work' = [work EXCEPT ![s] =
           IF g.conn = 0 THEN NoWork
           ELSE IF work[s].op THEN [work[s] EXCEPT !.at = "new", !.conn = g.conn]
           ELSE IF s \in g.loaded THEN [work[s] EXCEPT !.at = "prompt"]
           ELSE [work[s] EXCEPT !.at = "loading", !.conn = g.conn]]
    /\ UNCHANGED <<release, gate, agent>> /\ UNCHANGED conVars /\ UNCHANGED planVars

MarkLoaded_Any(s) == [g EXCEPT !.loaded = @ \cup {s}]
MarkLoaded(s) == IF g.conn = work[s].conn THEN [g EXCEPT !.loaded = @ \cup {s}] ELSE g
\* The answer names the session's modes; a first request needs no load.
NewReturns(s) ==
    /\ work[s].at = "new"
    /\ agent' = [exists |-> agent.exists \cup {s},
                 loaded |-> agent.loaded \cup {<<work[s].conn, s>>}]
    /\ g' = MarkLoaded(s)
    /\ work' = [work EXCEPT ![s].at = "prompt", ![s].op = FALSE, ![s].conn = 0]
    /\ UNCHANGED <<init, results, open, alive, watchers, release, gate>>
    /\ UNCHANGED planVars

\* The answer names the session's modes too, but they are not remembered.
LoadReturns(s) ==
    /\ work[s].at = "loading"
    /\ agent' = [agent EXCEPT !.loaded = @ \cup {<<work[s].conn, s>>}]
    /\ g' = MarkLoaded(s)
    /\ work' = [work EXCEPT ![s].at = "prompt", ![s].conn = 0]
    /\ UNCHANGED <<init, results, open, alive, watchers, release, gate>>
    /\ UNCHANGED planVars

\* The view is opened: the session will have to be loaded again.
Invalidate(s) ==
    /\ s \in g.loaded /\ work[s].at = "idle"
    /\ g' = [g EXCEPT !.loaded = @ \ {s}]
    /\ UNCHANGED <<init, results, open, alive, watchers, release, gate, work, agent>>
    /\ UNCHANGED planVars

\* Prompt notes its turn even when there is no connection.
Prompt(s) ==
    /\ work[s].at = "prompt"
    /\ plan' = [plan EXCEPT !.turn[s] = work[s].turn]
    /\ work' = [work EXCEPT ![s] = IF g.conn = 0 THEN NoWork
                                   ELSE [work[s] EXCEPT !.at = "prompting", !.conn = g.conn]]
    /\ gate' = [gate EXCEPT !.ready = @ \ {s}]
    /\ UNCHANGED <<release, agent, calls, asks>> /\ UNCHANGED conVars

AtAgent == {"new", "loading", "prompting"}
\* A call ends with an error, the prompt with its answer, or the request is revoked
\* or its context ends before.
Ends(s) ==
    /\ work[s].at \in AtAgent \cup {"waiting", "prompt"}
    /\ work' = [work EXCEPT ![s] = NoWork]
    /\ gate' = [gate EXCEPT !.ready = @ \ {s}]
    /\ UNCHANGED <<release, agent>> /\ UNCHANGED conVars /\ UNCHANGED planVars

-----------------------------------------------------------------------------
(* Plan permissions.                                                       *)

\* A tool call of a session is announced, or replayed by a load: the turn it came in,
\* 0 before the first one, is remembered, and a later update does not change it.
Call(c, s) == [conn |-> c, session |-> s, turn |-> plan.turn[s]]
Announce(c, s) ==
    /\ <<c, s>> \in agent.loaded /\ c \in alive /\ Cardinality(calls) < MaxCalls
    /\ calls' = calls \cup {Call(c, s)}
    /\ UNCHANGED <<release, gate, work, agent, plan, asks>> /\ UNCHANGED conVars

\* A call that has completed or failed is forgotten.
CallEnds(k) ==
    /\ k \in calls /\ k.conn \in alive
    /\ calls' = calls \ {k}
    /\ UNCHANGED <<release, gate, work, agent, plan, asks>> /\ UNCHANGED conVars

\* bindOrigin: the turn of the call, none for one that was announced before any.
Origin(k) == k.turn
\* The agent asks for permission to leave plan mode, for a call it announced or for one
\* the client does not know, which comes in with the permission (`came` remembers when);
\* a connection that is not the present one is refused.
Permission(a, c, s) ==
    /\ asks[a].at = "none" /\ \A b \in 1..a - 1 : asks[b].at # "none"
    /\ <<c, s>> \in agent.loaded /\ c \in alive /\ g.id = c
    /\ \E k \in {j \in calls : j.conn = c /\ j.session = s} \cup {Call(c, s)} :
          asks' = [asks EXCEPT ![a] =
              [at |-> "bound", chosen |-> FALSE, conn |-> c, session |-> s,
               turn |-> Origin(k), came |-> k.turn, shown |-> 0]]
    /\ UNCHANGED <<release, gate, work, agent, plan, calls>> /\ UNCHANGED conVars

\* RequestPermission forgets a call it knew, the extension method does not.
Forgets(a) ==
    \/ UNCHANGED calls
    \/ calls' = calls \ {[conn |-> asks[a].conn, session |-> asks[a].session,
                          turn |-> asks[a].came]}
Accepted_AnyTurn(a) == asks[a].conn = g.id /\ plan.pending[asks[a].session] = 0
Accepted(a) ==
    /\ asks[a].conn = g.id
    /\ asks[a].turn \in {0, plan.turn[asks[a].session]}
    /\ plan.pending[asks[a].session] = 0
\* awaitPlanChoiceWithNotes: a stale permission, or a second one of its session, is
\* refused; any other, one bound to no turn too, is put before the user as the present
\* turn's.
AskPlan(a) ==
    /\ asks[a].at = "bound"
    /\ IF Accepted(a)
       THEN /\ plan' = [plan EXCEPT !.pending[asks[a].session] = a,
                                    !.approvals = @ \cup {a}]
            /\ asks' = [asks EXCEPT ![a].at = "waiting",
                                    ![a].shown = plan.turn[asks[a].session]]
            /\ gate' = [gate EXCEPT !.ready = @ \cup
                  (IF work[asks[a].session].at = "prompting" THEN {asks[a].session} ELSE {})]
            /\ UNCHANGED calls
       ELSE /\ asks' = [asks EXCEPT ![a] = Over] /\ Forgets(a)
            /\ UNCHANGED <<plan, gate>>
    /\ UNCHANGED <<release, work, agent>> /\ UNCHANGED conVars

Of(s) == {a \in plan.approvals : asks[a].session = s}
Cleared_Any(s, a) == [plan EXCEPT !.pending[s] = 0, !.approvals = @ \ Of(s)]
\* clearPending leaves another permission of the session alone.
Cleared(s, a) == IF plan.pending[s] = a
                 THEN [plan EXCEPT !.pending[s] = 0, !.approvals = @ \ Of(s)] ELSE plan

\* The permission is answered, or the agent withdraws it, or the connection is gone,
\* or the supervisor refused it.
AskReturns(a) ==
    /\ asks[a].at = "waiting"
    /\ plan' = Cleared(asks[a].session, a)
    /\ asks' = [asks EXCEPT ![a] = Over] /\ Forgets(a)
    /\ UNCHANGED <<release, gate, work, agent>> /\ UNCHANGED conVars

\* ResolveApproval, inside an operation: the decision goes into the channel of the
\* session's pending permission.
ResolveApproval(a) ==
    /\ GateOpen /\ a \in plan.approvals /\ asks[a].conn = g.id
    /\ plan.pending[asks[a].session] # 0
    /\ asks' = [asks EXCEPT ![plan.pending[asks[a].session]].chosen = TRUE]
    /\ plan' = [plan EXCEPT !.pending[asks[a].session] = 0, !.approvals = @ \ {a}]
    /\ gate' = [gate EXCEPT !.ready = @ \ {asks[a].session}]
    /\ UNCHANGED <<release, work, agent, calls>> /\ UNCHANGED conVars

-----------------------------------------------------------------------------
\* What the program does by itself; calls on a dead connection return.
System ==
    \/ InitStarts \/ Publish \/ Settle
    \/ \E c \in Conns : Watch(c)
    \/ \E r \in {"idle", "close"} : ReleaseBegins(r) \/ ReleaseTakes(r)
    \/ \E s \in Sessions :
          \/ Ensure(s) \/ Connected(s) \/ Prompt(s)
          \/ Ensured(s)
          \/ work[s].conn \notin alive /\ work[s].at \in AtAgent /\ Ends(s)
    \/ \E a \in Asks :
          \/ AskPlan(a)
          \/ (asks[a].at = "waiting" /\ (asks[a].chosen \/ asks[a].conn \notin alive)
              /\ AskReturns(a))

\* Users, timers and the agent.
Environment ==
    \/ Close \/ Tick \/ AttemptTimesOut
    \/ \E c \in Conns : Dies(c)
    \/ \E s \in Sessions :
          \/ Begin(s) \/ Invalidate(s) \/ NewReturns(s) \/ LoadReturns(s)
          \/ Ends(s)
    \/ \E c \in Conns, s \in Sessions :
          \/ Announce(c, s)
          \/ \E a \in Asks : Permission(a, c, s)
    \/ \E k \in calls : CallEnds(k)
    \/ \E a \in Asks : AskReturns(a) \/ ResolveApproval(a)

Next == System \/ Environment
Spec == Init /\ [][Next]_vars

-----------------------------------------------------------------------------
(* Properties.                                                             *)

WorkAt == {"idle", "ensure", "waiting", "connected", "prompt"} \cup AtAgent
\* The type invariant.
TypeOK ==
    /\ g \in [closed : BOOLEAN, conn : Conns \cup {0}, id : Conns \cup {0},
              attempt : Conns \cup {0}, loaded : SUBSET Sessions]
    /\ init \in [at : {"none", "start", "handshake", "failed", "settle"}, ok : BOOLEAN,
                 cancelled : BOOLEAN]
    /\ init.at = "none" <=> g.attempt = 0
    /\ results \in [Conns -> {"none", "ok", "failed"}]
    /\ {open, alive, watchers} \subseteq SUBSET Conns
    /\ \A r \in {"idle", "close"} : release[r].at \in {"none", "begin", "await", "done"}
    /\ gate \in [idling : BOOLEAN, ready : SUBSET Sessions, turns : Turns \cup {0}]
    /\ work \in [Sessions -> [at : WorkAt, op : BOOLEAN, conn : Conns \cup {0},
                              turn : Turns \cup {0}]]
    /\ agent.exists \subseteq Sessions /\ agent.loaded \subseteq Conns \X Sessions
    /\ plan.pending \in [Sessions -> Asks \cup {0}] /\ plan.approvals \subseteq Asks
    /\ \A a \in Asks : asks[a].at \in {"none", "bound", "waiting", "over"}

\* A request skips the load only for a session that the present connection really has
\* loaded, also when the connection was replaced while the load was under way
\* (grok.go:159, :208).
LoadedIsTrue == \A s \in g.loaded : <<g.conn, s>> \in agent.loaded

\* No connection is lost sight of: an open one is the published one, which a watcher
\* looks after, or belongs to the attempt under way, or its agent is dead and its
\* watcher will close it; and once Close has returned there is none.
NothingLeaks ==
    /\ \A c \in open :
          \/ c = g.attempt
          \/ c \in watchers /\ c = g.conn
          \/ c \in watchers /\ c \notin alive
    /\ release["close"].at = "done" => open = {} /\ g.attempt = 0

\* The idle release never takes the connection from an operation or a turn, however
\* the tick falls (README.md:88).
IdleReleaseIsHarmless ==
    gate.idling => \A s \in Sessions : work[s].at = "idle"

\* A permission that waits for its user can be answered: nothing that another
\* permission, or one of an earlier connection, does takes its channel away.
WaitingIsAnswerable ==
    \A a \in Asks : asks[a].at = "waiting" /\ ~asks[a].chosen /\ asks[a].conn = g.id =>
        a \in plan.approvals /\ plan.pending[asks[a].session] = a

\* A permission whose tool call came in one turn is never before the user as another
\* turn's, however late it comes and whatever was announced, ended or sent in between
\* (TestOldPermissionKeepsItsOriginalTurnIdentity, protocol_contract_test.go:11).
OldCallKeepsItsTurn ==
    \A a \in plan.approvals : asks[a].came # 0 => asks[a].shown = asks[a].came

\* The same of every call: one that came before any turn is not bound to a present one
\* (docs/wait-lifecycle.md:9).  The code does not keep this.
NoCallIsRebound == \A a \in plan.approvals : asks[a].shown = asks[a].came

\* Somebody has a step to take: the attempt, the watcher of a dead connection, a
\* Release, or a caller whose attempt has its result.
Working ==
    \/ init.at # "none" \/ watchers \ alive # {}
    \/ \E r \in {"idle", "close"} :
          release[r].at = "begin" \/ (release[r].at = "await" /\ Awaited(r))
    \/ \E s \in Sessions : work[s].at = "waiting" /\ results[work[s].conn] # "none"
Returned ==
    /\ \A s \in Sessions : work[s].at # "waiting"
    /\ \A r \in {"idle", "close"} : release[r].at \in {"none", "done"}
    /\ g.attempt = 0 /\ g.conn \in alive \cup {0} /\ watchers \subseteq alive
\* No attempt, release or watcher waits for another for ever: until every caller of
\* EnsureLeader has its answer, every Release is done and nobody believes in a dead
\* connection, somebody has a step to take, and it can be taken.
EveryoneReturns == /\ Working => ENABLED System
                   /\ Working \/ Returned
=============================================================================
