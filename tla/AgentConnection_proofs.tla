----------------------- MODULE AgentConnection_proofs -----------------------
(***************************************************************************)
(* Theorems about the connection to the agent, for every number of         *)
(* sessions, attempts, requests and permissions: nothing stays open that   *)
(* nobody looks after, what counts as loaded is loaded, the idle release   *)
(* is harmless, and a permission is answered where it was asked.           *)
(***************************************************************************)
EXTENDS AgentConnection, TLAPS

Connection == [closed : BOOLEAN, conn : Conns \cup {0}, id : Conns \cup {0},
               attempt : Conns \cup {0}, loaded : SUBSET Sessions]
Attempt == [at : {"none", "start", "handshake", "failed", "settle"}, ok : BOOLEAN,
            cancelled : BOOLEAN]
Releaser == {"idle", "close"}
Release == [at : {"none", "begin", "await", "done"}, attempt : Conns \cup {0}]
ConnTyped ==
    /\ g \in Connection /\ init \in Attempt /\ results \in [Conns -> {"none", "ok", "failed"}]
    /\ open \subseteq Conns /\ alive \subseteq Conns /\ watchers \subseteq Conns
    /\ release \in [Releaser -> Release]

Work == [at : WorkAt, op : BOOLEAN, conn : Conns \cup {0}, turn : Turns \cup {0}]
Gate == [idling : BOOLEAN, ready : SUBSET Sessions, turns : Turns \cup {0}]
AgentState == [exists : SUBSET Sessions, loaded : SUBSET (Conns \X Sessions)]
WorkTyped ==
    /\ gate \in Gate /\ work \in [Sessions -> Work] /\ agent \in AgentState
    /\ \A s \in Sessions : work[s].at \in AtAgent => work[s].conn # 0

Plan == [turn : [Sessions -> Turns \cup {0}], pending : [Sessions -> Asks \cup {0}],
         approvals : SUBSET Asks]
KnownCall == [conn : Conns, session : Sessions, turn : Turns \cup {0}]
AskShort == [at : {"none", "over"}, chosen : BOOLEAN]
AskFull == [at : {"bound", "waiting"}, chosen : BOOLEAN, conn : Conns, session : Sessions,
            turn : Turns \cup {0}, came : Turns \cup {0}, shown : Turns \cup {0}]
PlanTyped ==
    plan \in Plan /\ calls \subseteq KnownCall /\ asks \in [Asks -> AskShort \cup AskFull]

LEMMA Bounds ==
  /\ Conns \subseteq Int /\ Turns \subseteq Int /\ Asks \subseteq Int
  /\ 0 \notin Conns /\ 0 \notin Turns /\ 0 \notin Asks
  /\ Old \subseteq Sessions
<1>1. \A S \in {Conns, Turns, Asks} : S = 1..Cardinality(S)
  BY ConnectionAssumption
<1>2. \A n : 1..n \subseteq Int /\ 0 \notin 1..n
  OBVIOUS
<1> QED BY <1>1, <1>2, ConnectionAssumption

-----------------------------------------------------------------------------
(* The inductive invariant.                                                *)

\* What is open belongs to the attempt, or is published and watched.
Attempted ==
    /\ init.at = "none" <=> g.attempt = 0
    /\ g.attempt # 0 => results[g.attempt] = "none"
    /\ alive \subseteq open
    /\ \A c \in watchers : results[c] = "ok"
    /\ \A c \in open :
          \/ c = g.attempt /\ init.at \notin {"none", "start"}
          \/ c = g.conn /\ c \in watchers
    /\ init.at \in {"start", "handshake", "failed"} => g.conn = 0
    /\ init.ok => init.at = "settle"
    /\ init.at = "settle" => IF init.ok THEN g.conn = g.attempt ELSE g.attempt \notin open

\* Close waits for the last attempt there will be.
Closing ==
    /\ g.closed <=> release["close"].at # "none"
    /\ release["close"].at = "await" => g.attempt \in {0, release["close"].attempt}
    /\ release["close"].at = "done" => g.attempt = 0 /\ open = {}

\* A connection that has been opened; the next attempt opens another.
Used(c) == results[c] # "none" \/ (c = g.attempt /\ init.at # "start")
\* Bound to the turn its call came in, and before the user as that turn's.
Faithful(q) == q.turn = q.came /\ (q.at = "waiting" /\ q.came # 0 => q.shown = q.came)
AskTrue == \A a \in Asks : asks[a] \in AskFull => Used(asks[a].conn) /\ Faithful(asks[a])
\* An approval is that of the pending permission of its session.
Approved == \A a \in plan.approvals :
                asks[a] \in AskFull /\ asks[a].at = "waiting" /\ plan.pending[asks[a].session] = a

ConnPart == ConnTyped /\ Attempted /\ Closing
WorkPart == WorkTyped /\ IdleReleaseIsHarmless
PlanPart == PlanTyped /\ AskTrue /\ Approved /\ WaitingIsAnswerable
ConnInv == ConnPart /\ WorkPart /\ LoadedIsTrue /\ PlanPart

LEMMA InitHolds == Init => ConnInv
<1> SUFFICES ASSUME Init PROVE ConnInv
  OBVIOUS
<1>1. ConnPart
  <2>1. /\ g = [closed |-> FALSE, conn |-> 0, id |-> 0, attempt |-> 0, loaded |-> {}]
        /\ init = [at |-> "none", ok |-> FALSE, cancelled |-> FALSE]
        /\ results = [c \in Conns |-> "none"] /\ open = {} /\ alive = {} /\ watchers = {}
        /\ release = [r \in {"idle", "close"} |-> [at |-> "none", attempt |-> 0]]
    BY DEF Init, NoInit
  <2>2. ConnTyped
    BY <2>1 DEF ConnTyped, Connection, Attempt, Releaser, Release
  <2> QED BY <2>1, <2>2 DEF ConnPart, Attempted, Closing
<1>2. WorkPart
  <2>1. /\ gate \in [idling : {FALSE}, ready : SUBSET Old, turns : {0}]
        /\ work = [s \in Sessions |-> NoWork] /\ agent = [exists |-> Old, loaded |-> {}]
    BY DEF Init
  <2>2. NoWork \in Work /\ NoWork.at = "idle"
    BY DEF NoWork, Work, WorkAt, AtAgent
  <2>3. gate \in Gate /\ ~gate.idling
    BY <2>1, Bounds DEF Gate
  <2>4. agent \in AgentState
    BY <2>1, Bounds DEF AgentState
  <2> QED BY <2>1, <2>2, <2>3, <2>4 DEF WorkPart, WorkTyped, IdleReleaseIsHarmless, AtAgent
<1>3. LoadedIsTrue
  BY DEF Init, LoadedIsTrue
<1>4. PlanPart
  <2>1. /\ plan = [turn |-> [s \in Sessions |-> 0], pending |-> [s \in Sessions |-> 0],
                   approvals |-> {}]
        /\ calls = {} /\ asks = [a \in Asks |-> NoAsk]
    BY DEF Init
  <2>2. NoAsk \in AskShort /\ NoAsk.at = "none" /\ NoAsk \notin AskFull
    BY DEF NoAsk, AskShort, AskFull
  <2>3. PlanTyped
    BY <2>1, <2>2 DEF PlanTyped, Plan
  <2> QED BY <2>1, <2>2, <2>3 DEF PlanPart, AskTrue, Approved, WaitingIsAnswerable
<1> QED BY <1>1, <1>2, <1>3, <1>4 DEF ConnInv

-----------------------------------------------------------------------------
(* What leaves a part of the invariant alone.                              *)

\* The connection is the same one; sessions may be noted as loaded, or no longer.
SameConnection ==
    /\ g' \in Connection /\ g'.closed = g.closed /\ g'.conn = g.conn /\ g'.id = g.id
    /\ g'.attempt = g.attempt
    /\ UNCHANGED <<init, results, open, alive, watchers, release>>
LEMMA ConnKeeps ==
  ASSUME ConnPart, SameConnection PROVE ConnPart'
<1>1. UNCHANGED <<init, results, open, alive, watchers, release>>
  BY DEF SameConnection
<1>2. ConnTyped'
  BY <1>1 DEF ConnPart, ConnTyped, SameConnection
<1>3. Attempted' /\ Closing'
  BY <1>1 DEF ConnPart, Attempted, Closing, SameConnection
<1> QED BY <1>2, <1>3 DEF ConnPart

LEMMA WorkKeeps ==
  ASSUME WorkPart, UNCHANGED <<gate, work>>, agent' \in AgentState PROVE WorkPart'
  BY DEF WorkPart, WorkTyped, IdleReleaseIsHarmless

\* The work of one session moves; the gate does not begin to idle.
LEMMA WorkMoves ==
  ASSUME WorkPart, NEW s \in Sessions, NEW w \in Work, work' = [work EXCEPT ![s] = w],
         gate' \in Gate, gate'.idling => gate.idling /\ (work[s].at = "idle" => w.at = "idle"),
         agent' \in AgentState, w.at \in AtAgent => w.conn # 0
  PROVE  WorkPart'
<1>1. \A t \in Sessions : work'[t] = IF t = s THEN w ELSE work[t]
  BY DEF WorkPart, WorkTyped
<1>2. work' \in [Sessions -> Work]
  BY DEF WorkPart, WorkTyped
<1>3. WorkTyped'
  BY <1>1, <1>2 DEF WorkPart, WorkTyped
<1>4. IdleReleaseIsHarmless'
  BY <1>1 DEF WorkPart, IdleReleaseIsHarmless
<1> QED BY <1>3, <1>4 DEF WorkPart

LEMMA LoadedKeeps ==
  ASSUME LoadedIsTrue, g'.conn = g.conn, g'.loaded \subseteq g.loaded,
         agent.loaded \subseteq agent'.loaded
  PROVE  LoadedIsTrue'
  BY DEF LoadedIsTrue

\* No permission asks on a connection that is still to be opened, or on none.
LEMMA PlanGoesOn ==
  ASSUME PlanPart, plan' \in Plan, plan'.pending = plan.pending,
         plan'.approvals = plan.approvals, UNCHANGED asks, calls' \subseteq calls,
         \A c \in Conns : Used(c) => Used(c)',
         g'.id = g.id \/ \A c \in Conns : Used(c) => c # g'.id
  PROVE  PlanPart'
<1>1. PlanTyped'
  BY DEF PlanPart, PlanTyped
<1>2. \A a \in Asks : asks[a] \in AskFull => asks[a].conn \in Conns
  BY DEF AskFull
<1>3. AskTrue'
  BY <1>2 DEF PlanPart, AskTrue
<1>4. Approved'
  BY DEF PlanPart, Approved
<1>5. \A a \in Asks : asks[a].at = "waiting" => asks[a] \in AskFull
  BY DEF PlanPart, PlanTyped, AskShort
<1>6. WaitingIsAnswerable'
  BY <1>2, <1>5 DEF PlanPart, AskTrue, WaitingIsAnswerable
<1> QED BY <1>1, <1>3, <1>4, <1>6 DEF PlanPart

LEMMA PlanKeeps ==
  ASSUME PlanPart, UNCHANGED <<plan, asks>>, calls' \subseteq calls,
         \A c \in Conns : Used(c) => Used(c)',
         g'.id = g.id \/ \A c \in Conns : Used(c) => c # g'.id
  PROVE  PlanPart'
<1>1. plan \in Plan
  BY DEF PlanPart, PlanTyped
<1> QED BY <1>1, PlanGoesOn

LEMMA UsedKeeps ==
  ASSUME SameConnection PROVE \A c \in Conns : Used(c) => Used(c)'
  BY DEF SameConnection, Used

-----------------------------------------------------------------------------
(* Requests.                                                               *)

LEMMA MovesAt ==
  ASSUME WorkPart, NEW s \in Sessions, NEW at \in WorkAt, work' = [work EXCEPT ![s].at = at],
         gate' \in Gate, gate'.idling => gate.idling /\ work[s].at # "idle",
         agent' \in AgentState, at \in AtAgent => work[s].conn # 0
  PROVE  WorkPart'
<1>1. work[s] \in Work /\ work \in [Sessions -> Work]
  BY DEF WorkPart, WorkTyped
<1> DEFINE w == [work[s] EXCEPT !.at = at]
<1>2. w \in Work /\ w.at = at /\ w.conn = work[s].conn
  BY <1>1 DEF Work
<1>3. work' = [work EXCEPT ![s] = w]
  BY <1>1
<1> HIDE DEF w
<1> QED BY <1>2, <1>3, WorkMoves

LEMMA MovesTo ==
  ASSUME WorkPart, NEW s \in Sessions, NEW at \in WorkAt, NEW c \in Conns \cup {0},
         work' = [work EXCEPT ![s] = [work[s] EXCEPT !.at = at, !.conn = c]],
         gate' \in Gate, gate'.idling => gate.idling /\ work[s].at # "idle",
         agent' \in AgentState, at \in AtAgent => c # 0
  PROVE  WorkPart'
<1>1. work[s] \in Work /\ work \in [Sessions -> Work]
  BY DEF WorkPart, WorkTyped
<1> DEFINE v == [work[s] EXCEPT !.at = at]
           w == [v EXCEPT !.conn = c]
<1>2. v \in Work /\ v.at = at
  BY <1>1 DEF Work
<1>3. work' = [work EXCEPT ![s] = w]
  BY <1>1
<1> HIDE DEF v
<1>4. w \in Work /\ w.at = at /\ w.conn = c
  BY <1>2 DEF Work
<1> HIDE DEF w
<1> QED BY <1>3, <1>4, WorkMoves

LEMMA Stops ==
  ASSUME WorkPart, NEW s \in Sessions, work' = [work EXCEPT ![s] = NoWork],
         gate' \in Gate, gate'.idling => gate.idling, agent' \in AgentState
  PROVE  WorkPart'
<1>1. NoWork \in Work /\ NoWork.at = "idle" /\ NoWork.at \notin AtAgent
  BY DEF NoWork, Work, WorkAt, AtAgent
<1> QED BY <1>1, WorkMoves

\* A step of a request in which neither the connection nor a permission moves.
LEMMA WorkOnly ==
  ASSUME ConnInv, UNCHANGED conVars, UNCHANGED planVars, UNCHANGED <<release, agent>>, WorkPart'
  PROVE  ConnInv'
<1>1. SameConnection /\ UNCHANGED <<g, plan, calls, asks, agent>>
  BY DEF SameConnection, conVars, planVars, ConnInv, ConnPart, ConnTyped
<1>2. ConnPart'
  BY <1>1, ConnKeeps DEF ConnInv
<1>3. LoadedIsTrue'
  BY <1>1 DEF ConnInv, LoadedIsTrue
<1>4. PlanPart'
  BY <1>1, UsedKeeps, PlanKeeps DEF ConnInv
<1> QED BY <1>2, <1>3, <1>4 DEF ConnInv

LEMMA EnsuredHolds ==
  ASSUME ConnInv, NEW s \in Sessions, Ensured(s) PROVE ConnInv'
<1>1. /\ WorkPart /\ work[s].at = "waiting" /\ UNCHANGED <<release, gate, agent>>
      /\ UNCHANGED conVars /\ UNCHANGED planVars
      /\ work' = [work EXCEPT ![s] = IF results[work[s].conn] = "ok"
                      THEN [work[s] EXCEPT !.at = "connected", !.conn = 0] ELSE NoWork]
  BY DEF ConnInv, Ensured
<1>2. gate' \in Gate /\ gate'.idling = gate.idling /\ agent' \in AgentState
  BY <1>1 DEF WorkPart, WorkTyped
<1>3. CASE results[work[s].conn] = "ok"
  <2>1. work' = [work EXCEPT ![s] = [work[s] EXCEPT !.at = "connected", !.conn = 0]]
    BY <1>1, <1>3
  <2>2. "connected" \in WorkAt /\ "connected" \notin AtAgent
    BY DEF WorkAt, AtAgent
  <2>3. WorkPart'
    BY <1>1, <1>2, <2>1, <2>2, MovesTo
  <2> QED BY <1>1, <2>3, WorkOnly
<1>4. CASE results[work[s].conn] # "ok"
  <2>1. work' = [work EXCEPT ![s] = NoWork]
    BY <1>1, <1>4
  <2>2. WorkPart'
    BY <1>1, <1>2, <2>1, Stops
  <2> QED BY <1>1, <2>2, WorkOnly
<1> QED BY <1>3, <1>4

LEMMA BeginHolds ==
  ASSUME ConnInv, NEW s \in Sessions, Begin(s) PROVE ConnInv'
<1> DEFINE w == [at |-> "ensure", op |-> s \notin agent.exists, conn |-> 0, turn |-> gate.turns + 1]
<1>1. /\ WorkPart /\ gate \in Gate /\ agent \in AgentState /\ ~gate.idling
      /\ UNCHANGED <<release, agent>> /\ UNCHANGED conVars /\ UNCHANGED planVars
      /\ gate.turns + 1 \in Turns
      /\ gate' = [gate EXCEPT !.turns = gate.turns + 1]
      /\ work' = [work EXCEPT ![s] = w]
  BY DEF ConnInv, WorkPart, WorkTyped, Begin, GateOpen
<1>2. w \in Work /\ w.at = "ensure"
  BY <1>1 DEF Work, WorkAt
<1>3. gate' \in Gate /\ ~gate'.idling
  BY <1>1 DEF Gate
<1> HIDE DEF w
<1>4. WorkPart'
  BY <1>1, <1>2, <1>3, WorkMoves DEF AtAgent
<1> QED BY <1>1, <1>4, WorkOnly

LEMMA ConnectedHolds ==
  ASSUME ConnInv, NEW s \in Sessions, Connected(s) PROVE ConnInv'
<1>1. /\ WorkPart /\ work[s].at = "connected" /\ UNCHANGED <<release, gate, agent>>
      /\ UNCHANGED conVars /\ UNCHANGED planVars
      /\ g.conn \in Conns \cup {0}
      /\ work' = [work EXCEPT ![s] =
           IF g.conn = 0 THEN NoWork
           ELSE IF work[s].op THEN [work[s] EXCEPT !.at = "new", !.conn = g.conn]
           ELSE IF s \in g.loaded THEN [work[s] EXCEPT !.at = "prompt"]
           ELSE [work[s] EXCEPT !.at = "loading", !.conn = g.conn]]
  BY DEF ConnInv, ConnPart, ConnTyped, Connection, Connected
<1>0. WorkPart /\ work[s].at # "idle" /\ g.conn \in Conns \cup {0}
  BY <1>1
<1>2. gate' \in Gate /\ gate'.idling = gate.idling /\ agent' \in AgentState
  BY <1>1 DEF WorkPart, WorkTyped
<1>3. "new" \in WorkAt /\ "loading" \in WorkAt /\ "prompt" \in WorkAt /\ "prompt" \notin AtAgent
  BY DEF WorkAt, AtAgent
<1>4. CASE g.conn = 0
  <2>1. work' = [work EXCEPT ![s] = NoWork]
    BY <1>1, <1>4
  <2>2. WorkPart'
    BY <1>1, <1>2, <2>1, Stops
  <2> QED BY <1>1, <2>2, WorkOnly
<1>5. CASE g.conn # 0 /\ work[s].op
  <2>1. work' = [work EXCEPT ![s] = [work[s] EXCEPT !.at = "new", !.conn = g.conn]]
    BY <1>1, <1>5
  <2>2. WorkPart'
    BY <1>0, <1>2, <1>3, <1>5, <2>1, MovesTo
  <2> QED BY <1>1, <2>2, WorkOnly
<1>6. CASE g.conn # 0 /\ ~work[s].op /\ s \in g.loaded
  <2>1. work' = [work EXCEPT ![s].at = "prompt"]
    BY <1>1, <1>6
  <2>2. WorkPart'
    BY <1>1, <1>2, <1>3, <2>1, MovesAt
  <2> QED BY <1>1, <2>2, WorkOnly
<1>7. CASE g.conn # 0 /\ ~work[s].op /\ s \notin g.loaded
  <2>1. work' = [work EXCEPT ![s] = [work[s] EXCEPT !.at = "loading", !.conn = g.conn]]
    BY <1>1, <1>7
  <2>2. WorkPart'
    BY <1>0, <1>2, <1>3, <1>7, <2>1, MovesTo
  <2> QED BY <1>1, <2>2, WorkOnly
<1> QED BY <1>4, <1>5, <1>6, <1>7

LEMMA EndsHolds ==
  ASSUME ConnInv, NEW s \in Sessions, Ends(s) PROVE ConnInv'
<1>1. /\ WorkPart /\ gate \in Gate /\ agent \in AgentState
      /\ UNCHANGED <<release, agent>> /\ UNCHANGED conVars /\ UNCHANGED planVars
      /\ gate' = [gate EXCEPT !.ready = gate.ready \ {s}]
      /\ work' = [work EXCEPT ![s] = NoWork]
  BY DEF ConnInv, WorkPart, WorkTyped, Ends
<1>2. gate' \in Gate /\ gate'.idling = gate.idling
  BY <1>1 DEF Gate
<1>3. WorkPart'
  BY <1>1, <1>2, Stops
<1> QED BY <1>1, <1>3, WorkOnly

\* A session has been created or loaded, on the connection the request found.
LEMMA LoadsHolds ==
  ASSUME ConnInv, NEW s \in Sessions, g' = MarkLoaded(s),
         UNCHANGED <<init, results, open, alive, watchers, release>>, UNCHANGED planVars,
         WorkPart', agent'.loaded = agent.loaded \cup {<<work[s].conn, s>>}
  PROVE  ConnInv'
<1> DEFINE l == g.loaded \cup {s}
<1>1. /\ g \in Connection /\ UNCHANGED <<plan, calls, asks>>
      /\ g' = IF g.conn = work[s].conn THEN [g EXCEPT !.loaded = l] ELSE g
  BY DEF ConnInv, ConnPart, ConnTyped, MarkLoaded, planVars
<1>2. l \subseteq Sessions
  BY <1>1 DEF Connection
<1> HIDE DEF l
<1>3. /\ SameConnection /\ g'.loaded = IF g.conn = work[s].conn THEN l ELSE g.loaded
  BY <1>1, <1>2 DEF SameConnection, Connection
<1>4. ConnPart'
  BY <1>3, ConnKeeps DEF ConnInv
<1>5. LoadedIsTrue'
  BY <1>3 DEF ConnInv, LoadedIsTrue, SameConnection, l
<1>6. PlanPart'
  BY <1>1, <1>3, UsedKeeps, PlanKeeps DEF ConnInv, SameConnection
<1> QED BY <1>4, <1>5, <1>6 DEF ConnInv

LEMMA NewReturnsHolds ==
  ASSUME ConnInv, NEW s \in Sessions, NewReturns(s) PROVE ConnInv'
<1>1. /\ WorkPart /\ WorkTyped /\ work[s] \in Work /\ work[s].at = "new" /\ g' = MarkLoaded(s)
      /\ agent' = [exists |-> agent.exists \cup {s},
                   loaded |-> agent.loaded \cup {<<work[s].conn, s>>}]
      /\ work' = [work EXCEPT ![s].at = "prompt", ![s].op = FALSE, ![s].conn = 0]
      /\ UNCHANGED <<init, results, open, alive, watchers, release, gate>>
      /\ UNCHANGED planVars
  BY DEF ConnInv, WorkPart, WorkTyped, NewReturns
<1>2. work[s].conn \in Conns
  BY <1>1 DEF WorkTyped, Work, AtAgent
<1>3. agent' \in AgentState /\ agent'.loaded = agent.loaded \cup {<<work[s].conn, s>>}
  BY <1>1, <1>2 DEF WorkTyped, AgentState
<1> DEFINE u == [work[s] EXCEPT !.at = "prompt"]
           v == [u EXCEPT !.op = FALSE]
           w == [v EXCEPT !.conn = 0]
<1>4. work' = [work EXCEPT ![s] = w]
  BY <1>1 DEF WorkTyped
<1>5. u \in Work /\ u.at = "prompt"
  BY <1>1 DEF Work, WorkAt
<1> HIDE DEF u
<1>6. v \in Work /\ v.at = "prompt"
  BY <1>5 DEF Work
<1> HIDE DEF v
<1>7. w \in Work /\ w.at = "prompt"
  BY <1>6 DEF Work
<1> HIDE DEF w
<1>8. WorkPart'
  BY <1>1, <1>3, <1>4, <1>7, WorkMoves DEF WorkTyped, AtAgent
<1> QED BY <1>1, <1>3, <1>8, LoadsHolds

LEMMA LoadReturnsHolds ==
  ASSUME ConnInv, NEW s \in Sessions, LoadReturns(s) PROVE ConnInv'
<1> DEFINE l == agent.loaded \cup {<<work[s].conn, s>>}
<1>1. /\ WorkPart /\ WorkTyped /\ work[s] \in Work /\ work[s].at = "loading" /\ g' = MarkLoaded(s)
      /\ agent' = [agent EXCEPT !.loaded = l]
      /\ work' = [work EXCEPT ![s].at = "prompt", ![s].conn = 0]
      /\ UNCHANGED <<init, results, open, alive, watchers, release, gate>>
      /\ UNCHANGED planVars
  BY DEF ConnInv, WorkPart, WorkTyped, LoadReturns
<1>2. work[s].conn \in Conns
  BY <1>1 DEF WorkTyped, Work, AtAgent
<1>3. l \subseteq Conns \X Sessions
  BY <1>1, <1>2 DEF WorkTyped, AgentState
<1> HIDE DEF l
<1>4. agent' \in AgentState /\ agent'.loaded = l
  BY <1>1, <1>3 DEF WorkTyped, AgentState
<1>5. work' = [work EXCEPT ![s] = [work[s] EXCEPT !.at = "prompt", !.conn = 0]]
  BY <1>1 DEF WorkTyped
<1>6. "prompt" \in WorkAt /\ "prompt" \notin AtAgent
  BY DEF WorkAt, AtAgent
<1>7. WorkPart'
  BY <1>1, <1>4, <1>5, <1>6, MovesTo DEF WorkTyped
<1> QED BY <1>1, <1>4, <1>7, LoadsHolds DEF l

LEMMA InvalidateHolds ==
  ASSUME ConnInv, NEW s \in Sessions, Invalidate(s) PROVE ConnInv'
<1> DEFINE l == g.loaded \ {s}
<1>1. /\ g \in Connection /\ g' = [g EXCEPT !.loaded = l]
      /\ UNCHANGED <<init, results, open, alive, watchers, release, gate, work, agent>>
      /\ UNCHANGED <<plan, calls, asks>>
  BY DEF ConnInv, ConnPart, ConnTyped, Invalidate, planVars
<1>2. l \subseteq Sessions
  BY <1>1 DEF Connection
<1> HIDE DEF l
<1>3. SameConnection /\ g'.loaded = l
  BY <1>1, <1>2 DEF SameConnection, Connection
<1>4. ConnPart'
  BY <1>3, ConnKeeps DEF ConnInv
<1>5. LoadedIsTrue'
  BY <1>1, <1>3 DEF ConnInv, LoadedIsTrue, SameConnection, l
<1>6. PlanPart'
  BY <1>1, <1>3, UsedKeeps, PlanKeeps DEF ConnInv, SameConnection
<1>7. WorkPart'
  BY <1>1, WorkKeeps DEF ConnInv, WorkPart, WorkTyped
<1> QED BY <1>4, <1>5, <1>6, <1>7 DEF ConnInv

LEMMA PromptHolds ==
  ASSUME ConnInv, NEW s \in Sessions, Prompt(s) PROVE ConnInv'
<1> DEFINE t == [plan.turn EXCEPT ![s] = work[s].turn]
           r == gate.ready \ {s}
<1>1. /\ WorkPart /\ WorkTyped /\ PlanPart /\ PlanTyped /\ work[s].at = "prompt"
      /\ plan' = [plan EXCEPT !.turn = t] /\ gate' = [gate EXCEPT !.ready = r]
      /\ work' = [work EXCEPT ![s] = IF g.conn = 0 THEN NoWork
                      ELSE [work[s] EXCEPT !.at = "prompting", !.conn = g.conn]]
      /\ UNCHANGED <<release, agent, calls, asks>> /\ UNCHANGED conVars
  BY DEF ConnInv, WorkPart, PlanPart, Prompt
<1>2. /\ SameConnection /\ UNCHANGED g /\ g \in Connection
  BY <1>1 DEF SameConnection, conVars, ConnInv, ConnPart, ConnTyped
<1>3. t \in [Sessions -> Turns \cup {0}]
  BY <1>1 DEF PlanTyped, Plan, WorkTyped, Work
<1> HIDE DEF t
<1>4. plan' \in Plan /\ plan'.pending = plan.pending /\ plan'.approvals = plan.approvals
  BY <1>1, <1>3 DEF PlanTyped, Plan
<1>5. PlanPart'
  BY <1>1, <1>2, <1>4, UsedKeeps, PlanGoesOn
<1>6. r \subseteq Sessions
  BY <1>1 DEF WorkTyped, Gate
<1> HIDE DEF r
<1>7. gate' \in Gate /\ gate'.idling = gate.idling /\ agent' \in AgentState
  BY <1>1, <1>6 DEF WorkTyped, Gate
<1>8. WorkPart'
  <2>1. CASE g.conn = 0
    <3>1. work' = [work EXCEPT ![s] = NoWork]
      BY <1>1, <2>1
    <3> QED BY <1>1, <1>7, <3>1, Stops
  <2>2. CASE g.conn # 0
    <3>1. work' = [work EXCEPT ![s] = [work[s] EXCEPT !.at = "prompting", !.conn = g.conn]]
      BY <1>1, <2>2
    <3>2. "prompting" \in WorkAt /\ g.conn \in Conns \cup {0}
      BY <1>2 DEF WorkAt, AtAgent, Connection
    <3> QED BY <1>1, <1>7, <2>2, <3>1, <3>2, MovesTo
  <2> QED BY <2>1, <2>2
<1>9. ConnPart' /\ LoadedIsTrue'
  BY <1>1, <1>2, ConnKeeps DEF ConnInv, LoadedIsTrue
<1> QED BY <1>5, <1>8, <1>9 DEF ConnInv

-----------------------------------------------------------------------------
(* Connecting.                                                             *)

\* Another attempt is the only thing that makes a connection usable again.
UsedGrows == \A c \in Conns : Used(c) => Used(c)'
Fresh(c) == \A d \in Conns : Used(d) => d # c

LEMMA ConnStep ==
  ASSUME ConnInv, ConnPart', WorkPart', UNCHANGED agent, UNCHANGED planVars,
         g'.loaded \subseteq g.loaded, g'.conn = g.conn \/ g'.loaded = {},
         g'.id = g.id \/ Fresh(g'.id), UsedGrows
  PROVE  ConnInv'
<1>1. LoadedIsTrue'
  BY DEF ConnInv, LoadedIsTrue
<1>2. UNCHANGED <<plan, calls, asks>>
  BY DEF planVars
<1>3. PlanPart'
  BY <1>2, PlanKeeps DEF ConnInv, UsedGrows, Fresh
<1> QED BY <1>1, <1>3 DEF ConnInv

\* The fields of the connection change one at a time.
LEMMA AttemptField ==
  ASSUME NEW h \in Connection, NEW c \in Conns \cup {0}
  PROVE  LET a == [h EXCEPT !.attempt = c] IN
         /\ a \in Connection /\ a.attempt = c /\ a.conn = h.conn /\ a.id = h.id
         /\ a.closed = h.closed /\ a.loaded = h.loaded
  BY DEF Connection
LEMMA IdField ==
  ASSUME NEW h \in Connection, NEW c \in Conns \cup {0}
  PROVE  LET a == [h EXCEPT !.id = c] IN
         /\ a \in Connection /\ a.id = c /\ a.conn = h.conn /\ a.attempt = h.attempt
         /\ a.closed = h.closed /\ a.loaded = h.loaded
  BY DEF Connection
LEMMA ConnField ==
  ASSUME NEW h \in Connection, NEW c \in Conns \cup {0}
  PROVE  LET a == [h EXCEPT !.conn = c] IN
         /\ a \in Connection /\ a.conn = c /\ a.id = h.id /\ a.attempt = h.attempt
         /\ a.closed = h.closed /\ a.loaded = h.loaded
  BY DEF Connection
LEMMA LoadedField ==
  ASSUME NEW h \in Connection
  PROVE  LET a == [h EXCEPT !.loaded = {}] IN
         /\ a \in Connection /\ a.loaded = {} /\ a.conn = h.conn /\ a.id = h.id
         /\ a.attempt = h.attempt /\ a.closed = h.closed
  BY DEF Connection
LEMMA ClosedField ==
  ASSUME NEW h \in Connection
  PROVE  LET a == [h EXCEPT !.closed = TRUE] IN
         /\ a \in Connection /\ a.closed = TRUE /\ a.conn = h.conn /\ a.id = h.id
         /\ a.attempt = h.attempt /\ a.loaded = h.loaded
  BY DEF Connection

LEMMA GoneFields ==
  ASSUME g \in Connection
  PROVE  /\ Gone \in Connection /\ Gone.conn = 0 /\ Gone.id = 0 /\ Gone.loaded = {}
         /\ Gone.attempt = g.attempt /\ Gone.closed = g.closed
<1> DEFINE a == [g EXCEPT !.conn = 0]
           b == [a EXCEPT !.id = 0]
           c == [b EXCEPT !.loaded = {}]
<1>1. Gone = c
  BY DEF Gone
<1>2. a \in Connection /\ a.conn = 0 /\ a.attempt = g.attempt /\ a.closed = g.closed
  BY DEF Connection
<1> HIDE DEF a
<1>3. b \in Connection /\ b.conn = 0 /\ b.id = 0 /\ b.attempt = a.attempt /\ b.closed = a.closed
  BY <1>2 DEF Connection
<1> HIDE DEF b
<1>4. /\ c \in Connection /\ c.conn = b.conn /\ c.id = b.id /\ c.loaded = {}
      /\ c.attempt = b.attempt /\ c.closed = b.closed
  BY <1>3 DEF Connection
<1> QED BY <1>1, <1>2, <1>3, <1>4

LEMMA EnsureHolds ==
  ASSUME ConnInv, NEW s \in Sessions, Ensure(s) PROVE ConnInv'
<1>1. /\ WorkPart /\ ConnPart /\ ConnTyped /\ Attempted /\ Closing /\ work[s].at = "ensure"
      /\ g \in Connection /\ work \in [Sessions -> Work]
      /\ UNCHANGED <<results, open, alive, watchers, release, gate, agent>>
      /\ UNCHANGED planVars
  BY DEF ConnInv, ConnPart, WorkPart, WorkTyped, ConnTyped, Ensure
<1>2. gate' \in Gate /\ gate'.idling = gate.idling /\ agent' \in AgentState
  BY <1>1 DEF WorkPart, WorkTyped
<1>3. "connected" \in WorkAt /\ "waiting" \in WorkAt /\ {"connected", "waiting"} \cap AtAgent = {}
  BY DEF WorkAt, AtAgent
<1>4. CASE UNCHANGED <<g, init>> /\ work' = [work EXCEPT ![s] = NoWork]
  <2>1. WorkPart'
    BY <1>1, <1>2, <1>4, Stops
  <2> QED BY <1>1, <1>4, <2>1, WorkOnly DEF conVars
<1>5. CASE UNCHANGED <<g, init>> /\ work' = [work EXCEPT ![s].at = "connected"]
  <2>1. WorkPart'
    BY <1>1, <1>2, <1>3, <1>5, MovesAt
  <2> QED BY <1>1, <1>5, <2>1, WorkOnly DEF conVars
<1>6. CASE /\ UNCHANGED <<g, init>>
           /\ work' = [work EXCEPT ![s].at = "waiting", ![s].conn = g.attempt]
  <2>1. work' = [work EXCEPT ![s] = [work[s] EXCEPT !.at = "waiting", !.conn = g.attempt]]
    BY <1>1, <1>6
  <2>2. g.attempt \in Conns \cup {0}
    BY <1>1 DEF Connection
  <2>3. WorkPart'
    BY <1>1, <1>2, <1>3, <2>1, <2>2, MovesTo
  <2> QED BY <1>1, <1>6, <2>3, WorkOnly DEF conVars
<1>7. ASSUME NEW c \in Conns, ~g.closed, g.conn = 0, g.attempt = 0, results[c] = "none",
             g' = [g EXCEPT !.attempt = c], init' = [NoInit EXCEPT !.at = "start"],
             work' = [work EXCEPT ![s].at = "waiting", ![s].conn = c]
      PROVE  ConnInv'
  <2>1. work' = [work EXCEPT ![s] = [work[s] EXCEPT !.at = "waiting", !.conn = c]]
    BY <1>1, <1>7
  <2>2. WorkPart'
    BY <1>1, <1>2, <1>3, <2>1, MovesTo
  <2>3. /\ g' \in Connection /\ g'.attempt = c /\ g'.conn = 0 /\ g'.id = g.id
        /\ g'.closed = g.closed /\ g'.loaded = g.loaded
    BY <1>1, <1>7, AttemptField
  <2>4. init' \in Attempt /\ init'.at = "start" /\ ~init'.ok
    BY <1>7 DEF NoInit, Attempt
  <2>5. ConnTyped'
    BY <1>1, <2>3, <2>4 DEF ConnTyped
  <2>6. c # 0 /\ open = {}
    BY <1>1, <1>7, Bounds DEF Attempted, ConnTyped
  <2>7. Attempted'
    BY <1>1, <1>7, <2>3, <2>4, <2>6 DEF Attempted
  <2>8. Closing'
    BY <1>1, <1>7, <2>3 DEF Closing
  <2>9. UsedGrows
    BY <1>1, <1>7, Bounds DEF UsedGrows, Used
  <2> QED BY <1>1, <1>7, <2>2, <2>3, <2>5, <2>7, <2>8, <2>9, ConnStep DEF ConnPart
<1> QED BY <1>4, <1>5, <1>6, <1>7 DEF Ensure, NeedsAttempt

LEMMA InitStartsHolds ==
  ASSUME ConnInv, InitStarts PROVE ConnInv'
<1>1. /\ WorkPart /\ ConnTyped /\ Attempted /\ Closing /\ init.at = "start"
      /\ g \in Connection /\ init \in Attempt
      /\ UNCHANGED <<results, watchers, release, gate, work, agent>> /\ UNCHANGED planVars
  BY DEF ConnInv, ConnPart, ConnTyped, InitStarts
<1>2. /\ g.attempt \in Conns /\ g.attempt # 0 /\ results[g.attempt] = "none" /\ g.conn = 0
      /\ ~init.ok /\ open = {} /\ g.attempt \notin watchers /\ release["close"].at # "done"
  BY <1>1, Bounds DEF Attempted, Connection, ConnTyped, Closing
<1>3. WorkPart'
  BY <1>1, WorkKeeps DEF WorkPart, WorkTyped
<1>4. Fresh(g.attempt)
  BY <1>1, <1>2 DEF Fresh, Used
<1>5. CASE init' = [init EXCEPT !.at = "settle"] /\ UNCHANGED <<g, open, alive>>
  <2>1. init' \in Attempt /\ init'.at = "settle" /\ ~init'.ok
    BY <1>1, <1>2, <1>5 DEF Attempt
  <2>2. ConnPart'
    BY <1>1, <1>2, <1>5, <2>1 DEF ConnPart, ConnTyped, Attempted, Closing
  <2>3. UsedGrows
    BY <1>1, <1>5, <2>1 DEF UsedGrows, Used
  <2> QED BY <1>1, <1>3, <1>5, <2>2, <2>3, ConnStep
<1>6. ASSUME NEW reached \in BOOLEAN, Opens, g' = IF reached THEN Identified ELSE g,
             init' = [init EXCEPT !.at = IF reached THEN "handshake" ELSE "failed"]
      PROVE  ConnInv'
  <2>1. /\ init' \in Attempt /\ init'.at \in {"handshake", "failed"} /\ ~init'.ok
    BY <1>1, <1>2, <1>6 DEF Attempt
  <2>2. /\ g' \in Connection /\ g'.attempt = g.attempt /\ g'.conn = g.conn
        /\ g'.id \in {g.id, g.attempt} /\ g'.closed = g.closed /\ g'.loaded = g.loaded
    <3>1. LET a == [g EXCEPT !.id = g.attempt] IN
          /\ a \in Connection /\ a.id = g.attempt /\ a.conn = g.conn /\ a.attempt = g.attempt
          /\ a.closed = g.closed /\ a.loaded = g.loaded
      BY <1>1, <1>2, IdField
    <3> QED BY <1>1, <1>6, <3>1 DEF Identified, Opened
  <2>3. open' = open \cup {g.attempt} /\ alive' = alive \cup {g.attempt}
    BY <1>6 DEF Opens, Opened
  <2>4. ConnTyped'
    BY <1>1, <1>2, <2>1, <2>2, <2>3 DEF ConnTyped
  <2>5. Attempted' /\ Closing'
    BY <1>1, <1>2, <2>1, <2>2, <2>3 DEF Attempted, Closing
  <2>6. UsedGrows
    BY <1>1, <2>1, <2>2 DEF UsedGrows, Used
  <2> QED BY <1>1, <1>3, <1>4, <2>2, <2>4, <2>5, <2>6, ConnStep DEF ConnPart
<1> QED BY <1>1, <1>5, <1>6 DEF InitStarts

LEMMA AttemptTimesOutHolds ==
  ASSUME ConnInv, AttemptTimesOut PROVE ConnInv'
<1>1. /\ WorkPart /\ ConnTyped /\ Attempted /\ Closing /\ init \in Attempt
      /\ init' = [init EXCEPT !.cancelled = TRUE]
      /\ UNCHANGED <<g, results, open, alive, watchers, release, gate, work, agent>>
      /\ UNCHANGED planVars
  BY DEF ConnInv, ConnPart, ConnTyped, AttemptTimesOut
<1>2. init' \in Attempt /\ init'.at = init.at /\ init'.ok = init.ok
  BY <1>1 DEF Attempt
<1>3. ConnTyped' /\ Attempted' /\ Closing'
  BY <1>1, <1>2 DEF ConnTyped, Attempted, Closing
<1>4. WorkPart'
  BY <1>1, WorkKeeps DEF WorkPart, WorkTyped
<1>5. UsedGrows
  BY <1>1, <1>2 DEF UsedGrows, Used
<1> QED BY <1>1, <1>3, <1>4, <1>5, ConnStep DEF ConnPart

LEMMA PublishHolds ==
  ASSUME ConnInv, Publish PROVE ConnInv'
<1>1. /\ WorkPart /\ ConnTyped /\ Attempted /\ Closing /\ init \in Attempt /\ g \in Connection
      /\ UNCHANGED <<results, watchers, release, gate, work, agent>> /\ UNCHANGED planVars
  BY DEF ConnInv, ConnPart, ConnTyped, Publish
<1>2. PICK answered \in BOOLEAN :
          LET ok == answered /\ ~init.cancelled /\ ~g.closed IN
          /\ init.at \in {"handshake", "failed"}
          /\ init' = [init EXCEPT !.at = "settle", !.ok = ok]
          /\ IF ok THEN /\ g' = [g EXCEPT !.conn = Opened, !.loaded = {}]
                        /\ UNCHANGED <<open, alive>>
                   ELSE /\ Shut(Opened)
                        /\ UNCHANGED g
  BY DEF Publish
<1> DEFINE ok == answered /\ ~init.cancelled /\ ~g.closed
<1>3. init.at \in {"handshake", "failed"} /\ init' = [init EXCEPT !.at = "settle", !.ok = ok]
  BY <1>2
<1>4. ok \in BOOLEAN
  OBVIOUS
<1> HIDE DEF ok
<1>5. init' \in Attempt /\ init'.at = "settle" /\ init'.ok = ok
  <2> DEFINE u == [init EXCEPT !.at = "settle"]
  <2>1. u \in Attempt /\ u.at = "settle"
    BY <1>1 DEF Attempt
  <2>2. init' = [u EXCEPT !.ok = ok]
    BY <1>3
  <2> HIDE DEF u
  <2>3. ASSUME NEW b \in BOOLEAN
        PROVE  LET w == [u EXCEPT !.ok = b] IN w \in Attempt /\ w.at = u.at /\ w.ok = b
    BY <2>1 DEF Attempt
  <2>4. LET w == [u EXCEPT !.ok = ok] IN w \in Attempt /\ w.at = u.at /\ w.ok = ok
    BY <1>4, <2>3
  <2> DEFINE w == [u EXCEPT !.ok = ok]
  <2>5. init' = w /\ w \in Attempt /\ w.at = u.at /\ w.ok = ok
    BY <2>2, <2>4
  <2> HIDE DEF w
  <2> QED BY <2>1, <2>5, Zenon
<1>6. /\ g.attempt \in Conns /\ g.attempt # 0 /\ g.conn = 0 /\ 0 \notin open
      /\ open \subseteq {g.attempt} /\ release["close"].at # "done"
  BY <1>1, <1>3, Bounds DEF Attempted, Connection, ConnTyped, Closing
<1>7. WorkPart'
  BY <1>1, WorkKeeps DEF WorkPart, WorkTyped
<1>8. CASE ok
  <2>1. g' = [[g EXCEPT !.conn = g.attempt] EXCEPT !.loaded = {}] /\ UNCHANGED <<open, alive>>
    BY <1>2, <1>8 DEF Opened, ok
  <2> DEFINE a == [g EXCEPT !.conn = g.attempt]
             b == [a EXCEPT !.loaded = {}]
  <2>2. /\ a \in Connection /\ a.conn = g.attempt /\ a.id = g.id /\ a.attempt = g.attempt
        /\ a.closed = g.closed
    BY <1>1, <1>6, ConnField
  <2>3. g' = b
    BY <2>1
  <2> HIDE DEF a
  <2>4. /\ b \in Connection /\ b.conn = a.conn /\ b.id = a.id /\ b.attempt = a.attempt
        /\ b.closed = a.closed /\ b.loaded = {}
    BY <2>2, LoadedField
  <2> HIDE DEF b
  <2>5. ConnTyped' /\ Attempted' /\ Closing'
    <3>1. init' \in Attempt /\ init'.at = "settle" /\ init'.ok
      BY <1>5, <1>8
    <3>2. g' \in Connection /\ g'.conn = g.attempt /\ g'.attempt = g.attempt /\ g'.closed = g.closed
      BY <2>2, <2>3, <2>4
    <3> QED BY <1>1, <1>6, <2>1, <3>1, <3>2 DEF ConnTyped, Attempted, Closing
  <2>6. UsedGrows
    BY <1>1, <1>5, <2>2, <2>3, <2>4 DEF UsedGrows, Used
  <2> QED BY <1>1, <1>7, <2>2, <2>3, <2>4, <2>5, <2>6, ConnStep DEF ConnPart
<1>9. CASE ~ok
  <2>1. open' = open \ {g.attempt} /\ alive' = alive \ {g.attempt} /\ UNCHANGED g
    BY <1>2, <1>9 DEF Shut, Opened, ok
  <2>2. ConnTyped' /\ Attempted' /\ Closing'
    <3>1. init' \in Attempt /\ init'.at = "settle" /\ ~init'.ok
      BY <1>5, <1>9
    <3> QED BY <1>1, <1>6, <2>1, <3>1 DEF ConnTyped, Attempted, Closing
  <2>3. UsedGrows
    BY <1>1, <1>5, <2>1 DEF UsedGrows, Used
  <2> QED BY <1>1, <1>7, <2>1, <2>2, <2>3, ConnStep DEF ConnPart
<1> QED BY <1>8, <1>9

LEMMA SettleHolds ==
  ASSUME ConnInv, Settle PROVE ConnInv'
<1>1. /\ WorkPart /\ ConnTyped /\ Attempted /\ Closing /\ g \in Connection /\ init \in Attempt
      /\ init.at = "settle" /\ init' = NoInit /\ g' = [g EXCEPT !.attempt = 0]
      /\ results' = [results EXCEPT ![g.attempt] = Outcome]
      /\ watchers' = IF init.ok THEN watchers \cup {g.attempt} ELSE watchers
      /\ UNCHANGED <<open, alive, release, gate, work, agent>> /\ UNCHANGED planVars
  BY DEF ConnInv, ConnPart, ConnTyped, Settle, Settled
<1>2. /\ g' \in Connection /\ g'.attempt = 0 /\ g'.conn = g.conn /\ g'.id = g.id
      /\ g'.closed = g.closed /\ g'.loaded = g.loaded
  BY <1>1, AttemptField
<1>3. g.attempt \in Conns /\ results[g.attempt] = "none" /\ g.attempt \notin watchers
  BY <1>1 DEF Attempted, Connection
<1>4. Outcome \in {"ok", "failed"} /\ (init.ok => Outcome = "ok")
  BY DEF Outcome
<1>5. /\ results' \in [Conns -> {"none", "ok", "failed"}]
      /\ \A c \in Conns : results'[c] = IF c = g.attempt THEN Outcome ELSE results[c]
  BY <1>1, <1>3, <1>4 DEF ConnTyped
<1>6. init' \in Attempt /\ init'.at = "none" /\ ~init'.ok
  BY <1>1 DEF NoInit, Attempt
<1>7. ConnTyped'
  BY <1>1, <1>2, <1>3, <1>5, <1>6 DEF ConnTyped
<1>8. Attempted'
  <2>1. \A c \in watchers' : results'[c] = "ok"
    BY <1>1, <1>3, <1>4, <1>5 DEF Attempted, ConnTyped
  <2>2. \A c \in open' : c = g'.conn /\ c \in watchers'
    BY <1>1, <1>2 DEF Attempted
  <2> QED BY <1>1, <1>2, <1>6, <2>1, <2>2 DEF Attempted
<1>9. Closing'
  BY <1>1, <1>2, <1>3, Bounds DEF Closing
<1>10. WorkPart'
  BY <1>1, WorkKeeps DEF WorkPart, WorkTyped
<1>11. UsedGrows
  BY <1>4, <1>5 DEF UsedGrows, Used
<1> QED BY <1>1, <1>2, <1>7, <1>8, <1>9, <1>10, <1>11, ConnStep DEF ConnPart

LEMMA DiesHolds ==
  ASSUME ConnInv, NEW c \in Conns, Dies(c) PROVE ConnInv'
<1>1. /\ WorkPart /\ ConnTyped /\ Attempted /\ Closing /\ alive' = alive \ {c}
      /\ UNCHANGED <<g, init, results, open, watchers, release, gate, work, agent>>
      /\ UNCHANGED planVars
  BY DEF ConnInv, ConnPart, Dies
<1>2. ConnTyped' /\ Attempted' /\ Closing'
  BY <1>1 DEF ConnTyped, Attempted, Closing
<1>3. WorkPart' /\ UsedGrows
  BY <1>1, WorkKeeps DEF WorkPart, WorkTyped, UsedGrows, Used
<1> QED BY <1>1, <1>2, <1>3, ConnStep DEF ConnPart

\* The connection is gone: with it go the permissions that wait on it.
LEMMA ForgottenHolds ==
  ASSUME PlanPart, plan' = Forgotten, UNCHANGED asks, calls' \subseteq calls, g'.id = 0,
         UsedGrows
  PROVE  PlanPart'
<1> DEFINE none == [s \in Sessions |-> 0]
           p == [plan EXCEPT !.pending = none]
<1>1. plan' = [p EXCEPT !.approvals = {}] /\ plan \in Plan /\ PlanTyped
  BY DEF Forgotten, PlanPart, PlanTyped
<1>2. p \in Plan /\ p.pending = none
  BY <1>1 DEF Plan
<1> HIDE DEF p
<1>3. plan' \in Plan /\ plan'.approvals = {}
  BY <1>1, <1>2 DEF Plan
<1>4. PlanTyped'
  BY <1>1, <1>3 DEF PlanTyped
<1>5. \A a \in Asks : asks[a] \in AskFull => asks[a].conn \in Conns
  BY DEF AskFull
<1>6. AskTrue'
  BY <1>5 DEF PlanPart, AskTrue, UsedGrows
<1>7. Approved'
  BY <1>3 DEF PlanPart, Approved
<1>8. \A a \in Asks : asks[a].at = "waiting" => asks[a] \in AskFull
  BY <1>1 DEF PlanTyped, AskShort
<1>9. WaitingIsAnswerable'
  BY <1>5, <1>8, Bounds DEF WaitingIsAnswerable
<1> QED BY <1>4, <1>6, <1>7, <1>9 DEF PlanPart

LEMMA WithoutFields ==
  ASSUME agent \in AgentState, NEW c, Without(c)
  PROVE  /\ agent' \in AgentState /\ calls' \subseteq calls
         /\ \A l \in agent.loaded : l[1] # c => l \in agent'.loaded
<1> DEFINE kept == {l \in agent.loaded : l[1] # c}
<1>1. agent' = [agent EXCEPT !.loaded = kept] /\ calls' \subseteq calls
  BY DEF Without
<1>2. kept \subseteq Conns \X Sessions
  BY DEF AgentState
<1> HIDE DEF kept
<1>3. agent' \in AgentState /\ agent'.loaded = kept
  BY <1>1, <1>2 DEF AgentState
<1> QED BY <1>1, <1>3 DEF kept

LEMMA WatchHolds ==
  ASSUME ConnInv, NEW c \in Conns, Watch(c) PROVE ConnInv'
<1>1. /\ ConnTyped /\ Attempted /\ Closing /\ g \in Connection /\ init.at \in {"none", "start"}
      /\ agent \in AgentState /\ WorkPart /\ PlanPart /\ LoadedIsTrue
      /\ c \in watchers \ alive /\ watchers' = watchers \ {c} /\ open' = open \ {c}
      /\ IF g.conn = c THEN g' = Gone /\ plan' = Forgotten ELSE UNCHANGED <<g, plan>>
      /\ UNCHANGED <<init, results, alive, release, gate, work, asks>> /\ Without(c)
  BY DEF ConnInv, ConnPart, ConnTyped, WorkPart, WorkTyped, Watch, ResourcesFree
<1>2. /\ g' \in Connection /\ g'.attempt = g.attempt /\ g'.closed = g.closed
      /\ IF g.conn = c THEN g'.conn = 0 /\ g'.id = 0 /\ g'.loaded = {} ELSE g' = g
  BY <1>1, GoneFields
<1>3. ConnTyped'
  BY <1>1, <1>2 DEF ConnTyped
<1>4. Attempted'
  BY <1>1, <1>2 DEF Attempted
<1>5. Closing'
  BY <1>1, <1>2 DEF Closing
<1>6. /\ agent' \in AgentState /\ calls' \subseteq calls
      /\ \A l \in agent.loaded : l[1] # c => l \in agent'.loaded
  BY <1>1, WithoutFields
<1>7. WorkPart'
  BY <1>1, <1>6, WorkKeeps
<1>8. LoadedIsTrue'
  BY <1>1, <1>2, <1>6 DEF LoadedIsTrue
<1>9. UsedGrows
  BY <1>1, <1>2 DEF UsedGrows, Used
<1>10. PlanPart'
  <2>1. CASE g.conn = c
    BY <1>1, <1>2, <1>6, <1>9, <2>1, ForgottenHolds
  <2>2. CASE g.conn # c
    BY <1>1, <1>2, <1>6, <1>9, <2>2, PlanKeeps DEF UsedGrows
  <2> QED BY <2>1, <2>2
<1> QED BY <1>3, <1>4, <1>5, <1>7, <1>8, <1>10 DEF ConnInv, ConnPart

-----------------------------------------------------------------------------
(* Release, Close and the idle gate.                                       *)

LEMMA ReleaseBeginsHolds ==
  ASSUME ConnInv, NEW r \in Releaser, ReleaseBegins(r) PROVE ConnInv'
<1> DEFINE cancelled == init.cancelled \/ g.attempt # 0
           e == [at |-> "await", attempt |-> g.attempt]
<1>1. /\ WorkPart /\ ConnTyped /\ Attempted /\ Closing /\ init \in Attempt /\ g \in Connection
      /\ release \in [Releaser -> Release] /\ release[r].at = "begin"
      /\ release' = [release EXCEPT ![r] = e]
      /\ init' = [init EXCEPT !.cancelled = cancelled]
      /\ UNCHANGED <<g, results, open, alive, watchers, gate, work, agent>>
      /\ UNCHANGED planVars
  BY DEF ConnInv, ConnPart, ConnTyped, ReleaseBegins
<1>2. cancelled \in BOOLEAN
  BY <1>1 DEF Attempt
<1>3. init' \in Attempt /\ init'.at = init.at /\ init'.ok = init.ok
  <2> HIDE DEF cancelled
  <2> QED BY <1>1, <1>2 DEF Attempt
<1>4. e \in Release /\ e.at = "await" /\ e.attempt = g.attempt
  BY <1>1 DEF Release, Connection
<1> HIDE DEF e
<1>5. /\ release' \in [Releaser -> Release]
      /\ \A t \in Releaser : release'[t] = IF t = r THEN e ELSE release[t]
  BY <1>1, <1>4
<1>6. ConnTyped' /\ Attempted'
  BY <1>1, <1>3, <1>5 DEF ConnTyped, Attempted
<1>7. Closing'
  BY <1>1, <1>4, <1>5 DEF Closing, Releaser
<1>8. WorkPart'
  BY <1>1, WorkKeeps DEF WorkPart, WorkTyped
<1>9. UsedGrows
  BY <1>1, <1>3 DEF UsedGrows, Used
<1> QED BY <1>1, <1>6, <1>7, <1>8, <1>9, ConnStep DEF ConnPart

LEMMA CloseHolds ==
  ASSUME ConnInv, Close PROVE ConnInv'
<1>1. /\ WorkPart /\ ConnTyped /\ Attempted /\ Closing /\ g \in Connection /\ ~g.closed
      /\ release \in [Releaser -> Release] /\ "close" \in Releaser
      /\ g' = [g EXCEPT !.closed = TRUE] /\ release' = [release EXCEPT !["close"].at = "begin"]
      /\ UNCHANGED <<init, results, open, alive, watchers, gate, work, agent>>
      /\ UNCHANGED planVars
  BY DEF ConnInv, ConnPart, ConnTyped, Close, Releaser
<1>2. /\ g' \in Connection /\ g'.closed = TRUE /\ g'.conn = g.conn /\ g'.id = g.id
      /\ g'.attempt = g.attempt /\ g'.loaded = g.loaded
  BY <1>1, ClosedField
<1>3. release' \in [Releaser -> Release] /\ release'["close"].at = "begin"
  BY <1>1 DEF Release
<1>4. ConnTyped' /\ Attempted'
  BY <1>1, <1>2, <1>3 DEF ConnTyped, Attempted
<1>5. Closing'
  BY <1>2, <1>3 DEF Closing
<1>6. WorkPart'
  BY <1>1, WorkKeeps DEF WorkPart, WorkTyped
<1>7. UsedGrows
  BY <1>1, <1>2 DEF UsedGrows, Used
<1> QED BY <1>1, <1>2, <1>4, <1>5, <1>6, <1>7, ConnStep DEF ConnPart

LEMMA TickHolds ==
  ASSUME ConnInv, Tick PROVE ConnInv'
<1>1. /\ WorkPart /\ ConnTyped /\ Attempted /\ Closing /\ gate \in Gate /\ ~Occupied
      /\ release \in [Releaser -> Release] /\ "idle" \in Releaser
      /\ gate' = [gate EXCEPT !.idling = TRUE] /\ release' = [release EXCEPT !["idle"].at = "begin"]
      /\ UNCHANGED <<work, agent>> /\ UNCHANGED conVars /\ UNCHANGED planVars
  BY DEF ConnInv, ConnPart, ConnTyped, WorkPart, WorkTyped, Tick, Releaser
<1>2. UNCHANGED <<g, init, results, open, alive, watchers>>
  BY <1>1 DEF conVars
<1>3. release' \in [Releaser -> Release] /\ release'["close"] = release["close"]
  BY <1>1 DEF Release, Releaser
<1>4. ConnTyped' /\ Attempted' /\ Closing'
  BY <1>1, <1>2, <1>3 DEF ConnTyped, Attempted, Closing
<1>5. gate' \in Gate
  BY <1>1 DEF Gate
<1>6. WorkPart'
  BY <1>1, <1>5 DEF WorkPart, WorkTyped, IdleReleaseIsHarmless, Occupied
<1>7. UsedGrows
  BY <1>2 DEF UsedGrows, Used
<1> QED BY <1>1, <1>2, <1>4, <1>6, <1>7, ConnStep DEF ConnPart

LEMMA ReleaseTakesHolds ==
  ASSUME ConnInv, NEW r \in Releaser, ReleaseTakes(r) PROVE ConnInv'
<1> DEFINE e == [at |-> IF r = "close" THEN "done" ELSE "none", attempt |-> 0]
<1>1. /\ ConnTyped /\ Attempted /\ Closing /\ g \in Connection /\ init.at \in {"none", "start"}
      /\ agent \in AgentState /\ gate \in Gate /\ WorkPart /\ PlanPart /\ LoadedIsTrue
      /\ release \in [Releaser -> Release]
      /\ release[r].at = "await" /\ release[r].attempt \notin {c \in Conns : results[c] = "none"}
      /\ g' = Gone /\ plan' = Forgotten /\ open' = open \ {g.conn} /\ alive' = alive \ {g.conn}
      /\ release' = [release EXCEPT ![r] = e]
      /\ gate' = IF r = "idle" THEN [gate EXCEPT !.idling = FALSE] ELSE gate
      /\ UNCHANGED <<init, results, watchers, work, asks>> /\ Without(g.conn)
  BY DEF ConnInv, ConnPart, ConnTyped, WorkPart, WorkTyped, ReleaseTakes, ResourcesFree,
         Awaited, Shut
<1>2. /\ g' \in Connection /\ g'.attempt = g.attempt /\ g'.closed = g.closed
      /\ g'.conn = 0 /\ g'.id = 0 /\ g'.loaded = {}
  BY <1>1, GoneFields
<1>3. e \in Release /\ e.at = (IF r = "close" THEN "done" ELSE "none")
  BY DEF Release
<1> HIDE DEF e
<1>4. /\ release' \in [Releaser -> Release]
      /\ \A t \in Releaser : release'[t] = IF t = r THEN e ELSE release[t]
  BY <1>1, <1>3
<1>5. ConnTyped'
  BY <1>1, <1>2, <1>4 DEF ConnTyped
<1>6. open' = {}
  BY <1>1 DEF Attempted
<1>7. Attempted'
  BY <1>1, <1>2, <1>6 DEF Attempted
<1>8. Closing'
  <2>1. CASE r = "close"
    <3>1. g.attempt \in {0, release["close"].attempt}
      BY <1>1, <2>1 DEF Closing
    <3>2. g.attempt \in Conns \cup {0} /\ (g.attempt # 0 => results[g.attempt] = "none")
      BY <1>1 DEF Attempted, Connection
    <3>3. g.attempt = 0
      BY <1>1, <2>1, <3>1, <3>2
    <3> QED BY <1>1, <1>2, <1>3, <1>4, <1>6, <2>1, <3>3 DEF Closing, Releaser
  <2>2. CASE r # "close"
    <3>1. release'["close"] = release["close"]
      BY <1>4, <2>2 DEF Releaser
    <3> QED BY <1>1, <1>2, <1>6, <3>1 DEF Closing
  <2> QED BY <2>1, <2>2
<1>9. agent' \in AgentState /\ calls' \subseteq calls
  BY <1>1, WithoutFields
<1>10. gate' \in Gate /\ (gate'.idling => gate.idling)
  BY <1>1 DEF Gate
<1>11. WorkPart'
  BY <1>1, <1>9, <1>10 DEF WorkPart, WorkTyped, IdleReleaseIsHarmless
<1>12. LoadedIsTrue'
  BY <1>2 DEF LoadedIsTrue
<1>13. UsedGrows
  BY <1>1, <1>2 DEF UsedGrows, Used
<1>14. PlanPart'
  BY <1>1, <1>2, <1>9, <1>13, ForgottenHolds
<1> QED BY <1>5, <1>7, <1>8, <1>11, <1>12, <1>14 DEF ConnInv, ConnPart

-----------------------------------------------------------------------------
(* Plan permissions.                                                       *)

LEMMA PlanStep ==
  ASSUME ConnInv, UNCHANGED conVars, UNCHANGED <<release, work, agent>>,
         gate' \in Gate, gate'.idling = gate.idling, PlanPart'
  PROVE  ConnInv'
<1>1. SameConnection /\ UNCHANGED g
  BY DEF SameConnection, conVars, ConnInv, ConnPart, ConnTyped
<1>2. ConnPart'
  BY <1>1, ConnKeeps DEF ConnInv
<1>3. WorkPart'
  BY DEF ConnInv, WorkPart, WorkTyped, IdleReleaseIsHarmless
<1>4. LoadedIsTrue'
  BY <1>1 DEF ConnInv, LoadedIsTrue
<1> QED BY <1>2, <1>3, <1>4 DEF ConnInv

LEMMA AskKinds ==
  ASSUME PlanPart, NEW a \in Asks
  PROVE  /\ asks[a].at \in {"bound", "waiting"} <=> asks[a] \in AskFull
         /\ asks[a] \in AskShort \cup AskFull
         /\ asks[a] \in AskFull => /\ asks[a].session \in Sessions
                                   /\ Used(asks[a].conn) /\ Faithful(asks[a])
  BY DEF PlanPart, PlanTyped, AskTrue, AskShort, AskFull

\* One permission moves; the others keep what they are answered through.
LEMMA OneAskMoves ==
  ASSUME PlanPart, NEW a \in Asks, NEW q \in AskShort \cup AskFull,
         asks' = [asks EXCEPT ![a] = q], plan' \in Plan, calls' \subseteq calls,
         UNCHANGED conVars, plan'.approvals \subseteq plan.approvals \cup {a},
         q \in AskFull => Used(q.conn) /\ Faithful(q),
         \A b \in Asks \ {a} :
             asks[b] \in AskFull /\ plan.pending[asks[b].session] = b =>
                 /\ plan'.pending[asks[b].session] = b
                 /\ b \in plan.approvals => b \in plan'.approvals,
         a \in plan'.approvals =>
             q \in AskFull /\ q.at = "waiting" /\ plan'.pending[q.session] = a,
         q.at = "waiting" /\ ~q.chosen /\ q.conn = g.id =>
             a \in plan'.approvals /\ plan'.pending[q.session] = a
  PROVE  PlanPart'
<1>1. UNCHANGED <<g, init, results>>
  BY DEF conVars
<1>2. \A b \in Asks : asks'[b] = IF b = a THEN q ELSE asks[b]
  BY DEF PlanPart, PlanTyped
<1>3. PlanTyped'
  BY DEF PlanPart, PlanTyped
<1>4. AskTrue'
  BY <1>1, <1>2 DEF PlanPart, AskTrue, Used
<1>5. Approved'
  <2> SUFFICES ASSUME NEW b \in plan'.approvals
               PROVE  /\ asks'[b] \in AskFull /\ asks'[b].at = "waiting"
                      /\ plan'.pending[asks'[b].session] = b
    BY DEF Approved
  <2>1. b \in Asks
    BY <1>3 DEF PlanTyped, Plan
  <2>2. CASE b = a
    BY <1>2, <2>1, <2>2
  <2>3. CASE b # a
    <3>1. asks[b] \in AskFull /\ asks[b].at = "waiting" /\ plan.pending[asks[b].session] = b
      BY <2>3 DEF PlanPart, Approved
    <3> QED BY <1>2, <2>1, <2>3, <3>1
  <2> QED BY <2>2, <2>3
<1>6. WaitingIsAnswerable'
  <2> SUFFICES ASSUME NEW b \in Asks, asks'[b].at = "waiting", ~asks'[b].chosen,
                      asks'[b].conn = g.id
               PROVE  b \in plan'.approvals /\ plan'.pending[asks'[b].session] = b
    BY <1>1 DEF WaitingIsAnswerable
  <2>1. CASE b = a
    BY <1>2, <2>1
  <2>2. CASE b # a
    <3>1. asks'[b] = asks[b] /\ asks[b] \in AskFull
      BY <1>2, <2>2, AskKinds
    <3>2. b \in plan.approvals /\ plan.pending[asks[b].session] = b
      BY <3>1 DEF PlanPart, WaitingIsAnswerable
    <3> QED BY <2>2, <3>1, <3>2
  <2> QED BY <2>1, <2>2
<1> QED BY <1>3, <1>4, <1>5, <1>6 DEF PlanPart

\* The pending permission of a session and the approvals change together.
PlanWith(s, x, A) == [plan EXCEPT !.pending[s] = x, !.approvals = A]
LEMMA PlanFields ==
  ASSUME plan \in Plan, NEW s \in Sessions, NEW x \in Asks \cup {0}, NEW A \in SUBSET Asks,
         plan' = PlanWith(s, x, A)
  PROVE  /\ plan' \in Plan /\ plan'.approvals = A
         /\ \A t \in Sessions : plan'.pending[t] = IF t = s THEN x ELSE plan.pending[t]
<1> DEFINE pend == [plan.pending EXCEPT ![s] = x]
           p == [plan EXCEPT !.pending = pend]
<1>1. pend \in [Sessions -> Asks \cup {0}] /\ \A t \in Sessions : pend[t] = IF t = s THEN x ELSE plan.pending[t]
  BY DEF Plan
<1>2. plan' = [p EXCEPT !.approvals = A]
  BY DEF PlanWith
<1> HIDE DEF pend
<1>3. p \in Plan /\ p.pending = pend
  BY <1>1 DEF Plan
<1> HIDE DEF p
<1>4. plan' \in Plan /\ plan'.approvals = A /\ plan'.pending = pend
  BY <1>2, <1>3 DEF Plan
<1> QED BY <1>1, <1>4

\* Tool calls come and go; no permission is touched.
LEMMA CallsChange ==
  ASSUME ConnInv, calls' \subseteq KnownCall,
         UNCHANGED <<release, gate, work, agent, plan, asks>>, UNCHANGED conVars
  PROVE  ConnInv'
<1>1. PlanPart /\ UNCHANGED <<g, init, results>>
  BY DEF ConnInv, conVars
<1>2. PlanTyped' /\ AskTrue' /\ Approved' /\ WaitingIsAnswerable'
  BY <1>1 DEF PlanPart, PlanTyped, AskTrue, Used, Approved, WaitingIsAnswerable
<1> QED BY <1>2, PlanStep DEF PlanPart, ConnInv, WorkPart, WorkTyped

LEMMA CallFields ==
  ASSUME PlanPart, NEW c \in Conns, NEW s \in Sessions PROVE Call(c, s) \in KnownCall
  BY DEF PlanPart, PlanTyped, Plan, Call, KnownCall

LEMMA AnnounceHolds ==
  ASSUME ConnInv, NEW c \in Conns, NEW s \in Sessions, Announce(c, s) PROVE ConnInv'
<1>1. calls' = calls \cup {Call(c, s)} /\ Call(c, s) \in KnownCall /\ calls \subseteq KnownCall
  BY CallFields DEF Announce, ConnInv, PlanPart, PlanTyped
<1> QED BY <1>1, CallsChange DEF Announce

LEMMA CallEndsHolds ==
  ASSUME ConnInv, NEW k \in calls, CallEnds(k) PROVE ConnInv'
<1>1. calls' \subseteq KnownCall
  BY DEF CallEnds, ConnInv, PlanPart, PlanTyped
<1> QED BY <1>1, CallsChange DEF CallEnds

LEMMA PermissionHolds ==
  ASSUME ConnInv, NEW a \in Asks, NEW c \in Conns, NEW s \in Sessions, Permission(a, c, s)
  PROVE  ConnInv'
<1>1. /\ PlanPart /\ PlanTyped /\ asks[a].at = "none" /\ c \in alive
      /\ UNCHANGED <<release, gate, work, agent, plan, calls>> /\ UNCHANGED conVars
  BY DEF ConnInv, PlanPart, Permission
<1>2. PICK k \in KnownCall :
          asks' = [asks EXCEPT ![a] =
              [at |-> "bound", chosen |-> FALSE, conn |-> c, session |-> s,
               turn |-> Origin(k), came |-> k.turn, shown |-> 0]]
  BY <1>1, CallFields DEF Permission, PlanTyped
<1> DEFINE q == [at |-> "bound", chosen |-> FALSE, conn |-> c, session |-> s,
                 turn |-> Origin(k), came |-> k.turn, shown |-> 0]
<1>3. asks' = [asks EXCEPT ![a] = q]
  BY <1>2
<1>4. Used(c)
  BY <1>1 DEF ConnInv, ConnPart, Attempted, Used
<1>5. q \in AskFull /\ q.at = "bound" /\ q.conn = c /\ Faithful(q)
  BY DEF AskFull, KnownCall, Origin, Faithful
<1> HIDE DEF q
<1>6. a \notin plan.approvals /\ plan \in Plan
  BY <1>1 DEF PlanPart, Approved, PlanTyped
<1>7. PlanPart'
  BY <1>1, <1>3, <1>4, <1>5, <1>6, OneAskMoves
<1> QED BY <1>1, <1>7, PlanStep DEF ConnInv, WorkPart, WorkTyped

LEMMA OverFields == Over \in AskShort /\ Over \notin AskFull /\ Over.at = "over"
  BY DEF Over, AskShort, AskFull

LEMMA AskPlanHolds ==
  ASSUME ConnInv, NEW a \in Asks, AskPlan(a) PROVE ConnInv'
<1>1. /\ PlanPart /\ PlanTyped /\ plan \in Plan /\ gate \in Gate /\ asks[a].at = "bound"
      /\ UNCHANGED <<release, work, agent>> /\ UNCHANGED conVars
  BY DEF ConnInv, PlanPart, PlanTyped, WorkPart, WorkTyped, AskPlan
<1> DEFINE s == asks[a].session
<1>2. /\ asks[a] \in AskFull /\ s \in Sessions /\ Used(asks[a].conn)
      /\ Faithful(asks[a])
  BY <1>1, AskKinds
<1>3. CASE Accepted(a)
  <2> DEFINE A == plan.approvals \cup {a}
             q == [asks[a] EXCEPT !.at = "waiting", !.shown = plan.turn[s]]
             r == gate.ready \cup (IF work[s].at = "prompting" THEN {s} ELSE {})
  <2>1. /\ plan.pending[s] = 0 /\ plan' = PlanWith(s, a, A)
        /\ asks' = [asks EXCEPT ![a] = q] /\ calls' = calls
        /\ gate' = [gate EXCEPT !.ready = r]
    BY <1>1, <1>3 DEF AskPlan, Accepted, PlanTyped, PlanWith
  <2>2. A \in SUBSET Asks
    BY <1>1 DEF Plan
  <2>3. /\ q \in AskFull /\ q.at = "waiting" /\ q.session = s /\ q.conn = asks[a].conn
        /\ Faithful(q)
    <3>1. /\ plan.turn[s] \in Turns \cup {0}
          /\ asks[a].turn \in {0, plan.turn[s]} /\ asks[a].turn = asks[a].came
      BY <1>1, <1>2, <1>3 DEF Accepted, Plan, Faithful
    <3> QED BY <1>2, <3>1 DEF AskFull, Faithful
  <2>4. r \subseteq Sessions
    BY <1>1, <1>2 DEF Gate
  <2> HIDE DEF q, r
  <2>5. gate' \in Gate /\ gate'.idling = gate.idling
    BY <1>1, <2>1, <2>4 DEF Gate
  <2>6. /\ plan' \in Plan /\ plan'.approvals = A
        /\ \A t \in Sessions : plan'.pending[t] = IF t = s THEN a ELSE plan.pending[t]
    <3> HIDE DEF A, s
    <3> QED BY <1>1, <1>2, <2>1, <2>2, PlanFields
  <2>7. \A b \in Asks \ {a} : asks[b] \in AskFull /\ plan.pending[asks[b].session] = b =>
            /\ plan'.pending[asks[b].session] = b
            /\ b \in plan.approvals => b \in plan'.approvals
    <3> SUFFICES ASSUME NEW b \in Asks \ {a}, asks[b] \in AskFull,
                        plan.pending[asks[b].session] = b
                 PROVE  /\ plan'.pending[asks[b].session] = b
                        /\ b \in plan.approvals => b \in plan'.approvals
      OBVIOUS
    <3>1. b # 0 /\ asks[b].session \in Sessions
      BY <1>1, AskKinds, Bounds
    <3>2. asks[b].session # s
      BY <2>1, <3>1
    <3> QED BY <2>6, <3>1, <3>2
  <2>8. Used(q.conn) /\ Faithful(q)
    BY <1>2, <2>3
  <2>9. a \in plan'.approvals /\ plan'.pending[q.session] = a
    BY <1>2, <2>3, <2>6
  <2>10. calls' \subseteq calls /\ plan'.approvals \subseteq plan.approvals \cup {a}
    BY <2>1, <2>6
  <2>11. PlanPart'
    <3> HIDE DEF A, s
    <3> QED BY <1>1, <2>1, <2>3, <2>6, <2>7, <2>8, <2>9, <2>10, OneAskMoves
  <2> QED BY <1>1, <2>5, <2>11, PlanStep
<1>4. CASE ~Accepted(a)
  <2>1. asks' = [asks EXCEPT ![a] = Over] /\ Forgets(a) /\ UNCHANGED <<plan, gate>>
    BY <1>4 DEF AskPlan
  <2>2. calls' \subseteq calls /\ a \notin plan.approvals
    BY <1>1, <2>1 DEF Forgets, PlanPart, Approved
  <2>3. PlanPart'
    BY <1>1, <2>1, <2>2, OverFields, OneAskMoves
  <2> QED BY <1>1, <2>1, <2>3, PlanStep
<1> QED BY <1>3, <1>4

LEMMA AskReturnsHolds ==
  ASSUME ConnInv, NEW a \in Asks, AskReturns(a) PROVE ConnInv'
<1> DEFINE s == asks[a].session
<1>1. /\ PlanPart /\ PlanTyped /\ plan \in Plan /\ gate \in Gate /\ asks[a].at = "waiting"
      /\ plan' = Cleared(s, a) /\ asks' = [asks EXCEPT ![a] = Over] /\ Forgets(a)
      /\ UNCHANGED <<release, gate, work, agent>> /\ UNCHANGED conVars
  BY DEF ConnInv, PlanPart, PlanTyped, WorkPart, WorkTyped, AskReturns
<1>2. asks[a] \in AskFull /\ s \in Sessions /\ calls' \subseteq calls
  BY <1>1, AskKinds DEF Forgets
<1>3. CASE plan.pending[s] = a
  <2> DEFINE A == plan.approvals \ Of(s)
  <2>1. plan' = PlanWith(s, 0, A)
    BY <1>1, <1>3 DEF Cleared, PlanWith
  <2>2. A \in SUBSET Asks
    BY <1>1 DEF Plan
  <2>3. /\ plan' \in Plan /\ plan'.approvals = A
        /\ \A t \in Sessions : plan'.pending[t] = IF t = s THEN 0 ELSE plan.pending[t]
    <3> HIDE DEF A, s
    <3> QED BY <1>1, <1>2, <2>1, <2>2, PlanFields
  <2>4. a \notin A
    BY DEF Of
  <2>5. \A b \in Asks \ {a} : asks[b] \in AskFull /\ plan.pending[asks[b].session] = b =>
            /\ plan'.pending[asks[b].session] = b
            /\ b \in plan.approvals => b \in plan'.approvals
    BY <1>1, <1>3, <2>3, AskKinds DEF Of
  <2>6. PlanPart'
    BY <1>1, <1>2, <2>3, <2>4, <2>5, OverFields, OneAskMoves
  <2> QED BY <1>1, <2>6, PlanStep
<1>4. CASE plan.pending[s] # a
  <2>1. plan' = plan /\ a \notin plan.approvals
    BY <1>1, <1>4 DEF Cleared, PlanPart, Approved
  <2>2. PlanPart'
    BY <1>1, <1>2, <2>1, OverFields, OneAskMoves
  <2> QED BY <1>1, <2>2, PlanStep
<1> QED BY <1>3, <1>4

LEMMA ResolveApprovalHolds ==
  ASSUME ConnInv, NEW a \in Asks, ResolveApproval(a) PROVE ConnInv'
<1> DEFINE s == asks[a].session
           A == plan.approvals \ {a}
           q == [asks[a] EXCEPT !.chosen = TRUE]
           r == gate.ready \ {s}
<1>1. /\ PlanPart /\ PlanTyped /\ plan \in Plan /\ gate \in Gate /\ a \in plan.approvals
      /\ asks' = [asks EXCEPT ![plan.pending[s]].chosen = TRUE]
      /\ plan' = PlanWith(s, 0, A)
      /\ gate' = [gate EXCEPT !.ready = r]
      /\ UNCHANGED <<release, work, agent, calls>> /\ UNCHANGED conVars
  BY DEF ConnInv, PlanPart, PlanTyped, WorkPart, WorkTyped, ResolveApproval, PlanWith
<1>2. asks[a] \in AskFull /\ plan.pending[s] = a
  BY <1>1 DEF PlanPart, Approved
<1>3. /\ s \in Sessions /\ Used(asks[a].conn) /\ Faithful(asks[a])
  BY <1>1, <1>2, AskKinds
<1>4. asks' = [asks EXCEPT ![a] = q]
  BY <1>1, <1>2 DEF PlanTyped
<1>5. /\ q \in AskFull /\ q.chosen /\ q.conn = asks[a].conn
      /\ Faithful(q)
  BY <1>2, <1>3 DEF AskFull, Faithful
<1>6. r \subseteq Sessions /\ A \in SUBSET Asks
  BY <1>1 DEF Gate, Plan
<1> HIDE DEF q, r
<1>7. gate' \in Gate /\ gate'.idling = gate.idling
  BY <1>1, <1>6 DEF Gate
<1>8. /\ plan' \in Plan /\ plan'.approvals = A
      /\ \A t \in Sessions : plan'.pending[t] = IF t = s THEN 0 ELSE plan.pending[t]
  <2> HIDE DEF A, s
  <2> QED BY <1>1, <1>3, <1>6, PlanFields
<1>9. \A b \in Asks \ {a} : asks[b] \in AskFull /\ plan.pending[asks[b].session] = b =>
          /\ plan'.pending[asks[b].session] = b
          /\ b \in plan.approvals => b \in plan'.approvals
  BY <1>1, <1>2, <1>8, AskKinds
<1>10. PlanPart'
  BY <1>1, <1>3, <1>4, <1>5, <1>8, <1>9, OneAskMoves
<1> QED BY <1>1, <1>7, <1>10, PlanStep

-----------------------------------------------------------------------------
(* The theorems.                                                           *)

LEMMA StepHolds == ConnInv /\ [Next]_vars => ConnInv'
<1> SUFFICES ASSUME ConnInv, [Next]_vars PROVE ConnInv'
  OBVIOUS
<1>1. CASE UNCHANGED vars
  <2>1. /\ UNCHANGED conVars /\ UNCHANGED <<release, work, agent, gate, plan, calls, asks>>
        /\ UNCHANGED <<init, results, g>>
    BY <1>1 DEF vars, conVars
  <2>2. gate' \in Gate /\ gate'.idling = gate.idling
    BY <2>1 DEF ConnInv, WorkPart, WorkTyped
  <2>3. PlanPart'
    BY <2>1, PlanKeeps DEF ConnInv, Used
  <2> QED BY <2>1, <2>2, <2>3, PlanStep
<1>2. ASSUME NEW s \in Sessions,
             \/ Ensure(s) \/ Connected(s) \/ Prompt(s) \/ Ensured(s) \/ Ends(s)
             \/ Begin(s) \/ Invalidate(s) \/ NewReturns(s) \/ LoadReturns(s)
      PROVE  ConnInv'
  BY <1>2, EnsureHolds, ConnectedHolds, PromptHolds, EnsuredHolds, EndsHolds, BeginHolds,
     InvalidateHolds, NewReturnsHolds, LoadReturnsHolds
<1>3. ASSUME NEW a \in Asks, AskPlan(a) \/ AskReturns(a) \/ ResolveApproval(a)
      PROVE  ConnInv'
  BY <1>3, AskPlanHolds, AskReturnsHolds, ResolveApprovalHolds
<1>4. ASSUME NEW c \in Conns, Watch(c) \/ Dies(c) PROVE ConnInv'
  BY <1>4, WatchHolds, DiesHolds
<1>5. ASSUME NEW r \in {"idle", "close"}, ReleaseBegins(r) \/ ReleaseTakes(r) PROVE ConnInv'
  BY <1>5, ReleaseBeginsHolds, ReleaseTakesHolds DEF Releaser
<1>6. ASSUME NEW c \in Conns, NEW s \in Sessions,
             Announce(c, s) \/ \E a \in Asks : Permission(a, c, s)
      PROVE  ConnInv'
  BY <1>6, AnnounceHolds, PermissionHolds
<1>9. ASSUME NEW k \in calls, CallEnds(k) PROVE ConnInv'
  BY <1>9, CallEndsHolds
<1>7. CASE System
  BY <1>2, <1>3, <1>4, <1>5, <1>7, InitStartsHolds, PublishHolds, SettleHolds DEF System
<1>8. CASE Environment
  BY <1>2, <1>3, <1>4, <1>6, <1>8, <1>9, CloseHolds, TickHolds, AttemptTimesOutHolds DEF Environment
<1> QED BY <1>1, <1>7, <1>8 DEF Next

\* However attempts, watchers, releases, loads and permissions interleave, each part of
\* the connection's state keeps its sense (agent/lifecycle.go, grok.go, client.go).
THEOREM ConnInvHolds == Spec => []ConnInv
<1>1. Init => ConnInv
  BY InitHolds
<1>2. ConnInv /\ [Next]_vars => ConnInv'
  BY StepHolds
<1> QED BY <1>1, <1>2, PTL DEF Spec

LEMMA TypesFollow == ConnInv => TypeOK
<1> SUFFICES ASSUME ConnInv PROVE TypeOK
  OBVIOUS
<1>1. ConnTyped /\ Attempted /\ WorkTyped /\ PlanTyped
  BY DEF ConnInv, ConnPart, WorkPart, PlanPart
<1>2. /\ g \in [closed : BOOLEAN, conn : Conns \cup {0}, id : Conns \cup {0},
                attempt : Conns \cup {0}, loaded : SUBSET Sessions]
      /\ init \in [at : {"none", "start", "handshake", "failed", "settle"}, ok : BOOLEAN,
                   cancelled : BOOLEAN]
      /\ results \in [Conns -> {"none", "ok", "failed"}]
  BY <1>1 DEF ConnTyped, Connection, Attempt
<1>3. init.at = "none" <=> g.attempt = 0
  BY <1>1 DEF Attempted
<1>4. {open, alive, watchers} \subseteq SUBSET Conns
  BY <1>1 DEF ConnTyped
<1>5. \A r \in {"idle", "close"} : release[r].at \in {"none", "begin", "await", "done"}
  BY <1>1 DEF ConnTyped, Releaser, Release
<1>6. gate \in [idling : BOOLEAN, ready : SUBSET Sessions, turns : Turns \cup {0}]
  BY <1>1 DEF WorkTyped, Gate
<1>7. work \in [Sessions -> [at : WorkAt, op : BOOLEAN, conn : Conns \cup {0},
                             turn : Turns \cup {0}]]
  BY <1>1 DEF WorkTyped, Work
<1>8. agent.exists \subseteq Sessions /\ agent.loaded \subseteq Conns \X Sessions
  BY <1>1 DEF WorkTyped, AgentState
<1>9. plan.pending \in [Sessions -> Asks \cup {0}] /\ plan.approvals \subseteq Asks
  BY <1>1 DEF PlanTyped, Plan
<1>10. \A a \in Asks : asks[a].at \in {"none", "bound", "waiting", "over"}
  BY <1>1 DEF PlanTyped, AskShort, AskFull
<1> QED BY <1>2, <1>3, <1>4, <1>5, <1>6, <1>7, <1>8, <1>9, <1>10 DEF TypeOK

\* The types of everything the connection, the idle gate and the permissions keep.
THEOREM ConnTypes == Spec => []TypeOK
  BY ConnInvHolds, TypesFollow, PTL

\* A session that counts as loaded is loaded on the present connection: a load that ends
\* after its connection was replaced marks nothing (markLoaded, grok.go:208).
THEOREM LoadedSessionsAreLoaded == Spec => []LoadedIsTrue
<1>1. ConnInv => LoadedIsTrue
  BY DEF ConnInv
<1> QED BY <1>1, ConnInvHolds, PTL

\* What connect has opened is published and watched, or closed again, for any number of
\* attempts, deaths and releases; Close leaves nothing open (lifecycle.go).
THEOREM ConnectionsDoNotLeak == Spec => []NothingLeaks
<1>1. ConnInv => NothingLeaks
  BY DEF ConnInv, ConnPart, Attempted, Closing, NothingLeaks
<1> QED BY <1>1, ConnInvHolds, PTL

\* While the idle gate releases the connection no session has an operation or a turn
\* (supervisor/idle.go).
THEOREM IdleReleasesNothingInUse == Spec => []IdleReleaseIsHarmless
<1>1. ConnInv => IdleReleaseIsHarmless
  BY DEF ConnInv, WorkPart
<1> QED BY <1>1, ConnInvHolds, PTL

\* A permission that waits is the pending one of its session, whatever permissions came
\* before or were refused beside it (clearPending, grok.go).
THEOREM WaitingPermissionsAreAnswerable == Spec => []WaitingIsAnswerable
<1>1. ConnInv => WaitingIsAnswerable
  BY DEF ConnInv, PlanPart
<1> QED BY <1>1, ConnInvHolds, PTL

\* A permission bound to a turn is accepted only while that turn is the session's present
\* one, and the request the user sees names it: for any number of calls, permissions and
\* turns, the turn a call came in is the turn it is shown with (grok.go:323, :339).
THEOREM OldCallsKeepTheirTurn == Spec => []OldCallKeepsItsTurn
<1>1. ASSUME ConnInv PROVE OldCallKeepsItsTurn
  <2>1. AskTrue /\ Approved /\ plan.approvals \subseteq Asks
    BY <1>1 DEF ConnInv, PlanPart, PlanTyped, Plan
  <2> QED BY <2>1 DEF AskTrue, Faithful, Approved, OldCallKeepsItsTurn
<1> QED BY <1>1, ConnInvHolds, PTL

-----------------------------------------------------------------------------
(* Everyone returns.                                                       *)

\* Who waits for an attempt waits for the one under way, or for one that has its
\* result; the connection there is has a watcher, once its attempt is settled.
Comes(c) == results[c] # "none" \/ c = g.attempt
StillComes(c) == results'[c] # "none" \/ c = g'.attempt
Awaiting ==
    /\ \A s \in Sessions : work[s].at = "waiting" => work[s].conn \in Conns /\ Comes(work[s].conn)
    /\ \A r \in Releaser : release[r].at = "await" =>
          release[r].attempt = 0 \/ Comes(release[r].attempt)
    /\ g.conn # 0 => g.conn \in watchers \/ (g.conn = g.attempt /\ init.ok)

\* A step after which what came still comes keeps those who wait.
LEMMA ComesKeeps ==
  ASSUME ConnInv, Awaiting, \A c \in Conns : Comes(c) => StillComes(c),
         \A s \in Sessions : work'[s].at = "waiting" =>
             \/ work'[s] = work[s]
             \/ work'[s].conn \in Conns /\ StillComes(work'[s].conn),
         \A r \in Releaser : release'[r].at = "await" =>
             \/ release'[r] = release[r] \/ release'[r].attempt = 0
             \/ release'[r].attempt \in Conns /\ StillComes(release'[r].attempt),
         g'.conn # 0 => g'.conn \in watchers' \/ (g'.conn = g'.attempt /\ init'.ok)
  PROVE  Awaiting'
<1>1. \A r \in Releaser : release[r].attempt \in Conns \cup {0}
  BY DEF ConnInv, ConnPart, ConnTyped, Release
<1>2. \A s \in Sessions : work'[s].at = "waiting" =>
          work'[s].conn \in Conns /\ StillComes(work'[s].conn)
  BY DEF Awaiting
<1>3. ASSUME NEW r \in Releaser, release'[r].at = "await"
      PROVE  release'[r].attempt = 0 \/ StillComes(release'[r].attempt)
  BY <1>1, <1>3 DEF Awaiting
<1> QED BY <1>2, <1>3 DEF Awaiting, Comes, StillComes

\* What the requests do; only Ensure starts an attempt, and it finds none.
LEMMA RequestsAwait ==
  ASSUME ConnInv, Awaiting, NEW s \in Sessions,
         \/ Ensure(s) \/ Connected(s) \/ Prompt(s) \/ Ensured(s) \/ Ends(s)
         \/ Begin(s) \/ Invalidate(s) \/ NewReturns(s) \/ LoadReturns(s)
  PROVE  Awaiting'
<1>1. /\ g \in Connection /\ work \in [Sessions -> Work] /\ results \in [Conns -> {"none", "ok", "failed"}]
  BY DEF ConnInv, ConnPart, ConnTyped, WorkPart, WorkTyped
<1>2. CASE Ensure(s) /\ g' # g
  <2>1. PICK c \in Conns : /\ g.conn = 0 /\ g.attempt = 0 /\ g' = [g EXCEPT !.attempt = c]
                           /\ work' = [work EXCEPT ![s].at = "waiting", ![s].conn = c]
                           /\ UNCHANGED <<results, watchers, release>>
    BY <1>2 DEF Ensure, NeedsAttempt
  <2>2. g'.attempt = c /\ g'.conn = 0
    BY <1>1, <2>1 DEF Connection
  <2>3. \A d \in Conns : Comes(d) => StillComes(d)
    BY <2>1, <2>2, Bounds DEF StillComes, Comes
  <2>4. /\ work'[s].conn = c
        /\ \A t \in Sessions : t # s => work'[t] = work[t]
    BY <1>1, <2>1 DEF Work
  <2>5. StillComes(c)
    BY <2>2 DEF StillComes, Comes
  <2> QED BY <2>1, <2>2, <2>3, <2>4, <2>5, ComesKeeps
<1>3. CASE ~(Ensure(s) /\ g' # g)
  <2>1. /\ UNCHANGED <<results, watchers, release>> /\ init'.ok = init.ok
        /\ g'.attempt = g.attempt /\ g'.conn = g.conn
    <3>1. CASE Ensure(s)
      <4>1. UNCHANGED <<g, results, watchers, release>>
        BY <1>3, <3>1 DEF Ensure
      <4>2. ASSUME NEW c \in Conns, g.attempt = 0, g' = [g EXCEPT !.attempt = c] PROVE FALSE
        BY <1>1, <4>1, <4>2, Bounds DEF Connection
      <4>3. init' = init
        BY <3>1, <4>2 DEF Ensure, NeedsAttempt
      <4> QED BY <4>1, <4>3
    <3>2. CASE Connected(s) \/ Prompt(s) \/ Ensured(s) \/ Ends(s) \/ Begin(s)
      BY <3>2 DEF Connected, Prompt, Ensured, Ends, Begin, conVars
    <3>3. CASE Invalidate(s) \/ NewReturns(s) \/ LoadReturns(s)
      BY <1>1, <3>3 DEF Invalidate, NewReturns, LoadReturns, MarkLoaded, Connection
    <3> QED BY <3>1, <3>2, <3>3
  <2>2. \A t \in Sessions : t # s => work'[t] = work[t]
    BY <1>1 DEF Ensure, Connected, Prompt, Ensured, Ends, Begin, Invalidate, NewReturns,
           LoadReturns
  <2>3. work'[s].at = "waiting" =>
           work'[s] = work[s] \/ (work'[s].conn = g.attempt /\ g.attempt # 0)
    <3>1. CASE Ensure(s)
      <4>1. \/ work' = [work EXCEPT ![s] = NoWork]
            \/ work' = [work EXCEPT ![s].at = "connected"]
            \/ /\ work' = [work EXCEPT ![s].at = "waiting", ![s].conn = g.attempt]
               /\ g.attempt # 0
            \/ \E c \in Conns : g.attempt = 0 /\ g' = [g EXCEPT !.attempt = c]
        BY <3>1 DEF Ensure, NeedsAttempt
      <4>2. ASSUME NEW c \in Conns, g.attempt = 0, g' = [g EXCEPT !.attempt = c] PROVE FALSE
        BY <1>1, <2>1, <4>2, Bounds DEF Connection
      <4> QED BY <1>1, <4>1, <4>2 DEF NoWork, Work
    <3>2. CASE Invalidate(s)
      BY <3>2 DEF Invalidate
    <3>3. CASE Connected(s) \/ Prompt(s) \/ Ensured(s)
      <4>1. CASE Connected(s)
        BY <1>1, <4>1 DEF Connected, NoWork, Work
      <4>2. CASE Prompt(s)
        BY <1>1, <4>2 DEF Prompt, NoWork, Work
      <4>3. CASE Ensured(s)
        BY <1>1, <4>3 DEF Ensured, NoWork, Work
      <4> QED BY <3>3, <4>1, <4>2, <4>3
    <3>4. CASE Ends(s) \/ Begin(s)
      BY <1>1, <3>4 DEF Ends, Begin, NoWork
    <3>5. CASE NewReturns(s) \/ LoadReturns(s)
      BY <1>1, <3>5 DEF NewReturns, LoadReturns, Work
    <3> QED BY <3>1, <3>2, <3>3, <3>4, <3>5
  <2>4. g.attempt # 0 => g.attempt \in Conns /\ StillComes(g.attempt)
    BY <1>1, <2>1 DEF StillComes, Comes, Connection
  <2>5. \A c \in Conns : Comes(c) => StillComes(c)
    BY <2>1 DEF StillComes, Comes
  <2> QED BY <2>1, <2>2, <2>3, <2>4, <2>5, ComesKeeps DEF Awaiting
<1> QED BY <1>2, <1>3

LEMMA AwaitingStep == ConnInv /\ Awaiting /\ [Next]_vars => Awaiting'
<1> SUFFICES ASSUME ConnInv, Awaiting, [Next]_vars PROVE Awaiting'
  OBVIOUS
<1>1. /\ g \in Connection /\ init \in Attempt /\ results \in [Conns -> {"none", "ok", "failed"}]
      /\ release \in [Releaser -> Release] /\ Attempted
      /\ g.conn # 0 => g.conn \in watchers \/ (g.conn = g.attempt /\ init.ok)
  BY DEF ConnInv, ConnPart, ConnTyped, Awaiting
\* The steps that leave those who wait, and the attempts, as they are.
<1>2. ASSUME UNCHANGED <<results, watchers, release, work>>, g'.attempt = g.attempt,
             g'.conn \in {0, g.conn}, g'.conn = 0 \/ init'.ok = init.ok
      PROVE  Awaiting'
  BY <1>2, ComesKeeps DEF Awaiting, StillComes, Comes
<1>3. ASSUME NEW r \in Releaser, ReleaseBegins(r) PROVE Awaiting'
  <2>1. /\ UNCHANGED <<g, results, watchers, work>> /\ init'.ok = init.ok
        /\ release' = [release EXCEPT ![r] = [at |-> "await", attempt |-> g.attempt]]
    BY <1>1, <1>3 DEF ReleaseBegins, Attempt
  <2>2. /\ \A q \in Releaser : q # r => release'[q] = release[q]
        /\ release'[r].attempt = g.attempt
    BY <1>1, <2>1
  <2>3. g.attempt = 0 \/ (g.attempt \in Conns /\ StillComes(g.attempt))
    BY <1>1, <2>1 DEF StillComes, Comes, Connection
  <2> QED BY <1>1, <2>1, <2>2, <2>3, ComesKeeps DEF StillComes, Comes
<1>4. ASSUME NEW r \in Releaser, ReleaseTakes(r) PROVE Awaiting'
  <2>1. /\ UNCHANGED <<init, results, watchers, work>> /\ g' = Gone
        /\ release' = [release EXCEPT ![r] =
              [at |-> IF r = "close" THEN "done" ELSE "none", attempt |-> 0]]
    BY <1>4 DEF ReleaseTakes
  <2>2. /\ \A q \in Releaser : q # r => release'[q] = release[q]
        /\ release'[r].attempt = 0
    BY <1>1, <2>1
  <2>3. g'.conn = 0 /\ g'.attempt = g.attempt
    BY <1>1, <2>1, GoneFields
  <2> QED BY <1>1, <2>1, <2>2, <2>3, ComesKeeps DEF StillComes, Comes
<1>5. ASSUME Close PROVE Awaiting'
  <2>1. /\ UNCHANGED <<init, results, watchers, work>> /\ g' = [g EXCEPT !.closed = TRUE]
        /\ release' = [release EXCEPT !["close"].at = "begin"]
    BY <1>5 DEF Close
  <2>2. \A q \in Releaser : release'[q].at = "await" => release'[q] = release[q]
    BY <1>1, <2>1 DEF Releaser, Release
  <2>3. g'.conn = g.conn /\ g'.attempt = g.attempt
    BY <1>1, <2>1, ClosedField
  <2> QED BY <1>1, <2>1, <2>2, <2>3, ComesKeeps DEF StillComes, Comes
<1>6. ASSUME Tick PROVE Awaiting'
  <2>1. /\ UNCHANGED <<g, init, results, watchers, work>>
        /\ release' = [release EXCEPT !["idle"].at = "begin"]
    BY <1>6 DEF Tick, conVars
  <2>2. \A q \in Releaser : release'[q].at = "await" => release'[q] = release[q]
    BY <1>1, <2>1 DEF Releaser, Release
  <2> QED BY <1>1, <2>1, <2>2, ComesKeeps DEF StillComes, Comes
<1>7. ASSUME NEW c \in Conns, Watch(c) PROVE Awaiting'
  <2>1. /\ UNCHANGED <<init, results, release, work>> /\ watchers' = watchers \ {c}
        /\ c \in watchers
        /\ g' = IF g.conn = c THEN Gone ELSE g
    BY <1>7 DEF Watch
  <2>2. g'.attempt = g.attempt /\ g'.conn = IF g.conn = c THEN 0 ELSE g.conn
    BY <1>1, <2>1, GoneFields
  <2>3. g'.conn # 0 => g'.conn \in watchers' \/ (g'.conn = g'.attempt /\ init'.ok)
    BY <1>1, <2>1, <2>2
  <2> QED BY <2>1, <2>2, <2>3, ComesKeeps DEF StillComes, Comes
<1>8. ASSUME Publish PROVE Awaiting'
  <2>1. /\ UNCHANGED <<results, watchers, release, work>>
        /\ init.at \in {"handshake", "failed"}
        /\ \/ g' = g
           \/ g' = [g EXCEPT !.conn = g.attempt, !.loaded = {}] /\ init'.ok
    BY <1>1, <1>8 DEF Publish, Opened, Attempt
  <2>2. g.conn = 0
    BY <1>1, <2>1 DEF Attempted
  <2>3. /\ g'.attempt = g.attempt
        /\ g'.conn = 0 \/ (g'.conn = g.attempt /\ init'.ok)
    BY <1>1, <2>1, <2>2 DEF Connection
  <2> QED BY <2>1, <2>3, ComesKeeps DEF StillComes, Comes
<1>9. ASSUME Settle PROVE Awaiting'
  <2>1. /\ UNCHANGED <<release, work>> /\ init.at = "settle"
        /\ results' = [results EXCEPT ![g.attempt] = Outcome]
        /\ watchers' = IF init.ok THEN watchers \cup {g.attempt} ELSE watchers
        /\ g' = [g EXCEPT !.attempt = 0]
    BY <1>9 DEF Settle, Settled
  <2>2. g'.attempt = 0 /\ g'.conn = g.conn /\ g.attempt \in Conns
    BY <1>1, <2>1 DEF Connection, Attempted
  <2>3. \A c \in Conns : Comes(c) => StillComes(c)
    BY <1>1, <2>1, <2>2, Bounds DEF StillComes, Comes, Outcome
  <2>4. g'.conn # 0 => g'.conn \in watchers'
    BY <1>1, <2>1, <2>2
  <2> QED BY <2>1, <2>2, <2>3, <2>4, ComesKeeps
<1>10. ASSUME InitStarts \/ AttemptTimesOut PROVE Awaiting'
  <2>1. /\ UNCHANGED <<results, watchers, release, work>> /\ init'.ok = init.ok
        /\ g' = g \/ g' = [g EXCEPT !.id = g.attempt]
    BY <1>1, <1>10 DEF InitStarts, AttemptTimesOut, Identified, Opened, Attempt
  <2> QED BY <1>1, <1>2, <2>1 DEF Connection
<1>11. ASSUME NEW s \in Sessions,
             \/ Ensure(s) \/ Connected(s) \/ Prompt(s) \/ Ensured(s) \/ Ends(s)
             \/ Begin(s) \/ Invalidate(s) \/ NewReturns(s) \/ LoadReturns(s)
      PROVE  Awaiting'
  BY <1>11, RequestsAwait
<1>12. ASSUME \/ \E a \in Asks : AskPlan(a) \/ AskReturns(a) \/ ResolveApproval(a)
              \/ \E c \in Conns : Dies(c)
              \/ \E c \in Conns, s \in Sessions :
                    Announce(c, s) \/ \E a \in Asks : Permission(a, c, s)
              \/ \E k \in calls : CallEnds(k)
              \/ UNCHANGED vars
       PROVE  Awaiting'
  <2>1. UNCHANGED <<g, init, results, watchers, release, work>>
    <3>1. CASE UNCHANGED vars
      BY <3>1 DEF vars
    <3>2. CASE \E c \in Conns : Dies(c)
      BY <3>2 DEF Dies
    <3>3. CASE \E a \in Asks : AskPlan(a) \/ AskReturns(a) \/ ResolveApproval(a)
      BY <3>3 DEF AskPlan, AskReturns, ResolveApproval, conVars
    <3>4. CASE \E c \in Conns, t \in Sessions :
                  Announce(c, t) \/ \E a \in Asks : Permission(a, c, t)
      BY <3>4 DEF Announce, Permission, conVars
    <3>5. CASE \E k \in calls : CallEnds(k)
      BY <3>5 DEF CallEnds, conVars
    <3> QED BY <1>12, <3>1, <3>2, <3>3, <3>4, <3>5
  <2> QED BY <1>2, <2>1
<1>13. CASE System
  BY <1>3, <1>4, <1>7, <1>8, <1>9, <1>10, <1>11, <1>12, <1>13 DEF System, Releaser
<1>14. CASE Environment
  BY <1>5, <1>6, <1>10, <1>11, <1>12, <1>14 DEF Environment
<1> QED BY <1>12, <1>13, <1>14 DEF Next

\* Whoever waits for an attempt, a release or a watcher waits for somebody who has a
\* step to take: nobody waits for ever, in any number of attempts and sessions.
THEOREM SomebodyWorks == Spec => [](Working \/ Returned)
<1>1. Init => Awaiting
  <2> SUFFICES ASSUME Init PROVE Awaiting
    OBVIOUS
  <2>1. /\ g.conn = 0 /\ work = [s \in Sessions |-> NoWork]
        /\ release = [r \in Releaser |-> [at |-> "none", attempt |-> 0]]
    BY DEF Init, Releaser
  <2> QED BY <2>1 DEF Awaiting, NoWork
<1>2. ConnInv /\ Awaiting => Working \/ Returned
  <2> SUFFICES ASSUME ConnInv, Awaiting, ~Working PROVE Returned
    OBVIOUS
  <2>1. init.at = "none" /\ watchers \subseteq alive
    BY DEF Working
  <2>2. g.attempt = 0
    BY <2>1 DEF ConnInv, ConnPart, Attempted
  <2>3. \A s \in Sessions : work[s].at # "waiting"
    BY <2>2, Bounds DEF Working, Awaiting, Comes
  <2>4. ASSUME NEW r \in Releaser PROVE release[r].at \in {"none", "done"}
    <3>1. /\ release[r].at \in {"none", "begin", "await", "done"}
          /\ release[r].attempt \in Conns \cup {0}
      BY DEF ConnInv, ConnPart, ConnTyped, Release
    <3>2. release[r].at # "begin" /\ (release[r].at = "await" => ~Awaited(r))
      BY <2>4 DEF Working, Releaser
    <3>3. release[r].at = "await" => Awaited(r)
      BY <2>2, <3>1, Bounds DEF Awaiting, StillComes, Comes, Awaited
    <3> QED BY <3>1, <3>2, <3>3
  <2>5. g.conn \in alive \cup {0}
    BY <2>1, <2>2 DEF Awaiting
  <2> QED BY <2>1, <2>2, <2>3, <2>4, <2>5 DEF Returned, Releaser
<1> QED BY <1>1, <1>2, AwaitingStep, ConnInvHolds, PTL DEF Spec

\* The same of the property the run checks, but for its first half: that a step whose
\* guard holds can be taken is for TLC, which evaluates ENABLED.
THEOREM NobodyIsStuck ==
  Spec /\ [](Working => ENABLED System) => []EveryoneReturns
<1>1. (Working \/ Returned) /\ (Working => ENABLED System) => EveryoneReturns
  BY DEF EveryoneReturns
<1> QED BY <1>1, SomebodyWorks, PTL
=============================================================================
