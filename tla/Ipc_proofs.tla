----------------------------- MODULE Ipc_proofs ------------------------------
(***************************************************************************)
(* Theorems about calls between processes, for every set of calls and      *)
(* every number of connections: a call with an effect runs at most once,   *)
(* no connection is lost sight of, and the count of MCP processes is true. *)
(***************************************************************************)
EXTENDS Ipc, FiniteSetTheorems, TLAPS

Client == [cl : Conns \cup {0}, dialing : BOOLEAN, live : BOOLEAN, closed : BOOLEAN]
CallAt == {"idle", "ready", "dial", "adopt", "notify", "noticing", "write", "sent", "over"}
Results == {"none", "ok", "uncertain", "unsent"}
Call == [at : CallAt, conn : Conns \cup {0}, try : {1, 2},
         result : Results]
Messages == [conn : Conns, call : Callers, what : {"call", "mcp"},
             at : {"sent", "running", "ok", "error"}]

Typed ==
    /\ r \in Client /\ calls \in [Callers -> Call]
    /\ up \subseteq Conns /\ alive \subseteq Conns
    /\ serving \subseteq Conns /\ marked \subseteq Conns
    /\ wire \subseteq Messages /\ ran \in [Effects -> Nat]
    /\ host \in [up : BOOLEAN, dialled : Conns \cup {0}]

LEMMA ConnNumbers == IsFiniteSet(Conns) /\ Cardinality(Conns) \in Nat /\ 0 \notin Conns
                     /\ Conns \subseteq Nat
<1>1. IsFiniteSet(Conns) /\ Cardinality(Conns) \in Nat /\ Conns = 1..Cardinality(Conns)
  BY IpcAssumption, FS_CardinalityType
<1> QED BY <1>1

-----------------------------------------------------------------------------
(* The inductive invariant.                                                *)

\* One call dials at a time, and while it does there is no connection.
DialAt == {"dial", "adopt"}
DialTrue ==
    /\ \A k \in Callers : calls[k].at \in DialAt => r.dialing /\ r.cl = 0
    /\ \A k, l \in Callers : calls[k].at \in DialAt /\ calls[l].at \in DialAt => k = l
    /\ NoConnectionLeaks

\* Where a call is before its request may have been written.
Before == {"idle", "ready", "dial", "adopt", "notify", "noticing", "write"}
Unsent(k) == ran[k] = 0 /\ OnItsWay(k) = {}
OkHere(k) == {m \in wire : m.call = k /\ m.what = "call" /\ m.at = "ok"}
\* A call with an effect: its request is not yet written, or on its way once, or was run.
Effect(k) ==
    /\ Unsent(k) \/ (ran[k] = 1 /\ OnItsWay(k) = {})
                 \/ (ran[k] = 0 /\ \E m \in wire : OnItsWay(k) = {m})
    /\ calls[k].at \in Before => Unsent(k) /\ calls[k].result = "none"
    /\ calls[k].result = "unsent" => Unsent(k)
    /\ calls[k].result = "ok" \/ OkHere(k) # {} => ran[k] = 1

IpcInv == Typed /\ DialTrue /\ CountIsTrue /\ \A k \in Effects : Effect(k)

LEMMA InitHolds == Init => IpcInv
<1> SUFFICES ASSUME Init PROVE IpcInv
  OBVIOUS
<1>1. r = [cl |-> 0, dialing |-> FALSE, live |-> FALSE, closed |-> FALSE]
      /\ calls = [k \in Callers |-> Idle] /\ up = {} /\ alive = {} /\ serving = {}
      /\ wire = {} /\ ran = [k \in Effects |-> 0] /\ marked = {} /\ count = 0
      /\ \E b \in BOOLEAN : host = [up |-> b, dialled |-> 0]
  BY DEF Init
<1>2. Idle \in Call /\ Idle.at = "idle" /\ Idle.result = "none"
  BY DEF Idle, Call, CallAt, Results
<1>3. Typed
  BY <1>1, <1>2 DEF Typed, Client
<1>4. DialTrue
  BY <1>1, <1>2 DEF DialTrue, DialAt, NoConnectionLeaks
<1>5. CountIsTrue
  BY <1>1, FS_EmptySet DEF CountIsTrue
<1>6. ASSUME NEW k \in Effects PROVE Effect(k)
  <2>1. OnItsWay(k) = {} /\ OkHere(k) = {} /\ ran[k] = 0
    BY <1>1 DEF OnItsWay, OkHere
  <2>2. calls[k] = Idle
    BY <1>1 DEF Callers
  <2> QED BY <1>2, <2>1, <2>2 DEF Effect, Unsent
<1> QED BY <1>3, <1>4, <1>5, <1>6 DEF IpcInv

-----------------------------------------------------------------------------
(* What a step does to a call.                                             *)

\* Only k moves.
Alone(k) == calls' \in [Callers -> Call] /\ \A j \in Callers : j # k => calls'[j] = calls[j]

LEMMA GoesFields ==
  ASSUME Typed, NEW k \in Callers, NEW at \in CallAt, Goes(k, at)
  PROVE  /\ Alone(k) /\ calls'[k].at = at /\ calls'[k].conn = calls[k].conn
         /\ calls'[k].result = calls[k].result
<1>1. calls[k] \in Call /\ calls' = [calls EXCEPT ![k] = [calls[k] EXCEPT !.at = at]]
  BY DEF Typed, Goes
<1>2. LET c == [calls[k] EXCEPT !.at = at] IN
      c \in Call /\ c.at = at /\ c.conn = calls[k].conn /\ c.result = calls[k].result
  BY <1>1 DEF Call
<1> QED BY <1>1, <1>2 DEF Typed, Alone

\* A call that goes on with a connection.
LEMMA GoesWith ==
  ASSUME Typed, NEW k \in Callers, NEW at \in CallAt, NEW c \in Conns \cup {0},
         calls' = [calls EXCEPT ![k].at = at, ![k].conn = c]
  PROVE  /\ Alone(k) /\ calls'[k].at = at /\ calls'[k].conn = c
         /\ calls'[k].result = calls[k].result
<1>1. calls[k] \in Call
  BY DEF Typed
<1>2. LET d == [calls[k] EXCEPT !.at = at] IN d \in Call /\ d.at = at /\ d.result = calls[k].result
  BY <1>1 DEF Call
<1>3. ASSUME NEW d \in Call
      PROVE  LET e == [d EXCEPT !.conn = c] IN
             e \in Call /\ e.at = d.at /\ e.result = d.result /\ e.conn = c
  BY DEF Call
<1>4. calls' = [calls EXCEPT ![k] = [[calls[k] EXCEPT !.at = at] EXCEPT !.conn = c]]
  BY DEF Typed
<1> DEFINE d == [calls[k] EXCEPT !.at = at]
           e == [d EXCEPT !.conn = c]
<1>5. e \in Call /\ e.at = at /\ e.result = calls[k].result /\ e.conn = c
  BY <1>2, <1>3
<1>6. calls' = [calls EXCEPT ![k] = e]
  BY <1>4
<1> HIDE DEF e
<1> QED BY <1>5, <1>6 DEF Typed, Alone

LEMMA OverFields ==
  ASSUME NEW result \in Results
  PROVE  LET c == Over(result) IN c \in Call /\ c.at = "over" /\ c.result = result
<1> DEFINE a == [Idle EXCEPT !.at = "over"]
           b == [a EXCEPT !.result = result]
<1>1. Over(result) = b
  BY DEF Over
<1>2. a \in Call /\ a.at = "over"
  BY DEF Idle, Call, CallAt, Results
<1> HIDE DEF a
<1>3. b \in Call /\ b.at = "over" /\ b.result = result
  BY <1>2 DEF Call
<1> QED BY <1>1, <1>3

LEMMA EndsFields ==
  ASSUME Typed, NEW k \in Callers, NEW result \in Results, Ends(k, result)
  PROVE  Alone(k) /\ calls'[k].at = "over" /\ calls'[k].result = result
<1> DEFINE c == Over(result)
<1>1. c \in Call /\ c.at = "over" /\ c.result = result
  BY OverFields
<1>2. calls' = [calls EXCEPT ![k] = c]
  BY DEF Ends
<1> HIDE DEF c
<1> QED BY <1>1, <1>2 DEF Typed, Alone

\* A call with an effect is not tried again after an uncertain outcome.
LEMMA RetryFields ==
  ASSUME Typed, NEW k \in Callers, NEW error \in {"unsent", "uncertain"},
         Retry(k, error)
  PROVE  /\ Alone(k)
         /\ \/ calls'[k].at = "over" /\ calls'[k].result = error
            \/ /\ calls'[k].at = "ready" /\ calls'[k].result = calls[k].result
               /\ ~(error = "uncertain" /\ k \in Effects)
<1>1. calls[k] \in Call
  BY DEF Typed
<1>2. CASE (error = "uncertain" /\ k \in Effects) \/ calls[k].try = Attempts
  <2> DEFINE c == Over(error)
  <2>1. c \in Call /\ c.at = "over" /\ c.result = error
    BY OverFields DEF Results
  <2>2. calls' = [calls EXCEPT ![k] = c]
    BY <1>2 DEF Retry
  <2> HIDE DEF c
  <2> QED BY <2>1, <2>2 DEF Typed, Alone
<1>3. CASE ~((error = "uncertain" /\ k \in Effects) \/ calls[k].try = Attempts)
  <2>1. calls[k].try + 1 \in {1, 2}
    BY <1>1, <1>3 DEF Call, Attempts
  <2> DEFINE n == calls[k].try + 1
             a == [calls[k] EXCEPT !.at = "ready"]
             b == [a EXCEPT !.conn = 0]
             c == [b EXCEPT !.try = n]
  <2>2. calls' = [calls EXCEPT ![k] = c]
    BY <1>3 DEF Retry
  <2>3. a \in Call /\ a.at = "ready" /\ a.result = calls[k].result
    BY <1>1 DEF Call, CallAt
  <2> HIDE DEF a, n
  <2>4. b \in Call /\ b.at = "ready" /\ b.result = calls[k].result
    BY <2>3 DEF Call
  <2> HIDE DEF b
  <2>5. c \in Call /\ c.at = "ready" /\ c.result = calls[k].result
    BY <2>1, <2>4 DEF Call, n
  <2> HIDE DEF c
  <2> QED BY <1>3, <2>2, <2>5 DEF Typed, Alone
<1> QED BY <1>2, <1>3

-----------------------------------------------------------------------------
(* What a step does to the connections and to an effect.                   *)

\* The connection is kept, or given up.
Kept == r'.cl = r.cl /\ up' \subseteq up /\ r'.closed = r.closed
GivenUp == r'.cl = 0 /\ up' \subseteq up \ {r.cl}

\* A step of a call that does not dial.
LEMMA DialKeeps ==
  ASSUME IpcInv, r'.dialing = r.dialing, Kept \/ GivenUp,
         \A k \in Callers : \/ calls'[k] = calls[k]
                            \/ calls[k].at \notin DialAt /\ calls'[k].at \notin DialAt
  PROVE  DialTrue'
<1>1. DialTrue
  BY DEF IpcInv
<1>2. r'.cl = r.cl \/ r'.cl = 0
  BY DEF Kept, GivenUp
<1>3. \A k \in Callers : calls'[k].at \in DialAt => calls'[k] = calls[k]
  OBVIOUS
<1>4. \A c \in up' : c = r'.cl \/ \E k \in Callers : calls'[k].at = "adopt" /\ calls'[k].conn = c
  <2> SUFFICES ASSUME NEW c \in up', c # r'.cl
               PROVE  \E k \in Callers : calls'[k].at = "adopt" /\ calls'[k].conn = c
    OBVIOUS
  <2>1. c \in up /\ c # r.cl
    BY DEF Kept, GivenUp
  <2>2. PICK k \in Callers : calls[k].at = "adopt" /\ calls[k].conn = c
    BY <1>1, <2>1 DEF DialTrue, NoConnectionLeaks
  <2> QED BY <2>2 DEF DialAt
<1>5. r'.closed => r'.cl = 0
  BY <1>1 DEF Kept, GivenUp, DialTrue, NoConnectionLeaks
<1> QED BY <1>1, <1>2, <1>3, <1>4, <1>5 DEF DialTrue, NoConnectionLeaks

\* A step after which the request of k is where it was.
SameRequest(k) == ran'[k] = ran[k] /\ OnItsWay(k)' = OnItsWay(k) /\ OkHere(k)' \subseteq OkHere(k)
LEMMA EffectKeeps ==
  ASSUME NEW k \in Effects, Effect(k), SameRequest(k),
         \/ calls'[k] = calls[k]
         \/ /\ calls[k].at \in Before /\ calls'[k].at \in Before
            /\ calls'[k].result = calls[k].result
         \/ calls[k].at \in Before /\ calls'[k].at = "over" /\ calls'[k].result = "unsent"
         \/ calls'[k].at = "over" /\ calls'[k].result = "uncertain"
         \/ calls'[k].at = "over" /\ calls'[k].result = "ok" /\ ran[k] = 1
         \/ calls[k].at \in Before /\ calls'[k].at = "sent" /\ calls'[k].result = calls[k].result
  PROVE  Effect(k)'
<1>1. "over" \notin Before /\ "sent" \notin Before
  BY DEF Before
<1>2. Unsent(k)' <=> Unsent(k)
  BY DEF SameRequest, Unsent
<1>3. ASSUME NEW m \in wire, OnItsWay(k) = {m} PROVE \E n \in wire' : OnItsWay(k)' = {n}
  <2>1. OnItsWay(k)' = {m}
    BY <1>3 DEF SameRequest
  <2>2. m \in wire'
    BY <2>1 DEF OnItsWay
  <2> QED BY <2>1, <2>2
<1>4. /\ Unsent(k)' \/ (ran'[k] = 1 /\ OnItsWay(k)' = {})
                    \/ (ran'[k] = 0 /\ \E m \in wire' : OnItsWay(k)' = {m})
  BY <1>2, <1>3 DEF SameRequest, Effect
<1>5. OkHere(k)' # {} => ran'[k] = 1
  BY DEF SameRequest, Effect
<1> QED BY <1>1, <1>2, <1>4, <1>5 DEF Effect, SameRequest

\* The messages a step leaves alone.
LEMMA SameWire ==
  ASSUME NEW k \in Effects, ran'[k] = ran[k],
         \A m \in wire' : m \in wire \/ ~(m.call = k /\ m.what = "call"),
         \A m \in wire : m \in wire' \/ ~(m.call = k /\ m.what = "call" /\ m.at \in {"sent", "running"})
  PROVE  SameRequest(k)
  BY DEF SameRequest, OnItsWay, OkHere

\* What every step of the client leaves alone.
LEMMA ServerKeeps ==
  ASSUME IpcInv, UNCHANGED serverVars
  PROVE  CountIsTrue' /\ UNCHANGED <<serving, ran, marked, count, host>>
  BY DEF IpcInv, CountIsTrue, serverVars

-----------------------------------------------------------------------------
(* The resilient client.                                                   *)

\* A step of k that neither dials nor sends, and takes no answer but its own.
LEMMA QuietHolds ==
  ASSUME IpcInv, NEW k \in Callers, Alone(k), UNCHANGED serverVars,
         r' \in Client, r'.dialing = r.dialing, Kept \/ GivenUp,
         alive' \subseteq alive, wire' \subseteq Messages,
         calls[k].at \notin DialAt, calls'[k].at \notin DialAt,
         \A m \in wire' : m \in wire \/ m.what = "mcp",
         \A m \in wire : m \in wire' \/ m.what = "mcp" \/ m.at \in {"ok", "error"},
         k \in Effects =>
             \/ /\ calls[k].at \in Before /\ calls'[k].at \in Before
                /\ calls'[k].result = calls[k].result
             \/ calls[k].at \in Before /\ calls'[k].at = "over" /\ calls'[k].result = "unsent"
             \/ calls'[k].at = "over" /\ calls'[k].result = "uncertain"
             \/ calls'[k].at = "over" /\ calls'[k].result = "ok" /\ ran[k] = 1
             \/ calls[k].at \in Before /\ calls'[k].at = "sent" /\ calls'[k].result = calls[k].result
  PROVE  IpcInv'
<1>1. Typed
  BY DEF IpcInv
<1>2. CountIsTrue' /\ UNCHANGED <<serving, ran, marked, count, host>>
  BY ServerKeeps
<1>3. up' \subseteq up
  BY DEF Kept, GivenUp
<1>4. Typed'
  BY <1>1, <1>2, <1>3 DEF Typed, Alone
<1>5. DialTrue'
  BY DialKeeps DEF Alone
<1>6. ASSUME NEW e \in Effects PROVE Effect(e)'
  <2>1. Effect(e) /\ e \in Callers
    BY DEF IpcInv, Callers
  <2>2. SameRequest(e)
    BY <1>2, SameWire
  <2>3. CASE e = k
    BY <2>1, <2>2, <2>3, EffectKeeps
  <2>4. CASE e # k
    <3>1. calls'[e] = calls[e]
      BY <2>1, <2>4 DEF Alone
    <3> QED BY <2>1, <2>2, <3>1, EffectKeeps
  <2> QED BY <2>3, <2>4
<1> QED BY <1>2, <1>4, <1>5, <1>6 DEF IpcInv

LEMMA IssueHolds ==
  ASSUME IpcInv, NEW k \in Callers, Issue(k) PROVE IpcInv'
<1>1. Typed
  BY DEF IpcInv
<1>2. /\ Alone(k) /\ calls'[k].at = "ready" /\ calls'[k].result = calls[k].result
      /\ calls[k].at = "idle"
  BY <1>1, GoesFields DEF Issue, CallAt
<1>3. UNCHANGED <<r, up, alive, wire>> /\ UNCHANGED serverVars
  BY DEF Issue
<1> QED BY <1>1, <1>2, <1>3, QuietHolds DEF Typed, Kept, DialAt, Before

LEMMA AnnounceHolds ==
  ASSUME IpcInv, Announce PROVE IpcInv'
<1>1. Typed /\ Notice \in Callers /\ Notice \notin Effects
  BY IpcAssumption DEF IpcInv, Callers
<1>2. r \in Client /\ r' = [r EXCEPT !.live = TRUE]
  BY <1>1 DEF Typed, Announce
<1>3. r' \in Client /\ r'.dialing = r.dialing /\ r'.cl = r.cl /\ r'.closed = r.closed
  BY <1>2 DEF Client
<1> DEFINE at == IF r.cl \in alive THEN "notify" ELSE "ready"
<1>4. at \in CallAt /\ at \notin DialAt /\ r.cl \in Conns \cup {0}
  BY <1>2 DEF CallAt, DialAt, Client
<1>5. calls' = [calls EXCEPT ![Notice].at = at, ![Notice].conn = r.cl]
  <2>1. calls[Notice] \in Call /\ calls \in [Callers -> Call]
    BY <1>1 DEF Typed
  <2>2. calls' = [calls EXCEPT ![Notice].conn = r.cl, ![Notice].at = at]
    BY DEF Announce
  <2> HIDE DEF at
  <2>3. [[calls[Notice] EXCEPT !.conn = r.cl] EXCEPT !.at = at]
          = [[calls[Notice] EXCEPT !.at = at] EXCEPT !.conn = r.cl]
    BY <2>1 DEF Call
  <2> QED BY <1>1, <2>1, <2>2, <2>3
<1> HIDE DEF at
<1>6. Alone(Notice) /\ calls'[Notice].at = at
  BY <1>1, <1>4, <1>5, GoesWith
<1>7. calls[Notice].at = "idle" /\ UNCHANGED <<up, alive, wire>> /\ UNCHANGED serverVars
  BY <1>1 DEF Announce
<1> QED BY <1>1, <1>3, <1>4, <1>6, <1>7, QuietHolds DEF Typed, Kept, DialAt

\* A step of the client's in which no call moves, and no request.
LEMMA StillHolds ==
  ASSUME IpcInv, UNCHANGED calls, UNCHANGED serverVars, r' \in Client,
         r'.dialing = r.dialing, Kept \/ GivenUp, alive' \subseteq alive, wire' \subseteq wire,
         \A m \in wire : m \in wire' \/ m.at \in {"ok", "error"}
  PROVE  IpcInv'
<1>1. CountIsTrue' /\ UNCHANGED <<serving, ran, marked, count, host>>
  BY ServerKeeps
<1>2. Typed'
  BY <1>1 DEF IpcInv, Typed, Kept, GivenUp
<1>3. DialTrue'
  BY DialKeeps
<1>4. ASSUME NEW e \in Effects PROVE Effect(e)'
  <2>1. SameRequest(e)
    BY <1>1, SameWire
  <2> QED BY <2>1, EffectKeeps DEF IpcInv
<1> QED BY <1>1, <1>2, <1>3, <1>4 DEF IpcInv

LEMMA WithdrawHolds ==
  ASSUME IpcInv, Withdraw PROVE IpcInv'
<1>1. r \in Client /\ r' = [r EXCEPT !.live = FALSE]
  BY DEF IpcInv, Typed, Withdraw
<1>2. r' \in Client /\ r'.dialing = r.dialing /\ r'.cl = r.cl /\ r'.closed = r.closed
  BY <1>1 DEF Client
<1>3. UNCHANGED <<calls, up, alive, wire>> /\ UNCHANGED serverVars
  BY DEF Withdraw
<1> QED BY <1>2, <1>3, StillHolds DEF Kept

LEMMA CloseHolds ==
  ASSUME IpcInv, Close PROVE IpcInv'
<1>1. r \in Client /\ r' = [[r EXCEPT !.closed = TRUE] EXCEPT !.cl = 0] /\ up' = up \ {r.cl}
  BY DEF IpcInv, Typed, Close
<1>2. LET c == [r EXCEPT !.closed = TRUE] IN c \in Client /\ c.dialing = r.dialing
  BY <1>1 DEF Client
<1>3. ASSUME NEW c \in Client
      PROVE  LET d == [c EXCEPT !.cl = 0] IN d \in Client /\ d.dialing = c.dialing /\ d.cl = 0
  BY DEF Client
<1>4. r' \in Client /\ r'.dialing = r.dialing /\ r'.cl = 0
  BY <1>1, <1>2, <1>3
<1>5. UNCHANGED <<calls, alive, wire>> /\ UNCHANGED serverVars
  BY DEF Close
<1> QED BY <1>1, <1>4, <1>5, StillHolds DEF GivenUp

LEMMA ReadEndsHolds ==
  ASSUME IpcInv, NEW c \in Conns, ReadEnds(c) PROVE IpcInv'
<1>1. /\ UNCHANGED <<r, calls, up>> /\ UNCHANGED serverVars /\ alive' = alive \ {c}
      /\ wire' = {m \in wire : m.conn # c \/ m.at \in {"sent", "running"}}
  BY DEF ReadEnds
<1>2. r \in Client /\ \A m \in wire : m.at \in {"sent", "running", "ok", "error"}
  BY DEF IpcInv, Typed, Messages
<1> QED BY <1>1, <1>2, StillHolds DEF Kept

\* A step of k that begins, carries on or ends a dial: no message moves.
LEMMA DialHolds ==
  ASSUME IpcInv, NEW k \in Callers, Alone(k), DialTrue', r' \in Client,
         up' \subseteq Conns, alive' \subseteq Conns, serving' \subseteq Conns,
         serving \subseteq serving', host' \in [up : BOOLEAN, dialled : Conns \cup {0}],
         UNCHANGED <<wire, ran, marked, count>>, calls[k].at \in Before,
         k \in Effects =>
             \/ calls'[k].at \in Before /\ calls'[k].result = calls[k].result
             \/ calls'[k].at = "over" /\ calls'[k].result = "unsent"
  PROVE  IpcInv'
<1>1. Typed'
  BY DEF IpcInv, Typed, Alone
<1>2. CountIsTrue'
  BY DEF IpcInv, CountIsTrue
<1>3. ASSUME NEW e \in Effects PROVE Effect(e)'
  <2>1. Effect(e) /\ e \in Callers
    BY DEF IpcInv, Callers
  <2>2. SameRequest(e)
    BY SameWire
  <2>3. CASE e = k
    BY <2>1, <2>2, <2>3, EffectKeeps
  <2>4. CASE e # k
    <3>1. calls'[e] = calls[e]
      BY <2>1, <2>4 DEF Alone
    <3> QED BY <2>1, <2>2, <3>1, EffectKeeps
  <2> QED BY <2>3, <2>4
<1> QED BY <1>1, <1>2, <1>3 DEF IpcInv

\* While a call dials, no other does, and what is open it has opened.
LEMMA Dialling ==
  ASSUME IpcInv, NEW k \in Callers, calls[k].at \in DialAt
  PROVE  /\ r.dialing /\ r.cl = 0
         /\ \A j \in Callers : j # k => calls[j].at \notin DialAt
         /\ up \subseteq {calls[k].conn}
         /\ calls[k].at = "dial" => up = {}
<1>1. DialTrue /\ 0 \notin up
  BY ConnNumbers DEF IpcInv, Typed
<1>2. r.dialing /\ r.cl = 0 /\ \A j \in Callers : j # k => calls[j].at \notin DialAt
  BY <1>1 DEF DialTrue
<1>3. \A c \in up : \E j \in Callers : calls[j].at = "adopt" /\ calls[j].conn = c
  BY <1>1, <1>2 DEF DialTrue, NoConnectionLeaks
<1>4. \A c \in up : calls[k].at = "adopt" /\ calls[k].conn = c
  BY <1>2, <1>3 DEF DialAt
<1> QED BY <1>2, <1>4

\* The connection is given up, if it is still the client's.
LEMMA GoneFields ==
  ASSUME Typed, NEW c, Gone(c)
  PROVE  r' \in Client /\ r'.dialing = r.dialing /\ (Kept \/ GivenUp)
<1>1. r \in Client
  BY DEF Typed
<1>2. LET d == [r EXCEPT !.cl = 0] IN
      d \in Client /\ d.dialing = r.dialing /\ d.cl = 0
  BY <1>1 DEF Client
<1>3. CASE r.cl = c
  <2>1. r' = [r EXCEPT !.cl = 0] /\ up' = up \ {r.cl}
    BY <1>3 DEF Gone
  <2> QED BY <1>2, <2>1 DEF GivenUp
<1>4. CASE r.cl # c
  <2>1. r' = r /\ up' = up
    BY <1>4 DEF Gone
  <2> QED BY <1>1, <2>1 DEF Kept
<1> QED BY <1>3, <1>4

LEMMA ReadyHolds ==
  ASSUME IpcInv, NEW k \in Callers, Ready(k) PROVE IpcInv'
<1>1. /\ Typed /\ DialTrue /\ r \in Client /\ calls[k].at = "ready"
      /\ UNCHANGED <<alive, wire>> /\ UNCHANGED serverVars
  BY DEF IpcInv, Typed, Ready
<1>2. CASE r.closed /\ Ends(k, "unsent") /\ UNCHANGED <<r, up>>
  <2>1. Alone(k) /\ calls'[k].at = "over" /\ calls'[k].result = "unsent"
    BY <1>1, <1>2, EndsFields DEF Results
  <2> QED BY <1>1, <1>2, <2>1, QuietHolds DEF Typed, Kept, DialAt, Before
<1>3. CASE /\ r.cl \in alive /\ UNCHANGED <<r, up>>
           /\ calls' = [calls EXCEPT ![k].at = AfterReady(k), ![k].conn = r.cl]
  <2>1. AfterReady(k) \in {"notify", "write"}
    BY DEF AfterReady
  <2>2. AfterReady(k) \in CallAt /\ AfterReady(k) \in Before /\ AfterReady(k) \notin DialAt
    BY <2>1 DEF CallAt, Before, DialAt
  <2>3. r.cl \in Conns \cup {0}
    BY <1>1 DEF Client
  <2>4. Alone(k) /\ calls'[k].at = AfterReady(k) /\ calls'[k].result = calls[k].result
    BY <1>1, <1>3, <2>2, <2>3, GoesWith
  <2> QED BY <1>1, <1>3, <2>2, <2>4, QuietHolds DEF Typed, Kept, DialAt, Before
<1>4. CASE /\ ~r.closed /\ DialFree /\ r' = [r EXCEPT !.dialing = TRUE, !.cl = 0]
           /\ up' = up \ {r.cl} /\ Goes(k, "dial")
  <2>1. Alone(k) /\ calls'[k].at = "dial" /\ calls'[k].result = calls[k].result
    BY <1>1, <1>4, GoesFields DEF CallAt
  <2>2. r' \in Client /\ r'.dialing /\ r'.cl = 0 /\ ~r'.closed
    <3>1. LET c == [r EXCEPT !.dialing = TRUE] IN c \in Client /\ c.dialing /\ ~c.closed
      BY <1>1, <1>4 DEF Client
    <3>2. ASSUME NEW c \in Client
          PROVE  LET d == [c EXCEPT !.cl = 0] IN
                 d \in Client /\ d.dialing = c.dialing /\ d.closed = c.closed /\ d.cl = 0
      BY DEF Client
    <3>3. r' = [[r EXCEPT !.dialing = TRUE] EXCEPT !.cl = 0]
      BY <1>4
    <3> QED BY <3>1, <3>2, <3>3
  <2>3. \A j \in Callers : calls[j].at \notin DialAt
    BY <1>1, <1>4 DEF DialTrue, DialFree
  <2>4. up' = {}
    BY <1>1, <1>4, <2>3 DEF DialTrue, NoConnectionLeaks, DialAt
  <2>5. DialTrue'
    BY <2>1, <2>2, <2>3, <2>4 DEF DialTrue, NoConnectionLeaks, Alone
  <2> QED BY <1>1, <1>4, <2>1, <2>2, <2>5, DialHolds DEF Typed, Before, serverVars
<1> QED BY <1>2, <1>3, <1>4 DEF Ready

LEMMA DialOpensHolds ==
  ASSUME IpcInv, NEW k \in Callers, DialOpens(k) PROVE IpcInv'
<1>1. Typed /\ DialTrue /\ r \in Client /\ calls[k].at = "dial"
  BY DEF IpcInv, Typed, DialOpens
<1>2. PICK c \in Conns :
          /\ host' = [host EXCEPT !.dialled = c]
          /\ up' = up \cup {c} /\ alive' = alive \cup {c} /\ serving' = serving \cup {c}
          /\ calls' = [calls EXCEPT ![k].at = "adopt", ![k].conn = c]
  BY DEF DialOpens
<1>3. UNCHANGED <<r, wire, ran, marked, count>>
  BY DEF DialOpens
<1>4. Alone(k) /\ calls'[k].at = "adopt" /\ calls'[k].conn = c /\ calls'[k].result = calls[k].result
  BY <1>1, <1>2, GoesWith DEF CallAt
<1>5. r.dialing /\ r.cl = 0 /\ up = {} /\ \A j \in Callers : j # k => calls[j].at \notin DialAt
  BY <1>1, Dialling DEF DialAt
<1>6. DialTrue'
  BY <1>1, <1>2, <1>3, <1>4, <1>5 DEF DialTrue, NoConnectionLeaks, Alone, DialAt
<1>7. host' \in [up : BOOLEAN, dialled : Conns \cup {0}]
  BY <1>1, <1>2 DEF Typed
<1> QED BY <1>1, <1>2, <1>3, <1>4, <1>6, <1>7, DialHolds DEF Typed, Before

\* The dial is over: nobody dials, and there is the connection given, or none.
LEMMA DialEnds ==
  ASSUME IpcInv, NEW k \in Callers, calls[k].at \in DialAt, Alone(k),
         calls'[k].at \notin DialAt, ~r'.closed \/ r'.cl = 0, up' \subseteq up,
         r'.cl = calls[k].conn \/ up' = {}
  PROVE  DialTrue'
<1>1. \A j \in Callers : calls'[j].at \notin DialAt
  BY Dialling DEF Alone
<1>2. \A c \in up' : c = r'.cl
  BY Dialling
<1> QED BY <1>1, <1>2 DEF DialTrue, NoConnectionLeaks

LEMMA UndialledFields ==
  ASSUME r \in Client
  PROVE  /\ Undialled \in Client /\ Undialled.cl = r.cl /\ Undialled.closed = r.closed
         /\ \A c \in Conns \cup {0} :
                LET d == [Undialled EXCEPT !.cl = c] IN
                d \in Client /\ d.cl = c /\ d.closed = r.closed
<1> DEFINE u == [r EXCEPT !.dialing = FALSE]
<1>1. u \in Client /\ u.cl = r.cl /\ u.closed = r.closed
  BY DEF Client
<1>2. Undialled = u
  BY DEF Undialled
<1> HIDE DEF u
<1>3. ASSUME NEW c \in Conns \cup {0}
      PROVE  LET d == [u EXCEPT !.cl = c] IN d \in Client /\ d.cl = c /\ d.closed = u.closed
  BY <1>1 DEF Client
<1> QED BY <1>1, <1>2, <1>3

LEMMA DialFailsHolds ==
  ASSUME IpcInv, NEW k \in Callers, DialFails(k) PROVE IpcInv'
<1>1. /\ Typed /\ r \in Client /\ calls[k].at \in DialAt /\ r' = Undialled
      /\ Ends(k, "unsent") /\ UNCHANGED <<alive, wire>> /\ UNCHANGED serverVars
      /\ up' = IF calls[k].at = "adopt" THEN up \ {calls[k].conn} ELSE up
  BY DEF IpcInv, Typed, DialFails, DialAt
<1>2. Alone(k) /\ calls'[k].at = "over" /\ calls'[k].result = "unsent"
  BY <1>1, EndsFields DEF Results
<1>3. r' \in Client /\ r'.cl = 0 /\ up' = {} /\ calls[k].at \in Before
  BY <1>1, UndialledFields, Dialling DEF DialAt, Before
<1>4. DialTrue'
  BY <1>1, <1>2, <1>3, DialEnds DEF DialAt
<1> QED BY <1>1, <1>2, <1>3, <1>4, DialHolds DEF Typed, serverVars

LEMMA DialAdoptsHolds ==
  ASSUME IpcInv, NEW k \in Callers, DialAdopts(k) PROVE IpcInv'
<1>1. /\ Typed /\ r \in Client /\ calls[k].at = "adopt" /\ calls[k].at \in DialAt
      /\ calls[k].at \in Before
      /\ UNCHANGED <<alive, wire>> /\ UNCHANGED serverVars
  BY DEF IpcInv, Typed, DialAdopts, DialAt, Before
<1>2. CASE r.closed
  <2>1. r' = Undialled /\ up' = up \ {calls[k].conn} /\ Ends(k, "unsent")
    BY <1>2 DEF DialAdopts
  <2>2. Alone(k) /\ calls'[k].at = "over" /\ calls'[k].result = "unsent"
    BY <1>1, <2>1, EndsFields DEF Results
  <2>3. r' \in Client /\ r'.cl = 0 /\ up' = {}
    BY <1>1, <2>1, UndialledFields, Dialling
  <2>4. DialTrue'
    BY <1>1, <2>2, <2>3, DialEnds DEF DialAt
  <2> QED BY <1>1, <2>2, <2>3, <2>4, DialHolds DEF Typed, serverVars
<1>3. CASE ~r.closed
  <2> DEFINE at == IF r.live THEN "notify" ELSE AfterReady(k)
  <2>1. r' = [Undialled EXCEPT !.cl = calls[k].conn] /\ up' = up /\ Goes(k, at)
    BY <1>3 DEF DialAdopts
  <2>2. at \in CallAt /\ at \in Before /\ at \notin DialAt
    BY DEF AfterReady, CallAt, Before, DialAt
  <2> HIDE DEF at
  <2>3. Alone(k) /\ calls'[k].at = at /\ calls'[k].result = calls[k].result
    BY <1>1, <2>1, <2>2, GoesFields
  <2>4. calls[k].conn \in Conns \cup {0}
    BY <1>1 DEF Typed, Call
  <2>5. r' \in Client /\ r'.cl = calls[k].conn /\ ~r'.closed
    BY <1>1, <1>3, <2>1, <2>4, UndialledFields
  <2>6. DialTrue'
    BY <1>1, <2>1, <2>2, <2>3, <2>5, DialEnds
  <2> QED BY <1>1, <2>1, <2>2, <2>3, <2>5, <2>6, DialHolds DEF Typed, serverVars
<1> QED BY <1>2, <1>3

\* A notice is over: a call of that name returns, another goes on to its request.
LEMMA AfterNoticeFields ==
  ASSUME Typed, NEW k \in Callers, AfterNotice(k)
  PROVE  /\ Alone(k) /\ calls'[k].at \notin DialAt
         /\ k \in Effects => calls'[k].at \in Before /\ calls'[k].result = calls[k].result
<1>1. CASE k = Notice
  <2>1. Alone(k) /\ calls'[k].at = "over"
    BY <1>1, EndsFields DEF AfterNotice, Results
  <2> QED BY <1>1, <2>1, IpcAssumption DEF DialAt
<1>2. CASE k # Notice
  <2>1. Alone(k) /\ calls'[k].at = "write" /\ calls'[k].result = calls[k].result
    BY <1>2, GoesFields DEF AfterNotice, CallAt
  <2> QED BY <2>1 DEF DialAt, Before
<1> QED BY <1>1, <1>2

LEMMA NotifyHolds ==
  ASSUME IpcInv, NEW k \in Callers, Notify(k) PROVE IpcInv'
<1>1. /\ Typed /\ r \in Client /\ wire \subseteq Messages /\ calls[k].at = "notify"
      /\ UNCHANGED <<r, up, alive>> /\ UNCHANGED serverVars
      /\ "notify" \notin DialAt /\ "notify" \in Before
  BY DEF IpcInv, Typed, Notify, DialAt, Before
<1>2. CASE AfterNotice(k) /\ UNCHANGED wire
  <2>1. /\ Alone(k) /\ calls'[k].at \notin DialAt
        /\ k \in Effects => calls'[k].at \in Before /\ calls'[k].result = calls[k].result
    BY <1>1, <1>2, AfterNoticeFields
  <2> QED BY <1>1, <1>2, <2>1, QuietHolds DEF Kept
<1>3. CASE /\ calls[k].conn \in alive /\ Goes(k, "noticing")
           /\ wire' = wire \cup {Message(k, "mcp", "sent")}
  <2> DEFINE m == Message(k, "mcp", "sent")
  <2>1. m.what = "mcp" /\ m \in Messages
    BY <1>1, <1>3 DEF Message, Messages, Typed
  <2>2. wire' = wire \cup {m}
    BY <1>3
  <2> HIDE DEF m
  <2>3. wire' \subseteq Messages /\ \A n \in wire' : n \in wire \/ n.what = "mcp"
    BY <1>1, <2>1, <2>2
  <2>4. /\ Alone(k) /\ calls'[k].at = "noticing" /\ calls'[k].result = calls[k].result
        /\ "noticing" \notin DialAt /\ "noticing" \in Before
    BY <1>1, <1>3, GoesFields DEF CallAt, DialAt, Before
  <2> QED BY <1>1, <2>2, <2>3, <2>4, QuietHolds DEF Kept
<1> QED BY <1>2, <1>3 DEF Notify

LEMMA NoticedHolds ==
  ASSUME IpcInv, NEW k \in Callers, Noticed(k) PROVE IpcInv'
<1>1. /\ Typed /\ r \in Client /\ wire \subseteq Messages /\ calls[k].at = "noticing"
      /\ UNCHANGED <<r, up, alive>> /\ UNCHANGED serverVars /\ AfterNotice(k)
      /\ "noticing" \notin DialAt /\ "noticing" \in Before
      /\ wire' = wire \ {Message(k, "mcp", "ok")}
  BY DEF IpcInv, Typed, Noticed, DialAt, Before
<1>2. /\ Alone(k) /\ calls'[k].at \notin DialAt
      /\ k \in Effects => calls'[k].at \in Before /\ calls'[k].result = calls[k].result
  BY <1>1, AfterNoticeFields
<1>3. Message(k, "mcp", "ok").what = "mcp"
  BY DEF Message
<1> QED BY <1>1, <1>2, <1>3, QuietHolds DEF Kept

-----------------------------------------------------------------------------
(* The call itself.                                                        *)

\* A call that fails before anything was written may be tried again.
LEMMA UnsentHolds ==
  ASSUME IpcInv, NEW k \in Callers, calls[k].at = "write", Retry(k, "unsent"),
         UNCHANGED <<alive, wire>>, UNCHANGED serverVars
  PROVE  IpcInv'
<1>1. Typed /\ wire \subseteq Messages /\ "write" \notin DialAt /\ "write" \in Before
  BY DEF IpcInv, Typed, DialAt, Before
<1>2. /\ Alone(k)
      /\ \/ calls'[k].at = "over" /\ calls'[k].result = "unsent"
         \/ calls'[k].at = "ready" /\ calls'[k].result = calls[k].result
  BY <1>1, RetryFields
<1>3. "over" \notin DialAt /\ "ready" \notin DialAt /\ "ready" \in Before
  BY DEF DialAt, Before
<1>4. r' \in Client /\ r'.dialing = r.dialing /\ (Kept \/ GivenUp)
  BY <1>1, GoneFields DEF Retry
<1> QED BY <1>1, <1>2, <1>3, <1>4, QuietHolds

\* A call whose outcome is uncertain, whatever has become of its request and its answer.
LEMMA UncertainHolds ==
  ASSUME IpcInv, NEW k \in Callers, calls[k].at \in {"write", "sent"},
         Retry(k, "uncertain"),
         UNCHANGED alive, UNCHANGED serverVars, wire' \subseteq Messages,
         wire' \subseteq wire, \A m \in wire : m \in wire' \/ m.at \in {"ok", "error"}
  PROVE  IpcInv'
<1>1. Typed /\ "write" \notin DialAt /\ "sent" \notin DialAt
  BY DEF IpcInv, Typed, DialAt
<1>2. /\ Alone(k)
      /\ \/ calls'[k].at = "over" /\ calls'[k].result = "uncertain"
         \/ calls'[k].at = "ready" /\ k \notin Effects
  BY <1>1, RetryFields
<1>3. "over" \notin DialAt /\ "ready" \notin DialAt
  BY DEF DialAt
<1>4. r' \in Client /\ r'.dialing = r.dialing /\ (Kept \/ GivenUp)
  BY <1>1, GoneFields DEF Retry
<1> QED BY <1>1, <1>2, <1>3, <1>4, QuietHolds

\* The one step that puts a request on its way.
LEMMA SendHolds ==
  ASSUME IpcInv, NEW k \in Callers, calls[k].at = "write", calls[k].conn \in alive,
         Alone(k), calls'[k].at \notin DialAt,
         r' \in Client, r'.dialing = r.dialing, Kept \/ GivenUp,
         UNCHANGED alive, UNCHANGED serverVars,
         wire' = wire \cup {Message(k, "call", "sent")},
         k \in Effects => \/ calls'[k].at = "sent" /\ calls'[k].result = calls[k].result
                          \/ calls'[k].at = "over" /\ calls'[k].result = "uncertain"
  PROVE  IpcInv'
<1> DEFINE q == Message(k, "call", "sent")
<1>1. /\ q.call = k /\ q.what = "call" /\ q.at = "sent" /\ q \in Messages
  BY DEF Message, Messages, IpcInv, Typed
<1>2. wire' = wire \cup {q}
  OBVIOUS
<1> HIDE DEF q
<1>3. CountIsTrue' /\ UNCHANGED <<serving, ran, marked, count, host>>
  BY ServerKeeps
<1>4. Typed'
  BY <1>1, <1>2, <1>3 DEF IpcInv, Typed, Alone, Kept, GivenUp
<1>5. DialTrue'
  BY DialKeeps DEF Alone, DialAt
<1>6. ASSUME NEW e \in Effects, e # k PROVE Effect(e)'
  <2>1. Effect(e) /\ e \in Callers
    BY DEF IpcInv, Callers
  <2>2. SameRequest(e)
    BY <1>1, <1>2, <1>3, <1>6, SameWire
  <2>3. calls'[e] = calls[e]
    BY <1>6, <2>1 DEF Alone
  <2> QED BY <2>1, <2>2, <2>3, EffectKeeps
<1>7. CASE k \in Effects
  <2>1. Effect(k) /\ calls[k].at \in Before
    BY <1>7 DEF IpcInv, Before
  <2>2. Unsent(k) /\ calls[k].result = "none"
    BY <2>1 DEF Effect
  <2>3. OnItsWay(k)' = {q}
    BY <1>1, <1>2, <2>2 DEF OnItsWay, Unsent
  <2>4. OkHere(k)' = OkHere(k)
    BY <1>1, <1>2 DEF OkHere
  <2>5. OkHere(k) = {}
    BY <2>1, <2>2 DEF Effect, Unsent
  <2>6. ran'[k] = 0 /\ q \in wire'
    BY <1>2, <1>3, <2>2 DEF Unsent
  <2>7. /\ calls'[k].at \notin Before
        /\ calls'[k].result # "unsent" /\ calls'[k].result # "ok"
    BY <1>7, <2>2 DEF Before
  <2> QED BY <2>3, <2>4, <2>5, <2>6, <2>7, <1>3, <1>4, <1>5, <1>6 DEF Effect, IpcInv
<1> QED BY <1>3, <1>4, <1>5, <1>6, <1>7 DEF IpcInv

LEMMA WriteHolds ==
  ASSUME IpcInv, NEW k \in Callers, Write(k) PROVE IpcInv'
<1> DEFINE c == calls[k].conn
           q == Message(k, "call", "sent")
<1>1. /\ Typed /\ r \in Client /\ wire \subseteq Messages /\ calls[k].at = "write"
      /\ UNCHANGED alive /\ UNCHANGED serverVars /\ "sent" \notin DialAt
      /\ "write" \notin DialAt /\ "write" \in Before /\ "over" \notin DialAt
      /\ "ready" \notin DialAt
  BY DEF IpcInv, Typed, Write, DialAt, Before
<1>2. CASE Retry(k, "unsent") /\ UNCHANGED wire
  BY <1>1, <1>2, UnsentHolds
<1>3. CASE /\ c \in alive /\ Goes(k, "sent") /\ wire' = wire \cup {q}
           /\ UNCHANGED <<r, up>>
  <2>1. Alone(k) /\ calls'[k].at = "sent" /\ calls'[k].result = calls[k].result
    BY <1>1, <1>3, GoesFields DEF CallAt
  <2> QED BY <1>1, <1>3, <2>1, SendHolds DEF Kept
<1>4. CASE Goes(k, "sent") /\ UNCHANGED <<r, up, wire>>
  <2>1. Alone(k) /\ calls'[k].at = "sent" /\ calls'[k].result = calls[k].result
    BY <1>1, <1>4, GoesFields DEF CallAt
  <2> QED BY <1>1, <1>4, <2>1, QuietHolds DEF Kept
<1>5. ASSUME NEW written \in 0..1, NEW arrives \in SUBSET {q},
             c \in alive, arrives # {} => written = 1,
             Retry(k, Classified(written)), wire' = wire \cup arrives
      PROVE  IpcInv'
  <2> HIDE DEF q, c
  <2>1. CASE written = 0
    <3>1. Classified(written) = "unsent" /\ arrives = {}
      BY <1>5, <2>1 DEF Classified
    <3>2. Retry(k, "unsent")
      BY <1>5, <3>1, Zenon
    <3>3. wire' = wire
      BY <1>5, <3>1
    <3> QED BY <1>1, <3>2, <3>3, UnsentHolds
  <2>2. CASE written = 1 /\ arrives = {}
    <3>1. Classified(written) = "uncertain"
      BY <2>2 DEF Classified
    <3>2. Retry(k, "uncertain")
      BY <1>5, <3>1, Zenon
    <3>3. wire' = wire
      BY <1>5, <2>2
    <3> QED BY <1>1, <3>2, <3>3, UncertainHolds
  <2>3. CASE written = 1 /\ arrives = {q}
    <3>1. Classified(written) = "uncertain"
      BY <2>3 DEF Classified
    <3>2. Retry(k, "uncertain")
      BY <1>5, <3>1, Zenon
    <3>3. wire' = wire \cup {q}
      BY <1>5, <2>3
    <3>4. /\ Alone(k)
          /\ \/ calls'[k].at = "over" /\ calls'[k].result = "uncertain"
             \/ calls'[k].at = "ready" /\ k \notin Effects
      BY <1>1, <3>2, RetryFields
    <3>5. r' \in Client /\ r'.dialing = r.dialing /\ (Kept \/ GivenUp)
      BY <1>1, <3>2, GoneFields DEF Retry
    <3> QED BY <1>1, <1>5, <3>3, <3>4, <3>5, SendHolds DEF c, q
  <2> QED BY <2>1, <2>2, <2>3
<1> QED BY <1>1, <1>2, <1>3, <1>4, <1>5 DEF Write

LEMMA AnsweredHolds ==
  ASSUME IpcInv, NEW k \in Callers, Answered(k) PROVE IpcInv'
<1>1. /\ Typed /\ r \in Client /\ wire \subseteq Messages /\ calls[k].at = "sent"
      /\ UNCHANGED alive /\ UNCHANGED serverVars
      /\ "sent" \notin DialAt /\ "over" \notin DialAt
  BY DEF IpcInv, Typed, Answered, DialAt
<1>2. PICK m \in wire :
          /\ m \in {Message(k, "call", "ok"), Message(k, "call", "error")}
          /\ wire' = wire \ {m}
          /\ IF m.at = "ok" THEN Ends(k, "ok") /\ UNCHANGED <<r, up>>
                            ELSE Retry(k, "uncertain")
  BY DEF Answered
<1>3. m.call = k /\ m.what = "call" /\ m.at \in {"ok", "error"}
  BY <1>2 DEF Message
<1>4. CASE m.at = "ok"
  <2>1. Alone(k) /\ calls'[k].at = "over" /\ calls'[k].result = "ok" /\ UNCHANGED <<r, up>>
    BY <1>1, <1>2, <1>4, EndsFields DEF Results
  <2>2. k \in Effects => ran[k] = 1
    BY <1>3, <1>4 DEF IpcInv, Effect, OkHere
  <2> QED BY <1>1, <1>2, <1>3, <2>1, <2>2, QuietHolds DEF Kept
<1>5. CASE m.at # "ok"
  BY <1>1, <1>2, <1>3, <1>5, UncertainHolds
<1> QED BY <1>4, <1>5

LEMMA LostHolds ==
  ASSUME IpcInv, NEW k \in Callers, Lost(k) PROVE IpcInv'
<1>1. wire \subseteq Messages
  BY DEF IpcInv, Typed
<1> QED BY <1>1, UncertainHolds DEF Lost

LEMMA CancelHolds ==
  ASSUME IpcInv, NEW k \in Callers, Cancel(k) PROVE IpcInv'
<1>1. /\ Typed /\ r \in Client /\ wire \subseteq Messages
      /\ UNCHANGED alive /\ UNCHANGED serverVars /\ "over" \notin DialAt
      /\ wire' = {m \in wire : m.call # k \/ m.at \in {"sent", "running"}}
  BY DEF IpcInv, Typed, Cancel, DialAt
<1>2. wire' \subseteq wire /\ \A m \in wire : m \in wire' \/ m.at \in {"ok", "error"}
  BY <1>1 DEF Messages
<1>3. ASSUME NEW result \in {"unsent", "uncertain"},
             calls[k].at \in {"ready", "noticing", "write"},
             Ends(k, result), UNCHANGED <<r, up>>
      PROVE  IpcInv'
  <2>1. Alone(k) /\ calls'[k].at = "over" /\ calls'[k].result = result
    BY <1>1, <1>3, EndsFields DEF Results
  <2>2. calls[k].at \in Before /\ calls[k].at \notin DialAt
    BY <1>3 DEF Before, DialAt
  <2> QED BY <1>1, <1>2, <1>3, <2>1, <2>2, QuietHolds DEF Kept
<1>4. CASE calls[k].at = "sent" /\ Ends(k, "uncertain") /\ Gone(calls[k].conn)
  <2>1. Alone(k) /\ calls'[k].at = "over" /\ calls'[k].result = "uncertain"
    BY <1>1, <1>4, EndsFields DEF Results
  <2>2. r' \in Client /\ r'.dialing = r.dialing /\ (Kept \/ GivenUp)
    BY <1>1, <1>4, GoneFields
  <2>3. calls[k].at \notin DialAt
    BY <1>4 DEF DialAt
  <2> QED BY <1>1, <1>2, <2>1, <2>2, <2>3, QuietHolds
<1> QED BY <1>3, <1>4 DEF Cancel

-----------------------------------------------------------------------------
(* The server.                                                             *)

\* A step of the server's moves no call and opens no connection.
LEMMA ServerSide ==
  ASSUME IpcInv, UNCHANGED <<r, calls, alive>>, up' \subseteq up, Typed', CountIsTrue',
         \A e \in Effects : Effect(e)'
  PROVE  IpcInv'
<1>1. DialTrue'
  BY DialKeeps DEF Kept
<1> QED BY <1>1 DEF IpcInv

\* A request that is lost does no harm.
LEMMA EffectShrinks ==
  ASSUME NEW k \in Effects, Effect(k), UNCHANGED <<calls, ran>>,
         OnItsWay(k)' \subseteq OnItsWay(k), OkHere(k)' \subseteq OkHere(k)
  PROVE  Effect(k)'
<1>1. Unsent(k) => Unsent(k)'
  BY DEF Unsent
<1>2. OnItsWay(k) = {} => OnItsWay(k)' = {}
  OBVIOUS
<1>3. ASSUME NEW m \in wire, OnItsWay(k) = {m}
      PROVE  OnItsWay(k)' = {} \/ \E n \in wire' : OnItsWay(k)' = {n}
  <2>1. OnItsWay(k)' = {} \/ OnItsWay(k)' = {m}
    BY <1>3
  <2>2. OnItsWay(k)' = {m} => m \in wire'
    BY DEF OnItsWay
  <2> QED BY <2>1, <2>2
<1>4. /\ Unsent(k)' \/ (ran'[k] = 1 /\ OnItsWay(k)' = {})
                    \/ (ran'[k] = 0 /\ \E m \in wire' : OnItsWay(k)' = {m})
  BY <1>1, <1>2, <1>3 DEF Effect, Unsent
<1>5. OkHere(k)' # {} => ran'[k] = 1
  BY DEF Effect
<1> QED BY <1>1, <1>4, <1>5 DEF Effect

LEMMA ServerReadsHolds ==
  ASSUME IpcInv, NEW m \in wire, ServerReads(m) PROVE IpcInv'
<1> DEFINE q == [m EXCEPT !.at = "running"]
<1>1. Typed /\ m \in Messages /\ m.at = "sent" /\ wire' = (wire \ {m}) \cup {q}
  BY DEF IpcInv, Typed, ServerReads
<1>2. q \in Messages /\ q.call = m.call /\ q.what = m.what /\ q.at = "running"
  BY <1>1 DEF Messages
<1> HIDE DEF q
<1>3. UNCHANGED <<r, calls, up, alive, serving, ran, marked, count, host>>
  BY DEF ServerReads
<1>4. Typed' /\ CountIsTrue'
  BY <1>1, <1>2, <1>3 DEF IpcInv, Typed, CountIsTrue
<1>5. ASSUME NEW e \in Effects PROVE Effect(e)'
  <2>1. Effect(e)
    BY DEF IpcInv
  <2>2. OkHere(e)' = OkHere(e)
    BY <1>1, <1>2 DEF OkHere
  <2>3. CASE ~(m.call = e /\ m.what = "call")
    <3>1. OnItsWay(e)' = OnItsWay(e)
      BY <1>1, <1>2, <2>3 DEF OnItsWay
    <3> QED BY <1>3, <2>1, <2>2, <3>1, EffectShrinks
  <2>4. CASE m.call = e /\ m.what = "call"
    <3>1. m \in OnItsWay(e)
      BY <1>1, <2>4 DEF OnItsWay
    <3>2. ran[e] = 0 /\ OnItsWay(e) = {m} /\ ~Unsent(e)
      BY <2>1, <3>1 DEF Effect, Unsent
    <3>3. OnItsWay(e)' = {q} /\ q \in wire'
      BY <1>1, <1>2, <2>4, <3>2 DEF OnItsWay
    <3> QED BY <1>3, <2>1, <2>2, <3>2, <3>3 DEF Effect
  <2> QED BY <2>3, <2>4
<1> QED BY <1>3, <1>4, <1>5, ServerSide

LEMMA ExecuteHolds ==
  ASSUME IpcInv, NEW m \in wire, Execute(m) PROVE IpcInv'
<1>1. /\ Typed /\ m \in Messages /\ m.at = "running" /\ CountIsTrue
      /\ UNCHANGED <<r, calls, up, alive, serving, host>>
  BY DEF IpcInv, Typed, Execute
<1>2. PICK answer \in {"ok", "error"} :
          wire' = (wire \ {m}) \cup {a \in {[m EXCEPT !.at = answer]} : Awaited(m)}
  BY DEF Execute, Answers
<1> DEFINE kept == {a \in {[m EXCEPT !.at = answer]} : Awaited(m)}
<1>3. \A q \in kept : q \in Messages /\ q.call = m.call /\ q.what = m.what /\ q.at \in {"ok", "error"}
  BY <1>1, <1>2 DEF Messages
<1>0. wire' = (wire \ {m}) \cup kept
  BY <1>2
<1> HIDE DEF kept
<1>4. wire' \subseteq Messages
  BY <1>0, <1>1, <1>3 DEF Typed
<1>5. /\ ran' = IF m.call \in Effects /\ m.what = "call" THEN [ran EXCEPT ![m.call] = @ + 1] ELSE ran
      /\ IF m.what = "mcp" /\ MayMark(m.conn)
         THEN marked' = marked \cup {m.conn} /\ count' = count + 1
         ELSE UNCHANGED <<marked, count>>
  BY DEF Execute
<1>6. ran' \in [Effects -> Nat]
  BY <1>1, <1>5 DEF Typed
<1>7. marked' \subseteq Conns /\ CountIsTrue'
  <2>1. CASE m.what = "mcp" /\ MayMark(m.conn)
    <3>1. m.conn \in serving /\ m.conn \notin marked /\ marked' = marked \cup {m.conn}
          /\ count' = count + 1
      BY <1>5, <2>1 DEF MayMark
    <3>2. IsFiniteSet(marked)
      BY <1>1, ConnNumbers, FS_Subset DEF Typed
    <3>3. Cardinality(marked') = Cardinality(marked) + 1
      BY <3>1, <3>2, FS_AddElement
    <3> QED BY <1>1, <3>1, <3>3 DEF CountIsTrue, Typed
  <2>2. CASE UNCHANGED <<marked, count>>
    BY <1>1, <2>2 DEF CountIsTrue, Typed
  <2> QED BY <1>5, <2>1, <2>2
<1>8. Typed'
  BY <1>1, <1>4, <1>6, <1>7 DEF Typed
<1>9. ASSUME NEW e \in Effects PROVE Effect(e)'
  <2>1. Effect(e)
    BY DEF IpcInv
  <2>2. CASE ~(m.call = e /\ m.what = "call")
    <3>1. ran'[e] = ran[e]
      BY <1>1, <1>5, <2>2 DEF Typed
    <3>2. OnItsWay(e)' = OnItsWay(e) /\ OkHere(e)' = OkHere(e)
      BY <1>0, <1>3, <2>2 DEF OnItsWay, OkHere
    <3> QED BY <1>1, <2>1, <3>1, <3>2, EffectKeeps DEF SameRequest
  <2>3. CASE m.call = e /\ m.what = "call"
    <3>1. m \in OnItsWay(e)
      BY <1>1, <2>3 DEF OnItsWay
    <3>2. ran[e] = 0 /\ OnItsWay(e) = {m} /\ ~Unsent(e)
      BY <2>1, <3>1 DEF Effect, Unsent
    <3>3. OnItsWay(e)' = {}
      BY <1>0, <1>1, <1>3, <3>2 DEF OnItsWay
    <3>4. ran'[e] = 1
      BY <1>1, <1>5, <2>3, <3>2 DEF Typed
    <3> QED BY <1>1, <2>1, <3>2, <3>3, <3>4 DEF Effect
  <2> QED BY <2>2, <2>3
<1> QED BY <1>1, <1>7, <1>8, <1>9, ServerSide

LEMMA HandlerEndsHolds ==
  ASSUME IpcInv, NEW c \in Conns, HandlerEnds(c) PROVE IpcInv'
<1>1. /\ Typed /\ CountIsTrue /\ UNCHANGED <<r, calls, alive, ran, host>>
      /\ serving' = serving \ {c} /\ up' = up \ {c} /\ marked' = marked \ {c}
      /\ wire' = {m \in wire : m.conn # c \/ m.at # "sent"}
      /\ count' = IF c \in marked /\ count > 0 THEN count - 1 ELSE count
  BY DEF IpcInv, HandlerEnds
<1>2. Typed'
  BY <1>1 DEF Typed
<1>3. CountIsTrue'
  <2>1. IsFiniteSet(marked)
    BY <1>1, ConnNumbers, FS_Subset DEF Typed
  <2>2. CASE c \in marked
    <3>1. Cardinality(marked \ {c}) = Cardinality(marked) - 1
      BY <2>1, <2>2, FS_RemoveElement
    <3>2. Cardinality(marked \ {c}) \in Nat
      BY <2>1, FS_Subset, FS_CardinalityType
    <3>3. Cardinality(marked) \in Nat
      BY <2>1, FS_CardinalityType
    <3> QED BY <1>1, <2>2, <3>1, <3>2, <3>3 DEF CountIsTrue
  <2>3. CASE c \notin marked
    <3>1. marked' = marked
      BY <1>1, <2>3
    <3> QED BY <1>1, <2>3, <3>1 DEF CountIsTrue
  <2> QED BY <2>2, <2>3
<1>4. ASSUME NEW e \in Effects PROVE Effect(e)'
  <2>1. OnItsWay(e)' \subseteq OnItsWay(e) /\ OkHere(e)' \subseteq OkHere(e)
    BY <1>1 DEF OnItsWay, OkHere
  <2> QED BY <1>1, <2>1, EffectShrinks DEF IpcInv
<1> QED BY <1>1, <1>2, <1>3, <1>4, ServerSide

LEMMA HostDiesHolds ==
  ASSUME IpcInv, HostDies PROVE IpcInv'
<1>1. /\ Typed /\ UNCHANGED <<r, calls, alive, ran>>
      /\ up' = {} /\ serving' = {} /\ marked' = {} /\ count' = 0
      /\ wire' = {m \in wire : m.at \in {"ok", "error"}}
      /\ host' = [host EXCEPT !.up = FALSE]
  BY DEF IpcInv, HostDies
<1>2. Typed'
  BY <1>1 DEF Typed
<1>3. CountIsTrue'
  BY <1>1, FS_EmptySet DEF CountIsTrue
<1>4. ASSUME NEW e \in Effects PROVE Effect(e)'
  <2>1. OnItsWay(e)' \subseteq OnItsWay(e) /\ OkHere(e)' \subseteq OkHere(e)
    BY <1>1 DEF OnItsWay, OkHere
  <2> QED BY <1>1, <2>1, EffectShrinks DEF IpcInv
<1> QED BY <1>1, <1>2, <1>3, <1>4, ServerSide

LEMMA HostStartsHolds ==
  ASSUME IpcInv, HostStarts PROVE IpcInv'
<1>1. /\ Typed /\ CountIsTrue /\ host' = [host EXCEPT !.up = TRUE]
      /\ UNCHANGED <<r, calls, up, alive, serving, wire, ran, marked, count>>
  BY DEF IpcInv, HostStarts
<1>2. Typed' /\ CountIsTrue'
  BY <1>1 DEF Typed, CountIsTrue
<1>3. ASSUME NEW e \in Effects PROVE Effect(e)'
  <2>1. OnItsWay(e)' = OnItsWay(e) /\ OkHere(e)' = OkHere(e)
    BY <1>1 DEF OnItsWay, OkHere
  <2> QED BY <1>1, <2>1, EffectShrinks DEF IpcInv
<1> QED BY <1>1, <1>2, <1>3, ServerSide

-----------------------------------------------------------------------------
(* The theorems.                                                           *)

LEMMA StepHolds == IpcInv /\ [Next]_vars => IpcInv'
<1> SUFFICES ASSUME IpcInv, [Next]_vars PROVE IpcInv'
  OBVIOUS
<1>1. CASE UNCHANGED vars
  <2>1. UNCHANGED <<r, calls, up, alive, serving, wire, ran, marked, count, host>>
    BY <1>1 DEF vars
  <2>2. UNCHANGED serverVars /\ r \in Client
    BY <2>1 DEF serverVars, IpcInv, Typed
  <2> QED BY <2>1, <2>2, StillHolds DEF Kept
<1>2. CASE System
  <2>1. ASSUME NEW k \in Callers,
               \/ Ready(k) \/ DialOpens(k) \/ DialFails(k) \/ DialAdopts(k)
               \/ Notify(k) \/ Noticed(k) \/ Write(k) \/ Answered(k) \/ Lost(k)
        PROVE  IpcInv'
    BY <2>1, ReadyHolds, DialOpensHolds, DialFailsHolds, DialAdoptsHolds, NotifyHolds,
       NoticedHolds, WriteHolds, AnsweredHolds, LostHolds
  <2>2. ASSUME NEW c \in Conns, ReadEnds(c) \/ HandlerEnds(c) PROVE IpcInv'
    BY <2>2, ReadEndsHolds, HandlerEndsHolds
  <2>3. ASSUME NEW m \in wire, ServerReads(m) PROVE IpcInv'
    BY <2>3, ServerReadsHolds
  <2> QED BY <1>2, <2>1, <2>2, <2>3 DEF System
<1>3. CASE Environment
  <2>1. ASSUME NEW k \in Callers, Issue(k) \/ Cancel(k) PROVE IpcInv'
    BY <2>1, IssueHolds, CancelHolds
  <2>2. ASSUME NEW c \in Conns, HandlerEnds(c) PROVE IpcInv'
    BY <2>2, HandlerEndsHolds
  <2>3. ASSUME NEW m \in wire, Execute(m) PROVE IpcInv'
    BY <2>3, ExecuteHolds
  <2> QED BY <1>3, <2>1, <2>2, <2>3, AnnounceHolds, WithdrawHolds, CloseHolds,
             HostDiesHolds, HostStartsHolds DEF Environment
<1> QED BY <1>1, <1>2, <1>3 DEF Next

\* Nothing a client, a server or a dying supervisor does leaves the inductive invariant:
\* the requests on their way, the connections and the count go together.
THEOREM IpcInvHolds == Spec => []IpcInv
<1>1. Init => IpcInv
  BY InitHolds
<1>2. IpcInv /\ [Next]_vars => IpcInv'
  BY StepHolds
<1> QED BY <1>1, <1>2, PTL DEF Spec

LEMMA TypesFollow == IpcInv => TypeOK
<1> SUFFICES ASSUME IpcInv PROVE TypeOK
  OBVIOUS
<1>1. Typed /\ CountIsTrue
  BY DEF IpcInv
<1>2. Cardinality(marked) \in Nat /\ Cardinality(marked) <= Cardinality(Conns)
  BY <1>1, ConnNumbers, FS_Subset, FS_CardinalityType DEF Typed
<1>3. count \in 0..Cardinality(Conns)
  BY <1>1, <1>2, ConnNumbers DEF CountIsTrue
<1>4. {up, alive, serving, marked} \subseteq SUBSET Conns
  BY <1>1 DEF Typed
<1>5. calls \in [Callers ->
           [at : {"idle", "ready", "dial", "adopt", "notify", "noticing", "write", "sent", "over"},
            conn : Conns \cup {0}, try : {1, 2},
            result : {"none", "ok", "uncertain", "unsent"}]]
  BY <1>1 DEF Typed, Call, CallAt, Results
<1> QED BY <1>1, <1>3, <1>4, <1>5 DEF Typed, TypeOK, Client, Messages

\* The types of the client, the connections, the messages and the server's count
\* (session.go, ipc/client.go, ipc/server.go).
THEOREM IpcTypes == Spec => []TypeOK
  BY IpcInvHolds, TypesFollow, PTL

LEMMA EffectsOnce == IpcInv => EffectOnce
<1> SUFFICES ASSUME IpcInv, NEW k \in Effects
             PROVE  /\ Total(k) <= 1
                    /\ calls[k].result = "ok" => ran[k] = 1
                    /\ calls[k].result = "unsent" => Total(k) = 0
  BY DEF EffectOnce
<1>1. Effect(k)
  BY DEF IpcInv
<1>2. Cardinality({}) = 0 /\ \A m : Cardinality({m}) = 1
  BY FS_EmptySet, FS_Singleton
<1>3. Unsent(k) => Total(k) = 0
  BY <1>2 DEF Unsent, Total
<1>4. ran[k] = 1 /\ OnItsWay(k) = {} => Total(k) = 1
  BY <1>2 DEF Total
<1>5. ASSUME ran[k] = 0, NEW m \in wire, OnItsWay(k) = {m} PROVE Total(k) = 1
  <2>1. Cardinality(OnItsWay(k)) = 1
    BY <1>2, <1>5, Zenon
  <2> QED BY <1>5, <2>1 DEF Total
<1> QED BY <1>1, <1>3, <1>4, <1>5 DEF Effect

\* Dispatch, Followup, PlanDecide and the other calls that change something run at most
\* once for any number of reconnections and supervisors, and one reported as unsent never
\* runs (session.go:145, ipc/errors.go:5).
THEOREM EffectsRunOnce == Spec => []EffectOnce
  BY IpcInvHolds, EffectsOnce, PTL

\* Every open connection belongs to the client or to the call that dials (session.go's
\* ready, connect and Close).
THEOREM ConnectionsAreOwned == Spec => []NoConnectionLeaks
<1>1. IpcInv => NoConnectionLeaks
  BY DEF IpcInv, DialTrue
<1> QED BY <1>1, IpcInvHolds, PTL

\* The number of MCP processes the supervisor shows is that of the marked connections it
\* still serves (server.go:408).
THEOREM TheCountIsTrue == Spec => []CountIsTrue
<1>1. IpcInv => CountIsTrue
  BY DEF IpcInv
<1> QED BY <1>1, IpcInvHolds, PTL

-----------------------------------------------------------------------------
(* Every call returns.                                                     *)

Carried(k) == \E m \in wire : /\ m.call = k /\ m.conn = calls[k].conn
                              /\ m.what = (IF calls[k].at = "noticing" THEN "mcp" ELSE "call")
Waits(k) == calls[k].at \in {"sent", "noticing"} /\ calls[k].conn \in up \cap alive
Dialled == /\ up \cup alive \cup {r.cl} \subseteq 0..host.dialled
           /\ \A k \in Callers : calls[k].conn \in 0..host.dialled
\* The client knows of a dial only while a call dials; and the request or the answer of a
\* call that waits on an open connection is somewhere on it: no later dial takes its number.
Going ==
    /\ r.dialing => \E k \in Callers : calls[k].at \in DialAt
    /\ up \subseteq serving
    /\ Dialled
    /\ \A k \in Callers : Waits(k) => Carried(k)

LEMMA InitGoing == Init => Going
<1> SUFFICES ASSUME Init PROVE Going
  OBVIOUS
<1>1. /\ r.cl = 0 /\ ~r.dialing /\ calls = [k \in Callers |-> Idle] /\ up = {} /\ alive = {}
      /\ host.dialled = 0
  BY DEF Init
<1> QED BY <1>1 DEF Going, Dialled, Waits, Idle

LEMMA HostNumber == Typed => host.dialled \in Nat
<1>1. Typed => host.dialled \in Conns \cup {0}
  BY DEF Typed
<1>2. Conns \subseteq Nat /\ 0 \in Nat
  BY ConnNumbers
<1> QED BY <1>1, <1>2

\* A step of one call, on the connections there are.
LEMMA CallerGoes ==
  ASSUME IpcInv, Going, NEW k \in Callers, Alone(k), UNCHANGED <<alive, serving, host>>,
         up' \subseteq up, r'.cl \in {0, r.cl, calls[k].conn},
         calls'[k].conn \in {0, r.cl, calls[k].conn},
         r'.dialing => \/ calls'[k].at \in DialAt
                       \/ r'.dialing = r.dialing /\ calls[k].at \notin DialAt,
         \A m \in wire : m \in wire' \/ m.call = k,
         Waits(k)' => Carried(k)'
  PROVE  Going'
<1>1. Typed /\ host.dialled \in Nat
  BY HostNumber DEF IpcInv
<1>2. r'.dialing => \E j \in Callers : calls'[j].at \in DialAt
  <2>1. CASE calls'[k].at \in DialAt
    BY <2>1
  <2>2. CASE r'.dialing = r.dialing /\ calls[k].at \notin DialAt
    BY <2>2 DEF Going, Alone
  <2> QED BY <2>1, <2>2
<1>3. up' \subseteq serving'
  BY DEF Going
<1>4. Dialled'
  <2>1. calls[k].conn \in 0..host.dialled /\ r.cl \in 0..host.dialled
    BY DEF Going, Dialled
  <2>2. up' \cup alive' \cup {r'.cl} \subseteq 0..host'.dialled
    BY <1>1, <2>1 DEF Going, Dialled
  <2>3. ASSUME NEW j \in Callers PROVE calls'[j].conn \in 0..host'.dialled
    <3>1. CASE j = k
      BY <1>1, <2>1, <3>1
    <3>2. CASE j # k
      BY <3>2 DEF Going, Dialled, Alone
    <3> QED BY <3>1, <3>2
  <2> QED BY <2>2, <2>3 DEF Dialled
<1>5. ASSUME NEW j \in Callers, Waits(j)' PROVE Carried(j)'
  <2>1. CASE j # k
    <3>1. calls'[j] = calls[j] /\ Waits(j)
      BY <1>5, <2>1 DEF Alone, Waits
    <3>2. PICK m \in wire : /\ m.call = j /\ m.conn = calls[j].conn
                            /\ m.what = (IF calls[j].at = "noticing" THEN "mcp" ELSE "call")
      BY <3>1 DEF Going, Carried
    <3>3. m \in wire'
      BY <2>1, <3>2
    <3> QED BY <3>1, <3>2, <3>3 DEF Carried
  <2> QED BY <1>5, <2>1
<1> QED BY <1>2, <1>3, <1>4, <1>5 DEF Going

\* A step in which no call moves and no connection is dialled.
LEMMA WireGoes ==
  ASSUME IpcInv, Going, UNCHANGED calls, r'.dialing = r.dialing, r'.cl \in {0, r.cl},
         up' \subseteq up, alive' \subseteq alive, up' \subseteq serving',
         host'.dialled = host.dialled,
         \A m \in wire : \/ m.conn \notin up' \cap alive' \/ calls[m.call].conn # m.conn
                         \/ calls[m.call].at \notin {"sent", "noticing"}
                         \/ \E n \in wire' : /\ n.call = m.call /\ n.conn = m.conn
                                             /\ n.what = m.what
  PROVE  Going'
<1>1. Typed /\ host.dialled \in Nat
  BY HostNumber DEF IpcInv
<1>2. r'.dialing => \E j \in Callers : calls'[j].at \in DialAt
  BY DEF Going
<1>3. Dialled'
  <2>1. up \cup alive \cup {r.cl} \subseteq 0..host.dialled
    BY DEF Going, Dialled
  <2>2. up' \cup alive' \cup {r'.cl} \subseteq 0..host'.dialled
    BY <1>1, <2>1
  <2>3. \A j \in Callers : calls'[j].conn \in 0..host'.dialled
    BY DEF Going, Dialled
  <2> QED BY <2>2, <2>3 DEF Dialled
<1>4. ASSUME NEW j \in Callers, Waits(j)' PROVE Carried(j)'
  <2>1. Waits(j)
    BY <1>4 DEF Waits
  <2>2. PICK m \in wire : /\ m.call = j /\ m.conn = calls[j].conn
                          /\ m.what = (IF calls[j].at = "noticing" THEN "mcp" ELSE "call")
    BY <2>1 DEF Going, Carried
  <2>3. m.conn \in up' \cap alive' /\ calls[m.call].conn = m.conn
        /\ calls[m.call].at \in {"sent", "noticing"}
    BY <1>4, <2>2 DEF Waits
  <2>4. PICK n \in wire' : n.call = j /\ n.conn = calls[j].conn /\ n.what = m.what
    BY <2>2, <2>3
  <2> QED BY <2>2, <2>4 DEF Carried
<1> QED BY <1>2, <1>3, <1>4 DEF Going

\* A call that has returned is on no connection; one that tries again has left its own.
LEMMA EndsConn ==
  ASSUME Typed, NEW k \in Callers, NEW result, Ends(k, result)
  PROVE  calls'[k].conn = 0
<1>1. calls' = [calls EXCEPT ![k] = Over(result)]
  BY DEF Ends
<1> QED BY <1>1 DEF Typed, Over, Idle

LEMMA RetryConn ==
  ASSUME Typed, NEW k \in Callers, NEW error, Retry(k, error)
  PROVE  calls'[k].conn = 0
<1>1. calls[k] \in Call
  BY DEF Typed
<1>2. \/ calls' = [calls EXCEPT ![k] = Over(error)]
      \/ calls' = [calls EXCEPT ![k] = [calls[k] EXCEPT !.at = "ready", !.conn = 0,
                                                        !.try = calls[k].try + 1]]
  BY DEF Retry
<1>3. Over(error).conn = 0
  BY DEF Over, Idle
<1>4. [calls[k] EXCEPT !.at = "ready", !.conn = 0, !.try = calls[k].try + 1].conn = 0
  BY <1>1 DEF Call
<1> QED BY <1>2, <1>3, <1>4 DEF Typed

\* A connection given up is the client's no more.
LEMMA GoneConn ==
  ASSUME Typed, NEW c, Gone(c)
  PROVE  r'.dialing = r.dialing /\ r'.cl \in {0, r.cl} /\ up' \subseteq up
<1>1. r'.dialing = r.dialing /\ (Kept \/ GivenUp)
  BY GoneFields
<1> QED BY <1>1 DEF Kept, GivenUp

-----------------------------------------------------------------------------
(* The steps of the calls.                                                 *)

LEMMA IssueGoes ==
  ASSUME IpcInv, Going, NEW k \in Callers, Issue(k) PROVE Going'
<1>1. Alone(k) /\ calls'[k].at = "ready" /\ calls'[k].conn = calls[k].conn /\ calls[k].at = "idle"
  BY GoesFields DEF IpcInv, Issue, CallAt
<1>2. UNCHANGED <<r, up, alive, wire>> /\ UNCHANGED serverVars
  BY DEF Issue
<1> QED BY <1>1, <1>2, CallerGoes DEF DialAt, Waits, serverVars

LEMMA AnnounceGoes ==
  ASSUME IpcInv, Going, Announce PROVE Going'
<1>1. Typed /\ Notice \in Callers
  BY DEF IpcInv, Callers
<1>2. r \in Client /\ r' = [r EXCEPT !.live = TRUE]
  BY <1>1 DEF Typed, Announce
<1>3. r'.dialing = r.dialing /\ r'.cl = r.cl
  BY <1>2 DEF Client
<1> DEFINE at == IF r.cl \in alive THEN "notify" ELSE "ready"
<1>4. at \in CallAt /\ at \in {"notify", "ready"} /\ r.cl \in Conns \cup {0}
  BY <1>2 DEF CallAt, Client
<1>5. calls' = [calls EXCEPT ![Notice].at = at, ![Notice].conn = r.cl]
  <2>1. calls[Notice] \in Call /\ calls \in [Callers -> Call]
    BY <1>1 DEF Typed
  <2>2. calls' = [calls EXCEPT ![Notice].conn = r.cl, ![Notice].at = at]
    BY DEF Announce
  <2> HIDE DEF at
  <2>3. [[calls[Notice] EXCEPT !.conn = r.cl] EXCEPT !.at = at]
          = [[calls[Notice] EXCEPT !.at = at] EXCEPT !.conn = r.cl]
    BY <2>1 DEF Call
  <2> QED BY <1>1, <2>1, <2>2, <2>3
<1> HIDE DEF at
<1>6. Alone(Notice) /\ calls'[Notice].at = at /\ calls'[Notice].conn = r.cl
  BY <1>1, <1>4, <1>5, GoesWith
<1>7. calls[Notice].at = "idle" /\ UNCHANGED <<up, alive, wire>> /\ UNCHANGED serverVars
  BY <1>1 DEF Announce
<1> QED BY <1>1, <1>3, <1>4, <1>6, <1>7, CallerGoes DEF DialAt, Waits, serverVars

LEMMA ReadyGoes ==
  ASSUME IpcInv, Going, NEW k \in Callers, Ready(k) PROVE Going'
<1>1. /\ Typed /\ r \in Client /\ calls[k].at = "ready"
      /\ UNCHANGED <<alive, wire, serving, host>>
  BY DEF IpcInv, Typed, Ready, serverVars
<1>2. CASE r.closed /\ Ends(k, "unsent") /\ UNCHANGED <<r, up>>
  <2>1. Alone(k) /\ calls'[k].at = "over" /\ calls'[k].conn = 0
    BY <1>1, <1>2, EndsFields, EndsConn DEF Results
  <2> QED BY <1>1, <1>2, <2>1, CallerGoes DEF DialAt, Waits
<1>3. CASE /\ r.cl \in alive /\ UNCHANGED <<r, up>>
           /\ calls' = [calls EXCEPT ![k].at = AfterReady(k), ![k].conn = r.cl]
  <2>1. AfterReady(k) \in {"notify", "write"}
    BY DEF AfterReady
  <2>2. AfterReady(k) \in CallAt /\ r.cl \in Conns \cup {0}
    BY <1>1, <2>1 DEF CallAt, Client
  <2>3. Alone(k) /\ calls'[k].at = AfterReady(k) /\ calls'[k].conn = r.cl
    BY <1>1, <1>3, <2>2, GoesWith
  <2> QED BY <1>1, <1>3, <2>1, <2>3, CallerGoes DEF DialAt, Waits
<1>4. CASE /\ r' = [r EXCEPT !.dialing = TRUE, !.cl = 0]
           /\ up' = up \ {r.cl} /\ Goes(k, "dial")
  <2>1. Alone(k) /\ calls'[k].at = "dial" /\ calls'[k].conn = calls[k].conn
    BY <1>1, <1>4, GoesFields DEF CallAt
  <2>2. r'.cl = 0
    BY <1>1, <1>4 DEF Client
  <2> QED BY <1>1, <1>4, <2>1, <2>2, CallerGoes DEF DialAt, Waits
<1> QED BY <1>2, <1>3, <1>4 DEF Ready

\* The number of a new connection is one that no call, and nothing on its way, has.
LEMMA DialOpensGoes ==
  ASSUME IpcInv, Going, NEW k \in Callers, DialOpens(k) PROVE Going'
<1>1. Typed /\ host.dialled \in Nat /\ calls[k].at = "dial"
  BY HostNumber DEF IpcInv, DialOpens
<1>2. PICK c \in Conns :
          /\ c = host.dialled + 1
          /\ host' = [host EXCEPT !.dialled = c]
          /\ up' = up \cup {c} /\ alive' = alive \cup {c} /\ serving' = serving \cup {c}
          /\ calls' = [calls EXCEPT ![k].at = "adopt", ![k].conn = c]
  BY DEF DialOpens
<1>3. UNCHANGED <<r, wire>>
  BY DEF DialOpens
<1>4. Alone(k) /\ calls'[k].at = "adopt" /\ calls'[k].conn = c
  BY <1>1, <1>2, GoesWith DEF CallAt
<1>5. host'.dialled = c
  BY <1>1, <1>2 DEF Typed
<1>6. Dialled'
  <2>1. up' \cup alive' \cup {r'.cl} \subseteq 0..host'.dialled
    BY <1>1, <1>2, <1>3, <1>5 DEF Going, Dialled
  <2>2. ASSUME NEW j \in Callers PROVE calls'[j].conn \in 0..host'.dialled
    <3>1. calls[j].conn \in 0..host.dialled
      BY DEF Going, Dialled
    <3> QED BY <1>1, <1>2, <1>4, <1>5, <3>1 DEF Alone
  <2> QED BY <2>1, <2>2 DEF Dialled
<1>7. ASSUME NEW j \in Callers, Waits(j)' PROVE Carried(j)'
  <2>1. j # k /\ calls'[j] = calls[j]
    BY <1>4, <1>7 DEF Waits, Alone
  <2>2. calls[j].conn \in 0..host.dialled
    BY DEF Going, Dialled
  <2>3. Waits(j)
    BY <1>1, <1>2, <1>7, <2>1, <2>2 DEF Waits
  <2> QED BY <1>3, <2>1, <2>3 DEF Going, Carried
<1> QED BY <1>2, <1>4, <1>6, <1>7 DEF Going, DialAt

LEMMA DialFailsGoes ==
  ASSUME IpcInv, Going, NEW k \in Callers, DialFails(k) PROVE Going'
<1>1. /\ Typed /\ r \in Client /\ calls[k].at \in DialAt /\ r' = Undialled
      /\ Ends(k, "unsent") /\ UNCHANGED <<alive, wire, serving, host>>
      /\ up' \subseteq up
  BY DEF IpcInv, Typed, DialFails, DialAt, serverVars
<1>2. Alone(k) /\ calls'[k].at = "over" /\ calls'[k].conn = 0
  BY <1>1, EndsFields, EndsConn DEF Results
<1>3. ~r'.dialing /\ r'.cl = r.cl
  BY <1>1 DEF Undialled, Client
<1> QED BY <1>1, <1>2, <1>3, CallerGoes DEF DialAt, Waits

LEMMA DialAdoptsGoes ==
  ASSUME IpcInv, Going, NEW k \in Callers, DialAdopts(k) PROVE Going'
<1>1. /\ Typed /\ r \in Client /\ calls[k].at = "adopt" /\ UNCHANGED <<alive, wire, serving, host>>
  BY DEF IpcInv, Typed, DialAdopts, serverVars
<1>2. CASE r.closed
  <2>1. r' = Undialled /\ up' = up \ {calls[k].conn} /\ Ends(k, "unsent")
    BY <1>2 DEF DialAdopts
  <2>2. Alone(k) /\ calls'[k].at = "over" /\ calls'[k].conn = 0
    BY <1>1, <2>1, EndsFields, EndsConn DEF Results
  <2>3. ~r'.dialing /\ r'.cl = r.cl
    BY <1>1, <2>1 DEF Undialled, Client
  <2> QED BY <1>1, <2>1, <2>2, <2>3, CallerGoes DEF DialAt, Waits
<1>3. CASE ~r.closed
  <2> DEFINE at == IF r.live THEN "notify" ELSE AfterReady(k)
  <2>1. r' = [Undialled EXCEPT !.cl = calls[k].conn] /\ up' = up /\ Goes(k, at)
    BY <1>3 DEF DialAdopts
  <2>2. at \in CallAt /\ at \in {"notify", "write"}
    BY DEF AfterReady, CallAt
  <2> HIDE DEF at
  <2>3. Alone(k) /\ calls'[k].at = at /\ calls'[k].conn = calls[k].conn
    BY <1>1, <2>1, <2>2, GoesFields
  <2>4. ~r'.dialing /\ r'.cl = calls[k].conn
    BY <1>1, <2>1 DEF Undialled, Client
  <2> QED BY <1>1, <2>1, <2>2, <2>3, <2>4, CallerGoes DEF DialAt, Waits
<1> QED BY <1>2, <1>3

LEMMA AfterNoticeConn ==
  ASSUME Typed, NEW k \in Callers, AfterNotice(k)
  PROVE  /\ Alone(k) /\ calls'[k].at \in {"over", "write"}
         /\ calls'[k].conn \in {0, calls[k].conn}
<1>1. CASE k = Notice
  BY <1>1, EndsFields, EndsConn DEF AfterNotice, Results
<1>2. CASE k # Notice
  BY <1>2, GoesFields DEF AfterNotice, CallAt
<1> QED BY <1>1, <1>2

LEMMA NotifyGoes ==
  ASSUME IpcInv, Going, NEW k \in Callers, Notify(k) PROVE Going'
<1>1. /\ Typed /\ calls[k].at = "notify" /\ UNCHANGED <<r, up, alive, serving, host>>
  BY DEF IpcInv, Notify, serverVars
<1>2. CASE AfterNotice(k) /\ UNCHANGED wire
  BY <1>1, <1>2, AfterNoticeConn, CallerGoes DEF DialAt, Waits
<1>3. CASE Goes(k, "noticing") /\ wire' = wire \cup {Message(k, "mcp", "sent")}
  <2>1. Alone(k) /\ calls'[k].at = "noticing" /\ calls'[k].conn = calls[k].conn
    BY <1>1, <1>3, GoesFields DEF CallAt
  <2> DEFINE m == Message(k, "mcp", "sent")
  <2>2. m \in wire' /\ m.call = k /\ m.conn = calls'[k].conn /\ m.what = "mcp"
    BY <1>3, <2>1 DEF Message
  <2>3. Carried(k)'
    BY <2>1, <2>2 DEF Carried
  <2> QED BY <1>1, <1>3, <2>1, <2>3, CallerGoes DEF DialAt
<1> QED BY <1>2, <1>3 DEF Notify

LEMMA NoticedGoes ==
  ASSUME IpcInv, Going, NEW k \in Callers, Noticed(k) PROVE Going'
<1>1. /\ Typed /\ calls[k].at = "noticing" /\ UNCHANGED <<r, up, alive, serving, host>>
      /\ wire' = wire \ {Message(k, "mcp", "ok")} /\ AfterNotice(k)
  BY DEF IpcInv, Noticed, serverVars
<1>2. \A m \in wire : m \in wire' \/ m.call = k
  BY <1>1 DEF Message
<1> QED BY <1>1, <1>2, AfterNoticeConn, CallerGoes DEF DialAt, Waits

\* The call is given up, or sent again.
LEMMA RetryGoes ==
  ASSUME IpcInv, Going, NEW k \in Callers, NEW error \in {"unsent", "uncertain"},
         calls[k].at \notin DialAt, Retry(k, error), UNCHANGED <<alive, serving, host>>,
         \A m \in wire : m \in wire' \/ m.call = k
  PROVE  Going'
<1>1. Typed
  BY DEF IpcInv
<1>2. Alone(k) /\ calls'[k].at \in {"over", "ready"} /\ calls'[k].conn = 0
  BY <1>1, RetryFields, RetryConn
<1>3. r'.dialing = r.dialing /\ r'.cl \in {0, r.cl} /\ up' \subseteq up
  BY <1>1, GoneConn DEF Retry
<1> QED BY <1>2, <1>3, CallerGoes DEF Waits

LEMMA WriteGoes ==
  ASSUME IpcInv, Going, NEW k \in Callers, Write(k) PROVE Going'
<1>1. /\ Typed /\ calls[k].at = "write" /\ UNCHANGED <<alive, serving, host>>
  BY DEF IpcInv, Write, serverVars
<1> DEFINE request == Message(k, "call", "sent")
<1>2. CASE Retry(k, "unsent") /\ UNCHANGED wire
  BY <1>1, <1>2, RetryGoes DEF DialAt
<1>3. ASSUME Goes(k, "sent"), UNCHANGED <<r, up>>,
             \/ wire' = wire \cup {request}
             \/ UNCHANGED wire /\ calls[k].conn \notin up
      PROVE  Going'
  <2>1. Alone(k) /\ calls'[k].at = "sent" /\ calls'[k].conn = calls[k].conn
    BY <1>1, <1>3, GoesFields DEF CallAt
  <2>2. request.call = k /\ request.conn = calls'[k].conn /\ request.what = "call"
    BY <2>1 DEF Message
  <2>3. request \in wire' => Carried(k)'
    BY <2>1, <2>2 DEF Carried
  <2> QED BY <1>1, <1>3, <2>1, <2>3, CallerGoes DEF DialAt, Waits
<1>4. ASSUME NEW written \in 0..1, NEW arrives \in SUBSET {request},
             Retry(k, Classified(written)), wire' = wire \cup arrives
      PROVE  Going'
  <2>1. Classified(written) \in {"unsent", "uncertain"}
    BY DEF Classified
  <2> QED BY <1>1, <1>4, <2>1, RetryGoes DEF DialAt
<1> QED BY <1>2, <1>3, <1>4 DEF Write

LEMMA AnsweredGoes ==
  ASSUME IpcInv, Going, NEW k \in Callers, Answered(k) PROVE Going'
<1>1. /\ Typed /\ calls[k].at = "sent" /\ UNCHANGED <<alive, serving, host>>
  BY DEF IpcInv, Answered, serverVars
<1>2. PICK m \in wire :
          /\ m \in {Message(k, "call", "ok"), Message(k, "call", "error")}
          /\ wire' = wire \ {m}
          /\ IF m.at = "ok" THEN Ends(k, "ok") /\ UNCHANGED <<r, up>>
                            ELSE Retry(k, "uncertain")
  BY DEF Answered
<1>3. \A n \in wire : n \in wire' \/ n.call = k
  BY <1>2 DEF Message
<1>4. CASE Ends(k, "ok") /\ UNCHANGED <<r, up>>
  <2>1. Alone(k) /\ calls'[k].at = "over" /\ calls'[k].conn = 0
    BY <1>1, <1>4, EndsFields, EndsConn DEF Results
  <2> QED BY <1>1, <1>3, <1>4, <2>1, CallerGoes DEF DialAt, Waits
<1>5. CASE Retry(k, "uncertain")
  BY <1>1, <1>3, <1>5, RetryGoes DEF DialAt
<1> QED BY <1>2, <1>4, <1>5

LEMMA LostGoes ==
  ASSUME IpcInv, Going, NEW k \in Callers, Lost(k) PROVE Going'
  BY RetryGoes DEF Lost, DialAt, serverVars

LEMMA CancelGoes ==
  ASSUME IpcInv, Going, NEW k \in Callers, Cancel(k) PROVE Going'
<1>1. /\ Typed /\ UNCHANGED <<alive, serving, host>> /\ calls[k].at \notin DialAt
      /\ \A m \in wire : m \in wire' \/ m.call = k
  BY DEF IpcInv, Cancel, DialAt, serverVars
<1>2. ASSUME NEW result \in {"unsent", "uncertain"}, Ends(k, result), UNCHANGED <<r, up>>
      PROVE  Going'
  <2>1. Alone(k) /\ calls'[k].at = "over" /\ calls'[k].conn = 0
    BY <1>1, <1>2, EndsFields, EndsConn DEF Results
  <2> QED BY <1>1, <1>2, <2>1, CallerGoes DEF Waits
<1>3. CASE Ends(k, "uncertain") /\ Gone(calls[k].conn)
  <2>1. Alone(k) /\ calls'[k].at = "over" /\ calls'[k].conn = 0
    BY <1>1, <1>3, EndsFields, EndsConn DEF Results
  <2>2. r'.dialing = r.dialing /\ r'.cl \in {0, r.cl} /\ up' \subseteq up
    BY <1>1, <1>3, GoneConn
  <2> QED BY <1>1, <2>1, <2>2, CallerGoes DEF Waits
<1> QED BY <1>2, <1>3 DEF Cancel

-----------------------------------------------------------------------------
(* The steps of the connections and of the supervisor.                     *)

LEMMA ClientGoes ==
  ASSUME IpcInv, Going, Withdraw \/ Close \/ \E c \in Conns : ReadEnds(c)
  PROVE  Going'
<1>1. r \in Client /\ up \subseteq serving
  BY DEF IpcInv, Typed, Going
<1>2. CASE Withdraw
  <2>1. r'.dialing = r.dialing /\ r'.cl = r.cl
    BY <1>1, <1>2 DEF Withdraw, Client
  <2> QED BY <1>1, <1>2, <2>1, WireGoes DEF Withdraw, serverVars
<1>3. CASE Close
  <2>1. r'.dialing = r.dialing /\ r'.cl = 0
    BY <1>1, <1>3 DEF Close, Client
  <2> QED BY <1>1, <1>3, <2>1, WireGoes DEF Close, serverVars
<1>4. ASSUME NEW c \in Conns, ReadEnds(c) PROVE Going'
  <2>1. \A m \in wire : m \in wire' \/ m.conn \notin alive'
    BY <1>4 DEF ReadEnds
  <2> QED BY <1>1, <1>4, <2>1, WireGoes DEF ReadEnds, serverVars
<1> QED BY <1>2, <1>3, <1>4

LEMMA RequestGoes ==
  ASSUME IpcInv, Going, NEW m \in wire, ServerReads(m) \/ Execute(m) PROVE Going'
<1>1. /\ UNCHANGED <<r, calls, up, alive, serving, host>> /\ up \subseteq serving
      /\ m \in Messages
  BY DEF IpcInv, Typed, Going, ServerReads, Execute
<1>2. CASE ServerReads(m)
  <2> DEFINE n == [m EXCEPT !.at = "running"]
  <2>1. wire' = (wire \ {m}) \cup {n}
    BY <1>2 DEF ServerReads
  <2>2. n.call = m.call /\ n.conn = m.conn /\ n.what = m.what
    BY <1>1 DEF Messages
  <2> HIDE DEF n
  <2> QED BY <1>1, <2>1, <2>2, WireGoes
<1>3. CASE Execute(m)
  <2>1. PICK answer \in Answers(m) :
            wire' = (wire \ {m}) \cup {a \in {[m EXCEPT !.at = answer]} : Awaited(m)}
    BY <1>3 DEF Execute
  <2> DEFINE n == [m EXCEPT !.at = answer]
  <2>2. n.call = m.call /\ n.conn = m.conn /\ n.what = m.what
    BY <1>1 DEF Messages
  <2> HIDE DEF n
  <2>3. Awaited(m) => n \in wire'
    BY <2>1 DEF n
  <2>4. \A l \in wire : l # m => l \in wire'
    BY <2>1
  <2> QED BY <1>1, <2>2, <2>3, <2>4, WireGoes DEF Awaited
<1> QED BY <1>2, <1>3

LEMMA HostGoes ==
  ASSUME IpcInv, Going, HostDies \/ HostStarts \/ \E c \in Conns : HandlerEnds(c)
  PROVE  Going'
<1>1. host \in [up : BOOLEAN, dialled : Conns \cup {0}] /\ up \subseteq serving
  BY DEF IpcInv, Typed, Going
<1>2. CASE HostDies
  <2>1. host'.dialled = host.dialled
    BY <1>1, <1>2 DEF HostDies
  <2> QED BY <1>1, <1>2, <2>1, WireGoes DEF HostDies
<1>3. CASE HostStarts
  <2>1. host'.dialled = host.dialled
    BY <1>1, <1>3 DEF HostStarts
  <2> QED BY <1>1, <1>3, <2>1, WireGoes DEF HostStarts
<1>4. ASSUME NEW c \in Conns, HandlerEnds(c) PROVE Going'
  <2>1. \A m \in wire : m \in wire' \/ m.conn \notin up'
    BY <1>4 DEF HandlerEnds
  <2> QED BY <1>1, <1>4, <2>1, WireGoes DEF HandlerEnds
<1> QED BY <1>2, <1>3, <1>4

LEMMA StepGoes == IpcInv /\ Going /\ [Next]_vars => Going'
<1> SUFFICES ASSUME IpcInv, Going, [Next]_vars PROVE Going'
  OBVIOUS
<1>1. CASE UNCHANGED vars
  BY <1>1 DEF vars, Going, Dialled, Waits, Carried
<1>2. CASE System
  <2>1. ASSUME NEW k \in Callers,
               \/ Ready(k) \/ DialOpens(k) \/ DialFails(k) \/ DialAdopts(k)
               \/ Notify(k) \/ Noticed(k) \/ Write(k) \/ Answered(k) \/ Lost(k)
        PROVE  Going'
    BY <2>1, ReadyGoes, DialOpensGoes, DialFailsGoes, DialAdoptsGoes, NotifyGoes,
       NoticedGoes, WriteGoes, AnsweredGoes, LostGoes
  <2> QED BY <1>2, <2>1, ClientGoes, HostGoes, RequestGoes DEF System
<1>3. CASE Environment
  BY <1>3, IssueGoes, CancelGoes, AnnounceGoes, ClientGoes, HostGoes, RequestGoes
     DEF Environment
<1> QED BY <1>1, <1>2, <1>3 DEF Next

\* Whatever connections and supervisors come and go, a call that has not returned waits
\* for a request that is being run on an open connection, or something goes on by itself
\* (session.go's ready and callClient, ipc/client.go's invokeOnce).
THEOREM CallsAreServed == Spec => [](Working \/ \A k \in Callers : Served(k))
<1>1. IpcInv /\ Going => Working \/ \A k \in Callers : Served(k)
  <2> SUFFICES ASSUME IpcInv, Going, ~Working, NEW k \in Callers PROVE Served(k)
    OBVIOUS
  <2>1. calls[k] \in Call /\ wire \subseteq Messages
    BY DEF IpcInv, Typed
  <2>2. \A j \in Callers : calls[j].at \notin DialAt
    BY DEF Working, DialAt
  <2>3. calls[k].at \notin {"dial", "adopt", "notify", "write", "ready"}
    BY <2>2 DEF Working, Going
  <2>4. ASSUME calls[k].at \in {"sent", "noticing"} PROVE Served(k)
    <3>1. calls[k].conn \in up \cap alive /\ Replies(k) = {}
      BY <2>4 DEF Working
    <3>2. PICK m \in wire : /\ m.call = k /\ m.conn = calls[k].conn
                            /\ m.what = (IF calls[k].at = "noticing" THEN "mcp" ELSE "call")
      BY <2>4, <3>1 DEF Going, Waits, Carried
    <3>3. m.at # "sent"
      BY <3>1, <3>2 DEF Working, Going
    <3>4. m.at \notin {"ok", "error"}
      BY <3>1, <3>2 DEF Replies
    <3> QED BY <2>1, <3>1, <3>2, <3>3, <3>4 DEF Served, Messages
  <2> QED BY <2>1, <2>3, <2>4 DEF Served, Call, CallAt
<1> QED BY <1>1, InitGoing, StepGoes, IpcInvHolds, PTL DEF Spec

\* The same of the property the run checks, but for its first half: that a step whose
\* guard holds can be taken is for TLC, which evaluates ENABLED.
THEOREM NobodyIsForgotten ==
  Spec /\ [](Working => ENABLED System) => []EveryoneReturns
<1>1. /\ Working \/ \A k \in Callers : Served(k)
      /\ Working => ENABLED System
      => EveryoneReturns
  BY DEF EveryoneReturns
<1> QED BY <1>1, CallsAreServed, PTL
=============================================================================
