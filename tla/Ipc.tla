-------------------------------- MODULE Ipc --------------------------------
(***************************************************************************)
(* A call from an MCP process to the supervisor's process: the resilient   *)
(* client that dials again (runtime/session.go), the connection that       *)
(* matches answers to calls (ipc/client.go), the server that runs every    *)
(* request in a goroutine of its own (ipc/server.go), and the count of     *)
(* connected MCP processes the server keeps.  The supervisor may die and   *)
(* come back at any time.  Connections are numbered as they are dialled;   *)
(* 0 is none.                                                              *)
(***************************************************************************)
EXTENDS Integers, FiniteSets

CONSTANTS
    Effects,    \* calls that change something: dispatch, followup, planDecide, ...
    Reads,      \* calls that may be repeated: status, wait, listJobs, ...
    Notice,     \* SetMCPConnected(true) and the goroutine it starts
    Conns       \* bound: the connections, in their order

ASSUME IpcAssumption ==
    /\ IsFiniteSet(Effects \cup Reads) /\ Effects \cap Reads = {}
    /\ Notice \notin Effects \cup Reads
    /\ IsFiniteSet(Conns) /\ Conns = 1..Cardinality(Conns)

VARIABLES
    r,        \* what r.mu guards: the client, whether one dials, mcpLive, closed
    calls,    \* [Callers -> call]
    up,       \* the connections neither end of which is closed
    alive,    \* those whose client still reads (Client.Alive)
    serving,  \* those whose server still reads (Server.handle, connLive not closed)
    wire,     \* requests and answers on their way, and the requests being run
    ran,      \* [Effects -> how often the supervisor ran it]
    marked,   \* connLive.live of the server's connections
    count,    \* Service.mcpN
    host      \* [up, dialled]: a supervisor listens; the connections so far

vars == <<r, calls, up, alive, serving, wire, ran, marked, count, host>>
serverVars == <<serving, ran, marked, count, host>>

Callers == Effects \cup Reads \cup {Notice}
Idle == [at |-> "idle", conn |-> 0, try |-> 1, result |-> "none"]

Init ==
    /\ r = [cl |-> 0, dialing |-> FALSE, live |-> FALSE, closed |-> FALSE]
    /\ calls = [k \in Callers |-> Idle]
    /\ up = {} /\ alive = {} /\ serving = {} /\ wire = {}
    /\ ran = [k \in Effects |-> 0]
    /\ marked = {} /\ count = 0
    /\ \E b \in BOOLEAN : host = [up |-> b, dialled |-> 0]

Goes(k, at) == calls' = [calls EXCEPT ![k].at = at]
Over(result) == [Idle EXCEPT !.at = "over", !.result = result]
Ends(k, result) == calls' = [calls EXCEPT ![k] = Over(result)]
Message(k, what, at) == [conn |-> calls[k].conn, call |-> k, what |-> what, at |-> at]
-----------------------------------------------------------------------------
(* The resilient client: finding a connection.                             *)

\* A desktop never announces itself; an MCP process does so before its first call
\* (mcp/server.go:14), and makes none after it has taken that back.
Issue(k) ==
    /\ calls[k].at = "idle" /\ k # Notice
    /\ r.live \/ calls[Notice].at = "idle"
    /\ Goes(k, "ready")
    /\ UNCHANGED <<r, up, alive, wire>> /\ UNCHANGED serverVars

\* SetMCPConnectedContext.  Taking it back only clears the mark: the server is not told.
Announce ==
    /\ \A k \in Callers : calls[k].at = "idle"
    /\ r' = [r EXCEPT !.live = TRUE]
    /\ calls' = [calls EXCEPT ![Notice].conn = r.cl,
                              ![Notice].at = IF r.cl \in alive THEN "notify" ELSE "ready"]
    /\ UNCHANGED <<up, alive, wire>> /\ UNCHANGED serverVars
Withdraw ==
    /\ r.live /\ r' = [r EXCEPT !.live = FALSE]
    /\ UNCHANGED <<calls, up, alive, wire>> /\ UNCHANGED serverVars

AfterReady(k) == IF k = Notice THEN "notify" ELSE "write"
DialFree_Always == TRUE
DialFree == ~r.dialing
\* ready: the connection there is, or a dial of one's own; else wait for the other's.
Ready(k) ==
    /\ calls[k].at = "ready"
    /\ \/ /\ r.closed
          /\ Ends(k, "unsent") /\ UNCHANGED <<r, up>>
       \/ /\ ~r.closed /\ r.cl \in alive
          /\ calls' = [calls EXCEPT ![k].at = AfterReady(k), ![k].conn = r.cl]
          /\ UNCHANGED <<r, up>>
       \/ /\ ~r.closed /\ r.cl \notin alive /\ DialFree
          /\ r' = [r EXCEPT !.dialing = TRUE, !.cl = 0]
          /\ up' = up \ {r.cl}
          /\ Goes(k, "dial")
    /\ UNCHANGED <<alive, wire>> /\ UNCHANGED serverVars

\* A listening supervisor is found, or one that this call has started (HostStart).
DialOpens(k) ==
    /\ calls[k].at = "dial" /\ host.up
    /\ \E c \in Conns :
          /\ c = host.dialled + 1
          /\ host' = [host EXCEPT !.dialled = c]
          /\ up' = up \cup {c} /\ alive' = alive \cup {c} /\ serving' = serving \cup {c}
          /\ calls' = [calls EXCEPT ![k].at = "adopt", ![k].conn = c]
    /\ UNCHANGED <<r, wire, ran, marked, count>>

Undialled_Dialing == r
Undialled == [r EXCEPT !.dialing = FALSE]
\* Nobody listens in time, or the context ends, or the first status call fails.
DialFails(k) ==
    /\ calls[k].at \in {"dial", "adopt"}
    /\ r' = Undialled
    /\ up' = IF calls[k].at = "adopt" THEN up \ {calls[k].conn} ELSE up
    /\ Ends(k, "unsent")
    /\ UNCHANGED <<alive, wire>> /\ UNCHANGED serverVars

DialAdopts(k) ==
    /\ calls[k].at = "adopt"
    /\ IF r.closed
       THEN /\ r' = Undialled /\ up' = up \ {calls[k].conn}
            /\ Ends(k, "unsent")
       ELSE /\ r' = [Undialled EXCEPT !.cl = calls[k].conn] /\ UNCHANGED up
            /\ Goes(k, IF r.live THEN "notify" ELSE AfterReady(k))
    /\ UNCHANGED <<alive, wire>> /\ UNCHANGED serverVars

\* notifyConnectedIfCurrent, then on to the call itself whether it succeeded or not.
AfterNotice(k) == IF k = Notice THEN Ends(k, "ok") ELSE Goes(k, "write")
Notify(k) ==
    /\ calls[k].at = "notify"
    /\ IF r.closed \/ r.cl # calls[k].conn \/ ~r.live \/ calls[k].conn \notin alive \cap up
       THEN AfterNotice(k) /\ UNCHANGED wire
       ELSE /\ Goes(k, "noticing")
            /\ wire' = wire \cup {Message(k, "mcp", "sent")}
    /\ UNCHANGED <<r, up, alive>> /\ UNCHANGED serverVars
Noticed(k) ==
    /\ calls[k].at = "noticing"
    /\ Message(k, "mcp", "ok") \in wire \/ calls[k].conn \notin alive
    /\ wire' = wire \ {Message(k, "mcp", "ok")}
    /\ AfterNotice(k)
    /\ UNCHANGED <<r, up, alive>> /\ UNCHANGED serverVars
-----------------------------------------------------------------------------
(* The call itself, at most two times.                                     *)

Attempts_Three == 3
Attempts == 2
\* callClient on an error: the connection is given up.  A call with an effect is never
\* repeated once its outcome is uncertain.
Gone(c) ==
    /\ r' = IF r.cl = c THEN [r EXCEPT !.cl = 0] ELSE r
    /\ up' = IF r.cl = c THEN up \ {c} ELSE up
Retry(k, error) ==
    /\ calls' = [calls EXCEPT ![k] =
           IF (error = "uncertain" /\ k \in Effects) \/ calls[k].try = Attempts
           THEN Over(error)
           ELSE [calls[k] EXCEPT !.at = "ready", !.conn = 0, !.try = calls[k].try + 1]]
    /\ Gone(calls[k].conn)

Classified_Retries(written) == "unsent"
\* classifyWrite: only what has not been written at all may be sent again.
Classified(written) == IF written = 0 THEN "unsent" ELSE "uncertain"
\* invokeOnce up to its wait.  A write to a closed connection writes nothing, or a part
\* of the request, which may be all but the line's end, or seems to succeed.
Write(k) ==
    /\ calls[k].at = "write"
    /\ LET c == calls[k].conn
           request == Message(k, "call", "sent") IN
       \/ /\ c \notin alive
          /\ Retry(k, "unsent") /\ UNCHANGED wire
       \/ /\ c \in alive \cap up
          /\ Goes(k, "sent") /\ wire' = wire \cup {request} /\ UNCHANGED <<r, up>>
       \/ /\ c \in alive \ up
          /\ Goes(k, "sent") /\ UNCHANGED <<r, up, wire>>
       \/ \E written \in 0..1, arrives \in SUBSET {request} :
             /\ c \in alive \ up
             /\ arrives # {} => written = 1 /\ c \in serving
             /\ Retry(k, Classified(written)) /\ wire' = wire \cup arrives
    /\ UNCHANGED alive /\ UNCHANGED serverVars

\* The answer.  An error of the supervisor's is reported as an uncertain outcome too.
Answered(k) ==
    /\ calls[k].at = "sent"
    /\ \E m \in wire :
          /\ m \in {Message(k, "call", "ok"), Message(k, "call", "error")}
          /\ m.conn \in alive
          /\ wire' = wire \ {m}
          /\ IF m.at = "ok" THEN Ends(k, "ok") /\ UNCHANGED <<r, up>>
                            ELSE Retry(k, "uncertain")
    /\ UNCHANGED alive /\ UNCHANGED serverVars

Lost(k) ==
    /\ calls[k].at = "sent" /\ calls[k].conn \notin alive
    /\ Retry(k, "uncertain")
    /\ UNCHANGED <<alive, wire>> /\ UNCHANGED serverVars

\* The caller's context ends.  While the notice of its redial is under way the call has
\* not been written, but the notice has, and its uncertain outcome is what ready returns.
Cancel(k) ==
    /\ \/ /\ calls[k].at \in {"ready", "write"}
          /\ Ends(k, "unsent") /\ UNCHANGED <<r, up>>
       \/ /\ calls[k].at = "noticing"
          /\ Ends(k, "uncertain") /\ UNCHANGED <<r, up>>
       \/ /\ calls[k].at = "sent"
          /\ Ends(k, "uncertain") /\ Gone(calls[k].conn)
    /\ wire' = {m \in wire : m.call # k \/ m.at \in {"sent", "running"}}
    /\ UNCHANGED alive /\ UNCHANGED serverVars

\* resilient.Close.
Close ==
    /\ ~r.closed /\ ~r.live
    /\ r' = [r EXCEPT !.closed = TRUE, !.cl = 0]
    /\ up' = up \ {r.cl}
    /\ UNCHANGED <<calls, alive, wire>> /\ UNCHANGED serverVars

\* Client.read ends with the connection.
ReadEnds(c) ==
    /\ c \in alive \ up
    /\ alive' = alive \ {c}
    /\ wire' = {m \in wire : m.conn # c \/ m.at \in {"sent", "running"}}
    /\ UNCHANGED <<r, calls, up>> /\ UNCHANGED serverVars
-----------------------------------------------------------------------------
(* The server.                                                             *)

\* Server.handle reads a request and starts its goroutine.
ServerReads(m) ==
    /\ m \in wire /\ m.at = "sent" /\ m.conn \in serving
    /\ wire' = (wire \ {m}) \cup {[m EXCEPT !.at = "running"]}
    /\ UNCHANGED <<r, calls, up, alive, serving, ran, marked, count, host>>

MayMark_Always(c) == c \notin marked
\* connLive.set: a notice that is late for its connection does not count.
MayMark(c) == c \in serving /\ c \notin marked
\* What the methods answer, setMCP among them: their result, or the supervisor's error.
Answers(m) == IF m.what = "mcp" THEN {"ok"} ELSE {"ok", "error"}
Awaited(m) == /\ calls[m.call].at \in {"sent", "noticing"} /\ calls[m.call].conn = m.conn
              /\ m.conn \in up \cap alive
\* Server.dispatch and the write of its answer; Client.read drops an answer nobody waits
\* for.
Execute(m) ==
    /\ m \in wire /\ m.at = "running"
    /\ \E answer \in Answers(m) :
          wire' = (wire \ {m}) \cup
                  {a \in {[m EXCEPT !.at = answer]} : Awaited(m)}
    /\ ran' = IF m.call \in Effects /\ m.what = "call" THEN [ran EXCEPT ![m.call] = @ + 1] ELSE ran
    /\ IF m.what = "mcp" /\ MayMark(m.conn)
       THEN marked' = marked \cup {m.conn} /\ count' = count + 1
       ELSE UNCHANGED <<marked, count>>
    /\ UNCHANGED <<r, calls, up, alive, serving, host>>

\* The handler ends with its connection, or at a line longer than 4 MiB.
HandlerEnds(c) ==
    /\ c \in serving
    /\ serving' = serving \ {c} /\ up' = up \ {c}
    /\ wire' = {m \in wire : m.conn # c \/ m.at # "sent"}
    /\ marked' = marked \ {c}
    /\ count' = IF c \in marked /\ count > 0 THEN count - 1 ELSE count
    /\ UNCHANGED <<r, calls, alive, ran, host>>

HostDies ==
    /\ host.up /\ host' = [host EXCEPT !.up = FALSE]
    /\ up' = {} /\ serving' = {} /\ marked' = {} /\ count' = 0
    /\ wire' = {m \in wire : m.at \in {"ok", "error"}}
    /\ UNCHANGED <<r, calls, alive, ran>>
HostStarts ==
    /\ ~host.up /\ host' = [host EXCEPT !.up = TRUE]
    /\ UNCHANGED <<r, calls, up, alive, serving, wire, ran, marked, count>>
-----------------------------------------------------------------------------
\* What goes on by itself; a request may take the supervisor as long as it likes.
System ==
    \/ \E k \in Callers :
          \/ Ready(k) \/ DialOpens(k) \/ DialFails(k) \/ DialAdopts(k)
          \/ Notify(k) \/ Noticed(k) \/ Write(k) \/ Answered(k) \/ Lost(k)
    \/ \E c \in Conns : ReadEnds(c) \/ (c \notin up /\ HandlerEnds(c))
    \/ \E m \in wire : ServerReads(m)

\* Callers, the user, the supervisor and what it is asked.
Environment ==
    \/ \E k \in Callers : Issue(k) \/ Cancel(k)
    \/ Announce \/ Withdraw \/ Close \/ HostDies \/ HostStarts
    \/ \E c \in Conns \cap up : HandlerEnds(c)
    \/ \E m \in wire : Execute(m)

Next == System \/ Environment
Spec == Init /\ [][Next]_vars
-----------------------------------------------------------------------------
(* Properties.                                                             *)

\* The type invariant.
TypeOK ==
    /\ r \in [cl : Conns \cup {0}, dialing : BOOLEAN, live : BOOLEAN, closed : BOOLEAN]
    /\ calls \in [Callers ->
           [at : {"idle", "ready", "dial", "adopt", "notify", "noticing", "write", "sent", "over"},
            conn : Conns \cup {0}, try : {1, 2},
            result : {"none", "ok", "uncertain", "unsent"}]]
    /\ {up, alive, serving, marked} \subseteq SUBSET Conns
    /\ wire \subseteq [conn : Conns, call : Callers, what : {"call", "mcp"},
                       at : {"sent", "running", "ok", "error"}]
    /\ ran \in [Effects -> Nat] /\ count \in 0..Cardinality(Conns)
    /\ host \in [up : BOOLEAN, dialled : Conns \cup {0}]

OnItsWay(k) == {m \in wire : m.call = k /\ m.what = "call" /\ m.at \in {"sent", "running"}}
Total(k) == ran[k] + Cardinality(OnItsWay(k))
\* A call with an effect runs at most once however connections and supervisors come and
\* go, it has run when it succeeds, and when it is reported as never sent it has not run
\* and never will (ipc/errors.go:5, session.go:145).
EffectOnce ==
    \A k \in Effects :
        /\ Total(k) <= 1
        /\ calls[k].result = "ok" => ran[k] = 1
        /\ calls[k].result = "unsent" => Total(k) = 0

\* No connection is lost sight of: an open one is the client's, or that of the one call
\* that dials; and a closed client keeps none.
NoConnectionLeaks ==
    /\ \A c \in up : c = r.cl \/ \E k \in Callers : calls[k].at = "adopt" /\ calls[k].conn = c
    /\ r.closed => r.cl = 0

\* The number of MCP processes the supervisor shows is that of the connections that
\* said so and are still served, also when the notice is run after its connection ended
\* (server.go:418).
CountIsTrue == count = Cardinality(marked) /\ marked \subseteq serving

Replies(k) == {m \in wire : /\ m.call = k /\ m.conn = calls[k].conn
                            /\ m.what = (IF calls[k].at = "noticing" THEN "mcp" ELSE "call")
                            /\ m.at \in {"ok", "error"}}
\* Something goes on by itself: a caller can move, its answer has come or its connection
\* is dead, a request can be read, or a client has to leave a closed connection.
Working ==
    \/ \E k \in Callers :
          \/ calls[k].at \in {"dial", "adopt", "notify", "write"}
          \/ calls[k].at = "ready" /\ ~r.dialing
          \/ /\ calls[k].at \in {"sent", "noticing"}
             /\ calls[k].conn \notin alive \/ Replies(k) # {}
    \/ \E m \in wire : m.at = "sent" /\ m.conn \in serving
    \/ alive \ up # {}
\* The call has returned, or its request is being run, on a connection that will bring
\* the answer.
Served(k) ==
    \/ calls[k].at \in {"idle", "over"}
    \/ \E m \in wire : /\ m.call = k /\ m.at = "running"
                       /\ m.conn = calls[k].conn /\ m.conn \in up \cap alive
\* No call waits for ever: while one is neither over nor served something goes on by
\* itself, and its next step can be taken.
EveryoneReturns == /\ Working => ENABLED System
                   /\ Working \/ \A k \in Callers : Served(k)
=============================================================================
