----------------------------- MODULE HostStart -----------------------------
(***************************************************************************)
(* Which process is the supervisor.  A desktop becomes the host when it    *)
(* gets the owner lock (runtime/open.go); an MCP process that finds no     *)
(* host starts a hidden desktop and waits for it (runtime/connect.go),     *)
(* under a lock of its own so that one does.  Any process may end at any   *)
(* point, and the system then frees its locks but leaves its socket.       *)
(* Desktops are numbered as they are started; 0 is none.                   *)
(***************************************************************************)
EXTENDS Integers, FiniteSets, Sequences

CONSTANTS
    Clients,    \* MCP processes
    Desktops    \* bound: the desktop processes, in their order

ASSUME HostAssumption ==
    /\ IsFiniteSet(Clients) /\ 0 \notin Clients
    /\ IsFiniteSet(Desktops) /\ Desktops = 1..Cardinality(Desktops)

VARIABLES
    desk,       \* [Desktops -> desktop]: where it is in Open, or in its cleanup
    client,     \* [Clients -> client]: where it is in connectClient
    owner,      \* the desktop that holds the owner lock, or 0
    startLock,  \* the client that holds the start lock, or 0
    socket,     \* the desktop whose socket is at the address, or 0
    store       \* the desktops that have the database open

vars == <<desk, client, owner, startLock, socket, store>>

\* `wanted` from the start by a client until that client leaves without it.
DeskAt(at, wanted) == [at |-> at, step |-> 0, wanted |-> wanted]
ClientAt(at) == [at |-> at, desk |-> 0]

Init ==
    /\ desk = [d \in Desktops |-> DeskAt("none", FALSE)]
    /\ client = [p \in Clients |-> ClientAt("idle")]
    /\ owner = 0 /\ startLock = 0 /\ socket = 0 /\ store = {}

\* tryDial: somebody answers a status call in time.
Reachable == socket # 0 /\ \E d \in Desktops : d = socket /\ desk[d].at = "serving"

New(d) == desk[d].at = "none" /\ \A e \in 1..d - 1 : desk[e].at # "none"
-----------------------------------------------------------------------------
(* A desktop: Open and openHost.                                           *)

Moves(d, at) == desk' = [desk EXCEPT ![d].at = at]

UserStarts(d) ==
    /\ New(d) /\ Moves(d, "open")
    /\ UNCHANGED <<client, owner, startLock, socket, store>>

\* A turn of the loop of Open; a host that is slow to answer counts as none.
Opens(d) ==
    /\ desk[d].at = "open"
    /\ \/ Reachable /\ Moves(d, "client") /\ UNCHANGED owner
       \/ owner = 0 /\ Moves(d, "locked") /\ owner' = d
    /\ UNCHANGED <<client, startLock, socket, store>>

\* Nobody answers under the lock either.  A socket that is left at the address, by
\* whomever, is removed.
Listens(d) ==
    /\ desk[d].at = "locked"
    /\ IF Reachable
       THEN Moves(d, "client") /\ owner' = 0 /\ UNCHANGED socket
       ELSE Moves(d, "listening") /\ socket' = d /\ UNCHANGED owner
    /\ UNCHANGED <<client, startLock, store>>

\* No socket can be opened there; listenIPC has by then removed the one that was left.
ListenFails(d) ==
    /\ desk[d].at = "locked" /\ ~Reachable
    /\ desk' = [desk EXCEPT ![d] = DeskAt("gone", FALSE)]
    /\ owner' = 0 /\ socket' \in {0, socket}
    /\ UNCHANGED <<client, startLock, store>>

Closing(d) == desk' = [desk EXCEPT ![d].at = "closing", ![d].step = 1]
OpensStore(d) ==
    /\ desk[d].at = "listening"
    /\ \/ Moves(d, "starting") /\ store' = store \cup {d}
       \/ Closing(d) /\ UNCHANGED store
    /\ UNCHANGED <<client, owner, startLock, socket>>
Serves(d) ==
    /\ desk[d].at = "starting"
    /\ Moves(d, "serving") \/ Closing(d)
    /\ UNCHANGED <<client, owner, startLock, socket, store>>
Quits(d) ==
    /\ desk[d].at = "serving" /\ Closing(d)
    /\ UNCHANGED <<client, owner, startLock, socket, store>>

Cleanup_LockFirst == <<"lock", "server", "store">>
Cleanup == <<"server", "store", "lock">>
\* The cleanup of openHost, one step after the other.  The listener takes whatever
\* socket is at its address with it.
Closes(d) ==
    /\ desk[d].at = "closing"
    /\ LET what == Cleanup[desk[d].step] IN
       /\ socket' = IF what = "server" THEN 0 ELSE socket
       /\ store' = IF what = "store" THEN store \ {d} ELSE store
       /\ owner' = IF what = "lock" THEN 0 ELSE owner
    /\ desk' = [desk EXCEPT ![d] =
           IF desk[d].step = Len(Cleanup) THEN DeskAt("gone", FALSE)
           ELSE [desk[d] EXCEPT !.step = desk[d].step + 1]]
    /\ UNCHANGED <<client, startLock>>

DesktopDies(d) ==
    /\ desk[d].at \notin {"none", "gone"}
    /\ desk' = [desk EXCEPT ![d] = DeskAt("gone", FALSE)]
    /\ owner' = IF owner = d THEN 0 ELSE owner
    /\ store' = store \ {d}
    /\ UNCHANGED <<client, startLock, socket>>
-----------------------------------------------------------------------------
(* A client: connectClient.                                                *)

Goes(p, at) == client' = [client EXCEPT ![p].at = at]
Unlocked_Keeps(p) == startLock' = startLock
Unlocked(p) == startLock' = IF startLock = p THEN 0 ELSE startLock
\* The client ends its attempt: it has found a host, has failed or is killed.
Leave(p, state, found) ==
    /\ client' = [client EXCEPT ![p] = state]
    /\ Unlocked(p)
    /\ desk' = [d \in Desktops |->
           [desk[d] EXCEPT !.wanted = @ /\ (client[p].desk = d => found = d)]]

\* A client connects for the first time, or again after its connection has ended
\* (Ipc!Ready).
Connects(p) ==
    /\ client[p].at \in {"idle", "connected"} /\ Goes(p, "loop")
    /\ UNCHANGED <<desk, owner, startLock, socket, store>>

\* tryDial, at each of its three places.
Dials(p) ==
    /\ client[p].at \in {"loop", "redial", "await"} /\ Reachable
    /\ Leave(p, ClientAt("connected"), socket)
    /\ UNCHANGED <<owner, socket, store>>
Misses(p) ==
    /\ \/ client[p].at = "loop" /\ Goes(p, "probe")
       \/ client[p].at = "redial" /\ Goes(p, "recheck")
    /\ UNCHANGED <<desk, owner, startLock, socket, store>>

\* ownerLocked: it tries the lock itself, so that two who look at once may each see it
\* taken.
SeenFree_Always == TRUE
SeenFree == owner = 0
Probes(p) ==
    /\ client[p].at = "probe"
    /\ Goes(p, "loop") \/ (owner = 0 /\ Goes(p, "take"))
    /\ UNCHANGED <<desk, owner, startLock, socket, store>>
Takes(p) ==
    /\ client[p].at = "take"
    /\ IF startLock = 0 THEN Goes(p, "redial") /\ startLock' = p
                        ELSE Goes(p, "loop") /\ UNCHANGED startLock
    /\ UNCHANGED <<desk, owner, socket, store>>
Rechecks(p) ==
    /\ client[p].at = "recheck"
    /\ \/ Goes(p, "loop") /\ Unlocked(p)
       \/ SeenFree /\ Goes(p, "start") /\ UNCHANGED startLock
    /\ UNCHANGED <<desk, owner, socket, store>>

\* startDesktop; then the client waits for a host with the start lock held.
Starts(p) ==
    /\ client[p].at = "start"
    /\ \E d \in Desktops :
          /\ New(d)
          /\ desk' = [desk EXCEPT ![d] = DeskAt("open", TRUE)]
          /\ client' = [client EXCEPT ![p] = [at |-> "await", desk |-> d]]
    /\ UNCHANGED <<owner, startLock, socket, store>>

\* The start fails, the time is up or the context ends.
Fails(p) ==
    /\ client[p].at \in {"start", "loop", "await"}
    /\ Leave(p, ClientAt("idle"), 0)
    /\ UNCHANGED <<owner, socket, store>>

ClientDies(p) ==
    /\ client[p].at \notin {"idle", "gone"}
    /\ Leave(p, ClientAt("gone"), 0)
    /\ UNCHANGED <<owner, socket, store>>
-----------------------------------------------------------------------------
Next ==
    \/ \E d \in Desktops :
          \/ UserStarts(d) \/ Opens(d) \/ Listens(d) \/ ListenFails(d) \/ OpensStore(d)
          \/ Serves(d) \/ Quits(d) \/ Closes(d) \/ DesktopDies(d)
    \/ \E p \in Clients :
          \/ Connects(p) \/ Dials(p) \/ Misses(p) \/ Probes(p) \/ Takes(p)
          \/ Rechecks(p) \/ Starts(p) \/ Fails(p) \/ ClientDies(p)

Spec == Init /\ [][Next]_vars
-----------------------------------------------------------------------------
(* Properties.                                                             *)

\* The type invariant, with who may hold which lock when.
TypeOK ==
    /\ desk \in [Desktops ->
           [at : {"none", "open", "locked", "listening", "starting", "serving", "closing",
                  "client", "gone"}, step : 0..3, wanted : BOOLEAN]]
    /\ client \in [Clients ->
           [at : {"idle", "loop", "probe", "take", "redial", "recheck", "start", "await",
                  "connected", "gone"}, desk : Desktops \cup {0}]]
    /\ owner \in Desktops \cup {0} /\ startLock \in Clients \cup {0}
    /\ socket \in Desktops \cup {0} /\ store \subseteq Desktops
    /\ \A p \in Clients :
           startLock = p <=> client[p].at \in {"redial", "recheck", "start", "await"}

\* One supervisor at a time works on the database, and while one serves it can be
\* reached: neither a host that is still closing nor one that crashed takes its address
\* away (runtime/open.go:118).
OneHost ==
    /\ Cardinality(store) <= 1
    /\ \A d \in Desktops : desk[d].at = "serving" => socket = d /\ owner = d

\* However many clients look for a supervisor at once, none starts a desktop while one
\* that was started before is on its way or up, unless the client that started it has
\* given it up (TestConnectConcurrentStartsOnce).
OneDesktop == Cardinality({d \in Desktops : desk[d].wanted /\ desk[d].at # "client"}) <= 1
=============================================================================
