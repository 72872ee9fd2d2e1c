-------------------------- MODULE HostStart_proofs --------------------------
(***************************************************************************)
(* Theorems about which process is the supervisor, for every number of MCP *)
(* processes and of desktops.                                              *)
(***************************************************************************)
EXTENDS HostStart, FiniteSetTheorems, TLAPS

Desks == [at : {"none", "open", "locked", "listening", "starting", "serving", "closing",
                "client", "gone"}, step : 0..3, wanted : BOOLEAN]
ClientStates == [at : {"idle", "loop", "probe", "take", "redial", "recheck", "start",
                       "await", "connected", "gone"}, desk : Desktops \cup {0}]
\* Where a client holds the start lock.
Starting == {"redial", "recheck", "start", "await"}
\* Where a desktop holds the owner lock.
Hosting == {"locked", "listening", "starting", "serving", "closing"}

\* The type invariant without who holds which lock.
Typed ==
    /\ desk \in [Desktops -> Desks] /\ client \in [Clients -> ClientStates]
    /\ owner \in Desktops \cup {0} /\ startLock \in Clients \cup {0}
    /\ socket \in Desktops \cup {0} /\ store \in SUBSET Desktops
StartLockTrue == \A p \in Clients : startLock = p <=> client[p].at \in Starting

LEMMA TypeParts == TypeOK <=> Typed /\ StartLockTrue
  BY DEF TypeOK, Typed, StartLockTrue, Desks, ClientStates, Starting

\* A desktop number is no number for "none".
LEMMA DesktopNumbers == Desktops \in SUBSET Nat /\ 0 \notin Desktops /\ 0 \notin Clients
                        /\ IsFiniteSet(Desktops)
<1>1. Cardinality(Desktops) \in Nat
  BY HostAssumption, FS_CardinalityType
<1> QED BY <1>1, HostAssumption

-----------------------------------------------------------------------------
(* What moves a client or a desktop.                                       *)

LEMMA GoesTypes ==
  ASSUME Typed, NEW p \in Clients, NEW at \in {"idle", "loop", "probe", "take", "redial",
             "recheck", "start", "await", "connected", "gone"}, Goes(p, at)
  PROVE  /\ client' \in [Clients -> ClientStates]
         /\ client'[p].at = at /\ client'[p].desk = client[p].desk
         /\ \A q \in Clients : q # p => client'[q] = client[q]
<1>1. client[p] \in ClientStates
  BY DEF Typed
<1>2. [client[p] EXCEPT !.at = at] \in ClientStates
  BY <1>1 DEF ClientStates
<1> QED BY <1>1, <1>2 DEF Typed, Goes, ClientStates

LEMMA MovesTypes ==
  ASSUME Typed, NEW d \in Desktops, NEW at \in {"none", "open", "locked", "listening",
             "starting", "serving", "closing", "client", "gone"}, Moves(d, at)
  PROVE  /\ desk' \in [Desktops -> Desks]
         /\ desk'[d].at = at /\ desk'[d].step = desk[d].step /\ desk'[d].wanted = desk[d].wanted
         /\ \A e \in Desktops : e # d => desk'[e] = desk[e]
<1>1. desk[d] \in Desks
  BY DEF Typed
<1>2. [desk[d] EXCEPT !.at = at] \in Desks
  BY <1>1 DEF Desks
<1> QED BY <1>1, <1>2 DEF Typed, Moves, Desks

LEMMA ClosingTypes ==
  ASSUME Typed, NEW d \in Desktops, Closing(d)
  PROVE  /\ desk' \in [Desktops -> Desks]
         /\ desk'[d].at = "closing" /\ desk'[d].step = 1 /\ desk'[d].wanted = desk[d].wanted
         /\ \A e \in Desktops : e # d => desk'[e] = desk[e]
<1>1. desk[d] \in Desks
  BY DEF Typed
<1>2. ASSUME NEW x \in Desks
      PROVE  LET y == [x EXCEPT !.at = "closing", !.step = 1] IN
             y \in Desks /\ y.at = "closing" /\ y.step = 1 /\ y.wanted = x.wanted
  <2>1. [x EXCEPT !.at = "closing"] \in Desks
    BY DEF Desks
  <2>2. 1 \in 0..3
    OBVIOUS
  <2> QED BY <2>1, <2>2 DEF Desks
<1>3. /\ desk'[d] = [desk[d] EXCEPT !.at = "closing", !.step = 1]
      /\ desk' = [desk EXCEPT ![d] = [desk[d] EXCEPT !.at = "closing", !.step = 1]]
      /\ \A e \in Desktops : e # d => desk'[e] = desk[e]
  BY DEF Typed, Closing
<1> QED BY <1>1, <1>2, <1>3 DEF Typed

\* A client that leaves gives the start lock back and changes of a desktop at most
\* that it is wanted.
LEMMA LeaveTypes ==
  ASSUME Typed, NEW p \in Clients, NEW state \in ClientStates,
         NEW found, Leave(p, state, found)
  PROVE  /\ client' \in [Clients -> ClientStates] /\ desk' \in [Desktops -> Desks]
         /\ startLock' = IF startLock = p THEN 0 ELSE startLock
         /\ client'[p] = state
         /\ \A q \in Clients : q # p => client'[q] = client[q]
         /\ \A d \in Desktops :
               /\ desk'[d].at = desk[d].at /\ desk'[d].step = desk[d].step
               /\ desk'[d].wanted = (desk[d].wanted /\ (client[p].desk = d => found = d))
<1>1. ASSUME NEW d \in Desktops
      PROVE  /\ [desk[d] EXCEPT !.wanted = @ /\ (client[p].desk = d => found = d)] \in Desks
             /\ desk'[d] = [desk[d] EXCEPT !.wanted = @ /\ (client[p].desk = d => found = d)]
  <2>1. desk[d] \in Desks
    BY DEF Typed
  <2>2. (desk[d].wanted /\ (client[p].desk = d => found = d)) \in BOOLEAN
    OBVIOUS
  <2>3. desk'[d] = [desk[d] EXCEPT !.wanted = @ /\ (client[p].desk = d => found = d)]
    BY DEF Leave
  <2> QED BY <2>1, <2>2, <2>3 DEF Desks
<1>2. desk' \in [Desktops -> Desks]
  BY <1>1, Zenon DEF Leave
<1>3. ASSUME NEW d \in Desktops
      PROVE  /\ desk'[d].at = desk[d].at /\ desk'[d].step = desk[d].step
             /\ desk'[d].wanted = (desk[d].wanted /\ (client[p].desk = d => found = d))
  <2>1. desk[d] \in Desks
    BY DEF Typed
  <2>2. ASSUME NEW x \in Desks, NEW b \in BOOLEAN
        PROVE  LET y == [x EXCEPT !.wanted = b] IN
               y.at = x.at /\ y.step = x.step /\ y.wanted = b
    BY DEF Desks
  <2>3. (desk[d].wanted /\ (client[p].desk = d => found = d)) \in BOOLEAN
    OBVIOUS
  <2> QED BY <1>1, <2>1, <2>2, <2>3, Zenon
<1>4. client' \in [Clients -> ClientStates] /\ client'[p] = state
      /\ \A q \in Clients : q # p => client'[q] = client[q]
  BY DEF Leave, Typed
<1>5. startLock' = IF startLock = p THEN 0 ELSE startLock
  BY DEF Leave, Unlocked
<1> QED BY <1>2, <1>3, <1>4, <1>5
-----------------------------------------------------------------------------
(* The inductive invariant.                                                *)

OwnerTrue == \A d \in Desktops : owner = d <=> desk[d].at \in Hosting
StepTrue == \A d \in Desktops : desk[d].at = "closing" => desk[d].step \in 1..3
StoreTrue == \A d \in store :
    /\ desk[d].at \in {"starting", "serving", "closing"}
    /\ desk[d].at = "closing" => desk[d].step # 3
SocketTrue == \A d \in Desktops :
                  desk[d].at \in {"listening", "starting", "serving"} => socket = d
\* A desktop that a client has started and that is, or may become, the host.
Asked(d) == desk[d].wanted /\ desk[d].at # "client"
Unasked == \A d \in Desktops : desk[d].at \in {"none", "gone"} => ~desk[d].wanted
\* It is the host, or the client that started it still waits for it ...
AskedFor == \A d \in Desktops : Asked(d) =>
    owner = d \/ \E p \in Clients : client[p].at = "await" /\ client[p].desk = d
\* ... and then there is no other one, nor when a client is about to start one.
OneAsked == \A p \in Clients, d \in Desktops :
    client[p].at \in {"start", "await"} /\ Asked(d) =>
        client[p].at = "await" /\ client[p].desk = d

DeskInv == OwnerTrue /\ StepTrue /\ StoreTrue /\ SocketTrue
AskInv == StartLockTrue /\ Unasked /\ AskedFor /\ OneAsked
HostInv == Typed /\ DeskInv /\ AskInv

LEMMA InitHolds == Init => HostInv
<1> SUFFICES ASSUME Init PROVE HostInv
  OBVIOUS
<1>1. DeskAt("none", FALSE) \in Desks /\ ClientAt("idle") \in ClientStates
  BY DEF DeskAt, ClientAt, Desks, ClientStates
<1>2. Typed
  BY <1>1 DEF Init, Typed
<1>3. \A d \in Desktops : desk[d].at = "none" /\ ~desk[d].wanted
  BY DEF Init, DeskAt
<1>4. \A p \in Clients : client[p].at = "idle"
  BY DEF Init, ClientAt
<1>5. DeskInv
  BY <1>3, DesktopNumbers DEF Init, DeskInv, OwnerTrue, StepTrue, StoreTrue, SocketTrue, Hosting
<1>6. AskInv
  BY <1>3, <1>4, DesktopNumbers
     DEF Init, AskInv, StartLockTrue, Unasked, AskedFor, OneAsked, Asked, Starting
<1> QED BY <1>2, <1>5, <1>6 DEF HostInv

-----------------------------------------------------------------------------
(* Steps of a desktop.                                                     *)

\* What the clients rely on survives a step of a desktop that asks for none, and
\* in which the host, if it was asked for, stays the host or is gone.
LEMMA DesktopKeepsAsk ==
  ASSUME Typed, AskInv, NEW d \in Desktops,
         \A e \in Desktops : e # d => desk'[e] = desk[e],
         client' = client, startLock' = startLock,
         Asked(d)' => Asked(d) /\ (owner = d => owner' = d),
         desk'[d].at \in {"none", "gone"} => ~desk'[d].wanted,
         \A e \in Desktops : e # d /\ owner = e => owner' = e
  PROVE  AskInv'
<1>1. \A e \in Desktops : Asked(e)' => Asked(e)
  BY DEF Asked
<1>2. StartLockTrue'
  BY DEF AskInv, StartLockTrue
<1>3. Unasked'
  BY DEF AskInv, Unasked
<1>4. AskedFor'
  <2> SUFFICES ASSUME NEW e \in Desktops, Asked(e)'
               PROVE  owner' = e \/ \E p \in Clients : client[p].at = "await" /\ client[p].desk = e
    BY DEF AskedFor
  <2>1. owner = e \/ \E p \in Clients : client[p].at = "await" /\ client[p].desk = e
    BY <1>1 DEF AskInv, AskedFor
  <2> QED BY <2>1
<1>5. OneAsked'
  BY <1>1 DEF AskInv, OneAsked
<1> QED BY <1>2, <1>3, <1>4, <1>5 DEF AskInv

LEMMA UserStartsHolds ==
  ASSUME HostInv, NEW d \in Desktops, UserStarts(d) PROVE HostInv'
<1>1. Typed /\ DeskInv /\ AskInv /\ desk[d].at = "none" /\ Moves(d, "open")
      /\ UNCHANGED <<client, owner, startLock, socket, store>>
  BY DEF HostInv, UserStarts, New
<1>2. /\ desk' \in [Desktops -> Desks]
      /\ desk'[d].at = "open" /\ desk'[d].step = desk[d].step
      /\ desk'[d].wanted = desk[d].wanted
      /\ \A e \in Desktops : e # d => desk'[e] = desk[e]
  BY <1>1, MovesTypes
<1>3. Typed'
  BY <1>1, <1>2 DEF Typed
<1>4. DeskInv'
  BY <1>1, <1>2 DEF Typed, DeskInv, OwnerTrue, StepTrue, StoreTrue, SocketTrue, Hosting
<1>5. AskInv'
  <2>1. Asked(d)' => Asked(d) /\ (owner = d => owner' = d)
    BY <1>1, <1>2 DEF Asked
  <2> QED BY <1>1, <1>2, <2>1, DesktopKeepsAsk
<1> QED BY <1>3, <1>4, <1>5 DEF HostInv

LEMMA OpensHolds ==
  ASSUME HostInv, NEW d \in Desktops, Opens(d) PROVE HostInv'
<1>1. Typed /\ DeskInv /\ AskInv /\ desk[d].at = "open"
      /\ UNCHANGED <<client, startLock, socket, store>>
  BY DEF HostInv, Opens
<1>2. PICK at \in {"client", "locked"} :
         /\ Moves(d, at)
         /\ at = "client" => owner' = owner
         /\ at = "locked" => owner = 0 /\ owner' = d
  BY DEF Opens
<1>3. /\ desk' \in [Desktops -> Desks]
      /\ desk'[d].at = at /\ desk'[d].step = desk[d].step
      /\ desk'[d].wanted = desk[d].wanted
      /\ \A e \in Desktops : e # d => desk'[e] = desk[e]
  BY <1>1, <1>2, MovesTypes
<1>4. Typed'
  BY <1>1, <1>2, <1>3 DEF Typed
<1>5. DeskInv'
  BY <1>1, <1>2, <1>3, DesktopNumbers
     DEF Typed, DeskInv, OwnerTrue, StepTrue, StoreTrue, SocketTrue, Hosting
<1>6. AskInv'
  <2>1. Asked(d)' => Asked(d) /\ (owner = d => owner' = d)
    BY <1>1, <1>2, <1>3, DesktopNumbers DEF Asked
  <2>2. \A e \in Desktops : e # d /\ owner = e => owner' = e
    BY <1>2, DesktopNumbers
  <2> QED BY <1>1, <1>2, <1>3, <2>1, <2>2, DesktopKeepsAsk
<1> QED BY <1>4, <1>5, <1>6 DEF HostInv

\* Under the owner lock nobody else can serve, so the second dial finds nobody.
LEMMA ListensHolds ==
  ASSUME HostInv, NEW d \in Desktops, Listens(d) PROVE HostInv'
<1>1. Typed /\ DeskInv /\ AskInv /\ desk[d].at = "locked" /\ owner = d
      /\ UNCHANGED <<client, startLock, store>>
  BY DEF HostInv, Listens, DeskInv, OwnerTrue, Hosting
<1>2. \A e \in Desktops : e # d => desk[e].at \notin Hosting
  BY <1>1 DEF DeskInv, OwnerTrue
<1>3. ~Reachable
  BY <1>1, <1>2 DEF Reachable, Hosting
<1>4. Moves(d, "listening") /\ socket' = d /\ owner' = owner
  BY <1>3 DEF Listens
<1>5. /\ desk' \in [Desktops -> Desks]
      /\ desk'[d].at = "listening" /\ desk'[d].step = desk[d].step
      /\ desk'[d].wanted = desk[d].wanted
      /\ \A e \in Desktops : e # d => desk'[e] = desk[e]
  BY <1>1, <1>4, MovesTypes
<1>6. Typed'
  BY <1>1, <1>4, <1>5 DEF Typed
<1>7. DeskInv'
  BY <1>1, <1>2, <1>4, <1>5
     DEF Typed, DeskInv, OwnerTrue, StepTrue, StoreTrue, SocketTrue, Hosting
<1>8. AskInv'
  <2>1. Asked(d)' => Asked(d) /\ (owner = d => owner' = d)
    BY <1>1, <1>4, <1>5 DEF Asked
  <2> QED BY <1>1, <1>4, <1>5, <2>1, DesktopKeepsAsk
<1> QED BY <1>6, <1>7, <1>8 DEF HostInv

LEMMA ListenFailsHolds ==
  ASSUME HostInv, NEW d \in Desktops, ListenFails(d) PROVE HostInv'
<1>1. Typed /\ DeskInv /\ AskInv /\ owner = d /\ owner' = 0 /\ socket' \in {0, socket}
      /\ UNCHANGED <<client, startLock, store>>
  BY DEF HostInv, ListenFails, DeskInv, OwnerTrue, Hosting
<1>2. /\ desk'[d] = [at |-> "gone", step |-> 0, wanted |-> FALSE]
      /\ desk' = [desk EXCEPT ![d] = [at |-> "gone", step |-> 0, wanted |-> FALSE]]
      /\ \A e \in Desktops : e # d => desk'[e] = desk[e]
  BY <1>1 DEF ListenFails, Typed, DeskAt
<1>3. desk' \in [Desktops -> Desks]
  BY <1>1, <1>2 DEF Typed, Desks
<1>4. Typed'
  BY <1>1, <1>3 DEF Typed
<1>5. DeskInv'
  <2>1. desk[d].at = "locked"
    BY DEF ListenFails
  <2>2. \A e \in Desktops : e # d => desk[e].at \notin Hosting
    BY <1>1 DEF DeskInv, OwnerTrue
  <2>3. OwnerTrue'
    BY <1>1, <1>2, <2>2, DesktopNumbers DEF OwnerTrue, Hosting
  <2>4. StepTrue'
    BY <1>1, <1>2 DEF DeskInv, StepTrue
  <2>5. d \notin store
    BY <1>1, <2>1 DEF DeskInv, StoreTrue
  <2>6. StoreTrue'
    BY <1>1, <1>2, <2>5 DEF Typed, DeskInv, StoreTrue
  <2>7. SocketTrue'
    BY <1>1, <1>2, <2>2 DEF DeskInv, SocketTrue, Hosting
  <2> QED BY <2>3, <2>4, <2>6, <2>7 DEF DeskInv
<1>6. AskInv'
  <2>1. ~Asked(d)'
    BY <1>2 DEF Asked
  <2>2. \A e \in Desktops : e # d => owner # e
    BY <1>1
  <2> QED BY <1>1, <1>2, <2>1, <2>2, DesktopKeepsAsk
<1> QED BY <1>4, <1>5, <1>6 DEF HostInv

LEMMA OpensStoreHolds ==
  ASSUME HostInv, NEW d \in Desktops, OpensStore(d) PROVE HostInv'
<1>1. Typed /\ DeskInv /\ AskInv /\ desk[d].at = "listening"
      /\ UNCHANGED <<client, owner, startLock, socket>>
  BY DEF HostInv, OpensStore
<1>2. /\ desk' \in [Desktops -> Desks]
      /\ desk'[d].at = "starting" \/ (desk'[d].at = "closing" /\ desk'[d].step = 1)
      /\ desk'[d].wanted = desk[d].wanted
      /\ \A e \in Desktops : e # d => desk'[e] = desk[e]
  BY <1>1, MovesTypes, ClosingTypes DEF OpensStore
<1>3. store' = store \/ store' = store \cup {d}
  BY DEF OpensStore
<1>4. Typed'
  BY <1>1, <1>2, <1>3 DEF Typed
<1>5. DeskInv'
  BY <1>1, <1>2, <1>3
     DEF Typed, DeskInv, OwnerTrue, StepTrue, StoreTrue, SocketTrue, Hosting
<1>6. AskInv'
  <2>1. Asked(d)' => Asked(d) /\ (owner = d => owner' = d)
    BY <1>1, <1>2 DEF Asked
  <2> QED BY <1>1, <1>2, <2>1, DesktopKeepsAsk
<1> QED BY <1>4, <1>5, <1>6 DEF HostInv

LEMMA ServesHolds ==
  ASSUME HostInv, NEW d \in Desktops, Serves(d) \/ Quits(d) PROVE HostInv'
<1>1. Typed /\ DeskInv /\ AskInv /\ desk[d].at \in {"starting", "serving"}
      /\ UNCHANGED <<client, owner, startLock, socket, store>>
  BY DEF HostInv, Serves, Quits
<1>2. /\ desk' \in [Desktops -> Desks]
      /\ desk'[d].at = "serving" \/ (desk'[d].at = "closing" /\ desk'[d].step = 1)
      /\ desk'[d].wanted = desk[d].wanted
      /\ \A e \in Desktops : e # d => desk'[e] = desk[e]
  BY <1>1, MovesTypes, ClosingTypes DEF Serves, Quits
<1>3. Typed'
  BY <1>1, <1>2 DEF Typed
<1>4. DeskInv'
  BY <1>1, <1>2
     DEF Typed, DeskInv, OwnerTrue, StepTrue, StoreTrue, SocketTrue, Hosting
<1>5. AskInv'
  <2>1. Asked(d)' => Asked(d) /\ (owner = d => owner' = d)
    BY <1>1, <1>2 DEF Asked
  <2> QED BY <1>1, <1>2, <2>1, DesktopKeepsAsk
<1> QED BY <1>3, <1>4, <1>5 DEF HostInv

\* The order of the cleanup matters here: the lock goes last.
LEMMA ClosesHolds ==
  ASSUME HostInv, NEW d \in Desktops, Closes(d) PROVE HostInv'
<1>1. Typed /\ DeskInv /\ AskInv /\ desk[d].at = "closing" /\ desk[d].step \in 1..3
      /\ owner = d /\ UNCHANGED <<client, startLock>>
  BY DEF HostInv, Closes, DeskInv, StepTrue, OwnerTrue, Hosting
<1>2. \A e \in Desktops : e # d => desk[e].at \notin Hosting
  BY <1>1 DEF DeskInv, OwnerTrue
<1>3. Len(Cleanup) = 3 /\ Cleanup[1] = "server" /\ Cleanup[2] = "store" /\ Cleanup[3] = "lock"
  BY DEF Cleanup
<1>4. /\ socket' = IF desk[d].step = 1 THEN 0 ELSE socket
      /\ store' = IF desk[d].step = 2 THEN store \ {d} ELSE store
      /\ owner' = IF desk[d].step = 3 THEN 0 ELSE owner
  BY <1>1, <1>3 DEF Closes
<1>5. \A e \in Desktops : e # d => desk'[e] = desk[e]
  BY DEF Closes
<1>6. CASE desk[d].step = 3
  <2>1. /\ desk'[d] = [at |-> "gone", step |-> 0, wanted |-> FALSE]
        /\ desk' = [desk EXCEPT ![d] = [at |-> "gone", step |-> 0, wanted |-> FALSE]]
    BY <1>1, <1>3, <1>6 DEF Closes, Typed, DeskAt
  <2>2. desk' \in [Desktops -> Desks]
    BY <1>1, <2>1 DEF Typed, Desks
  <2>3. Typed'
    BY <1>1, <1>4, <2>2 DEF Typed
  <2>4. DeskInv'
    BY <1>1, <1>2, <1>4, <1>5, <1>6, <2>1, DesktopNumbers
       DEF Typed, DeskInv, OwnerTrue, StepTrue, StoreTrue, SocketTrue, Hosting
  <2>5. AskInv'
    <3>1. ~Asked(d)'
      BY <2>1 DEF Asked
    <3>2. \A e \in Desktops : e # d /\ owner = e => owner' = e
      BY <1>1
    <3> QED BY <1>1, <1>5, <2>1, <3>1, <3>2, DesktopKeepsAsk
  <2> QED BY <2>3, <2>4, <2>5 DEF HostInv
<1>7. CASE desk[d].step # 3
  <2>1. desk[d] \in Desks /\ desk[d].step + 1 \in 2..3
    BY <1>1, <1>7 DEF Typed
  <2>2. desk' = [desk EXCEPT ![d] = [desk[d] EXCEPT !.step = desk[d].step + 1]]
    BY <1>1, <1>3, <1>7 DEF Closes, Typed
  <2>3. ASSUME NEW x \in Desks, NEW k \in 2..3
        PROVE  LET y == [x EXCEPT !.step = k] IN
               y \in Desks /\ y.at = x.at /\ y.step = k /\ y.wanted = x.wanted
    BY DEF Desks
  <2>4. /\ desk' \in [Desktops -> Desks]
        /\ desk'[d].at = "closing" /\ desk'[d].step = desk[d].step + 1
        /\ desk'[d].wanted = desk[d].wanted
    BY <1>1, <2>1, <2>2, <2>3 DEF Typed
  <2>5. Typed'
    BY <1>1, <1>4, <2>4 DEF Typed
  <2>6. DeskInv'
    BY <1>1, <1>2, <1>4, <1>5, <1>7, <2>1, <2>4, DesktopNumbers
       DEF Typed, DeskInv, OwnerTrue, StepTrue, StoreTrue, SocketTrue, Hosting
  <2>7. AskInv'
    <3>1. Asked(d)' => Asked(d) /\ (owner = d => owner' = d)
      BY <1>1, <1>4, <1>7, <2>4 DEF Asked
    <3> QED BY <1>1, <1>4, <1>5, <1>7, <2>4, <3>1, DesktopKeepsAsk
  <2> QED BY <2>5, <2>6, <2>7 DEF HostInv
<1> QED BY <1>6, <1>7

LEMMA DesktopDiesHolds ==
  ASSUME HostInv, NEW d \in Desktops, DesktopDies(d) PROVE HostInv'
<1>1. Typed /\ DeskInv /\ AskInv /\ owner' = (IF owner = d THEN 0 ELSE owner)
      /\ store' = store \ {d} /\ UNCHANGED <<client, startLock, socket>>
  BY DEF HostInv, DesktopDies
<1>2. /\ desk'[d] = [at |-> "gone", step |-> 0, wanted |-> FALSE]
      /\ desk' = [desk EXCEPT ![d] = [at |-> "gone", step |-> 0, wanted |-> FALSE]]
      /\ \A e \in Desktops : e # d => desk'[e] = desk[e]
  BY <1>1 DEF DesktopDies, Typed, DeskAt
<1>3. desk' \in [Desktops -> Desks]
  BY <1>1, <1>2 DEF Typed, Desks
<1>4. Typed'
  BY <1>1, <1>3 DEF Typed
<1>5. DeskInv'
  BY <1>1, <1>2, DesktopNumbers
     DEF Typed, DeskInv, OwnerTrue, StepTrue, StoreTrue, SocketTrue, Hosting
<1>6. AskInv'
  <2>1. ~Asked(d)'
    BY <1>2 DEF Asked
  <2>2. \A e \in Desktops : e # d /\ owner = e => owner' = e
    BY <1>1
  <2> QED BY <1>1, <1>2, <2>1, <2>2, DesktopKeepsAsk
<1> QED BY <1>4, <1>5, <1>6 DEF HostInv

-----------------------------------------------------------------------------
(* Steps of a client.                                                      *)

\* What the desktops rely on survives a step in which none of them moves.
LEMMA ClientKeepsDesk ==
  ASSUME DeskInv, UNCHANGED <<owner, socket, store>>,
         \A d \in Desktops : desk'[d].at = desk[d].at /\ desk'[d].step = desk[d].step,
         store \in SUBSET Desktops
  PROVE  DeskInv'
<1>1. OwnerTrue' /\ StepTrue'
  BY DEF DeskInv, OwnerTrue, StepTrue
<1>2. StoreTrue' /\ SocketTrue'
  BY DEF DeskInv, StoreTrue, SocketTrue
<1> QED BY <1>1, <1>2 DEF DeskInv

\* A step of one client that neither waits for a desktop nor is about to start one,
\* before and after it.
LEMMA QuietClientStep ==
  ASSUME HostInv, NEW p \in Clients,
         client' \in [Clients -> ClientStates],
         \A q \in Clients : q # p => client'[q] = client[q],
         client[p].at \notin {"start", "await"}, client'[p].at \notin {"start", "await"},
         startLock' \in Clients \cup {0},
         startLock' = p <=> client'[p].at \in Starting,
         \A q \in Clients : q # p => (startLock' = q <=> startLock = q),
         UNCHANGED <<desk, owner, socket, store>>
  PROVE  HostInv'
<1>1. Typed /\ DeskInv /\ AskInv
  BY DEF HostInv
<1>2. Typed'
  BY <1>1 DEF Typed
<1>3. DeskInv'
  BY <1>1, ClientKeepsDesk DEF Typed
<1>4. StartLockTrue'
  BY <1>1 DEF AskInv, StartLockTrue
<1>5. Unasked'
  BY <1>1 DEF AskInv, Unasked
<1>6. AskedFor'
  BY <1>1 DEF AskInv, AskedFor, Asked
<1>7. OneAsked'
  BY <1>1 DEF AskInv, OneAsked, Asked
<1> QED BY <1>2, <1>3, <1>4, <1>5, <1>6, <1>7 DEF HostInv, AskInv

LEMMA ConnectsHolds ==
  ASSUME HostInv, NEW p \in Clients, Connects(p) \/ Misses(p) \/ Probes(p) PROVE HostInv'
<1>1. Typed /\ AskInv /\ UNCHANGED <<desk, owner, startLock, socket, store>>
  BY DEF HostInv, Connects, Misses, Probes
<1>2. PICK at \in {"loop", "probe", "take", "recheck"} :
         /\ Goes(p, at)
         /\ at = "recheck" <=> client[p].at = "redial"
         /\ client[p].at \in {"idle", "connected", "loop", "redial", "probe"}
  BY DEF Connects, Misses, Probes
<1>3. /\ client' \in [Clients -> ClientStates] /\ client'[p].at = at
      /\ \A q \in Clients : q # p => client'[q] = client[q]
  BY <1>1, <1>2, GoesTypes
<1>4. startLock' = p <=> client'[p].at \in Starting
  BY <1>1, <1>2, <1>3 DEF AskInv, StartLockTrue, Starting
<1> QED BY <1>1, <1>2, <1>3, <1>4, QuietClientStep DEF Typed

LEMMA TakesHolds ==
  ASSUME HostInv, NEW p \in Clients, Takes(p) PROVE HostInv'
<1>1. Typed /\ AskInv /\ client[p].at = "take" /\ UNCHANGED <<desk, owner, socket, store>>
  BY DEF HostInv, Takes
<1>2. PICK at \in {"redial", "loop"} :
         /\ Goes(p, at)
         /\ at = "redial" => startLock = 0 /\ startLock' = p
         /\ at = "loop" => startLock' = startLock
  BY DEF Takes
<1>3. /\ client' \in [Clients -> ClientStates] /\ client'[p].at = at
      /\ \A q \in Clients : q # p => client'[q] = client[q]
  BY <1>1, <1>2, GoesTypes
<1>4. startLock' = p <=> client'[p].at \in Starting
  BY <1>1, <1>2, <1>3 DEF AskInv, StartLockTrue, Starting
<1>5. \A q \in Clients : q # p => (startLock' = q <=> startLock = q)
  BY <1>2, DesktopNumbers
<1>6. startLock' \in Clients \cup {0}
  BY <1>1, <1>2 DEF Typed
<1> QED BY <1>1, <1>2, <1>3, <1>4, <1>5, <1>6, QuietClientStep

\* A client finds the lock of the host free only when no desktop that was asked for
\* is left: such a desktop has the lock, or another client holds the start lock.
LEMMA RechecksHolds ==
  ASSUME HostInv, NEW p \in Clients, Rechecks(p) PROVE HostInv'
<1>1. Typed /\ DeskInv /\ AskInv /\ client[p].at = "recheck" /\ startLock = p
      /\ UNCHANGED <<desk, owner, socket, store>>
  BY DEF HostInv, Rechecks, AskInv, StartLockTrue, Starting
<1>2. CASE Goes(p, "loop") /\ Unlocked(p)
  <2>1. /\ client' \in [Clients -> ClientStates] /\ client'[p].at = "loop"
        /\ \A q \in Clients : q # p => client'[q] = client[q]
    BY <1>1, <1>2, GoesTypes
  <2>2. startLock' = 0
    BY <1>1, <1>2 DEF Unlocked
  <2> QED BY <1>1, <2>1, <2>2, DesktopNumbers, QuietClientStep DEF Starting
<1>3. CASE SeenFree /\ Goes(p, "start") /\ UNCHANGED startLock
  <2>1. /\ client' \in [Clients -> ClientStates] /\ client'[p].at = "start"
        /\ \A q \in Clients : q # p => client'[q] = client[q]
    BY <1>1, <1>3, GoesTypes
  <2>2. \A q \in Clients : q # p => client[q].at \notin {"start", "await"}
    BY <1>1 DEF AskInv, StartLockTrue, Starting
  <2>3. \A d \in Desktops : ~Asked(d)
    BY <1>1, <1>3, <2>2, DesktopNumbers DEF AskInv, AskedFor, SeenFree
  <2>4. Typed'
    BY <1>1, <1>3, <2>1 DEF Typed
  <2>5. DeskInv'
    BY <1>1, ClientKeepsDesk DEF Typed
  <2>6. StartLockTrue'
    BY <1>1, <1>3, <2>1 DEF AskInv, StartLockTrue, Starting
  <2>7. Unasked' /\ \A d \in Desktops : ~Asked(d)'
    BY <1>1, <2>3 DEF AskInv, Unasked, Asked
  <2> QED BY <2>4, <2>5, <2>6, <2>7 DEF HostInv, AskInv, AskedFor, OneAsked
<1> QED BY <1>2, <1>3 DEF Rechecks

LEMMA StartsHolds ==
  ASSUME HostInv, NEW p \in Clients, Starts(p) PROVE HostInv'
<1>1. Typed /\ DeskInv /\ AskInv /\ client[p].at = "start" /\ startLock = p
      /\ UNCHANGED <<owner, startLock, socket, store>>
  BY DEF HostInv, Starts, AskInv, StartLockTrue, Starting
<1>2. PICK d \in Desktops :
         /\ desk[d].at = "none"
         /\ desk' = [desk EXCEPT ![d] = DeskAt("open", TRUE)]
         /\ client' = [client EXCEPT ![p] = [at |-> "await", desk |-> d]]
  BY DEF Starts, New
<1>3. /\ desk'[d] = [at |-> "open", step |-> 0, wanted |-> TRUE]
      /\ desk' = [desk EXCEPT ![d] = [at |-> "open", step |-> 0, wanted |-> TRUE]]
      /\ \A e \in Desktops : e # d => desk'[e] = desk[e]
  BY <1>1, <1>2 DEF Typed, DeskAt
<1>4. /\ client'[p] = [at |-> "await", desk |-> d]
      /\ \A q \in Clients : q # p => client'[q] = client[q]
  BY <1>1, <1>2 DEF Typed
<1>5. desk' \in [Desktops -> Desks] /\ client' \in [Clients -> ClientStates]
  <2>1. [at |-> "open", step |-> 0, wanted |-> TRUE] \in Desks
    BY DEF Desks
  <2>2. [at |-> "await", desk |-> d] \in ClientStates
    BY DEF ClientStates
  <2> QED BY <1>1, <1>2, <1>3, <2>1, <2>2 DEF Typed
<1>6. Typed'
  BY <1>1, <1>5 DEF Typed
<1>7. DeskInv'
  <2>1. desk[d].at \notin Hosting /\ desk'[d].at = "open"
    <3>1. desk[d].at = "none"
      BY <1>2
    <3>2. desk'[d] = [at |-> "open", step |-> 0, wanted |-> TRUE]
      BY <1>3
    <3> QED BY <3>1, <3>2 DEF Hosting
  <2>2. OwnerTrue'
    BY <1>1, <1>3, <2>1 DEF DeskInv, OwnerTrue, Hosting
  <2>3. StepTrue' /\ SocketTrue'
    BY <1>1, <1>3, <2>1 DEF DeskInv, StepTrue, SocketTrue
  <2>4. StoreTrue'
    BY <1>1, <1>3, <2>1 DEF Typed, DeskInv, StoreTrue, Hosting
  <2> QED BY <2>2, <2>3, <2>4 DEF DeskInv
<1>8. StartLockTrue' /\ Unasked'
  BY <1>1, <1>3, <1>4 DEF AskInv, StartLockTrue, Unasked, Starting
<1>9. \A e \in Desktops : Asked(e)' => e = d
  BY <1>1, <1>3 DEF AskInv, OneAsked, Asked
<1>10. \A q \in Clients : q # p => client'[q].at \notin {"start", "await"}
  BY <1>1, <1>4 DEF AskInv, StartLockTrue, Starting
<1>11. AskedFor' /\ OneAsked'
  BY <1>4, <1>9, <1>10 DEF AskedFor, OneAsked
<1> QED BY <1>6, <1>7, <1>8, <1>11 DEF HostInv, AskInv

\* However a client leaves, the desktop it waited for is the host it has found, or is
\* asked for no longer.
LEMMA LeaveHolds ==
  ASSUME HostInv, NEW p \in Clients, NEW at \in {"connected", "idle", "gone"},
         NEW found \in Desktops \cup {0}, Leave(p, ClientAt(at), found),
         found # 0 => owner = found,
         UNCHANGED <<owner, socket, store>>
  PROVE  HostInv'
<1>1. Typed /\ DeskInv /\ AskInv
  BY DEF HostInv
<1>2. ClientAt(at) \in ClientStates /\ ClientAt(at).at = at
  BY DEF ClientAt, ClientStates
<1>3. /\ client' \in [Clients -> ClientStates] /\ desk' \in [Desktops -> Desks]
      /\ startLock' = IF startLock = p THEN 0 ELSE startLock
      /\ client'[p].at = at
      /\ \A q \in Clients : q # p => client'[q] = client[q]
      /\ \A d \in Desktops :
            /\ desk'[d].at = desk[d].at /\ desk'[d].step = desk[d].step
            /\ desk'[d].wanted = (desk[d].wanted /\ (client[p].desk = d => found = d))
  BY <1>1, <1>2, LeaveTypes
<1>4. Typed'
  BY <1>1, <1>3 DEF Typed
<1>5. DeskInv'
  BY <1>1, <1>3, ClientKeepsDesk DEF Typed
<1>6. StartLockTrue'
  BY <1>1, <1>3, DesktopNumbers DEF AskInv, StartLockTrue, Starting
<1>7. Unasked' /\ \A d \in Desktops : Asked(d)' => Asked(d)
  BY <1>1, <1>3 DEF AskInv, Unasked, Asked
<1>8. AskedFor'
  <2> SUFFICES ASSUME NEW d \in Desktops, Asked(d)'
               PROVE  owner = d \/ \E q \in Clients : client'[q].at = "await" /\ client'[q].desk = d
    BY DEF AskedFor
  <2>1. client[p].desk = d => found = d
    BY <1>3 DEF Asked
  <2>2. client[p].desk = d => owner = d
    BY <2>1, DesktopNumbers
  <2> QED BY <1>1, <1>3, <1>7, <2>2 DEF AskInv, AskedFor
<1>9. OneAsked'
  BY <1>1, <1>3, <1>7 DEF AskInv, OneAsked
<1> QED BY <1>4, <1>5, <1>6, <1>7, <1>8, <1>9 DEF HostInv, AskInv

LEMMA LeavesHolds ==
  ASSUME HostInv, NEW p \in Clients, Dials(p) \/ Fails(p) \/ ClientDies(p) PROVE HostInv'
<1>1. Typed /\ DeskInv /\ UNCHANGED <<owner, socket, store>>
  BY DEF HostInv, Dials, Fails, ClientDies
<1>2. CASE Dials(p)
  <2>1. socket \in Desktops /\ owner = socket
    BY <1>1, <1>2 DEF Dials, Reachable, DeskInv, OwnerTrue, Hosting
  <2> QED BY <1>1, <1>2, <2>1, LeaveHolds DEF Dials
<1>3. CASE Fails(p)
  BY <1>1, <1>3, LeaveHolds DEF Fails
<1>4. CASE ClientDies(p)
  BY <1>1, <1>4, LeaveHolds DEF ClientDies
<1> QED BY <1>2, <1>3, <1>4

-----------------------------------------------------------------------------
(* The theorems.                                                           *)

LEMMA StepHolds == HostInv /\ [Next]_vars => HostInv'
<1> SUFFICES ASSUME HostInv, [Next]_vars PROVE HostInv'
  OBVIOUS
<1>1. ASSUME NEW d \in Desktops,
             UserStarts(d) \/ Opens(d) \/ Listens(d) \/ ListenFails(d) \/ OpensStore(d)
               \/ Serves(d) \/ Quits(d) \/ Closes(d) \/ DesktopDies(d)
      PROVE  HostInv'
  BY <1>1, UserStartsHolds, OpensHolds, ListensHolds, ListenFailsHolds, OpensStoreHolds,
     ServesHolds, ClosesHolds, DesktopDiesHolds
<1>2. ASSUME NEW p \in Clients,
             Connects(p) \/ Dials(p) \/ Misses(p) \/ Probes(p) \/ Takes(p)
               \/ Rechecks(p) \/ Starts(p) \/ Fails(p) \/ ClientDies(p)
      PROVE  HostInv'
  BY <1>2, ConnectsHolds, TakesHolds, RechecksHolds, StartsHolds, LeavesHolds
<1>3. CASE UNCHANGED vars
  BY <1>3 DEF vars, HostInv, Typed, DeskInv, OwnerTrue, StepTrue, StoreTrue, SocketTrue,
              AskInv, StartLockTrue, Unasked, AskedFor, OneAsked, Asked
<1> QED BY <1>1, <1>2, <1>3 DEF Next

\* Every reachable state satisfies the inductive invariant.
THEOREM HostInvHolds == Spec => []HostInv
<1> QED BY InitHolds, StepHolds, PTL DEF Spec

\* Every reachable state is well typed, and the start lock belongs to the client that
\* is between taking it and giving it back.
THEOREM HostTypes == Spec => []TypeOK
<1>1. HostInv => TypeOK
  BY TypeParts DEF HostInv, AskInv
<1> QED BY <1>1, HostInvHolds, PTL

\* A set with at most one element has at most one.
LEMMA AtMostOne ==
  ASSUME NEW S, \A x, y \in S : x = y PROVE Cardinality(S) <= 1
<1>1. CASE S = {}
  BY <1>1, FS_EmptySet
<1>2. CASE S # {}
  <2>1. PICK x : x \in S
    BY <1>2
  <2>2. S = {x}
    BY <2>1
  <2> QED BY <2>2, FS_Singleton
<1> QED BY <1>1, <1>2

\* One supervisor at a time has the database open, and one that serves has its address
\* and its lock, whoever starts, quits or crashes when (openHost).
THEOREM OneHostAtATime == Spec => []OneHost
<1>1. HostInv => OneHost
  <2> SUFFICES ASSUME HostInv PROVE OneHost
    OBVIOUS
  <2>1. \A d \in store : owner = d
    BY DEF HostInv, Typed, DeskInv, StoreTrue, OwnerTrue, Hosting
  <2>2. Cardinality(store) <= 1
    BY <2>1, AtMostOne
  <2>3. \A d \in Desktops : desk[d].at = "serving" => socket = d /\ owner = d
    BY DEF HostInv, DeskInv, SocketTrue, OwnerTrue, Hosting
  <2> QED BY <2>2, <2>3 DEF OneHost
<1> QED BY <1>1, HostInvHolds, PTL

\* However many clients look for a supervisor at once, they have one desktop between
\* them (connectClient).
THEOREM OneDesktopBetweenThem == Spec => []OneDesktop
<1>1. HostInv => OneDesktop
  <2> SUFFICES ASSUME HostInv PROVE OneDesktop
    OBVIOUS
  <2> DEFINE lit == {d \in Desktops : desk[d].wanted /\ desk[d].at # "client"}
  <2>1. ASSUME NEW d \in lit, NEW e \in lit PROVE d = e
    <3>1. Asked(d) /\ Asked(e) /\ d \in Desktops /\ e \in Desktops
      BY DEF Asked
    <3>2. AskInv
      BY DEF HostInv
    <3>3. CASE owner = d /\ owner = e
      BY <3>3
    <3>4. CASE \E p \in Clients : client[p].at = "await" /\ client[p].desk = d
      BY <3>1, <3>2, <3>4 DEF AskInv, OneAsked
    <3>5. CASE \E p \in Clients : client[p].at = "await" /\ client[p].desk = e
      BY <3>1, <3>2, <3>5 DEF AskInv, OneAsked
    <3> QED BY <3>1, <3>2, <3>3, <3>4, <3>5 DEF AskInv, AskedFor
  <2>2. Cardinality(lit) <= 1
    BY <2>1, AtMostOne
  <2> QED BY <2>2 DEF OneDesktop
<1> QED BY <1>1, HostInvHolds, PTL
=============================================================================
