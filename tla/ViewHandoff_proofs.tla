------------------------- MODULE ViewHandoff_proofs -------------------------
(***************************************************************************)
(* Theorems about the hand-over of a session's input between the           *)
(* supervisor and the terminal, for every number of calls, launches,       *)
(* workers, windows, requests and faults: one launch at a time opens the   *)
(* terminal, and what is shown is watched.                                 *)
(***************************************************************************)
EXTENDS ViewHandoff, FiniteSetTheorems, TLAPS

LaunchRec == [at : Launching, epoch : Nat, hold : BOOLEAN, h : Handles, owner : Owners,
              more : BOOLEAN]
Item == [req : 1..Requests, gen : Nat]
Turn == [at : {"popped", "prompt", "returned"}, item : Item, cancelled : BOOLEAN,
         again : BOOLEAN]
Call == [by : {"hide", "detach", "watch", "exit"}, key : Nat]
Finish == [key : Nat, h : Handles, gen : Nat, at : {"close", "check", "load"}]
Watcher == [h : 1..Viewers, gen : Nat, cancelled : BOOLEAN]
Term == [worker : 0..Workers, handle : Handles]
Viewer == [at : {"unused", "opening", "ready", "closed"}, worker : 0..Workers]
Past == [sent : Seq(1..Requests), dropped : Nat, gaveUp : BOOLEAN]
Loss == [at : {"no"}] \cup [at : {"release", "job"}, job : BOOLEAN, of : Term]

RowTyped == job \in Job /\ rt \in Runtime
LaunchTyped == launches \in [Slots -> Launch]
TurnTyped == pumps \in Nat /\ queue \in Seq(Item) /\ (turn = Idle \/ turn \in Turn)
CallTyped == calls \subseteq Call /\ finishes \subseteq Finish /\ watchers \subseteq Watcher
TermTyped ==
    /\ term \in Term /\ worker \in [1..Workers -> {"unused", "alive", "dead", "gone"}]
    /\ viewer \in [1..Viewers -> Viewer]
PastTyped ==
    /\ lost \in Loss /\ past \in Past
    /\ used \in [views : Nat, requests : Nat, faults : Nat, approvals : Nat]
Typed == RowTyped /\ LaunchTyped /\ TurnTyped /\ CallTyped /\ TermTyped /\ PastTyped

-----------------------------------------------------------------------------
(* The inductive invariant.                                                *)

Waits == {"idle", "start", "waiting", "woken"}
HasWindow == {"existing", "adopt", "ready", "commit"}
WatchCall == \E c \in calls : c.by = "watch"
\* A launch that holds the window of the runtime and is still the current one has it
\* watched, or the watcher's detach is on its way and will make the launch outdated.
LaunchOk(s) ==
    launches[s].at # "idle" =>
        /\ launches[s].epoch <= rt.epoch
        /\ launches[s].at \in HasWindow => launches[s].h # None
        /\ launches[s].at = "reconcile" => ~Current(launches[s].epoch)
        /\ launches[s].at = "existing" /\ Current(launches[s].epoch) => Watched \/ WatchCall
OneAttach ==
    /\ \A s, t \in Attaching : s = t
    /\ rt.attaching <=> Attaching # {}
Launched == OneAttach /\ \A s \in Slots : LaunchOk(s)

TerminalWatched == rt.term # None => Watched

\* Somebody will attach, or detach: a call that is not outdated is under way.
CallComes == \E c \in calls : ~DetachStale(c)
LaunchComes == \E s \in Slots : launches[s].at # "idle" /\ Current(launches[s].epoch)
HeadedOk ==
    job.view = "headed" =>
        /\ job.owner = "tui"
        /\ Dropped \/ Watched \/ CallComes \/ LaunchComes

ViewInv == Typed /\ Launched /\ TerminalWatched /\ HeadedOk

LEMMA Bounds ==
  /\ Viewers \in Nat /\ Workers \in Nat /\ Requests \in Nat
  /\ None \in Handles /\ None \in 0..Workers /\ \A h \in Handles : h # None => h \in 1..Viewers
  /\ \A h \in 1..Viewers : h \in Handles /\ h # None
  /\ \A g \in 1..Workers : g \in 0..Workers
BY ViewAssumption DEF None, Handles

LEMMA InitHolds == Init => ViewInv
<1> SUFFICES ASSUME Init PROVE ViewInv
  OBVIOUS
<1>1. /\ job = [view |-> "headless", desired |-> "headless", owner |-> "supervisor",
               pause |-> "", stalled |-> ""]
      /\ rt = [requested |-> FALSE, epoch |-> 0, attaching |-> FALSE, term |-> None,
               attachGen |-> 0, watched |-> 0, workerGen |-> None, gen |-> 0]
      /\ queue = <<>> /\ turn = Idle /\ pumps = 0
      /\ launches = [s \in Slots |-> Idle]
      /\ calls = {} /\ finishes = {} /\ watchers = {}
      /\ term = [worker |-> None, handle |-> None]
      /\ worker = [g \in 1..Workers |-> "unused"]
      /\ viewer = [h \in 1..Viewers |-> [at |-> "unused", worker |-> None]]
      /\ lost = [at |-> "no"] /\ past = [sent |-> <<>>, dropped |-> 0, gaveUp |-> FALSE]
      /\ used = [views |-> 0, requests |-> 0, faults |-> 0, approvals |-> 0]
  BY DEF Init
<1>2. RowTyped
  BY <1>1, Bounds DEF RowTyped, Job, Runtime, ViewModes, Owners, Pauses, Stalls
<1>3. LaunchTyped /\ \A s \in Slots : launches[s].at = "idle"
  BY <1>1 DEF LaunchTyped, Launch, Idle
<1>4. TurnTyped /\ CallTyped
  <2>1. <<>> \in Seq(Item)
    OBVIOUS
  <2> QED BY <1>1, <2>1 DEF TurnTyped, CallTyped
<1>5. TermTyped
  BY <1>1, Bounds DEF TermTyped, Term, Viewer
<1>6. PastTyped
  <2>1. used \in [views : Nat, requests : Nat, faults : Nat, approvals : Nat]
    BY <1>1
  <2>2. past \in Past
    <3>1. <<>> \in Seq(1..Requests)
      OBVIOUS
    <3> QED BY <1>1, <3>1 DEF Past
  <2> QED BY <1>1, <2>1, <2>2 DEF PastTyped, Loss
<1>7. Attaching = {}
  BY <1>3 DEF Attaching
<1>8. Launched
  BY <1>1, <1>3, <1>7 DEF Launched, OneAttach, LaunchOk
<1> QED BY <1>1, <1>2, <1>3, <1>4, <1>5, <1>6, <1>8
        DEF ViewInv, Typed, TerminalWatched, HeadedOk

-----------------------------------------------------------------------------
(* What leaves a part of the invariant alone.                              *)

LEMMA WatchedKeeps ==
  ASSUME rt'.term = rt.term, rt'.attachGen = rt.attachGen,
         \A w \in watchers : \E v \in watchers' : v.h = w.h /\ v.gen = w.gen
  PROVE  (Watched => Watched') /\ (TerminalWatched => TerminalWatched')
BY DEF Watched, TerminalWatched

\* A cancelled watcher is still there until it has seen it.
LEMMA CancelledTyped ==
  ASSUME CallTyped, NEW gen
  PROVE  /\ Cancelled(gen) \subseteq Watcher
         /\ \A w \in watchers : \E v \in Cancelled(gen) : v.h = w.h /\ v.gen = w.gen
<1>1. \A w \in watchers : LET v == IF w.gen = gen THEN [w EXCEPT !.cancelled = TRUE] ELSE w IN
         v \in Watcher /\ v.h = w.h /\ v.gen = w.gen
  BY DEF CallTyped, Watcher
<1> QED BY <1>1 DEF Cancelled

LEMMA ClosedTyped ==
  ASSUME TermTyped, NEW h PROVE Closed(h) \in [1..Viewers -> Viewer]
BY DEF TermTyped, Closed, Viewer

LEMMA SaveViewTyped ==
  ASSUME job \in Job, NEW v \in ViewModes, NEW d \in {"headless", "headed"}, NEW o \in Owners,
         SaveView(v, d, o)
  PROVE  /\ job' \in Job /\ job'.view = v /\ job'.owner = o /\ job'.desired = d
         /\ job'.pause = job.pause
BY DEF SaveView, Job

\* The epoch only grows; a launch does not become the current one again, and the
\* window of the current one stays watched.
Forward ==
    /\ rt'.epoch \in Nat /\ rt.epoch <= rt'.epoch
    /\ rt'.requested /\ rt'.epoch = rt.epoch =>
          rt.requested /\ (Watched \/ WatchCall => (Watched \/ WatchCall)')

LEMMA OkKeeps ==
  ASSUME Typed, NEW s \in Slots, LaunchOk(s), Forward, launches'[s] = launches[s]
  PROVE  LaunchOk(s)'
<1> SUFFICES ASSUME launches[s].at # "idle" PROVE LaunchOk(s)'
  BY DEF LaunchOk
<1>1. launches[s] \in LaunchRec
  BY DEF Typed, LaunchTyped, Launch, LaunchRec, Idle
<1>2. launches[s].epoch \in Nat /\ rt.epoch \in Nat /\ launches[s].epoch <= rt.epoch
  BY <1>1 DEF LaunchOk, Typed, RowTyped, Runtime, LaunchRec
<1>3. launches'[s].epoch <= rt'.epoch
  BY <1>2 DEF Forward
<1>4. Current(launches[s].epoch)' => Current(launches[s].epoch) /\ rt'.requested /\ rt'.epoch = rt.epoch
  BY <1>2 DEF Forward, Current
<1> QED BY <1>3, <1>4 DEF LaunchOk, Forward, Current

LEMMA LaunchedKeeps ==
  ASSUME Typed, Launched, Forward, UNCHANGED launches, rt'.attaching = rt.attaching
  PROVE  Launched'
<1>1. \A s \in Slots : LaunchOk(s)'
  BY OkKeeps DEF Launched
<1>2. Attaching' = Attaching
  BY DEF Attaching
<1> QED BY <1>1, <1>2 DEF Launched, OneAttach

\* A launch moves on, and nothing else changes for the others.
Others(s) ==
    \A t \in Slots \ {s} :
        \/ launches'[t] = launches[t]
        \/ launches[t].at = "waiting" /\ launches'[t] = [launches[t] EXCEPT !.at = "woken"]

LEMMA OthersOk ==
  ASSUME Typed, Launched, Forward, NEW s \in Slots, Others(s)
  PROVE  \A t \in Slots \ {s} : /\ LaunchOk(t)' /\ launches'[t] \in Launch
                                /\ launches'[t].at \in Waits <=> launches[t].at \in Waits
                                /\ launches'[t].at = "idle" <=> launches[t].at = "idle"
                                /\ launches'[t].epoch = launches[t].epoch
<1> TAKE t \in Slots \ {s}
<1>1. launches[t] \in Launch /\ LaunchOk(t)
  BY DEF Typed, LaunchTyped, Launched
<1>2. CASE launches'[t] = launches[t]
  BY <1>1, <1>2, OkKeeps
<1>3. CASE launches[t].at = "waiting" /\ launches'[t] = [launches[t] EXCEPT !.at = "woken"]
  <2>1. launches[t] \in LaunchRec
    BY <1>1, <1>3 DEF Launch, LaunchRec, Idle
  <2>2. "woken" \in Launching
    BY DEF Launching
  <2>3. /\ launches'[t] \in LaunchRec /\ launches'[t].at = "woken"
        /\ launches'[t].epoch = launches[t].epoch
    BY <1>3, <2>1, <2>2 DEF LaunchRec
  <2>4. launches[t].epoch \in Nat /\ rt.epoch \in Nat /\ launches[t].epoch <= rt.epoch
    BY <1>1, <1>3, <2>1 DEF LaunchOk, Typed, RowTyped, Runtime, LaunchRec
  <2>5. launches'[t].epoch <= rt'.epoch
    BY <2>3, <2>4 DEF Forward
  <2>6. LaunchOk(t)'
    BY <2>3, <2>5 DEF LaunchOk, HasWindow
  <2> QED BY <1>3, <2>3, <2>6 DEF Launch, LaunchRec, Waits
<1> QED BY <1>2, <1>3 DEF Others

\* The launch stays on its side of the door, or goes in or out.
LEMMA LaunchMoves ==
  ASSUME Typed, Launched, Forward, NEW s \in Slots, Others(s), launches' \in [Slots -> Launch],
         LaunchOk(s)',
         \/ /\ launches[s].at \in Waits <=> launches'[s].at \in Waits
            /\ rt'.attaching = rt.attaching
         \/ /\ launches[s].at \in Waits /\ launches'[s].at \notin Waits
            /\ ~rt.attaching /\ rt'.attaching
         \/ /\ launches[s].at \notin Waits /\ launches'[s].at \in Waits
            /\ ~rt'.attaching
  PROVE  Launched'
<1>1. \A t \in Slots : LaunchOk(t)'
  BY OthersOk
<1>2. \A t \in Slots \ {s} : t \in Attaching' <=> t \in Attaching
  BY OthersOk DEF Attaching, Waits
<1>3. /\ s \in Attaching <=> launches[s].at \notin Waits
      /\ s \in Attaching' <=> launches'[s].at \notin Waits
  BY DEF Attaching, Waits
<1>4. Attaching \subseteq Slots /\ Attaching' \subseteq Slots
  BY DEF Attaching
<1>5. OneAttach
  BY DEF Launched
<1>6. OneAttach'
  <2>1. CASE /\ launches[s].at \in Waits <=> launches'[s].at \in Waits
             /\ rt'.attaching = rt.attaching
    <3>1. Attaching' = Attaching
      BY <1>2, <1>3, <1>4, <2>1
    <3> QED BY <1>5, <2>1, <3>1 DEF OneAttach
  <2>2. CASE /\ launches[s].at \in Waits /\ launches'[s].at \notin Waits
             /\ ~rt.attaching /\ rt'.attaching
    <3>1. Attaching' = {s}
      BY <1>2, <1>3, <1>4, <1>5, <2>2 DEF OneAttach
    <3> QED BY <2>2, <3>1 DEF OneAttach
  <2>3. CASE /\ launches[s].at \notin Waits /\ launches'[s].at \in Waits
             /\ ~rt'.attaching
    <3>1. Attaching' = {}
      BY <1>2, <1>3, <1>4, <1>5, <2>3 DEF OneAttach
    <3> QED BY <2>3, <3>1 DEF OneAttach
  <2> QED BY <2>1, <2>2, <2>3
<1> QED BY <1>1, <1>6 DEF Launched

LEMMA HeadedKeeps ==
  ASSUME HeadedOk,
         job'.view = "headed" =>
            /\ job.view = "headed" /\ job'.owner = job.owner
            /\ Dropped => Dropped'
            /\ Watched \/ CallComes \/ LaunchComes => (Watched \/ CallComes \/ LaunchComes)'
  PROVE  HeadedOk'
BY DEF HeadedOk

\* A step that is nothing to the view.
Apart ==
    /\ rt'.term = rt.term /\ rt'.attachGen = rt.attachGen /\ rt'.epoch = rt.epoch
    /\ rt'.requested = rt.requested /\ rt'.attaching = rt.attaching
    /\ job'.view = "headed" =>
          job.view = "headed" /\ job'.owner = job.owner
          /\ past'.dropped \in {past.dropped, rt.epoch}
    /\ UNCHANGED watchers /\ calls \subseteq calls'
LEMMA ApartHolds ==
  ASSUME ViewInv, Apart, UNCHANGED launches, Typed' PROVE ViewInv'
<1>1. (Watched => Watched') /\ TerminalWatched'
  BY WatchedKeeps DEF Apart, ViewInv
<1>2. WatchCall => WatchCall'
  BY DEF WatchCall, Apart
<1>3. Forward
  BY <1>1, <1>2 DEF Forward, Apart, ViewInv, Typed, RowTyped, Runtime
<1>4. Launched'
  BY <1>3, LaunchedKeeps DEF Apart, ViewInv
<1>5. CallComes => CallComes'
  BY DEF CallComes, DetachStale, Apart
<1>6. LaunchComes => LaunchComes'
  BY DEF LaunchComes, Current, Apart
<1>7. HeadedOk'
  BY <1>1, <1>5, <1>6, HeadedKeeps DEF Apart, ViewInv, Dropped
<1> QED BY <1>1, <1>4, <1>7 DEF ViewInv

-----------------------------------------------------------------------------
(* How a launch moves.                                                     *)

LEMMA LaunchSet ==
  ASSUME LaunchTyped, NEW s \in Slots, NEW l \in Launch, launches' = [launches EXCEPT ![s] = l]
  PROVE  launches' \in [Slots -> Launch] /\ launches'[s] = l /\ Others(s)
BY DEF LaunchTyped, Others

LEMMA LaunchTo ==
  ASSUME LaunchTyped, NEW s \in Slots, launches[s].at # "idle", NEW at \in Launching, To(s, at)
  PROVE  /\ launches' \in [Slots -> Launch] /\ Others(s)
         /\ launches'[s].at = at /\ launches'[s].epoch = launches[s].epoch
         /\ launches'[s].h = launches[s].h
<1> DEFINE l == [launches[s] EXCEPT !.at = at]
<1>1. launches[s] \in LaunchRec
  BY DEF LaunchTyped, Launch, LaunchRec, Idle
<1>2. l \in LaunchRec /\ l.at = at /\ l.epoch = launches[s].epoch /\ l.h = launches[s].h
  BY <1>1 DEF LaunchRec
<1>3. launches' = [launches EXCEPT ![s] = l]
  BY DEF To, LaunchTyped
<1> HIDE DEF l
<1>4. l \in Launch
  BY <1>2 DEF Launch, LaunchRec
<1> QED BY <1>2, <1>3, <1>4, LaunchSet

LEMMA LaunchToWith ==
  ASSUME LaunchTyped, NEW s \in Slots, launches[s].at # "idle", NEW at \in Launching,
         NEW h \in Handles, ToWith(s, at, h)
  PROVE  /\ launches' \in [Slots -> Launch] /\ Others(s)
         /\ launches'[s].at = at /\ launches'[s].epoch = launches[s].epoch
         /\ launches'[s].h = h
<1> DEFINE k == [launches[s] EXCEPT !.at = at]
           l == [k EXCEPT !.h = h]
<1>1. launches[s] \in LaunchRec
  BY DEF LaunchTyped, Launch, LaunchRec, Idle
<1>2. k \in LaunchRec /\ k.at = at /\ k.epoch = launches[s].epoch
  BY <1>1 DEF LaunchRec
<1>3. launches' = [launches EXCEPT ![s] = l]
  BY DEF ToWith, LaunchTyped
<1> HIDE DEF k
<1>4. l \in LaunchRec /\ l.at = at /\ l.epoch = launches[s].epoch /\ l.h = h
  BY <1>2 DEF LaunchRec
<1> HIDE DEF l
<1>5. l \in Launch
  BY <1>4 DEF Launch, LaunchRec
<1> QED BY <1>3, <1>4, <1>5, LaunchSet

LEMMA LaunchesEnd ==
  ASSUME LaunchTyped, pumps \in Nat, NEW s \in Slots, LaunchEnds(s)
  PROVE  /\ launches' \in [Slots -> Launch] /\ Others(s) /\ launches'[s] = Idle
         /\ pumps' \in Nat
<1>1. \A t \in Slots : launches[t].at = "waiting" =>
          [launches[t] EXCEPT !.at = "woken"] \in Launch
  <2> TAKE t \in Slots
  <2> HAVE launches[t].at = "waiting"
  <2>1. launches[t] \in LaunchRec
    BY DEF LaunchTyped, Launch, LaunchRec, Idle
  <2>2. "woken" \in Launching
    BY DEF Launching
  <2>3. [launches[t] EXCEPT !.at = "woken"] \in LaunchRec
    BY <2>1, <2>2 DEF LaunchRec
  <2> QED BY <2>3 DEF Launch, LaunchRec
<1>2. Idle \in Launch
  BY DEF Launch
<1>3. \A t \in Slots : launches'[t] =
         IF t = s THEN Idle
         ELSE IF launches[t].at = "waiting" THEN [launches[t] EXCEPT !.at = "woken"]
         ELSE launches[t]
  BY DEF LaunchEnds
<1>4. launches' \in [Slots -> Launch]
  BY <1>1, <1>2 DEF LaunchEnds, LaunchTyped
<1>5. Others(s) /\ launches'[s] = Idle
  BY <1>3 DEF Others
<1>6. pumps' \in Nat
  BY DEF LaunchEnds
<1> QED BY <1>4, <1>5, <1>6

LEMMA LaunchStillComes ==
  ASSUME Typed, Launched, Forward, NEW s \in Slots, Others(s),
         rt'.requested = rt.requested, rt'.epoch = rt.epoch,
         \/ launches'[s].at # "idle" /\ launches'[s].epoch = launches[s].epoch
         \/ ~Current(launches[s].epoch)
  PROVE  LaunchComes => LaunchComes'
<1>1. \A t \in Slots \ {s} : /\ launches'[t].at = "idle" <=> launches[t].at = "idle"
                             /\ launches'[t].epoch = launches[t].epoch
  BY OthersOk
<1> QED BY <1>1 DEF LaunchComes, Current

\* A step of one launch that leaves the runtime's request and terminal alone.
Within(s) ==
    /\ rt'.term = rt.term /\ rt'.attachGen = rt.attachGen /\ rt'.epoch = rt.epoch
    /\ rt'.requested = rt.requested /\ Others(s) /\ UNCHANGED <<watchers, calls>>
    /\ job'.view = "headed" =>
          job.view = "headed" /\ job'.owner = job.owner
          /\ past'.dropped \in {past.dropped, rt.epoch}
LEMMA WithinForward ==
  ASSUME ViewInv, NEW s \in Slots, Within(s)
  PROVE  Forward /\ (Watched => Watched') /\ TerminalWatched' /\ (CallComes => CallComes')
<1>1. (Watched => Watched') /\ TerminalWatched'
  BY WatchedKeeps DEF Within, ViewInv
<1>2. (WatchCall => WatchCall') /\ (CallComes => CallComes')
  BY DEF WatchCall, CallComes, DetachStale, Within
<1> QED BY <1>1, <1>2 DEF Forward, Within, ViewInv, Typed, RowTyped, Runtime

LEMMA WithinHolds ==
  ASSUME ViewInv, NEW s \in Slots, Within(s), Typed', LaunchOk(s)',
         \/ launches'[s].at # "idle" /\ launches'[s].epoch = launches[s].epoch
         \/ ~Current(launches[s].epoch)
         \/ job'.view = "headed" => Watched \/ CallComes \/ Dropped',
         \/ /\ launches[s].at \in Waits <=> launches'[s].at \in Waits
            /\ rt'.attaching = rt.attaching
         \/ /\ launches[s].at \in Waits /\ launches'[s].at \notin Waits
            /\ ~rt.attaching /\ rt'.attaching
         \/ /\ launches[s].at \notin Waits /\ launches'[s].at \in Waits
            /\ ~rt'.attaching
  PROVE  ViewInv'
<1>1. Forward /\ (Watched => Watched') /\ TerminalWatched' /\ (CallComes => CallComes')
  BY WithinForward
<1>2. Typed /\ Launched /\ HeadedOk /\ launches' \in [Slots -> Launch] /\ Others(s)
  BY DEF ViewInv, Typed, LaunchTyped, Within
<1>3. Launched'
  BY <1>1, <1>2, LaunchMoves
<1>4. HeadedOk'
  <2>1. CASE \/ launches'[s].at # "idle" /\ launches'[s].epoch = launches[s].epoch
             \/ ~Current(launches[s].epoch)
    <3>1. LaunchComes => LaunchComes'
      BY <1>1, <1>2, <2>1, LaunchStillComes DEF Within
    <3> QED BY <1>1, <1>2, <3>1, HeadedKeeps DEF Within, Dropped
  <2>2. CASE job'.view = "headed" => Watched \/ CallComes \/ Dropped'
    BY <1>1, <1>2, <2>2 DEF Within, HeadedOk
  <2> QED BY <2>1, <2>2
<1> QED BY <1>1, <1>3, <1>4 DEF ViewInv

-----------------------------------------------------------------------------
(* The user's view calls.                                                  *)

LEMMA NewLaunchTyped ==
  ASSUME NEW e \in Nat, NEW more \in BOOLEAN
  PROVE  LET l == NewLaunch(e, more) IN
         l \in LaunchRec /\ l \in Launch /\ l.at = "start" /\ l.epoch = e
<1>1. Held \in BOOLEAN /\ "start" \in Launching /\ "supervisor" \in Owners /\ None \in Handles
  BY Bounds DEF Held, Launching, Owners
<1> QED BY <1>1 DEF NewLaunch, LaunchRec, Launch

LEMMA OpenHolds ==
  ASSUME ViewInv, NEW s \in Slots, Open(s) PROVE ViewInv'
<1> DEFINE n == NewLaunch(rt.epoch + 1, FALSE)
           v == IF job.view = "headless" THEN "attaching" ELSE job.view
           o == IF job.owner = "supervisor" THEN "handoff" ELSE job.owner
<1>1. /\ Typed /\ Launched /\ TerminalWatched /\ HeadedOk /\ launches[s] = Idle
      /\ job \in Job /\ rt \in Runtime /\ LaunchTyped
      /\ rt' = [rt EXCEPT !.requested = TRUE, !.epoch = rt.epoch + 1]
      /\ SaveView(v, "headed", o)
      /\ launches' = [launches EXCEPT ![s] = n]
      /\ used' = [used EXCEPT !.views = used.views + 1]
      /\ UNCHANGED <<queue, turn, pumps, past, term, worker, viewer, calls, finishes, watchers, lost>>
  BY DEF ViewInv, Typed, RowTyped, Open, scheduler, terminals
<1>2. v \in ViewModes /\ o \in Owners /\ (v = "headed" => job.view = "headed")
      /\ (o # "handoff" => o = job.owner) /\ (job.owner = "tui" => o = "tui")
  BY <1>1 DEF Job, ViewModes, Owners
<1> HIDE DEF v, o
<1>3. job' \in Job /\ job'.view = v /\ job'.owner = o
  BY <1>1, <1>2, SaveViewTyped
<1>4. rt.epoch \in Nat /\ rt.epoch + 1 \in Nat
  BY <1>1 DEF Runtime
<1>5. /\ rt' \in Runtime /\ rt'.requested /\ rt'.epoch = rt.epoch + 1 /\ rt'.term = rt.term
      /\ rt'.attachGen = rt.attachGen /\ rt'.attaching = rt.attaching
  BY <1>1, <1>4 DEF Runtime
<1>6. n \in Launch /\ n.at = "start" /\ n.epoch = rt.epoch + 1
  BY <1>4, NewLaunchTyped
<1> HIDE DEF n
<1>7. launches' \in [Slots -> Launch] /\ launches'[s] = n /\ Others(s)
  BY <1>1, <1>6, LaunchSet
<1>8. Typed'
  <2>1. PastTyped'
    BY <1>1 DEF Typed, PastTyped
  <2> QED BY <1>1, <1>3, <1>5, <1>7, <2>1
          DEF Typed, RowTyped, LaunchTyped, TurnTyped, CallTyped, TermTyped
<1>9. Forward
  BY <1>4, <1>5 DEF Forward
<1>10. LaunchOk(s)'
  BY <1>5, <1>6, <1>7, <1>4 DEF LaunchOk, HasWindow
<1>11. Launched'
  BY <1>1, <1>5, <1>6, <1>7, <1>9, <1>10, LaunchMoves DEF Waits, Idle
<1>12. TerminalWatched'
  BY <1>1, <1>5, WatchedKeeps
<1>13. LaunchComes'
  BY <1>5, <1>6, <1>7 DEF LaunchComes, Current
<1>14. HeadedOk'
  BY <1>1, <1>2, <1>3, <1>13 DEF HeadedOk, Busy
<1> QED BY <1>8, <1>11, <1>12, <1>14 DEF ViewInv

\* A call that withdraws the request: no launch is the current one any more.
Withdrawn ==
    /\ rt'.epoch = rt.epoch + 1 /\ ~rt'.requested /\ rt'.attaching = rt.attaching
    /\ UNCHANGED launches
LEMMA WithdrawnLaunched ==
  ASSUME Typed, Launched, Withdrawn PROVE Launched'
<1>1. Forward
  BY DEF Forward, Withdrawn, Typed, RowTyped, Runtime
<1> QED BY <1>1, LaunchedKeeps DEF Withdrawn

LEMMA HideHolds ==
  ASSUME ViewInv, Hide PROVE ViewInv'
<1> DEFINE c == [by |-> "hide", key |-> rt.epoch + 1]
<1>1. /\ Typed /\ Launched /\ TerminalWatched /\ HeadedOk /\ job \in Job /\ rt \in Runtime
      /\ rt' = [rt EXCEPT !.requested = FALSE, !.epoch = rt.epoch + 1]
      /\ job' = [job EXCEPT !.desired = "headless"]
      /\ calls' = calls \cup {c}
      /\ used' = [used EXCEPT !.views = used.views + 1]
      /\ UNCHANGED <<queue, turn, pumps, past, term, worker, viewer, launches, finishes, watchers, lost>>
  BY DEF ViewInv, Typed, RowTyped, Hide, scheduler, terminals
<1>2. rt.epoch \in Nat /\ rt.epoch + 1 \in Nat
  BY <1>1 DEF Runtime
<1>3. /\ rt' \in Runtime /\ ~rt'.requested /\ rt'.epoch = rt.epoch + 1 /\ rt'.term = rt.term
      /\ rt'.attachGen = rt.attachGen /\ rt'.attaching = rt.attaching
  BY <1>1, <1>2 DEF Runtime
<1>4. job' \in Job /\ job'.view = job.view /\ job'.owner = job.owner
  BY <1>1 DEF Job
<1>5. c \in Call /\ c.by = "hide" /\ c.key = rt'.epoch
  BY <1>2, <1>3 DEF Call
<1> HIDE DEF c
<1>6. Typed'
  <2>1. PastTyped'
    BY <1>1 DEF Typed, PastTyped
  <2> QED BY <1>1, <1>3, <1>4, <1>5, <2>1
          DEF Typed, RowTyped, LaunchTyped, TurnTyped, CallTyped, TermTyped
<1>7. Launched'
  BY <1>1, <1>3, WithdrawnLaunched DEF Withdrawn
<1>8. TerminalWatched'
  BY <1>1, <1>3, WatchedKeeps
<1>9. CallComes'
  BY <1>1, <1>5 DEF CallComes, DetachStale
<1>10. HeadedOk'
  BY <1>1, <1>4, <1>9 DEF HeadedOk, Busy
<1> QED BY <1>6, <1>7, <1>8, <1>10 DEF ViewInv

LEMMA DetachViewHolds ==
  ASSUME ViewInv, DetachView PROVE ViewInv'
<1>1. /\ Typed /\ calls' = calls \cup {[by |-> "detach", key |-> used.views]}
      /\ used' = [used EXCEPT !.views = used.views + 1]
      /\ UNCHANGED <<queue, turn, pumps, past, term, worker, viewer, job, rt, launches, finishes,
                     watchers, lost>>
  BY DEF ViewInv, DetachView, scheduler, terminals
<1>2. used.views \in Nat
  BY <1>1 DEF Typed, PastTyped
<1>3. [by |-> "detach", key |-> used.views] \in Call
  BY <1>2 DEF Call
<1>4. PastTyped'
  BY <1>1 DEF Typed, PastTyped
<1>5. Typed'
  BY <1>1, <1>3, <1>4 DEF Typed, RowTyped, LaunchTyped, TurnTyped, CallTyped, TermTyped
<1>6. Apart
  BY <1>1 DEF Apart, Busy
<1> QED BY <1>1, <1>5, <1>6, ApartHolds

-----------------------------------------------------------------------------
(* launchTUI.                                                              *)

\* What a section of a launch usually leaves alone.
Rest == UNCHANGED <<queue, turn, finishes, lost, used>>
LEMMA RestTyped ==
  ASSUME Typed, Rest, job' \in Job, rt' \in Runtime, launches' \in [Slots -> Launch],
         pumps' \in Nat, calls' \subseteq Call, watchers' \subseteq Watcher, TermTyped',
         past' = past \/ past' \in Past
  PROVE  Typed'
BY DEF Typed, Rest, RowTyped, LaunchTyped, TurnTyped, CallTyped, PastTyped

LEMMA TypedParts ==
  ASSUME Typed
  PROVE  /\ job \in Job /\ rt \in Runtime /\ launches \in [Slots -> Launch] /\ LaunchTyped
         /\ pumps \in Nat /\ calls \subseteq Call /\ watchers \subseteq Watcher /\ TermTyped
         /\ past \in Past
BY DEF Typed, RowTyped, LaunchTyped, TurnTyped, CallTyped, PastTyped

\* The runtime is no longer attaching: the deferred end.
LEMMA DoneTyped ==
  ASSUME rt \in Runtime, rt' = [rt EXCEPT !.attaching = FALSE]
  PROVE  /\ rt' \in Runtime /\ ~rt'.attaching /\ rt'.term = rt.term /\ rt'.epoch = rt.epoch
         /\ rt'.attachGen = rt.attachGen /\ rt'.requested = rt.requested
BY DEF Runtime

\* A launch that ends and leaves the row alone.
LEMMA LaunchGivesUp ==
  ASSUME ViewInv, NEW s \in Slots, launches[s].at \notin Waits, Ends(s), Rest, UNCHANGED <<job, watchers, calls>>,
         past' = past \/ (past' \in Past /\ past'.dropped \in {past.dropped, rt.epoch}), TermTyped',
         \/ ~Current(launches[s].epoch)
         \/ job.view = "headed" => Watched \/ CallComes \/ Dropped'
  PROVE  ViewInv'
<1>1. Typed /\ rt \in Runtime /\ LaunchTyped /\ pumps \in Nat
  BY TypedParts DEF ViewInv
<1>2. /\ launches' \in [Slots -> Launch] /\ Others(s) /\ launches'[s] = Idle /\ pumps' \in Nat
  BY <1>1, LaunchesEnd DEF Ends
<1>3. /\ rt' \in Runtime /\ ~rt'.attaching /\ rt'.term = rt.term /\ rt'.epoch = rt.epoch
      /\ rt'.attachGen = rt.attachGen /\ rt'.requested = rt.requested
  BY <1>1, DoneTyped DEF Ends
<1>4. Typed'
  BY <1>1, <1>2, <1>3, RestTyped, TypedParts
<1>5. Within(s)
  BY <1>2, <1>3 DEF Within, Busy, Rest
<1>6. launches'[s].at = "idle"
  BY <1>2 DEF Idle
<1>7. LaunchOk(s)'
  BY <1>6 DEF LaunchOk
<1> QED BY <1>3, <1>4, <1>5, <1>6, <1>7, WithinHolds DEF Waits

LEMMA LaunchBeginsHolds ==
  ASSUME ViewInv, NEW s \in Slots, LaunchBegins(s) PROVE ViewInv'
<1>1. /\ Typed /\ launches[s].at = "start" /\ Rest /\ LaunchTyped /\ rt \in Runtime
      /\ job \in Job /\ pumps \in Nat
      /\ UNCHANGED <<job, past, term, worker, viewer, watchers, calls>>
  BY TypedParts DEF ViewInv, LaunchBegins, NoNews, terminals, Rest
<1>2. TermTyped'
  BY <1>1, TypedParts DEF TermTyped
<1>3. LaunchOk(s) /\ launches[s].epoch <= rt.epoch
  BY <1>1 DEF ViewInv, Launched, LaunchOk
<1>4. CASE /\ ~Current(launches[s].epoch)
           /\ launches' = [launches EXCEPT ![s] = Idle]
           /\ pumps' = IF launches[s].more THEN pumps + 1 ELSE pumps
           /\ UNCHANGED rt
  <2>1. pumps' \in Nat /\ Idle \in Launch
    BY <1>1, <1>4 DEF Launch
  <2>2. launches' \in [Slots -> Launch] /\ launches'[s] = Idle /\ Others(s)
    BY <1>1, <1>4, <2>1, LaunchSet
  <2>3. Typed'
    BY <1>1, <1>2, <1>4, <2>1, <2>2, RestTyped, TypedParts
  <2>4. Within(s) /\ rt'.attaching = rt.attaching
    BY <1>1, <1>4, <2>2 DEF Within, Busy, Rest
  <2>5. launches'[s].at = "idle"
    BY <2>2 DEF Idle
  <2>6. LaunchOk(s)'
    BY <2>5 DEF LaunchOk
  <2> QED BY <1>1, <1>4, <2>3, <2>4, <2>5, <2>6, WithinHolds DEF Waits
<1>5. CASE To(s, "waiting") /\ UNCHANGED <<rt, pumps>>
  <2>1. "waiting" \in Launching
    BY DEF Launching
  <2>2. /\ launches' \in [Slots -> Launch] /\ Others(s)
        /\ launches'[s].at = "waiting" /\ launches'[s].epoch = launches[s].epoch
    BY <1>1, <1>5, <2>1, LaunchTo
  <2>3. Typed'
    BY <1>1, <1>2, <1>5, <2>2, RestTyped, TypedParts
  <2>4. Within(s) /\ rt'.attaching = rt.attaching
    BY <1>1, <1>5, <2>2 DEF Within, Busy, Rest
  <2>5. LaunchOk(s)'
    BY <1>3, <1>5, <2>2 DEF LaunchOk, HasWindow
  <2> QED BY <1>1, <1>5, <2>2, <2>3, <2>4, <2>5, WithinHolds DEF Waits
<1>6. CASE /\ Current(launches[s].epoch) /\ ~AttachTaken
           /\ rt' = [rt EXCEPT !.attaching = TRUE,
                               !.term = IF HandleAlive(rt.term) THEN rt.term ELSE None]
           /\ IF HandleAlive(rt.term) THEN ToWith(s, "existing", rt.term)
                                      ELSE To(s, "choose")
           /\ UNCHANGED pumps
  <2>1. "existing" \in Launching /\ "choose" \in Launching /\ rt.term \in Handles /\ None \in Handles
    BY <1>1, Bounds DEF Launching, Runtime
  <2>2. ~rt.attaching
    BY <1>6 DEF AttachTaken
  <2>3. CASE HandleAlive(rt.term)
    <3>1. /\ launches' \in [Slots -> Launch] /\ Others(s)
          /\ launches'[s].at = "existing" /\ launches'[s].epoch = launches[s].epoch
          /\ launches'[s].h = rt.term
      BY <1>1, <1>6, <2>1, <2>3, LaunchToWith
    <3>2. /\ rt' \in Runtime /\ rt'.attaching /\ rt'.term = rt.term /\ rt'.epoch = rt.epoch
          /\ rt'.attachGen = rt.attachGen /\ rt'.requested = rt.requested
      BY <1>1, <1>6, <2>3 DEF Runtime
    <3>3. Typed'
      BY <1>1, <1>2, <1>6, <3>1, <3>2, RestTyped, TypedParts
    <3>4. Within(s)
      BY <1>1, <3>1, <3>2 DEF Within, Busy, Rest
    <3>5. rt.term # None
      BY <2>3 DEF HandleAlive
    <3>6. Watched'
      BY <3>4, <3>5, WithinForward DEF ViewInv, TerminalWatched
    <3>7. LaunchOk(s)'
      BY <1>3, <3>1, <3>2, <3>5, <3>6 DEF LaunchOk, HasWindow
    <3> QED BY <1>1, <2>2, <3>1, <3>2, <3>3, <3>4, <3>7, WithinHolds DEF Waits
  <2>4. CASE ~HandleAlive(rt.term)
    <3>1. /\ launches' \in [Slots -> Launch] /\ Others(s)
          /\ launches'[s].at = "choose" /\ launches'[s].epoch = launches[s].epoch
      BY <1>1, <1>6, <2>1, <2>4, LaunchTo
    <3>2. /\ rt' \in Runtime /\ rt'.attaching /\ rt'.term = None /\ rt'.epoch = rt.epoch
          /\ rt'.attachGen = rt.attachGen /\ rt'.requested = rt.requested
      BY <1>1, <1>6, <2>1, <2>4 DEF Runtime
    <3>3. Typed'
      BY <1>1, <1>2, <1>6, <3>1, <3>2, RestTyped, TypedParts
    <3>4. TerminalWatched'
      BY <3>2 DEF TerminalWatched
    <3>5. LaunchOk(s)'
      BY <1>3, <3>1, <3>2 DEF LaunchOk, HasWindow
    <3>6. \A t \in Slots \ {s} : launches[t].at # "existing" /\ launches'[t] = launches[t]
      <4>1. Attaching = {}
        BY <2>2 DEF ViewInv, Launched, OneAttach
      <4> QED BY <1>1, <1>6, <2>4, <4>1 DEF Attaching, To, LaunchTyped
    <3>7. \A t \in Slots \ {s} : LaunchOk(t)'
      BY <3>2, <3>6 DEF ViewInv, Launched, LaunchOk, Current
    <3>8. Attaching = {} /\ Attaching' = {s}
      BY <1>1, <2>2, <3>1, <3>6 DEF ViewInv, Launched, OneAttach, Attaching
    <3>9. Launched'
      BY <3>2, <3>5, <3>7, <3>8 DEF Launched, OneAttach
    <3>10. LaunchComes'
      BY <1>6, <3>1, <3>2 DEF LaunchComes, Current
    <3>11. HeadedOk'
      BY <1>1, <3>10 DEF ViewInv, HeadedOk, Busy, Rest
    <3> QED BY <3>3, <3>4, <3>9, <3>11 DEF ViewInv
  <2> QED BY <2>3, <2>4
<1> QED BY <1>4, <1>5, <1>6 DEF LaunchBegins

\* A launch that goes on to its next section.
LEMMA LaunchGoesOn ==
  ASSUME ViewInv, NEW s \in Slots, Within(s), Typed', launches[s].at \notin Waits,
         launches'[s].at \notin Waits \cup {"existing"}, launches'[s].epoch = launches[s].epoch,
         launches'[s].at \in HasWindow => launches'[s].h # None,
         launches'[s].at = "reconcile" => ~Current(launches[s].epoch),
         rt'.attaching = rt.attaching
  PROVE  ViewInv'
<1>1. launches[s].epoch <= rt.epoch
  BY DEF ViewInv, Launched, LaunchOk, Waits
<1>2. LaunchOk(s)'
  BY <1>1 DEF LaunchOk, Within, Current
<1>3. launches'[s].at # "idle"
  BY DEF Waits
<1> QED BY <1>2, <1>3, WithinHolds

LEMMA LaunchRetriesHolds ==
  ASSUME ViewInv, NEW s \in Slots, LaunchRetries(s) PROVE ViewInv'
<1> DEFINE k == [launches[s] EXCEPT !.at = "start"]
           l == [k EXCEPT !.hold = Held]
<1>1. /\ Typed /\ launches[s].at = "woken" /\ Rest /\ LaunchTyped /\ TermTyped'
      /\ UNCHANGED <<job, rt, pumps, past, watchers, calls>>
  BY TypedParts DEF ViewInv, LaunchRetries, NoNews, terminals, scheduler, Rest, TermTyped
<1>2. "start" \in Launching /\ Held \in BOOLEAN
  BY DEF Launching, Held
<1>3. launches[s] \in LaunchRec
  BY <1>1 DEF LaunchTyped, Launch, LaunchRec, Idle
<1>4. launches' = [launches EXCEPT ![s] = l]
  BY <1>1 DEF LaunchRetries, LaunchTyped
<1>5. k \in LaunchRec /\ k.at = "start" /\ k.epoch = launches[s].epoch
  BY <1>2, <1>3 DEF LaunchRec
<1> HIDE DEF k
<1>6. l \in LaunchRec /\ l.at = "start" /\ l.epoch = launches[s].epoch
  BY <1>2, <1>5 DEF LaunchRec
<1> HIDE DEF l
<1>7. l \in Launch
  BY <1>6 DEF Launch, LaunchRec
<1>8. launches' \in [Slots -> Launch] /\ launches'[s] = l /\ Others(s)
  BY <1>1, <1>4, <1>7, LaunchSet
<1>9. Typed'
  BY <1>1, <1>8, RestTyped, TypedParts
<1>10. Within(s)
  BY <1>1, <1>8 DEF Within, Busy, Rest
<1>11. LaunchOk(s)'
  BY <1>1, <1>6, <1>8 DEF ViewInv, Launched, LaunchOk, HasWindow
<1> QED BY <1>1, <1>6, <1>8, <1>9, <1>10, <1>11, WithinHolds DEF Waits

\* A launch that marks the view headed ends with its terminal watched.
LEMMA HeadedHolds ==
  ASSUME job \in Job, Headed
  PROVE  /\ job' \in Job /\ job'.view = "headed" /\ job'.owner = "tui"
<1>1. "headed" \in ViewModes /\ "tui" \in Owners
  BY DEF ViewModes, Owners
<1> QED BY <1>1, SaveViewTyped DEF Headed

LEMMA LaunchFocusesHolds ==
  ASSUME ViewInv, NEW s \in Slots, LaunchFocuses(s) PROVE ViewInv'
<1>1. /\ Typed /\ launches[s].at = "existing" /\ Rest /\ LaunchTyped /\ rt \in Runtime
      /\ job \in Job /\ pumps \in Nat /\ TermTyped' /\ LaunchEnds(s)
      /\ past \in Past /\ UNCHANGED <<past, watchers, calls>>
  BY TypedParts DEF ViewInv, LaunchFocuses, NoNews, terminals, Rest, TermTyped
<1>2. Current(launches[s].epoch) => Watched \/ WatchCall
  BY <1>1 DEF ViewInv, Launched, LaunchOk
<1>3. WatchCall => CallComes
  BY DEF WatchCall, CallComes, DetachStale
<1>4. CASE /\ rt' = [rt EXCEPT !.attaching = FALSE, !.workerGen = term.worker]
           /\ Headed /\ Current(launches[s].epoch)
  <2>1. term.worker \in 0..Workers
    BY <1>1, TypedParts DEF TermTyped, Term
  <2>2. /\ rt' \in Runtime /\ ~rt'.attaching /\ rt'.term = rt.term /\ rt'.epoch = rt.epoch
        /\ rt'.attachGen = rt.attachGen /\ rt'.requested = rt.requested
    BY <1>1, <1>4, <2>1 DEF Runtime
  <2>3. /\ job' \in Job /\ job'.view = "headed" /\ job'.owner = "tui"
    BY <1>1, <1>4, HeadedHolds
  <2>4. /\ launches' \in [Slots -> Launch] /\ Others(s) /\ launches'[s] = Idle /\ pumps' \in Nat
    BY <1>1, LaunchesEnd
  <2>5. Typed'
    BY <1>1, <2>2, <2>3, <2>4, RestTyped, TypedParts
  <2>6. (Watched => Watched') /\ TerminalWatched' /\ (CallComes => CallComes')
        /\ (WatchCall => WatchCall')
    BY <1>1, <2>2, WatchedKeeps DEF ViewInv, CallComes, DetachStale, WatchCall
  <2>7. Forward
    BY <1>1, <2>2, <2>6 DEF Forward, Runtime
  <2>8. launches'[s].at = "idle"
    BY <2>4 DEF Idle
  <2>9. LaunchOk(s)'
    BY <2>8 DEF LaunchOk
  <2>10. Launched'
    BY <1>1, <2>2, <2>4, <2>7, <2>8, <2>9, LaunchMoves DEF Waits, ViewInv
  <2>11. HeadedOk'
    BY <1>2, <1>3, <1>4, <2>3, <2>6 DEF HeadedOk
  <2> QED BY <2>5, <2>6, <2>10, <2>11 DEF ViewInv
<1>5. CASE rt' = [rt EXCEPT !.attaching = FALSE] /\ UNCHANGED job
  <2>1. Ends(s)
    BY <1>1, <1>5 DEF Ends
  <2> QED BY <1>1, <1>2, <1>3, <1>5, <2>1, LaunchGivesUp DEF Waits
<1> QED BY <1>4, <1>5 DEF LaunchFocuses

\* A launch deferred for a turn while the view is headed has been dropped.
LEMMA LaunchChoosesHolds ==
  ASSUME ViewInv, NEW s \in Slots, LaunchChooses(s) PROVE ViewInv'
<1>1. /\ Typed /\ launches[s].at = "choose" /\ Rest /\ LaunchTyped /\ rt \in Runtime
      /\ job \in Job /\ pumps \in Nat /\ TermTyped' /\ past \in Past
      /\ UNCHANGED <<job, watchers, calls>>
  BY TypedParts DEF ViewInv, LaunchChooses, NoNews, terminals, Rest, TermTyped
<1>2. launches[s].at \notin Waits
  BY <1>1 DEF Waits
<1>3. CASE /\ HandleAlive(term.handle) /\ ToWith(s, "adopt", term.handle)
           /\ UNCHANGED <<rt, pumps, past>>
  <2>1. "adopt" \in Launching /\ term.handle \in Handles
    BY <1>1, TypedParts DEF Launching, TermTyped, Term
  <2>2. /\ launches' \in [Slots -> Launch] /\ Others(s)
        /\ launches'[s].at = "adopt" /\ launches'[s].epoch = launches[s].epoch
        /\ launches'[s].h = term.handle
    BY <1>1, <1>3, <2>1, LaunchToWith
  <2>3. Typed'
    BY <1>1, <1>3, <2>2, RestTyped, TypedParts
  <2>4. Within(s) /\ rt'.attaching = rt.attaching
    BY <1>1, <1>3, <2>2 DEF Within, Busy, Rest
  <2>5. term.handle # None
    BY <1>3 DEF HandleAlive
  <2> QED BY <1>2, <2>2, <2>3, <2>4, <2>5, LaunchGoesOn DEF Waits
<1>4. CASE /\ Ends(s)
           /\ past' = IF Current(launches[s].epoch) /\ job.view # "attaching"
                      THEN [past EXCEPT !.dropped = launches[s].epoch] ELSE past
  <2>1. /\ rt.epoch \in Nat /\ rt'.epoch = rt.epoch /\ rt'.requested = rt.requested
        /\ launches[s].epoch \in Nat
    BY <1>1, <1>4, DoneTyped DEF Ends, Runtime, LaunchTyped, Launch, Idle
  <2>2. /\ past' \in Past /\ past'.dropped \in {past.dropped, rt.epoch}
        /\ Current(launches[s].epoch) /\ job.view = "headed" => Dropped'
    BY <1>1, <1>4, <2>1 DEF Past, Dropped, Current
  <2> QED BY <1>1, <1>2, <1>4, <2>2, LaunchGivesUp
<1>5. CASE To(s, IF launches[s].hold THEN "yield" ELSE "save") /\ UNCHANGED <<rt, pumps, past>>
  <2> DEFINE at == IF launches[s].hold THEN "yield" ELSE "save"
  <2>1. at \in Launching /\ at \notin Waits \cup {"existing"} \cup HasWindow /\ at # "reconcile"
    BY DEF Launching, Waits, HasWindow
  <2>2. To(s, at)
    BY <1>5
  <2> HIDE DEF at
  <2>3. /\ launches' \in [Slots -> Launch] /\ Others(s)
        /\ launches'[s].at = at /\ launches'[s].epoch = launches[s].epoch
    BY <1>1, <2>1, <2>2, LaunchTo
  <2>4. Typed'
    BY <1>1, <1>5, <2>3, RestTyped, TypedParts
  <2>5. Within(s) /\ rt'.attaching = rt.attaching
    BY <1>1, <1>5, <2>3 DEF Within, Busy, Rest
  <2> QED BY <1>2, <2>1, <2>3, <2>4, <2>5, LaunchGoesOn
<1> QED BY <1>3, <1>4, <1>5 DEF LaunchChooses

LEMMA LaunchYieldsHolds ==
  ASSUME ViewInv, NEW s \in Slots, LaunchYields(s) PROVE ViewInv'
<1>1. /\ Typed /\ launches[s].at = "yield" /\ LaunchTyped /\ rt \in Runtime /\ TermTyped'
      /\ UNCHANGED <<job, queue, pumps, past, watchers, calls, finishes, lost, used>>
  BY TypedParts DEF ViewInv, LaunchYields, NoNews, terminals, TermTyped
<1>2. launches[s].at \notin Waits
  BY <1>1 DEF Waits
<1>3. CASE /\ Busy /\ rt' = [rt EXCEPT !.gen = YieldedGen]
           /\ turn' = [turn EXCEPT !.cancelled = TRUE] /\ To(s, "yielding")
  <2>1. "yielding" \in Launching
    BY DEF Launching
  <2>2. /\ launches' \in [Slots -> Launch] /\ Others(s)
        /\ launches'[s].at = "yielding" /\ launches'[s].epoch = launches[s].epoch
    BY <1>1, <1>3, <2>1, LaunchTo
  <2>3. rt.gen \in Nat /\ YieldedGen \in Nat
    BY <1>1 DEF Runtime, YieldedGen
  <2>4. /\ rt' \in Runtime /\ rt'.attaching = rt.attaching /\ rt'.term = rt.term
        /\ rt'.epoch = rt.epoch /\ rt'.attachGen = rt.attachGen /\ rt'.requested = rt.requested
    BY <1>1, <1>3, <2>3 DEF Runtime
  <2>5. turn \in Turn
    BY <1>1, <1>3 DEF Typed, TurnTyped, Busy, Idle
  <2>6. turn' \in Turn
    BY <1>3, <2>5 DEF Turn
  <2>7. Typed'
    BY <1>1, <2>2, <2>4, <2>6 DEF Typed, RowTyped, LaunchTyped, TurnTyped, CallTyped, PastTyped
  <2>8. Within(s)
    BY <1>1, <1>3, <2>2, <2>4 DEF Within
  <2> QED BY <1>2, <2>2, <2>4, <2>7, <2>8, LaunchGoesOn DEF Waits, HasWindow
<1>4. CASE To(s, "save") /\ UNCHANGED <<rt, turn>>
  <2>1. "save" \in Launching
    BY DEF Launching
  <2>2. /\ launches' \in [Slots -> Launch] /\ Others(s)
        /\ launches'[s].at = "save" /\ launches'[s].epoch = launches[s].epoch
    BY <1>1, <1>4, <2>1, LaunchTo
  <2>3. Rest
    BY <1>1, <1>4 DEF Rest
  <2>4. Typed'
    BY <1>1, <1>4, <2>2, <2>3, RestTyped, TypedParts
  <2>5. Within(s) /\ rt'.attaching = rt.attaching
    BY <1>1, <1>4, <2>2 DEF Within, Busy
  <2> QED BY <1>2, <2>2, <2>4, <2>5, LaunchGoesOn DEF Waits, HasWindow
<1> QED BY <1>3, <1>4 DEF LaunchYields

LEMMA GaveUpTyped ==
  ASSUME past \in Past, NEW b \in BOOLEAN, past' = [past EXCEPT !.gaveUp = b]
  PROVE  past' \in Past /\ past'.dropped = past.dropped /\ past'.sent = past.sent
BY DEF Past

LEMMA YieldEndsHolds ==
  ASSUME ViewInv, NEW s \in Slots, YieldEnds(s) PROVE ViewInv'
<1>1. /\ Typed /\ launches[s].at = "yielding" /\ LaunchTyped /\ Rest /\ TermTyped' /\ job \in Job
      /\ past \in Past /\ UNCHANGED <<rt, pumps, watchers, calls>>
  BY TypedParts DEF ViewInv, YieldEnds, NoNews, terminals, TermTyped, Rest
<1> DEFINE b == past.gaveUp \/ Held
<1>9. past' = [past EXCEPT !.gaveUp = b] \/ past' = past
  BY DEF YieldEnds
<1>10. b \in BOOLEAN
  OBVIOUS
<1> HIDE DEF b
<1>11. past' \in Past /\ past'.dropped = past.dropped
  BY <1>1, <1>9, <1>10, GaveUpTyped
<1>2. job' \in Job /\ job'.view = job.view /\ job'.owner = job.owner
  BY <1>1 DEF YieldEnds, Job, Pauses
<1>3. PICK at \in {"save", "fail"} : To(s, at)
  BY DEF YieldEnds
<1>4. at \in Launching /\ at \notin Waits \cup {"existing"} \cup HasWindow /\ at # "reconcile"
  BY DEF Launching, Waits, HasWindow
<1>5. /\ launches' \in [Slots -> Launch] /\ Others(s)
      /\ launches'[s].at = at /\ launches'[s].epoch = launches[s].epoch
  BY <1>1, <1>3, <1>4, LaunchTo
<1>6. Typed'
  BY <1>1, <1>2, <1>5, <1>11, RestTyped, TypedParts
<1>7. Within(s) /\ rt'.attaching = rt.attaching
  BY <1>1, <1>2, <1>5, <1>11 DEF Within, Busy, Rest
<1>8. launches[s].at \notin Waits
  BY <1>1 DEF Waits
<1> QED BY <1>4, <1>5, <1>6, <1>7, <1>8, LaunchGoesOn

LEMMA LaunchSavesHolds ==
  ASSUME ViewInv, NEW s \in Slots, LaunchSaves(s) PROVE ViewInv'
<1>1. /\ Typed /\ launches[s].at = "save" /\ LaunchTyped /\ Rest /\ TermTyped' /\ job \in Job
      /\ UNCHANGED <<past, watchers, calls>> /\ launches[s].at \notin Waits
  BY TypedParts DEF ViewInv, LaunchSaves, NoNews, terminals, TermTyped, Rest, Waits
<1>2. CASE SaveView("attaching", "headed", "handoff") /\ To(s, "opening") /\ UNCHANGED <<rt, pumps>>
  <2>1. "opening" \in Launching /\ "attaching" \in ViewModes /\ "handoff" \in Owners
    BY DEF Launching, ViewModes, Owners
  <2>2. job' \in Job /\ job'.view = "attaching"
    BY <1>1, <1>2, <2>1, SaveViewTyped
  <2>3. /\ launches' \in [Slots -> Launch] /\ Others(s)
        /\ launches'[s].at = "opening" /\ launches'[s].epoch = launches[s].epoch
    BY <1>1, <1>2, <2>1, LaunchTo
  <2>4. Typed'
    BY <1>1, <1>2, <2>2, <2>3, RestTyped, TypedParts
  <2>5. Within(s) /\ rt'.attaching = rt.attaching
    BY <1>1, <1>2, <2>2, <2>3 DEF Within
  <2> QED BY <1>1, <2>3, <2>4, <2>5, LaunchGoesOn DEF Waits, HasWindow
<1>3. CASE ~Current(launches[s].epoch) /\ Ends(s) /\ UNCHANGED job
  BY <1>1, <1>3, LaunchGivesUp
<1> QED BY <1>2, <1>3 DEF LaunchSaves

LEMMA LaunchOpensHolds ==
  ASSUME ViewInv, NEW s \in Slots, LaunchOpens(s) PROVE ViewInv'
<1>1. /\ Typed /\ launches[s].at = "opening" /\ LaunchTyped /\ Rest /\ TermTyped /\ rt \in Runtime
      /\ UNCHANGED <<job, pumps, past, watchers, calls>> /\ launches[s].at \notin Waits
  BY TypedParts DEF ViewInv, LaunchOpens, NoNews, scheduler, Rest, Waits
<1>2. "ready" \in Launching /\ "fail" \in Launching
  BY DEF Launching
<1>3. ASSUME NEW h \in 1..Viewers, NEW g \in 0..Workers, ToWith(s, "ready", h),
             rt' = [rt EXCEPT !.workerGen = g], TermTyped'
      PROVE  ViewInv'
  <2>1. h \in Handles /\ h # None
    BY Bounds
  <2>2. /\ launches' \in [Slots -> Launch] /\ Others(s)
        /\ launches'[s].at = "ready" /\ launches'[s].epoch = launches[s].epoch
        /\ launches'[s].h = h
    BY <1>1, <1>2, <1>3, <2>1, LaunchToWith
  <2>3. /\ rt' \in Runtime /\ rt'.attaching = rt.attaching /\ rt'.term = rt.term
        /\ rt'.epoch = rt.epoch /\ rt'.attachGen = rt.attachGen /\ rt'.requested = rt.requested
    BY <1>1, <1>3 DEF Runtime
  <2>4. Typed'
    BY <1>1, <1>3, <2>2, <2>3, RestTyped, TypedParts
  <2>5. Within(s)
    BY <1>1, <2>2, <2>3 DEF Within, Busy, Rest
  <2> QED BY <1>1, <2>1, <2>2, <2>3, <2>4, <2>5, LaunchGoesOn DEF Waits
<1>4. CASE /\ WindowOpen /\ ToWith(s, "ready", term.handle)
           /\ rt' = [rt EXCEPT !.workerGen = term.worker] /\ UNCHANGED terminals
  <2>1. term.handle \in Handles /\ term.handle # None /\ term.worker \in 0..Workers
    BY <1>1, <1>4 DEF TermTyped, Term, WindowOpen
  <2>2. TermTyped'
    BY <1>1, <1>4 DEF TermTyped, terminals
  <2>3. term.handle \in 1..Viewers
    BY <2>1, Bounds
  <2> QED BY <1>3, <1>4, <2>1, <2>2, <2>3
<1>5. ASSUME NEW h \in Fresh(Window), NEW g \in IF WorkerAlive THEN {term.worker} ELSE Fresh(worker),
             worker' = [worker EXCEPT ![g] = "alive"],
             viewer' = [viewer EXCEPT ![h] = [at |-> "opening", worker |-> g]],
             term' = [worker |-> g, handle |-> h],
             rt' = [rt EXCEPT !.workerGen = g], ToWith(s, "ready", h)
      PROVE  ViewInv'
  <2>1. h \in 1..Viewers
    BY <1>1 DEF Fresh, Window, TermTyped
  <2>2. g \in 0..Workers
    BY <1>1, <1>5, Bounds DEF Fresh, TermTyped, Term
  <2>3. [at |-> "opening", worker |-> g] \in Viewer /\ term' \in Term
    BY <1>5, <2>1, <2>2, Bounds DEF Viewer, Term
  <2>4. TermTyped'
    BY <1>1, <1>5, <2>1, <2>3 DEF TermTyped
  <2> QED BY <1>3, <1>5, <2>1, <2>2, <2>4
<1>6. CASE To(s, "fail") /\ UNCHANGED <<rt, terminals>>
  <2>1. /\ launches' \in [Slots -> Launch] /\ Others(s)
        /\ launches'[s].at = "fail" /\ launches'[s].epoch = launches[s].epoch
    BY <1>1, <1>2, <1>6, LaunchTo
  <2>2. TermTyped'
    BY <1>1, <1>6 DEF TermTyped, terminals
  <2>3. Typed'
    BY <1>1, <1>6, <2>1, <2>2, RestTyped, TypedParts
  <2>4. Within(s) /\ rt'.attaching = rt.attaching
    BY <1>1, <1>6, <2>1 DEF Within, Busy, Rest
  <2> QED BY <1>1, <2>1, <2>3, <2>4, LaunchGoesOn DEF Waits, HasWindow
<1> QED BY <1>4, <1>5, <1>6 DEF LaunchOpens

LEMMA LaunchReadyHolds ==
  ASSUME ViewInv, NEW s \in Slots, LaunchReady(s) PROVE ViewInv'
<1>1. /\ Typed /\ launches[s].at \in {"adopt", "ready"} /\ LaunchTyped /\ Rest /\ TermTyped
      /\ UNCHANGED <<job, past, watchers, calls, term, worker>> /\ launches[s].at \notin Waits
  BY TypedParts DEF ViewInv, LaunchReady, NoNews, Rest, Waits
<1>2. launches[s].h # None
  BY <1>1 DEF ViewInv, Launched, LaunchOk, HasWindow
<1>3. viewer' = Closed(launches[s].h) \/ viewer' = viewer => TermTyped'
  BY <1>1, ClosedTyped DEF TermTyped
<1>4. ASSUME NEW at \in {"fail", "commit", "reconcile"}, To(s, at), UNCHANGED <<rt, pumps>>,
             TermTyped', at = "reconcile" => ~Current(launches[s].epoch)
      PROVE  ViewInv'
  <2>1. at \in Launching /\ at \notin Waits \cup {"existing"}
    BY DEF Launching, Waits
  <2>2. /\ launches' \in [Slots -> Launch] /\ Others(s) /\ launches'[s].at = at
        /\ launches'[s].epoch = launches[s].epoch /\ launches'[s].h = launches[s].h
    BY <1>1, <1>4, <2>1, LaunchTo
  <2>3. Typed'
    BY <1>1, <1>4, <2>2, RestTyped, TypedParts
  <2>4. Within(s) /\ rt'.attaching = rt.attaching
    BY <1>1, <1>4, <2>2 DEF Within, Busy, Rest
  <2> QED BY <1>1, <1>2, <1>4, <2>1, <2>2, <2>3, <2>4, LaunchGoesOn
<1>5. CASE viewer' = Closed(launches[s].h) /\ To(s, "fail") /\ UNCHANGED <<rt, pumps>>
  BY <1>3, <1>4, <1>5
<1>6. CASE To(s, "commit") /\ UNCHANGED <<viewer, rt, pumps>>
  BY <1>3, <1>4, <1>6
<1>7. CASE /\ ~rt.requested
           /\ viewer' = Closed(launches[s].h) /\ To(s, "reconcile") /\ UNCHANGED <<rt, pumps>>
  BY <1>3, <1>4, <1>7 DEF Current
<1>8. CASE rt.epoch # launches[s].epoch /\ Ends(s) /\ UNCHANGED viewer
  BY <1>1, <1>3, <1>8, LaunchGivesUp DEF Current
<1> QED BY <1>5, <1>6, <1>7, <1>8 DEF LaunchReady

LEMMA LaunchCommitsHolds ==
  ASSUME ViewInv, NEW s \in Slots, LaunchCommits(s) PROVE ViewInv'
<1> DEFINE gen == rt.attachGen + 1
           h == launches[s].h
           w == [h |-> h, gen |-> gen, cancelled |-> FALSE]
<1>1. /\ Typed /\ launches[s].at = "commit" /\ LaunchTyped /\ Rest /\ TermTyped /\ LaunchEnds(s)
      /\ job \in Job /\ rt \in Runtime /\ pumps \in Nat
      /\ past \in Past /\ UNCHANGED past
      /\ UNCHANGED <<term, worker, calls>> /\ launches[s].at \notin Waits
  BY TypedParts DEF ViewInv, LaunchCommits, Rest, Waits
<1>2. h \in 1..Viewers /\ h \in Handles
  <2>1. launches[s] \in LaunchRec
    BY <1>1 DEF LaunchTyped, Launch, LaunchRec, Idle
  <2>2. h # None
    BY <1>1 DEF ViewInv, Launched, LaunchOk, HasWindow
  <2> QED BY <2>1, <2>2, Bounds DEF LaunchRec
<1>3. CASE /\ rt' = [rt EXCEPT !.attaching = FALSE, !.term = h, !.attachGen = gen,
                               !.watched = gen, !.workerGen = term.worker]
           /\ viewer' = IF rt.term # h THEN Closed(rt.term) ELSE viewer
           /\ watchers' = Cancelled(rt.watched) \cup {w}
           /\ Headed
  <2>1. gen \in Nat /\ term.worker \in 0..Workers
    BY <1>1 DEF Runtime, TermTyped, Term
  <2>2. w \in Watcher /\ w.h = h /\ w.gen = gen
    BY <1>2, <2>1 DEF Watcher
  <2> HIDE DEF w, h, gen
  <2>3. /\ rt' \in Runtime /\ ~rt'.attaching /\ rt'.term = h /\ rt'.epoch = rt.epoch
        /\ rt'.attachGen = gen /\ rt'.requested = rt.requested
    BY <1>1, <1>2, <1>3, <2>1 DEF Runtime
  <2>4. /\ job' \in Job /\ job'.view = "headed" /\ job'.owner = "tui"
    BY <1>1, <1>3, HeadedHolds
  <2>5. /\ launches' \in [Slots -> Launch] /\ Others(s) /\ launches'[s] = Idle /\ pumps' \in Nat
    BY <1>1, LaunchesEnd
  <2>6. watchers' \subseteq Watcher
    BY <1>1, <1>3, <2>2, CancelledTyped DEF Typed
  <2>7. TermTyped'
    BY <1>1, <1>3, ClosedTyped DEF TermTyped
  <2>8. Typed'
    BY <1>1, <2>3, <2>4, <2>5, <2>6, <2>7, RestTyped, TypedParts
  <2>9. h # None
    BY <1>2, Bounds
  <2>10. Watched'
    BY <1>3, <2>2, <2>3, <2>9 DEF Watched
  <2>11. Forward
    BY <1>1, <2>3, <2>10 DEF Forward, Runtime
  <2>12. launches'[s].at = "idle"
    BY <2>5 DEF Idle
  <2>13. LaunchOk(s)'
    BY <2>12 DEF LaunchOk
  <2>14. Launched'
    BY <1>1, <2>3, <2>5, <2>11, <2>12, <2>13, LaunchMoves DEF Waits, ViewInv
  <2>15. HeadedOk'
    BY <2>4, <2>10 DEF HeadedOk
  <2> QED BY <2>8, <2>10, <2>14, <2>15 DEF ViewInv, TerminalWatched
<1>4. CASE /\ ~Current(launches[s].epoch) /\ rt' = [rt EXCEPT !.attaching = FALSE]
           /\ viewer' = Closed(h) /\ UNCHANGED <<watchers, job>>
  <2>1. TermTyped'
    BY <1>1, <1>4, ClosedTyped DEF TermTyped
  <2>2. Ends(s)
    BY <1>1, <1>4 DEF Ends
  <2> QED BY <1>1, <1>4, <2>1, <2>2, LaunchGivesUp
<1> QED BY <1>3, <1>4 DEF LaunchCommits, Watching

LEMMA LaunchReconcilesHolds ==
  ASSUME ViewInv, NEW s \in Slots, LaunchReconciles(s) PROVE ViewInv'
<1> DEFINE o == IF WorkerAlive THEN "tui" ELSE "supervisor"
<1>1. /\ Typed /\ launches[s].at = "reconcile" /\ LaunchTyped /\ Rest /\ TermTyped' /\ Ends(s)
      /\ job \in Job /\ rt \in Runtime /\ pumps \in Nat /\ past \in Past
      /\ UNCHANGED <<watchers, calls>> /\ launches[s].at \notin Waits
  BY TypedParts DEF ViewInv, LaunchReconciles, NoNews, terminals, TermTyped, Rest, Waits
<1> DEFINE b == past.gaveUp \/ ~(rt.requested \/ WorkerAlive)
<1>5. past' = [past EXCEPT !.gaveUp = b]
  BY DEF LaunchReconciles
<1>6. b \in BOOLEAN
  OBVIOUS
<1> HIDE DEF b
<1>7. past' \in Past /\ past'.dropped = past.dropped
  BY <1>1, <1>5, <1>6, GaveUpTyped
<1>2. ~Current(launches[s].epoch)
  BY <1>1 DEF ViewInv, Launched, LaunchOk
<1>3. CASE UNCHANGED job
  BY <1>1, <1>2, <1>3, <1>7, LaunchGivesUp
<1>4. CASE SaveView("headless", "headless", o)
  <2>1. o \in Owners /\ "headless" \in ViewModes
    BY DEF Owners, ViewModes
  <2> HIDE DEF o
  <2>2. job' \in Job /\ job'.view = "headless"
    BY <1>1, <1>4, <2>1, SaveViewTyped
  <2>3. /\ launches' \in [Slots -> Launch] /\ Others(s) /\ launches'[s] = Idle /\ pumps' \in Nat
    BY <1>1, LaunchesEnd DEF Ends
  <2>4. /\ rt' \in Runtime /\ ~rt'.attaching /\ rt'.term = rt.term /\ rt'.epoch = rt.epoch
        /\ rt'.attachGen = rt.attachGen /\ rt'.requested = rt.requested
    BY <1>1, DoneTyped DEF Ends
  <2>5. Typed'
    BY <1>1, <1>7, <2>2, <2>3, <2>4, RestTyped, TypedParts
  <2>6. Within(s)
    BY <1>1, <2>2, <2>3, <2>4 DEF Within
  <2>7. launches'[s].at = "idle"
    BY <2>3 DEF Idle
  <2>8. LaunchOk(s)'
    BY <2>7 DEF LaunchOk
  <2> QED BY <1>1, <1>2, <2>4, <2>5, <2>6, <2>7, <2>8, WithinHolds DEF Waits
<1> QED BY <1>3, <1>4 DEF LaunchReconciles

LEMMA LaunchFailsHolds ==
  ASSUME ViewInv, NEW s \in Slots, LaunchFails(s) PROVE ViewInv'
<1> DEFINE o == IF WorkerAlive THEN "tui" ELSE "supervisor"
           k == [launches[s] EXCEPT !.at = "failing"]
           l == [k EXCEPT !.owner = o]
<1>1. /\ Typed /\ launches[s].at = "fail" /\ LaunchTyped /\ Rest /\ TermTyped /\ TermTyped'
      /\ rt \in Runtime
      /\ rt' = IF WorkerAlive THEN [rt EXCEPT !.workerGen = term.worker] ELSE rt
      /\ UNCHANGED <<job, pumps, past, watchers, calls>> /\ launches[s].at \notin Waits
  BY TypedParts DEF ViewInv, LaunchFails, NoNews, terminals, scheduler, TermTyped, Rest, Waits
<1>2. launches' = [launches EXCEPT ![s] = l]
  BY <1>1 DEF LaunchFails, LaunchTyped
<1>3. launches[s] \in LaunchRec /\ "failing" \in Launching /\ o \in Owners
  BY <1>1 DEF LaunchTyped, Launch, LaunchRec, Idle, Launching, Owners
<1>4. k \in LaunchRec /\ k.at = "failing" /\ k.epoch = launches[s].epoch
  BY <1>3 DEF LaunchRec
<1> HIDE DEF k, o
<1>5. l \in LaunchRec /\ l.at = "failing" /\ l.epoch = launches[s].epoch
  BY <1>3, <1>4 DEF LaunchRec
<1> HIDE DEF l
<1>6. l \in Launch
  BY <1>5 DEF Launch, LaunchRec
<1>7. launches' \in [Slots -> Launch] /\ launches'[s] = l /\ Others(s)
  BY <1>1, <1>2, <1>6, LaunchSet
<1>8. term.worker \in 0..Workers
  BY <1>1 DEF TermTyped, Term
<1>9. /\ rt' \in Runtime /\ rt'.attaching = rt.attaching /\ rt'.term = rt.term
      /\ rt'.epoch = rt.epoch /\ rt'.attachGen = rt.attachGen /\ rt'.requested = rt.requested
  BY <1>1, <1>8 DEF Runtime
<1>10. Typed'
  BY <1>1, <1>7, <1>9, RestTyped, TypedParts
<1>11. Within(s)
  BY <1>1, <1>7, <1>9 DEF Within, Busy, Rest
<1> QED BY <1>1, <1>5, <1>7, <1>9, <1>10, <1>11, LaunchGoesOn DEF Waits, HasWindow

LEMMA LaunchFailedHolds ==
  ASSUME ViewInv, NEW s \in Slots, LaunchFailed(s) PROVE ViewInv'
<1>1. /\ Typed /\ launches[s].at = "failing" /\ LaunchTyped /\ Rest /\ TermTyped' /\ LaunchEnds(s)
      /\ job \in Job /\ rt \in Runtime /\ pumps \in Nat /\ past \in Past
      /\ UNCHANGED <<watchers, calls>> /\ launches[s].at \notin Waits
  BY TypedParts DEF ViewInv, LaunchFailed, NoNews, terminals, TermTyped, Rest, Waits
<1> DEFINE b == \/ past.gaveUp
                \/ Current(launches[s].epoch) /\ launches[s].owner = "supervisor"
<1>4. past' = [past EXCEPT !.gaveUp = b]
  BY DEF LaunchFailed
<1>5. b \in BOOLEAN
  OBVIOUS
<1> HIDE DEF b
<1>6. past' \in Past /\ past'.dropped = past.dropped
  BY <1>1, <1>4, <1>5, GaveUpTyped
<1>2. CASE ~Current(launches[s].epoch) /\ rt' = [rt EXCEPT !.attaching = FALSE] /\ UNCHANGED job
  <2>1. Ends(s)
    BY <1>1, <1>2 DEF Ends
  <2> QED BY <1>1, <1>2, <1>6, <2>1, LaunchGivesUp
<1>3. CASE /\ rt' = [rt EXCEPT !.attaching = FALSE, !.requested = FALSE, !.epoch = rt.epoch + 1]
           /\ SaveView("headless", "headless", launches[s].owner)
  <2>1. launches[s].owner \in Owners /\ "headless" \in ViewModes
    BY <1>1 DEF LaunchTyped, Launch, Idle, ViewModes
  <2>2. job' \in Job /\ job'.view = "headless"
    BY <1>1, <1>3, <2>1, SaveViewTyped
  <2>3. /\ launches' \in [Slots -> Launch] /\ Others(s) /\ launches'[s] = Idle /\ pumps' \in Nat
    BY <1>1, LaunchesEnd
  <2>4. rt.epoch \in Nat /\ rt.epoch + 1 \in Nat
    BY <1>1 DEF Runtime
  <2>5. /\ rt' \in Runtime /\ ~rt'.attaching /\ rt'.term = rt.term /\ rt'.epoch = rt.epoch + 1
        /\ rt'.attachGen = rt.attachGen /\ ~rt'.requested
    BY <1>1, <1>3, <2>4 DEF Runtime
  <2>6. Typed'
    BY <1>1, <1>6, <2>2, <2>3, <2>5, RestTyped, TypedParts
  <2>7. Forward
    BY <2>4, <2>5 DEF Forward
  <2>8. launches'[s].at = "idle"
    BY <2>3 DEF Idle
  <2>9. LaunchOk(s)'
    BY <2>8 DEF LaunchOk
  <2>10. Launched'
    BY <1>1, <2>3, <2>5, <2>7, <2>8, <2>9, LaunchMoves DEF Waits, ViewInv
  <2>11. TerminalWatched'
    BY <1>1, <2>5, WatchedKeeps DEF ViewInv
  <2>12. HeadedOk'
    BY <2>2 DEF HeadedOk
  <2> QED BY <2>6, <2>10, <2>11, <2>12 DEF ViewInv
<1> QED BY <1>2, <1>3 DEF LaunchFailed

-----------------------------------------------------------------------------
(* Watching and detaching.                                                 *)

LEMMA WatchEndsHolds ==
  ASSUME ViewInv, NEW w \in watchers, WatchEnds(w) PROVE ViewInv'
<1> DEFINE c == [by |-> "watch", key |-> w.gen]
<1>1. /\ Typed /\ TermTyped /\ rt \in Runtime /\ w \in Watcher
      /\ watchers' = watchers \ {w} /\ viewer' = Closed(w.h)
      /\ UNCHANGED <<job, queue, turn, pumps, past, term, worker, launches, finishes, lost, used>>
  BY TypedParts DEF ViewInv, WatchEnds, scheduler
<1>2. TermTyped'
  BY <1>1, ClosedTyped DEF TermTyped
<1>3. Launched /\ TerminalWatched /\ HeadedOk
  BY DEF ViewInv
<1>4. CASE /\ rt.term = w.h /\ rt.attachGen = w.gen
           /\ rt' = [rt EXCEPT !.term = None, !.watched = 0]
           /\ calls' = calls \cup {c}
  <2>1. c \in Call /\ c.by = "watch"
    BY <1>1 DEF Call, Watcher
  <2> HIDE DEF c
  <2>2. /\ rt' \in Runtime /\ rt'.term = None /\ rt'.epoch = rt.epoch
        /\ rt'.requested = rt.requested /\ rt'.attaching = rt.attaching
    BY <1>1, <1>4, Bounds DEF Runtime
  <2>3. Typed'
    BY <1>1, <1>2, <1>4, <2>1, <2>2
       DEF Typed, RowTyped, LaunchTyped, TurnTyped, CallTyped, PastTyped
  <2>4. WatchCall' /\ CallComes'
    BY <1>4, <2>1 DEF WatchCall, CallComes, DetachStale
  <2>5. Forward
    BY <1>1, <2>2, <2>4 DEF Forward, Runtime
  <2>6. Launched'
    BY <1>1, <1>3, <2>2, <2>5, LaunchedKeeps
  <2>7. TerminalWatched'
    BY <2>2 DEF TerminalWatched
  <2>8. HeadedOk'
    BY <1>1, <1>3, <2>4 DEF HeadedOk, Busy
  <2> QED BY <2>3, <2>6, <2>7, <2>8 DEF ViewInv
<1>5. CASE ~(rt.term = w.h /\ rt.attachGen = w.gen) /\ UNCHANGED <<rt, calls>>
  <2>1. Typed'
    BY <1>1, <1>2, <1>5 DEF Typed, RowTyped, LaunchTyped, TurnTyped, CallTyped, PastTyped
  <2>2. Watched => Watched'
    BY <1>1, <1>5 DEF Watched
  <2>3. TerminalWatched'
    BY <1>3, <1>5, <2>2 DEF TerminalWatched
  <2>4. Forward
    BY <1>1, <1>5, <2>2 DEF Forward, Runtime, WatchCall
  <2>5. Launched'
    BY <1>1, <1>3, <1>5, <2>4, LaunchedKeeps
  <2>6. (CallComes => CallComes') /\ (LaunchComes => LaunchComes')
    BY <1>1, <1>5 DEF CallComes, DetachStale, LaunchComes, Current
  <2>7. HeadedOk'
    BY <1>1, <1>3, <1>5, <2>2, <2>6, HeadedKeeps DEF Busy, Dropped
  <2> QED BY <2>1, <2>3, <2>5, <2>7 DEF ViewInv
<1> QED BY <1>4, <1>5 DEF WatchEnds

LEMMA DetachExpectedHolds ==
  ASSUME ViewInv, NEW c \in calls, DetachExpected(c) PROVE ViewInv'
<1> DEFINE fromClose == c.by \in {"watch", "exit"}
<1>1. /\ Typed /\ Launched /\ TerminalWatched /\ HeadedOk /\ rt \in Runtime /\ job \in Job
      /\ c \in Call /\ calls' = calls \ {c}
      /\ UNCHANGED <<queue, turn, pumps, past, term, worker, viewer, launches, lost, used>>
  BY TypedParts DEF ViewInv, DetachExpected, scheduler, terminals
<1>2. ASSUME rt' \in Runtime, job' \in Job, finishes' \subseteq Finish, watchers' \subseteq Watcher
      PROVE  Typed'
  BY <1>1, <1>2 DEF Typed, RowTyped, LaunchTyped, TurnTyped, CallTyped, TermTyped, PastTyped
<1>3. rt.epoch \in Nat /\ rt.epoch + 1 \in Nat /\ rt.attachGen + 1 \in Nat /\ rt.term \in Handles
      /\ rt.attachGen \in Nat /\ None \in Handles
  BY <1>1, Bounds DEF Runtime
<1>4. CASE DetachStale(c) /\ UNCHANGED <<rt, job, watchers, finishes>>
  <2>1. Typed'
    BY <1>1, <1>2, <1>4 DEF Typed, CallTyped
  <2>2. WatchCall => WatchCall'
    BY <1>1, <1>4 DEF WatchCall, DetachStale
  <2>3. CallComes => CallComes'
    BY <1>1, <1>4 DEF CallComes, DetachStale
  <2>4. (Watched => Watched') /\ TerminalWatched'
    BY <1>1, <1>4, WatchedKeeps
  <2>5. Forward
    BY <1>1, <1>4, <2>2, <2>4 DEF Forward, Runtime
  <2>6. Launched'
    BY <1>1, <1>4, <2>5, LaunchedKeeps
  <2>7. LaunchComes => LaunchComes'
    BY <1>1, <1>4 DEF LaunchComes, Current
  <2>8. HeadedOk'
    BY <1>1, <1>4, <2>3, <2>4, <2>7, HeadedKeeps DEF Busy, Dropped
  <2> QED BY <2>1, <2>4, <2>6, <2>8 DEF ViewInv
<1>5. CASE /\ job.view = "headless"
           /\ rt' = [rt EXCEPT !.requested = FALSE, !.epoch = rt.epoch + 1]
           /\ job' = [job EXCEPT !.desired = "headless"]
           /\ UNCHANGED <<watchers, finishes>>
  <2>1. /\ rt' \in Runtime /\ ~rt'.requested /\ rt'.epoch = rt.epoch + 1 /\ rt'.term = rt.term
        /\ rt'.attachGen = rt.attachGen /\ rt'.attaching = rt.attaching
    BY <1>1, <1>3, <1>5 DEF Runtime
  <2>2. job' \in Job /\ job'.view = "headless"
    BY <1>1, <1>5 DEF Job
  <2>3. Typed'
    BY <1>1, <1>2, <1>5, <2>1, <2>2 DEF Typed, CallTyped
  <2>4. Launched'
    BY <1>1, <2>1, WithdrawnLaunched DEF Withdrawn
  <2>5. TerminalWatched'
    BY <1>1, <1>5, <2>1, WatchedKeeps
  <2>6. HeadedOk'
    BY <2>2 DEF HeadedOk
  <2> QED BY <2>3, <2>4, <2>5, <2>6 DEF ViewInv
<1>6. ASSUME NEW gen \in Nat, NEW t \in Handles, (t = rt.term /\ gen = rt.attachGen) \/ t = None,
             rt' = [rt EXCEPT !.requested = FALSE, !.epoch = rt.epoch + 1, !.watched = 0,
                              !.attachGen = gen, !.term = t],
             finishes' = finishes \cup
                 {[key |-> rt.epoch + 1, h |-> rt.term, gen |-> gen, at |-> "close"]},
             SaveView("detaching", "headless", job.owner),
             watchers' = Cancelled(rt.watched)
      PROVE  ViewInv'
  <2>1. /\ rt' \in Runtime /\ ~rt'.requested /\ rt'.epoch = rt.epoch + 1 /\ rt'.term = t
        /\ rt'.attachGen = gen /\ rt'.attaching = rt.attaching
    BY <1>1, <1>3, <1>6 DEF Runtime
  <2>2. job.owner \in Owners /\ "detaching" \in ViewModes
    BY <1>1 DEF Job, ViewModes
  <2>3. job' \in Job /\ job'.view = "detaching"
    BY <1>1, <1>6, <2>2, SaveViewTyped
  <2>4. finishes' \subseteq Finish
    BY <1>1, <1>3, <1>6 DEF Finish, Typed, CallTyped
  <2>5. /\ watchers' \subseteq Watcher
        /\ \A w \in watchers : \E v \in watchers' : v.h = w.h /\ v.gen = w.gen
    BY <1>1, <1>6, CancelledTyped DEF Typed
  <2>6. Typed'
    BY <1>2, <2>1, <2>3, <2>4, <2>5
  <2>7. Launched'
    BY <1>1, <2>1, WithdrawnLaunched DEF Withdrawn
  <2>8. TerminalWatched'
    <3>1. CASE t = rt.term /\ gen = rt.attachGen
      BY <1>1, <2>1, <2>5, <3>1, WatchedKeeps
    <3>2. CASE t = None
      BY <2>1, <3>2 DEF TerminalWatched
    <3> QED BY <1>6, <3>1, <3>2
  <2>9. HeadedOk'
    BY <2>3 DEF HeadedOk
  <2> QED BY <2>6, <2>7, <2>8, <2>9 DEF ViewInv
<1>7. CASE /\ LET gen == IF fromClose THEN rt.attachGen ELSE rt.attachGen + 1 IN
                 /\ rt' = [rt EXCEPT !.requested = FALSE, !.epoch = rt.epoch + 1, !.watched = 0,
                              !.attachGen = gen, !.term = IF fromClose THEN rt.term ELSE None]
                 /\ finishes' = finishes \cup
                        {[key |-> rt.epoch + 1, h |-> rt.term, gen |-> gen, at |-> "close"]}
           /\ SaveView("detaching", "headless", job.owner)
           /\ watchers' = Cancelled(rt.watched)
  <2>1. CASE fromClose
    BY <1>3, <1>6, <1>7, <2>1
  <2>2. CASE ~fromClose
    BY <1>3, <1>6, <1>7, <2>2
  <2> QED BY <2>1, <2>2
<1> QED BY <1>4, <1>5, <1>7 DEF DetachExpected

LEMMA FinishToTyped ==
  ASSUME finishes \subseteq Finish, NEW f \in finishes, NEW at \in {"close", "check", "load"},
         FinishTo(f, at)
  PROVE  finishes' \subseteq Finish
<1>1. [f EXCEPT !.at = at] \in Finish
  BY DEF Finish
<1> QED BY <1>1 DEF FinishTo

LEMMA FinishClosesHolds ==
  ASSUME ViewInv, NEW f \in finishes, FinishCloses(f) PROVE ViewInv'
<1>1. /\ Typed /\ TermTyped /\ viewer' = Closed(f.h) /\ FinishTo(f, "check")
      /\ UNCHANGED <<job, rt, queue, turn, pumps, past, launches, calls, watchers, term, worker,
                     lost, used>>
  BY TypedParts DEF ViewInv, FinishCloses, scheduler
<1>2. TermTyped' /\ finishes' \subseteq Finish
  BY <1>1, ClosedTyped, FinishToTyped DEF TermTyped, Typed, CallTyped
<1>3. Typed'
  BY <1>1, <1>2 DEF Typed, RowTyped, LaunchTyped, TurnTyped, CallTyped, PastTyped
<1>4. Apart
  BY <1>1 DEF Apart, Busy
<1> QED BY <1>1, <1>3, <1>4, ApartHolds

LEMMA FinishChecksHolds ==
  ASSUME ViewInv, NEW f \in finishes, FinishChecks(f) PROVE ViewInv'
<1>1. /\ Typed /\ job \in Job /\ finishes \subseteq Finish
      /\ \/ FinishTo(f, "load") /\ UNCHANGED job
         \/ finishes' = finishes \ {f} /\ SaveView("headless", job.desired, "tui")
         \/ finishes' = finishes \ {f} /\ UNCHANGED job
      /\ UNCHANGED <<rt, queue, turn, pumps, past, term, worker, viewer, launches, calls, watchers,
                     lost, used>>
  BY TypedParts DEF ViewInv, FinishChecks, scheduler, terminals, Typed, CallTyped
<1>2. finishes' \subseteq Finish
  BY <1>1, FinishToTyped
<1>3. job.desired \in {"headless", "headed"} /\ "headless" \in ViewModes /\ "tui" \in Owners
  BY <1>1 DEF Job, ViewModes, Owners
<1>4. job' \in Job /\ (job' = job \/ job'.view = "headless")
  BY <1>1, <1>3, SaveViewTyped
<1>5. Typed'
  BY <1>1, <1>2, <1>4 DEF Typed, RowTyped, LaunchTyped, TurnTyped, CallTyped, TermTyped, PastTyped
<1>6. Apart
  BY <1>1, <1>4 DEF Apart, Busy
<1> QED BY <1>1, <1>5, <1>6, ApartHolds

LEMMA FinishReturnsHolds ==
  ASSUME ViewInv, NEW f \in finishes, FinishReturns(f) PROVE ViewInv'
<1> DEFINE v == IF StillDetached(f) THEN "headless" ELSE job.view
           o == IF StillDetached(f) THEN "supervisor" ELSE job.owner
<1>1. /\ Typed /\ job \in Job /\ finishes' = finishes \ {f} /\ pumps \in Nat
      /\ pumps' = IF ~StillDetached(f) \/ Busy \/ queue = <<>> THEN pumps ELSE pumps + 1
      /\ UNCHANGED <<rt, queue, turn, past, term, worker, viewer, launches, calls, watchers,
                     lost, used>>
  BY TypedParts DEF ViewInv, FinishReturns, Kicked, terminals
<1>2. PICK failed \in BOOLEAN : job' =
         [job EXCEPT !.view = v, !.owner = o,
                     !.stalled = IF failed THEN "session_load_failed"
                                 ELSE IF job.stalled = "session_load_failed" THEN "" ELSE job.stalled]
  BY DEF FinishReturns
<1> DEFINE st == IF failed THEN "session_load_failed"
                 ELSE IF job.stalled = "session_load_failed" THEN "" ELSE job.stalled
<1>3. /\ v \in ViewModes /\ o \in Owners /\ st \in Stalls
      /\ v = "headed" => job.view = "headed" /\ o = job.owner
  BY <1>1 DEF Job, ViewModes, Owners, Stalls
<1>4. job' = [job EXCEPT !.view = v, !.owner = o, !.stalled = st]
  BY <1>2
<1> HIDE DEF v, o, st
<1>5. job' \in Job /\ job'.view = v /\ job'.owner = o
  BY <1>1, <1>3, <1>4 DEF Job
<1>6. Typed'
  BY <1>1, <1>5 DEF Typed, RowTyped, LaunchTyped, TurnTyped, CallTyped, TermTyped, PastTyped
<1>7. Apart
  BY <1>1, <1>3, <1>5 DEF Apart, Busy
<1> QED BY <1>1, <1>6, <1>7, ApartHolds

-----------------------------------------------------------------------------
(* Workers and windows.                                                    *)

\* A step of the processes only.
LEMMA ProcessesMove ==
  ASSUME ViewInv, TermTyped', calls \subseteq calls', calls' \subseteq Call,
         lost' \in Loss, used' = used \/ used' \in [views : Nat, requests : Nat, faults : Nat, approvals : Nat],
         past' = past \/ past' \in Past, past'.dropped = past.dropped,
         UNCHANGED <<job, rt, queue, turn, pumps, launches, finishes, watchers>>
  PROVE  ViewInv'
<1>1. Typed'
  BY DEF ViewInv, Typed, RowTyped, LaunchTyped, TurnTyped, CallTyped, PastTyped
<1>2. Apart
  BY DEF Apart, Busy
<1> QED BY <1>1, <1>2, ApartHolds

LEMMA WindowHolds ==
  ASSUME ViewInv, NEW h \in 1..Viewers, ViewerConnects(h) \/ ViewerEnds(h) PROVE ViewInv'
<1>1. TermTyped /\ calls \subseteq Call /\ lost \in Loss
  BY DEF ViewInv, Typed, CallTyped, PastTyped
<1>2. TermTyped'
  BY <1>1, ClosedTyped DEF ViewerConnects, ViewerEnds, TermTyped, Viewer
<1> QED BY <1>1, <1>2, ProcessesMove DEF ViewerConnects, ViewerEnds, NoNews, scheduler

LEMMA WorkerDiesHolds ==
  ASSUME ViewInv, NEW g \in 1..Workers, WorkerDies(g) PROVE ViewInv'
<1>1. TermTyped /\ calls \subseteq Call /\ lost \in Loss
  BY DEF ViewInv, Typed, CallTyped, PastTyped
<1>2. TermTyped'
  BY <1>1 DEF WorkerDies, TermTyped
<1> QED BY <1>1, <1>2, ProcessesMove DEF WorkerDies, NoNews, scheduler

LEMMA WorkerExitedHolds ==
  ASSUME ViewInv, NEW g \in 1..Workers, WorkerExited(g) PROVE ViewInv'
<1>1. TermTyped /\ calls \subseteq Call /\ lost \in Loss
  BY DEF ViewInv, Typed, CallTyped, PastTyped
<1> DEFINE k == IF term.worker = g THEN None ELSE term.worker
           c == [by |-> "exit", key |-> g]
<1>2. /\ worker' = [worker EXCEPT ![g] = "gone"] /\ term' = [term EXCEPT !.worker = k]
      /\ \/ calls' = calls \cup {c} /\ past' = past
         \/ calls' = calls /\ past' = [past EXCEPT !.gaveUp = TRUE]
      /\ UNCHANGED <<job, rt, queue, turn, pumps, launches, finishes, watchers, viewer, lost, used>>
  BY DEF WorkerExited
<1>3. k \in 0..Workers
  BY <1>1, Bounds DEF TermTyped, Term
<1> HIDE DEF k
<1>4. TermTyped'
  BY <1>1, <1>2, <1>3 DEF TermTyped, Term
<1>5. c \in Call
  BY Bounds DEF Call
<1>6. past' = past \/ (past' \in Past /\ past'.dropped = past.dropped)
  BY <1>2, GaveUpTyped, TypedParts DEF ViewInv
<1> QED BY <1>1, <1>2, <1>4, <1>5, <1>6, ProcessesMove

-----------------------------------------------------------------------------
(* Requests and turns.                                                     *)

\* A step of the scheduler only.
LEMMA SchedulerMoves ==
  ASSUME ViewInv, TurnTyped', job' \in Job, job'.view = job.view, job'.owner = job.owner,
         past' = past \/ past' \in Past,
         past'.dropped = past.dropped,
         used' = used \/ used' \in [views : Nat, requests : Nat, faults : Nat, approvals : Nat],
         UNCHANGED <<rt, term, worker, viewer, launches, calls, finishes, watchers, lost>>
  PROVE  ViewInv'
<1>1. Typed'
  BY DEF ViewInv, Typed, RowTyped, LaunchTyped, CallTyped, TermTyped, PastTyped
<1>2. Apart
  BY DEF Apart
<1> QED BY <1>1, <1>2, ApartHolds

\* The pump looks at the queue.
LEMMA LookedTyped ==
  ASSUME past \in Past, Looked PROVE past' \in Past /\ past'.dropped = past.dropped
BY GaveUpTyped DEF Looked

LEMMA AcceptHolds ==
  ASSUME ViewInv, Accept PROVE ViewInv'
<1> DEFINE n == used.requests + 1
           i == [req |-> n, gen |-> rt.gen]
<1>1. /\ Typed /\ job \in Job /\ rt \in Runtime /\ TurnTyped
      /\ used \in [views : Nat, requests : Nat, faults : Nat, approvals : Nat]
      /\ used.requests < Requests /\ used' = [used EXCEPT !.requests = n]
      /\ queue' = Append(queue, i) /\ pumps' = IF Busy THEN pumps ELSE pumps + 1
      /\ UNCHANGED <<job, rt, turn, past, term, worker, viewer, launches, calls, finishes, watchers, lost>>
  BY TypedParts DEF ViewInv, Accept, MayHappen, terminals, Typed, PastTyped
<1>2. n \in 1..Requests /\ n \in Nat /\ rt.gen \in Nat
  BY <1>1, Bounds DEF Runtime
<1> HIDE DEF n
<1>3. i \in Item
  BY <1>2 DEF Item
<1> HIDE DEF i
<1>4. queue' \in Seq(Item)
  BY <1>1, <1>3 DEF TurnTyped
<1>5. TurnTyped'
  BY <1>1, <1>4 DEF TurnTyped
<1>6. used' \in [views : Nat, requests : Nat, faults : Nat, approvals : Nat]
  BY <1>1, <1>2
<1> QED BY <1>1, <1>5, <1>6, SchedulerMoves DEF Busy

LEMMA PumpSkipsHolds ==
  ASSUME ViewInv, PumpSkips PROVE ViewInv'
<1>1. /\ Typed /\ job \in Job /\ TurnTyped /\ pumps > 0 /\ pumps' = pumps - 1
      /\ past \in Past /\ Looked
      /\ UNCHANGED <<job, rt, queue, turn, term, worker, viewer, launches, calls, finishes,
                     watchers, lost, used>>
  BY TypedParts DEF ViewInv, PumpSkips, Looked, terminals, NoNews, Typed
<1>2. TurnTyped'
  BY <1>1 DEF TurnTyped
<1>3. past' \in Past /\ past'.dropped = past.dropped
  BY <1>1, LookedTyped
<1> QED BY <1>1, <1>2, <1>3, SchedulerMoves

LEMMA HeadTyped ==
  ASSUME NEW S, NEW q \in Seq(S), q # <<>> PROVE Head(q) \in S /\ Tail(q) \in Seq(S)
OBVIOUS

LEMMA PumpPopsHolds ==
  ASSUME ViewInv, PumpPops PROVE ViewInv'
<1>1. /\ Typed /\ job \in Job /\ TurnTyped /\ pumps > 0 /\ pumps' = pumps - 1
      /\ queue # <<>> /\ queue' = Tail(queue) /\ job.owner # "tui"
      /\ turn' = [at |-> "popped", item |-> Head(queue), cancelled |-> FALSE, again |-> FALSE]
      /\ job' = [job EXCEPT !.pause = ""] /\ past \in Past /\ Looked
      /\ UNCHANGED <<rt, term, worker, viewer, launches, calls, finishes,
                     watchers, lost, used>>
  BY TypedParts DEF ViewInv, PumpPops, Looked, MayPop, HeldByTUI, HeldByOwner, terminals, NoNews, Typed
<1>2. queue \in Seq(Item) /\ pumps \in Nat
  BY <1>1 DEF TurnTyped
<1>3. Head(queue) \in Item /\ Tail(queue) \in Seq(Item)
  BY <1>1, <1>2, HeadTyped
<1>4. turn' \in Turn /\ pumps' \in Nat
  <2>1. pumps > 0 /\ pumps' = pumps - 1
    BY <1>1, Zenon
  <2>2. turn' \in Turn
    BY <1>1, <1>3 DEF Turn
  <2>3. pumps' \in Nat
    BY <1>2, <2>1
  <2> QED BY <2>2, <2>3
<1>5. TurnTyped'
  BY <1>1, <1>3, <1>4 DEF TurnTyped
<1>6. job' \in Job /\ job'.view = job.view /\ job'.owner = job.owner
  BY <1>1 DEF Job, Pauses
<1>7. past' \in Past /\ past'.dropped = past.dropped
  BY <1>1, LookedTyped
<1> QED BY <1>1, <1>5, <1>6, <1>7, SchedulerMoves

LEMMA RunItemHolds ==
  ASSUME ViewInv, RunItem PROVE ViewInv'
<1>1. /\ Typed /\ job \in Job /\ TurnTyped /\ turn.at = "popped"
      /\ past \in Past
      /\ UNCHANGED <<job, rt, queue, pumps, term, worker, viewer, launches, calls, finishes,
                     watchers, lost, used>>
  BY TypedParts DEF ViewInv, RunItem, terminals, NoNews, Typed
<1>2. turn \in Turn
  BY <1>1 DEF TurnTyped, Idle
<1>3. Busy
  BY <1>1 DEF Busy
<1>4. CASE turn' = [turn EXCEPT !.at = "returned", !.again = TRUE] /\ UNCHANGED past
  <2>1. turn' \in Turn
    BY <1>2, <1>4 DEF Turn
  <2>2. TurnTyped'
    BY <1>1, <2>1 DEF TurnTyped
  <2> QED BY <1>1, <1>3, <1>4, <2>2, SchedulerMoves
<1>5. CASE turn' = [turn EXCEPT !.at = "returned"] /\ UNCHANGED past
  <2>1. turn' \in Turn
    BY <1>2, <1>5 DEF Turn
  <2>2. TurnTyped'
    BY <1>1, <2>1 DEF TurnTyped
  <2> QED BY <1>1, <1>3, <1>5, <2>2, SchedulerMoves
<1>6. CASE /\ turn' = [turn EXCEPT !.at = "prompt"]
           /\ past' = [past EXCEPT !.sent = Append(past.sent, turn.item.req)]
  <2>1. turn' \in Turn
    BY <1>2, <1>6 DEF Turn
  <2>2. TurnTyped'
    BY <1>1, <2>1 DEF TurnTyped
  <2>3. turn.item.req \in 1..Requests
    BY <1>2 DEF Turn, Item
  <2> DEFINE n == Append(past.sent, turn.item.req)
  <2>4. n \in Seq(1..Requests)
    <3>1. past.sent \in Seq(1..Requests)
      BY <1>1 DEF Past
    <3> QED BY <2>3, <3>1
  <2>5. past' = [past EXCEPT !.sent = n]
    BY <1>6
  <2> HIDE DEF n
  <2>6. past' \in Past /\ past'.dropped = past.dropped
    BY <1>1, <2>4, <2>5 DEF Past
  <2> QED BY <1>1, <1>3, <2>2, <2>6, SchedulerMoves
<1> QED BY <1>4, <1>5, <1>6 DEF RunItem

LEMMA AsksHolds ==
  ASSUME ViewInv, Asks PROVE ViewInv'
<1> DEFINE n == used.approvals + 1
<1>1. /\ Typed /\ job \in Job /\ TurnTyped
      /\ used \in [views : Nat, requests : Nat, faults : Nat, approvals : Nat]
      /\ used' = [used EXCEPT !.approvals = n] /\ job' = [job EXCEPT !.pause = "approval"]
      /\ UNCHANGED <<rt, queue, turn, pumps, past, term, worker, viewer, launches, calls, finishes,
                     watchers, lost>>
  BY TypedParts DEF ViewInv, Asks, scheduler, terminals, Typed, PastTyped
<1>2. n \in Nat
  BY <1>1
<1> HIDE DEF n
<1>3. used' \in [views : Nat, requests : Nat, faults : Nat, approvals : Nat]
  BY <1>1, <1>2
<1>4. job' \in Job /\ job'.view = job.view /\ job'.owner = job.owner
  BY <1>1 DEF Job, Pauses
<1>5. TurnTyped'
  BY <1>1 DEF TurnTyped
<1> QED BY <1>1, <1>3, <1>4, <1>5, SchedulerMoves DEF Busy

LEMMA DecidedHolds ==
  ASSUME ViewInv, Decided PROVE ViewInv'
<1>1. /\ Typed /\ job \in Job /\ TurnTyped /\ job' = [job EXCEPT !.pause = ""]
      /\ UNCHANGED <<rt, queue, turn, pumps, past, term, worker, viewer, launches, calls, finishes,
                     watchers, lost, used>>
  BY TypedParts DEF ViewInv, Decided, scheduler, terminals, NoNews, Typed
<1>2. job' \in Job /\ job'.view = job.view /\ job'.owner = job.owner
  BY <1>1 DEF Job, Pauses
<1>3. TurnTyped'
  BY <1>1 DEF TurnTyped
<1> QED BY <1>1, <1>2, <1>3, SchedulerMoves DEF Busy

LEMMA PromptReturnsHolds ==
  ASSUME ViewInv, PromptReturns PROVE ViewInv'
<1>1. /\ Typed /\ job \in Job /\ TurnTyped /\ turn.at = "prompt"
      /\ turn' = [turn EXCEPT !.at = "returned"]
      /\ UNCHANGED <<job, rt, queue, pumps, past, term, worker, viewer, launches, calls, finishes,
                     watchers, lost, used>>
  BY TypedParts DEF ViewInv, PromptReturns, terminals, NoNews, Typed
<1>2. turn \in Turn
  BY <1>1 DEF TurnTyped, Idle
<1>3. turn' \in Turn /\ Busy
  BY <1>1, <1>2 DEF Turn, Busy
<1>4. TurnTyped'
  BY <1>1, <1>3 DEF TurnTyped
<1> QED BY <1>1, <1>3, <1>4, SchedulerMoves

LEMMA PumpFinishesHolds ==
  ASSUME ViewInv, PumpFinishes PROVE ViewInv'
<1> DEFINE more == queue # <<>>
<1>1. /\ Typed /\ job \in Job /\ rt \in Runtime /\ TurnTyped /\ LaunchTyped /\ TermTyped'
      /\ turn.at = "returned" /\ turn' = Idle /\ queue' = Requeued
      /\ UNCHANGED <<job, rt, past, term, worker, viewer, calls, finishes, watchers, lost, used>>
  BY TypedParts DEF ViewInv, PumpFinishes, terminals, NoNews, Typed, TermTyped
<1>2. turn \in Turn /\ queue \in Seq(Item) /\ pumps \in Nat /\ rt.gen \in Nat
  BY <1>1 DEF TurnTyped, Idle, Runtime
<1>3. queue' \in Seq(Item)
  <2>1. [turn.item EXCEPT !.gen = rt.gen] \in Item
    BY <1>2 DEF Turn, Item
  <2> QED BY <1>1, <1>2, <2>1 DEF Requeued
<1>4. ~Busy'
  BY <1>1 DEF Busy, Idle
<1>5. CASE /\ UNCHANGED launches
           /\ pumps' = pumps + (IF turn.again THEN 1 ELSE 0) + (IF more THEN 1 ELSE 0)
  <2>1. pumps' \in Nat
    BY <1>2, <1>5
  <2>2. TurnTyped'
    BY <1>1, <1>3, <2>1 DEF TurnTyped
  <2> QED BY <1>1, <1>4, <1>5, <2>2, SchedulerMoves
<1>6. ASSUME NEW s \in Slots, launches[s] = Idle, Relaunches,
             launches' = [launches EXCEPT ![s] = NewLaunch(rt.epoch, more)],
             pumps' = IF turn.again THEN pumps + 1 ELSE pumps
      PROVE  ViewInv'
  <2> DEFINE n == NewLaunch(rt.epoch, more)
  <2>1. rt.epoch \in Nat /\ more \in BOOLEAN
    BY <1>1 DEF Runtime
  <2>2. n \in Launch /\ n.at = "start" /\ n.epoch = rt.epoch
    BY <2>1, NewLaunchTyped
  <2>3. launches' = [launches EXCEPT ![s] = n]
    BY <1>6
  <2> HIDE DEF n
  <2>4. launches' \in [Slots -> Launch] /\ launches'[s] = n /\ Others(s)
    BY <1>1, <2>2, <2>3, LaunchSet
  <2>5. pumps' \in Nat
    BY <1>2, <1>6
  <2>6. Typed'
    BY <1>1, <1>3, <2>4, <2>5
       DEF Typed, RowTyped, LaunchTyped, TurnTyped, CallTyped, TermTyped, PastTyped
  <2>7. (Watched => Watched') /\ TerminalWatched'
    BY <1>1, WatchedKeeps DEF ViewInv
  <2>8. Forward
    BY <1>1, <2>1, <2>7 DEF Forward, WatchCall
  <2>9. LaunchOk(s)'
    BY <1>1, <2>1, <2>2, <2>4 DEF LaunchOk, HasWindow
  <2>10. Launched'
    BY <1>1, <1>6, <2>2, <2>4, <2>8, <2>9, LaunchMoves DEF Waits, Idle, ViewInv
  <2>11. job'.view # "headed"
    BY <1>1, <1>6 DEF Relaunches
  <2> QED BY <2>6, <2>7, <2>10, <2>11 DEF ViewInv, HeadedOk
<1> QED BY <1>5, <1>6 DEF PumpFinishes

-----------------------------------------------------------------------------
(* Faults, and the watchdog.                                               *)

LEMMA ConnectionLostHolds ==
  ASSUME ViewInv, ConnectionLost PROVE ViewInv'
<1> DEFINE n == used.faults + 1
<1>1. /\ TermTyped /\ PastTyped /\ calls \subseteq Call
      /\ used' = [used EXCEPT !.faults = n]
      /\ term' = [worker |-> None, handle |-> None]
      /\ UNCHANGED <<job, rt, queue, turn, pumps, past, worker, viewer, launches, calls, finishes,
                     watchers>>
  BY DEF ViewInv, ConnectionLost, scheduler, Typed, CallTyped
<1>2. n \in Nat
  BY <1>1 DEF PastTyped
<1>3. PICK active \in BOOLEAN :
            lost' = [at |-> "release", job |-> active \/ HeldByOwner, of |-> term]
  BY DEF ConnectionLost
<1>4. lost' \in Loss
  <2>1. (active \/ HeldByOwner) \in BOOLEAN /\ term \in Term
    BY <1>1 DEF TermTyped
  <2> QED BY <1>3, <2>1 DEF Loss
<1> HIDE DEF n
<1>5. used' \in [views : Nat, requests : Nat, faults : Nat, approvals : Nat]
  BY <1>1, <1>2 DEF PastTyped
<1>6. TermTyped'
  BY <1>1, Bounds DEF TermTyped, Term
<1> QED BY <1>1, <1>4, <1>5, <1>6, ProcessesMove

LEMMA LostTyped ==
  ASSUME lost \in Loss, lost.at # "no"
  PROVE  [lost EXCEPT !.at = "job"] \in Loss
BY DEF Loss

LEMMA WorkersClosedHolds ==
  ASSUME ViewInv, WorkersClosed PROVE ViewInv'
<1>1. /\ TermTyped /\ lost \in Loss /\ calls \subseteq Call /\ lost.at = "release"
      /\ lost' = [lost EXCEPT !.at = "job"]
      /\ worker' = [g \in DOMAIN worker |->
                       IF g = lost.of.worker /\ Alive(g) THEN "dead" ELSE worker[g]]
      /\ viewer' = Closed(lost.of.handle)
      /\ UNCHANGED <<job, rt, queue, turn, pumps, past, term, launches, calls, finishes,
                     watchers, used>>
  BY DEF ViewInv, WorkersClosed, scheduler, Typed, CallTyped, PastTyped
<1>2. lost' \in Loss
  BY <1>1, LostTyped
<1>3. TermTyped'
  BY <1>1, ClosedTyped DEF TermTyped
<1> QED BY <1>1, <1>2, <1>3, ProcessesMove

LEMMA DisconnectHolds ==
  ASSUME ViewInv, Disconnect PROVE ViewInv'
<1>1. /\ Typed /\ Launched /\ TerminalWatched /\ HeadedOk /\ TermTyped /\ job \in Job
      /\ rt \in Runtime /\ TurnTyped /\ CallTyped /\ calls \subseteq Call
      /\ lost' = [at |-> "no"]
      /\ UNCHANGED <<pumps, past, term, worker, launches, calls, finishes, used>>
  BY TypedParts DEF ViewInv, Disconnect, Typed
<1>2. lost' \in Loss
  BY <1>1 DEF Loss
<1>3. CASE UNCHANGED <<job, rt, queue, turn, viewer, watchers>>
  <2>1. TermTyped'
    BY <1>1, <1>3 DEF TermTyped
  <2> QED BY <1>1, <1>2, <1>3, <2>1, ProcessesMove
<1>4. CASE /\ rt' = [rt EXCEPT !.gen = rt.gen + 1, !.term = None, !.requested = FALSE,
                               !.attachGen = rt.attachGen + 1, !.watched = 0]
           /\ queue' = <<>>
           /\ turn' = IF Busy THEN [turn EXCEPT !.cancelled = TRUE] ELSE turn
           /\ viewer' = Closed(rt.term)
           /\ watchers' = Cancelled(rt.watched)
           /\ SaveView("headless", "headless", "supervisor")
  <2>1. rt.gen + 1 \in Nat /\ rt.attachGen + 1 \in Nat /\ None \in Handles
    BY <1>1, Bounds DEF Runtime
  <2>2. /\ rt' \in Runtime /\ rt'.term = None /\ ~rt'.requested /\ rt'.epoch = rt.epoch
        /\ rt'.attaching = rt.attaching
    BY <1>1, <1>4, <2>1 DEF Runtime
  <2>3. "headless" \in ViewModes /\ "supervisor" \in Owners
    BY DEF ViewModes, Owners
  <2>4. job' \in Job /\ job'.view = "headless"
    BY <1>1, <1>4, <2>3, SaveViewTyped
  <2>5. TermTyped'
    BY <1>1, <1>4, ClosedTyped DEF TermTyped
  <2>6. TurnTyped'
    <3>1. turn' = turn \/ turn' \in Turn
      BY <1>1, <1>4 DEF TurnTyped, Turn, Busy, Idle
    <3>2. <<>> \in Seq(Item)
      OBVIOUS
    <3> QED BY <1>1, <1>4, <3>1, <3>2 DEF TurnTyped
  <2>7. watchers' \subseteq Watcher
    BY <1>1, <1>4, CancelledTyped
  <2>8. Typed'
    BY <1>1, <1>2, <2>2, <2>4, <2>5, <2>6, <2>7 DEF Typed, RowTyped, LaunchTyped, CallTyped, PastTyped
  <2>9. Forward
    BY <1>1, <2>2 DEF Forward, Runtime
  <2>10. Launched'
    BY <1>1, <2>2, <2>9, LaunchedKeeps
  <2> QED BY <2>2, <2>4, <2>8, <2>10 DEF ViewInv, TerminalWatched, HeadedOk
<1> QED BY <1>3, <1>4 DEF Disconnect

LEMMA WatchdogHolds ==
  ASSUME ViewInv, Watchdog PROVE ViewInv'
<1>1. /\ Typed /\ job \in Job /\ TurnTyped /\ job' = [job EXCEPT !.stalled = Symptom]
      /\ UNCHANGED <<rt, queue, turn, pumps, past, term, worker, viewer, launches, calls, finishes,
                     watchers, lost, used>>
  BY TypedParts DEF ViewInv, Watchdog, scheduler, terminals, NoNews, Typed
<1>2. Symptom \in Stalls
  BY DEF Symptom, Stalls
<1>3. job' \in Job /\ job'.view = job.view /\ job'.owner = job.owner
  BY <1>1, <1>2 DEF Job
<1>4. TurnTyped'
  BY <1>1 DEF TurnTyped
<1> QED BY <1>1, <1>3, <1>4, SchedulerMoves DEF Busy

-----------------------------------------------------------------------------
(* Every step, and the theorems.                                           *)

LEMMA LaunchHolds ==
  ASSUME ViewInv, NEW s \in Slots, Launches(s) PROVE ViewInv'
<1>1. CASE LaunchBegins(s)
  BY <1>1, LaunchBeginsHolds
<1>2. CASE LaunchRetries(s)
  BY <1>2, LaunchRetriesHolds
<1>3. CASE LaunchFocuses(s)
  BY <1>3, LaunchFocusesHolds
<1>4. CASE LaunchChooses(s)
  BY <1>4, LaunchChoosesHolds
<1>5. CASE LaunchYields(s)
  BY <1>5, LaunchYieldsHolds
<1>6. CASE YieldEnds(s)
  BY <1>6, YieldEndsHolds
<1>7. CASE LaunchSaves(s)
  BY <1>7, LaunchSavesHolds
<1>8. CASE LaunchOpens(s)
  BY <1>8, LaunchOpensHolds
<1>9. CASE LaunchReady(s)
  BY <1>9, LaunchReadyHolds
<1>10. CASE LaunchCommits(s)
  BY <1>10, LaunchCommitsHolds
<1>11. CASE LaunchReconciles(s)
  BY <1>11, LaunchReconcilesHolds
<1>12. CASE LaunchFails(s)
  BY <1>12, LaunchFailsHolds
<1>13. CASE LaunchFailed(s)
  BY <1>13, LaunchFailedHolds
<1> QED BY <1>1, <1>2, <1>3, <1>4, <1>5, <1>6, <1>7, <1>8, <1>9, <1>10, <1>11, <1>12, <1>13
        DEF Launches

LEMMA NextHolds ==
  ASSUME ViewInv, [Next]_vars PROVE ViewInv'
<1>1. CASE UNCHANGED vars
  <2>1. /\ UNCHANGED <<job, rt, queue, turn, pumps, launches, calls, finishes, watchers, term,
                       worker, viewer, lost, past, used>>
    BY <1>1 DEF vars
  <2>2. Typed'
    BY <2>1 DEF ViewInv, Typed, RowTyped, LaunchTyped, TurnTyped, CallTyped, TermTyped, PastTyped
  <2>3. Apart
    BY <2>1 DEF Apart, Busy
  <2> QED BY <2>1, <2>2, <2>3, ApartHolds
<1>2. ASSUME NEW s \in Slots, Open(s) \/ Launches(s) PROVE ViewInv'
  BY <1>2, OpenHolds, LaunchHolds
<1>3. CASE Hide \/ DetachView
  BY <1>3, HideHolds, DetachViewHolds
<1>4. CASE Detaches
  BY <1>4, WatchEndsHolds, DetachExpectedHolds, FinishClosesHolds, FinishChecksHolds,
     FinishReturnsHolds DEF Detaches
<1>5. ASSUME NEW h \in 1..Viewers, ViewerConnects(h) \/ ViewerEnds(h) PROVE ViewInv'
  BY <1>5, WindowHolds
<1>6. ASSUME NEW g \in 1..Workers, WorkerDies(g) \/ WorkerExited(g) PROVE ViewInv'
  BY <1>6, WorkerDiesHolds, WorkerExitedHolds
<1>7. CASE Accept
  BY <1>7, AcceptHolds
<1>8. CASE Pump
  BY <1>8, PumpSkipsHolds, PumpPopsHolds, RunItemHolds, PumpFinishesHolds DEF Pump
<1>9. CASE Asks \/ Decided \/ PromptReturns
  BY <1>9, AsksHolds, DecidedHolds, PromptReturnsHolds
<1>10. CASE ConnectionLost \/ WorkersClosed \/ Disconnect
  BY <1>10, ConnectionLostHolds, WorkersClosedHolds, DisconnectHolds
<1>11. CASE Watchdog
  BY <1>11, WatchdogHolds
<1> QED BY <1>1, <1>2, <1>3, <1>4, <1>5, <1>6, <1>7, <1>8, <1>9, <1>10, <1>11
        DEF Next, Exits

\* The inductive invariant holds in every reachable state, whatever the bounds.
THEOREM ViewInvHolds == Spec => []ViewInv
<1>1. Init => ViewInv
  BY InitHolds
<1>2. ViewInv /\ [Next]_vars => ViewInv'
  BY NextHolds
<1> QED BY <1>1, <1>2, PTL DEF Spec

\* Every variable of the hand-over holds what the code can put there.
THEOREM ViewTypes == Spec => []TypeOK
<1>1. ViewInv => TypeOK
  <2> SUFFICES ASSUME ViewInv PROVE TypeOK
    OBVIOUS
  <2>1. Typed
    BY DEF ViewInv
  <2>2. lost.at \in {"no", "release", "job"}
    BY <2>1 DEF Typed, PastTyped, Loss
  <2> QED BY <2>1, <2>2 DEF TypeOK, Typed, RowTyped, LaunchTyped, TurnTyped, CallTyped, TermTyped,
             PastTyped, Past, Item, Turn, Call, Finish, Watcher, Term, Viewer
<1> QED BY <1>1, ViewInvHolds, PTL

\* However many calls open the view at once, one at a time is past launchTUI's test of
\* rt.attaching, and the flag says so (view.go:140-164).
THEOREM OneLaunchAttaches == Spec => []OneAttachAtATime
<1>1. ViewInv => OneAttachAtATime
  <2> SUFFICES ASSUME ViewInv PROVE OneAttachAtATime
    OBVIOUS
  <2>1. OneAttach
    BY DEF ViewInv, Launched
  <2>2. CASE Attaching = {}
    BY <2>1, <2>2, FS_EmptySet DEF OneAttach, OneAttachAtATime
  <2>3. ASSUME NEW s \in Attaching PROVE OneAttachAtATime
    <3>1. Attaching = {s} /\ rt.attaching
      BY <2>1, <2>3 DEF OneAttach
    <3> QED BY <3>1, FS_Singleton DEF OneAttachAtATime
  <2> QED BY <2>2, <2>3
<1> QED BY <1>1, ViewInvHolds, PTL

\* The runtime's terminal has a watcher of its own generation, and a job saved as headed
\* has one too or a call on its way, whatever order the calls, the detaches, the turns and
\* the ends of windows and workers come in (view.go:441), unless its launch was dropped.
THEOREM ShownIsWatched == Spec => []ViewIsWatched
<1>1. ViewInv => ViewIsWatched
  <2> SUFFICES ASSUME ViewInv PROVE ViewIsWatched
    OBVIOUS
  <2>1. rt.term # None => Watched
    BY DEF ViewInv, TerminalWatched
  <2>2. ASSUME job.view = "headed", ~Dropped
        PROVE  Watched \/ calls # {} \/ \E s \in Slots : launches[s] # Idle
    <3>1. Watched \/ CallComes \/ LaunchComes
      BY <2>2 DEF ViewInv, HeadedOk
    <3> QED BY <3>1 DEF CallComes, LaunchComes, Idle
  <2> QED BY <2>1, <2>2 DEF ViewIsWatched
<1> QED BY <1>1, ViewInvHolds, PTL

-----------------------------------------------------------------------------
(* The view settles.                                                       *)

HideCall == \E c \in calls : c.by = "hide" /\ c.key = rt.epoch
OtherCall == \E c \in calls : c.by # "hide"
ExitCall == \E c \in calls : c.by = "exit"
Finishing == \E f \in finishes : f.gen = rt.attachGen
Ran(g) == g \in 1..Workers /\ worker[g] # "unused"
\* A window that is closed, or will close because its worker is gone.
Spent(h) == viewer[h].at = "closed" \/ ~Alive(viewer[h].worker)

WindowsOk ==
    /\ \A h \in 1..Viewers : viewer[h].at \in {"opening", "ready"} => Ran(viewer[h].worker)
    /\ rt.term # None => viewer[rt.term].at # "unused"
\* The worker that the manager knows is the one whose exit the job waits for.
Matched == term.worker # None =>
               rt.workerGen = term.worker /\ worker[term.worker] \in {"alive", "dead"}
\* The end of the worker is still to be noticed, or somebody has noticed it and will
\* take the input from the TUI.
Covered == term.worker # None \/ ExitCall \/ (lost.at # "no" /\ lost.job)
Fit(s) ==
    launches[s].at # "idle" =>
        /\ launches[s].at \in HasWindow => viewer[launches[s].h].at # "unused"
        /\ launches[s].at = "existing" => viewer[launches[s].h].at \in {"ready", "closed"}
        /\ launches[s].at = "waiting" => rt.attaching
        /\ launches[s].owner # "handoff"
        /\ Current(launches[s].epoch) =>
              /\ launches[s].at = "failing" /\ launches[s].owner = "tui" => Covered
              /\ launches[s].at = "existing" => OtherCall \/ launches[s].h = rt.term
RowOk ==
    /\ rt.requested => job.desired = "headed" /\ job.view # "headless" /\ HeldByOwner
    /\ job.owner = "handoff" => job.view \in {"attaching", "detaching"}
    /\ ~rt.requested /\ job.view \in {"headed", "attaching"} => HideCall
    /\ ~rt.requested /\ job.view = "detaching" => HideCall \/ Finishing
BackOk == job.view = "headless" /\ job.owner = "tui" => Covered
\* Who will go on with a view that was asked for and is half way: the end of the turn, or
\* a launch, or whoever withdraws the request.
Deferred == IF job.view = "attaching" THEN Busy ELSE Dropped
Attended == Deferred \/ LaunchComes \/ OtherCall \/ (rt.term # None /\ Spent(rt.term))
HalfWay == job.view \in {"attaching", "detaching"} /\ rt.requested
ComesOk == HalfWay => Attended
Going == /\ WindowsOk /\ Matched /\ \A s \in Slots : Fit(s)
         /\ RowOk /\ BackOk /\ ComesOk

\* The view comes to rest, and so does the input, when nothing is left to do.
LEMMA GoingSettles == ViewInv /\ Going => (Quiet => Settled) /\ InputComesBack
<1> SUFFICES ASSUME ViewInv, Going, ~Working
             PROVE  Settled /\ (job.owner = "tui" /\ ~rt.requested => WorkerAlive)
  BY DEF Quiet, InputComesBack
<1>1. Typed /\ RowOk /\ BackOk /\ ComesOk /\ HeadedOk /\ Matched /\ WindowsOk
  BY DEF ViewInv, Going
<1>2. /\ calls = {} /\ finishes = {} /\ lost.at = "no"
      /\ \A s \in Slots : launches[s].at \in {"idle", "waiting"}
      /\ \A w \in watchers : viewer[w.h].at # "closed"
      /\ \A g \in 1..Workers : worker[g] # "dead"
      /\ \A h \in 1..Viewers : viewer[h].at \in {"opening", "ready"} => Alive(viewer[h].worker)
  BY DEF Working
<1>3. Attaching = {}
  BY <1>2 DEF Attaching
<1>4. ~rt.attaching
  BY <1>3 DEF ViewInv, Launched, OneAttach
<1>5. ASSUME NEW s \in Slots PROVE launches[s] = Idle
  <2>1. launches[s].at = "idle"
    BY <1>2, <1>4 DEF Going, Fit
  <2> QED BY <1>1, <2>1 DEF Typed, LaunchTyped, Launch, Launching
<1>6. ~CallComes /\ ~LaunchComes /\ ~HideCall /\ ~OtherCall /\ ~Finishing /\ ~ExitCall
  BY <1>2, <1>5 DEF CallComes, LaunchComes, HideCall, OtherCall, Finishing, ExitCall, Idle
<1>7. job.view = "headed" => (Dropped \/ Watched) /\ job.owner = "tui"
  BY <1>1, <1>6 DEF HeadedOk
<1>8. ~(rt.term # None /\ Spent(rt.term))
  <2> SUFFICES ASSUME rt.term # None, Spent(rt.term) PROVE FALSE
    OBVIOUS
  <2>1. rt.term \in 1..Viewers
    BY <1>1, Bounds DEF Typed, RowTyped, Runtime
  <2>2. viewer[rt.term].at # "closed"
    BY <1>2 DEF ViewInv, TerminalWatched, Watched
  <2>3. viewer[rt.term].at \in {"opening", "ready"}
    BY <1>1, <2>1, <2>2 DEF WindowsOk, Typed, TermTyped, Viewer
  <2> QED BY <1>2, <2>1, <2>2, <2>3 DEF Spent
<1>9. job.view = "attaching" => Busy /\ rt.requested
  BY <1>1, <1>6, <1>8 DEF RowOk, ComesOk, HalfWay, Attended, Deferred
<1>10. job.view = "headless" => ~rt.requested
  BY <1>1 DEF RowOk
<1>11. job.view = "detaching" => Dropped
  BY <1>1, <1>6, <1>8 DEF RowOk, ComesOk, HalfWay, Attended, Deferred
<1>13. job.owner = "handoff" => Dropped \/ (job.view = "attaching" /\ Busy)
  BY <1>1, <1>9, <1>11 DEF RowOk
<1>12. ASSUME job.owner = "tui", ~rt.requested PROVE WorkerAlive
  <2>1. job.view = "headless"
    BY <1>1, <1>6, <1>12 DEF RowOk, Typed, RowTyped, Job, ViewModes
  <2>2. term.worker # None
    BY <1>1, <1>2, <1>6, <1>12, <2>1 DEF BackOk, Covered
  <2>3. term.worker \in 1..Workers
    BY <1>1, <2>2, Bounds DEF Typed, TermTyped, Term, None
  <2> QED BY <1>1, <1>2, <2>2, <2>3 DEF Matched, WorkerAlive, Alive
<1> QED BY <1>5, <1>7, <1>9, <1>10, <1>11, <1>12, <1>13 DEF Settled

LEMMA InitGoes == Init => Going
<1> SUFFICES ASSUME Init PROVE Going
  OBVIOUS
<1>1. /\ job.view = "headless" /\ job.owner = "supervisor" /\ ~rt.requested
      /\ rt.term = None /\ term.worker = None
      /\ \A h \in 1..Viewers : viewer[h].at = "unused"
      /\ \A s \in Slots : launches[s].at = "idle"
  BY DEF Init, Idle
<1> QED BY <1>1 DEF Going, WindowsOk, Matched, Fit, RowOk, BackOk, ComesOk, HalfWay

\* Windows and processes only move on.
Onward ==
    /\ \A h \in 1..Viewers :
          \/ viewer'[h] = viewer[h]
          \/ viewer'[h].at = "closed"
          \/ /\ viewer[h].at = "opening" /\ viewer'[h].at = "ready"
             /\ viewer'[h].worker = viewer[h].worker
          \/ /\ viewer[h].at = "unused" /\ viewer'[h].at = "opening"
             /\ viewer'[h].worker \in 1..Workers /\ worker'[viewer'[h].worker] # "unused"
    /\ \A g \in 1..Workers : worker[g] # "unused" =>
          worker'[g] # "unused" /\ (worker'[g] = "alive" => worker[g] = "alive")

LEMMA WindowMoves ==
  ASSUME Typed, WindowsOk, Onward, NEW h \in 1..Viewers
  PROVE  /\ viewer'[h].at \in {"opening", "ready"} =>
               viewer'[h].worker \in 1..Workers /\ worker'[viewer'[h].worker] # "unused"
         /\ viewer[h].at # "unused" => viewer'[h].at # "unused" /\ (Spent(h) => Spent(h)')
         /\ viewer[h].at \in {"ready", "closed"} => viewer'[h].at \in {"ready", "closed"}
<1>1. viewer[h].at \in {"opening", "ready"} => Ran(viewer[h].worker)
  BY DEF WindowsOk
<1>2. viewer[h] \in Viewer
  BY DEF Typed, TermTyped
<1>3. CASE viewer'[h] = viewer[h]
  BY <1>1, <1>2, <1>3 DEF Onward, Ran, Spent, Alive, Viewer
<1>4. CASE viewer'[h].at = "closed"
  BY <1>4 DEF Spent
<1>5. CASE /\ viewer[h].at = "opening" /\ viewer'[h].at = "ready"
           /\ viewer'[h].worker = viewer[h].worker
  BY <1>1, <1>2, <1>5 DEF Onward, Ran, Spent, Alive
<1>6. CASE /\ viewer[h].at = "unused" /\ viewer'[h].at = "opening"
           /\ viewer'[h].worker \in 1..Workers /\ worker'[viewer'[h].worker] # "unused"
  BY <1>6
<1> QED BY <1>3, <1>4, <1>5, <1>6 DEF Onward

LEMMA WindowsKeep ==
  ASSUME Typed, WindowsOk, Onward,
         rt'.term # None => rt'.term \in 1..Viewers /\ viewer[rt'.term].at # "unused"
  PROVE  WindowsOk'
<1>1. rt'.term # None => viewer'[rt'.term].at # "unused"
  BY WindowMoves
<1>2. \A h \in 1..Viewers : viewer'[h].at \in {"opening", "ready"} =>
         viewer'[h].worker \in 1..Workers /\ worker'[viewer'[h].worker] # "unused"
  BY WindowMoves
<1> QED BY <1>1, <1>2 DEF WindowsOk, Ran

LEMMA ClosedOnward ==
  ASSUME Typed, NEW h \in Handles, viewer' = Closed(h) \/ viewer' = viewer, UNCHANGED worker
  PROVE  Onward
<1>1. \A k \in 1..Viewers : viewer'[k] = viewer[k] \/ viewer'[k].at = "closed"
  BY DEF Closed, Typed, TermTyped, Viewer
<1> QED BY <1>1 DEF Onward

LEMMA MatchedKeeps ==
  ASSUME Matched, term'.worker = term.worker, UNCHANGED worker,
         rt'.workerGen = rt.workerGen \/ rt'.workerGen = term.worker
  PROVE  Matched'
BY DEF Matched

\* A launch that waits, or has not begun, has nothing that another could spoil.
LEMMA WaitsFit ==
  ASSUME Typed, NEW t \in Slots, Fit(t), launches[t].at \in Waits,
         \/ launches'[t] = launches[t]
         \/ launches[t].at = "waiting" /\ launches'[t] = [launches[t] EXCEPT !.at = "woken"],
         launches'[t].at = "waiting" => rt'.attaching
  PROVE  Fit(t)'
<1>1. launches[t] \in Launch
  BY DEF Typed, LaunchTyped
<1>2. CASE launches'[t] = launches[t]
  BY <1>2 DEF Fit, Waits, HasWindow
<1>3. CASE launches[t].at = "waiting" /\ launches'[t] = [launches[t] EXCEPT !.at = "woken"]
  <2>1. launches[t] \in LaunchRec
    BY <1>1, <1>3 DEF Launch, LaunchRec, Idle
  <2>2. launches'[t].at = "woken" /\ launches'[t].owner = launches[t].owner
    BY <1>3, <2>1 DEF LaunchRec
  <2> QED BY <1>3, <2>2 DEF Fit, HasWindow
<1> QED BY <1>2, <1>3

\* What the others know stays so as long as the request is the same.
Steady ==
    /\ Onward /\ rt'.epoch \in Nat /\ rt.epoch <= rt'.epoch
    /\ rt'.requested /\ rt'.epoch = rt.epoch =>
          /\ rt.requested /\ (Covered => Covered') /\ (OtherCall => OtherCall')
          /\ OtherCall' \/ rt'.term = rt.term
LEMMA FitKeeps ==
  ASSUME ViewInv, WindowsOk, NEW t \in Slots, Fit(t), Steady, launches'[t] = launches[t],
         launches[t].at = "waiting" => rt'.attaching
  PROVE  Fit(t)'
<1> SUFFICES ASSUME launches[t].at # "idle" PROVE Fit(t)'
  BY DEF Fit
<1> DEFINE l == launches[t]
<1>1. l \in LaunchRec /\ rt.epoch \in Nat /\ Typed
  BY DEF ViewInv, Typed, RowTyped, Runtime, LaunchTyped, Launch, LaunchRec, Idle
<1>2. l.epoch \in Nat /\ l.epoch <= rt.epoch /\ (l.at \in HasWindow => l.h \in 1..Viewers)
  BY <1>1, Bounds DEF ViewInv, Launched, LaunchOk, LaunchRec
<1>3. /\ l.at \in HasWindow => viewer'[l.h].at # "unused"
      /\ l.at = "existing" => viewer'[l.h].at \in {"ready", "closed"}
  BY <1>1, <1>2, WindowMoves DEF Fit, Steady, HasWindow
<1>4. rt'.requested /\ rt'.epoch = l.epoch =>
         /\ Current(l.epoch) /\ (Covered => Covered') /\ (OtherCall => OtherCall')
         /\ OtherCall' \/ rt'.term = rt.term
  BY <1>1, <1>2 DEF Steady, Current
<1>5. rt'.requested /\ rt'.epoch = l.epoch =>
         /\ l.at = "failing" /\ l.owner = "tui" => Covered'
         /\ l.at = "existing" => OtherCall' \/ l.h = rt'.term
  BY <1>4 DEF Fit
<1> QED BY <1>3, <1>5 DEF Fit, Current

\* A step that leaves the row and the request as they are.
Along ==
    /\ job'.view = job.view /\ job'.owner = job.owner /\ job'.desired = job.desired
    /\ rt'.requested = rt.requested /\ rt'.epoch = rt.epoch /\ rt'.term = rt.term
    /\ rt'.attachGen = rt.attachGen
    /\ (HideCall => HideCall') /\ (OtherCall => OtherCall')
    /\ ~rt.requested /\ Finishing => Finishing'
    /\ Dropped => Dropped'
    /\ Onward /\ (HeldByOwner /\ Covered => Covered') /\ Matched'

LEMMA AlongSteady ==
  ASSUME ViewInv, Going, Along PROVE Steady
<1>1. rt.epoch \in Nat
  BY DEF ViewInv, Typed, RowTyped, Runtime
<1> QED BY <1>1 DEF Steady, Along, Going, RowOk

LEMMA TermShown ==
  ASSUME ViewInv, Going, rt.term # None
  PROVE  rt.term \in 1..Viewers /\ viewer[rt.term].at # "unused"
BY Bounds DEF ViewInv, Typed, RowTyped, Runtime, Going, WindowsOk

LEMMA AlongHolds ==
  ASSUME ViewInv, Going, Along, \A s \in Slots : Fit(s)',
         HalfWay /\ ((job.view = "attaching" /\ Busy) \/ LaunchComes) => Attended'
  PROVE  Going'
<1>1. Typed /\ WindowsOk /\ RowOk /\ BackOk /\ ComesOk
  BY DEF ViewInv, Going
<1>2. rt.term # None => rt.term \in 1..Viewers /\ viewer[rt.term].at # "unused"
  BY TermShown
<1>3. WindowsOk'
  BY <1>1, <1>2, WindowsKeep DEF Along
<1>4. RowOk'
  BY <1>1 DEF RowOk, HeldByOwner, Along
<1>5. BackOk'
  BY <1>1 DEF BackOk, HeldByOwner, Along
<1>6. rt.term # None /\ Spent(rt.term) => rt'.term # None /\ Spent(rt.term)'
  BY <1>1, <1>2, WindowMoves DEF Along
<1>7. ComesOk'
  <2> SUFFICES ASSUME HalfWay PROVE Attended'
    BY DEF ComesOk, HalfWay, Along
  <2>1. CASE (job.view = "attaching" /\ Busy) \/ LaunchComes
    BY <2>1
  <2>4. CASE job.view # "attaching" /\ Dropped
    BY <2>4 DEF Attended, Deferred, Along
  <2>2. CASE OtherCall
    BY <2>2 DEF Attended, Along
  <2>3. CASE rt.term # None /\ Spent(rt.term)
    BY <1>6, <2>3 DEF Attended
  <2> QED BY <1>1, <2>1, <2>2, <2>3, <2>4 DEF ComesOk, HalfWay, Attended, Deferred
<1> QED BY <1>3, <1>4, <1>5, <1>7 DEF Going, Along

\* A step of somebody else than the launches.
LEMMA AsideHolds ==
  ASSUME ViewInv, Going, Along, UNCHANGED launches, rt'.attaching = rt.attaching,
         Busy => Busy'
  PROVE  Going'
<1>1. Steady
  BY AlongSteady
<1>2. \A s \in Slots : launches[s].at = "waiting" => rt'.attaching
  BY DEF Going, Fit
<1>3. \A s \in Slots : Fit(s)'
  BY <1>1, <1>2, FitKeeps DEF Going
<1>4. LaunchComes => LaunchComes'
  BY DEF LaunchComes, Current, Along
<1>5. job.view = "attaching" /\ Busy => Deferred'
  BY DEF Deferred, Along
<1> QED BY <1>3, <1>4, <1>5, AlongHolds DEF Attended

\* One launch is past the door: the others wait or have not begun.
LEMMA OthersWait ==
  ASSUME ViewInv, NEW s \in Slots, launches[s].at \notin Waits, NEW t \in Slots, t # s
  PROVE  launches[t].at \in Waits
BY DEF ViewInv, Launched, OneAttach, Attaching, Waits

LEMMA OthersFit ==
  ASSUME ViewInv, Going, NEW s \in Slots, launches[s].at \notin Waits, Others(s),
         \A t \in Slots \ {s} : launches'[t].at = "waiting" => rt'.attaching
  PROVE  \A t \in Slots \ {s} : Fit(t)'
<1> TAKE t \in Slots \ {s}
<1>1. launches[t].at \in Waits
  BY OthersWait
<1>2. Typed /\ Fit(t)
  BY DEF ViewInv, Going
<1> QED BY <1>1, <1>2, WaitsFit DEF Others

\* A step of a launch that has taken the flag, after which the launch is still the current
\* one, or was not, or the view is not half way or attended to by somebody else.
LEMMA LaunchSteps ==
  ASSUME ViewInv, Going, Along, NEW s \in Slots, launches[s].at \notin Waits, Others(s),
         Fit(s)', Busy => Busy',
         \A t \in Slots \ {s} : launches'[t].at = "waiting" => rt'.attaching,
         \/ launches'[s].at # "idle" /\ launches'[s].epoch = launches[s].epoch
         \/ ~Current(launches[s].epoch)
         \/ HalfWay => Attended'
  PROVE  Going'
<1>1. \A t \in Slots : Fit(t)'
  BY OthersFit
<1>2. Steady /\ Typed /\ Launched
  BY AlongSteady DEF ViewInv
<1>3. HalfWay /\ LaunchComes => Attended'
  <2>1. CASE \/ launches'[s].at # "idle" /\ launches'[s].epoch = launches[s].epoch
             \/ ~Current(launches[s].epoch)
    <3>1. \A t \in Slots \ {s} : /\ launches'[t].at = "idle" <=> launches[t].at = "idle"
                                 /\ launches'[t].epoch = launches[t].epoch
      <4> TAKE t \in Slots \ {s}
      <4>1. launches[t] \in Launch
        BY <1>2 DEF Typed, LaunchTyped
      <4>2. CASE launches'[t] = launches[t]
        BY <4>2
      <4>3. CASE launches[t].at = "waiting" /\ launches'[t] = [launches[t] EXCEPT !.at = "woken"]
        <5>1. launches[t] \in LaunchRec
          BY <4>1, <4>3 DEF Launch, LaunchRec, Idle
        <5> QED BY <4>3, <5>1 DEF LaunchRec
      <4> QED BY <4>2, <4>3 DEF Others
    <3>2. LaunchComes => LaunchComes'
      BY <2>1, <3>1 DEF LaunchComes, Current, Along
    <3> QED BY <3>2 DEF Attended
  <2>2. CASE HalfWay => Attended'
    BY <2>2
  <2> QED BY <2>1, <2>2
<1>4. job.view = "attaching" /\ Busy => Deferred'
  BY DEF Deferred, Along
<1> QED BY <1>1, <1>3, <1>4, AlongHolds DEF Attended

\* The launches that waited for this one are woken.
LEMMA EndsWakes ==
  ASSUME LaunchTyped, NEW s \in Slots, LaunchEnds(s)
  PROVE  \A t \in Slots \ {s} : launches'[t].at # "waiting"
<1> TAKE t \in Slots \ {s}
<1>1. launches[t] \in Launch
  BY DEF LaunchTyped
<1>2. CASE launches[t].at = "waiting"
  <2>1. launches[t] \in LaunchRec
    BY <1>1, <1>2 DEF Launch, LaunchRec, Idle
  <2> QED BY <1>2, <2>1 DEF LaunchEnds, LaunchRec
<1> QED BY <1>2 DEF LaunchEnds

\* A launch that ends and leaves the row alone.
LEMMA LaunchLeaves ==
  ASSUME ViewInv, Going, Along, NEW s \in Slots, launches[s].at \notin Waits, LaunchEnds(s),
         Busy => Busy',
         \/ ~Current(launches[s].epoch)
         \/ HalfWay => Attended'
  PROVE  Going'
<1>1. LaunchTyped /\ pumps \in Nat
  BY TypedParts DEF ViewInv
<1>2. Others(s) /\ launches'[s].at = "idle"
  BY <1>1, LaunchesEnd DEF Idle
<1>3. Fit(s)'
  BY <1>2 DEF Fit
<1>4. \A t \in Slots \ {s} : launches'[t].at # "waiting"
  BY <1>1, EndsWakes
<1> QED BY <1>2, <1>3, <1>4, LaunchSteps

\* A launch that goes on to its next section.
LEMMA ToKeeps ==
  ASSUME LaunchTyped, NEW s \in Slots, launches[s].at # "idle", NEW at \in Launching, To(s, at)
  PROVE  launches'[s].owner = launches[s].owner
<1>1. launches[s] \in LaunchRec
  BY DEF LaunchTyped, Launch, LaunchRec, Idle
<1> QED BY <1>1 DEF To, LaunchTyped, LaunchRec
LEMMA ToWithKeeps ==
  ASSUME LaunchTyped, NEW s \in Slots, launches[s].at # "idle", NEW at \in Launching,
         NEW h \in Handles, ToWith(s, at, h)
  PROVE  launches'[s].owner = launches[s].owner
<1>1. launches[s] \in LaunchRec
  BY DEF LaunchTyped, Launch, LaunchRec, Idle
<1> QED BY <1>1 DEF ToWith, LaunchTyped, LaunchRec

LEMMA LaunchTurns ==
  ASSUME ViewInv, Going, Along, NEW s \in Slots, launches[s].at \notin Waits,
         NEW at \in Launching \ {"existing", "waiting", "failing"}, To(s, at),
         at \in HasWindow => launches[s].at \in HasWindow,
         rt'.attaching = rt.attaching, Busy => Busy'
  PROVE  Going'
<1>1. Typed /\ LaunchTyped /\ WindowsOk /\ Onward /\ launches[s].at # "idle" /\ Fit(s)
  BY TypedParts DEF ViewInv, Going, Along, Waits
<1>2. /\ Others(s) /\ launches'[s].at = at /\ launches'[s].epoch = launches[s].epoch
      /\ launches'[s].h = launches[s].h /\ launches'[s].owner = launches[s].owner
  BY <1>1, LaunchTo, ToKeeps
<1>3. launches[s].at \in HasWindow => launches[s].h \in 1..Viewers
  <2>1. launches[s] \in LaunchRec
    BY <1>1 DEF LaunchTyped, Launch, LaunchRec, Idle
  <2> QED BY <1>1, <2>1, Bounds DEF ViewInv, Launched, LaunchOk, LaunchRec
<1>4. at \in HasWindow => viewer'[launches[s].h].at # "unused"
  BY <1>1, <1>3, WindowMoves DEF Fit
<1>5. Fit(s)'
  BY <1>1, <1>2, <1>4 DEF Fit
<1>6. \A t \in Slots \ {s} : launches'[t].at = "waiting" => rt'.attaching
  <2>1. s \in Attaching
    BY DEF Attaching, Waits
  <2> QED BY <2>1 DEF ViewInv, Launched, OneAttach
<1>7. launches'[s].at # "idle"
  BY <1>2 DEF Launching
<1> QED BY <1>2, <1>5, <1>6, <1>7, LaunchSteps

\* The user's view calls.
LEMMA OpenGoes ==
  ASSUME ViewInv, ViewInv', Going, NEW s \in Slots, Open(s) PROVE Going'
<1> DEFINE n == NewLaunch(rt.epoch + 1, FALSE)
           v == IF job.view = "headless" THEN "attaching" ELSE job.view
           o == IF job.owner = "supervisor" THEN "handoff" ELSE job.owner
<1>1. /\ Typed /\ launches[s] = Idle /\ job \in Job /\ rt \in Runtime /\ LaunchTyped
      /\ WindowsOk /\ Matched /\ RowOk /\ BackOk /\ HeadedOk
      /\ rt' = [rt EXCEPT !.requested = TRUE, !.epoch = rt.epoch + 1]
      /\ SaveView(v, "headed", o)
      /\ launches' = [launches EXCEPT ![s] = n]
      /\ UNCHANGED <<queue, turn, pumps, past, term, worker, viewer, calls, finishes, watchers, lost>>
  BY DEF ViewInv, Typed, RowTyped, Open, scheduler, terminals, Going
<1>2. /\ v \in ViewModes /\ o \in Owners /\ v # "headless" /\ o \in {"tui", "handoff"}
      /\ o = "handoff" => v \in {"attaching", "detaching"}
  BY <1>1 DEF Job, ViewModes, Owners, RowOk, HeadedOk
<1> HIDE DEF v, o
<1>3. job' \in Job /\ job'.view = v /\ job'.owner = o /\ job'.desired = "headed"
  BY <1>1, <1>2, SaveViewTyped
<1>4. rt.epoch \in Nat /\ rt.epoch + 1 \in Nat
  BY <1>1 DEF Runtime
<1>5. /\ rt'.requested /\ rt'.epoch = rt.epoch + 1 /\ rt'.term = rt.term
      /\ rt'.attaching = rt.attaching /\ rt'.workerGen = rt.workerGen
  BY <1>1, <1>4 DEF Runtime
<1>6. n \in Launch /\ n.at = "start" /\ n.epoch = rt.epoch + 1 /\ n.owner = "supervisor"
  BY <1>4, NewLaunchTyped DEF NewLaunch
<1> HIDE DEF n
<1>7. launches'[s] = n /\ \A t \in Slots \ {s} : launches'[t] = launches[t]
  BY <1>1 DEF LaunchTyped
<1>8. Onward
  BY <1>1 DEF Onward
<1>9. WindowsOk'
  BY <1>1, <1>5, <1>8, WindowsKeep, TermShown
<1>10. Matched'
  BY <1>1, <1>5, MatchedKeeps
<1>11. Steady
  BY <1>4, <1>5, <1>8 DEF Steady
<1>12. \A t \in Slots : Fit(t)'
  <2> TAKE t \in Slots
  <2>1. CASE t = s
    BY <1>6, <1>7, <2>1 DEF Fit, HasWindow
  <2>2. CASE t # s
    BY <1>1, <1>5, <1>7, <1>11, <2>2, FitKeeps DEF Going, Fit
  <2> QED BY <2>1, <2>2
<1>13. RowOk'
  BY <1>2, <1>3, <1>5 DEF RowOk, HeldByOwner
<1>14. BackOk'
  BY <1>2, <1>3 DEF BackOk
<1>15. ComesOk'
  BY <1>5, <1>6, <1>7 DEF ComesOk, HalfWay, Attended, LaunchComes, Current
<1> QED BY <1>9, <1>10, <1>12, <1>13, <1>14, <1>15 DEF Going

\* A step that withdraws the request: nobody has to attach any more.
Withdraws ==
    /\ ~rt'.requested /\ rt'.epoch \in Nat /\ rt.epoch <= rt'.epoch
    /\ rt'.attaching = rt.attaching /\ Onward /\ rt'.term \in {rt.term, None}
    /\ UNCHANGED launches
LEMMA WithdrawsHolds ==
  ASSUME ViewInv, Going, Withdraws, Matched', RowOk', BackOk' PROVE Going'
<1>1. Typed /\ WindowsOk
  BY DEF ViewInv, Going
<1>2. WindowsOk'
  BY <1>1, WindowsKeep, TermShown DEF Withdraws
<1>3. Steady
  BY DEF Steady, Withdraws
<1>4. \A s \in Slots : Fit(s)'
  BY <1>1, <1>3, FitKeeps DEF Going, Fit, Withdraws
<1>5. ComesOk'
  BY DEF ComesOk, HalfWay, Withdraws
<1> QED BY <1>2, <1>4, <1>5 DEF Going

LEMMA HideGoes ==
  ASSUME ViewInv, ViewInv', Going, Hide PROVE Going'
<1> DEFINE c == [by |-> "hide", key |-> rt.epoch + 1]
<1>1. /\ job \in Job /\ rt \in Runtime /\ Typed /\ Matched /\ RowOk /\ BackOk
      /\ rt' = [rt EXCEPT !.requested = FALSE, !.epoch = rt.epoch + 1]
      /\ job' = [job EXCEPT !.desired = "headless"]
      /\ calls' = calls \cup {c}
      /\ UNCHANGED <<term, worker, viewer, launches, finishes, watchers, lost>>
  BY DEF ViewInv, Typed, RowTyped, Hide, scheduler, terminals, Going
<1>2. /\ ~rt'.requested /\ rt'.epoch = rt.epoch + 1 /\ rt'.epoch \in Nat /\ rt.epoch <= rt'.epoch
      /\ rt'.attaching = rt.attaching /\ rt'.term = rt.term /\ rt'.workerGen = rt.workerGen
  BY <1>1 DEF Runtime
<1>3. job'.view = job.view /\ job'.owner = job.owner
  BY <1>1 DEF Job
<1>4. c.by = "hide" /\ c.key = rt'.epoch
  BY <1>2
<1> HIDE DEF c
<1>5. Onward
  BY <1>1 DEF Onward
<1>6. Withdraws
  BY <1>1, <1>2, <1>5 DEF Withdraws
<1>7. Matched'
  BY <1>1, <1>2, MatchedKeeps
<1>8. HideCall'
  BY <1>1, <1>4 DEF HideCall
<1>9. RowOk'
  BY <1>1, <1>2, <1>3, <1>8 DEF RowOk
<1>10. BackOk'
  BY <1>1, <1>3 DEF BackOk, Covered, ExitCall
<1> QED BY <1>6, <1>7, <1>9, <1>10, WithdrawsHolds

LEMMA DetachViewGoes ==
  ASSUME ViewInv, ViewInv', Going, DetachView PROVE Going'
<1>1. /\ calls \subseteq calls' /\ Typed /\ Matched
      /\ UNCHANGED <<job, rt, queue, turn, pumps, past, term, worker, viewer, launches,
                     finishes, watchers, lost>>
  BY DEF ViewInv, DetachView, scheduler, terminals, Going
<1>2. Onward
  BY <1>1 DEF Onward
<1>3. Matched'
  BY <1>1, MatchedKeeps
<1>4. Along
  BY <1>1, <1>2, <1>3 DEF Along, Dropped, HideCall, OtherCall, Finishing, Covered, ExitCall
<1> QED BY <1>1, <1>4, AsideHolds DEF Busy

\* launchTUI.
\* What every section leaves alone: calls, detaches, and whether a turn runs.
LEMMA RestAlong ==
  ASSUME Going, UNCHANGED <<calls, finishes, lost>>, Onward, Matched',
         term'.worker = term.worker \/ term'.worker # None,
         rt'.requested = rt.requested, rt'.epoch = rt.epoch, rt'.term = rt.term,
         rt'.attachGen = rt.attachGen,
         job'.view = job.view, job'.owner = job.owner, job'.desired = job.desired,
         past'.dropped \in {past.dropped, rt.epoch}
  PROVE  Along
BY DEF Along, Dropped, HideCall, OtherCall, Finishing, Covered, ExitCall

LEMMA NothingMoves ==
  ASSUME Typed, UNCHANGED <<viewer, worker>> PROVE Onward
BY DEF Onward

LEMMA LaunchBeginsGoes ==
  ASSUME ViewInv, ViewInv', Going, NEW s \in Slots, LaunchBegins(s) PROVE Going'
<1>1. /\ Typed /\ launches[s].at = "start" /\ LaunchTyped /\ rt \in Runtime /\ Matched
      /\ RowOk /\ BackOk /\ WindowsOk /\ Fit(s)
      /\ UNCHANGED <<job, queue, turn, past, term, worker, viewer, watchers, calls, finishes, lost>>
  BY TypedParts DEF ViewInv, LaunchBegins, NoNews, terminals, Going
<1>2. Onward
  BY <1>1, NothingMoves
<1>3. ASSUME rt'.workerGen = rt.workerGen PROVE Matched'
  BY <1>1, <1>3, MatchedKeeps
<1>4. ASSUME UNCHANGED rt, launches'[s].at = "idle" \/ launches'[s].epoch = launches[s].epoch,
             launches'[s].at # "idle" \/ ~Current(launches[s].epoch), Fit(s)',
             \A t \in Slots \ {s} : launches'[t] = launches[t]
      PROVE  Going'
  <2>1. Along
    BY <1>1, <1>2, <1>3, <1>4, RestAlong
  <2>2. Steady
    BY <2>1, AlongSteady
  <2>3. \A t \in Slots : Fit(t)'
    <3> TAKE t \in Slots
    <3>1. CASE t = s
      BY <1>4, <3>1
    <3>2. CASE t # s
      BY <1>1, <1>4, <2>2, <3>2, FitKeeps DEF Going, Fit
    <3> QED BY <3>1, <3>2
  <2>4. LaunchComes => LaunchComes'
    BY <1>1, <1>4 DEF LaunchComes, Current
  <2>5. Busy => Busy'
    BY <1>1 DEF Busy
  <2>6. job.view = "attaching" /\ Busy => Deferred'
    BY <1>1, <2>5 DEF Deferred
  <2> QED BY <2>1, <2>3, <2>4, <2>6, AlongHolds DEF Attended
<1>5. CASE /\ ~Current(launches[s].epoch)
           /\ launches' = [launches EXCEPT ![s] = Idle] /\ UNCHANGED rt
  <2>1. launches'[s].at = "idle" /\ \A t \in Slots \ {s} : launches'[t] = launches[t]
    BY <1>1, <1>5 DEF LaunchTyped, Idle
  <2>2. Fit(s)'
    BY <2>1 DEF Fit
  <2> QED BY <1>4, <1>5, <2>1, <2>2
<1>6. CASE rt.attaching /\ To(s, "waiting") /\ UNCHANGED rt
  <2>1. "waiting" \in Launching
    BY DEF Launching
  <2>2. /\ launches'[s].at = "waiting" /\ launches'[s].epoch = launches[s].epoch
        /\ launches'[s].owner = launches[s].owner
    BY <1>1, <1>6, <2>1, LaunchTo, ToKeeps
  <2>3. \A t \in Slots \ {s} : launches'[t] = launches[t]
    BY <1>6 DEF To, LaunchTyped, Typed
  <2>4. Fit(s)'
    BY <1>1, <1>6, <2>2 DEF Fit, HasWindow
  <2> QED BY <1>4, <1>6, <2>2, <2>3, <2>4
<1>7. CASE /\ Current(launches[s].epoch) /\ ~rt.attaching
           /\ rt' = [rt EXCEPT !.attaching = TRUE,
                               !.term = IF HandleAlive(rt.term) THEN rt.term ELSE None]
           /\ IF HandleAlive(rt.term) THEN ToWith(s, "existing", rt.term)
                                      ELSE To(s, "choose")
  <2>1. "existing" \in Launching /\ "choose" \in Launching /\ rt.term \in Handles
    BY <1>1 DEF Launching, Runtime
  <2>2. /\ rt'.attaching /\ rt'.epoch = rt.epoch /\ rt'.requested = rt.requested
        /\ rt'.attachGen = rt.attachGen /\ rt'.workerGen = rt.workerGen
        /\ rt'.term = IF HandleAlive(rt.term) THEN rt.term ELSE None
    BY <1>1, <1>7 DEF Runtime
  <2>3. /\ Others(s) /\ launches'[s].epoch = launches[s].epoch
        /\ launches'[s].owner = launches[s].owner
        /\ launches'[s].at = IF HandleAlive(rt.term) THEN "existing" ELSE "choose"
        /\ HandleAlive(rt.term) => launches'[s].h = rt.term
    BY <1>1, <1>7, <2>1, LaunchTo, LaunchToWith, ToKeeps, ToWithKeeps
  <2>4. HandleAlive(rt.term) => viewer[rt.term].at = "ready" /\ rt'.term = rt.term
    BY <2>2 DEF HandleAlive
  <2>5. Fit(s)'
    BY <1>1, <2>2, <2>3, <2>4 DEF Fit, HasWindow
  <2>6. \A t \in Slots : Fit(t)'
    <3> TAKE t \in Slots
    <3>1. Attaching = {}
      BY <1>7 DEF ViewInv, Launched, OneAttach
    <3>2. launches[t].at \in Waits
      BY <3>1 DEF Attaching, Waits
    <3> QED BY <1>1, <2>2, <2>3, <2>5, <3>2, WaitsFit DEF Going, Others
  <2>7. Matched'
    BY <1>3, <2>2
  <2>8. WindowsOk'
    BY <1>1, <1>2, <2>2, WindowsKeep, TermShown
  <2>9. LaunchComes'
    BY <1>7, <2>2, <2>3 DEF LaunchComes, Current
  <2>10. ComesOk'
    BY <2>9 DEF ComesOk, HalfWay, Attended
  <2>11. RowOk'
    BY <1>1, <2>2 DEF RowOk, HideCall, Finishing, HeldByOwner
  <2>12. BackOk'
    BY <1>1 DEF BackOk, Covered, ExitCall
  <2> QED BY <2>6, <2>7, <2>8, <2>10, <2>11, <2>12 DEF Going
<1> QED BY <1>5, <1>6, <1>7 DEF LaunchBegins, AttachTaken

LEMMA LaunchRetriesGoes ==
  ASSUME ViewInv, ViewInv', Going, NEW s \in Slots, LaunchRetries(s) PROVE Going'
<1>1. /\ Typed /\ launches[s].at = "woken" /\ LaunchTyped /\ Matched /\ Fit(s) /\ WindowsOk
      /\ launches' = [launches EXCEPT ![s].at = "start", ![s].hold = Held]
      /\ UNCHANGED <<job, rt, turn, past, term, worker, viewer, watchers, calls, finishes, lost>>
  BY TypedParts DEF ViewInv, LaunchRetries, NoNews, terminals, scheduler, Going
<1>2. Onward /\ Matched'
  BY <1>1, NothingMoves, MatchedKeeps
<1>3. Along
  BY <1>1, <1>2, RestAlong
<1>4. launches[s] \in LaunchRec
  BY <1>1 DEF LaunchTyped, Launch, LaunchRec, Idle
<1>5. /\ launches'[s].at = "start" /\ launches'[s].epoch = launches[s].epoch
      /\ launches'[s].owner = launches[s].owner
      /\ \A t \in Slots \ {s} : launches'[t] = launches[t]
  BY <1>1, <1>4 DEF LaunchTyped, LaunchRec
<1>6. Steady
  BY <1>3, AlongSteady
<1>7. \A t \in Slots : Fit(t)'
  <2> TAKE t \in Slots
  <2>1. CASE t = s
    BY <1>1, <1>5, <2>1 DEF Fit, HasWindow
  <2>2. CASE t # s
    BY <1>1, <1>5, <1>6, <2>2, FitKeeps DEF Going, Fit
  <2> QED BY <2>1, <2>2
<1>8. LaunchComes => LaunchComes'
  BY <1>1, <1>5 DEF LaunchComes, Current
<1>9. job.view = "attaching" /\ Busy => Deferred'
  BY <1>1 DEF Busy, Deferred
<1> QED BY <1>3, <1>7, <1>8, <1>9, AlongHolds DEF Attended

\* A launch marks the view headed, and has asked for it.
LEMMA HeadedGoes ==
  ASSUME ViewInv, ViewInv', Going, NEW s \in Slots, launches[s].at \notin Waits, LaunchEnds(s),
         Headed, rt.requested, rt'.requested, UNCHANGED <<calls, finishes, lost>>,
         WindowsOk', Matched'
  PROVE  Going'
<1>1. LaunchTyped /\ pumps \in Nat /\ job \in Job
  BY TypedParts DEF ViewInv
<1>2. Others(s) /\ launches'[s].at = "idle"
  BY <1>1, LaunchesEnd DEF Idle
<1>3. \A t \in Slots \ {s} : launches'[t].at # "waiting"
  BY <1>1, EndsWakes
<1>4. \A t \in Slots : Fit(t)'
  BY <1>2, <1>3, OthersFit DEF Fit
<1>5. "headed" \in ViewModes /\ "tui" \in Owners
  BY DEF ViewModes, Owners
<1>6. job'.view = "headed" /\ job'.owner = "tui" /\ job'.desired = "headed"
  BY <1>1, <1>5, SaveViewTyped DEF Headed
<1>7. RowOk' /\ BackOk' /\ ComesOk'
  BY <1>6 DEF RowOk, BackOk, ComesOk, HalfWay, HeldByOwner
<1> QED BY <1>4, <1>7 DEF Going

LEMMA LaunchFocusesGoes ==
  ASSUME ViewInv, ViewInv', Going, NEW s \in Slots, LaunchFocuses(s) PROVE Going'
<1> DEFINE h == launches[s].h
<1>1. /\ Typed /\ launches[s].at = "existing" /\ LaunchTyped /\ rt \in Runtime /\ Matched
      /\ LaunchEnds(s) /\ Fit(s) /\ WindowsOk
      /\ UNCHANGED <<queue, turn, past, term, worker, viewer, watchers, calls, finishes, lost>>
  BY TypedParts DEF ViewInv, LaunchFocuses, NoNews, terminals, Going
<1>2. Onward /\ launches[s].at \notin Waits
  BY <1>1, NothingMoves DEF Waits
<1>3. CASE /\ Current(launches[s].epoch) /\ Headed
           /\ rt' = [rt EXCEPT !.attaching = FALSE, !.workerGen = term.worker]
  <2>1. /\ rt'.requested = rt.requested /\ rt'.term = rt.term /\ rt'.workerGen = term.worker
    BY <1>1, <1>3 DEF Runtime, Typed, TermTyped, Term
  <2>2. Matched' /\ WindowsOk'
    BY <1>1, <1>2, <2>1, MatchedKeeps, WindowsKeep, TermShown
  <2> QED BY <1>1, <1>2, <1>3, <2>1, <2>2, HeadedGoes DEF Current
<1>4. CASE /\ ~(HeadedReady(h) /\ Current(launches[s].epoch))
           /\ rt' = [rt EXCEPT !.attaching = FALSE] /\ UNCHANGED job
  <2>1. /\ rt'.requested = rt.requested /\ rt'.epoch = rt.epoch /\ rt'.term = rt.term
        /\ rt'.attachGen = rt.attachGen /\ rt'.workerGen = rt.workerGen
    BY <1>1, <1>4 DEF Runtime
  <2>2. Matched'
    BY <1>1, <2>1, MatchedKeeps
  <2>3. Along
    BY <1>1, <1>2, <1>4, <2>1, <2>2, RestAlong
  <2>4. ASSUME Current(launches[s].epoch) PROVE Attended'
    <3>1. OtherCall \/ (h = rt.term /\ viewer[h].at \in {"ready", "closed"})
      BY <1>1, <2>4 DEF Fit
    <3>2. CASE OtherCall
      BY <2>3, <3>2 DEF Attended, Along
    <3>3. CASE h = rt.term /\ viewer[h].at \in {"ready", "closed"}
      <4>1. h # None
        BY <1>1 DEF ViewInv, Launched, LaunchOk, HasWindow
      <4>2. Spent(h)
        BY <1>4, <2>4, <3>3, <4>1 DEF Spent, HeadedReady, HandleAlive
      <4>3. rt'.term # None /\ Spent(rt.term)'
        BY <1>1, <2>1, <3>3, <4>1, <4>2 DEF Spent, Alive
      <4> QED BY <4>3 DEF Attended
    <3> QED BY <3>1, <3>2, <3>3
  <2>5. Busy => Busy'
    BY <1>1 DEF Busy
  <2> QED BY <1>1, <1>2, <2>3, <2>4, <2>5, LaunchLeaves
<1> QED BY <1>3, <1>4 DEF LaunchFocuses

\* A launch takes the window h, which has been opened.
LEMMA LaunchTakes ==
  ASSUME ViewInv, Going, Along, NEW s \in Slots, launches[s].at \notin Waits,
         NEW at \in {"adopt", "ready"}, NEW h \in Handles, ToWith(s, at, h),
         viewer'[h].at # "unused", rt'.attaching = rt.attaching, Busy => Busy'
  PROVE  Going'
<1>1. LaunchTyped /\ launches[s].at # "idle" /\ at \in Launching /\ Fit(s)
  BY TypedParts DEF ViewInv, Going, Waits, Launching
<1>2. /\ Others(s) /\ launches'[s].at = at /\ launches'[s].epoch = launches[s].epoch
      /\ launches'[s].h = h /\ launches'[s].owner = launches[s].owner
  BY <1>1, LaunchToWith, ToWithKeeps
<1>3. Fit(s)'
  BY <1>1, <1>2 DEF Fit
<1>4. \A t \in Slots \ {s} : launches'[t].at = "waiting" => rt'.attaching
  <2>1. s \in Attaching
    BY DEF Attaching, Waits
  <2> QED BY <2>1 DEF ViewInv, Launched, OneAttach
<1>5. launches'[s].at # "idle"
  BY <1>2
<1> QED BY <1>2, <1>3, <1>4, <1>5, LaunchSteps

LEMMA LaunchChoosesGoes ==
  ASSUME ViewInv, ViewInv', Going, NEW s \in Slots, LaunchChooses(s) PROVE Going'
<1>1. /\ Typed /\ launches[s].at = "choose" /\ LaunchTyped /\ rt \in Runtime /\ Matched
      /\ TermTyped /\ past \in Past
      /\ UNCHANGED <<job, queue, turn, term, worker, viewer, watchers, calls, finishes, lost>>
  BY TypedParts DEF ViewInv, LaunchChooses, NoNews, terminals, Going
<1>2. Onward /\ launches[s].at \notin Waits /\ (Busy => Busy')
  BY <1>1, NothingMoves DEF Waits, Busy
<1>3. ASSUME rt' = rt \/ rt' = [rt EXCEPT !.attaching = FALSE],
             past'.dropped \in {past.dropped, rt.epoch}
      PROVE  Along
  <2>1. /\ rt'.requested = rt.requested /\ rt'.epoch = rt.epoch /\ rt'.term = rt.term
        /\ rt'.attachGen = rt.attachGen /\ rt'.workerGen = rt.workerGen
    BY <1>1, <1>3 DEF Runtime
  <2>2. Matched'
    BY <1>1, <2>1, MatchedKeeps
  <2> QED BY <1>1, <1>2, <1>3, <2>1, <2>2, RestAlong
<1>4. CASE HandleAlive(term.handle) /\ ToWith(s, "adopt", term.handle) /\ UNCHANGED <<rt, past>>
  <2>1. term.handle \in Handles /\ viewer'[term.handle].at # "unused"
    BY <1>1, <1>4 DEF HandleAlive, TermTyped, Term
  <2> QED BY <1>2, <1>3, <1>4, <2>1, LaunchTakes
<1>5. CASE /\ Busy /\ Ends(s)
           /\ past' = IF Current(launches[s].epoch) /\ job.view # "attaching"
                      THEN [past EXCEPT !.dropped = launches[s].epoch] ELSE past
  <2>1. past'.dropped \in {past.dropped, rt.epoch}
    BY <1>1, <1>5 DEF Past, Current
  <2>2. Along
    BY <1>3, <1>5, <2>1 DEF Ends
  <2>3. ASSUME Current(launches[s].epoch) PROVE Deferred'
    <3>1. rt'.epoch = rt.epoch /\ rt'.requested
      BY <1>1, <1>5, <2>3 DEF Ends, Runtime, Current
    <3>2. CASE job.view = "attaching"
      BY <1>1, <1>2, <1>5, <3>2 DEF Deferred
    <3>3. CASE job.view # "attaching"
      BY <1>1, <1>5, <2>3, <3>1, <3>3 DEF Deferred, Dropped, Past, Current
    <3> QED BY <3>2, <3>3
  <2>4. Current(launches[s].epoch) => Attended'
    BY <2>3 DEF Attended
  <2> QED BY <1>2, <1>5, <2>2, <2>4, LaunchLeaves DEF Ends
<1>6. CASE To(s, IF launches[s].hold THEN "yield" ELSE "save") /\ UNCHANGED <<rt, past>>
  <2> DEFINE at == IF launches[s].hold THEN "yield" ELSE "save"
  <2>1. at \in Launching \ {"existing", "waiting", "failing"} /\ at \notin HasWindow
    BY DEF Launching, HasWindow
  <2>2. To(s, at)
    BY <1>6
  <2> HIDE DEF at
  <2> QED BY <1>2, <1>3, <1>6, <2>1, <2>2, LaunchTurns
<1> QED BY <1>4, <1>5, <1>6 DEF LaunchChooses

LEMMA LaunchYieldsGoes ==
  ASSUME ViewInv, ViewInv', Going, NEW s \in Slots, LaunchYields(s) PROVE Going'
<1>1. /\ Typed /\ launches[s].at = "yield" /\ rt \in Runtime /\ Matched
      /\ UNCHANGED <<job, queue, past, term, worker, viewer, watchers, calls, finishes, lost>>
  BY TypedParts DEF ViewInv, LaunchYields, NoNews, terminals, Going
<1>2. Onward /\ launches[s].at \notin Waits
  BY <1>1, NothingMoves DEF Waits
<1>3. \/ rt' = rt /\ turn' = turn
      \/ Busy /\ rt' = [rt EXCEPT !.gen = YieldedGen] /\ turn' = [turn EXCEPT !.cancelled = TRUE]
  BY DEF LaunchYields
<1>4. /\ rt'.requested = rt.requested /\ rt'.epoch = rt.epoch /\ rt'.term = rt.term
      /\ rt'.attachGen = rt.attachGen /\ rt'.workerGen = rt.workerGen
      /\ rt'.attaching = rt.attaching
  BY <1>1, <1>3 DEF Runtime
<1>5. Busy => Busy'
  <2>1. turn = Idle \/ turn \in Turn
    BY <1>1 DEF Typed, TurnTyped
  <2> QED BY <1>3, <2>1 DEF Busy, Turn, Idle
<1>6. Matched'
  BY <1>1, <1>4, MatchedKeeps
<1>7. Along
  BY <1>1, <1>2, <1>4, <1>6, RestAlong
<1>8. \E at \in {"yielding", "save"} : To(s, at)
  BY DEF LaunchYields
<1>9. \A at \in {"yielding", "save"} :
         at \in Launching \ {"existing", "waiting", "failing"} /\ at \notin HasWindow
  BY DEF Launching, HasWindow
<1> QED BY <1>2, <1>4, <1>5, <1>7, <1>8, <1>9, LaunchTurns

LEMMA YieldEndsGoes ==
  ASSUME ViewInv, ViewInv', Going, NEW s \in Slots, YieldEnds(s) PROVE Going'
<1>1. /\ Typed /\ launches[s].at = "yielding" /\ rt \in Runtime /\ Matched /\ job \in Job
      /\ UNCHANGED <<rt, turn, term, worker, viewer, watchers, calls, finishes, lost>>
      /\ past \in Past /\ past'.dropped = past.dropped
  BY TypedParts DEF ViewInv, YieldEnds, NoNews, terminals, Past, Going
<1>2. Onward /\ launches[s].at \notin Waits /\ (Busy => Busy')
  BY <1>1, NothingMoves DEF Waits, Busy
<1>3. job'.view = job.view /\ job'.owner = job.owner /\ job'.desired = job.desired
  BY <1>1 DEF YieldEnds, Job
<1>4. Matched'
  BY <1>1, MatchedKeeps
<1>5. Along
  BY <1>1, <1>2, <1>3, <1>4, RestAlong
<1>6. \E at \in {"save", "fail"} : To(s, at)
  BY DEF YieldEnds
<1>7. \A at \in {"save", "fail"} :
         at \in Launching \ {"existing", "waiting", "failing"} /\ at \notin HasWindow
  BY DEF Launching, HasWindow
<1> QED BY <1>1, <1>2, <1>5, <1>6, <1>7, LaunchTurns

LEMMA LaunchSavesGoes ==
  ASSUME ViewInv, ViewInv', Going, NEW s \in Slots, LaunchSaves(s) PROVE Going'
<1>1. /\ Typed /\ launches[s].at = "save" /\ LaunchTyped /\ rt \in Runtime /\ Matched
      /\ WindowsOk /\ job \in Job /\ RowOk /\ Fit(s)
      /\ UNCHANGED <<queue, turn, past, term, worker, viewer, watchers, calls, finishes, lost>>
  BY TypedParts DEF ViewInv, LaunchSaves, NoNews, terminals, Going
<1>2. Onward /\ launches[s].at \notin Waits /\ (Busy => Busy')
  BY <1>1, NothingMoves DEF Waits, Busy
<1>3. CASE /\ Current(launches[s].epoch) /\ SaveView("attaching", "headed", "handoff")
           /\ To(s, "opening") /\ UNCHANGED rt
  <2>1. "opening" \in Launching /\ "attaching" \in ViewModes /\ "handoff" \in Owners
    BY DEF Launching, ViewModes, Owners
  <2>2. job'.view = "attaching" /\ job'.owner = "handoff" /\ job'.desired = "headed"
    BY <1>1, <1>3, <2>1, SaveViewTyped
  <2>3. /\ Others(s) /\ launches'[s].at = "opening" /\ launches'[s].epoch = launches[s].epoch
        /\ launches'[s].owner = launches[s].owner
    BY <1>1, <1>3, <2>1, LaunchTo, ToKeeps
  <2>4. WindowsOk' /\ Matched'
    BY <1>1, <1>2, <1>3, MatchedKeeps, WindowsKeep, TermShown
  <2>5. Fit(s)'
    BY <1>1, <2>3 DEF Fit, HasWindow
  <2>6. rt.attaching
    <3>1. s \in Attaching
      BY <1>2 DEF Attaching, Waits
    <3> QED BY <3>1 DEF ViewInv, Launched, OneAttach
  <2>7. \A t \in Slots : Fit(t)'
    BY <1>2, <1>3, <2>3, <2>5, <2>6, OthersFit
  <2>8. RowOk' /\ BackOk'
    BY <1>3, <2>2 DEF RowOk, BackOk, HeldByOwner, Current
  <2>9. ComesOk'
    BY <1>3, <2>3 DEF ComesOk, HalfWay, Attended, LaunchComes, Current
  <2> QED BY <2>4, <2>7, <2>8, <2>9 DEF Going
<1>4. CASE ~Current(launches[s].epoch) /\ Ends(s) /\ UNCHANGED job
  <2>1. /\ rt'.requested = rt.requested /\ rt'.epoch = rt.epoch /\ rt'.term = rt.term
        /\ rt'.attachGen = rt.attachGen /\ rt'.workerGen = rt.workerGen
    BY <1>1, <1>4 DEF Runtime, Ends
  <2>2. Matched'
    BY <1>1, <2>1, MatchedKeeps
  <2>3. Along
    BY <1>1, <1>2, <1>4, <2>1, <2>2, RestAlong
  <2> QED BY <1>2, <1>4, <2>3, LaunchLeaves DEF Ends
<1> QED BY <1>3, <1>4 DEF LaunchSaves

LEMMA LaunchOpensGoes ==
  ASSUME ViewInv, ViewInv', Going, NEW s \in Slots, LaunchOpens(s) PROVE Going'
<1>1. /\ Typed /\ launches[s].at = "opening" /\ TermTyped /\ rt \in Runtime /\ Matched
      /\ WindowsOk
      /\ UNCHANGED <<job, queue, turn, past, watchers, calls, finishes, lost>>
  BY TypedParts DEF ViewInv, LaunchOpens, NoNews, scheduler, Going
<1>2. launches[s].at \notin Waits /\ (Busy => Busy')
  BY <1>1 DEF Waits, Busy
<1>3. ASSUME NEW g \in 0..Workers, rt' = [rt EXCEPT !.workerGen = g]
      PROVE  /\ rt'.requested = rt.requested /\ rt'.epoch = rt.epoch /\ rt'.term = rt.term
             /\ rt'.attachGen = rt.attachGen /\ rt'.attaching = rt.attaching
             /\ rt'.workerGen = g
  BY <1>1, <1>3 DEF Runtime
<1>4. CASE /\ WindowOpen /\ ToWith(s, "ready", term.handle)
           /\ rt' = [rt EXCEPT !.workerGen = term.worker] /\ UNCHANGED terminals
  <2>1. /\ term.handle \in Handles /\ term.worker \in 0..Workers
        /\ viewer[term.handle].at # "unused"
    BY <1>1, <1>4 DEF TermTyped, Term, WindowOpen
  <2>2. UNCHANGED <<term, worker, viewer>>
    BY <1>4 DEF terminals
  <2>3. /\ rt'.requested = rt.requested /\ rt'.epoch = rt.epoch /\ rt'.term = rt.term
        /\ rt'.attachGen = rt.attachGen /\ rt'.attaching = rt.attaching
        /\ rt'.workerGen = term.worker
    BY <1>3, <1>4, <2>1
  <2>4. Matched' /\ Onward
    BY <1>1, <2>2, <2>3, MatchedKeeps, NothingMoves
  <2>5. Along
    BY <1>1, <2>2, <2>3, <2>4, RestAlong
  <2> QED BY <1>2, <1>4, <2>1, <2>2, <2>3, <2>5, LaunchTakes
<1>5. ASSUME NEW h \in Fresh(Window), NEW g \in IF WorkerAlive THEN {term.worker} ELSE Fresh(worker),
             worker' = [worker EXCEPT ![g] = "alive"],
             viewer' = [viewer EXCEPT ![h] = [at |-> "opening", worker |-> g]],
             term' = [worker |-> g, handle |-> h],
             rt' = [rt EXCEPT !.workerGen = g], ToWith(s, "ready", h)
      PROVE  Going'
  <2>1. h \in 1..Viewers /\ h \in Handles /\ viewer[h].at = "unused"
    BY <1>1, Bounds DEF Fresh, Window, TermTyped
  <2>2. g \in 1..Workers /\ g \in 0..Workers /\ g # None /\ worker[g] \in {"unused", "alive"}
    <3>1. CASE WorkerAlive
      <4>1. term.worker \in 0..Workers /\ term.worker # None
        BY <1>1, <3>1 DEF TermTyped, Term, WorkerAlive, Alive
      <4>2. term.worker \in 1..Workers
        BY <4>1, Bounds DEF None
      <4> QED BY <1>5, <3>1, <4>1, <4>2 DEF WorkerAlive, Alive
    <3>2. CASE ~WorkerAlive
      <4>1. g \in 1..Workers /\ worker[g] = "unused"
        BY <1>1, <1>5, <3>2 DEF Fresh, TermTyped
      <4> QED BY <4>1, Bounds DEF None
    <3> QED BY <3>1, <3>2
  <2>3. /\ viewer'[h].at = "opening" /\ viewer'[h].worker = g /\ worker'[g] = "alive"
        /\ \A k \in 1..Viewers \ {h} : viewer'[k] = viewer[k]
        /\ \A k \in 1..Workers \ {g} : worker'[k] = worker[k]
        /\ term'.worker = g
    BY <1>1, <1>5, <2>1, <2>2 DEF TermTyped
  <2>4. Onward
    BY <2>1, <2>2, <2>3 DEF Onward
  <2>5. /\ rt'.requested = rt.requested /\ rt'.epoch = rt.epoch /\ rt'.term = rt.term
        /\ rt'.attachGen = rt.attachGen /\ rt'.attaching = rt.attaching /\ rt'.workerGen = g
    BY <1>3, <1>5, <2>2
  <2>6. Matched'
    BY <2>3, <2>5 DEF Matched
  <2>7. Along
    BY <1>1, <2>2, <2>3, <2>4, <2>5, <2>6, RestAlong
  <2>8. viewer'[h].at # "unused"
    BY <2>3
  <2> QED BY <1>2, <1>5, <2>1, <2>5, <2>7, <2>8, LaunchTakes
<1>6. CASE To(s, "fail") /\ UNCHANGED <<rt, terminals>>
  <2>1. UNCHANGED <<term, worker, viewer>>
    BY <1>6 DEF terminals
  <2>2. Onward /\ Matched'
    BY <1>1, <1>6, <2>1, MatchedKeeps, NothingMoves
  <2>3. Along
    BY <1>1, <1>6, <2>1, <2>2, RestAlong
  <2>4. "fail" \in Launching \ {"existing", "waiting", "failing"} /\ "fail" \notin HasWindow
    BY DEF Launching, HasWindow
  <2> QED BY <1>2, <1>6, <2>3, <2>4, LaunchTurns
<1> QED BY <1>4, <1>5, <1>6 DEF LaunchOpens

\* A section that leaves the row and the request alone and may close a window.
LEMMA ClosesAlong ==
  ASSUME ViewInv, Going, NEW h \in Handles, viewer' = Closed(h) \/ viewer' = viewer,
         UNCHANGED <<job, term, worker, calls, finishes, lost>>,
         rt' = rt \/ rt' = [rt EXCEPT !.attaching = FALSE], past'.dropped = past.dropped
  PROVE  Along
<1>1. Typed /\ rt \in Runtime /\ Matched
  BY TypedParts DEF ViewInv, Going
<1>2. Onward
  BY <1>1, ClosedOnward
<1>3. /\ rt'.requested = rt.requested /\ rt'.epoch = rt.epoch /\ rt'.term = rt.term
      /\ rt'.attachGen = rt.attachGen /\ rt'.workerGen = rt.workerGen
  BY <1>1 DEF Runtime
<1>4. Matched'
  BY <1>1, <1>3, MatchedKeeps
<1> QED BY <1>1, <1>2, <1>3, <1>4, RestAlong

LEMMA LaunchReadyGoes ==
  ASSUME ViewInv, ViewInv', Going, NEW s \in Slots, LaunchReady(s) PROVE Going'
<1>1. /\ Typed /\ launches[s].at \in {"adopt", "ready"} /\ LaunchTyped
      /\ UNCHANGED <<job, turn, past, term, worker, calls, finishes, lost>>
  BY TypedParts DEF ViewInv, LaunchReady, NoNews
<1>2. launches[s].at \notin Waits /\ launches[s].at \in HasWindow /\ (Busy => Busy')
  BY <1>1 DEF Waits, HasWindow, Busy
<1>3. launches[s].h \in Handles
  <2>1. launches[s] \in LaunchRec
    BY <1>1 DEF LaunchTyped, Launch, LaunchRec, Idle
  <2> QED BY <2>1 DEF LaunchRec
<1>4. viewer' = Closed(launches[s].h) \/ viewer' = viewer
  BY DEF LaunchReady
<1>5. CASE rt.epoch # launches[s].epoch /\ Ends(s)
  <2>1. Along
    BY <1>1, <1>3, <1>4, <1>5, ClosesAlong DEF Ends
  <2> QED BY <1>2, <1>5, <2>1, LaunchLeaves DEF Ends, Current
<1>6. ASSUME NEW at \in {"fail", "commit", "reconcile"}, To(s, at), UNCHANGED rt PROVE Going'
  <2>1. at \in Launching \ {"existing", "waiting", "failing"}
    BY DEF Launching
  <2>2. Along
    BY <1>1, <1>3, <1>4, <1>6, ClosesAlong
  <2> QED BY <1>2, <1>6, <2>1, <2>2, LaunchTurns
<1> QED BY <1>5, <1>6 DEF LaunchReady

LEMMA LaunchCommitsGoes ==
  ASSUME ViewInv, ViewInv', Going, NEW s \in Slots, LaunchCommits(s) PROVE Going'
<1> DEFINE h == launches[s].h
           gen == rt.attachGen + 1
<1>1. /\ Typed /\ launches[s].at = "commit" /\ LaunchTyped /\ rt \in Runtime /\ Matched
      /\ LaunchEnds(s) /\ Fit(s) /\ WindowsOk
      /\ UNCHANGED <<queue, turn, past, term, worker, calls, finishes, lost>>
  BY TypedParts DEF ViewInv, LaunchCommits, Going
<1>2. launches[s].at \notin Waits /\ (Busy => Busy')
  BY <1>1 DEF Waits, Busy
<1>3. h \in 1..Viewers /\ h \in Handles /\ viewer[h].at # "unused"
  <2>1. launches[s] \in LaunchRec
    BY <1>1 DEF LaunchTyped, Launch, LaunchRec, Idle
  <2>2. h # None
    BY <1>1 DEF ViewInv, Launched, LaunchOk, HasWindow
  <2> QED BY <1>1, <2>1, <2>2, Bounds DEF LaunchRec, Fit, HasWindow
<1>4. CASE /\ Current(launches[s].epoch) /\ Headed
           /\ rt' = [rt EXCEPT !.attaching = FALSE, !.term = h, !.attachGen = gen,
                               !.watched = gen, !.workerGen = term.worker]
           /\ viewer' = IF rt.term # h THEN Closed(rt.term) ELSE viewer
  <2> HIDE DEF h, gen
  <2>1. rt'.requested = rt.requested /\ rt'.term = h /\ rt'.workerGen = term.worker
    BY <1>1, <1>4 DEF Runtime
  <2>2. rt.term \in Handles
    BY <1>1 DEF Runtime
  <2>3. Onward
    BY <1>1, <1>4, <2>2, ClosedOnward
  <2>4. Matched'
    BY <1>1, <2>1, MatchedKeeps
  <2>5. WindowsOk'
    BY <1>1, <1>3, <2>1, <2>3, WindowsKeep
  <2> QED BY <1>1, <1>2, <1>4, <2>1, <2>4, <2>5, HeadedGoes DEF Current
<1>5. CASE /\ ~Current(launches[s].epoch) /\ rt' = [rt EXCEPT !.attaching = FALSE]
           /\ viewer' = Closed(h) /\ UNCHANGED job
  <2>1. Along
    BY <1>1, <1>3, <1>5, ClosesAlong
  <2> QED BY <1>1, <1>2, <1>5, <2>1, LaunchLeaves
<1> QED BY <1>4, <1>5 DEF LaunchCommits

\* A launch ends, and with it the request, or there was none.
LEMMA LaunchGivesBack ==
  ASSUME ViewInv, ViewInv', Going, NEW s \in Slots, launches[s].at \notin Waits, LaunchEnds(s),
         NEW o \in {"tui", "supervisor"}, SaveView("headless", "headless", o), ~rt'.requested,
         rt'.term = rt.term, rt'.workerGen = rt.workerGen, o = "tui" => Covered,
         UNCHANGED <<term, worker, viewer, calls, lost>>
  PROVE  Going'
<1>1. Typed /\ LaunchTyped /\ pumps \in Nat /\ job \in Job /\ WindowsOk /\ Matched
  BY TypedParts DEF ViewInv, Going
<1>2. Others(s) /\ launches'[s].at = "idle"
  BY <1>1, LaunchesEnd DEF Idle
<1>3. \A t \in Slots \ {s} : launches'[t].at # "waiting"
  BY <1>1, EndsWakes
<1>4. \A t \in Slots : Fit(t)'
  BY <1>2, <1>3, OthersFit DEF Fit
<1>5. "headless" \in ViewModes /\ o \in Owners
  BY DEF ViewModes, Owners
<1>6. job'.view = "headless" /\ job'.owner = o
  BY <1>1, <1>5, SaveViewTyped
<1>7. Onward
  BY <1>1, NothingMoves
<1>8. WindowsOk' /\ Matched'
  BY <1>1, <1>7, MatchedKeeps, WindowsKeep, TermShown
<1>9. RowOk' /\ BackOk' /\ ComesOk'
  BY <1>6 DEF RowOk, BackOk, ComesOk, HalfWay, Covered, ExitCall
<1> QED BY <1>4, <1>8, <1>9 DEF Going

LEMMA LaunchReconcilesGoes ==
  ASSUME ViewInv, ViewInv', Going, NEW s \in Slots, LaunchReconciles(s) PROVE Going'
<1> DEFINE o == IF WorkerAlive THEN "tui" ELSE "supervisor"
<1>1. /\ launches[s].at = "reconcile" /\ Ends(s) /\ rt \in Runtime /\ past \in Past
      /\ UNCHANGED <<turn, term, worker, viewer, calls, finishes, lost>>
      /\ past' = [past EXCEPT !.gaveUp = past.gaveUp \/ ~(rt.requested \/ WorkerAlive)]
  BY TypedParts DEF ViewInv, LaunchReconciles, NoNews, terminals
<1>2. launches[s].at \notin Waits /\ (Busy => Busy')
  BY <1>1 DEF Waits, Busy
<1>3. CASE UNCHANGED job
  <2>1. None \in Handles
    BY Bounds
  <2>2. Along
    BY <1>1, <1>3, <2>1, ClosesAlong DEF Ends, Past
  <2>3. ~Current(launches[s].epoch)
    BY <1>1 DEF ViewInv, Launched, LaunchOk
  <2> QED BY <1>1, <1>2, <2>2, <2>3, LaunchLeaves DEF Ends
<1>4. CASE ~rt.requested /\ SaveView("headless", "headless", o)
  <2>1. o \in {"tui", "supervisor"} /\ (o = "tui" => Covered)
    BY DEF WorkerAlive, Alive, Covered
  <2> HIDE DEF o
  <2>2. ~rt'.requested /\ rt'.term = rt.term /\ rt'.workerGen = rt.workerGen
    BY <1>1, <1>4 DEF Ends, Runtime
  <2> QED BY <1>1, <1>2, <1>4, <2>1, <2>2, LaunchGivesBack DEF Ends
<1> QED BY <1>3, <1>4 DEF LaunchReconciles

LEMMA LaunchFailsGoes ==
  ASSUME ViewInv, ViewInv', Going, NEW s \in Slots, LaunchFails(s) PROVE Going'
<1> DEFINE o == IF WorkerAlive THEN "tui" ELSE "supervisor"
<1>1. /\ Typed /\ launches[s].at = "fail" /\ LaunchTyped /\ rt \in Runtime /\ Matched /\ Fit(s)
      /\ TermTyped
      /\ rt' = IF WorkerAlive THEN [rt EXCEPT !.workerGen = term.worker] ELSE rt
      /\ launches' = [launches EXCEPT ![s].at = "failing", ![s].owner = o]
      /\ UNCHANGED <<job, turn, past, term, worker, viewer, calls, finishes, lost>>
  BY TypedParts DEF ViewInv, LaunchFails, NoNews, terminals, scheduler, Going
<1>2. launches[s].at \notin Waits /\ (Busy => Busy')
  BY <1>1 DEF Waits, Busy
<1>3. o # "handoff" /\ (o = "tui" => Covered)
  BY DEF WorkerAlive, Alive, Covered
<1> HIDE DEF o
<1>4. launches[s] \in LaunchRec
  BY <1>1 DEF LaunchTyped, Launch, LaunchRec, Idle
<1>5. /\ launches'[s].at = "failing" /\ launches'[s].owner = o
      /\ launches'[s].epoch = launches[s].epoch /\ Others(s)
  BY <1>1, <1>4 DEF LaunchTyped, LaunchRec, Others
<1>6. /\ rt'.requested = rt.requested /\ rt'.epoch = rt.epoch /\ rt'.term = rt.term
      /\ rt'.attachGen = rt.attachGen /\ rt'.attaching = rt.attaching
      /\ rt'.workerGen = rt.workerGen \/ rt'.workerGen = term.worker
  BY <1>1 DEF Runtime, TermTyped, Term
<1>7. Onward /\ Matched'
  BY <1>1, <1>6, MatchedKeeps, NothingMoves
<1>8. Along
  BY <1>1, <1>6, <1>7, RestAlong
<1>9. Covered => Covered'
  BY <1>1 DEF Covered, ExitCall
<1>10. Fit(s)'
  BY <1>3, <1>5, <1>9 DEF Fit, HasWindow
<1>11. rt.attaching
  <2>1. s \in Attaching
    BY <1>2 DEF Attaching, Waits
  <2> QED BY <2>1 DEF ViewInv, Launched, OneAttach
<1> QED BY <1>2, <1>5, <1>6, <1>8, <1>10, <1>11, LaunchSteps

LEMMA LaunchFailedGoes ==
  ASSUME ViewInv, ViewInv', Going, NEW s \in Slots, LaunchFailed(s) PROVE Going'
<1>1. /\ launches[s].at = "failing" /\ LaunchEnds(s) /\ rt \in Runtime /\ LaunchTyped /\ Fit(s)
      /\ UNCHANGED <<turn, term, worker, viewer, calls, finishes, lost>>
      /\ past \in Past /\ past'.dropped = past.dropped
  BY TypedParts DEF ViewInv, LaunchFailed, Past, NoNews, terminals, Going
<1>2. launches[s].at \notin Waits /\ (Busy => Busy')
  BY <1>1 DEF Waits, Busy
<1>3. CASE /\ ~Current(launches[s].epoch) /\ rt' = [rt EXCEPT !.attaching = FALSE]
           /\ UNCHANGED job
  <2>1. None \in Handles
    BY Bounds
  <2>2. Along
    BY <1>1, <1>3, <2>1, ClosesAlong
  <2> QED BY <1>1, <1>2, <1>3, <2>2, LaunchLeaves
<1>4. CASE /\ Current(launches[s].epoch)
           /\ rt' = [rt EXCEPT !.attaching = FALSE, !.requested = FALSE, !.epoch = rt.epoch + 1]
           /\ SaveView("headless", "headless", launches[s].owner)
  <2> DEFINE o == launches[s].owner
  <2>1. launches[s] \in LaunchRec
    BY <1>1 DEF LaunchTyped, Launch, LaunchRec, Idle
  <2>2. o \in {"tui", "supervisor"} /\ (o = "tui" => Covered)
    BY <1>1, <1>4, <2>1 DEF Fit, LaunchRec, Owners
  <2>3. ~rt'.requested /\ rt'.term = rt.term /\ rt'.workerGen = rt.workerGen
    BY <1>1, <1>4 DEF Runtime
  <2>4. SaveView("headless", "headless", o)
    BY <1>4
  <2> HIDE DEF o
  <2> QED BY <1>1, <1>2, <2>2, <2>3, <2>4, LaunchGivesBack
<1> QED BY <1>3, <1>4 DEF LaunchFailed

\* Watching and detaching.
LEMMA WatchEndsGoes ==
  ASSUME ViewInv, ViewInv', Going, NEW w \in watchers, WatchEnds(w) PROVE Going'
<1> DEFINE c == [by |-> "watch", key |-> w.gen]
<1>1. /\ Typed /\ WindowsOk /\ Matched /\ RowOk /\ BackOk /\ rt \in Runtime /\ w \in Watcher
      /\ viewer' = Closed(w.h)
      /\ UNCHANGED <<job, turn, past, term, worker, launches, finishes, lost>>
  BY TypedParts DEF ViewInv, Going, WatchEnds, scheduler
<1>2. w.h \in Handles
  BY <1>1, Bounds DEF Watcher
<1>3. CASE rt' = [rt EXCEPT !.term = None, !.watched = 0] /\ calls' = calls \cup {c}
  <2>1. /\ rt'.requested = rt.requested /\ rt'.epoch = rt.epoch /\ rt'.term = None
        /\ rt'.attachGen = rt.attachGen /\ rt'.workerGen = rt.workerGen
        /\ rt'.attaching = rt.attaching /\ rt'.epoch \in Nat /\ rt.epoch <= rt'.epoch
    BY <1>1, <1>3 DEF Runtime
  <2>2. Onward
    BY <1>1, <1>2, ClosedOnward
  <2>3. WindowsOk' /\ Matched'
    BY <1>1, <2>1, <2>2, WindowsKeep, MatchedKeeps
  <2> c.by = "watch" /\ c \in calls' /\ calls \subseteq calls'
    BY <1>3
  <2> HIDE DEF c
  <2>4. OtherCall' /\ calls \subseteq calls'
    BY DEF OtherCall
  <2>5. Covered => Covered'
    BY <1>1, <2>4 DEF Covered, ExitCall
  <2>6. Steady
    BY <2>1, <2>2, <2>4, <2>5 DEF Steady
  <2>7. \A s \in Slots : Fit(s)'
    BY <1>1, <2>1, <2>6, FitKeeps DEF Going, Fit
  <2>8. RowOk'
    BY <1>1, <2>1, <2>4 DEF RowOk, HideCall, Finishing, HeldByOwner
  <2>9. BackOk'
    BY <1>1, <2>5 DEF BackOk
  <2>10. ComesOk'
    BY <2>4 DEF ComesOk, HalfWay, Attended
  <2> QED BY <2>3, <2>7, <2>8, <2>9, <2>10 DEF Going
<1>4. CASE UNCHANGED <<rt, calls>>
  <2>1. Along
    BY <1>1, <1>2, <1>4, ClosesAlong
  <2> QED BY <1>1, <1>4, <2>1, AsideHolds DEF Busy
<1> QED BY <1>3, <1>4 DEF WatchEnds

LEMMA DetachExpectedGoes ==
  ASSUME ViewInv, ViewInv', Going, NEW c \in calls, DetachExpected(c) PROVE Going'
<1> DEFINE fromClose == c.by \in {"watch", "exit"}
<1>1. /\ Typed /\ WindowsOk /\ Matched /\ RowOk /\ BackOk /\ rt \in Runtime /\ job \in Job
      /\ calls' = calls \ {c}
      /\ UNCHANGED <<turn, past, term, worker, viewer, launches, lost>>
  BY TypedParts DEF ViewInv, Going, DetachExpected, scheduler, terminals
<1>2. Onward
  BY <1>1, NothingMoves
<1>3. CASE DetachStale(c) /\ UNCHANGED <<rt, job, finishes>>
  <2>1. Matched'
    BY <1>1, <1>3, MatchedKeeps
  <2>2. c.by = "hide" /\ c.key # rt.epoch
    BY <1>3 DEF DetachStale
  <2>3. /\ HideCall => HideCall'
        /\ OtherCall => OtherCall'
        /\ ExitCall => ExitCall'
    BY <1>1, <1>3, <2>2 DEF HideCall, OtherCall, ExitCall
  <2>4. Along
    BY <1>1, <1>2, <1>3, <2>1, <2>3 DEF Along, Dropped, Finishing, Covered
  <2> QED BY <1>1, <1>3, <2>4, AsideHolds DEF Busy
<1>4. CASE /\ job.view = "headless" /\ job.owner = "supervisor"
           /\ rt' = [rt EXCEPT !.requested = FALSE, !.epoch = rt.epoch + 1]
           /\ job' = [job EXCEPT !.desired = "headless"]
  <2>1. /\ ~rt'.requested /\ rt'.epoch \in Nat /\ rt.epoch <= rt'.epoch /\ rt'.term = rt.term
        /\ rt'.attaching = rt.attaching /\ rt'.workerGen = rt.workerGen
    BY <1>1, <1>4 DEF Runtime
  <2>2. job'.view = "headless" /\ job'.owner = "supervisor"
    BY <1>1, <1>4 DEF Job
  <2>3. Withdraws
    BY <1>1, <1>2, <2>1 DEF Withdraws
  <2>4. Matched'
    BY <1>1, <2>1, MatchedKeeps
  <2>5. RowOk' /\ BackOk'
    BY <2>1, <2>2 DEF RowOk, BackOk
  <2> QED BY <2>3, <2>4, <2>5, WithdrawsHolds
<1>5. CASE /\ LET gen == IF fromClose THEN rt.attachGen ELSE rt.attachGen + 1 IN
                 /\ rt' = [rt EXCEPT !.requested = FALSE, !.epoch = rt.epoch + 1, !.watched = 0,
                              !.attachGen = gen, !.term = IF fromClose THEN rt.term ELSE None]
                 /\ finishes' = finishes \cup
                        {[key |-> rt.epoch + 1, h |-> rt.term, gen |-> gen, at |-> "close"]}
           /\ SaveView("detaching", "headless", job.owner)
  <2> DEFINE gen == IF fromClose THEN rt.attachGen ELSE rt.attachGen + 1
             f == [key |-> rt.epoch + 1, h |-> rt.term, gen |-> gen, at |-> "close"]
  <2>1. /\ ~rt'.requested /\ rt'.epoch \in Nat /\ rt.epoch <= rt'.epoch
        /\ rt'.term \in {rt.term, None} /\ rt'.attachGen = gen
        /\ rt'.attaching = rt.attaching /\ rt'.workerGen = rt.workerGen
    BY <1>1, <1>5 DEF Runtime
  <2>2. job.owner \in Owners /\ "detaching" \in ViewModes
    BY <1>1 DEF Job, ViewModes
  <2>3. job'.view = "detaching" /\ job'.owner = job.owner
    BY <1>1, <1>5, <2>2, SaveViewTyped
  <2>4. f \in finishes' /\ f.gen = gen
    BY <1>5
  <2> HIDE DEF f, gen
  <2>5. Finishing'
    BY <2>1, <2>4 DEF Finishing
  <2>6. Withdraws
    BY <1>1, <1>2, <2>1 DEF Withdraws
  <2>7. Matched'
    BY <1>1, <2>1, MatchedKeeps
  <2>8. RowOk' /\ BackOk'
    BY <2>1, <2>3, <2>5 DEF RowOk, BackOk
  <2> QED BY <2>6, <2>7, <2>8, WithdrawsHolds
<1> QED BY <1>3, <1>4, <1>5 DEF DetachExpected

LEMMA FinishCloseGoes ==
  ASSUME ViewInv, ViewInv', Going, NEW f \in finishes, FinishCloses(f) PROVE Going'
<1>1. /\ Typed /\ Matched /\ f \in Finish /\ viewer' = Closed(f.h) /\ FinishTo(f, "check")
      /\ UNCHANGED <<job, rt, turn, past, launches, calls, term, worker, lost>>
  BY DEF ViewInv, Typed, CallTyped, Going, FinishCloses, scheduler
<1>2. Onward
  BY <1>1, ClosedOnward DEF Finish
<1>3. Matched'
  BY <1>1, MatchedKeeps
<1>4. Finishing => Finishing'
  <2> DEFINE k == [f EXCEPT !.at = "check"]
  <2>1. k.gen = f.gen /\ finishes' = (finishes \ {f}) \cup {k}
    BY <1>1 DEF Finish, FinishTo
  <2> HIDE DEF k
  <2> QED BY <1>1, <2>1 DEF Finishing
<1>5. Along
  BY <1>1, <1>2, <1>3, <1>4 DEF Along, Dropped, HideCall, OtherCall, Covered, ExitCall
<1> QED BY <1>1, <1>5, AsideHolds DEF Busy

\* A detach that is not outdated gives the view back.
LEMMA FinishGivesBack ==
  ASSUME ViewInv, ViewInv', Going, ~rt.requested, job'.view = "headless",
         job'.owner \in {"tui", "supervisor"}, job'.owner = "tui" => Covered,
         UNCHANGED <<rt, turn, launches, calls, term, worker, viewer, lost>>
  PROVE  Going'
<1>1. Typed /\ Matched /\ rt \in Runtime
  BY TypedParts DEF ViewInv, Going
<1>2. Withdraws
  BY <1>1, NothingMoves DEF Withdraws, Runtime
<1>3. Matched'
  BY <1>1, MatchedKeeps
<1>4. RowOk' /\ BackOk'
  BY DEF RowOk, BackOk, Covered, ExitCall
<1> QED BY <1>2, <1>3, <1>4, WithdrawsHolds

LEMMA FinishChecksGoes ==
  ASSUME ViewInv, ViewInv', Going, NEW f \in finishes, FinishChecks(f) PROVE Going'
<1>1. /\ Typed /\ Matched /\ f \in Finish /\ job \in Job
      /\ UNCHANGED <<rt, turn, past, launches, calls, term, worker, viewer, lost>>
  BY TypedParts DEF ViewInv, Typed, CallTyped, Going, FinishChecks, scheduler, terminals
<1>2. Onward /\ Matched'
  BY <1>1, NothingMoves, MatchedKeeps
<1>3. ASSUME UNCHANGED job, ~rt.requested /\ Finishing => Finishing' PROVE Going'
  <2>1. Along
    BY <1>1, <1>2, <1>3 DEF Along, Dropped, HideCall, OtherCall, Covered, ExitCall
  <2> QED BY <1>1, <2>1, AsideHolds DEF Busy
<1>4. CASE FinishTo(f, "load") /\ UNCHANGED job
  <2> DEFINE k == [f EXCEPT !.at = "load"]
  <2>1. k.gen = f.gen /\ finishes' = (finishes \ {f}) \cup {k}
    BY <1>1, <1>4 DEF Finish, FinishTo
  <2> HIDE DEF k
  <2>2. Finishing => Finishing'
    BY <1>1, <2>1 DEF Finishing
  <2> QED BY <1>3, <1>4, <2>2
<1>5. CASE ~StillDetached(f) /\ finishes' = finishes \ {f} /\ UNCHANGED job
  <2>1. ~rt.requested /\ Finishing => Finishing'
    BY <1>1, <1>5 DEF Finishing, StillDetached
  <2> QED BY <1>3, <1>5, <2>1
<1>6. CASE StillDetached(f) /\ WorkerAlive /\ SaveView("headless", job.desired, "tui")
  <2>1. "headless" \in ViewModes /\ "tui" \in Owners /\ job.desired \in {"headless", "headed"}
    BY <1>1 DEF ViewModes, Owners, Job
  <2>2. job'.view = "headless" /\ job'.owner = "tui"
    BY <1>1, <1>6, <2>1, SaveViewTyped
  <2>3. Covered
    BY <1>6 DEF WorkerAlive, Alive, Covered
  <2> QED BY <1>1, <1>6, <2>2, <2>3, FinishGivesBack DEF StillDetached
<1> QED BY <1>4, <1>5, <1>6 DEF FinishChecks

LEMMA FinishReturnsGoes ==
  ASSUME ViewInv, ViewInv', Going, NEW f \in finishes, FinishReturns(f) PROVE Going'
<1>1. /\ Typed /\ Matched /\ f \in Finish /\ job \in Job /\ finishes' = finishes \ {f}
      /\ UNCHANGED <<rt, turn, past, launches, calls, term, worker, viewer, lost>>
  BY TypedParts DEF ViewInv, Typed, CallTyped, Going, FinishReturns, terminals
<1>2. Onward /\ Matched'
  BY <1>1, NothingMoves, MatchedKeeps
<1>3. PICK e \in Stalls : job' = [job EXCEPT
             !.view = IF StillDetached(f) THEN "headless" ELSE job.view,
             !.owner = IF StillDetached(f) THEN "supervisor" ELSE job.owner,
             !.stalled = e]
  <2>1. \A b \in BOOLEAN : (IF b THEN "session_load_failed"
                            ELSE IF job.stalled = "session_load_failed" THEN "" ELSE job.stalled) \in Stalls
    BY <1>1, Zenon DEF Job, Stalls
  <2> QED BY <2>1, Zenon DEF FinishReturns
<1>4. /\ job'.view = (IF StillDetached(f) THEN "headless" ELSE job.view)
      /\ job'.owner = (IF StillDetached(f) THEN "supervisor" ELSE job.owner)
      /\ job'.desired = job.desired
  BY <1>1, <1>3 DEF Job
<1>5. CASE StillDetached(f)
  BY <1>1, <1>4, <1>5, FinishGivesBack DEF StillDetached
<1>6. CASE ~StillDetached(f)
  <2>1. ~rt.requested /\ Finishing => Finishing'
    BY <1>1, <1>6 DEF Finishing, StillDetached
  <2>2. Along
    BY <1>1, <1>2, <1>4, <1>6, <2>1 DEF Along, Dropped, HideCall, OtherCall, Covered, ExitCall
  <2> QED BY <1>1, <2>2, AsideHolds DEF Busy
<1> QED BY <1>5, <1>6

\* Workers and windows.
LEMMA WindowGoes ==
  ASSUME ViewInv, ViewInv', Going, NEW h \in 1..Viewers, ViewerConnects(h) \/ ViewerEnds(h)
  PROVE  Going'
<1>1. /\ Typed /\ Matched /\ h \in Handles
      /\ UNCHANGED <<job, rt, turn, past, launches, calls, finishes, term, worker, lost>>
  BY Bounds DEF ViewInv, Going, ViewerConnects, ViewerEnds, NoNews, scheduler
<1>2. Onward
  <2>1. CASE ViewerConnects(h)
    BY <1>1, <2>1 DEF ViewerConnects, Onward, Typed, TermTyped, Viewer
  <2>2. CASE ViewerEnds(h)
    BY <1>1, <2>2, ClosedOnward DEF ViewerEnds
  <2> QED BY <2>1, <2>2
<1>3. Matched'
  BY <1>1, MatchedKeeps
<1>4. Along
  BY <1>1, <1>2, <1>3, RestAlong
<1> QED BY <1>1, <1>4, AsideHolds DEF Busy

LEMMA WorkerDiesGoes ==
  ASSUME ViewInv, ViewInv', Going, NEW g \in 1..Workers, WorkerDies(g) PROVE Going'
<1>1. /\ Typed /\ Matched /\ worker[g] = "alive" /\ worker' = [worker EXCEPT ![g] = "dead"]
      /\ UNCHANGED <<job, rt, turn, past, launches, calls, finishes, term, viewer, lost>>
  BY DEF ViewInv, Going, WorkerDies, NoNews, scheduler
<1>2. Onward
  BY <1>1 DEF Onward, Typed, TermTyped
<1>3. Matched'
  BY <1>1 DEF Matched, Typed, TermTyped, Term
<1>4. Along
  BY <1>1, <1>2, <1>3, RestAlong
<1> QED BY <1>1, <1>4, AsideHolds DEF Busy

LEMMA WorkerExitedGoes ==
  ASSUME ViewInv, ViewInv', Going, NEW g \in 1..Workers, WorkerExited(g) PROVE Going'
<1> DEFINE k == IF term.worker = g THEN None ELSE term.worker
           c == [by |-> "exit", key |-> g]
<1>1. /\ Typed /\ TermTyped /\ Matched /\ worker[g] = "dead"
      /\ worker' = [worker EXCEPT ![g] = "gone"] /\ term' = [term EXCEPT !.worker = k]
      /\ calls' = IF HeldByOwner /\ rt.workerGen = g THEN calls \cup {c} ELSE calls
      /\ UNCHANGED <<job, rt, turn, launches, finishes, viewer, lost>>
      /\ past \in Past /\ (UNCHANGED past \/ past' = [past EXCEPT !.gaveUp = TRUE])
  BY TypedParts DEF ViewInv, Going, WorkerExited
<1>2. Onward
  BY <1>1 DEF Onward, TermTyped
<1>3. term'.worker = k /\ calls \subseteq calls'
  BY <1>1 DEF TermTyped, Term
<1>4. Matched'
  <2> SUFFICES ASSUME k # None PROVE rt.workerGen = k /\ worker'[k] \in {"alive", "dead"}
    BY <1>1, <1>3 DEF Matched
  <2>1. k = term.worker /\ k # g
    OBVIOUS
  <2> QED BY <1>1, <2>1 DEF Matched, TermTyped
<1>5. ASSUME HeldByOwner, Covered PROVE Covered'
  <2>1. CASE term.worker = g /\ term.worker # None
    <3>1. rt.workerGen = g
      BY <1>1, <2>1 DEF Matched
    <3>2. c \in calls' /\ c.by = "exit"
      BY <1>1, <1>5, <3>1
    <3> HIDE DEF c
    <3> QED BY <3>2 DEF Covered, ExitCall
  <2>2. CASE term.worker # g /\ term.worker # None
    BY <1>3, <2>2 DEF Covered
  <2>3. CASE term.worker = None
    BY <1>1, <1>3, <1>5, <2>3 DEF Covered, ExitCall
  <2> QED BY <2>1, <2>2, <2>3
<1>6. past'.dropped = past.dropped
  BY <1>1 DEF Past
<1>7. Along
  BY <1>1, <1>2, <1>3, <1>4, <1>5, <1>6 DEF Along, Dropped, HideCall, OtherCall, Finishing
<1> QED BY <1>1, <1>7, AsideHolds DEF Busy

\* Requests and turns.
LEMMA SchedulerGoes ==
  ASSUME ViewInv, ViewInv', Going, job'.view = job.view, job'.owner = job.owner,
         job'.desired = job.desired, Busy => Busy', past'.dropped = past.dropped,
         UNCHANGED <<rt, term, worker, viewer, launches, calls, finishes, lost>>
  PROVE  Going'
<1>1. Typed /\ Matched
  BY DEF ViewInv, Going
<1>2. Onward /\ Matched'
  BY <1>1, NothingMoves, MatchedKeeps
<1>3. Along
  BY <1>1, <1>2, RestAlong
<1> QED BY <1>1, <1>3, AsideHolds

LEMMA TurnsGo ==
  ASSUME ViewInv, ViewInv', Going,
         Accept \/ PumpSkips \/ PumpPops \/ RunItem \/ Asks \/ Decided \/ PromptReturns \/ Watchdog
  PROVE  Going'
<1>1. /\ job \in Job /\ (turn = Idle \/ turn \in Turn)
      /\ UNCHANGED <<rt, term, worker, viewer, launches, calls, finishes, lost>>
  BY TypedParts DEF ViewInv, Typed, TurnTyped, Accept, PumpSkips, PumpPops, RunItem, Asks, Decided,
     PromptReturns, Watchdog, NoNews, terminals
<1>2. job'.view = job.view /\ job'.owner = job.owner /\ job'.desired = job.desired
  BY <1>1 DEF Job, Accept, PumpSkips, PumpPops, RunItem, Asks, Decided, PromptReturns, Watchdog
<1>3. Busy => Busy'
  <2>1. CASE Accept \/ PumpSkips \/ Asks \/ Decided \/ Watchdog
    BY <2>1 DEF Accept, PumpSkips, Asks, Decided, Watchdog, scheduler, Busy
  <2>2. CASE PumpPops
    BY <2>2 DEF PumpPops, Busy
  <2>3. CASE RunItem \/ PromptReturns
    BY <1>1, <2>3 DEF RunItem, PromptReturns, Busy, Turn, Idle
  <2> QED BY <2>1, <2>2, <2>3
<1>4. past \in Past => past'.dropped = past.dropped
  <2>1. CASE RunItem
    BY <2>1 DEF RunItem, Past
  <2>2. CASE PumpSkips \/ PumpPops
    BY <2>2 DEF PumpSkips, PumpPops, Looked, Past
  <2>3. CASE Accept \/ Asks \/ Decided \/ PromptReturns \/ Watchdog
    BY <2>3 DEF Accept, Asks, Decided, PromptReturns, Watchdog, scheduler
  <2> QED BY <2>1, <2>2, <2>3
<1>5. past \in Past
  BY TypedParts DEF ViewInv
<1> QED BY <1>1, <1>2, <1>3, <1>4, <1>5, SchedulerGoes

\* The end of a turn: a view that is attaching, and asked for, is attached now.
LEMMA PumpFinishesGoes ==
  ASSUME ViewInv, ViewInv', Going, PumpFinishes PROVE Going'
<1> DEFINE more == queue # <<>>
<1>1. /\ Typed /\ LaunchTyped /\ Matched /\ WindowsOk /\ RowOk /\ rt \in Runtime
      /\ UNCHANGED <<job, rt, past, term, worker, viewer, calls, finishes, lost>>
  BY TypedParts DEF ViewInv, Going, PumpFinishes, NoNews, terminals
<1>2. Onward /\ Matched'
  BY <1>1, NothingMoves, MatchedKeeps
<1>3. Along
  BY <1>1, <1>2, RestAlong
<1>4. Steady
  BY <1>3, AlongSteady
<1>5. ASSUME NEW s \in Slots, Relaunches, launches[s] = Idle,
             launches' = [launches EXCEPT ![s] = NewLaunch(rt.epoch, more)]
      PROVE  Going'
  <2> DEFINE n == NewLaunch(rt.epoch, more)
  <2>1. n.at = "start" /\ n.epoch = rt.epoch /\ n.owner = "supervisor"
    BY DEF NewLaunch
  <2>2. launches'[s] = n /\ \A t \in Slots \ {s} : launches'[t] = launches[t]
    BY <1>1, <1>5 DEF LaunchTyped
  <2> HIDE DEF n
  <2>3. \A t \in Slots : Fit(t)'
    <3> TAKE t \in Slots
    <3>1. CASE t = s
      BY <2>1, <2>2, <3>1 DEF Fit, HasWindow
    <3>2. CASE t # s
      BY <1>1, <1>4, <2>2, <3>2, FitKeeps DEF Going, Fit
    <3> QED BY <3>1, <3>2
  <2>4. LaunchComes'
    BY <1>1, <1>5, <2>1, <2>2 DEF LaunchComes, Current, Relaunches
  <2> QED BY <1>3, <2>3, <2>4, AlongHolds DEF Attended
<1>6. CASE ~Relaunches /\ UNCHANGED launches
  <2>1. \A t \in Slots : Fit(t)'
    BY <1>1, <1>4, <1>6, FitKeeps DEF Going, Fit
  <2>2. ~(job.view = "attaching" /\ rt.requested)
    BY <1>1, <1>6 DEF RowOk, Relaunches
  <2>3. LaunchComes => LaunchComes'
    BY <1>1, <1>6 DEF LaunchComes, Current
  <2> QED BY <1>3, <2>1, <2>2, <2>3, AlongHolds DEF HalfWay, Attended
<1> QED BY <1>5, <1>6 DEF PumpFinishes

\* A lost connection.
LEMMA ConnectionLostGoes ==
  ASSUME ViewInv, ViewInv', Going, ConnectionLost PROVE Going'
<1>1. /\ Typed /\ term' = [worker |-> None, handle |-> None]
      /\ \E active \in BOOLEAN :
            lost' = [at |-> "release", job |-> active \/ HeldByOwner, of |-> term]
      /\ UNCHANGED <<job, rt, turn, past, launches, calls, finishes, worker, viewer>>
  BY DEF ViewInv, ConnectionLost, scheduler
<1>2. Onward
  BY <1>1, NothingMoves
<1>3. Matched'
  BY <1>1 DEF Matched
<1>4. ASSUME HeldByOwner PROVE Covered'
  <2>1. PICK active \in BOOLEAN :
           lost' = [at |-> "release", job |-> active \/ HeldByOwner, of |-> term]
    BY <1>1
  <2>2. lost'.at = "release" /\ lost'.job = (active \/ HeldByOwner)
    BY <2>1
  <2> QED BY <1>4, <2>2 DEF Covered
<1>5. Along
  BY <1>1, <1>2, <1>3, <1>4 DEF Along, Dropped, HideCall, OtherCall, Finishing
<1> QED BY <1>1, <1>5, AsideHolds DEF Busy

LEMMA WorkersClosedGoes ==
  ASSUME ViewInv, ViewInv', Going, WorkersClosed PROVE Going'
<1>1. /\ Typed /\ TermTyped /\ Matched /\ lost.at = "release" /\ lost' = [lost EXCEPT !.at = "job"]
      /\ worker' = [g \in DOMAIN worker |->
                       IF g = lost.of.worker /\ Alive(g) THEN "dead" ELSE worker[g]]
      /\ viewer' = Closed(lost.of.handle)
      /\ UNCHANGED <<job, rt, turn, past, launches, calls, finishes, term>>
  BY TypedParts DEF ViewInv, Going, WorkersClosed, scheduler
<1>2. lost.of \in Term /\ lost \in Loss /\ lost'.at = "job" /\ lost'.job = lost.job
  BY <1>1, LostTyped DEF Typed, PastTyped, Loss
<1>3. \A k \in 1..Viewers : viewer'[k] = viewer[k] \/ viewer'[k].at = "closed"
  BY <1>1, <1>2 DEF Closed, TermTyped, Viewer, Term
<1>4. \A g \in 1..Workers : worker'[g] = worker[g] \/ (worker[g] = "alive" /\ worker'[g] = "dead")
  BY <1>1, Bounds DEF TermTyped, Alive
<1>5. Onward
  BY <1>3, <1>4 DEF Onward
<1>6. Matched'
  <2>1. term.worker # None => term.worker \in 1..Workers
    BY <1>1, Bounds DEF TermTyped, Term, None
  <2> QED BY <1>1, <1>4, <2>1 DEF Matched
<1>7. Covered => Covered'
  BY <1>1, <1>2 DEF Covered, ExitCall
<1>8. Along
  BY <1>1, <1>5, <1>6, <1>7 DEF Along, Dropped, HideCall, OtherCall, Finishing
<1> QED BY <1>1, <1>8, AsideHolds DEF Busy

LEMMA DisconnectGoes ==
  ASSUME ViewInv, ViewInv', Going, Disconnect PROVE Going'
<1>1. /\ Typed /\ Matched /\ rt \in Runtime /\ job \in Job /\ lost.at = "job"
      /\ UNCHANGED <<past, term, worker, launches, calls, finishes>>
  BY TypedParts DEF ViewInv, Going, Disconnect
<1>2. CASE ~lost.job /\ UNCHANGED <<job, rt, turn, viewer>>
  <2>1. Onward /\ Matched'
    BY <1>1, <1>2, NothingMoves, MatchedKeeps
  <2>2. Covered => Covered'
    BY <1>1, <1>2 DEF Covered, ExitCall
  <2>3. Along
    BY <1>1, <1>2, <2>1, <2>2 DEF Along, Dropped, HideCall, OtherCall, Finishing
  <2> QED BY <1>1, <1>2, <2>3, AsideHolds DEF Busy
<1>3. CASE /\ rt' = [rt EXCEPT !.gen = rt.gen + 1, !.term = None, !.requested = FALSE,
                               !.attachGen = rt.attachGen + 1, !.watched = 0]
           /\ viewer' = Closed(rt.term)
           /\ SaveView("headless", "headless", "supervisor")
  <2>1. /\ ~rt'.requested /\ rt'.epoch \in Nat /\ rt.epoch <= rt'.epoch /\ rt'.term = None
        /\ rt'.attaching = rt.attaching /\ rt'.workerGen = rt.workerGen /\ rt.term \in Handles
    BY <1>1, <1>3 DEF Runtime
  <2>2. Onward
    BY <1>1, <1>3, <2>1, ClosedOnward
  <2>3. Withdraws
    BY <1>1, <2>1, <2>2 DEF Withdraws
  <2>4. Matched'
    BY <1>1, <2>1, MatchedKeeps
  <2>5. "headless" \in ViewModes /\ "supervisor" \in Owners
    BY DEF ViewModes, Owners
  <2>6. job'.view = "headless" /\ job'.owner = "supervisor"
    BY <1>1, <1>3, <2>5, SaveViewTyped
  <2>7. RowOk' /\ BackOk'
    BY <2>1, <2>6 DEF RowOk, BackOk
  <2> QED BY <2>3, <2>4, <2>7, WithdrawsHolds
<1> QED BY <1>2, <1>3 DEF Disconnect

LEMMA LaunchGoes ==
  ASSUME ViewInv, ViewInv', Going, NEW s \in Slots, Launches(s) PROVE Going'
<1>1. CASE LaunchBegins(s) \/ LaunchRetries(s) \/ LaunchFocuses(s) \/ LaunchChooses(s)
  BY <1>1, LaunchBeginsGoes, LaunchRetriesGoes, LaunchFocusesGoes, LaunchChoosesGoes
<1>2. CASE LaunchYields(s) \/ YieldEnds(s) \/ LaunchSaves(s) \/ LaunchOpens(s)
  BY <1>2, LaunchYieldsGoes, YieldEndsGoes, LaunchSavesGoes, LaunchOpensGoes
<1>3. CASE LaunchReady(s) \/ LaunchCommits(s) \/ LaunchReconciles(s)
  BY <1>3, LaunchReadyGoes, LaunchCommitsGoes, LaunchReconcilesGoes
<1>4. CASE LaunchFails(s) \/ LaunchFailed(s)
  BY <1>4, LaunchFailsGoes, LaunchFailedGoes
<1> QED BY <1>1, <1>2, <1>3, <1>4 DEF Launches

LEMMA StepGoes ==
  ASSUME ViewInv, ViewInv', Going, [Next]_vars PROVE Going'
<1>1. CASE UNCHANGED vars
  BY <1>1, SchedulerGoes DEF vars, Busy
<1>2. ASSUME NEW s \in Slots, Open(s) \/ Launches(s) PROVE Going'
  BY <1>2, OpenGoes, LaunchGoes
<1>3. CASE Hide \/ DetachView
  BY <1>3, HideGoes, DetachViewGoes
<1>4. CASE Detaches
  BY <1>4, WatchEndsGoes, DetachExpectedGoes, FinishCloseGoes, FinishChecksGoes,
     FinishReturnsGoes DEF Detaches
<1>5. ASSUME NEW h \in 1..Viewers, ViewerConnects(h) \/ ViewerEnds(h) PROVE Going'
  BY <1>5, WindowGoes
<1>6. ASSUME NEW g \in 1..Workers, WorkerDies(g) \/ WorkerExited(g) PROVE Going'
  BY <1>6, WorkerDiesGoes, WorkerExitedGoes
<1>7. CASE Accept \/ Pump \/ Asks \/ Decided \/ PromptReturns \/ Watchdog
  BY <1>7, TurnsGo, PumpFinishesGoes DEF Pump
<1>8. CASE ConnectionLost \/ WorkersClosed \/ Disconnect
  BY <1>8, ConnectionLostGoes, WorkersClosedGoes, DisconnectGoes
<1> QED BY <1>1, <1>2, <1>3, <1>4, <1>5, <1>6, <1>7, <1>8 DEF Next, Exits

\* The second inductive invariant: the calls, launches and ends of windows and workers
\* that the view and the input still depend on are under way.
THEOREM GoingHolds == Spec => []Going
<1>1. ViewInv /\ ViewInv' /\ Going /\ [Next]_vars => Going'
  BY StepGoes
<1> QED BY <1>1, InitGoes, ViewInvHolds, PTL DEF Spec

\* Once every goroutine is through, no launch waits for another, a headed view is watched
\* and a view that is attaching waits for a turn to end (view.go:140, :193), for every
\* number of calls; a view is detaching, held for hand-over or headed without a watcher
\* only if the launch of the last request for it was put off for good (view.go:193).
THEOREM ViewComesToRest == Spec => [](Quiet => Settled)
<1>1. ViewInv /\ Going => (Quiet => Settled)
  BY GoingSettles
<1> QED BY <1>1, ViewInvHolds, GoingHolds, PTL

\* The same of the property the run checks, but for its first half: that a step whose
\* guard holds can be taken is for TLC, which evaluates ENABLED.
THEOREM ViewIsNotStuck ==
  Spec /\ [](Working => ENABLED System) => []ViewSettles
<1>1. (Quiet => Settled) /\ (Working => ENABLED System) => ViewSettles
  BY DEF ViewSettles
<1> QED BY <1>1, ViewComesToRest, PTL

\* Once every goroutine is through, the input belongs to a TUI only while its worker runs,
\* in whatever order the exit of the worker, the end of the window and a detach come
\* (view.go:664, :746), unless the view was asked for again.
THEOREM InputIsGivenBack == Spec => []InputComesBack
<1>1. ViewInv /\ Going => InputComesBack
  BY GoingSettles
<1> QED BY <1>1, ViewInvHolds, GoingHolds, PTL

-----------------------------------------------------------------------------
(* The work goes on.                                                       *)

\* A pump has still to look at the queue, or will once its launch is through.
Kicking == pumps > 0 \/ \E s \in Slots : launches[s].at # "idle" /\ launches[s].more
\* The end of a worker has still to be noticed.
Ending == \/ \E g \in 1..Workers : worker[g] = "dead"
          \/ lost.at = "release" /\ Alive(lost.of.worker)
WorkOk == MayPop => Kicking \/ Ending \/ past.gaveUp

LEMMA WorkKept ==
  ASSUME WorkOk, MayPop' => MayPop, Kicking => Kicking', Ending => Ending',
         past.gaveUp => past'.gaveUp
  PROVE  WorkOk'
BY DEF WorkOk

LEMMA KickingKeeps ==
  ASSUME Typed, NEW s \in Slots, Others(s), pumps' \in Nat, pumps <= pumps',
         launches[s].at # "idle" /\ launches[s].more =>
             pumps' > 0 \/ (launches'[s].at # "idle" /\ launches'[s].more)
  PROVE  Kicking => Kicking'
<1>1. pumps \in Nat /\ LaunchTyped
  BY TypedParts
<1>2. ASSUME NEW t \in Slots, launches[t].at # "idle", launches[t].more PROVE Kicking'
  <2>1. CASE t = s
    BY <1>2, <2>1 DEF Kicking
  <2>2. CASE launches'[t] = launches[t]
    BY <1>2, <2>2 DEF Kicking
  <2>3. CASE launches[t].at = "waiting" /\ launches'[t] = [launches[t] EXCEPT !.at = "woken"]
    <3>1. launches[t] \in LaunchRec
      BY <1>1, <1>2 DEF LaunchTyped, Launch, LaunchRec, Idle
    <3>2. launches'[t].at = "woken" /\ launches'[t].more = launches[t].more
      BY <2>3, <3>1 DEF LaunchRec
    <3> QED BY <1>2, <3>2 DEF Kicking
  <2> QED BY <2>1, <2>2, <2>3 DEF Others
<1>3. pumps > 0 => pumps' > 0
  BY <1>1
<1> QED BY <1>2, <1>3 DEF Kicking

\* A launch that moves on keeps the pump's loop in mind; one that ends lets it go on.
LEMMA EndKicks ==
  ASSUME Typed, NEW s \in Slots, LaunchEnds(s) PROVE Kicking => Kicking'
<1>1. pumps \in Nat /\ LaunchTyped
  BY TypedParts
<1>2. Others(s) /\ pumps' \in Nat
  BY <1>1, LaunchesEnd
<1>3. pumps' = IF launches[s].more THEN pumps + 1 ELSE pumps
  BY DEF LaunchEnds
<1>4. pumps <= pumps' /\ (launches[s].more => pumps' > 0)
  BY <1>1, <1>3
<1> QED BY <1>2, <1>4, KickingKeeps

LEMMA MoveKicks ==
  ASSUME Typed, NEW s \in Slots, launches[s].at # "idle", NEW at \in Launching,
         To(s, at) \/ \E h \in Handles : ToWith(s, at, h), UNCHANGED pumps
  PROVE  Kicking => Kicking'
<1>1. pumps \in Nat /\ LaunchTyped /\ at # "idle"
  BY TypedParts DEF Launching
<1>2. launches[s] \in LaunchRec
  BY <1>1 DEF LaunchTyped, Launch, LaunchRec, Idle
<1>3. launches'[s].at = at /\ launches'[s].more = launches[s].more /\ Others(s)
  <2>1. CASE To(s, at)
    BY <1>1, <1>2, <2>1 DEF To, LaunchTyped, LaunchRec, Others
  <2>2. CASE \E h \in Handles : ToWith(s, at, h)
    BY <1>1, <1>2, <2>2 DEF ToWith, LaunchTyped, LaunchRec, Others
  <2> QED BY <2>1, <2>2
<1> QED BY <1>1, <1>3, KickingKeeps

\* The work that may be popped is the same while nothing changes that MayPop reads.
LEMMA SameWork ==
  ASSUME job'.view = job.view, job'.owner = job.owner, job'.pause = job.pause,
         UNCHANGED <<queue, term, worker>>, Busy => Busy'
  PROVE  MayPop' => MayPop
BY DEF MayPop, Held, HeldByTUI, HeldByOwner, WorkerAlive, Alive

LEMMA OwnedHolds ==
  ASSUME job'.owner \in {"tui", "handoff"} PROVE WorkOk'
BY DEF WorkOk, MayPop, HeldByTUI, HeldByOwner

\* A section of a launch that leaves the row, the queue and the workers alone.
LEMMA LaunchIdles ==
  ASSUME Typed, WorkOk, NEW s \in Slots, Kicking => Kicking', Busy => Busy',
         UNCHANGED <<job, queue, term, worker, lost>>, past.gaveUp => past'.gaveUp
  PROVE  WorkOk'
<1>1. MayPop' => MayPop
  BY SameWork
<1>2. Ending => Ending'
  BY DEF Ending, Alive
<1> QED BY <1>1, <1>2, WorkKept

LEMMA LaunchFirstWork ==
  ASSUME ViewInv, WorkOk, NEW s \in Slots,
         LaunchBegins(s) \/ LaunchRetries(s) \/ LaunchFocuses(s) \/ LaunchChooses(s)
  PROVE  WorkOk'
<1>1. /\ Typed /\ LaunchTyped /\ pumps \in Nat /\ rt.term \in Handles /\ term.handle \in Handles
      /\ past \in Past /\ job \in Job
  BY TypedParts DEF ViewInv, Runtime, TermTyped, Term
<1>2. {"waiting", "existing", "choose", "adopt", "yield", "save"} \subseteq Launching
  BY DEF Launching
<1>3. CASE LaunchBegins(s)
  <2>1. UNCHANGED <<job, queue, turn, term, worker, lost, past>> /\ launches[s].at # "idle"
    BY <1>3 DEF LaunchBegins, NoNews, terminals
  <2>2. CASE /\ launches' = [launches EXCEPT ![s] = Idle]
             /\ pumps' = IF launches[s].more THEN pumps + 1 ELSE pumps
    <3>1. /\ Others(s) /\ pumps' \in Nat /\ pumps <= pumps'
          /\ launches[s].more => pumps' > 0
      BY <1>1, <2>2 DEF Others, LaunchTyped
    <3>2. Kicking => Kicking'
      BY <1>1, <3>1, KickingKeeps
    <3> QED BY <1>1, <2>1, <3>2, LaunchIdles DEF Busy
  <2>3. CASE UNCHANGED pumps /\ \/ To(s, "waiting") \/ To(s, "choose")
                                \/ ToWith(s, "existing", rt.term)
    <3>1. Kicking => Kicking'
      BY <1>1, <1>2, <2>1, <2>3, MoveKicks
    <3> QED BY <1>1, <2>1, <3>1, LaunchIdles DEF Busy
  <2> QED BY <1>3, <2>2, <2>3 DEF LaunchBegins
<1>4. CASE LaunchRetries(s)
  <2>1. /\ UNCHANGED <<job, queue, turn, term, worker, lost, past, pumps>>
        /\ launches[s].at = "woken"
        /\ launches' = [launches EXCEPT ![s].at = "start", ![s].hold = Held]
    BY <1>4 DEF LaunchRetries, NoNews, terminals, scheduler
  <2>2. launches[s] \in LaunchRec
    BY <1>1, <2>1 DEF LaunchTyped, Launch, LaunchRec, Idle
  <2>3. Others(s) /\ launches'[s].at = "start" /\ launches'[s].more = launches[s].more
    BY <1>1, <2>1, <2>2 DEF Others, LaunchTyped, LaunchRec
  <2>4. pumps' \in Nat /\ pumps <= pumps'
    BY <1>1, <2>1
  <2>5. Kicking => Kicking'
    BY <1>1, <2>3, <2>4, KickingKeeps
  <2> QED BY <1>1, <2>1, <2>5, LaunchIdles DEF Busy
<1>5. CASE LaunchFocuses(s)
  <2>1. UNCHANGED <<queue, turn, term, worker, lost, past>> /\ LaunchEnds(s)
    BY <1>5 DEF LaunchFocuses, NoNews, terminals
  <2>2. CASE UNCHANGED job
    BY <1>1, <2>1, <2>2, EndKicks, LaunchIdles DEF Busy
  <2>3. CASE Headed
    <3>1. "headed" \in ViewModes /\ "tui" \in Owners
      BY DEF ViewModes, Owners
    <3>2. job'.owner = "tui"
      BY <1>1, <2>3, <3>1, SaveViewTyped DEF Headed
    <3> QED BY <3>2, OwnedHolds
  <2> QED BY <1>5, <2>2, <2>3 DEF LaunchFocuses
<1>6. CASE LaunchChooses(s)
  <2>1. /\ UNCHANGED <<job, queue, turn, term, worker, lost>> /\ launches[s].at = "choose"
        /\ past'.gaveUp = past.gaveUp
    BY <1>1, <1>6 DEF LaunchChooses, NoNews, terminals, Past
  <2>2. CASE Ends(s)
    BY <1>1, <2>1, <2>2, EndKicks, LaunchIdles DEF Busy, Ends
  <2>3. CASE UNCHANGED pumps /\ \/ To(s, "yield") \/ To(s, "save")
                                \/ ToWith(s, "adopt", term.handle)
    <3>1. Kicking => Kicking'
      BY <1>1, <1>2, <2>1, <2>3, MoveKicks
    <3> QED BY <1>1, <2>1, <3>1, LaunchIdles DEF Busy
  <2> QED BY <1>6, <2>2, <2>3 DEF LaunchChooses
<1> QED BY <1>3, <1>4, <1>5, <1>6

LEMMA LaunchMiddleWork ==
  ASSUME ViewInv, WorkOk, NEW s \in Slots,
         LaunchYields(s) \/ YieldEnds(s) \/ LaunchSaves(s) \/ LaunchOpens(s) \/ LaunchReady(s)
  PROVE  WorkOk'
<1>1. /\ Typed /\ LaunchTyped /\ pumps \in Nat /\ term.handle \in Handles /\ TermTyped
      /\ past \in Past /\ job \in Job /\ (turn = Idle \/ turn \in Turn)
  BY TypedParts DEF ViewInv, Typed, TurnTyped, TermTyped, Term
<1>2. {"yielding", "save", "fail", "opening", "ready", "commit", "reconcile"} \subseteq Launching
  BY DEF Launching
<1>3. CASE LaunchYields(s)
  <2>1. /\ UNCHANGED <<job, queue, pumps, term, worker, lost, past>> /\ launches[s].at = "yield"
        /\ (To(s, "yielding") \/ To(s, "save"))
        /\ (turn' = turn \/ (Busy /\ turn' = [turn EXCEPT !.cancelled = TRUE]))
    BY <1>3 DEF LaunchYields, NoNews, terminals
  <2>2. Busy => Busy'
    BY <1>1, <2>1 DEF Busy, Turn, Idle
  <2>3. Kicking => Kicking'
    BY <1>1, <1>2, <2>1, MoveKicks
  <2> QED BY <1>1, <2>1, <2>2, <2>3, LaunchIdles
<1>4. CASE YieldEnds(s)
  <2>1. /\ UNCHANGED <<queue, turn, pumps, term, worker, lost>> /\ launches[s].at = "yielding"
        /\ (To(s, "save") \/ To(s, "fail"))
    BY <1>4 DEF YieldEnds, NoNews, terminals
  <2>2. Kicking => Kicking'
    BY <1>1, <1>2, <2>1, MoveKicks
  <2>3. CASE UNCHANGED <<job, past>>
    BY <1>1, <2>1, <2>2, <2>3, LaunchIdles DEF Busy
  <2>4. CASE /\ job' = [job EXCEPT !.pause = "execution_unknown"]
             /\ past' = [past EXCEPT !.gaveUp = past.gaveUp \/ Held]
    <3>1. job'.view = job.view /\ job'.owner = job.owner /\ past'.gaveUp = (past.gaveUp \/ Held)
      BY <1>1, <2>4 DEF Job, Past
    <3>2. CASE Held
      BY <3>1, <3>2 DEF WorkOk
    <3>3. CASE ~Held
      <4>1. MayPop' => MayPop
        BY <2>1, <3>1, <3>3 DEF MayPop, Busy, HeldByTUI, HeldByOwner, WorkerAlive, Alive
      <4>2. Ending => Ending'
        BY <2>1 DEF Ending, Alive
      <4> QED BY <2>2, <3>1, <4>1, <4>2, WorkKept
    <3> QED BY <3>2, <3>3
  <2> QED BY <1>4, <2>3, <2>4 DEF YieldEnds
<1>5. CASE LaunchSaves(s)
  <2>1. UNCHANGED <<queue, turn, term, worker, lost, past>>
    BY <1>5 DEF LaunchSaves, NoNews, terminals
  <2>2. CASE Ends(s) /\ UNCHANGED job
    BY <1>1, <2>1, <2>2, EndKicks, LaunchIdles DEF Busy, Ends
  <2>3. CASE SaveView("attaching", "headed", "handoff")
    <3>1. "attaching" \in ViewModes /\ "handoff" \in Owners
      BY DEF ViewModes, Owners
    <3>2. job'.owner = "handoff"
      BY <1>1, <2>3, <3>1, SaveViewTyped
    <3> QED BY <3>2, OwnedHolds
  <2> QED BY <1>5, <2>2, <2>3 DEF LaunchSaves
<1>6. CASE LaunchOpens(s)
  <2>1. /\ UNCHANGED <<job, queue, turn, pumps, lost, past>> /\ launches[s].at = "opening"
    BY <1>6 DEF LaunchOpens, NoNews, scheduler
  <2>2. CASE UNCHANGED terminals /\ (To(s, "fail") \/ ToWith(s, "ready", term.handle))
    <3>1. UNCHANGED <<term, worker>>
      BY <2>2 DEF terminals
    <3>2. Kicking => Kicking'
      BY <1>1, <1>2, <2>1, <2>2, MoveKicks
    <3> QED BY <1>1, <2>1, <3>1, <3>2, LaunchIdles DEF Busy
  <2>3. ASSUME NEW h \in Fresh(Window), NEW g \in IF WorkerAlive THEN {term.worker} ELSE Fresh(worker),
               worker' = [worker EXCEPT ![g] = "alive"], term' = [worker |-> g, handle |-> h]
        PROVE  WorkOk'
    <3>1. g \in 1..Workers
      <4>1. term.worker \in 0..Workers
        BY <1>1 DEF TermTyped, Term
      <4> QED BY <1>1, <4>1, Bounds DEF Fresh, TermTyped, WorkerAlive, Alive, None
    <3>2. term'.worker = g /\ worker'[g] = "alive" /\ g # None
      BY <1>1, <2>3, <3>1, Bounds DEF TermTyped, None
    <3>3. WorkerAlive'
      BY <3>2 DEF WorkerAlive, Alive
    <3> QED BY <3>3 DEF WorkOk, MayPop, HeldByTUI
  <2> QED BY <1>6, <2>2, <2>3 DEF LaunchOpens
<1>7. CASE LaunchReady(s)
  <2>1. /\ UNCHANGED <<job, queue, turn, term, worker, lost, past>>
        /\ launches[s].at \in {"adopt", "ready"}
    BY <1>7 DEF LaunchReady, NoNews
  <2>2. CASE Ends(s)
    BY <1>1, <2>1, <2>2, EndKicks, LaunchIdles DEF Busy, Ends
  <2>3. CASE UNCHANGED pumps /\ (To(s, "fail") \/ To(s, "commit") \/ To(s, "reconcile"))
    <3>1. Kicking => Kicking'
      BY <1>1, <1>2, <2>1, <2>3, MoveKicks
    <3> QED BY <1>1, <2>1, <3>1, LaunchIdles DEF Busy
  <2> QED BY <1>7, <2>2, <2>3 DEF LaunchReady
<1> QED BY <1>3, <1>4, <1>5, <1>6, <1>7

LEMMA LaunchLastWork ==
  ASSUME ViewInv, WorkOk, NEW s \in Slots,
         LaunchCommits(s) \/ LaunchReconciles(s) \/ LaunchFails(s) \/ LaunchFailed(s)
  PROVE  WorkOk'
<1>1. Typed /\ LaunchTyped /\ pumps \in Nat /\ past \in Past /\ job \in Job
  BY TypedParts DEF ViewInv
<1>2. "headless" \in ViewModes /\ "headed" \in ViewModes /\ "tui" \in Owners /\ "supervisor" \in Owners
  BY DEF ViewModes, Owners
<1>3. CASE LaunchCommits(s)
  <2>1. UNCHANGED <<queue, turn, term, worker, lost, past>> /\ LaunchEnds(s)
    BY <1>3 DEF LaunchCommits
  <2>2. CASE UNCHANGED job
    BY <1>1, <2>1, <2>2, EndKicks, LaunchIdles DEF Busy
  <2>3. CASE Headed
    <3>1. job'.owner = "tui"
      BY <1>1, <1>2, <2>3, SaveViewTyped DEF Headed
    <3> QED BY <3>1, OwnedHolds
  <2> QED BY <1>3, <2>2, <2>3 DEF LaunchCommits
<1>4. CASE LaunchReconciles(s)
  <2> DEFINE b == past.gaveUp \/ ~(rt.requested \/ WorkerAlive)
  <2>1. /\ UNCHANGED <<queue, turn, term, worker, lost>> /\ LaunchEnds(s)
        /\ past' = [past EXCEPT !.gaveUp = b]
    BY <1>4 DEF LaunchReconciles, NoNews, terminals, Ends
  <2>2. past'.gaveUp = b
    BY <1>1, <2>1 DEF Past
  <2>3. CASE UNCHANGED job
    BY <1>1, <2>1, <2>2, <2>3, EndKicks, LaunchIdles DEF Busy
  <2>4. CASE ~rt.requested /\ WorkerAlive /\ SaveView("headless", "headless", "tui")
    <3>1. job'.owner = "tui"
      BY <1>1, <1>2, <2>4, SaveViewTyped
    <3> QED BY <3>1, OwnedHolds
  <2>5. CASE ~rt.requested /\ ~WorkerAlive
    BY <2>2, <2>5 DEF WorkOk
  <2> QED BY <1>4, <2>3, <2>4, <2>5 DEF LaunchReconciles
<1>5. CASE LaunchFails(s)
  <2> DEFINE o == IF WorkerAlive THEN "tui" ELSE "supervisor"
  <2>1. /\ UNCHANGED <<job, queue, turn, pumps, past, term, worker, lost>> /\ launches[s].at = "fail"
        /\ launches' = [launches EXCEPT ![s].at = "failing", ![s].owner = o]
    BY <1>5 DEF LaunchFails, NoNews, terminals, scheduler
  <2> HIDE DEF o
  <2>2. launches[s] \in LaunchRec
    BY <1>1, <2>1 DEF LaunchTyped, Launch, LaunchRec, Idle
  <2>3. Others(s) /\ launches'[s].at = "failing" /\ launches'[s].more = launches[s].more
    BY <1>1, <2>1, <2>2 DEF Others, LaunchTyped, LaunchRec
  <2>4. pumps' \in Nat /\ pumps <= pumps'
    BY <1>1, <2>1
  <2>5. Kicking => Kicking'
    BY <1>1, <2>3, <2>4, KickingKeeps
  <2> QED BY <1>1, <2>1, <2>5, LaunchIdles DEF Busy
<1>6. CASE LaunchFailed(s)
  <2> DEFINE b == past.gaveUp \/ (Current(launches[s].epoch) /\ launches[s].owner = "supervisor")
  <2>1. /\ UNCHANGED <<queue, turn, term, worker, lost>> /\ LaunchEnds(s)
        /\ launches[s].at = "failing" /\ past' = [past EXCEPT !.gaveUp = b]
    BY <1>6 DEF LaunchFailed, NoNews, terminals
  <2>2. past'.gaveUp = b
    BY <1>1, <2>1 DEF Past
  <2>3. CASE UNCHANGED job
    BY <1>1, <2>1, <2>2, <2>3, EndKicks, LaunchIdles DEF Busy
  <2>4. CASE Current(launches[s].epoch) /\ SaveView("headless", "headless", launches[s].owner)
    <3>1. launches[s].owner \in Owners
      BY <1>1, <2>1 DEF LaunchTyped, Launch, Idle
    <3>2. job'.owner = launches[s].owner
      BY <1>1, <1>2, <2>4, <3>1, SaveViewTyped
    <3>3. CASE launches[s].owner = "supervisor"
      BY <2>2, <2>4, <3>3 DEF WorkOk
    <3>4. CASE launches[s].owner # "supervisor"
      BY <3>1, <3>2, <3>4, OwnedHolds DEF Owners
    <3> QED BY <3>3, <3>4
  <2> QED BY <1>6, <2>3, <2>4 DEF LaunchFailed
<1> QED BY <1>3, <1>4, <1>5, <1>6

\* A step of somebody else than the launches that leaves the workers alone.
LEMMA AsideWork ==
  ASSUME WorkOk, UNCHANGED <<launches, pumps, past, worker, lost>>, MayPop' => MayPop
  PROVE  WorkOk'
<1>1. (Kicking => Kicking') /\ (Ending => Ending')
  BY DEF Kicking, Ending, Alive
<1> QED BY <1>1, WorkKept

LEMMA ViewCallWork ==
  ASSUME ViewInv, WorkOk, Hide \/ DetachView \/ \E s \in Slots : Open(s) PROVE WorkOk'
<1>1. Typed /\ job \in Job
  BY TypedParts DEF ViewInv
<1>2. CASE Hide \/ DetachView
  <2>1. /\ UNCHANGED <<queue, turn, pumps, past, term, worker, launches, lost>>
        /\ (job' = job \/ job' = [job EXCEPT !.desired = "headless"])
    BY <1>2 DEF Hide, DetachView, scheduler, terminals
  <2>2. job'.view = job.view /\ job'.owner = job.owner /\ job'.pause = job.pause
    BY <1>1, <2>1 DEF Job
  <2> QED BY <2>1, <2>2, SameWork, AsideWork DEF Busy
<1>3. ASSUME NEW s \in Slots, Open(s) PROVE WorkOk'
  <2> DEFINE v == IF job.view = "headless" THEN "attaching" ELSE job.view
             o == IF job.owner = "supervisor" THEN "handoff" ELSE job.owner
  <2>1. v \in ViewModes /\ o \in Owners /\ o \in {"tui", "handoff"} /\ SaveView(v, "headed", o)
    BY <1>1, <1>3 DEF Job, ViewModes, Owners, Open
  <2> HIDE DEF v, o
  <2>2. job'.owner = o
    BY <1>1, <2>1, SaveViewTyped
  <2> QED BY <2>1, <2>2, OwnedHolds
<1> QED BY <1>2, <1>3

LEMMA DetachWork ==
  ASSUME ViewInv, WorkOk, Detaches PROVE WorkOk'
<1>1. Typed /\ job \in Job /\ pumps \in Nat
  BY TypedParts DEF ViewInv
<1>2. ASSUME NEW w \in watchers, WatchEnds(w) PROVE WorkOk'
  BY <1>2, SameWork, AsideWork DEF WatchEnds, scheduler, Busy
<1>3. ASSUME NEW c \in calls, DetachExpected(c) PROVE WorkOk'
  <2>1. UNCHANGED <<queue, turn, pumps, past, term, worker, launches, lost>>
    BY <1>3 DEF DetachExpected, scheduler, terminals
  <2>2. CASE job' = job \/ job' = [job EXCEPT !.desired = "headless"]
    <3>1. job'.view = job.view /\ job'.owner = job.owner /\ job'.pause = job.pause
      BY <1>1, <2>2 DEF Job
    <3> QED BY <2>1, <3>1, SameWork, AsideWork DEF Busy
  <2>3. CASE SaveView("detaching", "headless", job.owner)
    <3>1. "detaching" \in ViewModes /\ job.owner \in Owners
      BY <1>1 DEF ViewModes, Job
    <3>2. job'.view = "detaching"
      BY <1>1, <2>3, <3>1, SaveViewTyped
    <3> QED BY <3>2 DEF WorkOk, MayPop
  <2> QED BY <1>3, <2>2, <2>3 DEF DetachExpected
<1>4. ASSUME NEW f \in finishes, FinishCloses(f) PROVE WorkOk'
  BY <1>4, SameWork, AsideWork DEF FinishCloses, scheduler, Busy
<1>5. ASSUME NEW f \in finishes, FinishChecks(f) PROVE WorkOk'
  <2>1. UNCHANGED <<queue, turn, pumps, past, term, worker, launches, lost>>
    BY <1>5 DEF FinishChecks, scheduler, terminals
  <2>2. CASE UNCHANGED job
    BY <2>1, <2>2, SameWork, AsideWork DEF Busy
  <2>3. CASE SaveView("headless", job.desired, "tui")
    <3>1. "headless" \in ViewModes /\ "tui" \in Owners /\ job.desired \in {"headless", "headed"}
      BY <1>1 DEF ViewModes, Owners, Job
    <3>2. job'.owner = "tui"
      BY <1>1, <2>3, <3>1, SaveViewTyped
    <3> QED BY <3>2, OwnedHolds
  <2> QED BY <1>5, <2>2, <2>3 DEF FinishChecks
<1>6. ASSUME NEW f \in finishes, FinishReturns(f) PROVE WorkOk'
  <2>1. UNCHANGED <<queue, turn, past, term, worker, launches, lost>> /\ pumps' = Kicked(f)
    BY <1>6 DEF FinishReturns, terminals
  <2>2. CASE StillDetached(f)
    <3>1. MayPop' => pumps' = pumps + 1
      BY <2>1, <2>2 DEF MayPop, Kicked, Busy
    <3> QED BY <1>1, <3>1 DEF WorkOk, Kicking
  <2>3. CASE ~StillDetached(f)
    <3>1. PICK e \in Stalls : job' = [job EXCEPT !.view = job.view, !.owner = job.owner, !.stalled = e]
      <4>1. \A b \in BOOLEAN : (IF b THEN "session_load_failed"
                                ELSE IF job.stalled = "session_load_failed" THEN "" ELSE job.stalled) \in Stalls
        BY <1>1, Zenon DEF Job, Stalls
      <4> QED BY <1>6, <2>3, <4>1, Zenon DEF FinishReturns
    <3>2. job'.view = job.view /\ job'.owner = job.owner /\ job'.pause = job.pause
      BY <1>1, <3>1 DEF Job
    <3>3. pumps' = pumps
      BY <2>1, <2>3 DEF Kicked
    <3> QED BY <2>1, <3>2, <3>3, SameWork, AsideWork DEF Busy
  <2> QED BY <2>2, <2>3
<1> QED BY <1>2, <1>3, <1>4, <1>5, <1>6 DEF Detaches

LEMMA ProcessWork ==
  ASSUME ViewInv, WorkOk,
         \/ \E h \in 1..Viewers : ViewerConnects(h) \/ ViewerEnds(h)
         \/ \E g \in 1..Workers : WorkerDies(g) \/ WorkerExited(g)
  PROVE  WorkOk'
<1>1. Typed /\ TermTyped /\ past \in Past
  BY TypedParts DEF ViewInv
<1>2. ASSUME NEW h \in 1..Viewers, ViewerConnects(h) \/ ViewerEnds(h) PROVE WorkOk'
  BY <1>2, SameWork, AsideWork DEF ViewerConnects, ViewerEnds, NoNews, scheduler, Busy
<1>3. ASSUME NEW g \in 1..Workers, WorkerDies(g) PROVE WorkOk'
  <2>1. worker'[g] = "dead"
    BY <1>1, <1>3 DEF WorkerDies, TermTyped
  <2> QED BY <2>1 DEF WorkOk, Ending
<1>4. ASSUME NEW g \in 1..Workers, WorkerExited(g) PROVE WorkOk'
  <2>1. CASE HeldByOwner
    <3>1. job'.owner \in {"tui", "handoff"}
      BY <1>4, <2>1 DEF WorkerExited, HeldByOwner
    <3> QED BY <3>1, OwnedHolds
  <2>2. CASE ~HeldByOwner
    <3>1. past'.gaveUp
      BY <1>1, <1>4, <2>2 DEF WorkerExited, Past
    <3> QED BY <3>1 DEF WorkOk
  <2> QED BY <2>1, <2>2
<1> QED BY <1>2, <1>3, <1>4

LEMMA TurnWork ==
  ASSUME ViewInv, WorkOk,
         Accept \/ Pump \/ Asks \/ Decided \/ PromptReturns \/ Watchdog
  PROVE  WorkOk'
<1>1. /\ Typed /\ job \in Job /\ pumps \in Nat /\ (turn = Idle \/ turn \in Turn)
      /\ past \in Past /\ LaunchTyped
  BY TypedParts DEF ViewInv, Typed, TurnTyped
<1>2. CASE Accept
  <2>1. MayPop' => pumps' = pumps + 1
    BY <1>2 DEF Accept, MayPop, Busy
  <2> QED BY <1>1, <2>1 DEF WorkOk, Kicking
<1>3. CASE PumpSkips
  <2>1. MayPop' => MayPop
    BY <1>3, SameWork DEF PumpSkips, NoNews, terminals, Busy
  <2> QED BY <1>3, <2>1 DEF PumpSkips, WorkOk
<1>4. CASE PumpPops \/ RunItem \/ Decided \/ PromptReturns
  <2>1. CASE PumpPops
    BY <2>1 DEF PumpPops, WorkOk, MayPop, Busy
  <2>2. CASE RunItem \/ PromptReturns
    <3>1. turn \in Turn /\ \/ turn' = [turn EXCEPT !.at = "returned"]
                            \/ turn' = [turn EXCEPT !.at = "prompt"]
                            \/ turn' = [turn EXCEPT !.at = "returned", !.again = TRUE]
      BY <1>1, <2>2 DEF RunItem, PromptReturns, Idle
    <3>2. turn'.at # "idle"
      BY <3>1 DEF Turn
    <3> QED BY <3>2 DEF WorkOk, MayPop, Busy
  <2>3. CASE Decided
    BY <2>3 DEF Decided, scheduler, WorkOk, MayPop, Busy
  <2> QED BY <1>4, <2>1, <2>2, <2>3
<1>5. CASE Asks
  <2>1. Held'
    BY <1>1, <1>5 DEF Asks, Held, Job
  <2> QED BY <2>1 DEF WorkOk, MayPop
<1>6. CASE PumpFinishes
  <2> DEFINE more == queue # <<>>
  <2>1. CASE turn.again
    <3>1. pumps' > 0
      <4>1. CASE ~Relaunches
        <5>1. pumps' = pumps + 1 + (IF more THEN 1 ELSE 0)
          BY <1>6, <2>1, <4>1 DEF PumpFinishes
        <5> QED BY <1>1, <5>1
      <4>2. CASE Relaunches
        BY <1>1, <1>6, <2>1, <4>2 DEF PumpFinishes
      <4> QED BY <4>1, <4>2
    <3> QED BY <3>1 DEF WorkOk, Kicking
  <2>2. CASE ~turn.again /\ ~more
    BY <1>6, <2>2 DEF PumpFinishes, Requeued, WorkOk, MayPop
  <2>3. CASE ~turn.again /\ more /\ Relaunches
    <3>1. PICK s \in Slots : launches' = [launches EXCEPT ![s] = NewLaunch(rt.epoch, TRUE)]
      BY <1>6, <2>3 DEF PumpFinishes
    <3>2. launches'[s].at = "start" /\ launches'[s].more
      BY <1>1, <3>1 DEF LaunchTyped, NewLaunch
    <3> QED BY <3>2 DEF WorkOk, Kicking
  <2>4. CASE ~turn.again /\ more /\ ~Relaunches
    <3>1. pumps' = pumps + 0 + 1
      BY <1>6, <2>4 DEF PumpFinishes
    <3> QED BY <1>1, <3>1 DEF WorkOk, Kicking
  <2> QED BY <2>1, <2>2, <2>3, <2>4
<1>7. CASE Watchdog
  <2>1. job'.view = job.view /\ job'.owner = job.owner /\ job'.pause = job.pause
    BY <1>1, <1>7 DEF Watchdog, Job
  <2> QED BY <1>7, <2>1, SameWork, AsideWork DEF Watchdog, NoNews, scheduler, terminals, Busy
<1> QED BY <1>2, <1>3, <1>4, <1>5, <1>6, <1>7 DEF Pump

\* A lost connection ends the worker before the job may be popped again.
LEMMA LossWork ==
  ASSUME ViewInv, WorkOk, ConnectionLost \/ WorkersClosed \/ Disconnect PROVE WorkOk'
<1>1. /\ Typed /\ TermTyped /\ lost \in Loss /\ job \in Job /\ (turn = Idle \/ turn \in Turn)
      /\ term \in Term /\ \A g \in 0..Workers : g # None => g \in 1..Workers
  BY TypedParts DEF ViewInv, Typed, PastTyped, TurnTyped, TermTyped, None
<1>2. CASE ConnectionLost
  <2>1. /\ UNCHANGED <<job, queue, turn, pumps, past, launches, worker>> /\ lost.at = "no"
        /\ \E active \in BOOLEAN :
              lost' = [at |-> "release", job |-> active \/ HeldByOwner, of |-> term]
    BY <1>2 DEF ConnectionLost, scheduler
  <2>2. lost'.at = "release" /\ lost'.of = term
    BY <2>1
  <2>3. CASE WorkerAlive
    BY <2>1, <2>2, <2>3 DEF WorkOk, Ending, WorkerAlive, Alive
  <2>4. CASE ~WorkerAlive
    <3>1. MayPop' => MayPop
      BY <2>1, <2>4 DEF MayPop, Held, Busy, HeldByTUI, HeldByOwner
    <3>2. (Kicking => Kicking') /\ (Ending => Ending')
      BY <2>1 DEF Kicking, Ending
    <3> QED BY <2>1, <3>1, <3>2, WorkKept
  <2> QED BY <2>3, <2>4
<1>3. CASE WorkersClosed
  <2>1. /\ UNCHANGED <<job, queue, turn, pumps, past, launches, term>>
        /\ lost.at = "release" /\ lost.of \in Term
        /\ worker' = [g \in DOMAIN worker |->
                         IF g = lost.of.worker /\ Alive(g) THEN "dead" ELSE worker[g]]
    BY <1>1, <1>3 DEF WorkersClosed, scheduler, Loss
  <2>2. CASE Alive(lost.of.worker)
    <3>1. lost.of.worker \in 1..Workers
      BY <1>1, <2>1, <2>2 DEF Term, Alive
    <3>2. worker'[lost.of.worker] = "dead"
      BY <1>1, <2>1, <2>2, <3>1 DEF TermTyped
    <3> QED BY <3>1, <3>2 DEF WorkOk, Ending
  <2>3. CASE ~Alive(lost.of.worker)
    <3>1. worker' = worker
      BY <1>1, <2>1, <2>3 DEF TermTyped
    <3>2. (Kicking => Kicking') /\ (Ending => Ending')
      BY <2>1, <2>3, <3>1 DEF Kicking, Ending
    <3>3. MayPop' => MayPop
      BY <2>1, <3>1, SameWork DEF Busy
    <3> QED BY <2>1, <3>2, <3>3, WorkKept
  <2> QED BY <2>2, <2>3
<1>4. CASE Disconnect
  <2>1. UNCHANGED <<pumps, past, launches, term, worker>> /\ lost.at = "job"
    BY <1>4 DEF Disconnect
  <2>2. CASE lost.job
    <3>1. queue' = <<>>
      BY <1>4, <2>2 DEF Disconnect
    <3> QED BY <3>1 DEF WorkOk, MayPop
  <2>3. CASE ~lost.job
    <3>1. UNCHANGED <<job, queue, turn>>
      BY <1>4, <2>3 DEF Disconnect
    <3>2. MayPop' => MayPop
      BY <2>1, <3>1, SameWork DEF Busy
    <3>3. (Kicking => Kicking') /\ (Ending => Ending')
      BY <2>1 DEF Kicking, Ending
    <3> QED BY <2>1, <3>2, <3>3, WorkKept
  <2> QED BY <2>2, <2>3
<1> QED BY <1>2, <1>3, <1>4

LEMMA StepWork ==
  ASSUME ViewInv, WorkOk, [Next]_vars PROVE WorkOk'
<1>1. CASE UNCHANGED vars
  BY <1>1, SameWork, AsideWork DEF vars, Busy
<1>2. ASSUME NEW s \in Slots, Launches(s) PROVE WorkOk'
  BY <1>2, LaunchFirstWork, LaunchMiddleWork, LaunchLastWork DEF Launches
<1>3. CASE Hide \/ DetachView \/ \E s \in Slots : Open(s)
  BY <1>3, ViewCallWork
<1>4. CASE Detaches
  BY <1>4, DetachWork
<1>5. CASE \/ \E h \in 1..Viewers : ViewerConnects(h) \/ ViewerEnds(h)
           \/ \E g \in 1..Workers : WorkerDies(g) \/ WorkerExited(g)
  BY <1>5, ProcessWork
<1>6. CASE Accept \/ Pump \/ Asks \/ Decided \/ PromptReturns \/ Watchdog
  BY <1>6, TurnWork
<1>7. CASE ConnectionLost \/ WorkersClosed \/ Disconnect
  BY <1>7, LossWork
<1> QED BY <1>1, <1>2, <1>3, <1>4, <1>5, <1>6, <1>7 DEF Next, Exits

\* Whoever returns the input or leaves work behind gives the queue a pump (fifo.go:76,
\* view.go:742): once every goroutine is through, nothing waits that may be popped, unless
\* a launch or a worker's exit gave something up without a kick (view.go:339, :378, :404,
\* :746), for every number of requests, calls and workers.
THEOREM WorkIsPickedUp == Spec => []WorkGoesOn
<1>1. Init => WorkOk
  BY DEF Init, WorkOk, MayPop
<1>2. ViewInv /\ WorkOk /\ [Next]_vars => WorkOk'
  BY StepWork
<1>3. ViewInv /\ Going /\ WorkOk => WorkGoesOn
  <2> SUFFICES ASSUME ViewInv, Going, WorkOk, ~Working, MayPop PROVE past.gaveUp
    BY DEF WorkGoesOn, Quiet
  <2>1. Settled
    BY GoingSettles DEF Quiet
  <2>2. pumps = 0
    BY TypedParts DEF ViewInv, Working
  <2>3. ~Kicking
    BY <2>1, <2>2 DEF Kicking, Settled, Idle
  <2>4. ~Ending
    BY DEF Ending, Working
  <2> QED BY <2>3, <2>4 DEF WorkOk
<1> QED BY <1>1, <1>2, <1>3, ViewInvHolds, GoingHolds, PTL DEF Spec

=============================================================================
