---------------------------- MODULE ViewHandoff ----------------------------
(***************************************************************************)
(* How one job's session passes between the supervisor, which writes to it *)
(* over ACP, and an interactive TUI worker shown in a viewer window:       *)
(* supervisor/view.go, the TUI branches of fifo.go, watchdog.go, and the   *)
(* worker and viewer of terminal/managed.go and view_windows.go.           *)
(*                                                                         *)
(* Every goroutine is a record of its own: a launch (launchTUI) by slot, a *)
(* watcher (watchTUI) by its attach generation, a detach call by what made *)
(* it, a finishDetach by the epoch it was started in.  One step is one     *)
(* section under the coordinator's lock, or one blocking call.             *)
(***************************************************************************)
EXTENDS Naturals, Sequences, FiniteSets

CONSTANTS
    Views,      \* bound: calls of SetView, OpenTerminal and DetachView
    Slots,      \* launches that may run at the same time
    Workers,    \* bound: worker processes ever started
    Viewers,    \* bound: viewer windows ever opened
    Requests,   \* bound: requests accepted
    Faults,     \* bound: lost agent connections
    Approvals,  \* bound: native approvals a turn stops at
    Events      \* bound: all of these calls, requests, faults and approvals

ASSUME ViewAssumption ==
    /\ {Views, Workers, Viewers, Requests, Faults, Approvals, Events} \subseteq Nat
    /\ IsFiniteSet(Slots)

VARIABLES
    job,       \* the saved view fields and the pause reason of the row
    rt,        \* the in-memory runtime: request, epoch, terminal, generations
    queue,     \* the FIFO: accepted requests with the generation they carry
    turn,      \* the turn the pump runs
    pumps,     \* pump goroutines that have not yet tested the queue
    launches,  \* [Slots -> launch]: the launchTUI calls
    calls,     \* detachExpected calls that have not taken the lock
    finishes,  \* finishDetach goroutines
    watchers,  \* watchTUI goroutines
    term,      \* managedTerminals: the worker and viewer of the session
    worker,    \* [1..Workers -> state of the process]
    viewer,    \* [1..Viewers -> state of the window]
    lost,      \* connectionLost is between its steps
    past,      \* history: the requests in the order their prompts were sent, the
               \* last request for the view whose launch a turn put off for good, and
               \* whether, since a pump last looked at the queue, the input or an
               \* approval was given up without a kick
    used       \* the bounds used up: calls, requests, faults, approvals

vars == <<job, rt, queue, turn, pumps, launches, calls, finishes, watchers,
          term, worker, viewer, lost, past, used>>
terminals == <<term, worker, viewer>>
scheduler == <<queue, turn, pumps, past>>

None == 0
Handles == 0..Viewers
ViewModes == {"headless", "attaching", "headed", "detaching"}
Owners == {"supervisor", "handoff", "tui"}
Pauses == {"", "approval", "execution_unknown"}
Stalls == {"", "session_load_failed", "queue_nonempty_but_pump_idle",
           "stale_tui_owner", "detach_timeout"}

Job == [view : ViewModes, desired : {"headless", "headed"}, owner : Owners,
        pause : Pauses, stalled : Stalls]
Runtime == [requested : BOOLEAN, epoch : Nat, attaching : BOOLEAN,
            term : Handles, attachGen : Nat, watched : Nat,
            workerGen : 0..Workers, gen : Nat]
Idle == [at |-> "idle"]
Launching == {"start", "waiting", "woken", "existing", "choose", "adopt", "yield",
              "yielding", "save", "opening", "ready", "commit", "reconcile",
              "fail", "failing"}
\* `hold` and `owner` are what this call's own copy of the row says; `more` is
\* the pump's `more` when the pump itself relaunches (maybeAttachDesired).
Launch == {Idle} \cup
    [at : Launching, epoch : Nat, hold : BOOLEAN, h : Handles,
     owner : Owners, more : BOOLEAN]

Alive(g) == IF g = None THEN FALSE ELSE worker[g] = "alive"
\* Exec.WorkerAlive: the worker the manager knows, if its process runs.
WorkerAlive == Alive(term.worker)
\* handleAlive, ExistingResume: a viewer has a PID from its hello to its end.
HandleAlive(h) == IF h = None THEN FALSE ELSE viewer[h].at = "ready"
\* waitHeadedReady: WorkerReady and a PID.
HeadedReady(h) == HandleAlive(h) /\ Alive(viewer[h].worker)
Current(epoch) == rt.requested /\ rt.epoch = epoch
Busy == turn.at # "idle"
\* One more of the bounded events.
MayHappen(count, bound) == /\ count < bound
                    /\ used.views + used.requests + used.faults + used.approvals < Events
HeldByOwner_Handoff == job.owner = "handoff"
HeldByOwner == job.owner \in {"tui", "handoff"}
Held == job.pause = "approval"

SaveView(view, desired, owner) ==
    job' = [job EXCEPT !.view = view, !.desired = desired, !.owner = owner]

\* A handle's Close: the window ends; a dead worker leaves the manager with it.
Closed(h) == IF h = None THEN viewer ELSE [viewer EXCEPT ![h].at = "closed"]
NoNews == UNCHANGED <<calls, finishes, watchers, lost, used>>

Init ==
    /\ job = [view |-> "headless", desired |-> "headless", owner |-> "supervisor",
              pause |-> "", stalled |-> ""]
    /\ rt = [requested |-> FALSE, epoch |-> 0, attaching |-> FALSE, term |-> None,
             attachGen |-> 0, watched |-> 0, workerGen |-> None, gen |-> 0]
    /\ queue = <<>> /\ turn = Idle /\ pumps = 0
    /\ launches = [s \in Slots |-> Idle]
    /\ calls = {} /\ finishes = {} /\ watchers = {}
    /\ term = [worker |-> None, handle |-> None]
    /\ worker = [g \in 1..Workers |-> "unused"]
    /\ viewer = [h \in 1..Viewers |-> [at |-> "unused", worker |-> None]]
    /\ lost = [at |-> "no"] /\ past = [sent |-> <<>>, dropped |-> 0, gaveUp |-> FALSE]
    /\ used = [views |-> 0, requests |-> 0, faults |-> 0, approvals |-> 0]

-----------------------------------------------------------------------------
(* The user's view calls.                                                  *)

NewLaunch(epoch, more) ==
    [at |-> "start", epoch |-> epoch, hold |-> Held, h |-> None,
     owner |-> "supervisor", more |-> more]

\* SetView(headed) and OpenTerminal, up to the call of launchTUI.
Open(s) ==
    /\ MayHappen(used.views, Views) /\ launches[s] = Idle
    /\ rt' = [rt EXCEPT !.requested = TRUE, !.epoch = @ + 1]
    /\ SaveView(IF job.view = "headless" THEN "attaching" ELSE job.view, "headed",
                IF job.owner = "supervisor" THEN "handoff" ELSE job.owner)
    /\ launches' = [launches EXCEPT ![s] = NewLaunch(rt.epoch + 1, FALSE)]
    /\ used' = [used EXCEPT !.views = @ + 1]
    /\ UNCHANGED <<scheduler, terminals, calls, finishes, watchers, lost>>

\* SetView(headless): its first section; detachExpected follows.
Hide ==
    /\ MayHappen(used.views, Views)
    /\ rt' = [rt EXCEPT !.requested = FALSE, !.epoch = @ + 1]
    /\ job' = [job EXCEPT !.desired = "headless"]
    /\ calls' = calls \cup {[by |-> "hide", key |-> rt.epoch + 1]}
    /\ used' = [used EXCEPT !.views = @ + 1]
    /\ UNCHANGED <<scheduler, terminals, launches, finishes, watchers, lost>>

\* DetachView: a detach bound to no epoch.
DetachView ==
    /\ MayHappen(used.views, Views)
    /\ calls' = calls \cup {[by |-> "detach", key |-> used.views]}
    /\ used' = [used EXCEPT !.views = @ + 1]
    /\ UNCHANGED <<scheduler, terminals, job, rt, launches, finishes, watchers, lost>>

-----------------------------------------------------------------------------
(* launchTUI, one action per section; s is the call.                       *)

To(s, at) == launches' = [launches EXCEPT ![s].at = at]
ToWith(s, at, h) == launches' = [launches EXCEPT ![s].at = at, ![s].h = h]

\* The deferred end of launchTUI: attachDone is closed and wakes the waiters;
\* a launch made by the pump lets its loop go on.
LaunchEnds(s) ==
    /\ launches' = [t \in Slots |->
           IF t = s THEN Idle
           ELSE IF launches[t].at = "waiting" THEN [launches[t] EXCEPT !.at = "woken"]
           ELSE launches[t]]
    /\ pumps' = IF launches[s].more THEN pumps + 1 ELSE pumps
Ends(s) == /\ LaunchEnds(s)
           /\ rt' = [rt EXCEPT !.attaching = FALSE]

AttachTaken_Never == FALSE
AttachTaken == rt.attaching
LaunchBegins(s) ==
    /\ launches[s].at = "start"
    /\ \/ /\ ~Current(launches[s].epoch)
          /\ launches' = [launches EXCEPT ![s] = Idle]
          /\ pumps' = IF launches[s].more THEN pumps + 1 ELSE pumps
          /\ UNCHANGED rt
       \/ /\ Current(launches[s].epoch) /\ AttachTaken
          /\ To(s, "waiting") /\ UNCHANGED <<rt, pumps>>
       \/ /\ Current(launches[s].epoch) /\ ~AttachTaken
          /\ rt' = [rt EXCEPT !.attaching = TRUE,
                              !.term = IF HandleAlive(rt.term) THEN rt.term ELSE None]
          /\ IF HandleAlive(rt.term) THEN ToWith(s, "existing", rt.term)
                                     ELSE To(s, "choose")
          /\ UNCHANGED pumps
    /\ NoNews /\ UNCHANGED <<job, queue, turn, past, terminals>>

\* The waiter calls launchTUI again with a fresh copy of the row.
LaunchRetries(s) ==
    /\ launches[s].at = "woken"
    /\ launches' = [launches EXCEPT ![s].at = "start", ![s].hold = Held]
    /\ NoNews /\ UNCHANGED <<job, rt, scheduler, terminals>>

\* markHeadedLocked saves the row; it does not ask whether a turn runs.
Headed == SaveView("headed", "headed", "tui")

\* An own terminal is alive: focus it, wait for it, mark the job headed.
LaunchFocuses(s) ==
    LET l == launches[s] IN
    /\ l.at = "existing"
    /\ LaunchEnds(s)
    /\ IF HeadedReady(l.h) /\ Current(l.epoch)
       THEN rt' = [rt EXCEPT !.attaching = FALSE, !.workerGen = term.worker] /\ Headed
       ELSE rt' = [rt EXCEPT !.attaching = FALSE] /\ UNCHANGED job
    /\ NoNews /\ UNCHANGED <<queue, turn, past, terminals>>

\* ExistingResume; deferInteractiveAttach; the first section of yieldInFlightTurn,
\* which cancels the turn in flight if the copy says that it is at an approval.
\* A deferred launch ends, whatever the view is.
LaunchChooses(s) ==
    LET l == launches[s] IN
    /\ l.at = "choose"
    /\ \/ /\ HandleAlive(term.handle)
          /\ ToWith(s, "adopt", term.handle) /\ UNCHANGED <<rt, pumps, past>>
       \/ /\ ~HandleAlive(term.handle) /\ Busy /\ ~l.hold
          /\ Ends(s)
          /\ past' = IF Current(l.epoch) /\ job.view # "attaching"
                     THEN [past EXCEPT !.dropped = l.epoch] ELSE past
       \/ /\ ~HandleAlive(term.handle) /\ (l.hold \/ ~Busy)
          /\ To(s, IF l.hold THEN "yield" ELSE "save") /\ UNCHANGED <<rt, pumps, past>>
    /\ NoNews /\ UNCHANGED <<job, queue, turn, terminals>>

\* The cancelled turn keeps its item; no queued item is stamped anew.
YieldedGen_Down == rt.gen - 1
YieldedGen == rt.gen + 1
LaunchYields(s) ==
    /\ launches[s].at = "yield"
    /\ IF Busy
       THEN /\ rt' = [rt EXCEPT !.gen = YieldedGen]
            /\ turn' = [turn EXCEPT !.cancelled = TRUE]
            /\ To(s, "yielding")
       ELSE To(s, "save") /\ UNCHANGED <<rt, turn>>
    /\ NoNews /\ UNCHANGED <<job, queue, pumps, past, terminals>>

\* The poll: the turn is gone (markYieldedRequest; then the Cancel's own error
\* decides) or the deadline has passed.
YieldEnds(s) ==
    /\ launches[s].at = "yielding"
    /\ \/ ~Busy /\ job' = [job EXCEPT !.pause = "execution_unknown"]
          /\ past' = [past EXCEPT !.gaveUp = @ \/ Held]
          /\ \E at \in {"save", "fail"} : To(s, at)
       \/ Busy /\ To(s, "fail") /\ UNCHANGED <<job, past>>
    /\ NoNews /\ UNCHANGED <<rt, queue, turn, pumps, terminals>>

\* saveRequestedView.
LaunchSaves(s) ==
    /\ launches[s].at = "save"
    /\ IF Current(launches[s].epoch)
       THEN /\ SaveView("attaching", "headed", "handoff")
            /\ To(s, "opening") /\ UNCHANGED <<rt, pumps>>
       ELSE Ends(s) /\ UNCHANGED job
    /\ NoNews /\ UNCHANGED <<queue, turn, past, terminals>>

WindowOpen == IF term.handle = None THEN FALSE
              ELSE viewer[term.handle].at \in {"opening", "ready"}
Fresh(states) == {i \in DOMAIN states : states[i] = "unused"}
Window == [h \in DOMAIN viewer |-> viewer[h].at]

\* OpenResume: the live window again, or a new one on the session's worker,
\* which is started if none runs; or an error.
LaunchOpens(s) ==
    /\ launches[s].at = "opening"
    /\ \/ /\ WindowOpen
          /\ ToWith(s, "ready", term.handle)
          /\ rt' = [rt EXCEPT !.workerGen = term.worker]
          /\ UNCHANGED terminals
       \/ /\ ~WindowOpen
          /\ \E h \in Fresh(Window),
                g \in IF WorkerAlive THEN {term.worker} ELSE Fresh(worker) :
                /\ \A k \in Fresh(Window) : h <= k
                /\ WorkerAlive \/ \A k \in Fresh(worker) : g <= k
                /\ worker' = [worker EXCEPT ![g] = "alive"]
                /\ viewer' = [viewer EXCEPT ![h] = [at |-> "opening", worker |-> g]]
                /\ term' = [worker |-> g, handle |-> h]
                /\ rt' = [rt EXCEPT !.workerGen = g]
                /\ ToWith(s, "ready", h)
       \/ To(s, "fail") /\ UNCHANGED <<rt, terminals>>
    /\ NoNews /\ UNCHANGED <<job, scheduler>>

\* waitHeadedReady after opening or adopting, and the check that follows it.
LaunchReady(s) ==
    LET l == launches[s] IN
    /\ l.at \in {"adopt", "ready"}
    /\ \/ /\ ~HeadedReady(l.h)
          /\ viewer' = Closed(l.h) /\ To(s, "fail") /\ UNCHANGED <<rt, pumps>>
       \/ /\ HeadedReady(l.h) /\ (l.at = "adopt" \/ Current(l.epoch))
          /\ To(s, "commit") /\ UNCHANGED <<viewer, rt, pumps>>
       \/ /\ HeadedReady(l.h) /\ l.at = "ready" /\ ~rt.requested
          /\ viewer' = Closed(l.h) /\ To(s, "reconcile") /\ UNCHANGED <<rt, pumps>>
       \/ /\ HeadedReady(l.h) /\ l.at = "ready" /\ rt.requested /\ rt.epoch # l.epoch
          /\ Ends(s) /\ UNCHANGED viewer
    /\ NoNews /\ UNCHANGED <<job, queue, turn, past, term, worker>>

\* commitHeaded: the terminal becomes the runtime's, watched under a new
\* generation; what it replaces is cancelled and closed.
Watching_Nobody(h, gen) == {}
Watching(h, gen) == {[h |-> h, gen |-> gen, cancelled |-> FALSE]}
Cancelled(gen) == {IF w.gen = gen THEN [w EXCEPT !.cancelled = TRUE] ELSE w : w \in watchers}
LaunchCommits(s) ==
    LET l == launches[s]  gen == rt.attachGen + 1 IN
    /\ l.at = "commit"
    /\ LaunchEnds(s)
    /\ IF Current(l.epoch)
       THEN /\ rt' = [rt EXCEPT !.attaching = FALSE, !.term = l.h, !.attachGen = gen,
                                !.watched = gen, !.workerGen = term.worker]
            /\ viewer' = IF rt.term # l.h THEN Closed(rt.term) ELSE viewer
            /\ watchers' = Cancelled(rt.watched) \cup Watching(l.h, gen)
            /\ Headed
       ELSE /\ rt' = [rt EXCEPT !.attaching = FALSE]
            /\ viewer' = Closed(l.h) /\ UNCHANGED <<watchers, job>>
    /\ UNCHANGED <<queue, turn, past, term, worker, calls, finishes, lost, used>>

\* reconcileClosedLaunch: nobody asked for the terminal any more.  No kick.
LaunchReconciles(s) ==
    /\ launches[s].at = "reconcile"
    /\ Ends(s)
    /\ IF rt.requested THEN UNCHANGED job
       ELSE SaveView("headless", "headless", IF WorkerAlive THEN "tui" ELSE "supervisor")
    /\ past' = [past EXCEPT !.gaveUp = @ \/ ~(rt.requested \/ WorkerAlive)]
    /\ NoNews /\ UNCHANGED <<queue, turn, terminals>>

\* failHeadless: the owner is chosen before the lock is taken.
LaunchFails(s) ==
    /\ launches[s].at = "fail"
    /\ launches' = [launches EXCEPT ![s].at = "failing",
                        ![s].owner = IF WorkerAlive THEN "tui" ELSE "supervisor"]
    /\ rt' = IF WorkerAlive THEN [rt EXCEPT !.workerGen = term.worker] ELSE rt
    /\ NoNews /\ UNCHANGED <<job, scheduler, terminals>>

\* Its section: only the current request is withdrawn.  No kick.
LaunchFailed(s) ==
    /\ launches[s].at = "failing"
    /\ LaunchEnds(s)
    /\ IF Current(launches[s].epoch)
       THEN /\ rt' = [rt EXCEPT !.attaching = FALSE, !.requested = FALSE, !.epoch = @ + 1]
            /\ SaveView("headless", "headless", launches[s].owner)
       ELSE rt' = [rt EXCEPT !.attaching = FALSE] /\ UNCHANGED job
    /\ past' = [past EXCEPT !.gaveUp =
                    @ \/ (Current(launches[s].epoch) /\ launches[s].owner = "supervisor")]
    /\ NoNews /\ UNCHANGED <<queue, turn, terminals>>

-----------------------------------------------------------------------------
(* Watching and detaching.                                                 *)

\* watchTUI: the window ended, or its watch was cancelled; only the watcher of
\* the runtime's terminal detaches.
WatchEnds(w) ==
    /\ w.cancelled \/ viewer[w.h].at = "closed"
    /\ watchers' = watchers \ {w}
    /\ viewer' = Closed(w.h)
    /\ IF rt.term = w.h /\ rt.attachGen = w.gen
       THEN /\ rt' = [rt EXCEPT !.term = None, !.watched = 0]
            /\ calls' = calls \cup {[by |-> "watch", key |-> w.gen]}
       ELSE UNCHANGED <<rt, calls>>
    /\ UNCHANGED <<job, scheduler, term, worker, launches, finishes, lost, used>>

\* detachExpected.  Only a hide is bound to an epoch.
DetachStale(c) == c.by = "hide" /\ rt.epoch # c.key
DetachExpected(c) ==
    LET fromClose == c.by \in {"watch", "exit"} IN
    /\ calls' = calls \ {c}
    /\ \/ DetachStale(c) /\ UNCHANGED <<rt, job, watchers, finishes>>
       \/ /\ ~DetachStale(c)
          /\ ~fromClose /\ job.view = "headless" /\ job.owner = "supervisor"
          /\ rt' = [rt EXCEPT !.requested = FALSE, !.epoch = @ + 1]
          /\ job' = [job EXCEPT !.desired = "headless"]
          /\ UNCHANGED <<watchers, finishes>>
       \/ /\ ~DetachStale(c)
          /\ fromClose \/ job.view # "headless" \/ job.owner # "supervisor"
          /\ LET gen == IF fromClose THEN rt.attachGen ELSE rt.attachGen + 1 IN
                /\ rt' = [rt EXCEPT !.requested = FALSE, !.epoch = @ + 1, !.watched = 0,
                             !.attachGen = gen, !.term = IF fromClose THEN @ ELSE None]
                /\ finishes' = finishes \cup
                       {[key |-> rt.epoch + 1, h |-> rt.term, gen |-> gen, at |-> "close"]}
          /\ SaveView("detaching", "headless", job.owner)
          /\ watchers' = Cancelled(rt.watched)
    /\ UNCHANGED <<scheduler, terminals, launches, lost, used>>

FinishTo(f, at) == finishes' = (finishes \ {f}) \cup {[f EXCEPT !.at = at]}
\* finishDetach acts only if nobody attached or asked for the view since.
StillDetached(f) == rt.attachGen = f.gen /\ ~rt.requested

FinishCloses(f) ==
    /\ f.at = "close"
    /\ viewer' = Closed(f.h) /\ FinishTo(f, "check")
    /\ UNCHANGED <<job, rt, scheduler, launches, calls, watchers, term, worker, lost, used>>

\* Its first section: a worker that still runs keeps the input.
FinishChecks(f) ==
    /\ f.at = "check"
    /\ IF StillDetached(f) /\ ~WorkerAlive
       THEN FinishTo(f, "load") /\ UNCHANGED job
       ELSE /\ finishes' = finishes \ {f}
            /\ IF StillDetached(f) THEN SaveView("headless", job.desired, "tui")
                                   ELSE UNCHANGED job
    /\ UNCHANGED <<rt, scheduler, terminals, launches, calls, watchers, lost, used>>

\* The session is loaded again, or that fails and is only reported; then its
\* second section, and the kick.
Kicked_Never(f) == pumps
Kicked(f) == IF ~StillDetached(f) \/ Busy \/ queue = <<>> THEN pumps ELSE pumps + 1
FinishReturns(f) ==
    /\ f.at = "load"
    /\ finishes' = finishes \ {f}
    /\ \E failed \in BOOLEAN :
          job' = [job EXCEPT
             !.view = IF StillDetached(f) THEN "headless" ELSE @,
             !.owner = IF StillDetached(f) THEN "supervisor" ELSE @,
             !.stalled = IF failed THEN "session_load_failed"
                         ELSE IF @ = "session_load_failed" THEN "" ELSE @]
    /\ pumps' = Kicked(f)
    /\ UNCHANGED <<rt, queue, turn, past, terminals, launches, calls, watchers, lost, used>>

-----------------------------------------------------------------------------
(* The worker and its viewer windows.                                      *)

\* The hello reaches the window's pipe.
ViewerConnects(h) ==
    /\ viewer[h].at = "opening"
    /\ viewer' = [viewer EXCEPT ![h].at = "ready"]
    /\ NoNews /\ UNCHANGED <<job, rt, scheduler, launches, term, worker>>

\* The user closes it, its hello never comes (8 s), or the worker's console is gone.
ViewerEnds(h) ==
    /\ viewer[h].at \in {"opening", "ready"}
    /\ viewer' = Closed(h)
    /\ NoNews /\ UNCHANGED <<job, rt, scheduler, launches, term, worker>>

\* The TUI process ends: quit by its user, or crashed.
WorkerDies(g) ==
    /\ worker[g] = "alive"
    /\ worker' = [worker EXCEPT ![g] = "dead"]
    /\ NoNews /\ UNCHANGED <<job, rt, scheduler, launches, term, viewer>>

\* Its exit goroutine takes it off the manager's map and gives notice
\* (terminalWorkerExited, which reads the owner and the generation without the lock).
WorkerExited(g) ==
    /\ worker[g] = "dead"
    /\ worker' = [worker EXCEPT ![g] = "gone"]
    /\ term' = [term EXCEPT !.worker = IF @ = g THEN None ELSE @]
    /\ IF HeldByOwner /\ rt.workerGen = g
       THEN calls' = calls \cup {[by |-> "exit", key |-> g]} /\ UNCHANGED past
       ELSE past' = [past EXCEPT !.gaveUp = TRUE] /\ UNCHANGED calls
    /\ UNCHANGED <<job, rt, queue, turn, pumps, launches, finishes, watchers, viewer, lost, used>>

-----------------------------------------------------------------------------
(* Requests, the pump and its turns, as far as the view concerns them.     *)

\* Followup: refused while a plan waits for its decision; otherwise queued,
\* also while the TUI holds the session.
Accept ==
    /\ MayHappen(used.requests, Requests) /\ ~Held
    /\ used' = [used EXCEPT !.requests = @ + 1]
    /\ queue' = Append(queue, [req |-> used.requests + 1, gen |-> rt.gen])
    /\ pumps' = IF Busy THEN pumps ELSE pumps + 1
    /\ UNCHANGED <<job, rt, turn, past, terminals, launches, calls, finishes, watchers, lost>>

\* sessionHeldByTUI.
HeldByTUI == HeldByOwner \/ WorkerAlive
MayPop == ~Busy /\ queue # <<>> /\ ~Held /\ job.view # "detaching" /\ ~HeldByTUI
Looked == pumps' = pumps - 1 /\ past' = [past EXCEPT !.gaveUp = FALSE]

PumpSkips ==
    /\ pumps > 0 /\ ~MayPop
    /\ Looked
    /\ NoNews /\ UNCHANGED <<job, rt, queue, turn, terminals, launches>>

PumpPops ==
    /\ pumps > 0 /\ MayPop
    /\ Looked
    /\ queue' = Tail(queue)
    /\ turn' = [at |-> "popped", item |-> Head(queue), cancelled |-> FALSE, again |-> FALSE]
    /\ job' = [job EXCEPT !.pause = ""]
    /\ NoNews /\ UNCHANGED <<rt, terminals, launches>>

\* runItem: a view that began to detach sends the item back; an item of an older
\* generation is dropped; the others are sent.
RunItem ==
    /\ turn.at = "popped"
    /\ \/ /\ job.view = "detaching"
          /\ turn' = [turn EXCEPT !.at = "returned", !.again = TRUE] /\ UNCHANGED past
       \/ /\ job.view # "detaching" /\ turn.item.gen # rt.gen
          /\ turn' = [turn EXCEPT !.at = "returned"] /\ UNCHANGED past
       \/ /\ job.view # "detaching" /\ turn.item.gen = rt.gen
          /\ turn' = [turn EXCEPT !.at = "prompt"] /\ past' = [past EXCEPT !.sent = Append(@, turn.item.req)]
    /\ NoNews /\ UNCHANGED <<job, rt, queue, pumps, terminals, launches>>

\* The agent asks for an approval and the turn waits; then it is decided.
Asks ==
    /\ turn.at = "prompt" /\ ~turn.cancelled /\ ~Held /\ MayHappen(used.approvals, Approvals)
    /\ job' = [job EXCEPT !.pause = "approval"]
    /\ used' = [used EXCEPT !.approvals = @ + 1]
    /\ UNCHANGED <<rt, scheduler, terminals, launches, calls, finishes, watchers, lost>>

Decided ==
    /\ Held /\ turn.at = "prompt"
    /\ job' = [job EXCEPT !.pause = ""]
    /\ NoNews /\ UNCHANGED <<rt, scheduler, terminals, launches>>

\* The prompt returns: answered, unless it waits for a decision, or cut off.
PromptReturns ==
    /\ turn.at = "prompt" /\ (~Held \/ turn.cancelled)
    /\ turn' = [turn EXCEPT !.at = "returned"]
    /\ NoNews /\ UNCHANGED <<job, rt, queue, pumps, past, terminals, launches>>

\* The pump's last section: an item sent back goes to the end of the queue.
Requeued == IF turn.again THEN Append(queue, [turn.item EXCEPT !.gen = rt.gen]) ELSE queue
Relaunches_Never == FALSE
\* maybeAttachDesired: a launch that was deferred starts now, inside the pump.
Relaunches == rt.requested /\ job.desired = "headed" /\ job.view = "attaching"
PumpFinishes ==
    LET more == queue # <<>> IN
    /\ turn.at = "returned"
    /\ turn' = Idle
    /\ queue' = Requeued
    /\ \/ /\ Relaunches
          /\ \E s \in Slots : /\ launches[s] = Idle
                              /\ launches' = [launches EXCEPT ![s] = NewLaunch(rt.epoch, more)]
          /\ pumps' = IF turn.again THEN pumps + 1 ELSE pumps
       \/ /\ ~Relaunches
          /\ pumps' = pumps + (IF turn.again THEN 1 ELSE 0) + (IF more THEN 1 ELSE 0)
          /\ UNCHANGED launches
    /\ NoNews /\ UNCHANGED <<job, rt, past, terminals>>

-----------------------------------------------------------------------------
(* A lost connection, and the watchdog.                                    *)

\* connectionLost: whether the job is concerned is read first, by its owner or by the
\* row's state, which is not modelled; then the manager forgets its worker and window,
ConnectionLost ==
    /\ MayHappen(used.faults, Faults) /\ lost.at = "no"
    /\ \E active \in BOOLEAN :
          lost' = [at |-> "release", job |-> active \/ HeldByOwner, of |-> term]
    /\ used' = [used EXCEPT !.faults = @ + 1]
    /\ term' = [worker |-> None, handle |-> None]
    /\ UNCHANGED <<job, rt, scheduler, worker, viewer, launches, calls, finishes, watchers>>

\* closes them,
WorkersClosed ==
    /\ lost.at = "release"
    /\ lost' = [lost EXCEPT !.at = "job"]
    /\ worker' = [g \in DOMAIN worker |->
                     IF g = lost.of.worker /\ Alive(g) THEN "dead" ELSE worker[g]]
    /\ viewer' = Closed(lost.of.handle)
    /\ UNCHANGED <<job, rt, scheduler, term, launches, calls, finishes, watchers, used>>

\* and disconnects the job (disconnectLocked).
Disconnect ==
    /\ lost.at = "job"
    /\ lost' = [at |-> "no"]
    /\ IF ~lost.job THEN UNCHANGED <<job, rt, queue, turn, viewer, watchers>>
       ELSE /\ rt' = [rt EXCEPT !.gen = @ + 1, !.term = None, !.requested = FALSE,
                                !.attachGen = @ + 1, !.watched = 0]
            /\ queue' = <<>>
            /\ turn' = IF Busy THEN [turn EXCEPT !.cancelled = TRUE] ELSE turn
            /\ viewer' = Closed(rt.term)
            /\ watchers' = Cancelled(rt.watched)
            /\ SaveView("headless", "headless", "supervisor")
    /\ UNCHANGED <<pumps, past, term, worker, launches, calls, finishes, used>>

\* What checkJobStall sees now, if anything, of what is modelled here: its last case,
\* executing_without_turn, is about the row's state.
Symptom ==
    IF queue # <<>> /\ ~Busy /\ job.owner = "supervisor" /\ job.pause = ""
    THEN "queue_nonempty_but_pump_idle"
    ELSE IF queue # <<>> /\ job.owner # "supervisor" /\ ~WorkerAlive /\ job.view # "attaching"
    THEN "stale_tui_owner"
    ELSE IF job.view = "detaching" THEN "detach_timeout" ELSE ""

\* A symptom that has lasted (3 to 5 s) is reported; without one the report is
\* withdrawn.  A round that finds what is reported already changes nothing.
Watchdog ==
    /\ job.stalled # Symptom
    /\ job' = [job EXCEPT !.stalled = Symptom]
    /\ NoNews /\ UNCHANGED <<rt, scheduler, terminals, launches>>

-----------------------------------------------------------------------------
Launches(s) ==
    \/ LaunchBegins(s) \/ LaunchRetries(s) \/ LaunchFocuses(s) \/ LaunchChooses(s)
    \/ LaunchYields(s) \/ YieldEnds(s) \/ LaunchSaves(s) \/ LaunchOpens(s)
    \/ LaunchReady(s) \/ LaunchCommits(s) \/ LaunchReconciles(s)
    \/ LaunchFails(s) \/ LaunchFailed(s)
Detaches ==
    \/ \E w \in watchers : WatchEnds(w)
    \/ \E c \in calls : DetachExpected(c)
    \/ \E f \in finishes : FinishCloses(f) \/ FinishChecks(f) \/ FinishReturns(f)
Exits == \E g \in 1..Workers : WorkerExited(g)
Pump == PumpSkips \/ PumpPops \/ RunItem \/ PumpFinishes

Next ==
    \/ \E s \in Slots : Open(s) \/ Launches(s)
    \/ Hide \/ DetachView \/ Detaches
    \/ \E h \in 1..Viewers : ViewerConnects(h) \/ ViewerEnds(h)
    \/ \E g \in 1..Workers : WorkerDies(g)
    \/ Exits \/ Accept \/ Pump \/ Asks \/ Decided \/ PromptReturns
    \/ ConnectionLost \/ WorkersClosed \/ Disconnect \/ Watchdog

Spec == Init /\ [][Next]_vars

\* What happens without a user, an agent's question or a fault.  A prompt that is
\* not waiting for a decision returns; a window learns that its worker is gone.
System ==
    \/ \E s \in Slots : Launches(s)
    \/ Detaches \/ Exits \/ Pump \/ PromptReturns \/ WorkersClosed \/ Disconnect \/ Watchdog
    \/ \E h \in 1..Viewers : ViewerEnds(h) /\ ~Alive(viewer[h].worker)

-----------------------------------------------------------------------------
(* Properties.                                                             *)

\* The type invariant: every variable holds what the program can put there.
TypeOK ==
    /\ job \in Job /\ rt \in Runtime /\ pumps \in Nat
    /\ queue \in Seq([req : 1..Requests, gen : Nat])
    /\ launches \in [Slots -> Launch]
    /\ turn = Idle \/ turn \in
          [at : {"popped", "prompt", "returned"}, item : [req : 1..Requests, gen : Nat],
           cancelled : BOOLEAN, again : BOOLEAN]
    /\ calls \subseteq [by : {"hide", "detach", "watch", "exit"}, key : Nat]
    /\ finishes \subseteq [key : Nat, h : Handles, gen : Nat, at : {"close", "check", "load"}]
    /\ watchers \subseteq [h : 1..Viewers, gen : Nat, cancelled : BOOLEAN]
    /\ term \in [worker : 0..Workers, handle : Handles]
    /\ worker \in [1..Workers -> {"unused", "alive", "dead", "gone"}]
    /\ viewer \in [1..Viewers -> [at : {"unused", "opening", "ready", "closed"},
                                  worker : 0..Workers]]
    /\ lost.at \in {"no", "release", "job"}
    /\ past \in [sent : Seq(1..Requests), dropped : Nat, gaveUp : BOOLEAN]
    /\ used \in [views : Nat, requests : Nat, faults : Nat, approvals : Nat]

Attaching == {s \in Slots : launches[s].at \notin {"idle", "start", "waiting", "woken"}}
\* However many calls ask for the terminal (view.go:140-164), one at a time opens
\* it, and rt.attaching says so: two would start two workers on one session.
OneAttachAtATime == Cardinality(Attaching) = (IF rt.attaching THEN 1 ELSE 0)

Watched == rt.term # None /\ \E w \in watchers : w.h = rt.term /\ w.gen = rt.attachGen
\* The view asked for last is one whose launch found a turn running and a view that
\* was not attaching: it ended (view.go:193), and the pump relaunches only what is
\* attaching (fifo.go:261).
Dropped == rt.requested /\ past.dropped = rt.epoch
\* The runtime's terminal always has a watcher of its generation (view.go:441), so
\* that its end will be noticed; a job saved as headed has one, or a call is on
\* its way that will attach or detach it, unless its launch was dropped.  Reopening,
\* closing and stale watchers may come in any order.
ViewIsWatched ==
    /\ rt.term # None => Watched
    /\ job.view = "headed" /\ ~Dropped =>
          \/ Watched \/ calls # {}
          \/ \E s \in Slots : launches[s] # Idle

\* Something goes on by itself: a goroutine or a process has a step to take.
Working ==
    \/ pumps > 0 \/ calls # {} \/ finishes # {} \/ lost.at # "no"
    \/ turn.at \in {"popped", "returned"} \/ (turn.at = "prompt" /\ (~Held \/ turn.cancelled))
    \/ \E s \in Slots : launches[s].at \notin {"idle", "waiting"}
    \/ \E w \in watchers : w.cancelled \/ viewer[w.h].at = "closed"
    \/ \E g \in 1..Workers : worker[g] = "dead"
    \/ \E h \in 1..Viewers : viewer[h].at \in {"opening", "ready"} /\ ~Alive(viewer[h].worker)
    \/ job.stalled # Symptom
\* Nothing can move but users, agents' questions, faults and live windows.
Quiet == ~Working

\* Where the view may stay.
Settled ==
    /\ \A s \in Slots : launches[s] = Idle
    /\ job.view = "headless" => ~rt.requested
    /\ job.view = "headed" => Watched \/ Dropped
    /\ job.view = "headed" => job.owner = "tui"
    /\ job.view = "attaching" => Busy /\ rt.requested
    /\ job.view = "detaching" => Dropped
    /\ job.owner = "handoff" => Dropped \/ (job.view = "attaching" /\ Busy)
\* Whoever has a step to take can take it; and once every goroutine is through, the view
\* is where the last call or failure put it: no launch waits for another for ever
\* (view.go:140), a headed view is watched, and one that is attaching waits for a turn to
\* end (view.go:193).  A view is detaching, or headed without a watcher, only if its
\* launch was dropped: that is the finding of OpenedViewComes.
ViewSettles == /\ Working => ENABLED System
               /\ Quiet => Settled
\* docs/wait-lifecycle.md:37: a view opened while the agent works attaches once that
\* write has returned (view.go:193, fifo.go:248).
OpenedViewComes ==
    Quiet /\ rt.requested /\ ~Busy /\ queue = <<>> => job.view = "headed" /\ Watched

\* Once every goroutine is through, the input belongs to a TUI only while its
\* worker runs: the exit of the worker, the end of the window and a detach, in
\* whatever order, give it back (view.go:664, :746), unless the view was asked
\* for again meanwhile.
InputComesBack == Quiet /\ job.owner = "tui" /\ ~rt.requested => WorkerAlive

\* Whoever returns the input to the supervisor, or leaves work behind, gives the queue a
\* pump (enqueue, the pump's own loop, finishDetach at view.go:742): once every goroutine
\* is through, nothing waits that may be popped.  Only these do not kick: a launch that
\* fails, finds its terminal closed or yields an approval (view.go:404, :378, :339), and
\* the exit of a worker that the job does not know as its own (view.go:746); see
\* QueueContinues.
WorkGoesOn == Quiet /\ MayPop => past.gaveUp
\* docs/wait-lifecycle.md:37: once the worker is gone the queue goes on.
\* The code does not keep this.
QueueContinues == ~(Quiet /\ MayPop /\ \E g \in 1..Workers : worker[g] = "gone")

\* docs/wait-lifecycle.md:37: opening the view at an approval releases that one call and
\* closing or reopening it deletes nothing from the queue: an accepted request waits, is
\* with the pump or has been sent.  The code does not keep this.
ViewDropsNothing ==
    \A r \in 1..used.requests :
        \/ \E i \in DOMAIN queue : queue[i].req = r
        \/ Busy /\ turn.item.req = r
        \/ \E i \in DOMAIN past.sent : past.sent[i] = r

\* docs/wait-lifecycle.md:37: closing or reopening the window neither deletes nor
\* reorders the queue.  The code does not keep this.
ViewKeepsTheQueue == \A i \in DOMAIN past.sent : past.sent[i] = i

\* docs/wait-lifecycle.md:37: requests and the view are serialised before anything is
\* written to the session; the view waits for a write that is not at an approval
\* (view.go:261).  No worker is started while such a prompt is under way.
TurnGoesFirst ==
    [][ (\E g \in 1..Workers : worker[g] = "unused" /\ worker'[g] = "alive") =>
            ~(turn.at = "prompt" /\ ~turn.cancelled /\ ~Held) ]_vars
=============================================================================
