# Verification of the GrokMcp supervisor

GrokMcp lets Codex dispatch work to Grok: an MCP server and a desktop
application talk over a local socket to one host process, whose *supervisor*
runs each job in one Grok session, keeps it in SQLite, and shares that session
with an optional terminal view. This directory holds TLA+ models of the
program's concurrent core, the TLC configurations that check them on small
instances, and proofs, checked by TLAPS, for every instance.

The reference is the Go code; `PROJECT.json` maps each definition to the lines
it translates. Names follow the source where TLA+ allows it.

## 1. Inventory

| Part (`src/internal/`) | State it keeps | Operations | What is hard about it |
|---|---|---|---|
| `supervisor` coordinator: `fifo.go`, `turn.go`, `cancel.go`, `plan.go`, `recover.go` | per job: in-memory `runtime` (queue, generation, busy flag, turn) under the lock `coord`; durable job row and request ledger | `enqueue`, `kick`, `pump`, `runItem`, `applyPromptResult`, `Followup`, `Continue`, `CancelRequest`, `PlanDecide`, `onApproval`, `connectionLost`, `Disconnect`, `markAwaitingResume` | every call to the agent runs with the lock released: late answers, cancellations in delivery, lost connections and restarts meet each other in any order |
| `supervisor/service.go` | jobs, closed flag, subscribers | `Dispatch`, `startJob`, `save`, `fail`, `Start`, `Close` | a copy of the job is held across `NewSession` |
| `supervisor/view.go` | view mode, desired mode, input owner, `viewEpoch`, `attachGen`, worker generation | `SetView`, `OpenTerminal`, `launchTUI`, `yieldInFlightTurn`, `detachExpected`, `finishDetach`, `terminalWorkerExited` | two owners of one session; long calls between two checks of an epoch |
| `supervisor/wait.go`, `store/notifications.go` | notification rows and cursors | `Wait`, `WaitSnapshot` | missed or repeated boundaries, `any` and `all` |
| `supervisor/idle.go` | operation count, `idleDone` gate | `beginOperation`, `releaseIfIdle` | releasing the agent while an operation starts |
| `supervisor/watchdog.go` | stall timers | `checkJobStall` | reports, never repairs |
| `store` | SQLite tables | `PutJob`, `GetJob`, `QueuedRequests`, `CancelQueuedRequest`, ... | which writes are in one transaction |
| `agent` | connection, its id, pending permission calls | `Prompt`, `Cancel`, `ResolveApproval`, connect and loss | stale watchers, one permission at a time |
| `ipc`, `runtime` | pending calls, redialled client, count of MCP processes; owner lock, start lock, socket | `call`, `callClient`, `ready`, `SetMCPConnected`; `Open`, `openHost`, `connectClient` | uncertain results, retries; several processes that start, quit and crash |
| `trace` | sequence numbers, trimmed buffer | `Emit`, `Snapshot`, `Wait` | lost wake-up |
| `terminal`, `ownedprocess`, `foreground`, `grokbin`, `integration`, `project`, `app`, `mcp`, `frontend`, ... | files, windows, processes | | no protocol of their own, or platform calls |

How they interact: the MCP server and the application call the host through
`ipc`; the host calls the supervisor's operations; the supervisor commits every
change of a job under that job's `coord` lock and through `store.PutJob`, and
calls the agent without the lock; the agent calls back (`onApproval`,
`connectionLost`) on its own goroutines.

What makes each part correct:

* coordinator: one turn at a time; a turn that was cancelled or cut off
  changes nothing later; no accepted work is lost, run twice, or published as
  done too early; no cancellation hits another request; nothing waits for
  ever without a reason; an approval is answered at most once and never guessed.
* view: one owner of a session's input; an old attach or detach never undoes a
  newer one; the queue goes on when the terminal has gone.
* wait: each boundary is seen once and none is lost by a client that
  continues from its cursors.
* idle: the agent is never released under an operation.
* agent: the watcher of an old connection leaves the new one alone.
* IPC: an effectful call is never replayed; no connection leaks; every pending call ends.
* host start: one host at a time, always reachable; clients start one between them.
* trace: sequence numbers grow, and a waiting reader is woken.

`PROJECT.json` lists the hazards at their lines, with the property that guards
each, or the reason there is none yet.

## 2. Modules

| Module | Contents |
|---|---|
| `TurnService` | abstract specification: what the coordinator of one job promises |
| `TurnQueue` | the coordinator of one job, in detail, with the view closed; implements `TurnService` |
| `ViewHandoff` | how one job's session passes between the supervisor and a terminal: view calls, launches, watchers, detaches, the pump beside them, the worker, the watchdog |
| `WaitNotify` | commits, notifications and announcements, and `Wait` over several jobs |
| `AgentConnection` | the one agent connection, the idle gate, the loaded sessions and the plan permissions |
| `Ipc` | calls, connections and notices between an MCP process and the supervisor's process |
| `HostStart` | which process is the supervisor: locks, socket, start by a client |
| `MCTurnQueue`, `MCViewHandoff`, `MCAgentConnection` | model values, symmetry and combined bounds for TLC |
| `Keep` | the filtered-slice idiom as an operator, without recursion |
| `TurnQueue_proofs` | what `Keep` returns, and type correctness of `TurnQueue` |
| `TurnSafety_proofs` | its first inductive invariant, the safety of the queue, and the refinement |
| `TurnLedger_proofs` | its second, and the safety of the ledger, of offers and decisions, and of wake-ups |
| `ViewHandoff_proofs`, `WaitNotify_proofs`, `HostStart_proofs`, `Ipc_proofs`, `AgentConnection_proofs` | inductive invariant and safety of these modules |

How they fit together: `TurnQueue` and `ViewHandoff` describe the same
coordinator from two sides. `TurnQueue` has the ledger, cancellation and
recovery in full and the view closed; `ViewHandoff` has every branch on the
view and reduces the rest of the queue to what those branches read (the queue
itself, the generation, a turn that may stop at an approval). What `WaitNotify`
calls a commit is a `Save` of `TurnQueue`, and it relies on
`TurnQueue!CompletedMeansDrained` (see `Actionable`). The `ConnectionLost` of
`TurnQueue` and `ViewHandoff` is what the watcher of `AgentConnection` calls.
`Ipc` runs the operations the other modules describe, in a supervisor that
`HostStart` elects.

### TurnQueue: state

| Variable | Code |
|---|---|
| `job` | the row of `jobs`: `State`, `PauseReason`, `ApprovalDelivery`, `UserCancelled`, `RequestID`, `RequestPhase`, `ApprovalID` |
| `work`, `order` | `work_requests`: phase and state of each request, in rowid order |
| `results` | `turn_results` |
| `rt` | the in-memory `runtime`: `queue`, `gen`, `busy`, `turnID`, `requestID`, `cancelledTurn`, `controlPending` |
| `pumps`, `turns` | pump goroutines at the top of their loop, and those running an item |
| `cancels`, `deciders`, `listeners` | `CancelRequest`, `PlanDecide` and `connectionLost` calls between two of their critical sections |
| `ask` | the permission call the agent is blocked on |
| `starter` | the `startJob` call of `Dispatch`, and whether its session came late (`late`) |
| `revoked`, `sent` | history variables, read by properties only |

A request id, a turn id and an approval id are a model value or a number.

### TurnQueue: steps

A step is one critical section of `rt.coord`, or one answer of the agent. So
`CancelRequest` is `CancelChecked`, then `CancelBegin` or `CancelRefused`, then
`CancelDelivered`; `PlanDecide` is `PlanDecide`, `ResolveApproval`,
`PlanDecided`; one round of a pump is `PumpPops` (or `PumpSkips`), then
`SendPrompt`, `DropStale` or `PrepareFails`, then `PromptReturns`, then one of
the four `Finish...` actions; a loss of the connection is `ConnectionLost`,
`ListJobs`, `Disconnect`. A restart (`Restart`) keeps the rows and loses all
the rest, at any point.

### TurnQueue: what is abstracted

* `planning` and `executing` are one state, "active"; `blocked` is
  `needs_input`. The queue treats them alike.
* Prompts are "prompt" (the request's own text) or "resume" (the continuation
  text). What a plan contains is reduced to whether its content is known.
* The terminal view stays closed: `input_owner` is the supervisor. The pump's
  branches for an attached or detaching view are in `ViewHandoff`.
* Writes to the store succeed. `persistenceFailed` is not modelled.
* `kick` after a cancellation takes the mutex a second time after `coord` is
  released; it is part of the same step here. The check it makes is made again
  by the pump, so an earlier or a later kick differs only in a pump that skips.
* Wording, timestamps, activity, traces and event emission are left out.

### ViewHandoff

State: `job` is the view part of the row (`ViewMode`, `DesiredViewMode`,
`InputOwner`, `PauseReason`, `StallReason`); `rt` the runtime's `viewRequested`,
`viewEpoch`, `attaching`, `term`, `attachGen`, `workerGen` and `gen`; `queue`,
`turn` and `pumps` the scheduler; `launches`, `calls`, `finishes` and `watchers`
the goroutines of `launchTUI`, `detachExpected`, `finishDetach` and `watchTUI`;
`term`, `worker` and `viewer` the manager of `terminal/managed.go` with the
processes and windows it knows; `lost` a `connectionLost` under way. `past` is
history: the prompts in the order they were sent; the last open whose launch was put
off for a turn while the view was not attaching, so that nobody repeats it
(`dropped`); and whether somebody gave up the input or an approval without a kick
since a pump last looked (`gaveUp`).

Steps: `launchTUI` is one action per section (`LaunchBegins`, `LaunchRetries`,
`LaunchFocuses`, `LaunchChooses`, `LaunchYields`, `YieldEnds`, `LaunchSaves`,
`LaunchOpens`, `LaunchReady`, `LaunchCommits`, and `LaunchReconciles`,
`LaunchFails`, `LaunchFailed` on the ways out); a detach is `DetachExpected` (or
`DetachStale`), `FinishCloses`, `FinishChecks`, `FinishReturns`; a worker's end is
`WorkerDies`, `WorkerExited`, and the detach it calls; the loss of a connection
is `ConnectionLost`, `WorkersClosed`, `Disconnect`.

Abstracted: a launch holds its own copy of the row, and only what it reads of it
later is kept (`hold`, `owner`). Of the watchdog's cases, the one about the row's
state (`executing_without_turn`) is left out, because the state is. A failed
preparation ends the turn; that it also disconnects the job when the agent has gone
(`fifo.go:288-317`) is in `TurnQueue` (`PrepareFails`), and here a loss of the
connection is a step of its own, which may come at any time. What a turn does is reduced to: it is being
prepared, it runs, it may stop at one approval, it returns. The platform is the
Windows one, the only one with a worker and a viewer of its own; an error of a
platform call is a choice. The request ledger and cancellation are in
`TurnQueue`.

### WaitNotify

State: `row` is the committed row of each job with the two things memory adds
(`broken` for `persistenceFailed`, `stalled`), `notes` the table
`job_notifications`, whose index is the id, `emits` the commits not yet
announced, `caller` the call of `Wait`, `cursors` what its caller holds.

Steps: a commit (`Save`, `WatchdogSaves`, `CommitFails`, `Delete`) and its
announcement (`Emit`) are apart, as in `save` and `emit`; `Wait` is `Call`, one
`ReadJob` per job in the order of the request, `Decide`, and then `Woken`,
`TimerFires` or `Abort`.

Abstracted: the one stall that is set in memory without a commit
(`session_load_failed`, `view.go:706`) is left out; every other one is saved by the
watchdog. `approval` stands for the fields whose change alone makes a new
boundary of the same state. "completed" stands for every boundary that is no
native approval.

### AgentConnection

State: `g` and `plan` are what `g.mu` guards (connection, its id, attempt,
loaded sessions; turns, pending permissions and their channels); `init`, `results`,
`watchers` and `release` are the goroutines of an attempt, its outcome, the
watcher and the callers of `Release`; `open` and `alive` are the connections that
exist, `gate` the idle gate of `idle.go`, `work` the operation or turn of each
job, `agent` what the agent has loaded, `calls` the tool calls `acpClient` knows,
each with the turn it was announced in (0: none), `asks` the permission calls.

Steps: an operation is `Begin`, `Ensure` (which joins or starts an attempt),
`Ensured`, `Connected`, then `NewReturns` or `LoadReturns`, `Prompt`, `Ends`; an
attempt is `InitStarts`, `Publish`, `Settle`; a connection's end is `Dies` and
`Watch`, or `Tick`/`Close`, `ReleaseBegins`, `ReleaseTakes`; a tool call is
`Announce` and perhaps `CallEnds`, at any time its session is loaded, with or without
a turn; a permission is `Permission`, for a known call or one that comes in with it,
`AskPlan`, `ResolveApproval`, `AskReturns`.

Abstracted: opening processes and pipes and the handshake are one step each;
connections, turns and permissions are numbered in the order they come. Calls of
one session, connection and turn are alike. Whether a refused or answered permission
forgets its call depends on the way it came (`RequestPermission` does, the extension
method does not), so it may or may not. The idle gate tests open views and terminals
as well (`idle.go:43-53`); here it does not, so it releases more often.
`Old` names sessions of an earlier run, which the agent knows and has not
loaded.

### Ipc

State: `r` is what `resilient.mu` guards; `calls` where each call is (finding a
connection, dialling, writing, waiting for the answer); `up`, `alive` and
`serving` the connections, those whose client reads and those whose server
reads; `wire` the requests and answers on their way; `marked` and `count` the
`connLive` marks and `mcpN`; `host` whether a supervisor listens.

Steps: `Issue`, `Ready`, `DialOpens`, `DialFails` or `DialAdopts`, `Notify`,
`Noticed`, `Write`, then `Answered`, `Lost` or `Cancel`; at the server
`ServerReads`, `Execute`, `HandlerEnds`; `Announce`, `Withdraw` and `Close` of the
client; `HostDies` and `HostStarts`, a crash and a restart of the supervisor.
A write that fails is classified as `classifyWrite` does, after the request may or
may not have got through. The client's reader ends with its connection; that it also
ends, with the connection still open, at an answer of more than 4 MiB
(`ipc/client.go:56`) is left out: it more than doubles the states.

### HostStart

State: `desk` and `client` are where each desktop is in `Open`, `openHost` and its
cleanup, and each MCP process in `connectClient`; `owner` and `startLock` the two
lock files, `socket` whose socket is at the address, `store` who has the database
open. Any process may crash at any point: the system frees its locks and leaves
its socket. A host that is slow to answer counts as none (`tryDial` has a limit),
so `Opens` may go either way while the lock is free.

## 3. Runs

Deadlock is not checked in any run but `wait_notify`: elsewhere the bounded
events may be used up and every goroutine through, as they may in the program.

| Run | Instance | Shows |
|---|---|---|
| `turn_queue` | 2 requests, 2 turns; any two calls, faults or approvals, or one of each; 2.6 million states | `SingleTurn`, `QueueCurrent`, `CompletedMeansDrained`, `QueueMatchesLedger`, `SentIsDurable`, `PendingApprovalIsLive`, `WakeUpsAreKept`, `RevokedTurnIsSilent`, `UnknownDeliveryIsSticky` |
| `turn_progress` | 2 requests, 1 call, 1 fault, 1 turn, with fairness; 350 thousand states | `TypeOK`, `KeepsPromise`, `CancelSettles`, `RevokedTurnLeaves`, `WaitingWorkMoves` |
| `view_handoff` | any 3 of 2 view calls, 1 request, 1 approval, 1 fault; 2 launches, 1 worker, 1 window; 787 thousand states | `OneAttachAtATime`, `ViewIsWatched`, `ViewSettles`, `InputComesBack`, `WorkGoesOn` |
| `wait_notify` | 2 jobs, 3 commits, with fairness; 494 thousand states | `NoLostWakeUp`, `NothingSkipped`, `CursorsAreValid`, `BoundariesArrive` |
| `agent_connection` | 2 sessions, one of them old; 2 attempts, 2 turns, 2 permissions; 3 announced calls while one session works alone; 2.1 million states | `TypeOK`, `LoadedIsTrue`, `NothingLeaks`, `IdleReleaseIsHarmless`, `EveryoneReturns`, `WaitingIsAnswerable`, `OldCallKeepsItsTurn` |
| `ipc` | a call with an effect, a read, a notice; 2 connections; 2.1 million states | `EffectOnce`, `NoConnectionLeaks`, `CountIsTrue`, `EveryoneReturns` |
| `host_start` | 3 clients, 4 desktops; 1.6 million states | `OneHost`, `OneDesktop` |
| `prompt_twice` | 1 call, no fault | `PromptSentOnce` is violated (finding 1) |
| `left_behind` | 1 call, 1 fault | `CompletedMeansServed` is violated (finding 2) |
| `wrong_turn` | 1 call, no fault | `CancelHitsItsTarget` is violated (finding 3) |
| `turn_first` | 2 view calls, 1 request | `TurnGoesFirst` is violated (finding 4) |
| `view_stuck` | 3 view calls, 1 request | `OpenedViewComes` is violated (finding 5) |

One run of each module checks its type invariant.

### Bounds, and why they are enough

* `TurnQueue`: `MaxCalls` limits `Continue`, cancel and plan-decision calls (each
  request may also be followed up once); `MaxFaults` lost connections and
  restarts; `MaxTurns` stops the agent from answering "working" for ever;
  `MaxAsks` limits native approvals. Two requests are the fewest with something
  waiting behind something running; they are interchangeable, so the safety runs
  use symmetry, the liveness run does not. Users may act on the job from the moment
  its row is there, also while its session is being created. The bounds are spread
  over two runs. The safety run takes any two user calls, faults and native approvals,
  or one of each (`Bounded` in `MCTurnQueue`): a cancellation while another is in
  delivery, a cancellation followed by `Continue`, a lost connection and a restart
  around one turn, an approval under a later one, an offer that is cancelled and then
  loses its connection. The other run takes a call and a fault and states fairness.
  All properties are theorems for all bounds, but those with fairness.
* `ViewHandoff`: two view calls make an open race with a hide, a detach or
  another open, and two slots let both launches run at once; the third event is
  a request, an approval or a lost connection in the middle of it. Launches are
  interchangeable (symmetry on `Slots`). One worker and one window suffice for
  the exit of a worker to meet a reopening; a second worker of the same job, and
  so an exit notice that arrives after its successor was started, is beyond this
  instance, but not beyond the proofs of `OneAttachAtATime` and `ViewIsWatched`.
* `WaitNotify`: two jobs are the fewest for which "any" and "all" differ and a
  commit can fall between two reads; three commits let a boundary be reached,
  replaced and reached again. `Approval` and `request` numbers grow with the
  commits.
* `AgentConnection`: two attempts let everything that belongs to an old
  connection (watcher, load under way, permission) come in after its successor;
  two sessions share the connection, and two permissions compete for the pending
  entry of one. Sessions meet in the connection only, not in their calls, so calls are
  announced while one session works alone (`Bounded` in `MCAgentConnection`); three
  of them are all that one connection can tell apart there (before any turn, in the
  first, in the second).
* `Ipc`: two connections are what `callClient` can use at most for one call (it
  tries twice); the notice has one of its own. Three callers let one dial while
  another waits and a third has already failed.
* `HostStart`: three clients let one hold the start lock while another has found
  no host and the third has given up; four desktops are one per client and one
  opened by the user.

A session that comes late. `startJob` writes back the copy of the job it took before
`NewSession` and enqueues the first prompt, whatever users have done meanwhile
(see the disagreements below). From there on the row names a request that need not be the running one,
and its prompt may be queued twice or although it was cancelled; a cancellation of the
first request made during `NewSession` is undone in the same way, unless it moved the
generation. `starter.late` remembers that this has happened (`Overtaken`), and
`SentIsDurable` and `QueueMatchesLedger` speak of the behaviours up to there. All
others hold in any case.

`QueueMatchesLedger` counts the items of dispatches and followups, and those that
`Continue` restores from the ledger. The item of `Continue` itself may carry the
original prompt of a request that waits already; that is finding 1.

`WakeUpsAreKept` names the two places where work is left with nobody to
look at it: a cancellation whose delivery failed returns without its kick
(`cancel.go:155`), and a decision on a plan already called expired unpauses a
job whose turn is gone (`plan.go:29`). Every other step keeps the wake-up.

### Fairness

`TurnQueue!FairSpec` gives weak fairness to what runs on its own: the pump
goroutines, preparing and finishing an item, the return of a prompt whose context
was cancelled (`conn.Prompt` returns when its context ends), `startJob`, and the
sections of calls in progress and connection notices, which end because their
agent calls carry a 15 second limit or fail. Users are never obliged to act,
nor is the agent obliged to answer a live prompt, so no liveness property
promises an answer. Fairness over all settling calls together is enough here:
they are finite in number and each is short. `WaitingWorkMoves` excuses work
behind a live prompt, paused jobs, and work stranded in the two ways above.

`WaitNotify!Spec` has weak fairness for announcements (`emit` runs right after
the commit) and for the steps of a call that has begun, whose timer fires in the
end; and strong fairness for a caller that asks for any of its jobs again and
again. The last is an assumption about the caller, and `BoundariesArrive` is a
promise to such a caller only.

`ViewHandoff`, `AgentConnection`, `Ipc` and `HostStart` state no fairness. What
must be true "in the end" is an invariant there about the states in which nothing
of the program is left to do. `System` holds the steps of the program's own
goroutines and not those of users, timers that need not fire, the agent or a fault;
`Working` names the goroutines that have one, by the guards of those steps. The
properties say that until everybody has returned somebody is `Working`, and that
`Working => ENABLED System`: no guard is claimed that leads nowhere. A wait of
everyone for everyone, a waiter nobody wakes, and input that is not given back show
up there, without any assumption on the scheduler; that a goroutine could go round
for ever is not excluded by it.

### Findings

1. `prompt_twice`: `Continue` looks at the ledger's phase, not at the queue, so
   the original prompt can be queued, and sent, twice
   (`docs/wait-lifecycle.md:27`).
2. `left_behind`: a Followup after a restart or a lost connection completes the
   job while an earlier accepted request is still queued in the ledger
   (`docs/wait-lifecycle.md:29`).
3. `wrong_turn`: cancelling the running request by `request_id` may cancel the
   turn of the next one (`docs/wait-lifecycle.md:9` and `:37`).
4. `turn_first`: `launchTUI` looks for a running turn and for its own request only
   before it opens the terminal. Hide the view in between: the detach gives the
   input back, the next prompt is sent, and the launch then starts a worker on the
   same session beside it (`view.go:208`; `docs/wait-lifecycle.md:37` and the
   comment at `view.go:261` say that the view waits for the prompt to return).
5. `view_stuck`: open, hide and open the view again while a turn runs. The last launch
   is put off for the turn (`view.go:193`), but the hide has left the view
   "detaching", and `maybeAttachDesired` repeats a launch only from "attaching"
   (`fifo.go:261`): the turn returns, and the view that
   `docs/wait-lifecycle.md:37` says attaches then never comes; the pump starts
   nothing either.

### Other disagreements with the documentation

Five more, without a run of their own. The modules state each as a property that does
not hold; put into the configuration named here, in the place of its properties, TLC
shows it violated.

* `LateSessionKeepsRequest` (`TurnQueue.cfg`): a Followup while `NewSession` runs puts
  its request into the row and may start its turn; `startJob` then writes back its
  own, older copy of the row (`service.go:375`). `docs/wait-lifecycle.md:37`: a late
  callback must not overwrite another request.
* `QueueContinues` (`ViewHandoff.cfg`): a launch that fails because its worker has
  exited gives the input back without a kick (`view.go:404`), and the exit finds no TUI
  that owns the input. A request accepted meanwhile waits, though the queue is to
  continue after the worker has exited (`docs/wait-lifecycle.md:37`).
* `ViewDropsNothing` (`ViewHandoff.cfg` with two requests and four events): opening the
  view at an approval moves the generation without restamping the queue
  (`view.go:287`), so a request that waits behind the yielded turn is dropped when it
  is popped; only the one call was to be released (`docs/wait-lifecycle.md:37`).
* `ViewKeepsTheQueue` (the same): a request that `runItem` sends back because a detach
  has begun is appended to the queue, behind a later one (`fifo.go:277`); closing the
  window was not to reorder it (`docs/wait-lifecycle.md:37`).
* `NoCallIsRebound` (`AgentConnection.cfg`): a tool call replayed while its session is
  loaded has no turn; its permission, if it comes after the first prompt, is put
  before the user as that prompt's (`grok.go:339`), where an old call must not be bound
  to the present one (`docs/wait-lifecycle.md:9`).

The properties of the passing runs except three of these behaviours by name, and only
from the step on that goes wrong: `starter.late` (`LateSessionKeepsRequest`),
`Dropped` (finding 5) and `past.gaveUp` (`QueueContinues`) record that this very step
has been taken.

### Other behaviour met while modelling

* The put-off launch of finding 5 also ends in a second way. A window opened over a
  running turn (finding 4) may be adopted by a later call and marked headed. If it
  closes and the view is opened again before its watcher has noticed, the new launch
  forgets the terminal (`view.go:178`), is put off for the turn, and is not
  repeated: the job stays "headed" with no window and no watcher until the next
  call. It takes four view calls and a request. `Dropped` marks both, and
  `ViewIsWatched` and `ViewSettles` except them.
* An error the supervisor has answered with counts as "sent" (`ipc/client.go:80`),
  so it is reported with `ErrResultUncertain`, which `ipc/errors.go:8` explains as
  a lost response; the connection is given up for it and a read is tried again.
* The launch that yields a turn and then fails leaves the queue without a kick too
  (`view.go:339` ends the wait for the approval, `failHeadless` gives back the input), and
  `commitHeaded` on an outdated epoch closes the window without reconciling.
* `yieldInFlightTurn` decides by the launch's copy of the row, so it may cancel a
  turn that is no longer at its approval.
* `ReleaseWorkers` clears the manager's map before it closes the workers.
* The notice that a redial owes to the server runs under the context of the call
  that redialled and is not repeated if that ends; taking the mark back
  (`SetMCPConnected(false)`) is not sent while the connection lives.
* The second dial of `openHost`, under the owner lock, never finds a host: whoever
  serves holds that lock. This is proved (`ListensHolds` in `HostStart_proofs`).

## 4. Proofs

Assumed: `RequestsAssumption` (the empty id is no request), `BoundsAssumption`
(the bounds are natural numbers), `WaitAssumption` (the jobs are a finite,
non-empty set of numbers), `HostAssumption` (clients and desktops are finite
sets, desktops numbered from 1), `IpcAssumption` (calls that change something,
calls that do not and the notice are distinct and finitely many, as are the
connections) and `ConnectionAssumption` (finitely many sessions; attempts,
requests and permissions numbered from 1) and `ViewAssumption` (the bounds are
natural numbers, the launch slots finitely many). The set of requests is
arbitrary, also infinite, and so are all bounds; TLC evaluates the assumptions on every run.

| Theorem | States |
|---|---|
| `TurnQueue_proofs!KeepSelects`, `KeepInOrder` | a filtered sequence has the length of the set of positions and holds the elements at them, in their order |
| `TurnQueue_proofs!TypeCorrect` | `Spec => []TypeOK` |
| `TurnSafety_proofs!AlwaysCoherent` | `Spec => []Coherent`, the inductive invariant |
| `...!OneTurnAtATime`, `QueueIsCurrent`, `CompletedIsDrained` | `SingleTurn`, `QueueCurrent`, `CompletedMeansDrained` |
| `...!RevokedTurnsAreSilent` | `Spec => RevokedTurnIsSilent` |
| `...!ImplementsTurnService` | `Spec => KeepsPromise` |
| `TurnLedger_proofs!AlwaysAccountable` | `Spec => []Accountable`, the second inductive invariant |
| `...!PromptIsRecorded`, `OffersAreLive` | `SentIsDurable`, `PendingApprovalIsLive` |
| `...!UnknownStays`, `NoLostWakeUp` | `Spec => UnknownDeliveryIsSticky`, `Spec => WakeUpsAreKept` |
| `...!LedgerMatched` | `Spec => []QueueMatchesLedger` |
| `ViewHandoff_proofs!ViewInvHolds` | `Spec => []ViewInv`, the inductive invariant |
| `...!ViewTypes`, `OneLaunchAttaches`, `ShownIsWatched` | `TypeOK`, `OneAttachAtATime`, `ViewIsWatched` |
| `...!GoingHolds` | `Spec => []Going`, the second inductive invariant |
| `...!ViewComesToRest`, `ViewIsNotStuck` | `Spec => [](Quiet => Settled)`, and with it `ViewSettles` if `Working => ENABLED System` |
| `...!InputIsGivenBack`, `WorkIsPickedUp` | `InputComesBack`, `WorkGoesOn` |
| `WaitNotify_proofs!WaitInvHolds` | `Spec => []WaitInv`, the inductive invariant |
| `...!WaitTypes`, `WakeUpsAreNotLost`, `BoundariesAreNotSkipped`, `CursorsStayValid` | `TypeOK`, `NoLostWakeUp`, `NothingSkipped`, `CursorsAreValid` |
| `HostStart_proofs!HostInvHolds` | `Spec => []HostInv`, the inductive invariant |
| `...!HostTypes`, `OneHostAtATime`, `OneDesktopBetweenThem` | `TypeOK`, `OneHost`, `OneDesktop` |
| `Ipc_proofs!IpcInvHolds` | `Spec => []IpcInv`, the inductive invariant |
| `...!IpcTypes`, `EffectsRunOnce`, `ConnectionsAreOwned`, `TheCountIsTrue` | `TypeOK`, `EffectOnce`, `NoConnectionLeaks`, `CountIsTrue` |
| `...!CallsAreServed`, `NobodyIsForgotten` | every call is served or something is `Working`, and with it `EveryoneReturns` if `Working => ENABLED System` |
| `AgentConnection_proofs!ConnInvHolds` | `Spec => []ConnInv`, the inductive invariant |
| `...!ConnTypes`, `LoadedSessionsAreLoaded`, `ConnectionsDoNotLeak`, `IdleReleasesNothingInUse` | `TypeOK`, `LoadedIsTrue`, `NothingLeaks`, `IdleReleaseIsHarmless` |
| `...!WaitingPermissionsAreAnswerable`, `OldCallsKeepTheirTurn` | `WaitingIsAnswerable`, `OldCallKeepsItsTurn` |
| `...!SomebodyWorks`, `NobodyIsStuck` | `Spec => [](Working \/ Returned)`, and with it `EveryoneReturns` if `Working => ENABLED System` |

The coordinator. `TypeOK` is inductive by itself. The safety properties are not.
`QueueCurrent` needs that only the current generation is ever stamped, and that
a bump restamps or empties the queue. `RevokedTurnIsSilent` needs that a
revoked turn is stale, which needs that no item runs with a generation above
the current one (`RevokedIsStale`): otherwise a later bump could make a stale
turn current again. The refinement needs that a turn runs for an accepted
request, which needs the same of every waiting item (`QueueFresh`, which also
says they carry the current generation), of the job's current request and of
the request `startJob` holds (`SourcesAccepted`). `Coherent` is the
conjunction of these with `SingleTurn` and `CompletedMeansDrained`, and it is
preserved by every action.

The ledger and the offers. `Coherent` says nothing of the rows beyond who is
accepted; `Accountable` adds what the row, the ledger, the turn and the calls in
progress know of each other, also while the session is being created.

* `PromptIsRecorded` follows from `SentRecorded`: nobody but the turn itself
  moves the phase of its request while its prompt runs. Every phase is written for
  the request the row names, and while nothing can put another there the present
  turn runs the one it names (`CurrentFirst`). `startJob`, which may, is over when a
  prompt is sent, or has come too late to write (`Undisturbed`); before that nothing
  is sent, offered or decided (`SessionFirst`).
* `OffersAreLive` needs to know of the turn behind an offer that it is past its
  preparation, is not revoked, and that its request was not cancelled (`OffersLive`). The hard steps are
  those that revoke it: a stale turn is a revoked one (`StaleIsRevoked`), so no
  later answer of it is taken for the offer's; a cancelled job offers nothing
  (`CancelledOffersNothing`), also while its `PlanDecide` is between two sections.
* `UnknownStays` needs `SeenIsFresh`. A turn whose preparation is refused writes
  back the decision it read before its calls. That does not undo "unknown", because
  a decision is made on an offer, there is none while a turn is prepared,
  and so what the turn saw was already submitted.
* `NoLostWakeUp` goes through every step that queues, unpauses or gives up the
  busy flag, and finds its kick in the same step. It needs that only
  one cancellation at a time is in delivery (`OneCancel`): the first to end lets the
  pump in again. The plan called expired is the second way to strand work
  the property names; `OffersLive` says that it is the only offer without a turn.

`LedgerMatched` compares the queue with the ledger, so it must follow each item
from its row to its turn. `Orderly` says that the request of a turn is no longer
queued in the ledger (`TakenUp`) and, until a session comes late, that a waiting
original prompt is a row still queued (`PromptsWait`) and that nothing before it in
the queue is for the same request (`PromptsOnce`); then a pump that pops it moves
only its own row. `Continue` restores rows from the ledger, which is sound because a
request has one row (`OrderOnce`) and because it does so only with an empty queue.
That filtering keeps the order is `KeepInOrder`. A session never becomes timely again
(`InTime`), so `startJob` is the one step that may end the second half of `Orderly`:
it enqueues the first prompt, and if it was not overtaken nothing waits or runs yet and
its row is still queued.

The view. `OneAttachAtATime` is inductive with the flag (`OneAttach`).
`ViewIsWatched` is not: that a headed view is watched, or a call is on its way,
says too little about the call. The call must not be outdated (`CallComes`,
`LaunchComes`): a launch that has lost its epoch, or a hide bound to an old one,
will do nothing. A launch that holds the window of the runtime must have it watched,
or the watcher's detach must be under way, which will outdate the launch
(`LaunchOk`); and a launch that gives up must be outdated, or have changed what the
row says. The last gap is a launch that is put off for a turn while the view is
headed: nobody repeats it, and `HeadedOk` excepts it (`Dropped`). Trying to prove
the property without that exception is how the behaviour above was found; it needs
more calls than the instance TLC explores.

That the view comes to rest (`ViewComesToRest`) and that the input does
(`InputIsGivenBack`) need a second invariant, `Going`, which says of every state a
job can be left in who is on the way to change it. A view that is headed, attaching
or detaching though nobody asks for it any more has a hide of the current epoch or
a finish under way (`RowOk`). A view that is attaching for somebody waits for a turn
to end, or a launch of the current epoch or a call comes, or the window the runtime
knows is closed or about to close (`ComesOk`). A headless view whose input is still
the TUI's has a worker whose end is yet to be noticed, or the call of its exit or the
lost connection that gives the input back is on its way (`BackOk`); for this the
worker the terminal manager knows must be the one whose exit the job waits for
(`Matched`). The rest is what each launch knows of its window (`Fit`): one that adopts
a window adopts that of the runtime unless a later call is coming, and one that
fails while the TUI owns the input is covered in the same way. When nothing is
`Working`, none of those is on its way, and what remains is `Settled`. It leaves a view
half way only if `Dropped`, that is, if the launch of its last open was put off and
nobody is obliged to repeat it.

`WorkIsPickedUp` says of a queue that may be popped that a pump is coming, that a
launch will start one when it ends, or that a worker's end is still to be noticed
(`WorkOk`). Of the steps that let work go on (giving back the input, the end of a
turn, of an approval or of a hand-over), each starts a pump in the same step or is one
of those that set `past.gaveUp`.

Waiting. Between the first read of a job and the sleep, other jobs are read and
anything may be committed; so each property needs to know what the call has read
so far. `RowsMarked` says that a row's cursor is the number of a notification,
and of one that matches the row if it is at a boundary; it is why a boundary that
is counted is also shown. `ReadSoFar` says of the jobs already read that every
boundary the call would move its caller past is among those it will show
(`Accounted`), and that its count is still right unless a wake-up is pending or
something is left to announce (`Counted`). Every commit is announced, so it
breaks the premise of `Counted` and never its conclusion; the announcement then
sets the wake-up, because the call has been listening since before its first read.
`NoLostWakeUp` follows when the last job is read. `NothingSkipped` for a timed-out
call for any job needs that a call without hits passes no new boundary, which is
the second half of `Accounted`. TLC checks `WaitInv` on the instance of
`wait_notify`.

The host. `OneHost` needs that only the holder of the owner lock has the
database open or a socket at the address, at each step of the cleanup, whose
order (socket, database, then lock) is what the proof turns on. `OneDesktop`
needs to know whose desktop each wanted one is: that it was started under the
start lock, that its client waits for it, or that it already holds the owner
lock, which every later client sees before it starts another.

Calls between processes. `EffectOnce` needs `Effect`: where a call is says
whether its request can have been written, so that a call that goes round again
(`Retry` after "unsent") has no request on its way; a request is sent from one
place only (`SendHolds`), and an answer "ok" is on its way only if the request
was run. `NoConnectionLeaks` needs that one call dials at a time and that the
client has no connection while it does (`DialTrue`). That every call is served
(`Going`) is a second invariant: a request or an answer of the call is on its way on
the connection it waits on (`Waits`), the flag the others wait for is that of a call
that dials (`Dialled`), and what is on its way is on a connection somebody still
serves, or on a dead one, which its caller notices (`Carried`).

The agent connection. `ConnInv` has a part for each lock or owner, and most
actions touch one of them. `NothingLeaks` needs to know how far the attempt has
come (`Attempted`: until its result is known nothing is published, and what is
published and open is watched) and, after Close, that the attempt its Release
noted is the last there can be (`Closing`). `WaitingIsAnswerable` needs that an
approval is always that of the pending permission of its session (`Approved`) and
that no permission asks on a connection that is still to be opened (`Used`), so a
new `g.id` makes none of the old ones current. `OldCallKeepsItsTurn` turns on the test for
a stale turn in `Accepted`: what is shown is the turn of the moment the permission
is accepted, the one it is bound to is the one its call came in, and the test lets
it through only if they are equal or there is none (`Faithful`). `SomebodyWorks` needs one
part more, `Awaiting`: who waits for an attempt waits for the one under way or one
whose result is known.

Only model-checked, because they are beyond the prover: `CancelSettles`,
`RevokedTurnLeaves`, `WaitingWorkMoves` and `BoundariesArrive`, which are
liveness under fairness, and `Working => ENABLED System`, the first half of
`EveryoneReturns` and `ViewSettles`, because of ENABLED; `NobodyIsStuck`,
`NobodyIsForgotten` and `ViewIsNotStuck` have it as their hypothesis, and TLC checks
it on the same runs. Every other property of a passing run is a theorem.

## 5. What is left

In this order:

1. Abstract specifications of the new parts: a session with one writer
   (`ViewHandoff`), a stream per job with a cursor (`WaitNotify`), a call that is
   executed at most once (`Ipc`).
2. `TraceLog`: sequence numbers, the trimmed buffer, `Log.Wait` and its late
   subscription.
3. Session modes (`EnsureExecMode` in `agent/grok.go`): loading a session forgets
   the modes the program knows, so a session that really is in plan mode is left in
   it after a reload.
4. Subscriptions across redialled connections (`runtime/session.go:168`).
5. Pure operators: result pagination, job order and cursor, marker parsing, each
   against a reference definition.

## 6. Not modelled

* Failures of the store within the coordinator, and shutdown of the supervisor
  (`Close` with pumps under way); the hazards at `fifo.go:205` and `fifo.go:94`
  stay without a property for that reason. The effect of a failed commit on a
  waiting caller is in `WaitNotify`.
* The terminals of the other platforms, which have no viewer of their own
  (`terminal/view_other.go`).
* `OpenProject`, focusing of windows, output of the worker.
* Job list, debug snapshots, projects, archives: sequential edits of single rows.
* The frontend, configuration files, updates and notifications, windows and
  processes of the operating system: no shared state with the core, or pure input
  and output.
