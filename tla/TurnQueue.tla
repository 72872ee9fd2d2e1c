----------------------------- MODULE TurnQueue ------------------------------
(***************************************************************************)
(* One job of the supervisor: its durable record, the per-request ledger,  *)
(* the in-memory request queue, the pump goroutines that serve it, and     *)
(* every call that races with them (src/internal/supervisor: fifo.go,      *)
(* turn.go, cancel.go, plan.go, recover.go, startJob of service.go).       *)
(*                                                                         *)
(* A step is one critical section of the per-job lock rt.coord (the code   *)
(* commits state only under it) or one answer of the agent, whose calls    *)
(* run with the lock released.  A restart loses everything but `job`,      *)
(* `work`, `order` and `results`, which are rows of SQLite.                *)
(*                                                                         *)
(* The terminal view stays closed here (input_owner = supervisor,          *)
(* view_mode = headless), and writes to the store succeed.                 *)
(***************************************************************************)
EXTENDS Naturals, Sequences, FiniteSets, Keep

CONSTANTS
  Requests,     \* the request ids that may be accepted for this job
  NoRequest,    \* the empty request id
  MaxCalls,     \* bound: Continue, CancelRequest and PlanDecide calls
  MaxFaults,    \* bound: lost connections and restarts
  MaxTurns,     \* bound: the agent reports "working" only below it
  MaxAsks       \* bound: native approval requests

ASSUME RequestsAssumption == NoRequest \notin Requests
ASSUME BoundsAssumption == /\ MaxCalls \in Nat /\ MaxFaults \in Nat
                           /\ MaxTurns \in Nat /\ MaxAsks \in Nat

VARIABLES
  job,        \* the row of `jobs`
  work,       \* the rows of `work_requests`: phase and state of each request
  order,      \* their rowid order
  results,    \* the rows of `turn_results`
  rt,         \* the in-memory `runtime` of the job
  pumps,      \* pump goroutines waiting for the lock at the top of the loop
  turns,      \* items being run by a pump goroutine
  cancels,    \* CancelRequest calls between two of their critical sections
  deciders,   \* PlanDecide calls between two of their critical sections
  ask,        \* the permission request the agent is blocked on
  listeners,  \* connectionLost calls on their way to this job
  starter,    \* the startJob call of Dispatch, and what came of it
  issued,     \* turn ids handed out (uuids in the code)
  asked,      \* approval ids handed out
  revoked,    \* history: turns in flight that were cancelled or cut off
  sent,       \* history: how often each request's original prompt was sent
  calls, faults

vars == <<job, work, order, results, rt, pumps, turns, cancels, deciders,
          ask, listeners, starter, issued, asked, revoked, sent, calls, faults>>
-----------------------------------------------------------------------------
(* Values.  "active" stands for planning and executing, "needs_input" for  *)
(* itself and blocked: the code treats them alike where the queue is       *)
(* concerned.                                                              *)

JobStates == {"created", "starting", "active", "plan_ready", "completed",
              "needs_input", "disconnected", "cancelled", "failed"}

IsActive(state) == state \in {"starting", "active"}

Pauses == {"", "approval", "plan_content_missing", "approval_delivery",
           "approval_delivery_unknown", "approval_expired", "review_required",
           "cancel_delivery", "cancel_delivery_unknown", "request_not_sent",
           "execution_unknown"}
Deliveries == {"", "pending", "submitted", "confirmed", "unknown", "expired"}
Phases == {"", "queued", "preparing", "sent", "returned"}

\* What ParseTaskState finds in the final answer of a turn.
Marks == {"working", "needs_input", "completed", "unmarked"}

\* How a run of an item ended: the pump has nothing to commit, the
\* connection broke, the agent refused (to prepare, or the prompt), or it
\* answered.
Outcomes == {"none", "nil", "lost", "refused", "failed"} \cup Marks

Job == [state : JobStates, pause : Pauses, delivery : Deliveries,
        cancelled : BOOLEAN, request : Requests, phase : Phases, approval : Nat]

Row == [phase : Phases, state : JobStates \cup {"", "queued"}]
NoRow == [phase |-> "", state |-> ""]

Item == [req : Requests, kind : {"plan", "followup", "continue"},
         connect : BOOLEAN, text : {"prompt", "resume"}, gen : Nat]

\* `seen` is the delivery state in the copy of the job that runItem loads first; it
\* is taken with the pop here, though the code loads it just after the unlock.
Turn == [id : Nat, item : Item, stage : {"loading", "sent", "returned"},
         out : Outcomes, seen : Deliveries]

Result == [turn : Nat, req : Requests]

Runtime == [queue : Seq(Item), gen : Nat, busy : BOOLEAN, turn : Nat,
            req : Requests \cup {NoRequest}, cancelledTurn : BOOLEAN,
            controlPending : BOOLEAN]

IdleRuntime == [queue |-> <<>>, gen |-> 0, busy |-> FALSE, turn |-> 0,
                req |-> NoRequest, cancelledTurn |-> FALSE,
                controlPending |-> FALSE]

CancelCall == [req : Requests \cup {NoRequest}, turn : Nat,
               stage : {"checked", "delivering"}, gen : Nat]

Decision == {"approve", "revise", "cancel"}
Decider == [id : Nat, decide : Decision, res : {"", "ok", "err"}]

Ask == [id : Nat, turn : Nat]
NoAsk == [id |-> 0, turn |-> 0]
NoListeners == [noticed |-> 0, visiting |-> 0]
-----------------------------------------------------------------------------
(* Helpers shared by the handlers.                                         *)

Accepted(r) == work[r].phase # ""

\* store.PutJob: the job row keeps a phase, and every write of it also
\* writes the state of the request it names, completed requests excepted.
SavedJob(j, phase) ==
  [j EXCEPT !.phase = IF phase # "" THEN phase
                      ELSE IF j.request # job.request THEN "queued" ELSE @]

SavedWork_NoPhase(w, j, phase) ==
  [r \in Requests |->
    [w[r] EXCEPT !.state = IF @ \in {"", "completed"} THEN @
                           ELSE IF j.cancelled THEN "cancelled"
                           ELSE IF r = j.request THEN j.state ELSE @]]

SavedWork(w, j, phase) ==
  [r \in Requests |->
    [phase |-> IF r = j.request /\ phase # "" THEN phase ELSE w[r].phase,
     state |-> IF w[r].state \in {"", "completed"} THEN w[r].state
               ELSE IF j.cancelled THEN "cancelled"
               ELSE IF r = j.request THEN j.state ELSE w[r].state]]

Save(j) == /\ job' = SavedJob(j, "")
           /\ work' = SavedWork(work, j, "")

SavePhase(j, phase) == /\ job' = SavedJob(j, phase)
                       /\ work' = SavedWork(work, j, phase)

\* INSERT ... ON CONFLICT DO NOTHING of an accepted request.
Inserted(w, r) ==
  IF w[r].phase = "" THEN [w EXCEPT ![r] = [phase |-> "queued", state |-> "queued"]]
                     ELSE w

Pushed(queue, item) == IF item.kind = "continue" /\ ~item.connect
                       THEN <<item>> \o queue ELSE Append(queue, item)

Stale_ByTurnId(t) == t.id # rt.turn
Stale(t) == t.item.gen # rt.gen

\* The context of a turn is cancelled wherever the generation is bumped.
CtxCancelled_Never(t) == t.stage = "none"
CtxCancelled(t) == Stale(t)

\* Ids of the turns whose prompt may still be running.
InFlight == {t.id : t \in turns}

\* acceptsTurnControl
AcceptsTurnControl == /\ ~job.cancelled
                      /\ job.state \notin {"cancelled", "completed", "failed"}

\* Followup and Continue are refused while a live approval waits.
PlanPending == job.state = "plan_ready" /\ job.pause # "approval_expired"

\* The states in which a pump leaves a non-empty queue alone.
Paused == \/ job.state = "plan_ready"
          \/ job.pause = "review_required"
          \/ job.delivery = "unknown"
-----------------------------------------------------------------------------
(* Dispatch has committed the job row and its first request; startJob then *)
(* creates the session with the lock released.                             *)

Dispatched(r) ==
  /\ job = [state |-> "created", pause |-> "", delivery |-> "",
            cancelled |-> FALSE, request |-> r, phase |-> "queued", approval |-> 0]
  /\ work = [q \in Requests |->
               IF q = r THEN [phase |-> "queued", state |-> "created"] ELSE NoRow]
  /\ order = <<r>>
  /\ results = {}
  /\ rt = IdleRuntime
  /\ pumps = 0 /\ turns = {} /\ cancels = {} /\ deciders = {}
  /\ ask = NoAsk /\ listeners = NoListeners
  /\ starter = [stage |-> "new", gen |-> 0, req |-> r, late |-> FALSE]
  /\ issued = 0 /\ asked = 0 /\ revoked = {}
  /\ sent = [q \in Requests |-> 0]
  /\ calls = 0 /\ faults = 0

Init == \E r \in Requests : Dispatched(r)

\* The copy of the job startJob holds across NewSession.
StarterJob == [state |-> "starting", pause |-> "", delivery |-> "",
               cancelled |-> FALSE, request |-> starter.req, phase |-> "",
               approval |-> 0]

StartJob ==
  /\ starter.stage = "new"
  /\ Save(StarterJob)
  /\ starter' = [starter EXCEPT !.stage = "creating", !.gen = rt.gen]
  /\ UNCHANGED <<order, results, rt, pumps, turns, cancels, deciders, ask,
                 issued, asked, revoked, sent, calls, faults, listeners>>

\* The generation moved meanwhile: only the new session id is kept, if any.
SessionSuperseded(ok) ==
  /\ starter.stage = "creating" /\ starter.gen # rt.gen
  /\ IF ok THEN Save(job) ELSE UNCHANGED <<job, work>>
  /\ starter' = [starter EXCEPT !.stage = IF ok THEN "done" ELSE "failed"]
  /\ UNCHANGED <<order, results, rt, pumps, turns, cancels, deciders, ask,
                 issued, asked, revoked, sent, calls, faults, listeners>>

SessionFailed ==
  /\ starter.stage = "creating" /\ starter.gen = rt.gen
  /\ Save([StarterJob EXCEPT !.state = "failed"])
  /\ starter' = [starter EXCEPT !.stage = "failed"]
  /\ UNCHANGED <<order, results, rt, pumps, turns, cancels, deciders, ask,
                 issued, asked, revoked, sent, calls, faults, listeners>>

\* Users may have acted on the job while its session was being created: the first
\* request is taken up already or cancelled, or other work waits or runs.
Overtaken == \/ rt.queue # <<>> \/ turns # {}
             \/ work[starter.req].phase # "queued" \/ work[starter.req].state = "cancelled"

\* The copy of the job goes into the row and its prompt into the queue all the same;
\* `late` remembers that it came late.
SessionCreated ==
  /\ starter.stage = "creating" /\ starter.gen = rt.gen
  /\ Save([StarterJob EXCEPT !.state = "active"])
  /\ rt' = [rt EXCEPT !.queue = Append(@,
              [req |-> starter.req, kind |-> "plan", connect |-> FALSE,
               text |-> "prompt", gen |-> rt.gen])]
  /\ pumps' = IF rt.busy THEN pumps ELSE pumps + 1
  /\ starter' = [starter EXCEPT !.stage = "done", !.late = Overtaken]
  /\ UNCHANGED <<order, results, turns, cancels, deciders, ask, issued, asked,
                 revoked, sent, calls, faults, listeners>>
-----------------------------------------------------------------------------
(* User calls that enqueue work.                                           *)

Followup(r) ==
  LET item == [req |-> r, kind |-> "followup", connect |-> TRUE,
               text |-> "prompt", gen |-> rt.gen]
      j == IF rt.busy THEN job
           ELSE [job EXCEPT !.request = r, !.state = "active", !.pause = ""]
  IN /\ ~Accepted(r)
     /\ job.state # "cancelled" /\ ~PlanPending
     /\ job' = SavedJob(j, "")
     /\ work' = SavedWork(Inserted(work, r), j, "")
     /\ order' = Append(order, r)
     /\ rt' = [rt EXCEPT !.queue = Pushed(@, item)]
     /\ pumps' = IF rt.busy THEN pumps ELSE pumps + 1
     /\ UNCHANGED <<results, turns, cancels, deciders, ask, starter, issued,
                    asked, revoked, sent, calls, faults, listeners>>

\* store.QueuedRequests, less the job's current request.
Unserved_WithCurrent ==
  Keep(order, {k \in DOMAIN order : /\ work[order[k]].phase = "queued"
                                    /\ work[order[k]].state # "cancelled"})
Unserved ==
  LET waiting == {k \in DOMAIN order : /\ work[order[k]].phase = "queued"
                                       /\ work[order[k]].state # "cancelled"
                                       /\ order[k] # job.request}
  IN Keep(order, waiting)

Continue ==
  LET text == IF work[job.request].phase \in {"queued", "preparing"}
              THEN "prompt" ELSE "resume"
      item == [req |-> job.request, kind |-> "continue", connect |-> TRUE,
               text |-> text, gen |-> rt.gen]
      restore == rt.queue = <<>> /\ (~rt.busy \/ rt.cancelledTurn)
      restored == IF restore
                  THEN [i \in DOMAIN Unserved |->
                          [req |-> Unserved[i], kind |-> "followup",
                           connect |-> TRUE, text |-> "prompt", gen |-> rt.gen]]
                  ELSE <<>>
  IN /\ calls < MaxCalls
     /\ AcceptsTurnControl /\ ~PlanPending
     /\ Save([job EXCEPT !.state = "active", !.pause = "", !.delivery = ""])
     /\ rt' = [rt EXCEPT !.queue = Pushed(@, item) \o restored]
     /\ pumps' = IF rt.busy THEN pumps ELSE pumps + 1 + Len(restored)
     /\ calls' = calls + 1
     /\ UNCHANGED <<order, results, turns, cancels, deciders, ask, starter,
                    issued, asked, revoked, sent, faults, listeners>>
-----------------------------------------------------------------------------
(* The pump.  Every goroutine starts at the top of the loop; one that pops *)
(* an item owns the busy flag until the item's result is committed.        *)

PumpMayPop_IgnoresBusy == ~rt.controlPending /\ ~Paused /\ rt.queue # <<>>
PumpMayPop_IgnoresCancel == ~Paused /\ ~rt.busy /\ rt.queue # <<>>
PumpMayPop == ~rt.controlPending /\ ~Paused /\ ~rt.busy /\ rt.queue # <<>>

PumpSkips ==
  /\ pumps > 0 /\ ~PumpMayPop
  /\ pumps' = pumps - 1
  /\ UNCHANGED <<job, work, order, results, rt, turns, cancels, deciders, ask,
                 starter, issued, asked, revoked, sent, calls, faults, listeners>>

PumpPops ==
  LET item == Head(rt.queue)
  IN /\ pumps > 0 /\ PumpMayPop
     /\ pumps' = pumps - 1
     /\ issued' = issued + 1
     /\ rt' = [rt EXCEPT !.queue = Tail(@), !.busy = TRUE, !.turn = issued + 1,
                         !.req = item.req, !.cancelledTurn = FALSE]
     /\ turns' = turns \cup {[id |-> issued + 1, item |-> item,
                              stage |-> "loading", out |-> "none",
                              seen |-> job.delivery]}
     /\ SavePhase([job EXCEPT !.request = item.req, !.state = "active",
                              !.pause = ""], "preparing")
     /\ UNCHANGED <<order, results, cancels, deciders, ask, starter, asked,
                    revoked, sent, calls, faults, listeners>>

Moved(t, stage, out) ==
  turns' = (turns \ {t}) \cup {[t EXCEPT !.stage = stage, !.out = out]}

\* Session load and mode switch: the connection may break, the agent may
\* refuse, and a job the user cancelled runs nothing.
PrepareFails(t, out) ==
  /\ t.stage = "loading"
  /\ IF job.cancelled THEN out = "nil" ELSE out \in {"lost", "refused"}
  /\ Moved(t, "returned", out)
  /\ UNCHANGED <<job, work, order, results, rt, pumps, cancels, deciders, ask,
                 starter, issued, asked, revoked, sent, calls, faults, listeners>>

\* The item is dropped when its generation passed (its context is then
\* cancelled too); otherwise phase "sent" is durable before the prompt is.
SendPrompt(t) ==
  /\ t.stage = "loading" /\ ~job.cancelled /\ ~Stale(t)
  /\ starter.stage = "done"            \* there is a session to load
  /\ SavePhase(job, "sent")
  /\ Moved(t, "sent", "none")
  /\ sent' = IF t.item.text = "prompt"
             THEN [sent EXCEPT ![t.item.req] = @ + 1] ELSE sent
  /\ UNCHANGED <<order, results, rt, pumps, cancels, deciders, ask, starter,
                 issued, asked, revoked, calls, faults, listeners>>

DropStale(t) ==
  /\ t.stage = "loading" /\ (Stale(t) \/ CtxCancelled(t))
  /\ Moved(t, "returned", "nil")
  /\ UNCHANGED <<job, work, order, results, rt, pumps, cancels, deciders, ask,
                 starter, issued, asked, revoked, sent, calls, faults, listeners>>

\* agent.Prompt returns.  It does not answer while its permission request is
\* open; what a stale turn returned is thrown away.
PromptReturns(t, out) ==
  /\ t.stage = "sent"
  /\ out \in {"lost", "failed"} \/ (out \in Marks /\ ask.turn # t.id)
  /\ out = "working" => issued < MaxTurns
  /\ Moved(t, "returned", IF Stale(t) THEN "nil" ELSE out)
  /\ UNCHANGED <<job, work, order, results, rt, pumps, cancels, deciders, ask,
                 starter, issued, asked, revoked, sent, calls, faults, listeners>>

-----------------------------------------------------------------------------
(* The tail of a pump round: busy is released, then the result committed,  *)
(* in one critical section; the goroutine loops if it saw a queued item.   *)

Released == [rt EXCEPT !.busy = FALSE, !.turn = 0]
LoopAgain_Never == 0
LoopAgain == IF rt.queue # <<>> THEN 1 ELSE 0

Finishes(t) == /\ t.stage = "returned"
               /\ turns' = turns \ {t}
               /\ revoked' = revoked \ {t.id}
               /\ UNCHANGED <<order, cancels, deciders, ask, starter, issued,
                              asked, sent, calls, faults, listeners>>

\* Nothing is committed: no result function, the generation passed, or
\* applyPromptResult refuses an answer for cancelled work.
FinishNothing(t) ==
  /\ \/ t.out = "nil" \/ Stale(t)
     \/ t.out = "lost" /\ job.cancelled
     \/ t.out \in Marks /\ (job.cancelled \/ work[t.item.req].state = "cancelled")
  /\ Finishes(t)
  /\ rt' = Released
  /\ pumps' = pumps + LoopAgain
  /\ UNCHANGED <<job, work, results>>

\* disconnectLocked: what it leaves of the runtime and of the job.
DisconnectedRt(r) == [r EXCEPT !.gen = @ + 1, !.cancelledTurn = TRUE,
                               !.queue = <<>>]

DisconnectedJob_KeepsOffer ==
  IF job.state = "plan_ready" THEN job ELSE [job EXCEPT !.state = "disconnected"]

DisconnectedJob ==
  LET down == IF job.state = "plan_ready" THEN job
              ELSE [job EXCEPT !.state = "disconnected"]
  IN IF job.delivery = "submitted"
     THEN [down EXCEPT !.delivery = "unknown", !.pause = "approval_delivery_unknown"]
     ELSE IF job.state = "plan_ready"
     THEN [down EXCEPT !.delivery = "expired", !.pause = "approval_expired"]
     ELSE down

FinishLost(t) ==
  /\ t.out = "lost" /\ ~Stale(t) /\ ~job.cancelled
  /\ Finishes(t)
  /\ Save(DisconnectedJob)
  /\ rt' = DisconnectedRt(Released)
  /\ pumps' = pumps + LoopAgain
  /\ UNCHANGED results

\* fail; after a refusal to prepare it writes back the copy of the job that
\* runItem loaded before the calls.
FinishFailed(t) ==
  LET base == IF t.out = "refused" THEN [job EXCEPT !.delivery = t.seen, !.pause = ""]
              ELSE job
      down == [base EXCEPT !.state = "failed"]
  IN /\ t.out \in {"failed", "refused"} /\ ~Stale(t)
     /\ Finishes(t)
     /\ Save(IF base.delivery = "submitted"
             THEN [down EXCEPT !.delivery = "unknown",
                               !.pause = "approval_delivery_unknown"]
             ELSE down)
     /\ rt' = Released
     /\ pumps' = pumps + LoopAgain
     /\ UNCHANGED results

MarkState_Raw(mark) == mark
MarkState(mark) == CASE mark = "working" -> "active"
                     [] mark = "unmarked" -> "needs_input"
                     [] OTHER -> mark

\* A completed request does not complete the job while others wait.
StateAfter_IgnoresQueue(resultState) == resultState
StateAfter(resultState) ==
  IF resultState = "completed" /\ rt.queue # <<>> THEN "active" ELSE resultState

\* The answer confirms the decision its turn went on with.
Confirmed_AlsoUnknown(delivery) ==
  IF delivery \in {"submitted", "unknown"} THEN "confirmed" ELSE delivery
Confirmed(delivery) == IF delivery = "submitted" THEN "confirmed" ELSE delivery

\* applyPromptResult: the answer and the job row commit in one transaction;
\* "working" puts a continuation of the request at the head of the queue.
FinishApplied(t) ==
  LET resultState == MarkState(t.out)
      j == [job EXCEPT
              !.state = StateAfter(resultState),
              !.pause = IF t.out = "unmarked" THEN "review_required" ELSE "",
              !.delivery = Confirmed(@)]
      again == [req |-> t.item.req, kind |-> "continue", connect |-> FALSE,
                text |-> "resume", gen |-> rt.gen]
  IN /\ t.out \in Marks /\ ~Stale(t)
     /\ ~job.cancelled /\ work[t.item.req].state # "cancelled"
     /\ Finishes(t)
     /\ job' = SavedJob(j, "returned")
     /\ work' = [SavedWork(work, j, "returned") EXCEPT
                   ![t.item.req].state = resultState]
     /\ results' = results \cup {[turn |-> t.id, req |-> t.item.req]}
     /\ rt' = IF t.out = "working" THEN [Released EXCEPT !.queue = Pushed(@, again)]
              ELSE Released
     /\ pumps' = pumps + LoopAgain + (IF t.out = "working" THEN 1 ELSE 0)
-----------------------------------------------------------------------------
(* Lost connections and restarts.                                          *)

\* The agent process or its pipe is gone: its permission requests are
\* forgotten and its prompts fail at once; the supervisor hears of it later,
\* possibly after a new connection was made.
ConnectionLost ==
  /\ faults < MaxFaults
  /\ faults' = faults + 1
  /\ ask' = NoAsk
  /\ turns' = {IF t.stage = "sent"
               THEN [t EXCEPT !.stage = "returned",
                              !.out = IF Stale(t) THEN "nil" ELSE "lost"]
               ELSE t : t \in turns}
  /\ listeners' = [listeners EXCEPT !.noticed = @ + 1]
  /\ UNCHANGED <<job, work, order, results, rt, pumps, cancels, deciders, starter,
                 issued, asked, revoked, sent, calls>>

\* connectionLost lists the jobs without their locks, and afterwards
\* disconnects those that looked active, whatever they are by then.
ListJobs ==
  /\ listeners.noticed > 0
  /\ LET visit == IsActive(job.state) \/ job.state = "plan_ready"
     IN listeners' = [noticed |-> listeners.noticed - 1,
                      visiting |-> listeners.visiting + IF visit THEN 1 ELSE 0]
  /\ UNCHANGED <<job, work, order, results, rt, pumps, turns, cancels, deciders,
                 ask, starter, issued, asked, revoked, sent, calls, faults>>

Disconnect ==
  /\ listeners.visiting > 0
  /\ listeners' = [listeners EXCEPT !.visiting = @ - 1]
  /\ IF job.cancelled THEN UNCHANGED <<job, work, rt, revoked>>
     ELSE /\ Save(DisconnectedJob)
          /\ rt' = DisconnectedRt(rt)
          /\ revoked' = revoked \cup InFlight
  /\ UNCHANGED <<order, results, pumps, turns, cancels, deciders, ask, starter,
                 issued, asked, sent, calls, faults>>

\* markAwaitingResume, the record recovery of the next start.
ResumeJob ==
  LET expired == IF job.state = "plan_ready"
                 THEN [job EXCEPT !.pause = "approval_expired", !.delivery = "expired"]
                 ELSE job
      unknown == IF expired.delivery = "submitted"
                 THEN [expired EXCEPT !.delivery = "unknown",
                                      !.pause = "approval_delivery_unknown"]
                 ELSE expired
      reason == IF unknown.pause # "" THEN unknown.pause
                ELSE IF job.phase \in {"queued", "preparing"} THEN "request_not_sent"
                ELSE "execution_unknown"
  IN IF IsActive(job.state) \/ job.state = "disconnected"
     THEN [unknown EXCEPT !.state = "disconnected", !.pause = reason]
     ELSE unknown

\* The record is written back only if the job was active or plan_ready.
Restart ==
  /\ faults < MaxFaults
  /\ IF job.cancelled \/ ~(IsActive(job.state)
                           \/ job.state \in {"disconnected", "plan_ready"})
     THEN UNCHANGED <<job, work>>
     ELSE Save(ResumeJob)
  /\ rt' = IdleRuntime
  /\ pumps' = 0 /\ turns' = {} /\ cancels' = {} /\ deciders' = {}
  /\ ask' = NoAsk /\ listeners' = NoListeners
  /\ starter' = [starter EXCEPT !.stage = IF @ = "done" THEN "done" ELSE "failed"]
  /\ revoked' = {}
  /\ faults' = faults + 1
  /\ UNCHANGED <<order, results, issued, asked, sent, calls>>
-----------------------------------------------------------------------------
(* Native approvals.                                                       *)

\* awaitPlanChoice and onApproval: a request that does not belong to the
\* live turn is refused and changes nothing.
OnApproval(t, pause) ==
  /\ t.stage = "sent" /\ ask = NoAsk /\ asked < MaxAsks
  /\ rt.busy /\ rt.turn = t.id /\ rt.req = t.item.req /\ ~rt.cancelledTurn
  /\ ~job.cancelled /\ job.request = t.item.req
  /\ pause \in {"approval", "plan_content_missing"}
  /\ asked' = asked + 1
  /\ ask' = [id |-> asked + 1, turn |-> t.id]
  /\ Save([job EXCEPT !.state = "plan_ready", !.approval = asked + 1,
                      !.delivery = "pending", !.pause = pause])
  /\ UNCHANGED <<order, results, rt, pumps, turns, cancels, deciders, starter,
                 issued, revoked, sent, calls, faults, listeners>>

\* The context of the permission call ends: connection or agent gone.
AskDropped ==
  /\ ask # NoAsk
  /\ ask' = NoAsk
  /\ UNCHANGED <<job, work, order, results, rt, pumps, turns, cancels, deciders,
                 starter, issued, asked, revoked, sent, calls, faults, listeners>>

\* First section of PlanDecide: the decision is recorded ...
PlanDecide(d) ==
  /\ calls < MaxCalls
  /\ job.state = "plan_ready" /\ job.delivery # "submitted"
  /\ d = "approve" => job.pause # "plan_content_missing"
  /\ ask.id = job.approval
  /\ Save([job EXCEPT !.delivery = "submitted", !.pause = "approval_delivery",
                      !.state = IF d = "cancel" THEN "cancelled" ELSE "active",
                      !.cancelled = (d = "cancel")])
  /\ deciders' = deciders \cup {[id |-> job.approval, decide |-> d, res |-> ""]}
  /\ calls' = calls + 1
  /\ UNCHANGED <<order, results, rt, pumps, turns, cancels, ask, starter, issued,
                 asked, revoked, sent, faults, listeners>>

\* ... then delivered with the lock released, if the call still waits ...
ResolveApproval(d, res) ==
  /\ d.res = ""
  /\ \/ res = "ok" /\ ask.id = d.id /\ ask' = NoAsk
     \/ res = "err" /\ UNCHANGED ask
  /\ deciders' = (deciders \ {d}) \cup {[d EXCEPT !.res = res]}
  /\ UNCHANGED <<job, work, order, results, rt, pumps, turns, cancels, starter,
                 issued, asked, revoked, sent, calls, faults, listeners>>

\* ... and settled.
PlanDecided(d) ==
  /\ d.res # ""
  /\ IF d.res = "err" /\ job.approval = d.id /\ job.delivery = "submitted"
     THEN Save([job EXCEPT !.delivery = "unknown", !.state = "needs_input",
                           !.pause = "approval_delivery_unknown"])
     ELSE UNCHANGED <<job, work>>
  /\ IF d.decide = "cancel"
     THEN rt' = DisconnectedRt(rt) /\ revoked' = revoked \cup InFlight
     ELSE UNCHANGED <<rt, revoked>>
  /\ deciders' = deciders \ {d}
  /\ UNCHANGED <<order, results, pumps, turns, cancels, ask, starter, issued,
                 asked, sent, calls, faults, listeners>>
-----------------------------------------------------------------------------
(* Cancelling a request or the running turn.                               *)

QueuedReqs == {rt.queue[k].req : k \in DOMAIN rt.queue}

CancelQueued(r) ==
  /\ calls < MaxCalls
  /\ AcceptsTurnControl
  /\ r \in QueuedReqs \/ work[r].phase = "queued"
  /\ ~(rt.busy /\ rt.req = r)
  /\ work[r].phase = "queued" /\ work[r].state \notin {"cancelled", "completed"}
  /\ work' = [work EXCEPT ![r].state = "cancelled"]
  /\ rt' = [rt EXCEPT !.queue =
              Keep(@, {k \in DOMAIN rt.queue : rt.queue[k].req # r})]
  /\ calls' = calls + 1
  /\ UNCHANGED <<job, order, results, pumps, turns, cancels, deciders, ask,
                 starter, issued, asked, revoked, sent, faults, listeners>>

\* CancelRequest has checked its target and released the lock.  The caller
\* named the turn (with or without its request), only the request, or neither.
CancelChecked(r, turn) ==
  /\ calls < MaxCalls
  /\ AcceptsTurnControl
  /\ r # NoRequest => rt.busy /\ rt.req = r
  /\ turn # 0 => turn = rt.turn /\ r = NoRequest
  /\ cancels' = cancels \cup {[req |-> r, turn |-> turn, stage |-> "checked",
                               gen |-> 0]}
  /\ calls' = calls + 1
  /\ UNCHANGED <<job, work, order, results, rt, pumps, turns, deciders, ask,
                 starter, issued, asked, revoked, sent, faults, listeners>>

\* cancelActiveTurn takes the lock again ...
CancelAllowed(c) == /\ AcceptsTurnControl /\ ~rt.controlPending
                    /\ c.turn # 0 => c.turn = rt.turn

Restamped_Not(queue, gen) == queue
Restamped(queue, gen) ==
  [k \in DOMAIN queue |-> [queue[k] EXCEPT !.gen = gen]]

CancelBegin(c) ==
  /\ c.stage = "checked" /\ CancelAllowed(c)
  /\ rt' = [rt EXCEPT !.gen = @ + 1, !.cancelledTurn = TRUE,
                      !.controlPending = TRUE,
                      !.queue = Restamped(@, rt.gen + 1)]
  /\ revoked' = revoked \cup InFlight
  /\ Save([job EXCEPT !.state = "needs_input", !.pause = "cancel_delivery"])
  /\ cancels' = (cancels \ {c}) \cup
                {[c EXCEPT !.stage = "delivering", !.gen = rt.gen + 1]}
  /\ UNCHANGED <<order, results, pumps, turns, deciders, ask, starter, issued,
                 asked, sent, calls, faults, listeners>>

CancelRefused(c) ==
  /\ c.stage = "checked" /\ ~CancelAllowed(c)
  /\ cancels' = cancels \ {c}
  /\ UNCHANGED <<job, work, order, results, rt, pumps, turns, deciders, ask,
                 starter, issued, asked, revoked, sent, calls, faults, listeners>>

\* ... and once more when the agent took the notification, or did not within
\* 15 seconds.
Uncontrolled_IfCurrent(c) == IF rt.gen = c.gen
                             THEN [rt EXCEPT !.controlPending = FALSE] ELSE rt
Uncontrolled(c) == [rt EXCEPT !.controlPending = FALSE]

CancelDelivered(c, ok) ==
  /\ c.stage = "delivering"
  /\ rt' = Uncontrolled(c)
  /\ IF rt.gen = c.gen
     THEN Save([job EXCEPT !.pause = IF ok THEN "" ELSE "cancel_delivery_unknown"])
     ELSE UNCHANGED <<job, work>>
  /\ pumps' = IF ok /\ ~rt.busy /\ rt.queue # <<>> THEN pumps + 1 ELSE pumps
  /\ cancels' = cancels \ {c}
  /\ UNCHANGED <<order, results, turns, deciders, ask, starter, issued, asked,
                 revoked, sent, calls, faults, listeners>>
-----------------------------------------------------------------------------
Session == \/ StartJob \/ SessionFailed \/ SessionCreated
           \/ \E ok \in BOOLEAN : SessionSuperseded(ok)

Users ==
  \/ \E r \in Requests : Followup(r) \/ CancelQueued(r)
  \/ Continue
  \/ \E r \in Requests \cup {NoRequest}, turn \in {0, rt.turn} : CancelChecked(r, turn)
  \/ \E d \in Decision : PlanDecide(d)

Preparing(t) == \/ \E out \in {"nil", "lost", "refused"} : PrepareFails(t, out)
                \/ SendPrompt(t) \/ DropStale(t)

Finish(t) == FinishNothing(t) \/ FinishLost(t) \/ FinishFailed(t) \/ FinishApplied(t)

Agent ==
  \/ \E t \in turns : \/ Preparing(t) \/ Finish(t)
                      \/ \E out \in Outcomes : PromptReturns(t, out)
                      \/ \E pause \in Pauses : OnApproval(t, pause)
  \/ AskDropped

Settling ==
  \/ ListJobs \/ Disconnect
  \/ \E d \in deciders : PlanDecided(d) \/ \E res \in {"ok", "err"} : ResolveApproval(d, res)
  \/ \E c \in cancels : \/ CancelBegin(c) \/ CancelRefused(c)
                        \/ \E ok \in BOOLEAN : CancelDelivered(c, ok)

Faults == ConnectionLost \/ Restart

Next == Session \/ Users \/ PumpSkips \/ PumpPops \/ Agent \/ Settling \/ Faults

Spec == Init /\ [][Next]_vars

\* What runs on its own: goroutines, calls in progress, the agent's answer to
\* a load and to a cancelled prompt (whose context ends), notices.  Neither
\* users nor the answer to a live prompt are ever owed.
Fairness ==
  /\ WF_vars(PumpSkips \/ PumpPops)
  /\ WF_vars(\E t \in turns : Preparing(t) \/ Finish(t))
  /\ WF_vars(\E t \in turns : CtxCancelled(t) /\ PromptReturns(t, "failed"))
  /\ WF_vars(Session)
  /\ WF_vars(Settling)

FairSpec == Spec /\ Fairness
-----------------------------------------------------------------------------
(* Safety.                                                                 *)

\* Every variable holds a value its Go or SQL type admits.
TypeOK ==
  /\ job \in Job
  /\ work \in [Requests -> Row]
  /\ order \in Seq(Requests)
  /\ results \subseteq Result
  /\ rt \in Runtime
  /\ pumps \in Nat
  /\ turns \subseteq Turn
  /\ cancels \subseteq CancelCall
  /\ deciders \subseteq Decider
  /\ ask \in Ask
  /\ listeners \in [noticed : Nat, visiting : Nat]
  /\ starter \in [stage : {"new", "creating", "done", "failed"}, gen : Nat,
                  req : Requests, late : BOOLEAN]
  /\ issued \in Nat /\ asked \in Nat
  /\ revoked \subseteq Nat
  /\ sent \in [Requests -> Nat]
  /\ calls \in Nat /\ faults \in Nat

\* However many pump goroutines enqueue, kick and the loop start, at most
\* one item runs, and `busy` and `turnID` of the runtime describe it
\* (fifo.go: the second check of rt.busy under the lock).
SingleTurn ==
  /\ \A t, u \in turns : t = u
  /\ rt.busy <=> turns # {}
  /\ \A t \in turns : t.id = rt.turn /\ t.item.req = rt.req

\* Every waiting item carries the current generation: a cancellation that
\* bumps it restamps the queue, a disconnection empties it.  An item left
\* behind would be popped, announced, and dropped unsent.
QueueCurrent == \A k \in DOMAIN rt.queue : rt.queue[k].gen = rt.gen

RevokedMovesSilently ==
  \A t \in turns : t.id \in revoked /\ t \notin turns' /\ faults' = faults
                   => UNCHANGED <<job, work, results>>

\* What a cancelled or disconnected turn does later (its load, its prompt,
\* its late answer or error) changes no row, so it cannot overwrite the
\* state of the request that came after it.
RevokedTurnIsSilent == [][RevokedMovesSilently]_vars

\* "completed" is published only when no turn runs and no accepted item
\* waits in memory.
CompletedMeansDrained ==
  job.state = "completed" => rt.queue = <<>> /\ turns = {}

\* The prompt of a live turn was recorded as sent before it left: a crash
\* now must not let the recovery call the request unsent.  A session that
\* came late puts the first request back into the row, and the record of
\* the running one then goes to the wrong request (LateSessionKeepsRequest).
SentIsDurable ==
  ~starter.late => \A t \in turns : t.stage = "sent" /\ ~Stale(t) =>
                                       work[t.item.req].phase = "sent"

\* A waiting item of a dispatch or a followup is one the ledger still calls
\* queued, and its request has no second one: neither a restore by Continue,
\* of all the rows it finds unserved, nor a cancellation leaves a dead or a
\* second one behind.  Continue's own item, which may carry the same prompt
\* once more, is not counted (PromptSentOnce), and all is lost when the first
\* request is enqueued late.
QueueMatchesLedger ==
  LET prompts == {k \in DOMAIN rt.queue : rt.queue[k].kind # "continue"}
  IN ~starter.late =>
       /\ \A k \in prompts : /\ work[rt.queue[k].req].phase = "queued"
                             /\ work[rt.queue[k].req].state = "cancelled" => job.cancelled
       /\ \A k, l \in prompts : rt.queue[k].req = rt.queue[l].req => k = l

\* Work waits and no goroutine will look at it, though nothing pauses it.
Stranded == /\ rt.queue # <<>> /\ ~rt.busy /\ pumps = 0
            /\ ~rt.controlPending /\ ~Paused

\* No lost wake-up: of all the steps that enqueue, skip, unpause, restamp or
\* finish, only two strand work.  A cancellation that could not be delivered
\* returns without its kick, and a decision on a plan already called expired
\* unpauses a job whose turn is gone.
WakeUpsAreKept ==
  [][Stranded' /\ ~Stranded =>
       \/ rt.controlPending /\ ~rt'.controlPending /\ pumps' = pumps
       \/ job.delivery = "expired" /\ job'.delivery = "submitted"]_vars

\* A plan offered for a decision belongs to the turn that runs now; once
\* that turn is cancelled or cut off the offer is withdrawn or expired.
PendingApprovalIsLive ==
  job.state = "plan_ready" /\ job.delivery = "pending" =>
    \E t \in turns : t.id \notin revoked /\ t.item.req = job.request

\* A decision whose delivery is unknown is never settled by the program
\* itself: only the user's Continue or a fresh native request ends it.
UnknownDeliveryIsSticky ==
  [][job.delivery = "unknown" /\ job'.delivery # "unknown" =>
       calls' = calls + 1 \/ asked' = asked + 1]_vars
-----------------------------------------------------------------------------
(* Liveness.                                                               *)

\* Whatever disconnects, decisions and further cancellations do meanwhile, a
\* cancellation in delivery ends, and the pump is let in again.
CancelSettles == rt.controlPending ~> ~rt.controlPending

\* A turn that was cancelled or cut off gives the busy flag back.
RevokedTurnLeaves == (revoked # {}) ~> (revoked = {})

\* Work that waits is taken up, unless the live turn before it still runs at
\* the agent, the job is paused, or the work was stranded (WakeUpsAreKept).
WaitingWorkMoves ==
  rt.queue # <<>> ~> \/ rt.queue = <<>> \/ Paused \/ Stranded
                     \/ \E t \in turns : t.stage = "sent" /\ ~Stale(t)
-----------------------------------------------------------------------------
(* The coordinator implements the promise of TurnService.                  *)

LiveTurns == {t \in turns : t.id \notin revoked}
LiveTurn == IF LiveTurns = {} THEN [id |-> 0, req |-> NoRequest]
            ELSE LET t == CHOOSE t \in LiveTurns : TRUE
                 IN [id |-> t.id, req |-> t.item.req]

Promise == INSTANCE TurnService WITH
             accepted <- {r \in Requests : Accepted(r)}, begun <- issued,
             live <- LiveTurn, cancelling <- rt.controlPending,
             answers <- results

\* Each step of the coordinator is one step of TurnService, or none.
KeepsPromise == Promise!SSpec
-----------------------------------------------------------------------------
(* What the documents say and the code does not keep.                      *)

\* docs/wait-lifecycle.md:27: a request already sent is reconciled in its
\* session, its original prompt is not blindly sent again.
PromptSentOnce == \A r \in Requests : sent[r] <= 1

\* docs/wait-lifecycle.md:29: the whole job is not published as completed
\* while an accepted request still waits.
CompletedMeansServed ==
  job.state = "completed" =>
    \A r \in Requests : work[r].phase = "queued" => work[r].state = "cancelled"

\* docs/wait-lifecycle.md:37: a callback that comes late does not overwrite
\* another request; the session of the first one does.
LateSessionKeepsRequest ==
  [][starter.stage = "creating" /\ starter'.stage = "done" /\ job.request # starter.req
       => job'.request = job.request]_vars

\* docs/wait-lifecycle.md:9: cancelling a request does not hit later work.
CancelHitsItsTarget ==
  [][\A c \in cancels : c.stage = "checked" /\ c.req # NoRequest
        /\ rt'.controlPending /\ ~rt.controlPending /\ c \notin cancels'
        => \A t \in turns : t.id \in revoked' \ revoked => t.item.req = c.req]_vars
=============================================================================
