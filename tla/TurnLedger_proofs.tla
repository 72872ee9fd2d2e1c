-------------------------- MODULE TurnLedger_proofs --------------------------
(***************************************************************************)
(* The ledger, the offers and the wake-ups of the coordinator: a prompt is *)
(* recorded before it leaves, an offer belongs to a turn that still runs,  *)
(* an unknown delivery is not settled by itself, no step strands work, and *)
(* what waits in memory is what the ledger calls queued.                   *)
(*                                                                         *)
(* Accountable, inductive on top of Coherent, says how the job row, the    *)
(* ledger, the turn in flight and the calls in progress agree, also while  *)
(* users act on a job whose session is being created.  Orderly adds the    *)
(* queue.                                                                  *)
(***************************************************************************)
EXTENDS TurnSafety_proofs

-----------------------------------------------------------------------------
(* What each step writes into the job row and the ledger.                  *)

\* The fields of the job row after a step.
JobIs(state, pause, delivery, cancelled, request) ==
  /\ job'.state = state /\ job'.pause = pause /\ job'.delivery = delivery
  /\ job'.cancelled = cancelled /\ job'.request = request

JobKept == JobIs(job.state, job.pause, job.delivery, job.cancelled, job.request)

PhasesKept == \A r \in Requests : work'[r].phase = work[r].phase

\* A write of the job row calls a request cancelled only if the job is, or if
\* the request was and is not the one the row names.
StatesKept ==
  \A r \in Requests : work'[r].state = "cancelled" =>
    \/ job'.cancelled
    \/ r = job'.request /\ job'.state = "cancelled"
    \/ r # job'.request /\ work[r].state = "cancelled"

\* Writing the job row writes its fields, and leaves the phases alone.
LEMMA SaveDoes ==
  ASSUME TypeOK, NEW j \in Job, Save(j)
  PROVE  /\ JobIs(j.state, j.pause, j.delivery, j.cancelled, j.request)
         /\ PhasesKept /\ StatesKept
<1>1. JobIs(j.state, j.pause, j.delivery, j.cancelled, j.request)
  BY DEF Save, SavedJob, Job, JobIs
<1>2. \A r \in Requests :
        /\ work'[r].phase = work[r].phase
        /\ work'[r].state = IF work[r].state \in {"", "completed"} THEN work[r].state
                            ELSE IF j.cancelled THEN "cancelled"
                            ELSE IF r = j.request THEN j.state ELSE work[r].state
  BY DEF Save, SavedWork
<1> QED BY <1>1, <1>2 DEF PhasesKept, StatesKept, JobIs

\* With a phase, it also moves the phase of the request it names.
LEMMA SavePhaseDoes ==
  ASSUME TypeOK, NEW j \in Job, NEW phase, phase # "", SavePhase(j, phase)
  PROVE  /\ JobIs(j.state, j.pause, j.delivery, j.cancelled, j.request)
         /\ \A r \in Requests : work'[r].phase = IF r = j.request THEN phase
                                                 ELSE work[r].phase
         /\ StatesKept
<1>1. JobIs(j.state, j.pause, j.delivery, j.cancelled, j.request)
  BY DEF SavePhase, SavedJob, Job, JobIs
<1>2. \A r \in Requests :
        /\ work'[r].phase = IF r = j.request THEN phase ELSE work[r].phase
        /\ work'[r].state = IF work[r].state \in {"", "completed"} THEN work[r].state
                            ELSE IF j.cancelled THEN "cancelled"
                            ELSE IF r = j.request THEN j.state ELSE work[r].state
  BY DEF SavePhase, SavedWork
<1> QED BY <1>1, <1>2 DEF StatesKept, JobIs

\* A step that leaves the rows alone.
LEMMA SameRows ==
  ASSUME TypeOK, UNCHANGED <<job, work>>
  PROVE  JobKept /\ PhasesKept
BY DEF JobKept, JobIs, PhasesKept

\* startJob writes its own copy of the row.
LEMMA StarterDoes ==
  ASSUME TypeOK
  PROVE  /\ StartJob => /\ JobIs("starting", "", "", FALSE, starter.req)
                        /\ PhasesKept /\ StatesKept
         /\ SessionFailed => /\ JobIs("failed", "", "", FALSE, starter.req)
                             /\ PhasesKept /\ StatesKept
         /\ SessionCreated => /\ JobIs("active", "", "", FALSE, starter.req)
                              /\ PhasesKept /\ StatesKept
<1>1. \A state \in JobStates :
        LET j == [StarterJob EXCEPT !.state = state]
        IN  /\ j \in Job /\ j.state = state /\ j.pause = "" /\ j.delivery = ""
            /\ j.cancelled = FALSE /\ j.request = starter.req
  BY DEF TypeOK, StarterJob, Job, JobStates, Pauses, Deliveries, Phases
<1>2. {"failed", "active"} \subseteq JobStates
  BY DEF JobStates
<1>3. /\ StarterJob \in Job /\ StarterJob.state = "starting"
      /\ StarterJob.pause = "" /\ StarterJob.delivery = ""
      /\ StarterJob.cancelled = FALSE /\ StarterJob.request = starter.req
  BY DEF TypeOK, StarterJob, Job, JobStates, Pauses, Deliveries, Phases
<1>4. ASSUME NEW state \in JobStates, Save([StarterJob EXCEPT !.state = state])
      PROVE  JobIs(state, "", "", FALSE, starter.req) /\ PhasesKept /\ StatesKept
  <2> DEFINE j == [StarterJob EXCEPT !.state = state]
  <2>1. /\ j \in Job /\ j.state = state /\ j.pause = "" /\ j.delivery = ""
        /\ j.cancelled = FALSE /\ j.request = starter.req /\ Save(j)
    BY <1>1, <1>4, Zenon
  <2> HIDE DEF j
  <2> QED BY <2>1, SaveDoes
<1>5. /\ StartJob => Save(StarterJob)
      /\ SessionFailed => Save([StarterJob EXCEPT !.state = "failed"])
      /\ SessionCreated => Save([StarterJob EXCEPT !.state = "active"])
  BY Zenon DEF StartJob, SessionFailed, SessionCreated
<1>6. StartJob => /\ JobIs("starting", "", "", FALSE, starter.req)
                  /\ PhasesKept /\ StatesKept
  BY <1>3, <1>5, SaveDoes
<1> QED BY <1>2, <1>4, <1>5, <1>6

\* A startJob overtaken by a new generation writes the row as it is, or nothing.
LEMMA SupersededDoes ==
  ASSUME TypeOK, NEW ok \in BOOLEAN, SessionSuperseded(ok)
  PROVE  JobKept /\ PhasesKept /\ (StatesKept \/ work' = work)
<1>1. Save(job) \/ UNCHANGED <<job, work>>
  BY Zenon DEF SessionSuperseded
<1>2. job \in Job
  BY DEF TypeOK
<1> QED BY <1>1, <1>2, SaveDoes, SameRows DEF JobKept

\* A followup takes a new request on; only an idle job turns to it.
LEMMA FollowupDoes ==
  ASSUME TypeOK, NEW r \in Requests, Followup(r)
  PROVE  /\ rt.busy => JobKept
         /\ ~rt.busy => JobIs("active", "", job.delivery, job.cancelled, r)
         /\ ~Accepted(r) /\ work'[r].phase = "queued"
         /\ \A q \in Requests : q # r => work'[q].phase = work[q].phase
         /\ \A q \in Requests : work'[q].state = "cancelled" =>
              \/ job'.cancelled
              \/ q = job'.request /\ job'.state = "cancelled"
              \/ q # job'.request /\ q # r /\ work[q].state = "cancelled"
<1> DEFINE j == IF rt.busy THEN job
                ELSE [job EXCEPT !.request = r, !.state = "active", !.pause = ""]
<1>1. /\ job' = SavedJob(j, "") /\ work' = SavedWork(Inserted(work, r), j, "")
      /\ ~Accepted(r)
  BY DEF Followup
<1>2. /\ j \in Job
      /\ rt.busy => j = job
      /\ ~rt.busy => /\ j.state = "active" /\ j.pause = "" /\ j.request = r
                     /\ j.delivery = job.delivery /\ j.cancelled = job.cancelled
  BY DEF TypeOK, Job, JobStates, Pauses
<1> HIDE DEF j
<1>3. JobIs(j.state, j.pause, j.delivery, j.cancelled, j.request)
  BY <1>1, <1>2 DEF SavedJob, Job, JobIs
<1>4. /\ Inserted(work, r)[r].phase = "queued" /\ Inserted(work, r)[r].state = "queued"
      /\ \A q \in Requests : q # r => Inserted(work, r)[q] = work[q]
  BY <1>1 DEF Inserted, Accepted, TypeOK
<1> DEFINE w == Inserted(work, r)
<1>5. \A q \in Requests :
        /\ work'[q].phase = w[q].phase
        /\ work'[q].state = IF w[q].state \in {"", "completed"} THEN w[q].state
                            ELSE IF j.cancelled THEN "cancelled"
                            ELSE IF q = j.request THEN j.state ELSE w[q].state
  BY <1>1 DEF SavedWork
<1> HIDE DEF w
<1>6. /\ w[r].phase = "queued" /\ w[r].state = "queued"
      /\ \A q \in Requests : q # r => w[q] = work[q]
  BY <1>4 DEF w
<1>7. work'[r].phase = "queued" /\ \A q \in Requests : q # r => work'[q].phase = work[q].phase
  BY <1>5, <1>6
<1>8. \A q \in Requests : work'[q].state = "cancelled" =>
              \/ job'.cancelled
              \/ q = job'.request /\ job'.state = "cancelled"
              \/ q # job'.request /\ q # r /\ work[q].state = "cancelled"
  BY <1>3, <1>5, <1>6 DEF JobIs
<1> QED BY <1>1, <1>2, <1>3, <1>7, <1>8 DEF JobKept, JobIs

\* Continue clears the pause and the decision, on a job not cancelled.
LEMMA ContinueDoes ==
  ASSUME TypeOK, Continue
  PROVE  /\ ~job.cancelled /\ JobIs("active", "", "", FALSE, job.request)
         /\ PhasesKept /\ StatesKept
<1> DEFINE j == [job EXCEPT !.state = "active", !.pause = "", !.delivery = ""]
<1>1. Save(j) /\ ~job.cancelled
  BY DEF Continue, AcceptsTurnControl
<1>2. /\ j \in Job /\ j.state = "active" /\ j.pause = "" /\ j.delivery = ""
      /\ j.cancelled = FALSE /\ j.request = job.request
  BY <1>1 DEF TypeOK, Job, JobStates, Pauses, Deliveries
<1> HIDE DEF j
<1> QED BY <1>1, <1>2, SaveDoes

\* A decision is made on an offer, and recorded as submitted.
LEMMA PlanDecideDoes ==
  ASSUME TypeOK, NEW d \in Decision, PlanDecide(d)
  PROVE  /\ job.state = "plan_ready" /\ calls' = calls + 1
         /\ JobIs(IF d = "cancel" THEN "cancelled" ELSE "active",
                  "approval_delivery", "submitted", d = "cancel", job.request)
         /\ PhasesKept /\ StatesKept
<1> DEFINE s == IF d = "cancel" THEN "cancelled" ELSE "active"
           c == (d = "cancel")
           j == [job EXCEPT !.delivery = "submitted", !.pause = "approval_delivery",
                            !.state = s, !.cancelled = c]
<1>1. Save(j) /\ job.state = "plan_ready" /\ calls' = calls + 1
  BY Zenon DEF PlanDecide
<1>2. s \in JobStates /\ c \in BOOLEAN
  BY DEF JobStates
<1> HIDE DEF s, c
<1>3. /\ j \in Job /\ j.state = s /\ j.pause = "approval_delivery"
      /\ j.delivery = "submitted" /\ j.cancelled = c /\ j.request = job.request
  BY <1>2 DEF TypeOK, Job, Pauses, Deliveries
<1> HIDE DEF j
<1>4. JobIs(s, "approval_delivery", "submitted", c, job.request) /\ PhasesKept /\ StatesKept
  BY <1>1, <1>3, SaveDoes
<1> QED BY <1>1, <1>4 DEF s, c

\* The popped item's request becomes the current one, "preparing".
LEMMA PumpDoes ==
  ASSUME Coherent, PumpPops
  PROVE  LET r == Head(rt.queue).req
         IN  /\ r \in Requests /\ JobIs("active", "", job.delivery, job.cancelled, r)
             /\ \A q \in Requests : work'[q].phase = IF q = r THEN "preparing"
                                                     ELSE work[q].phase
             /\ StatesKept
<1> DEFINE r == Head(rt.queue).req
           j == [job EXCEPT !.request = r, !.state = "active", !.pause = ""]
<1>1. SavePhase(j, "preparing")
  BY DEF PumpPops
<1>2. r \in Requests
  <2>1. Head(rt.queue) \in FreshItem
    BY HeadTailProperties DEF PumpPops, PumpMayPop, Coherent, QueueFresh
  <2> QED BY <2>1 DEF FreshItem, Item
<1> HIDE DEF r
<1>3. /\ j \in Job /\ j.state = "active" /\ j.pause = "" /\ j.request = r
      /\ j.delivery = job.delivery /\ j.cancelled = job.cancelled
  BY <1>2 DEF Coherent, TypeOK, Job, JobStates, Pauses
<1> HIDE DEF j
<1>4. /\ JobIs("active", "", job.delivery, job.cancelled, r)
      /\ \A q \in Requests : work'[q].phase = IF q = r THEN "preparing" ELSE work[q].phase
      /\ StatesKept
  BY <1>1, <1>3, SavePhaseDoes DEF Coherent
<1> QED BY <1>2, <1>4 DEF r

\* The send moves the phase of the request the row names.
LEMMA SendDoes ==
  ASSUME TypeOK, NEW t \in turns, SendPrompt(t)
  PROVE  /\ JobKept /\ StatesKept
         /\ \A q \in Requests : work'[q].phase = IF q = job.request THEN "sent"
                                                 ELSE work[q].phase
<1>1. job \in Job /\ SavePhase(job, "sent")
  BY DEF TypeOK, SendPrompt
<1> QED BY <1>1, SavePhaseDoes DEF JobKept

\* The agent's request makes an offer, or asks for the plan's content; it is
\* counted in asked.
LEMMA OnApprovalDoes ==
  ASSUME TypeOK, NEW t \in turns, NEW pause \in Pauses, OnApproval(t, pause)
  PROVE  /\ pause \in {"approval", "plan_content_missing"} /\ asked' = asked + 1
         /\ ~job.cancelled /\ JobIs("plan_ready", pause, "pending", FALSE, job.request)
         /\ PhasesKept /\ StatesKept
<1> DEFINE j == [job EXCEPT !.state = "plan_ready", !.approval = asked + 1,
                            !.delivery = "pending", !.pause = pause]
<1>1. /\ Save(j) /\ ~job.cancelled /\ asked' = asked + 1
      /\ pause \in {"approval", "plan_content_missing"}
  BY DEF OnApproval
<1>2. /\ j \in Job /\ j.state = "plan_ready" /\ j.pause = pause
      /\ j.delivery = "pending" /\ j.cancelled = FALSE /\ j.request = job.request
  <2>1. asked + 1 \in Nat
    BY DEF TypeOK
  <2> QED BY <1>1, <2>1 DEF TypeOK, Job, JobStates, Deliveries
<1> HIDE DEF j
<1> QED BY <1>1, <1>2, SaveDoes

\* A connection that breaks expires a plan offered, and leaves a decision
\* submitted as unknown.
LEMMA DownDoes ==
  ASSUME TypeOK, Save(DisconnectedJob)
  PROVE  /\ JobIs(IF job.state = "plan_ready" THEN "plan_ready" ELSE "disconnected",
                  IF job.delivery = "submitted" THEN "approval_delivery_unknown"
                  ELSE IF job.state = "plan_ready" THEN "approval_expired" ELSE job.pause,
                  IF job.delivery = "submitted" THEN "unknown"
                  ELSE IF job.state = "plan_ready" THEN "expired" ELSE job.delivery,
                  job.cancelled, job.request)
         /\ PhasesKept /\ StatesKept
<1>1. DisconnectedJob \in Job /\ job \in Job
  BY DisconnectedTypes DEF TypeOK
<1>2. /\ DisconnectedJob.state = IF job.state = "plan_ready" THEN "plan_ready" ELSE "disconnected"
      /\ DisconnectedJob.pause = IF job.delivery = "submitted" THEN "approval_delivery_unknown"
                ELSE IF job.state = "plan_ready" THEN "approval_expired" ELSE job.pause
      /\ DisconnectedJob.delivery = IF job.delivery = "submitted" THEN "unknown"
                ELSE IF job.state = "plan_ready" THEN "expired" ELSE job.delivery
      /\ DisconnectedJob.cancelled = job.cancelled
      /\ DisconnectedJob.request = job.request
  BY <1>1 DEF DisconnectedJob, Job
<1>3. /\ JobIs(DisconnectedJob.state, DisconnectedJob.pause, DisconnectedJob.delivery,
               DisconnectedJob.cancelled, DisconnectedJob.request)
      /\ PhasesKept /\ StatesKept
  BY <1>1, SaveDoes
<1> QED BY <1>2, <1>3

\* fail writes back the delivery state its turn saw, if it refused to prepare.
LEMMA FinishFailedDoes ==
  ASSUME TypeOK, NEW t \in turns, FinishFailed(t)
  PROVE  LET base == IF t.out = "refused" THEN t.seen ELSE job.delivery
             pause == IF t.out = "refused" THEN "" ELSE job.pause
         IN  /\ JobIs("failed",
                      IF base = "submitted" THEN "approval_delivery_unknown" ELSE pause,
                      IF base = "submitted" THEN "unknown" ELSE base,
                      job.cancelled, job.request)
             /\ PhasesKept /\ StatesKept
<1> DEFINE base == IF t.out = "refused" THEN [job EXCEPT !.delivery = t.seen, !.pause = ""]
                   ELSE job
           down == [base EXCEPT !.state = "failed"]
           lost == [down EXCEPT !.delivery = "unknown", !.pause = "approval_delivery_unknown"]
           j == IF base.delivery = "submitted" THEN lost ELSE down
<1>1. Save(j)
  BY Zenon DEF FinishFailed
<1>2. /\ base \in Job /\ base.cancelled = job.cancelled /\ base.request = job.request
      /\ base.delivery = IF t.out = "refused" THEN t.seen ELSE job.delivery
      /\ base.pause = IF t.out = "refused" THEN "" ELSE job.pause
  BY DEF TypeOK, Job, Turn, Pauses
<1> HIDE DEF base
<1>3. /\ down \in Job /\ down.state = "failed" /\ down.pause = base.pause
      /\ down.delivery = base.delivery /\ down.cancelled = base.cancelled
      /\ down.request = base.request
  BY <1>2 DEF Job, JobStates
<1> HIDE DEF down
<1>4. /\ lost \in Job /\ lost.state = "failed" /\ lost.pause = "approval_delivery_unknown"
      /\ lost.delivery = "unknown" /\ lost.cancelled = down.cancelled
      /\ lost.request = down.request
  BY <1>3 DEF Job, Pauses, Deliveries
<1> HIDE DEF lost
<1>5. /\ j \in Job /\ j.state = "failed"
      /\ j.pause = IF base.delivery = "submitted" THEN "approval_delivery_unknown" ELSE base.pause
      /\ j.delivery = IF base.delivery = "submitted" THEN "unknown" ELSE base.delivery
      /\ j.cancelled = job.cancelled /\ j.request = job.request
  BY <1>2, <1>3, <1>4
<1> HIDE DEF j
<1>6. JobIs(j.state, j.pause, j.delivery, j.cancelled, j.request) /\ PhasesKept /\ StatesKept
  BY <1>1, <1>5, SaveDoes
<1> QED BY <1>2, <1>5, <1>6

\* An answer is recorded with its request's result.
LEMMA FinishAppliedDoes ==
  ASSUME TypeOK, NEW t \in turns, FinishApplied(t)
  PROVE  /\ t.out \in Marks /\ ~job.cancelled
         /\ JobIs(StateAfter(MarkState(t.out)),
                  IF t.out = "unmarked" THEN "review_required" ELSE "",
                  Confirmed(job.delivery), FALSE, job.request)
         /\ StateAfter(MarkState(t.out)) \in {"active", "needs_input", "completed"}
         /\ \A r \in Requests : work'[r].phase = IF r = job.request THEN "returned"
                                                 ELSE work[r].phase
         /\ \A r \in Requests :
              work'[r].state = "cancelled" => r # job.request /\ work[r].state = "cancelled"
<1> DEFINE s == StateAfter(MarkState(t.out))
           p == IF t.out = "unmarked" THEN "review_required" ELSE ""
           d == Confirmed(job.delivery)
           j == [job EXCEPT !.state = s, !.pause = p, !.delivery = d]
           w == SavedWork(work, j, "returned")
<1>1. /\ t.out \in Marks /\ ~job.cancelled
      /\ job' = SavedJob([job EXCEPT !.state = s, !.pause = p,
                                     !.delivery = Confirmed(@)], "returned")
      /\ work' = [SavedWork(work, [job EXCEPT !.state = s, !.pause = p,
                                     !.delivery = Confirmed(@)], "returned")
                    EXCEPT ![t.item.req].state = MarkState(t.out)]
  BY Zenon DEF FinishApplied
<1>2. job' = SavedJob(j, "returned") /\ work' = [w EXCEPT ![t.item.req].state = MarkState(t.out)]
  BY <1>1, Zenon
<1>3. s \in {"active", "needs_input", "completed"} /\ MarkState(t.out) # "cancelled"
  BY <1>1 DEF StateAfter, MarkState, Marks
<1>4. d \in Deliveries /\ p \in Pauses
  BY DEF Confirmed, TypeOK, Job, Deliveries, Pauses
<1> HIDE DEF s, p, d
<1>5. /\ j \in Job /\ j.state = s /\ j.pause = p /\ j.delivery = d
      /\ j.cancelled = FALSE /\ j.request = job.request
  BY <1>1, <1>3, <1>4 DEF TypeOK, Job, JobStates
<1> HIDE DEF j
<1>6. JobIs(s, p, d, FALSE, job.request)
  BY <1>2, <1>5 DEF SavedJob, Job, JobIs
<1>7. \A r \in Requests :
        /\ w[r].phase = IF r = job.request THEN "returned" ELSE work[r].phase
        /\ w[r].state = IF work[r].state \in {"", "completed"} THEN work[r].state
                            ELSE IF r = job.request THEN s ELSE work[r].state
  BY <1>5 DEF SavedWork
<1>8. w \in [Requests -> [phase : {w[r].phase : r \in Requests}, state : {w[r].state : r \in Requests}]]
  BY DEF SavedWork
<1> HIDE DEF w
<1>9. \A r \in Requests :
        /\ work'[r].phase = w[r].phase
        /\ work'[r].state = IF r = t.item.req THEN MarkState(t.out) ELSE w[r].state
  BY <1>2, <1>8
<1>10. \A r \in Requests :
         /\ work'[r].phase = IF r = job.request THEN "returned" ELSE work[r].phase
         /\ work'[r].state = "cancelled" => r # job.request /\ work[r].state = "cancelled"
  BY <1>3, <1>7, <1>9
<1> QED BY <1>1, <1>3, <1>6, <1>10 DEF s, p, d

\* A decision that could not be delivered is left as unknown.
LEMMA PlanDecidedDoes ==
  ASSUME TypeOK, NEW d \in deciders, PlanDecided(d)
  PROVE  /\ PhasesKept
         /\ \/ JobKept /\ UNCHANGED work
            \/ /\ job.delivery = "submitted" /\ StatesKept
               /\ JobIs("needs_input", "approval_delivery_unknown", "unknown",
                        job.cancelled, job.request)
<1> DEFINE j == [job EXCEPT !.delivery = "unknown", !.state = "needs_input",
                            !.pause = "approval_delivery_unknown"]
<1>1. \/ UNCHANGED <<job, work>>
      \/ Save(j) /\ job.delivery = "submitted"
  BY Zenon DEF PlanDecided
<1>2. /\ j \in Job /\ j.state = "needs_input" /\ j.pause = "approval_delivery_unknown"
      /\ j.delivery = "unknown" /\ j.cancelled = job.cancelled /\ j.request = job.request
  BY DEF TypeOK, Job, JobStates, Pauses, Deliveries
<1> HIDE DEF j
<1> QED BY <1>1, <1>2, SaveDoes, SameRows

\* A cancellation pauses the job until it is delivered.
LEMMA CancelBeginDoes ==
  ASSUME TypeOK, NEW c \in cancels, CancelBegin(c)
  PROVE  /\ ~job.cancelled /\ PhasesKept /\ StatesKept
         /\ JobIs("needs_input", "cancel_delivery", job.delivery, FALSE, job.request)
<1> DEFINE j == [job EXCEPT !.state = "needs_input", !.pause = "cancel_delivery"]
<1>1. Save(j) /\ ~job.cancelled
  BY DEF CancelBegin, CancelAllowed, AcceptsTurnControl
<1>2. /\ j \in Job /\ j.state = "needs_input" /\ j.pause = "cancel_delivery"
      /\ j.delivery = job.delivery /\ j.cancelled = FALSE /\ j.request = job.request
  BY <1>1 DEF TypeOK, Job, JobStates, Pauses
<1> HIDE DEF j
<1> QED BY <1>1, <1>2, SaveDoes

\* Its delivery only settles that pause.
LEMMA CancelDeliveredDoes ==
  ASSUME TypeOK, NEW c \in cancels, NEW ok \in BOOLEAN, CancelDelivered(c, ok)
  PROVE  /\ PhasesKept /\ (StatesKept \/ UNCHANGED work)
         /\ \E pause \in {job.pause, "", "cancel_delivery_unknown"} :
              JobIs(job.state, pause, job.delivery, job.cancelled, job.request)
<1> DEFINE p == IF ok THEN "" ELSE "cancel_delivery_unknown"
           j == [job EXCEPT !.pause = p]
<1>1. UNCHANGED <<job, work>> \/ Save(j)
  BY Zenon DEF CancelDelivered
<1>2. p \in {"", "cancel_delivery_unknown"} /\ p \in Pauses
  BY DEF Pauses
<1> HIDE DEF p
<1>3. /\ j \in Job /\ j.state = job.state /\ j.pause = p /\ j.delivery = job.delivery
      /\ j.cancelled = job.cancelled /\ j.request = job.request
  BY <1>2 DEF TypeOK, Job
<1> HIDE DEF j
<1>4. CASE Save(j)
  <2>1. JobIs(job.state, p, job.delivery, job.cancelled, job.request)
        /\ PhasesKept /\ StatesKept
    BY <1>3, <1>4, SaveDoes
  <2> QED BY <1>2, <2>1
<1>5. CASE UNCHANGED <<job, work>>
  BY <1>5, SameRows DEF JobKept
<1> QED BY <1>1, <1>4, <1>5

\* The recovery expires a plan offered, and leaves a decision as unknown.
LEMMA RestartDoes ==
  ASSUME TypeOK, Restart
  PROVE  /\ PhasesKept /\ (StatesKept \/ UNCHANGED work)
         /\ job'.cancelled = job.cancelled /\ job'.request = job.request
         /\ job'.state \in {job.state, "disconnected"}
         /\ job'.pause = "review_required" => job.pause = "review_required"
         /\ job'.delivery \in {job.delivery, "unknown", "expired"}
         /\ job'.delivery = "unknown" => job.delivery \in {"submitted", "unknown"}
         /\ job'.delivery = "expired" => job.delivery = "expired" \/ job.state = "plan_ready"
         /\ job'.state = "plan_ready" =>
              job.cancelled \/ (job'.delivery = "expired" /\ job'.pause = "approval_expired")
<1>1. \/ UNCHANGED <<job, work>> /\ (job.cancelled \/ job.state # "plan_ready")
      \/ Save(ResumeJob)
  BY DEF Restart
<1>2. job \in Job
  BY DEF TypeOK
<1> DEFINE expired == IF job.state = "plan_ready"
                 THEN [job EXCEPT !.pause = "approval_expired", !.delivery = "expired"]
                 ELSE job
           lost == [expired EXCEPT !.delivery = "unknown",
                                   !.pause = "approval_delivery_unknown"]
           unknown == IF expired.delivery = "submitted" THEN lost ELSE expired
           reason == IF unknown.pause # "" THEN unknown.pause
                ELSE IF job.phase \in {"queued", "preparing"} THEN "request_not_sent"
                ELSE "execution_unknown"
           j == IF IsActive(job.state) \/ job.state = "disconnected"
                THEN [unknown EXCEPT !.state = "disconnected", !.pause = reason]
                ELSE unknown
<1>3. ResumeJob = j
  BY Zenon DEF ResumeJob
<1>4. /\ expired \in Job /\ expired.cancelled = job.cancelled /\ expired.request = job.request
      /\ expired.state = job.state
      /\ job.state = "plan_ready" => expired.delivery = "expired" /\ expired.pause = "approval_expired"
      /\ job.state # "plan_ready" => expired.delivery = job.delivery /\ expired.pause = job.pause
  BY <1>2 DEF Job, Pauses, Deliveries
<1> HIDE DEF expired
<1>5. /\ lost \in Job /\ lost.cancelled = job.cancelled /\ lost.request = job.request
      /\ lost.state = job.state /\ lost.delivery = "unknown"
      /\ lost.pause = "approval_delivery_unknown"
  BY <1>4 DEF Job, Pauses, Deliveries
<1> HIDE DEF lost
<1>6. /\ unknown \in Job /\ unknown.cancelled = job.cancelled /\ unknown.request = job.request
      /\ unknown.state = job.state
      /\ unknown.pause = "review_required" => job.pause = "review_required"
      /\ unknown.delivery \in {job.delivery, "unknown", "expired"}
      /\ unknown.delivery = "unknown" => job.delivery \in {"submitted", "unknown"}
      /\ unknown.delivery = "expired" => job.delivery = "expired" \/ job.state = "plan_ready"
      /\ job.state = "plan_ready" =>
           unknown.delivery = "expired" /\ unknown.pause = "approval_expired"
  BY <1>4, <1>5
<1> HIDE DEF unknown
<1>7. reason \in Pauses /\ (reason = "review_required" => unknown.pause = "review_required")
  BY <1>6 DEF Job, Pauses
<1> HIDE DEF reason
<1>8. /\ j \in Job /\ j.cancelled = job.cancelled /\ j.request = job.request
      /\ j.state \in {job.state, "disconnected"} /\ j.delivery = unknown.delivery
      /\ j.state = "plan_ready" => j.pause = unknown.pause /\ job.state = "plan_ready"
      /\ j.pause \in {unknown.pause, reason}
  BY <1>6, <1>7 DEF Job, JobStates, IsActive
<1> HIDE DEF j
<1>9. CASE Save(ResumeJob)
  <2>1. JobIs(j.state, j.pause, j.delivery, j.cancelled, j.request) /\ PhasesKept /\ StatesKept
    BY <1>3, <1>8, <1>9, SaveDoes
  <2>2. /\ job'.state = j.state /\ job'.pause = j.pause /\ job'.delivery = j.delivery
        /\ job'.cancelled = j.cancelled /\ job'.request = j.request
    BY <2>1 DEF JobIs
  <2> QED BY <1>6, <1>7, <1>8, <2>1, <2>2
<1>10. CASE UNCHANGED <<job, work>> /\ (job.cancelled \/ job.state # "plan_ready")
  BY <1>10 DEF PhasesKept
<1> QED BY <1>1, <1>9, <1>10

-----------------------------------------------------------------------------
(* What a step does to the turn in flight, in detail.                      *)

Carried(u, t) == u.id = t.id /\ u.item = t.item /\ u.seen = t.seen

\* How a turn that was in flight before a step goes through it.
Progress(u, t) ==
  /\ Carried(u, t)
  /\ \/ u.stage = t.stage /\ u.out = t.out
     \/ SendPrompt(t) /\ u.stage = "sent" /\ u.out = "none"
     \/ t.stage = "loading" /\ u.stage = "returned" /\ u.out \in {"nil", "lost", "refused"}
     \/ /\ t.stage = "sent" /\ u.stage = "returned"
        /\ u.out \in {"nil", "lost", "failed"} \cup Marks
        /\ u.out = "nil" => Stale(t)

\* A turn that begins is the item at the head of the queue.
Begun(u) ==
  /\ PumpPops /\ turns = {}
  /\ u.item = Head(rt.queue) /\ u.stage = "loading" /\ u.out = "none"
  /\ u.seen = job.delivery

\* Where no turn changes, each goes through the step as it is.
LEMMA SameTurnsMove ==
  ASSUME turns' = turns, NEW u \in turns' PROVE \E t \in turns : Progress(u, t)
<1>1. Progress(u, u)
  BY Zenon DEF Progress, Carried
<1> QED BY <1>1

\* Every turn in flight after a step began in it, or went through it.
LEMMA TurnMoves ==
  ASSUME Coherent, [Next]_vars, NEW u \in turns'
  PROVE  Begun(u) \/ \E t \in turns : Progress(u, t)
<1> DEFINE Moves == \E t \in turns : Progress(u, t)
<1>0. turns' = turns => Moves
  BY SameTurnsMove
<1>1. ASSUME NEW t \in turns, NEW stage, NEW out, Moved(t, stage, out)
      PROVE  Moves \/ (Carried(u, t) /\ u.stage = stage /\ u.out = out)
  <2> DEFINE moved == [t EXCEPT !.stage = stage, !.out = out]
  <2>1. Carried(moved, t) /\ moved.stage = stage /\ moved.out = out
    BY DEF Coherent, TypeOK, Turn, Carried
  <2>2. turns' = (turns \ {t}) \cup {moved}
    BY <1>1 DEF Moved
  <2> HIDE DEF moved
  <2>3. CASE u = moved
    BY <2>1, <2>3
  <2>4. CASE u \in turns
    <3>1. Progress(u, u)
      BY Zenon DEF Progress, Carried
    <3> QED BY <2>4, <3>1
  <2> QED BY <2>2, <2>3, <2>4
<1>2. CASE Session
  BY <1>0, <1>2 DEF Session, StartJob, SessionFailed, SessionCreated, SessionSuperseded
<1>3. CASE Users
  BY <1>0, <1>3 DEF Users, Followup, Continue, CancelQueued, CancelChecked, PlanDecide
<1>4. CASE PumpPops
  <2> DEFINE t == [id |-> issued + 1, item |-> Head(rt.queue),
                   stage |-> "loading", out |-> "none", seen |-> job.delivery]
  <2>1. turns = {} /\ turns' = turns \cup {t}
    BY <1>4 DEF PumpPops, PumpMayPop, Coherent, SingleTurn
  <2>2. /\ t.item = Head(rt.queue) /\ t.stage = "loading" /\ t.out = "none"
        /\ t.seen = job.delivery
    BY Zenon
  <2> HIDE DEF t
  <2>3. u = t
    BY <2>1
  <2> QED BY <1>4, <2>1, <2>2, <2>3, Zenon DEF Begun
<1>5. CASE Settling
  BY <1>0, <1>5 DEF Settling, ListJobs, Disconnect, PlanDecided, ResolveApproval,
     CancelBegin, CancelRefused, CancelDelivered
<1>6. CASE PumpSkips \/ UNCHANGED vars
  BY <1>0, <1>6 DEF PumpSkips, vars
<1>7. CASE ConnectionLost
  <2> DEFINE cut(t) == IF t.stage = "sent"
                       THEN [t EXCEPT !.stage = "returned",
                                      !.out = IF Stale(t) THEN "nil" ELSE "lost"]
                       ELSE t
  <2>1. PICK t \in turns : u = cut(t)
    BY <1>7 DEF ConnectionLost
  <2>2. CASE t.stage # "sent"
    <3>1. u = t
      BY <2>1, <2>2
    <3> QED BY <3>1, Zenon DEF Progress, Carried
  <2>3. CASE t.stage = "sent"
    <3> DEFINE o == IF Stale(t) THEN "nil" ELSE "lost"
    <3>1. u = [t EXCEPT !.stage = "returned", !.out = o]
      BY <2>1, <2>3
    <3>2. o \in {"nil", "lost"} /\ (o = "nil" => Stale(t))
      OBVIOUS
    <3> HIDE DEF o
    <3>3. Carried(u, t) /\ u.stage = "returned" /\ u.out = o
      BY <3>1 DEF Coherent, TypeOK, Turn, Carried
    <3> QED BY <2>3, <3>2, <3>3 DEF Progress
  <2> QED BY <2>2, <2>3
<1>8. CASE Restart
  BY <1>8 DEF Restart
<1>9. CASE Agent
  <2>1. ASSUME NEW t \in turns, NEW out \in {"nil", "lost", "refused"}, PrepareFails(t, out)
        PROVE  Moves
    BY <1>1, <2>1 DEF PrepareFails, Progress
  <2>2. ASSUME NEW t \in turns, SendPrompt(t) PROVE Moves
    BY <1>1, <2>2 DEF SendPrompt, Progress
  <2>3. ASSUME NEW t \in turns, DropStale(t) PROVE Moves
    BY <1>1, <2>3 DEF DropStale, Progress
  <2>4. ASSUME NEW t \in turns, NEW out \in Outcomes, PromptReturns(t, out) PROVE Moves
    <3> DEFINE o == IF Stale(t) THEN "nil" ELSE out
    <3>1. Moved(t, "returned", o) /\ t.stage = "sent" /\ out \in {"lost", "failed"} \cup Marks
      BY <2>4 DEF PromptReturns
    <3>2. o \in {"nil", "lost", "failed"} \cup Marks /\ (o = "nil" => Stale(t))
      BY <3>1 DEF Marks
    <3> HIDE DEF o
    <3> QED BY <1>1, <3>1, <3>2 DEF Progress
  <2>5. ASSUME NEW t \in turns, Finish(t) PROVE Moves
    BY <2>5, FinishLeavesNone DEF Coherent
  <2>6. ASSUME NEW t \in turns, NEW pause \in Pauses, OnApproval(t, pause) PROVE Moves
    BY <1>0, <2>6 DEF OnApproval
  <2> QED BY <1>0, <1>9, <2>1, <2>2, <2>3, <2>4, <2>5, <2>6 DEF Agent, Preparing, AskDropped
<1> QED BY <1>2, <1>3, <1>4, <1>5, <1>6, <1>7, <1>8, <1>9 DEF Next, Faults

-----------------------------------------------------------------------------
(* The second inductive invariant, on top of Coherent.                     *)

\* Nothing is sent, offered or decided before there is a session.
SessionFirst ==
  /\ \A t \in turns : t.stage = "sent" => starter.stage = "done"
  /\ starter.stage # "done" =>
       /\ job.state # "plan_ready" /\ job.pause # "review_required"
       /\ job.delivery = "" /\ ~job.cancelled /\ deciders = {}
       /\ \A t \in turns : t.seen = "" /\ t.out \notin Marks

\* Once startJob can no longer put the first request back into the row, the turn
\* of the present generation runs the request the row names, unless the session
\* came late.
Undisturbed == /\ ~starter.late
               /\ \/ starter.stage = "done"
                  \/ starter.stage = "creating" /\ starter.gen # rt.gen
CurrentFirst ==
  Undisturbed => \A t \in turns : ~Stale(t) => job.request = t.item.req

\* A prompt that runs was recorded as sent, if the row named its request.
Answered(t) == t.stage = "returned" /\ t.out \in {"lost", "failed"} \cup Marks
SentRecorded ==
  \A t \in turns : t.stage = "sent" =>
    /\ t.out = "none"
    /\ job.request = t.item.req => work[t.item.req].phase = "sent"

\* A turn of a passed generation was revoked, and while there is one the
\* runtime knows its turn as cancelled.
StaleIsRevoked == /\ revoked # {} => rt.cancelledTurn
                  /\ \A t \in turns : Stale(t) => t.id \in revoked

\* A job the user cancelled offers nothing; a decision to cancel is one on a
\* job that is, and no other is called cancelled.
CancelledOffersNothing ==
  /\ \A d \in deciders : d.decide = "cancel" => job.cancelled
  /\ job.cancelled => job.state # "plan_ready"
  /\ job.state = "cancelled" => job.cancelled

\* An offer is pending or expired; it was made after the turn's prompt left,
\* and a pending one by a turn that still runs, for the current request.
OfferOf(t) == /\ t.id \notin revoked /\ t.item.req = job.request
              /\ t.stage = "sent" \/ Answered(t)
              /\ work[t.item.req].phase = "sent"
              /\ work[t.item.req].state # "cancelled"
OffersLive ==
  job.state = "plan_ready" =>
    /\ job.delivery \in {"pending", "expired"}
    /\ job.pause = "approval_expired" => job.delivery = "expired"
    /\ \A t \in turns : t.stage # "loading" /\ t.out # "refused"
    /\ job.delivery = "pending" => \E t \in turns : OfferOf(t)

\* What a turn saw of a decision before its calls is still what the row says,
\* or was submitted then and became unknown.
SeenIsFresh ==
  \A t \in turns :
    /\ t.stage = "loading" \/ t.out = "refused"
    /\ job.delivery \in {"submitted", "unknown"}
    => t.seen = "submitted"

\* A cancellation in delivery holds the pump, and there is one at most.
OneCancel ==
  /\ \A c, d \in cancels : c.stage = "delivering" /\ d.stage = "delivering" => c = d
  /\ \A c \in cancels : c.stage = "delivering" => rt.controlPending

Accountable == /\ Coherent /\ SessionFirst /\ CurrentFirst /\ SentRecorded
               /\ StaleIsRevoked /\ CancelledOffersNothing /\ OffersLive /\ SeenIsFresh /\ OneCancel

-----------------------------------------------------------------------------
(* Generations, cancellations, decisions and the starter.                  *)

GenHeld == rt'.gen = rt.gen /\ revoked' = revoked /\ rt'.cancelledTurn = rt.cancelledTurn
GenBumped == /\ rt'.gen = rt.gen + 1 /\ revoked' = revoked \cup InFlight
             /\ rt'.cancelledTurn = TRUE /\ turns' = turns
             /\ \/ Save(DisconnectedJob)
                \/ \E d \in deciders : PlanDecided(d) /\ d.decide = "cancel"
                \/ \E c \in cancels : CancelBegin(c)

\* The generation moves only with a revocation of what is in flight.
LEMMA GenStep ==
  ASSUME Coherent, [Next]_vars
  PROVE  \/ GenHeld \/ GenBumped
         \/ PumpPops /\ turns = {} /\ revoked = {} /\ revoked' = {} /\ rt'.gen = rt.gen
         \/ turns' = {} /\ revoked' = {}
<1>1. rt \in Runtime /\ DisconnectedRt(rt).gen = rt.gen + 1
      /\ DisconnectedRt(rt).cancelledTurn = TRUE
  BY DEF Coherent, TypeOK, DisconnectedRt, Runtime
<1>2. UNCHANGED <<rt, revoked>> => GenHeld
  BY DEF GenHeld
<1>3. CASE Session
  BY <1>1, <1>3 DEF Session, StartJob, SessionFailed, SessionCreated,
     SessionSuperseded, Runtime, GenHeld
<1>4. CASE Users
  <2>1. revoked' = revoked
    BY <1>4 DEF Users, Followup, Continue, CancelQueued, CancelChecked, PlanDecide
  <2>2. rt' = rt \/ \E q : rt' = [rt EXCEPT !.queue = q]
    <3>1. ASSUME NEW r \in Requests, Followup(r) PROVE \E q : rt' = [rt EXCEPT !.queue = q]
      BY <3>1, Zenon DEF Followup
    <3>2. ASSUME NEW r \in Requests, CancelQueued(r)
          PROVE  \E q : rt' = [rt EXCEPT !.queue = q]
      BY <3>2, Zenon DEF CancelQueued
    <3>3. ASSUME Continue PROVE \E q : rt' = [rt EXCEPT !.queue = q]
      BY <3>3, Zenon DEF Continue
    <3> QED BY <1>4, <3>1, <3>2, <3>3 DEF Users, CancelChecked, PlanDecide
  <2> QED BY <1>1, <2>1, <2>2 DEF Runtime, GenHeld
<1>5. CASE Settling
  <2>1. ASSUME ListJobs \/ Disconnect PROVE GenHeld \/ GenBumped
    BY <1>1, <2>1 DEF ListJobs, Disconnect, GenHeld, GenBumped
  <2>2. ASSUME NEW d \in deciders, PlanDecided(d) PROVE GenHeld \/ GenBumped
    BY <1>1, <2>2 DEF PlanDecided, GenHeld, GenBumped
  <2>3. ASSUME NEW d \in deciders, NEW res \in {"ok", "err"}, ResolveApproval(d, res)
        PROVE  GenHeld
    BY <2>3 DEF ResolveApproval, GenHeld
  <2>4. ASSUME NEW c \in cancels, CancelBegin(c) PROVE GenBumped
    BY <1>1, <2>4 DEF CancelBegin, Runtime, GenBumped
  <2>5. ASSUME NEW c \in cancels, CancelRefused(c) PROVE GenHeld
    BY <2>5 DEF CancelRefused, GenHeld
  <2>6. ASSUME NEW c \in cancels, NEW ok \in BOOLEAN, CancelDelivered(c, ok) PROVE GenHeld
    BY <1>1, <2>6 DEF CancelDelivered, Uncontrolled, Runtime, GenHeld
  <2> QED BY <1>5, <2>1, <2>2, <2>3, <2>4, <2>5, <2>6 DEF Settling
<1>6. CASE PumpPops
  <2>1. turns = {} /\ revoked' = revoked /\ rt'.gen = rt.gen
    BY <1>1, <1>6 DEF PumpPops, PumpMayPop, Coherent, SingleTurn, Runtime
  <2> QED BY <1>6, <2>1 DEF Coherent, RevokedIsStale, InFlight
<1>7. ASSUME NEW t \in turns, Finish(t) PROVE turns' = {} /\ revoked' = {}
  <2>1. turns = {t} /\ turns' = {} /\ revoked' = revoked \ {t.id}
    BY <1>7, FinishLeavesNone DEF Coherent
  <2> QED BY <2>1 DEF Coherent, RevokedIsStale, InFlight
<1>8. CASE Agent
  <2>1. ASSUME NEW t \in turns, Preparing(t) PROVE GenHeld
    BY <2>1 DEF Preparing, PrepareFails, SendPrompt, DropStale, GenHeld
  <2>2. ASSUME NEW t \in turns, NEW out \in Outcomes, PromptReturns(t, out) PROVE GenHeld
    BY <2>2 DEF PromptReturns, GenHeld
  <2>3. ASSUME NEW t \in turns, NEW pause \in Pauses, OnApproval(t, pause) PROVE GenHeld
    BY <2>3 DEF OnApproval, GenHeld
  <2> QED BY <1>2, <1>7, <1>8, <2>1, <2>2, <2>3 DEF Agent, AskDropped
<1>9. CASE Restart
  BY <1>9 DEF Restart
<1>10. CASE PumpSkips \/ ConnectionLost \/ UNCHANGED vars
  BY <1>2, <1>10 DEF PumpSkips, ConnectionLost, vars
<1> QED BY <1>3, <1>4, <1>5, <1>6, <1>8, <1>9, <1>10 DEF Next, Faults

\* A bump revokes what is in flight in the same step.
LEMMA StaleIsRevokedStep ==
  ASSUME Accountable, [Next]_vars
  PROVE  StaleIsRevoked'
<1>1. /\ revoked # {} => rt.cancelledTurn
      /\ \A t \in turns : t.item.gen # rt.gen => t.id \in revoked
      /\ Coherent
  BY DEF Accountable, StaleIsRevoked, Stale
<1>2. CASE GenHeld
  <2>1. ASSUME NEW u \in turns', Stale(u)' PROVE u.id \in revoked'
    <3>1. CASE Begun(u)
      <4>1. Head(rt.queue) \in FreshItem
        BY <3>1, HeadTailProperties DEF Begun, PumpPops, PumpMayPop, Coherent, QueueFresh, Accountable
      <4> QED BY <1>2, <2>1, <3>1, <4>1 DEF Begun, FreshItem, Stale, GenHeld
    <3>2. ASSUME NEW t \in turns, Progress(u, t) PROVE u.id \in revoked'
      BY <1>1, <1>2, <2>1, <3>2 DEF Progress, Carried, Stale, GenHeld
    <3> QED BY <1>1, <3>1, <3>2, TurnMoves
  <2> QED BY <1>1, <1>2, <2>1 DEF StaleIsRevoked, GenHeld
<1>3. CASE GenBumped
  BY <1>3 DEF GenBumped, StaleIsRevoked, InFlight
<1>4. CASE PumpPops /\ turns = {} /\ revoked' = {} /\ rt'.gen = rt.gen
  <2>1. ASSUME NEW u \in turns' PROVE ~Stale(u)'
    <3>1. Begun(u)
      BY <1>1, <1>4, TurnMoves
    <3>2. Head(rt.queue) \in FreshItem
      BY <3>1, HeadTailProperties DEF Begun, PumpPops, PumpMayPop, Coherent, QueueFresh, Accountable
    <3> QED BY <1>4, <3>1, <3>2 DEF Begun, FreshItem, Stale
  <2> QED BY <1>4, <2>1 DEF StaleIsRevoked
<1>5. CASE turns' = {} /\ revoked' = {}
  BY <1>5 DEF StaleIsRevoked
<1> QED BY <1>1, <1>2, <1>3, <1>4, <1>5, GenStep

\* The pump is held from the start of a delivery to its end.
LEMMA ControlStep ==
  ASSUME TypeOK, [Next]_vars
  PROVE  \/ rt'.controlPending = rt.controlPending
         \/ \E c \in cancels : \/ CancelBegin(c)
                               \/ \E ok \in BOOLEAN : CancelDelivered(c, ok)
         \/ Restart
<1> DEFINE Held == rt'.controlPending = rt.controlPending
<1>1. rt \in Runtime /\ DisconnectedRt(rt).controlPending = rt.controlPending
  BY DEF TypeOK, DisconnectedRt, Runtime
<1>2. CASE Session
  BY <1>1, <1>2 DEF Session, StartJob, SessionFailed, SessionCreated,
     SessionSuperseded, Runtime
<1>3. CASE Users
  <2>1. rt' = rt \/ \E q : rt' = [rt EXCEPT !.queue = q]
    <3>1. ASSUME NEW r \in Requests, Followup(r) PROVE \E q : rt' = [rt EXCEPT !.queue = q]
      BY <3>1, Zenon DEF Followup
    <3>2. ASSUME NEW r \in Requests, CancelQueued(r)
          PROVE  \E q : rt' = [rt EXCEPT !.queue = q]
      BY <3>2, Zenon DEF CancelQueued
    <3>3. ASSUME Continue PROVE \E q : rt' = [rt EXCEPT !.queue = q]
      BY <3>3, Zenon DEF Continue
    <3> QED BY <1>3, <3>1, <3>2, <3>3 DEF Users, CancelChecked, PlanDecide
  <2> QED BY <1>1, <2>1 DEF Runtime
<1>4. ASSUME NEW t \in turns, Finish(t) PROVE Held
  <2>1. /\ Released \in Runtime /\ Released.controlPending = rt.controlPending
    BY <1>1, ReleasedType DEF Released, Runtime
  <2>2. DisconnectedRt(Released).controlPending = rt.controlPending
    BY <2>1 DEF DisconnectedRt, Runtime
  <2>3. FinishApplied(t) => \/ rt' = Released
                            \/ \E q : rt' = [Released EXCEPT !.queue = q]
    BY Zenon DEF FinishApplied
  <2> QED BY <1>4, <2>1, <2>2, <2>3 DEF Finish, FinishNothing, FinishLost, FinishFailed, Runtime
<1>5. CASE Agent
  <2>1. ASSUME NEW t \in turns, Preparing(t) PROVE Held
    BY <2>1 DEF Preparing, PrepareFails, SendPrompt, DropStale
  <2>2. ASSUME NEW t \in turns, NEW out \in Outcomes, PromptReturns(t, out) PROVE Held
    BY <2>2 DEF PromptReturns
  <2>3. ASSUME NEW t \in turns, NEW pause \in Pauses, OnApproval(t, pause) PROVE Held
    BY <2>3 DEF OnApproval
  <2> QED BY <1>4, <1>5, <2>1, <2>2, <2>3 DEF Agent, AskDropped
<1>6. ASSUME ListJobs \/ Disconnect PROVE Held
  BY <1>1, <1>6 DEF ListJobs, Disconnect
<1>7. ASSUME NEW d \in deciders, PlanDecided(d) PROVE Held
  BY <1>1, <1>7 DEF PlanDecided
<1>8. CASE PumpPops
  BY <1>1, <1>8 DEF PumpPops, Runtime
<1>9. CASE PumpSkips \/ ConnectionLost \/ UNCHANGED vars
  BY <1>9 DEF PumpSkips, ConnectionLost, vars
<1>10. ASSUME NEW c \in cancels, CancelRefused(c) PROVE Held
  BY <1>10 DEF CancelRefused
<1>11. ASSUME NEW d \in deciders, NEW res \in {"ok", "err"}, ResolveApproval(d, res) PROVE Held
  BY <1>11 DEF ResolveApproval
<1> QED BY <1>2, <1>3, <1>5, <1>6, <1>7, <1>8, <1>9, <1>10, <1>11 DEF Next, Settling, Faults

\* A cancellation is in delivery after a step only if it was before, or began.
LEMMA CancelsStep ==
  ASSUME TypeOK, [Next]_vars
  PROVE  \/ \A c \in cancels' : c.stage = "delivering" => c \in cancels
         \/ \E c \in cancels : CancelBegin(c)
<1> DEFINE Held == \A c \in cancels' : c.stage = "delivering" => c \in cancels
<1>1. cancels' = cancels => Held
  OBVIOUS
<1>2. CASE Session \/ PumpSkips \/ PumpPops \/ UNCHANGED vars
  BY <1>1, <1>2 DEF Session, StartJob, SessionFailed, SessionCreated,
     SessionSuperseded, PumpSkips, PumpPops, vars
<1>3. CASE Users
  <2>1. ASSUME NEW r \in Requests \cup {NoRequest}, NEW turn \in {0, rt.turn},
               CancelChecked(r, turn)
        PROVE  Held
    BY <2>1 DEF CancelChecked
  <2> QED BY <1>1, <1>3, <2>1 DEF Users, Followup, Continue, CancelQueued, PlanDecide
<1>4. CASE Agent
  BY <1>1, <1>4 DEF Agent, Preparing, PrepareFails, SendPrompt, DropStale, PromptReturns,
     OnApproval, AskDropped, Finish, FinishNothing, FinishLost, FinishFailed,
     FinishApplied, Finishes
<1>5. CASE Faults
  BY <1>1, <1>5 DEF Faults, ConnectionLost, Restart
<1>6. CASE Settling
  <2>1. ASSUME ListJobs \/ Disconnect PROVE Held
    BY <2>1 DEF ListJobs, Disconnect
  <2>2. ASSUME NEW d \in deciders, PlanDecided(d) PROVE Held
    BY <2>2 DEF PlanDecided
  <2>3. ASSUME NEW d \in deciders, NEW res \in {"ok", "err"}, ResolveApproval(d, res)
        PROVE  Held
    BY <2>3 DEF ResolveApproval
  <2>4. ASSUME NEW c \in cancels, CancelRefused(c) PROVE Held
    BY <2>4 DEF CancelRefused
  <2>5. ASSUME NEW c \in cancels, NEW ok \in BOOLEAN, CancelDelivered(c, ok) PROVE Held
    BY <2>5 DEF CancelDelivered
  <2> QED BY <1>6, <2>1, <2>2, <2>3, <2>4, <2>5 DEF Settling
<1> QED BY <1>2, <1>3, <1>4, <1>5, <1>6 DEF Next

\* A second cancellation is refused while one is in delivery; the first clears
\* controlPending as it ends.
LEMMA OneCancelStep ==
  ASSUME Accountable, [Next]_vars
  PROVE  OneCancel'
<1>1. /\ \A c, d \in cancels : c.stage = "delivering" /\ d.stage = "delivering" => c = d
      /\ \A c \in cancels : c.stage = "delivering" => rt.controlPending
      /\ TypeOK /\ rt \in Runtime
  BY DEF Accountable, OneCancel, Coherent, TypeOK
<1>2. ASSUME NEW c \in cancels, CancelBegin(c) PROVE OneCancel'
  <2> DEFINE moved == [c EXCEPT !.stage = "delivering", !.gen = rt.gen + 1]
  <2>1. ~rt.controlPending /\ cancels' = (cancels \ {c}) \cup {moved}
    BY <1>2 DEF CancelBegin, CancelAllowed
  <2>2. rt'.controlPending = TRUE
    BY <1>1, <1>2 DEF CancelBegin, Runtime
  <2> HIDE DEF moved
  <2>3. \A d \in cancels' : d.stage = "delivering" => d = moved
    BY <1>1, <2>1
  <2> QED BY <2>2, <2>3 DEF OneCancel
<1>3. ASSUME NEW c \in cancels, NEW ok \in BOOLEAN, CancelDelivered(c, ok) PROVE OneCancel'
  <2>1. c.stage = "delivering" /\ cancels' = cancels \ {c}
    BY <1>3 DEF CancelDelivered
  <2>2. \A d \in cancels' : d.stage # "delivering"
    BY <1>1, <2>1
  <2> QED BY <2>2 DEF OneCancel
<1>4. CASE Restart
  BY <1>4 DEF Restart, OneCancel
<1>5. ASSUME rt'.controlPending = rt.controlPending,
             \A c \in cancels' : c.stage = "delivering" => c \in cancels
      PROVE  OneCancel'
  BY <1>1, <1>5 DEF OneCancel
<1> QED BY <1>1, <1>2, <1>3, <1>4, <1>5, ControlStep, CancelsStep

-----------------------------------------------------------------------------
(* Which steps write something else into the job row.                      *)

JobMoves ==
  \/ StartJob \/ SessionFailed \/ SessionCreated
  \/ \E r \in Requests : Followup(r) /\ ~rt.busy
  \/ Continue
  \/ \E d \in Decision : PlanDecide(d)
  \/ PumpPops
  \/ ~job.cancelled /\ Save(DisconnectedJob)
  \/ \E t \in turns : \/ FinishFailed(t) \/ FinishApplied(t)
                      \/ \E pause \in Pauses : OnApproval(t, pause)
  \/ \E d \in deciders : PlanDecided(d)
  \/ \E c \in cancels : CancelBegin(c) \/ \E ok \in BOOLEAN : CancelDelivered(c, ok)
  \/ Restart

\* Every step keeps the fields of the job row, or is one of JobMoves.
LEMMA JobStep ==
  ASSUME TypeOK, [Next]_vars
  PROVE  JobKept \/ JobMoves
<1>1. job' = job => JobKept
  BY DEF JobKept, JobIs
<1>2. CASE Session
  BY <1>2, SupersededDoes DEF Session, JobMoves
<1>3. CASE Users
  <2>1. ASSUME NEW r \in Requests, Followup(r) PROVE JobKept \/ JobMoves
    BY <2>1, FollowupDoes DEF JobMoves
  <2>2. \A r \in Requests \cup {NoRequest}, turn \in {0, rt.turn} :
          CancelChecked(r, turn) => job' = job
    BY DEF CancelChecked
  <2>3. \A r \in Requests : CancelQueued(r) => job' = job
    BY DEF CancelQueued
  <2> QED BY <1>1, <1>3, <2>1, <2>2, <2>3 DEF Users, JobMoves
<1>4. CASE Agent
  <2>1. ASSUME NEW t \in turns, Preparing(t) PROVE JobKept
    BY <1>1, <2>1, SendDoes DEF Preparing, PrepareFails, DropStale
  <2>2. ASSUME NEW t \in turns, NEW out \in Outcomes, PromptReturns(t, out) PROVE JobKept
    BY <1>1, <2>2 DEF PromptReturns
  <2>3. ASSUME NEW t \in turns, Finish(t) PROVE JobKept \/ JobMoves
    <3>1. FinishNothing(t) => job' = job
      BY DEF FinishNothing
    <3>2. FinishLost(t) => ~job.cancelled /\ Save(DisconnectedJob)
      BY DEF FinishLost
    <3> QED BY <1>1, <2>3, <3>1, <3>2 DEF Finish, JobMoves
  <2>4. AskDropped => job' = job
    BY DEF AskDropped
  <2> QED BY <1>1, <1>4, <2>1, <2>2, <2>3, <2>4 DEF Agent, JobMoves
<1>5. CASE Settling
  <2>1. ListJobs => job' = job
    BY DEF ListJobs
  <2>2. Disconnect => job' = job \/ (~job.cancelled /\ Save(DisconnectedJob))
    BY DEF Disconnect
  <2>3. \A d \in deciders, res \in {"ok", "err"} : ResolveApproval(d, res) => job' = job
    BY DEF ResolveApproval
  <2>4. \A c \in cancels : CancelRefused(c) => job' = job
    BY DEF CancelRefused
  <2> QED BY <1>1, <1>5, <2>1, <2>2, <2>3, <2>4 DEF Settling, JobMoves
<1>6. CASE Faults
  BY <1>1, <1>6 DEF Faults, ConnectionLost, JobMoves
<1>7. CASE PumpSkips \/ PumpPops \/ UNCHANGED vars
  BY <1>1, <1>7 DEF PumpSkips, JobMoves, vars
<1> QED BY <1>2, <1>3, <1>4, <1>5, <1>6, <1>7 DEF Next

\* A decision in progress was in progress before the step, or is made in it.
LEMMA DecidersStep ==
  ASSUME TypeOK, [Next]_vars, NEW d \in deciders'
  PROVE  \/ \E e \in deciders : e.decide = d.decide /\ e.id = d.id
         \/ PlanDecide(d.decide) /\ d.decide \in Decision
<1> DEFINE Held == \E e \in deciders : e.decide = d.decide /\ e.id = d.id
<1>1. deciders' \subseteq deciders => Held
  OBVIOUS
<1>2. CASE Session \/ PumpSkips \/ PumpPops \/ UNCHANGED vars
  BY <1>1, <1>2 DEF Session, StartJob, SessionFailed, SessionCreated,
     SessionSuperseded, PumpSkips, PumpPops, vars
<1>3. CASE Users
  <2>1. ASSUME NEW e \in Decision, PlanDecide(e)
        PROVE  Held \/ (PlanDecide(d.decide) /\ d.decide \in Decision)
    <3> DEFINE new == [id |-> job.approval, decide |-> e, res |-> ""]
    <3>1. deciders' = deciders \cup {new} /\ new.decide = e
      BY <2>1 DEF PlanDecide
    <3> HIDE DEF new
    <3> QED BY <2>1, <3>1
  <2>2. ASSUME NEW r \in Requests \cup {NoRequest}, NEW turn \in {0, rt.turn},
               CancelChecked(r, turn)
        PROVE  deciders' = deciders
    BY <2>2 DEF CancelChecked
  <2>3. ASSUME NEW r \in Requests, Followup(r) \/ CancelQueued(r) PROVE deciders' = deciders
    BY <2>3 DEF Followup, CancelQueued
  <2>4. Continue => deciders' = deciders
    BY DEF Continue
  <2> QED BY <1>1, <1>3, <2>1, <2>2, <2>3, <2>4 DEF Users
<1>4. CASE Agent
  BY <1>1, <1>4 DEF Agent, Preparing, PrepareFails, SendPrompt, DropStale, PromptReturns,
     OnApproval, AskDropped, Finish, FinishNothing, FinishLost, FinishFailed,
     FinishApplied, Finishes
<1>5. CASE Faults
  BY <1>1, <1>5 DEF Faults, ConnectionLost, Restart
<1>6. CASE Settling
  <2>1. ASSUME ListJobs \/ Disconnect PROVE Held
    BY <2>1 DEF ListJobs, Disconnect
  <2>2. ASSUME NEW e \in deciders, PlanDecided(e) PROVE Held
    BY <2>2 DEF PlanDecided
  <2>3. ASSUME NEW e \in deciders, NEW res \in {"ok", "err"}, ResolveApproval(e, res)
        PROVE  Held
    <3> DEFINE new == [e EXCEPT !.res = res]
    <3>1. deciders' = (deciders \ {e}) \cup {new}
      BY <2>3 DEF ResolveApproval
    <3>2. new.decide = e.decide /\ new.id = e.id
      BY DEF TypeOK, Decider
    <3> HIDE DEF new
    <3> QED BY <3>1, <3>2
  <2>4. ASSUME NEW c \in cancels, CancelRefused(c) \/ CancelBegin(c) PROVE Held
    BY <2>4 DEF CancelRefused, CancelBegin
  <2>5. ASSUME NEW c \in cancels, NEW ok \in BOOLEAN, CancelDelivered(c, ok) PROVE Held
    BY <2>5 DEF CancelDelivered
  <2> QED BY <1>6, <2>1, <2>2, <2>3, <2>4, <2>5 DEF Settling
<1> QED BY <1>2, <1>3, <1>4, <1>5, <1>6 DEF Next

\* A created session stays.
LEMMA StarterStep ==
  ASSUME TypeOK, [Next]_vars
  PROVE  /\ starter.stage = "done" => starter'.stage = "done"
         /\ starter'.stage = "new" => starter.stage = "new"
         /\ starter.stage = "failed" => starter'.stage = "failed"
         /\ starter'.req = starter.req
         /\ starter.late => starter'.late \/ SessionCreated
         /\ starter'.stage = "done" => \/ starter.stage = "done"
                                       \/ SessionCreated /\ starter'.late = Overtaken
                                       \/ starter.stage = "creating" /\ starter.gen # rt.gen
         /\ starter'.stage = "creating" =>
              \/ starter' = starter
              \/ starter.stage = "new" /\ StartJob /\ starter'.gen = rt.gen
<1>1. starter \in [stage : {"new", "creating", "done", "failed"}, gen : Nat,
                   req : Requests, late : BOOLEAN]
  BY DEF TypeOK
<1>2. CASE Session
  <2>1. SessionCreated => starter' = [starter EXCEPT !.stage = "done", !.late = Overtaken]
    BY DEF SessionCreated
  <2>2. StartJob => starter' = [starter EXCEPT !.stage = "creating", !.gen = rt.gen]
    BY DEF StartJob
  <2>3. SessionFailed => starter' = [starter EXCEPT !.stage = "failed"]
    BY DEF SessionFailed
  <2>4. ASSUME NEW ok \in BOOLEAN, SessionSuperseded(ok)
        PROVE  /\ starter' = [starter EXCEPT !.stage = IF ok THEN "done" ELSE "failed"]
               /\ starter.stage = "creating" /\ starter.gen # rt.gen
    BY <2>4 DEF SessionSuperseded
  <2>5. /\ SessionCreated => starter.stage = "creating" /\ starter.gen = rt.gen
        /\ SessionFailed => starter.stage = "creating"
        /\ StartJob => starter.stage = "new"
    BY DEF SessionCreated, SessionFailed, StartJob
  <2> QED BY <1>1, <1>2, <2>1, <2>2, <2>3, <2>4, <2>5 DEF Session
<1>3. CASE Users
  BY <1>3 DEF Users, Followup, Continue, CancelQueued, CancelChecked, PlanDecide
<1>4. CASE Agent
  BY <1>4 DEF Agent, Preparing, PrepareFails, SendPrompt, DropStale, PromptReturns,
     OnApproval, AskDropped, Finish, FinishNothing, FinishLost, FinishFailed,
     FinishApplied, Finishes
<1>5. CASE Settling
  BY <1>5 DEF Settling, ListJobs, Disconnect, PlanDecided, ResolveApproval,
     CancelBegin, CancelRefused, CancelDelivered
<1>6. CASE Restart
  BY <1>1, <1>6 DEF Restart
<1>7. CASE PumpSkips \/ PumpPops \/ ConnectionLost \/ UNCHANGED vars
  BY <1>7 DEF PumpSkips, PumpPops, ConnectionLost, vars
<1> QED BY <1>2, <1>3, <1>4, <1>5, <1>6, <1>7 DEF Next, Faults

-----------------------------------------------------------------------------
(* One lemma per part of the invariant.                                    *)

\* Which steps name another request in the row.
LEMMA CurrentStep ==
  ASSUME Coherent, [Next]_vars
  PROVE  \/ job'.request = job.request
         \/ job'.request = starter.req /\ (StartJob \/ SessionCreated \/ SessionFailed)
         \/ \E r \in Requests : Followup(r) /\ ~rt.busy /\ job'.request = r
         \/ PumpPops /\ job'.request = Head(rt.queue).req
<1>1. TypeOK /\ Coherent
  BY DEF Coherent
<1> DEFINE Same == job'.request = job.request
<1>2. JobKept => Same
  BY DEF JobKept, JobIs
<1>3. StartJob \/ SessionCreated \/ SessionFailed => job'.request = starter.req
  BY <1>1, StarterDoes DEF JobIs
<1>4. \A r \in Requests : Followup(r) /\ ~rt.busy => job'.request = r
  BY <1>1, FollowupDoes DEF JobIs
<1>5. Continue => Same
  BY <1>1, ContinueDoes DEF JobIs
<1>6. \A d \in Decision : PlanDecide(d) => Same
  BY <1>1, PlanDecideDoes DEF JobIs
<1>7. PumpPops => job'.request = Head(rt.queue).req
  BY <1>1, PumpDoes DEF JobIs
<1>8. Save(DisconnectedJob) => Same
  BY <1>1, DownDoes DEF JobIs
<1>9. \A t \in turns : FinishFailed(t) \/ FinishApplied(t) => Same
  BY <1>1, FinishFailedDoes, FinishAppliedDoes DEF JobIs
<1>10. \A t \in turns, pause \in Pauses : OnApproval(t, pause) => Same
  BY <1>1, OnApprovalDoes DEF JobIs
<1>11. \A d \in deciders : PlanDecided(d) => Same
  BY <1>1, PlanDecidedDoes DEF JobIs, JobKept
<1>12. \A c \in cancels : /\ CancelBegin(c) => Same
                          /\ \A ok \in BOOLEAN : CancelDelivered(c, ok) => Same
  BY <1>1, CancelBeginDoes, CancelDeliveredDoes DEF JobIs
<1>13. Restart => Same
  BY <1>1, RestartDoes
<1> HIDE DEF Same
<1>14. Same \/ StartJob \/ SessionCreated \/ SessionFailed \/ PumpPops
       \/ \E r \in Requests : Followup(r) /\ ~rt.busy
  BY <1>1, <1>2, <1>5, <1>6, <1>8, <1>9, <1>10, <1>11, <1>12, <1>13, JobStep
     DEF JobMoves
<1> QED BY <1>3, <1>4, <1>7, <1>14 DEF Same

\* A prompt that is out keeps the current request, whatever it is.
LEMMA SentHolds ==
  ASSUME Accountable, [Next]_vars, NEW t \in turns, t.stage = "sent" \/ SendPrompt(t)
  PROVE  starter'.stage = "done" /\ job'.request = job.request
<1>1. starter.stage = "done" /\ TypeOK /\ Coherent /\ rt.busy
  BY DEF Accountable, SessionFirst, Coherent, SingleTurn, SendPrompt
<1>2. ~StartJob /\ ~SessionFailed /\ ~SessionCreated
  BY <1>1 DEF StartJob, SessionFailed, SessionCreated
<1>3. ~PumpPops
  BY <1>1 DEF PumpPops, PumpMayPop
<1> QED BY <1>1, <1>2, <1>3, StarterStep, CurrentStep

\* CurrentFirst is kept: a generation that moved leaves the turn in flight stale,
\* and a session that comes while one runs comes late.
LEMMA CurrentFirstStep ==
  ASSUME Accountable, [Next]_vars
  PROVE  CurrentFirst'
<1>1. TypeOK /\ Coherent
  BY DEF Accountable, Coherent
<1>2. /\ rt.gen \in Nat /\ (turns # {} => rt.busy)
      /\ \A t \in turns : t.item.gen \in Nat /\ t.item.gen <= rt.gen
  BY <1>1 DEF Coherent, SingleTurn, RevokedIsStale, TypeOK, Runtime, Turn, Item
<1>3. Undisturbed => \A t \in turns : ~Stale(t) => job.request = t.item.req
  BY DEF Accountable, CurrentFirst
<1> SUFFICES ASSUME Undisturbed', NEW u \in turns', u.item.gen = rt'.gen
             PROVE  job'.request = u.item.req
  BY DEF CurrentFirst, Stale
<1>4. CASE Begun(u)
  <2>1. PumpPops /\ u.item = Head(rt.queue)
    BY <1>4 DEF Begun
  <2> QED BY <1>1, <2>1, PumpDoes DEF JobIs
<1>5. ASSUME NEW t \in turns, Progress(u, t) PROVE job'.request = u.item.req
  <2>1. u.item = t.item /\ rt.busy
    BY <1>2, <1>5 DEF Progress, Carried
  <2>2. ~PumpPops
    BY <2>1 DEF PumpPops, PumpMayPop
  <2>3. rt'.gen = rt.gen
    <3>1. ~GenBumped
      BY <1>2, <2>1 DEF GenBumped
    <3> QED BY <1>1, <2>2, <3>1, GenStep DEF GenHeld
  <2>4. ~Stale(t)
    BY <2>1, <2>3 DEF Stale
  <2>5. ~starter'.late /\ (starter'.stage = "done" \/
                          (starter'.stage = "creating" /\ starter'.gen # rt.gen))
    BY <2>3 DEF Undisturbed
  <2>6. ~SessionCreated
    <3>1. SessionCreated => starter' = [starter EXCEPT !.stage = "done", !.late = Overtaken]
      BY DEF SessionCreated
    <3>2. Overtaken
      BY <1>5 DEF Overtaken
    <3> QED BY <1>1, <2>5, <3>1, <3>2 DEF TypeOK
  <2>7. Undisturbed
    BY <1>1, <2>3, <2>5, <2>6, StarterStep DEF Undisturbed
  <2>8. ~StartJob /\ ~SessionFailed
    BY <2>7 DEF Undisturbed, StartJob, SessionFailed
  <2>9. job'.request = job.request
    BY <1>1, <2>1, <2>2, <2>6, <2>8, CurrentStep
  <2> QED BY <1>3, <2>1, <2>4, <2>7, <2>9
<1> QED BY <1>1, <1>4, <1>5, TurnMoves

\* SessionFirst is kept: a prompt is sent once the starter is done.
LEMMA SessionFirstStep ==
  ASSUME Accountable, [Next]_vars
  PROVE  SessionFirst'
<1>1. /\ TypeOK /\ Coherent
      /\ \A t \in turns : t.stage = "sent" => starter.stage = "done"
      /\ starter.stage # "done" =>
           /\ job.state # "plan_ready" /\ job.pause # "review_required"
           /\ job.delivery = "" /\ ~job.cancelled /\ deciders = {}
           /\ \A t \in turns : t.seen = "" /\ t.out \notin Marks
  BY DEF Accountable, Coherent, SessionFirst
<1>2. ASSUME NEW u \in turns', u.stage = "sent" PROVE starter'.stage = "done"
  <2>1. ~Begun(u)
    BY <1>2 DEF Begun
  <2>2. PICK t \in turns : Progress(u, t)
    BY <1>1, <2>1, TurnMoves
  <2>3. t.stage = "sent" \/ SendPrompt(t)
    BY <1>2, <2>2 DEF Progress
  <2> QED BY <2>3, SentHolds
<1>3. ASSUME starter'.stage # "done"
      PROVE  /\ job'.state # "plan_ready" /\ job'.pause # "review_required"
             /\ job'.delivery = "" /\ ~job'.cancelled /\ deciders' = {}
             /\ \A t \in turns' : t.seen = "" /\ t.out \notin Marks
  <2>1. /\ starter.stage # "done"
        /\ job.state # "plan_ready" /\ job.pause # "review_required"
        /\ job.delivery = "" /\ ~job.cancelled /\ deciders = {}
        /\ \A t \in turns : t.seen = "" /\ t.out \notin Marks
        /\ \A t \in turns : t.stage # "sent"
    BY <1>1, <1>3, StarterStep
  <2>2. \A d \in Decision : ~PlanDecide(d)
    BY <2>1 DEF PlanDecide
  <2>3. deciders' = {}
    BY <1>1, <2>1, <2>2, DecidersStep
  <2>4. \A u \in turns' : u.seen = "" /\ u.out \notin Marks
    <3>1. ASSUME NEW u \in turns', Begun(u) PROVE u.seen = "" /\ u.out \notin Marks
      BY <2>1, <3>1 DEF Begun, Marks
    <3>2. ASSUME NEW u \in turns', NEW t \in turns, Progress(u, t)
          PROVE  u.seen = "" /\ u.out \notin Marks
      <4>1. ~SendPrompt(t)
        BY <1>1, <2>1 DEF SendPrompt
      <4>2. u.out \in {t.out, "nil", "lost", "refused"} /\ u.seen = t.seen
        BY <2>1, <3>2, <4>1 DEF Progress, Carried
      <4> QED BY <2>1, <4>2 DEF Marks
    <3> QED BY <1>1, <3>1, <3>2, TurnMoves
  <2>5. /\ job'.state # "plan_ready" /\ job'.pause # "review_required"
        /\ job'.delivery = "" /\ ~job'.cancelled
    <3> DEFINE Goal == /\ job'.state # "plan_ready" /\ job'.pause # "review_required"
                       /\ job'.delivery = "" /\ ~job'.cancelled
    <3>1. CASE JobKept
      BY <2>1, <3>1 DEF JobKept, JobIs
    <3>2. CASE JobMoves
      <4>1. StartJob \/ SessionFailed \/ SessionCreated => Goal
        BY <1>1, StarterDoes DEF JobIs
      <4>2. \A r \in Requests : Followup(r) /\ ~rt.busy => Goal
        BY <1>1, <2>1, FollowupDoes DEF JobIs
      <4>3. Continue => Goal
        BY <1>1, ContinueDoes DEF JobIs
      <4>4. PumpPops => Goal
        BY <1>1, <2>1, PumpDoes DEF JobIs
      <4>5. Save(DisconnectedJob) => Goal
        BY <1>1, <2>1, DownDoes DEF JobIs
      <4>6. \A t \in turns : FinishFailed(t) => Goal
        BY <1>1, <2>1, FinishFailedDoes DEF JobIs
      <4>7. \A t \in turns : ~FinishApplied(t) /\ \A pause \in Pauses : ~OnApproval(t, pause)
        BY <2>1 DEF FinishApplied, OnApproval
      <4>8. \A c \in cancels : CancelBegin(c) => Goal
        BY <1>1, <2>1, CancelBeginDoes DEF JobIs
      <4>9. \A c \in cancels, ok \in BOOLEAN : CancelDelivered(c, ok) => Goal
        BY <1>1, <2>1, CancelDeliveredDoes DEF JobIs
      <4>10. Restart => Goal
        BY <1>1, <2>1, RestartDoes
      <4> HIDE DEF Goal
      <4>11. \A d \in deciders : ~PlanDecided(d)
        BY <2>1
      <4>12. Goal
        BY <2>2, <3>2, <4>1, <4>2, <4>3, <4>4, <4>5, <4>6, <4>7, <4>8, <4>9, <4>10, <4>11
           DEF JobMoves
      <4> QED BY <4>12 DEF Goal
    <3> QED BY <1>1, <3>1, <3>2, JobStep
  <2> QED BY <2>3, <2>4, <2>5
<1> QED BY <1>2, <1>3 DEF SessionFirst

\* A followup writes a new row, and the turn in flight moves the phase of the
\* current request; no other step moves a phase.
LEMMA PhasesStep ==
  ASSUME Accountable, [Next]_vars
  PROVE  \/ PhasesKept \/ PumpPops
         \/ \E r \in Requests : Followup(r)
         \/ \E t \in turns : SendPrompt(t) \/ FinishApplied(t)
<1>1. TypeOK /\ Coherent
  BY DEF Accountable, Coherent
<1>2. work' = work => PhasesKept
  BY DEF PhasesKept
<1>3. ASSUME Session PROVE PhasesKept
  BY <1>1, <1>2, <1>3, StarterDoes, SupersededDoes DEF Session
<1>4. ASSUME Users PROVE PhasesKept \/ \E r \in Requests : Followup(r)
  <2>1. ASSUME NEW q \in Requests, CancelQueued(q) PROVE PhasesKept
    BY <1>1, <2>1 DEF CancelQueued, TypeOK, Row, PhasesKept
  <2>2. \A q \in Requests \cup {NoRequest}, turn \in {0, rt.turn} :
          CancelChecked(q, turn) => work' = work
    BY DEF CancelChecked
  <2>3. Continue \/ (\E d \in Decision : PlanDecide(d)) => PhasesKept
    BY <1>1, ContinueDoes, PlanDecideDoes
  <2> QED BY <1>2, <1>4, <2>1, <2>2, <2>3 DEF Users
<1>5. ASSUME Agent
      PROVE  PhasesKept \/ \E t \in turns : SendPrompt(t) \/ FinishApplied(t)
  <2>1. ASSUME NEW u \in turns, Preparing(u) PROVE SendPrompt(u) \/ work' = work
    BY <2>1 DEF Preparing, PrepareFails, DropStale
  <2>2. ASSUME NEW u \in turns, NEW out \in Outcomes, PromptReturns(u, out) PROVE work' = work
    BY <2>2 DEF PromptReturns
  <2>3. ASSUME NEW u \in turns, NEW pause \in Pauses, OnApproval(u, pause) PROVE PhasesKept
    BY <1>1, <2>3, OnApprovalDoes
  <2>4. AskDropped => work' = work
    BY DEF AskDropped
  <2>5. ASSUME NEW u \in turns, FinishNothing(u) \/ FinishFailed(u) \/ FinishLost(u)
        PROVE  PhasesKept
    BY <1>1, <1>2, <2>5, FinishFailedDoes, DownDoes DEF FinishNothing, FinishLost
  <2> QED BY <1>2, <1>5, <2>1, <2>2, <2>3, <2>4, <2>5 DEF Agent, Finish
<1>6. ASSUME Settling PROVE PhasesKept
  <2>1. ListJobs => work' = work
    BY DEF ListJobs
  <2>2. Disconnect => work' = work \/ PhasesKept
    BY <1>1, DownDoes DEF Disconnect
  <2>3. \A d \in deciders, res \in {"ok", "err"} : ResolveApproval(d, res) => work' = work
    BY DEF ResolveApproval
  <2>4. \A d \in deciders : PlanDecided(d) => PhasesKept
    BY <1>1, PlanDecidedDoes
  <2>5. \A c \in cancels : /\ CancelRefused(c) => work' = work
                           /\ CancelBegin(c) => PhasesKept
                           /\ \A ok \in BOOLEAN : CancelDelivered(c, ok) => PhasesKept
    BY <1>1, CancelBeginDoes, CancelDeliveredDoes DEF CancelRefused
  <2> QED BY <1>2, <1>6, <2>1, <2>2, <2>3, <2>4, <2>5 DEF Settling
<1>7. ASSUME Faults PROVE PhasesKept
  BY <1>1, <1>2, <1>7, RestartDoes DEF Faults, ConnectionLost
<1>8. ASSUME PumpSkips \/ UNCHANGED vars PROVE PhasesKept
  BY <1>2, <1>8 DEF PumpSkips, vars
<1> QED BY <1>3, <1>4, <1>5, <1>6, <1>7, <1>8 DEF Next

\* A turn's phase changes under it only by its own steps.
LEMMA PhaseHolds ==
  ASSUME Accountable, [Next]_vars, NEW t \in turns, ~Finish(t), ~SendPrompt(t)
  PROVE  work'[t.item.req].phase = work[t.item.req].phase
<1>1. /\ TypeOK /\ Coherent /\ t.item.req \in Requests /\ Accepted(t.item.req) /\ rt.busy
      /\ \A u \in turns : u = t
  BY DEF Accountable, Coherent, SourcesAccepted, TypeOK, Turn, Item, SingleTurn
<1>2. ~PumpPops
  BY <1>1 DEF PumpPops, PumpMayPop
<1>3. \A u \in turns : ~SendPrompt(u) /\ ~FinishApplied(u)
  BY <1>1 DEF Finish
<1>4. CASE PhasesKept
  BY <1>1, <1>4 DEF PhasesKept
<1>5. ASSUME NEW r \in Requests, Followup(r)
      PROVE  work'[t.item.req].phase = work[t.item.req].phase
  BY <1>1, <1>5, FollowupDoes
<1> QED BY <1>2, <1>3, <1>4, <1>5, PhasesStep

\* SentRecorded is kept: until the prompt is answered the row keeps its request,
\* and only its own turn moves the phase of it.
LEMMA SentRecordedStep ==
  ASSUME Accountable, [Next]_vars
  PROVE  SentRecorded'
<1>1. /\ TypeOK /\ Coherent
      /\ \A t \in turns : t.stage = "sent" =>
           /\ t.out = "none"
           /\ job.request = t.item.req => work[t.item.req].phase = "sent"
      /\ \A t \in turns : t.item.req \in Requests
  BY DEF Accountable, Coherent, SentRecorded, TypeOK, Turn, Item
<1> SUFFICES ASSUME NEW u \in turns', u.stage = "sent"
             PROVE  /\ u.out = "none"
                    /\ job'.request = u.item.req => work'[u.item.req].phase = "sent"
  BY DEF SentRecorded
<1>2. ~Begun(u)
  BY DEF Begun
<1>3. PICK t \in turns : Progress(u, t)
  BY <1>1, <1>2, TurnMoves
<1>4. u.item = t.item
  BY <1>3 DEF Progress, Carried
<1>5. ~Finish(t)
  BY <1>1, FinishLeavesNone DEF Coherent
<1>6. CASE SendPrompt(t)
  <2>1. t.stage = "loading" /\ job'.request = job.request
    BY <1>6, SentHolds DEF SendPrompt
  <2> QED BY <1>1, <1>3, <1>4, <1>6, <2>1, SendDoes DEF Progress
<1>7. CASE ~SendPrompt(t)
  <2>1. t.stage = "sent" /\ u.out = t.out
    BY <1>3, <1>7 DEF Progress
  <2>2. job'.request = job.request
    BY <2>1, SentHolds
  <2> QED BY <1>1, <1>4, <1>5, <1>7, <2>1, <2>2, PhaseHolds
<1> QED BY <1>6, <1>7

\* A job the user cancelled stays so, and no other is called cancelled.
LEMMA CancelledStays ==
  ASSUME Accountable, [Next]_vars
  PROVE  /\ job.cancelled => job'.cancelled
         /\ job'.cancelled => job'.state # "plan_ready"
         /\ job'.state = "cancelled" => job'.cancelled
<1>1. /\ TypeOK /\ Coherent /\ job.cancelled \in BOOLEAN
      /\ job.cancelled => job.state # "plan_ready"
      /\ job.state = "cancelled" => job.cancelled
      /\ starter.stage # "done" => ~job.cancelled
  BY DEF Accountable, Coherent, TypeOK, Job, SessionFirst, CancelledOffersNothing
<1> DEFINE Goal == /\ job.cancelled => job'.cancelled
                   /\ job'.cancelled => job'.state # "plan_ready"
                   /\ job'.state = "cancelled" => job'.cancelled
<1>2. CASE JobKept
  BY <1>1, <1>2 DEF JobKept, JobIs
<1>3. CASE JobMoves
  <2>1. StartJob \/ SessionFailed \/ SessionCreated => starter.stage # "done"
    BY DEF StartJob, SessionFailed, SessionCreated
  <2>2. StartJob \/ SessionFailed \/ SessionCreated => Goal
    BY <1>1, <2>1, StarterDoes DEF JobIs
  <2>3. \A r \in Requests : Followup(r) /\ ~rt.busy => Goal
    BY <1>1, FollowupDoes DEF JobIs
  <2>4. Continue => Goal
    BY <1>1, ContinueDoes DEF JobIs
  <2>5. \A d \in Decision : PlanDecide(d) => Goal
    BY <1>1, PlanDecideDoes DEF JobIs
  <2>6. PumpPops => Goal
    BY <1>1, PumpDoes DEF JobIs
  <2>7. Save(DisconnectedJob) => Goal
    BY <1>1, DownDoes DEF JobIs
  <2>8. \A t \in turns : FinishFailed(t) \/ FinishApplied(t) => Goal
    BY <1>1, FinishFailedDoes, FinishAppliedDoes DEF JobIs
  <2>9. \A t \in turns, pause \in Pauses : OnApproval(t, pause) => Goal
    BY <1>1, OnApprovalDoes DEF JobIs
  <2>10. \A d \in deciders : PlanDecided(d) => Goal
    BY <1>1, PlanDecidedDoes DEF JobIs, JobKept
  <2>11. \A c \in cancels : /\ CancelBegin(c) => Goal
                            /\ \A ok \in BOOLEAN : CancelDelivered(c, ok) => Goal
    BY <1>1, CancelBeginDoes, CancelDeliveredDoes DEF JobIs
  <2>12. Restart => Goal
    BY <1>1, RestartDoes
  <2> HIDE DEF Goal
  <2>13. Goal
    BY <1>3, <2>2, <2>3, <2>4, <2>5, <2>6, <2>7, <2>8, <2>9, <2>10, <2>11, <2>12
       DEF JobMoves
  <2> QED BY <2>13 DEF Goal
<1> QED BY <1>1, <1>2, <1>3, JobStep

\* CancelledOffersNothing is kept: nothing clears job.cancelled but startJob,
\* before any offer.
LEMMA CancelledOffersNothingStep ==
  ASSUME Accountable, [Next]_vars
  PROVE  CancelledOffersNothing'
<1>1. TypeOK /\ \A d \in deciders : d.decide = "cancel" => job.cancelled
  BY DEF Accountable, Coherent, CancelledOffersNothing
<1>2. ASSUME NEW d \in deciders', d.decide = "cancel" PROVE job'.cancelled
  <2>1. PlanDecide("cancel") => job'.cancelled
    BY <1>1, PlanDecideDoes DEF JobIs, Decision
  <2> QED BY <1>1, <1>2, <2>1, CancelledStays, DecidersStep
<1> QED BY <1>2, CancelledStays DEF CancelledOffersNothing

\* SeenIsFresh is kept: a decision is submitted only on an offer, and then no
\* turn is still loading.
LEMMA SeenIsFreshStep ==
  ASSUME Accountable, [Next]_vars
  PROVE  SeenIsFresh'
<1>1. /\ TypeOK /\ Coherent
      /\ \A t \in turns : t.stage = "loading" \/ t.out = "refused" =>
           /\ job.delivery \in {"submitted", "unknown"} => t.seen = "submitted"
           /\ job.state # "plan_ready"
      /\ starter.stage # "done" => job.delivery = ""
  BY DEF Accountable, Coherent, SeenIsFresh, OffersLive, SessionFirst
<1> SUFFICES ASSUME NEW u \in turns', u.stage = "loading" \/ u.out = "refused",
                    job'.delivery \in {"submitted", "unknown"}
             PROVE  u.seen = "submitted"
  BY DEF SeenIsFresh
<1>2. CASE Begun(u)
  <2>1. job'.delivery = job.delivery
    BY <1>1, <1>2, PumpDoes DEF Begun, JobIs
  <2>2. job.delivery # "unknown"
    BY <1>2 DEF Begun, PumpPops, PumpMayPop, Paused
  <2> QED BY <1>2, <2>1, <2>2 DEF Begun
<1>3. ASSUME NEW t \in turns, Progress(u, t) PROVE u.seen = "submitted"
  <2>1. u.seen = t.seen /\ (t.stage = "loading" \/ t.out = "refused")
    BY <1>3 DEF Progress, Carried, Marks
  <2>2. job.state # "plan_ready" /\ (job.delivery \in {"submitted", "unknown"} => t.seen = "submitted")
    BY <1>1, <2>1
  <2>3. job.delivery \in {"submitted", "unknown"}
    <3> DEFINE Goal == job.delivery \in {"submitted", "unknown"}
    <3>1. CASE JobKept
      BY <3>1 DEF JobKept, JobIs
    <3>2. CASE JobMoves
      <4>1. ~StartJob /\ ~SessionFailed /\ ~SessionCreated
        BY <1>1, StarterDoes DEF JobIs
      <4>2. \A r \in Requests : Followup(r) /\ ~rt.busy => Goal
        BY <1>1, FollowupDoes DEF JobIs
      <4>3. ~Continue
        BY <1>1, ContinueDoes DEF JobIs
      <4>4. \A d \in Decision : ~PlanDecide(d)
        BY <2>2 DEF PlanDecide
      <4>5. ~PumpPops
        BY <1>3 DEF PumpPops, PumpMayPop, Accountable, Coherent, SingleTurn
      <4>6. Save(DisconnectedJob) => Goal
        BY <1>1, <2>2, DownDoes DEF JobIs
      <4>7. \A v \in turns : ~Finish(v)
        BY <1>1, FinishLeavesNone DEF Coherent
      <4>8. \A v \in turns, pause \in Pauses : ~OnApproval(v, pause)
        BY <1>1, OnApprovalDoes DEF JobIs
      <4>9. \A d \in deciders : PlanDecided(d) => Goal
        BY <1>1, PlanDecidedDoes DEF JobIs, JobKept
      <4>10. \A c \in cancels : /\ CancelBegin(c) => Goal
                                /\ \A ok \in BOOLEAN : CancelDelivered(c, ok) => Goal
        BY <1>1, CancelBeginDoes, CancelDeliveredDoes DEF JobIs
      <4>11. ~Restart
        BY DEF Restart
      <4> HIDE DEF Goal
      <4>12. Goal
        BY <3>2, <4>1, <4>2, <4>3, <4>4, <4>5, <4>6, <4>7, <4>8, <4>9, <4>10, <4>11
           DEF JobMoves, Finish
      <4> QED BY <4>12 DEF Goal
    <3> QED BY <1>1, <3>1, <3>2, JobStep
  <2> QED BY <2>1, <2>2, <2>3
<1> QED BY <1>1, <1>2, <1>3, TurnMoves

\* Only a user's cancellation of a queued request calls a request cancelled
\* without the job row; a followup writes a new row besides.
LEMMA StatesStep ==
  ASSUME Accountable, [Next]_vars
  PROVE  \/ StatesKept \/ work' = work
         \/ \E r \in Requests : Followup(r) \/ CancelQueued(r)
<1> DEFINE Same == StatesKept \/ work' = work
<1>1. TypeOK /\ Coherent
  BY DEF Accountable, Coherent
<1>2. CASE Session
  BY <1>1, <1>2, StarterDoes, SupersededDoes DEF Session
<1>3. CASE Users
  <2>1. \A r \in Requests \cup {NoRequest}, turn \in {0, rt.turn} :
          CancelChecked(r, turn) => Same
    BY DEF CancelChecked
  <2>2. Continue \/ (\E d \in Decision : PlanDecide(d)) => Same
    BY <1>1, ContinueDoes, PlanDecideDoes
  <2> QED BY <1>3, <2>1, <2>2 DEF Users
<1>4. CASE PumpPops
  BY <1>1, <1>4, PumpDoes
<1>5. CASE Agent
  <2>1. ASSUME NEW u \in turns, Preparing(u) PROVE Same
    BY <1>1, <2>1, SendDoes DEF Preparing, PrepareFails, DropStale
  <2>2. ASSUME NEW u \in turns, NEW out \in Outcomes, PromptReturns(u, out) PROVE Same
    BY <2>2 DEF PromptReturns
  <2>3. ASSUME NEW u \in turns, NEW pause \in Pauses, OnApproval(u, pause) PROVE Same
    BY <1>1, <2>3, OnApprovalDoes
  <2>4. AskDropped => Same
    BY DEF AskDropped
  <2>5. ASSUME NEW u \in turns, FinishApplied(u) PROVE Same
    BY <1>1, <2>5, FinishAppliedDoes DEF StatesKept, JobIs
  <2>6. ASSUME NEW u \in turns, FinishNothing(u) \/ FinishFailed(u) \/ FinishLost(u) PROVE Same
    BY <1>1, <2>6, FinishFailedDoes, DownDoes DEF FinishNothing, FinishLost
  <2> QED BY <1>5, <2>1, <2>2, <2>3, <2>4, <2>5, <2>6 DEF Agent, Finish
<1>6. CASE Settling
  <2>1. ListJobs => Same
    BY DEF ListJobs
  <2>2. Disconnect => Same
    BY <1>1, DownDoes DEF Disconnect
  <2>3. \A d \in deciders, res \in {"ok", "err"} : ResolveApproval(d, res) => Same
    BY DEF ResolveApproval
  <2>4. \A d \in deciders : PlanDecided(d) => Same
    BY <1>1, PlanDecidedDoes
  <2>5. \A c \in cancels : /\ CancelRefused(c) => Same
                           /\ CancelBegin(c) => Same
                           /\ \A ok \in BOOLEAN : CancelDelivered(c, ok) => Same
    BY <1>1, CancelBeginDoes, CancelDeliveredDoes DEF CancelRefused
  <2> QED BY <1>6, <2>1, <2>2, <2>3, <2>4, <2>5 DEF Settling
<1>7. CASE Faults
  BY <1>1, <1>7, RestartDoes DEF Faults, ConnectionLost
<1>8. CASE PumpSkips \/ UNCHANGED vars
  BY <1>8 DEF PumpSkips, vars
<1> QED BY <1>2, <1>3, <1>4, <1>5, <1>6, <1>7, <1>8 DEF Next

\* The job stays plan_ready through few steps, and changes its row in fewer.
LEMMA PlanReadyStep ==
  ASSUME Accountable, [Next]_vars, job'.state = "plan_ready"
  PROVE  \/ JobKept
         \/ /\ job.state = "plan_ready" /\ Save(DisconnectedJob)
            /\ job'.delivery = "expired"
         \/ \E t \in turns, pause \in Pauses : OnApproval(t, pause)
         \/ /\ job.state = "plan_ready"
            /\ \E c \in cancels, ok \in BOOLEAN : CancelDelivered(c, ok)
         \/ Restart /\ job.state = "plan_ready" /\ job'.delivery = "expired"
<1>1. /\ TypeOK /\ Coherent
      /\ job.state = "plan_ready" => job.delivery # "submitted" /\ ~job.cancelled
  BY DEF Accountable, Coherent, OffersLive, CancelledOffersNothing
<1>2. CASE JobMoves
  <2>1. ~StartJob /\ ~SessionFailed /\ ~SessionCreated
    BY <1>1, StarterDoes DEF JobIs
  <2>2. \A r \in Requests : ~(Followup(r) /\ ~rt.busy)
    BY <1>1, FollowupDoes DEF JobIs
  <2>3. ~Continue /\ ~PumpPops
    BY <1>1, ContinueDoes, PumpDoes DEF JobIs
  <2>4. \A d \in Decision : ~PlanDecide(d)
    BY <1>1, PlanDecideDoes DEF JobIs
  <2>5. Save(DisconnectedJob) => job.state = "plan_ready" /\ job'.delivery = "expired"
    BY <1>1, DownDoes DEF JobIs
  <2>6. \A t \in turns : ~FinishFailed(t) /\ ~FinishApplied(t)
    BY <1>1, FinishFailedDoes, FinishAppliedDoes DEF JobIs
  <2>7. \A d \in deciders : PlanDecided(d) => JobKept
    BY <1>1, PlanDecidedDoes DEF JobIs
  <2>8. \A c \in cancels : ~CancelBegin(c)
    BY <1>1, CancelBeginDoes DEF JobIs
  <2>9. \A c \in cancels, ok \in BOOLEAN : CancelDelivered(c, ok) => job.state = "plan_ready"
    BY <1>1, CancelDeliveredDoes DEF JobIs
  <2>10. Restart => job.state = "plan_ready" /\ job'.delivery = "expired"
    BY <1>1, RestartDoes
  <2> QED BY <1>2, <2>1, <2>2, <2>3, <2>4, <2>5, <2>6, <2>7, <2>8, <2>9, <2>10
         DEF JobMoves
<1> QED BY <1>1, <1>2, JobStep

\* The turn of a pending offer goes on, unless the step withdraws or expires
\* the offer.
LEMMA OfferHolds ==
  ASSUME Accountable, [Next]_vars, NEW t \in turns, OfferOf(t),
         job.state = "plan_ready", job.delivery = "pending",
         job'.state = "plan_ready", job'.delivery = "pending",
         job'.request = job.request
  PROVE  \E u \in turns' : OfferOf(u)'
<1>1. /\ TypeOK /\ Coherent /\ SingleTurn /\ ~Stale(t) /\ ~job.cancelled
      /\ \A d \in deciders : d.decide # "cancel"
      /\ t.item.req \in Requests /\ t.item.req = job.request
      /\ work[t.item.req].phase = "sent" /\ work[t.item.req].state # "cancelled"
      /\ t.id \notin revoked /\ t.stage # "loading" /\ t.out # "refused"
      /\ turns = {t} /\ rt.busy
  BY DEF Accountable, Coherent, SingleTurn, StaleIsRevoked, OfferOf, OffersLive,
     CancelledOffersNothing, TypeOK, Turn, Item
<1>2. ~Finish(t)
  <2>1. ~FinishNothing(t)
    BY <1>1 DEF FinishNothing, Finishes, OfferOf, Answered, Marks
  <2>2. ~FinishLost(t)
    <3>1. Save(DisconnectedJob) => job'.delivery # "pending"
      BY <1>1, DownDoes DEF JobIs
    <3> QED BY <3>1 DEF FinishLost
  <2>3. ~FinishFailed(t) /\ ~FinishApplied(t)
    BY <1>1, FinishFailedDoes, FinishAppliedDoes DEF JobIs
  <2> QED BY <2>1, <2>2, <2>3 DEF Finish
<1>3. ~Restart /\ ~PumpPops
  BY <1>1, RestartDoes DEF PumpPops, PumpMayPop
<1>4. turns' # {}
  BY <1>1, <1>2, <1>3, TurnStep DEF SameTurn, Advance
<1>5. t.id \notin revoked'
  <2>1. ~Save(DisconnectedJob)
    BY <1>1, DownDoes DEF JobIs
  <2>2. \A c \in cancels : ~CancelBegin(c)
    BY <1>1, CancelBeginDoes DEF JobIs
  <2>3. ~GenBumped
    BY <1>1, <2>1, <2>2 DEF GenBumped
  <2> QED BY <1>1, <1>3, <1>4, <2>3, GenStep DEF GenHeld
<1>6. PICK u \in turns' : Progress(u, t)
  BY <1>1, <1>4, TurnMoves DEF Begun
<1>7. u.id = t.id /\ u.item = t.item
  BY <1>6 DEF Progress, Carried
<1>8. u.stage = "sent" \/ Answered(u)
  <2>1. ~SendPrompt(t)
    BY <1>1 DEF SendPrompt
  <2> QED BY <1>1, <1>6, <2>1 DEF Progress, OfferOf, Answered
<1>9. work'[t.item.req].phase = "sent"
  BY <1>1, <1>2, <1>4, PhaseHolds DEF SendPrompt
<1>10. work'[t.item.req].state # "cancelled"
  <2>1. ~job'.cancelled
    BY CancelledOffersNothingStep DEF CancelledOffersNothing
  <2>2. StatesKept \/ work' = work => work'[t.item.req].state # "cancelled"
    BY <1>1, <2>1 DEF StatesKept
  <2>3. ASSUME NEW r \in Requests, Followup(r) PROVE work'[t.item.req].state # "cancelled"
    BY <1>1, <2>1, <2>3, FollowupDoes
  <2>4. ASSUME NEW r \in Requests, CancelQueued(r) PROVE work'[t.item.req].state # "cancelled"
    <3>1. t.item.req # r
      BY <1>1, <2>4 DEF CancelQueued
    <3> QED BY <1>1, <2>4, <3>1 DEF CancelQueued, TypeOK
  <2> QED BY <2>2, <2>3, <2>4, StatesStep
<1> QED BY <1>1, <1>5, <1>7, <1>8, <1>9, <1>10 DEF OfferOf, Answered

\* OffersLive is kept: whatever ends or revokes the turn of an offer leaves
\* plan_ready or calls the offer expired.
LEMMA OffersLiveStep ==
  ASSUME Accountable, [Next]_vars
  PROVE  OffersLive'
<1> SUFFICES ASSUME job'.state = "plan_ready"
             PROVE  /\ job'.delivery \in {"pending", "expired"}
                    /\ job'.pause = "approval_expired" => job'.delivery = "expired"
                    /\ \A u \in turns' : u.stage # "loading" /\ u.out # "refused"
                    /\ job'.delivery = "pending" => \E u \in turns' : OfferOf(u)'
  BY DEF OffersLive
<1>1. /\ TypeOK /\ Coherent
      /\ job.state = "plan_ready" =>
           /\ job.delivery \in {"pending", "expired"}
           /\ job.pause = "approval_expired" => job.delivery = "expired"
           /\ \A t \in turns : t.stage # "loading" /\ t.out # "refused"
           /\ job.delivery = "pending" => \E t \in turns : OfferOf(t)
  BY DEF Accountable, Coherent, OffersLive
<1>2. job.state = "plan_ready" => \A u \in turns' : u.stage # "loading" /\ u.out # "refused"
  <2> SUFFICES ASSUME job.state = "plan_ready", NEW u \in turns'
               PROVE  u.stage # "loading" /\ u.out # "refused"
    OBVIOUS
  <2>1. ~Begun(u)
    BY DEF Begun, PumpPops, PumpMayPop, Paused
  <2>2. PICK t \in turns : Progress(u, t)
    BY <1>1, <2>1, TurnMoves
  <2>3. t.stage # "loading" /\ t.out # "refused" /\ ~SendPrompt(t)
    BY <1>1 DEF SendPrompt
  <2> QED BY <2>2, <2>3 DEF Progress, Marks
<1>3. ASSUME job.state = "plan_ready", job'.delivery = job.delivery,
             job'.request = job.request, job'.delivery = "pending"
      PROVE  \E u \in turns' : OfferOf(u)'
  BY <1>1, <1>3, OfferHolds
<1>4. CASE JobKept
  <2>1. /\ job'.state = job.state /\ job'.pause = job.pause
        /\ job'.delivery = job.delivery /\ job'.request = job.request
    BY <1>4 DEF JobKept, JobIs
  <2> QED BY <1>1, <1>2, <1>3, <2>1
<1>5. CASE job.state = "plan_ready" /\ job'.delivery = "expired"
  BY <1>2, <1>5
<1>6. ASSUME NEW t \in turns, NEW pause \in Pauses, OnApproval(t, pause)
      PROVE  /\ job'.delivery = "pending" /\ job'.pause # "approval_expired"
             /\ \A u \in turns' : u.stage # "loading" /\ u.out # "refused"
             /\ \E u \in turns' : OfferOf(u)'
  <2>1. /\ job'.delivery = "pending" /\ job'.pause = pause /\ job'.state = "plan_ready"
        /\ pause \in {"approval", "plan_content_missing"}
        /\ job'.request = job.request /\ ~job'.cancelled
        /\ PhasesKept /\ StatesKept
    BY <1>1, <1>6, OnApprovalDoes DEF JobIs
  <2>2. /\ turns' = turns /\ revoked' = revoked /\ t.stage = "sent"
        /\ ~rt.cancelledTurn /\ job.request = t.item.req
    BY <1>6 DEF OnApproval
  <2>3. /\ revoked = {} /\ t.out = "none" /\ turns = {t}
        /\ work[t.item.req].phase = "sent" /\ t.item.req \in Requests
    BY <2>2 DEF Accountable, StaleIsRevoked, SentRecorded, Coherent, SingleTurn,
       TypeOK, Turn, Item
  <2>4. /\ work'[t.item.req].phase = "sent" /\ work'[t.item.req].state # "cancelled"
    BY <2>1, <2>2, <2>3 DEF PhasesKept, StatesKept
  <2>5. OfferOf(t)'
    BY <2>1, <2>2, <2>3, <2>4 DEF OfferOf
  <2> QED BY <2>1, <2>2, <2>3, <2>5
<1>7. ASSUME job.state = "plan_ready", NEW c \in cancels, NEW ok \in BOOLEAN,
             CancelDelivered(c, ok)
      PROVE  /\ job'.delivery = job.delivery /\ job'.request = job.request
             /\ job'.pause \in {job.pause, "", "cancel_delivery_unknown"}
  BY <1>1, <1>7, CancelDeliveredDoes DEF JobIs
<1> QED BY <1>1, <1>2, <1>3, <1>4, <1>5, <1>6, <1>7, PlanReadyStep

-----------------------------------------------------------------------------
(* The invariant, and the properties that follow.                          *)

\* Accountable holds at Dispatch.
LEMMA AccountableInit == Init => Accountable
<1> SUFFICES ASSUME NEW r \in Requests, Dispatched(r) PROVE Accountable
  BY DEF Init
<1>1. Coherent
  BY CoherentInit DEF Init
<1>2. /\ turns = {} /\ revoked = {} /\ cancels = {} /\ deciders = {}
      /\ job.state = "created" /\ job.pause = "" /\ job.delivery = "" /\ ~job.cancelled
      /\ starter.stage = "new"
  BY DEF Dispatched
<1> QED BY <1>1, <1>2 DEF Accountable, SessionFirst, CurrentFirst, SentRecorded, StaleIsRevoked,
       CancelledOffersNothing, OffersLive, SeenIsFresh, OneCancel

\* Every step keeps Accountable.
LEMMA AccountableStep == Accountable /\ [Next]_vars => Accountable'
<1>1. Coherent /\ [Next]_vars => Coherent'
  BY TypeStep, SingleTurnStep, QueueStep, SourcesStep, RevokedStep, DrainedStep
     DEF Coherent
<1> QED BY <1>1, SessionFirstStep, CurrentFirstStep, SentRecordedStep, StaleIsRevokedStep,
       CancelledOffersNothingStep, OffersLiveStep, SeenIsFreshStep, OneCancelStep
       DEF Accountable

\* Accountable is inductive: true at Dispatch, kept by every step.
THEOREM AlwaysAccountable == Spec => []Accountable
BY AccountableInit, AccountableStep, PTL DEF Spec

\* The prompt of a turn in flight is recorded as sent, unless its session came
\* after a later change of the job, also when users act on
\* the job while its session is created.
THEOREM PromptIsRecorded == Spec => []SentIsDurable
<1>1. Accountable => SentIsDurable
  BY DEF Accountable, SessionFirst, CurrentFirst, Undisturbed, SentRecorded, SentIsDurable
<1> QED BY <1>1, AlwaysAccountable, PTL

\* A plan offered for a decision belongs to a turn that still runs, whatever
\* cancels, cuts off or restarts in between.
THEOREM OffersAreLive == Spec => []PendingApprovalIsLive
<1>1. Accountable => PendingApprovalIsLive
  BY DEF Accountable, OffersLive, OfferOf, PendingApprovalIsLive
<1> QED BY <1>1, AlwaysAccountable, PTL

\* A decision whose delivery is unknown stays so but for a user's Continue and
\* a fresh native request: PlanDecide needs an offer, a refused turn writes
\* back what it saw, and startJob's copy was written before any decision.
LEMMA StickyStep ==
  ASSUME Accountable, [Next]_vars, job.delivery = "unknown", job'.delivery # "unknown"
  PROVE  calls' = calls + 1 \/ asked' = asked + 1
<1>1. /\ TypeOK /\ Coherent /\ starter.stage = "done"
      /\ job.state # "plan_ready"
      /\ \A t \in turns : t.out = "refused" => t.seen = "submitted"
  BY DEF Accountable, Coherent, SessionFirst, OffersLive, SeenIsFresh
<1>2. ~JobKept
  BY DEF JobKept, JobIs
<1>3. JobMoves
  BY <1>1, <1>2, JobStep
<1>4. ~StartJob /\ ~SessionFailed /\ ~SessionCreated
  BY <1>1 DEF StartJob, SessionFailed, SessionCreated
<1>5. \A r \in Requests : ~(Followup(r) /\ ~rt.busy)
  BY <1>1, FollowupDoes DEF JobIs
<1>6. Continue => calls' = calls + 1
  BY DEF Continue
<1>7. \A d \in Decision : PlanDecide(d) => calls' = calls + 1
  BY <1>1, PlanDecideDoes
<1>8. ~PumpPops
  BY DEF PumpPops, PumpMayPop, Paused
<1>9. ~Save(DisconnectedJob)
  BY <1>1, DownDoes DEF JobIs
<1>10. \A t \in turns : ~FinishFailed(t) /\ ~FinishApplied(t)
  BY <1>1, FinishFailedDoes, FinishAppliedDoes DEF JobIs, Confirmed
<1>11. \A t \in turns, pause \in Pauses : OnApproval(t, pause) => asked' = asked + 1
  BY DEF OnApproval
<1>12. \A d \in deciders : ~PlanDecided(d)
  BY <1>1, <1>2, PlanDecidedDoes DEF JobIs
<1>13. \A c \in cancels : ~CancelBegin(c) /\ \A ok \in BOOLEAN : ~CancelDelivered(c, ok)
  BY <1>1, CancelBeginDoes, CancelDeliveredDoes DEF JobIs
<1>14. ~Restart
  BY <1>1, RestartDoes
<1> QED BY <1>3, <1>4, <1>5, <1>6, <1>7, <1>8, <1>9, <1>10, <1>11, <1>12, <1>13, <1>14
       DEF JobMoves

\* An approval whose delivery is unknown is settled by a user or a fresh
\* request, never by the program itself.
THEOREM UnknownStays == Spec => UnknownDeliveryIsSticky
<1>1. Accountable /\ [Next]_vars =>
        [job.delivery = "unknown" /\ job'.delivery # "unknown" =>
           calls' = calls + 1 \/ asked' = asked + 1]_vars
  BY StickyStep
<1> QED BY <1>1, AlwaysAccountable, PTL DEF Spec, UnknownDeliveryIsSticky

-----------------------------------------------------------------------------
(* Wake-ups.                                                               *)

\* Paused is read from the row.
LEMMA PausedKept ==
  ASSUME JobKept PROVE Paused' <=> Paused
BY DEF JobKept, JobIs, Paused

\* The steps that leave the runtime alone: work they leave stranded was so
\* before, or waited for a decision on an expired offer.
LEMMA QuietWake ==
  ASSUME Accountable, [Next]_vars, rt' = rt, pumps' = pumps, Stranded'
  PROVE  Stranded \/ (job.delivery = "expired" /\ job'.delivery = "submitted")
<1>1. /\ TypeOK /\ Coherent
      /\ rt.queue # <<>> /\ ~rt.busy /\ pumps = 0 /\ ~rt.controlPending /\ ~Paused'
      /\ turns = {}
  BY DEF Accountable, Coherent, SingleTurn, Stranded
<1>2. CASE JobKept
  BY <1>1, <1>2, PausedKept DEF Stranded
<1>3. CASE JobMoves
  <2>1. ASSUME StartJob \/ SessionFailed \/ SessionCreated PROVE Stranded
    <3>1. starter.stage # "done"
      BY <2>1 DEF StartJob, SessionFailed, SessionCreated
    <3>2. ~Paused
      BY <3>1 DEF Accountable, SessionFirst, Paused
    <3> QED BY <1>1, <3>2 DEF Stranded
  <2>2. \A r \in Requests : ~(Followup(r) /\ ~rt.busy)
    BY <1>1 DEF Followup
  <2>3. ~Continue
    <3> DEFINE n == Len(IF rt.queue = <<>> /\ (~rt.busy \/ rt.cancelledTurn)
                        THEN [i \in DOMAIN Unserved |->
                                [req |-> Unserved[i], kind |-> "followup",
                                 connect |-> TRUE, text |-> "prompt", gen |-> rt.gen]]
                        ELSE <<>>)
    <3>1. n = 0
      BY <1>1
    <3>2. Continue => pumps' = pumps + 1 + n
      BY <1>1 DEF Continue
    <3> HIDE DEF n
    <3> QED BY <1>1, <3>1, <3>2
  <2>4. ASSUME NEW d \in Decision, PlanDecide(d)
        PROVE  job.delivery = "expired" /\ job'.delivery = "submitted"
    <3>1. job.state = "plan_ready" /\ job'.delivery = "submitted"
      BY <1>1, <2>4, PlanDecideDoes DEF JobIs
    <3> QED BY <1>1, <3>1 DEF Accountable, OffersLive
  <2>5. ~PumpPops
    BY <1>1 DEF PumpPops, TypeOK
  <2>6. Save(DisconnectedJob) => Stranded
    <3>1. Save(DisconnectedJob) => ~Paused
      BY <1>1, DownDoes DEF JobIs, Paused
    <3> QED BY <1>1, <3>1 DEF Stranded
  <2>7. \A d \in deciders : PlanDecided(d) => JobKept
    BY <1>1, PlanDecidedDoes DEF JobIs, Paused
  <2>8. ASSUME NEW c \in cancels, CancelBegin(c) PROVE FALSE
    <3>1. rt'.gen = rt.gen + 1 /\ rt.gen \in Nat
      BY <1>1, <2>8 DEF CancelBegin, TypeOK, Runtime
    <3> QED BY <3>1
  <2>9. ASSUME NEW c \in cancels, NEW ok \in BOOLEAN, CancelDelivered(c, ok) PROVE FALSE
    BY <1>1, <2>9 DEF CancelDelivered, Accountable, OneCancel
  <2>10. ~Restart
    BY <1>1 DEF Restart, IdleRuntime
  <2> QED BY <1>1, <1>2, <1>3, <2>1, <2>2, <2>3, <2>4, <2>5, <2>6, <2>7, <2>8, <2>9, <2>10
         DEF JobMoves
<1> QED BY <1>1, <1>2, <1>3, JobStep

\* Only the two ways WakeUpsAreKept names strand work that was not stranded.
LEMMA WakeStep ==
  ASSUME Accountable, [Next]_vars, Stranded', ~Stranded
  PROVE  \/ rt.controlPending /\ ~rt'.controlPending /\ pumps' = pumps
         \/ job.delivery = "expired" /\ job'.delivery = "submitted"
<1> DEFINE Goal == \/ rt.controlPending /\ ~rt'.controlPending /\ pumps' = pumps
                   \/ job.delivery = "expired" /\ job'.delivery = "submitted"
<1>1. /\ TypeOK /\ Coherent /\ rt \in Runtime /\ pumps \in Nat
      /\ rt'.queue # <<>> /\ rt'.busy = FALSE /\ pumps' = 0
      /\ rt'.controlPending = FALSE /\ ~Paused'
      /\ rt.busy <=> turns # {}
  <2>1. TypeOK' /\ TypeOK
    BY TypeStep DEF Accountable, Coherent
  <2> QED BY <2>1 DEF Accountable, Coherent, SingleTurn, TypeOK, Runtime, Stranded
<1>2. UNCHANGED <<rt, pumps>> => Goal
  BY QuietWake
<1> HIDE DEF Goal
<1>3. DisconnectedRt(rt).queue = <<>>
  BY <1>1 DEF DisconnectedRt, Runtime
<1>4. ASSUME Session PROVE Goal
  <2>1. ~SessionCreated
    <3>1. SessionCreated => rt'.busy = rt.busy
      BY <1>1 DEF SessionCreated, Runtime
    <3> QED BY <1>1, <3>1 DEF SessionCreated
  <2> QED BY <1>2, <1>4, <2>1 DEF Session, StartJob, SessionFailed, SessionSuperseded
<1>5. ASSUME Users PROVE Goal
  <2>1. ASSUME NEW r \in Requests, Followup(r) PROVE FALSE
    <3>1. rt'.busy = rt.busy
      BY <1>1, <2>1 DEF Followup, Runtime
    <3>2. pumps' = IF rt.busy THEN pumps ELSE pumps + 1
      BY <2>1 DEF Followup
    <3> QED BY <1>1, <3>1, <3>2
  <2>2. ASSUME NEW r \in Requests, CancelQueued(r) PROVE Goal
    <3> DEFINE K == {k \in DOMAIN rt.queue : rt.queue[k].req # r}
    <3>1. rt' = [rt EXCEPT !.queue = Keep(@, K)]
      BY <2>2 DEF CancelQueued
    <3>2. K \in SUBSET DOMAIN rt.queue
      OBVIOUS
    <3>3. rt.queue = <<>> => K = {}
      OBVIOUS
    <3> HIDE DEF K
    <3>4. rt'.queue = Keep(rt.queue, K) /\ rt'.busy = rt.busy
          /\ rt'.controlPending = rt.controlPending
      BY <1>1, <3>1 DEF Runtime
    <3>5. rt.queue \in Seq(Item)
      BY <1>1 DEF Runtime
    <3>6. Keep(rt.queue, K) \in Seq(Item) /\ Len(Keep(rt.queue, K)) = Cardinality(K)
      BY <3>2, <3>5, KeepSelects
    <3>7. rt.queue # <<>>
      <4>1. Cardinality({}) = 0
        BY FS_EmptySet
      <4>2. rt.queue = <<>> => Len(Keep(rt.queue, K)) = 0
        BY <3>3, <3>6, <4>1
      <4>3. Keep(rt.queue, K) # <<>>
        BY <1>1, <3>4
      <4> QED BY <3>6, <4>2, <4>3
    <3>8. Paused' = Paused /\ pumps' = pumps
      BY <2>2 DEF CancelQueued, Paused
    <3> QED BY <1>1, <3>4, <3>7, <3>8 DEF Stranded
  <2>3. ASSUME Continue PROVE FALSE
    <3> DEFINE text == IF work[job.request].phase \in {"queued", "preparing"}
                       THEN "prompt" ELSE "resume"
               item == [req |-> job.request, kind |-> "continue", connect |-> TRUE,
                        text |-> text, gen |-> rt.gen]
               old(i) == [req |-> Unserved[i], kind |-> "followup",
                          connect |-> TRUE, text |-> "prompt", gen |-> rt.gen]
               restored == IF rt.queue = <<>> /\ (~rt.busy \/ rt.cancelledTurn)
                           THEN [i \in DOMAIN Unserved |-> old(i)] ELSE <<>>
    <3>1. /\ rt' = [rt EXCEPT !.queue = Pushed(@, item) \o restored]
          /\ pumps' = IF rt.busy THEN pumps ELSE pumps + 1 + Len(restored)
      BY <2>3 DEF Continue
    <3>2. Unserved \in Seq(Requests)
      BY <1>1, UnservedType DEF TypeOK
    <3>3. \A i \in DOMAIN Unserved : old(i) \in Item
      BY <1>1, <3>2 DEF Item, Runtime
    <3> HIDE DEF item, old
    <3>4. restored \in Seq(Item)
      BY <3>2, <3>3, EmptySeq
    <3> HIDE DEF restored
    <3>5. rt'.busy = rt.busy
      BY <1>1, <3>1 DEF Runtime
    <3> QED BY <1>1, <3>1, <3>4, <3>5
  <2>4. ASSUME NEW r \in Requests \cup {NoRequest}, NEW turn \in {0, rt.turn},
               CancelChecked(r, turn)
        PROVE  Goal
    BY <1>2, <2>4 DEF CancelChecked
  <2>5. ASSUME NEW d \in Decision, PlanDecide(d) PROVE Goal
    BY <1>2, <2>5 DEF PlanDecide
  <2> QED BY <1>5, <2>1, <2>2, <2>3, <2>4, <2>5 DEF Users
<1>6. ASSUME PumpSkips PROVE Goal
  BY <1>1, <1>6 DEF PumpSkips, PumpMayPop, Paused
<1>7. ASSUME PumpPops PROVE Goal
  BY <1>1, <1>7 DEF PumpPops, Runtime
<1>8. ASSUME NEW t \in turns, Finish(t) PROVE FALSE
  <2>1. Released.queue = rt.queue /\ Released \in Runtime
    BY <1>1, ReleasedType DEF Released, Runtime
  <2>2. LoopAgain \in {0, 1} /\ (rt.queue # <<>> => LoopAgain = 1)
    BY DEF LoopAgain
  <2>3. ~FinishNothing(t) /\ ~FinishFailed(t)
    BY <1>1, <2>1, <2>2 DEF FinishNothing, FinishFailed
  <2>4. ~FinishLost(t)
    BY <1>1, <2>1 DEF FinishLost, DisconnectedRt, Runtime
  <2>5. CASE FinishApplied(t)
    <3>1. /\ t.out # "working" => rt' = Released
          /\ t.out = "working" => pumps' = pumps + LoopAgain + 1
          /\ t.out # "working" => pumps' = pumps + LoopAgain + 0
      BY <2>5 DEF FinishApplied
    <3> QED BY <1>1, <2>1, <2>2, <3>1
  <2> QED BY <1>8, <2>3, <2>4, <2>5 DEF Finish
<1>9. ASSUME Agent PROVE Goal
  <2>1. ASSUME NEW t \in turns, Preparing(t) PROVE FALSE
    BY <1>1, <2>1 DEF Preparing, PrepareFails, SendPrompt, DropStale
  <2>2. ASSUME NEW t \in turns, NEW out \in Outcomes, PromptReturns(t, out) PROVE FALSE
    BY <1>1, <2>2 DEF PromptReturns
  <2>3. ASSUME NEW t \in turns, NEW pause \in Pauses, OnApproval(t, pause) PROVE FALSE
    BY <1>1, <2>3 DEF OnApproval
  <2> QED BY <1>2, <1>8, <1>9, <2>1, <2>2, <2>3 DEF Agent, AskDropped
<1>10. ASSUME Settling PROVE Goal
  <2>1. ASSUME ListJobs \/ Disconnect PROVE Goal
    BY <1>1, <1>2, <1>3, <2>1 DEF ListJobs, Disconnect
  <2>2. ASSUME NEW d \in deciders, PlanDecided(d) PROVE Goal
    BY <1>1, <1>2, <1>3, <2>2 DEF PlanDecided
  <2>3. ASSUME NEW d \in deciders, NEW res \in {"ok", "err"}, ResolveApproval(d, res)
        PROVE  Goal
    BY <1>2, <2>3 DEF ResolveApproval
  <2>4. ASSUME NEW c \in cancels, CancelBegin(c) PROVE FALSE
    BY <1>1, <2>4 DEF CancelBegin, Runtime
  <2>5. ASSUME NEW c \in cancels, CancelRefused(c) PROVE Goal
    BY <1>2, <2>5 DEF CancelRefused
  <2>6. ASSUME NEW c \in cancels, NEW ok \in BOOLEAN, CancelDelivered(c, ok) PROVE Goal
    <3>1. rt.controlPending
      BY <2>6 DEF CancelDelivered, Accountable, OneCancel
    <3>2. rt'.queue = rt.queue /\ rt'.busy = rt.busy
      BY <1>1, <2>6 DEF CancelDelivered, Uncontrolled, Runtime
    <3>3. pumps' = IF ok /\ ~rt.busy /\ rt.queue # <<>> THEN pumps + 1 ELSE pumps
      BY <2>6 DEF CancelDelivered
    <3>4. pumps' = pumps
      BY <1>1, <3>2, <3>3
    <3>5. ~rt'.controlPending
      BY <1>1
    <3>6. rt.controlPending /\ ~rt'.controlPending /\ pumps' = pumps
      BY <3>1, <3>4, <3>5, Zenon
    <3> QED BY <3>6, Zenon DEF Goal
  <2> QED BY <1>10, <2>1, <2>2, <2>3, <2>4, <2>5, <2>6 DEF Settling
<1>11. ASSUME Faults PROVE Goal
  <2>1. ~Restart
    BY <1>1 DEF Restart, IdleRuntime
  <2>2. ConnectionLost => UNCHANGED <<rt, pumps>>
    BY DEF ConnectionLost
  <2> QED BY <1>2, <1>11, <2>1, <2>2 DEF Faults
<1>12. ASSUME UNCHANGED vars PROVE Goal
  BY <1>2, <1>12 DEF vars
<1>13. Goal
  BY <1>4, <1>5, <1>6, <1>7, <1>9, <1>10, <1>11, <1>12 DEF Next
<1> QED BY <1>13 DEF Goal

\* No step strands work that waits, but an undelivered cancellation and a
\* decision on an expired offer.
THEOREM NoLostWakeUp == Spec => WakeUpsAreKept
<1>1. Accountable /\ [Next]_vars =>
        [Stranded' /\ ~Stranded =>
           \/ rt.controlPending /\ ~rt'.controlPending /\ pumps' = pumps
           \/ job.delivery = "expired" /\ job'.delivery = "submitted"]_vars
  BY WakeStep
<1> QED BY <1>1, AlwaysAccountable, PTL DEF Spec, WakeUpsAreKept

-----------------------------------------------------------------------------
(* The queue and the ledger.                                               *)

\* The request of a turn in flight is taken up in the ledger.
TakenUp == \A t \in turns : work[t.item.req].phase # "queued"

\* A request has one row.
OrderOnce == /\ \A k, l \in DOMAIN order : order[k] = order[l] => k = l
             /\ \A k \in DOMAIN order : Accepted(order[k])

\* Unless the session came late, a waiting original prompt is one the ledger
\* calls queued ...
IsPrompt(item) == item.kind # "continue"
RowWaits(r) == /\ work[r].phase = "queued"
               /\ work[r].state = "cancelled" => job.cancelled
PromptsWait ==
  \A k \in DOMAIN rt.queue : IsPrompt(rt.queue[k]) => RowWaits(rt.queue[k].req)

\* ... and nothing before it in the queue is for the same request.
FirstOfItsRequest(queue) ==
  \A k, l \in DOMAIN queue : l < k /\ IsPrompt(queue[k]) => queue[l].req # queue[k].req
PromptsOnce == FirstOfItsRequest(rt.queue)

Orderly == /\ Accountable /\ TakenUp /\ OrderOnce
           /\ ~starter.late => PromptsWait /\ PromptsOnce

\* Orderly holds at Dispatch.
LEMMA OrderlyInit == Init => Orderly
<1> SUFFICES ASSUME NEW r \in Requests, Dispatched(r) PROVE Orderly
  BY DEF Init
<1>1. Accountable
  BY AccountableInit DEF Init
<1>2. rt.queue = <<>>
  BY DEF Dispatched, IdleRuntime
<1>3. /\ turns = {} /\ job.cancelled = FALSE /\ job.request = r /\ job.state = "created"
      /\ starter.req = r /\ work[r].phase = "queued" /\ order = <<r>>
  BY DEF Dispatched
<1>4. OrderOnce
  <2>1. DOMAIN order = {1} /\ order[1] = r
    BY <1>3
  <2> QED BY <1>3, <2>1 DEF OrderOnce, Accepted
<1>5. TakenUp
  BY <1>3 DEF TakenUp
<1>6. PromptsWait /\ PromptsOnce
  BY <1>2 DEF PromptsWait, PromptsOnce, FirstOfItsRequest
<1> QED BY <1>1, <1>4, <1>5, <1>6 DEF Orderly

\* TakenUp is kept: a popped item moves its request to "preparing", and no step
\* moves a row of the ledger back to "queued".
LEMMA TakenUpStep ==
  ASSUME Orderly, [Next]_vars
  PROVE  TakenUp'
<1>1. /\ Accountable /\ Coherent /\ TypeOK
      /\ \A t \in turns : work[t.item.req].phase # "queued"
      /\ \A t \in turns : t.item.req \in Requests /\ Accepted(t.item.req)
      /\ rt.busy <=> turns # {}
  BY DEF Orderly, TakenUp, Accountable, Coherent, SingleTurn, SourcesAccepted, TypeOK,
     Turn, Item
<1> SUFFICES ASSUME NEW u \in turns' PROVE work'[u.item.req].phase # "queued"
  BY DEF TakenUp
<1>2. CASE Begun(u)
  <2>1. PumpPops /\ u.item = Head(rt.queue)
    BY <1>2 DEF Begun
  <2> QED BY <1>1, <2>1, PumpDoes
<1>3. ASSUME NEW t \in turns, Progress(u, t) PROVE work'[u.item.req].phase # "queued"
  <2> DEFINE r == t.item.req
  <2>1. u.item = t.item /\ r \in Requests /\ work[r].phase # "queued" /\ Accepted(r)
    BY <1>1, <1>3 DEF Progress, Carried
  <2> HIDE DEF r
  <2>2. ~PumpPops
    BY <1>1, <1>3 DEF PumpPops, PumpMayPop
  <2>3. ASSUME PhasesKept PROVE work'[r].phase # "queued"
    BY <2>1, <2>3 DEF PhasesKept
  <2>4. ASSUME NEW q \in Requests, Followup(q) PROVE work'[r].phase # "queued"
    BY <1>1, <2>1, <2>4, FollowupDoes
  <2>5. ASSUME NEW v \in turns, SendPrompt(v) \/ FinishApplied(v)
        PROVE  work'[r].phase # "queued"
    BY <1>1, <2>1, <2>5, SendDoes, FinishAppliedDoes
  <2>6. work'[r].phase # "queued"
    BY <1>1, <2>2, <2>3, <2>4, <2>5, PhasesStep
  <2> QED BY <2>1, <2>6 DEF r
<1> QED BY <1>1, <1>2, <1>3, TurnMoves

\* OrderOnce is kept: a row is appended for a request that had none.
LEMMA OrderOnceStep ==
  ASSUME Orderly, [Next]_vars
  PROVE  OrderOnce'
<1>1. /\ Coherent /\ TypeOK /\ order \in Seq(Requests)
      /\ \A k, l \in DOMAIN order : order[k] = order[l] => k = l
      /\ \A k \in DOMAIN order : Accepted(order[k])
  BY DEF Orderly, OrderOnce, Accountable, Coherent, TypeOK
<1>2. \A r \in Requests : Accepted(r) => Accepted(r)'
  BY <1>1, LedgerStep DEF AcceptedSet
<1>3. CASE order' = order
  BY <1>1, <1>2, <1>3 DEF OrderOnce
<1>4. ASSUME NEW r \in Requests, Followup(r) PROVE OrderOnce'
  <2>1. order' = Append(order, r) /\ ~Accepted(r) /\ work'[r].phase = "queued"
    BY <1>1, <1>4, FollowupDoes DEF Followup
  <2>2. Accepted(r)'
    BY <2>1 DEF Accepted
  <2>3. \A k \in DOMAIN order' : IF k = Len(order) + 1 THEN order'[k] = r
                                 ELSE k \in DOMAIN order /\ order'[k] = order[k]
    BY <1>1, <2>1
  <2>4. \A k \in DOMAIN order : order[k] # r
    BY <1>1, <2>1
  <2> QED BY <1>1, <1>2, <2>2, <2>3, <2>4 DEF OrderOnce
<1>5. order' = order \/ \E r \in Requests : Followup(r)
  <2>1. CASE Session \/ PumpSkips \/ PumpPops \/ UNCHANGED vars
    BY <2>1 DEF Session, StartJob, SessionFailed, SessionCreated, SessionSuperseded,
       PumpSkips, PumpPops, vars
  <2>2. CASE Users
    BY <2>2 DEF Users, Continue, CancelQueued, CancelChecked, PlanDecide
  <2>3. CASE Agent
    BY <2>3 DEF Agent, Preparing, PrepareFails, SendPrompt, DropStale, PromptReturns,
       OnApproval, AskDropped, Finish, FinishNothing, FinishLost, FinishFailed,
       FinishApplied, Finishes
  <2>4. CASE Settling
    BY <2>4 DEF Settling, ListJobs, Disconnect, PlanDecided, ResolveApproval,
       CancelBegin, CancelRefused, CancelDelivered
  <2>5. CASE Faults
    BY <2>5 DEF Faults, ConnectionLost, Restart
  <2> QED BY <2>1, <2>2, <2>3, <2>4, <2>5 DEF Next
<1> QED BY <1>3, <1>4, <1>5

\* What a step does to the queue.
Continuation(item) == item \in Item /\ item.kind = "continue"
Prompted(item, r) == item \in Item /\ IsPrompt(item) /\ item.req = r
OthersThan(r) == {k \in DOMAIN rt.queue : rt.queue[k].req # r}

Restores ==
  /\ Continue /\ rt.queue = <<>>
  /\ \E item \in Item, q \in Seq(Item) :
       /\ Continuation(item) /\ item.req = job.request /\ rt'.queue = <<item>> \o q
       /\ \A i \in DOMAIN q : i \in DOMAIN Unserved /\ q[i].req = Unserved[i]

QueueMoves ==
  \/ rt'.queue = <<>>
  \/ \E gen : rt'.queue = Restamped(rt.queue, gen)
  \/ \E r \in Requests : CancelQueued(r) /\ rt'.queue = Keep(rt.queue, OthersThan(r))
  \/ \E r \in Requests, item \in Item :
       Followup(r) /\ Prompted(item, r) /\ rt'.queue = Append(rt.queue, item)
  \/ \E item \in Item : /\ SessionCreated /\ Prompted(item, starter.req)
                        /\ rt'.queue = Append(rt.queue, item)
  \/ \E item \in Item : Continue /\ Continuation(item) /\ rt'.queue = Append(rt.queue, item)
  \/ Restores
  \/ PumpPops /\ rt.queue # <<>> /\ rt'.queue = Tail(rt.queue)
  \/ \E t \in turns, item \in Item :
       /\ FinishApplied(t) /\ Continuation(item) /\ item.req = t.item.req
       /\ rt'.queue = <<item>> \o rt.queue

\* Every step keeps the queue, or changes it in one of the ways of QueueMoves.
LEMMA QueueMovesStep ==
  ASSUME Coherent, [Next]_vars
  PROVE  rt'.queue = rt.queue \/ QueueMoves
<1> DEFINE Same == rt'.queue = rt.queue
<1>1. /\ TypeOK /\ rt \in Runtime /\ rt.queue \in Seq(Item) /\ rt.gen \in Nat
      /\ job.request \in Requests /\ starter.req \in Requests
  BY DEF Coherent, TypeOK, Runtime, Job
<1>2. rt' = rt => Same
  OBVIOUS
<1>3. ASSUME NEW r \in Requests, NEW kind \in {"plan", "followup", "continue"},
             NEW connect \in BOOLEAN, NEW text \in {"prompt", "resume"}
      PROVE  LET item == [req |-> r, kind |-> kind, connect |-> connect,
                          text |-> text, gen |-> rt.gen]
             IN  /\ item \in Item /\ item.req = r
                 /\ kind = "continue" => Continuation(item)
                 /\ kind # "continue" => Prompted(item, r)
  BY <1>1 DEF Item, Continuation, Prompted, IsPrompt
<1>4. ASSUME Session PROVE Same \/ QueueMoves
  <2>1. ASSUME SessionCreated PROVE QueueMoves
    <3> DEFINE item == [req |-> starter.req, kind |-> "plan", connect |-> FALSE,
                        text |-> "prompt", gen |-> rt.gen]
    <3>1. rt' = [rt EXCEPT !.queue = Append(@, item)]
      BY <2>1 DEF SessionCreated
    <3>2. item \in Item /\ Prompted(item, starter.req)
      BY <1>1, <1>3
    <3> HIDE DEF item
    <3>3. rt'.queue = Append(rt.queue, item)
      BY <1>1, <3>1 DEF Runtime
    <3> QED BY <2>1, <3>2, <3>3 DEF QueueMoves
  <2> QED BY <1>2, <1>4, <2>1 DEF Session, StartJob, SessionFailed, SessionSuperseded
<1>5. ASSUME Users PROVE Same \/ QueueMoves
  <2>1. ASSUME NEW r \in Requests, Followup(r) PROVE QueueMoves
    <3> DEFINE item == [req |-> r, kind |-> "followup", connect |-> TRUE,
                        text |-> "prompt", gen |-> rt.gen]
    <3>1. rt' = [rt EXCEPT !.queue = Pushed(@, item)]
      BY <2>1 DEF Followup
    <3>2. item \in Item /\ Prompted(item, r)
      BY <1>1, <1>3
    <3> HIDE DEF item
    <3>3. Pushed(rt.queue, item) = Append(rt.queue, item)
      BY <3>2 DEF Pushed, Prompted, IsPrompt
    <3>4. rt'.queue = Append(rt.queue, item)
      BY <1>1, <3>1, <3>3 DEF Runtime
    <3> QED BY <2>1, <3>2, <3>4 DEF QueueMoves
  <2>2. ASSUME NEW r \in Requests, CancelQueued(r) PROVE QueueMoves
    <3>1. rt'.queue = Keep(rt.queue, OthersThan(r))
      BY <1>1, <2>2 DEF CancelQueued, OthersThan, Runtime
    <3> QED BY <2>2, <3>1 DEF QueueMoves
  <2>3. ASSUME Continue PROVE QueueMoves
    <3> DEFINE text == IF work[job.request].phase \in {"queued", "preparing"}
                       THEN "prompt" ELSE "resume"
               item == [req |-> job.request, kind |-> "continue", connect |-> TRUE,
                        text |-> text, gen |-> rt.gen]
               old(i) == [req |-> Unserved[i], kind |-> "followup",
                          connect |-> TRUE, text |-> "prompt", gen |-> rt.gen]
               restored == IF rt.queue = <<>> /\ (~rt.busy \/ rt.cancelledTurn)
                           THEN [i \in DOMAIN Unserved |-> old(i)] ELSE <<>>
    <3>1. rt' = [rt EXCEPT !.queue = Pushed(@, item) \o restored]
      BY <2>3 DEF Continue
    <3>2. item \in Item /\ Continuation(item) /\ item.req = job.request /\ item.connect = TRUE
      BY <1>1, <1>3
    <3>3. Unserved \in Seq(Requests)
      BY <1>1, UnservedType DEF TypeOK
    <3>4. \A i \in DOMAIN Unserved : old(i) \in Item /\ old(i).req = Unserved[i]
      BY <1>1, <3>3 DEF Item
    <3> HIDE DEF item, old
    <3>5. /\ restored \in Seq(Item)
          /\ \A i \in DOMAIN restored : i \in DOMAIN Unserved /\ restored[i].req = Unserved[i]
          /\ rt.queue # <<>> => restored = <<>>
      BY <3>3, <3>4, EmptySeq
    <3> HIDE DEF restored
    <3>6. Pushed(rt.queue, item) = Append(rt.queue, item)
      BY <3>2 DEF Pushed
    <3>7. rt'.queue = Append(rt.queue, item) \o restored
      BY <1>1, <3>1, <3>6 DEF Runtime
    <3>8. CASE rt.queue # <<>>
      <4>1. rt'.queue = Append(rt.queue, item)
        BY <1>1, <3>2, <3>5, <3>7, <3>8
      <4> QED BY <2>3, <3>2, <4>1 DEF QueueMoves
    <3>9. CASE rt.queue = <<>>
      <4>1. rt'.queue = <<item>> \o restored
        BY <3>2, <3>7, <3>9
      <4> QED BY <2>3, <3>2, <3>5, <3>9, <4>1 DEF QueueMoves, Restores
    <3> QED BY <3>8, <3>9
  <2>4. ASSUME NEW r \in Requests \cup {NoRequest}, NEW turn \in {0, rt.turn},
               CancelChecked(r, turn)
        PROVE  Same
    BY <1>2, <2>4 DEF CancelChecked
  <2>5. ASSUME NEW d \in Decision, PlanDecide(d) PROVE Same
    BY <1>2, <2>5 DEF PlanDecide
  <2> QED BY <1>5, <2>1, <2>2, <2>3, <2>4, <2>5 DEF Users
<1>6. ASSUME PumpPops PROVE QueueMoves
  <2>1. rt'.queue = Tail(rt.queue) /\ rt.queue # <<>>
    BY <1>1, <1>6 DEF PumpPops, PumpMayPop, Runtime
  <2> QED BY <1>6, <2>1 DEF QueueMoves
<1>7. ASSUME NEW t \in turns, Finish(t) PROVE Same \/ QueueMoves
  <2>1. Released.queue = rt.queue /\ Released \in Runtime
    BY <1>1, ReleasedType DEF Released, Runtime
  <2>2. FinishNothing(t) \/ FinishFailed(t) => Same
    BY <2>1 DEF FinishNothing, FinishFailed
  <2>3. FinishLost(t) => rt'.queue = <<>>
    BY <2>1 DEF FinishLost, DisconnectedRt, Runtime
  <2>4. ASSUME FinishApplied(t) PROVE Same \/ QueueMoves
    <3> DEFINE again == [req |-> t.item.req, kind |-> "continue", connect |-> FALSE,
                         text |-> "resume", gen |-> rt.gen]
    <3>1. \/ rt' = Released
          \/ rt' = [Released EXCEPT !.queue = Pushed(@, again)]
      BY <2>4, Zenon DEF FinishApplied
    <3>2. /\ again \in Item /\ Continuation(again) /\ again.req = t.item.req
          /\ again.connect = FALSE
      <4>1. t.item.req \in Requests
        BY <1>1 DEF TypeOK, Turn, Item
      <4> QED BY <1>3, <4>1
    <3> HIDE DEF again
    <3>3. Pushed(rt.queue, again) = <<again>> \o rt.queue
      BY <3>2 DEF Pushed, Continuation
    <3>4. rt'.queue \in {rt.queue, <<again>> \o rt.queue}
      BY <2>1, <3>1, <3>3 DEF Runtime
    <3> QED BY <2>4, <3>2, <3>4 DEF QueueMoves
  <2> QED BY <1>7, <2>2, <2>3, <2>4 DEF Finish, QueueMoves
<1>8. ASSUME Settling PROVE Same \/ QueueMoves
  <2>1. DisconnectedRt(rt).queue = <<>>
    BY <1>1 DEF DisconnectedRt, Runtime
  <2>2. ASSUME ListJobs \/ Disconnect PROVE Same \/ QueueMoves
    BY <1>2, <2>1, <2>2 DEF ListJobs, Disconnect, QueueMoves
  <2>3. ASSUME NEW d \in deciders, PlanDecided(d) PROVE Same \/ rt'.queue = <<>>
    BY <1>2, <2>1, <2>3, Zenon DEF PlanDecided
  <2>4. ASSUME NEW d \in deciders, NEW res \in {"ok", "err"}, ResolveApproval(d, res)
        PROVE  Same
    BY <1>2, <2>4 DEF ResolveApproval
  <2>5. ASSUME NEW c \in cancels, CancelBegin(c) PROVE QueueMoves
    <3>1. rt'.queue = Restamped(rt.queue, rt.gen + 1)
      BY <1>1, <2>5 DEF CancelBegin, Runtime
    <3> QED BY <3>1 DEF QueueMoves
  <2>6. ASSUME NEW c \in cancels, CancelRefused(c) PROVE Same
    BY <1>2, <2>6 DEF CancelRefused
  <2>7. ASSUME NEW c \in cancels, NEW ok \in BOOLEAN, CancelDelivered(c, ok) PROVE Same
    BY <1>1, <2>7 DEF CancelDelivered, Uncontrolled, Runtime
  <2> QED BY <1>8, <2>2, <2>3, <2>4, <2>5, <2>6, <2>7 DEF Settling, QueueMoves
<1>9. ASSUME Agent PROVE Same \/ QueueMoves
  <2>1. ASSUME NEW t \in turns, Preparing(t) PROVE Same
    BY <1>2, <2>1 DEF Preparing, PrepareFails, SendPrompt, DropStale
  <2>2. ASSUME NEW t \in turns, NEW out \in Outcomes, PromptReturns(t, out) PROVE Same
    BY <1>2, <2>2 DEF PromptReturns
  <2>3. ASSUME NEW t \in turns, NEW pause \in Pauses, OnApproval(t, pause) PROVE Same
    BY <1>2, <2>3 DEF OnApproval
  <2> QED BY <1>2, <1>7, <1>9, <2>1, <2>2, <2>3 DEF Agent, AskDropped
<1>10. ASSUME Faults PROVE Same \/ QueueMoves
  <2>1. Restart => rt'.queue = <<>>
    BY DEF Restart, IdleRuntime
  <2>2. ConnectionLost => rt' = rt
    BY DEF ConnectionLost
  <2> QED BY <1>10, <2>1, <2>2 DEF Faults, QueueMoves
<1>11. ASSUME PumpSkips \/ UNCHANGED vars PROVE Same
  BY <1>2, <1>11 DEF PumpSkips, vars
<1> QED BY <1>4, <1>5, <1>6, <1>8, <1>9, <1>10, <1>11 DEF Next

\* A session that does not come late meets an empty queue and a request that waits.
LEMMA InTime ==
  ASSUME Orderly, [Next]_vars, ~starter'.late
  PROVE  /\ PromptsWait /\ PromptsOnce
         /\ SessionCreated => /\ rt.queue = <<>> /\ turns = {}
                              /\ work[starter.req].phase = "queued"
                              /\ work[starter.req].state # "cancelled"
<1>1. Coherent /\ TypeOK /\ (~starter.late => PromptsWait /\ PromptsOnce)
  BY DEF Orderly, Accountable, Coherent
<1>2. SessionCreated => ~Overtaken
  BY <1>1 DEF SessionCreated, TypeOK
<1>3. rt.queue = <<>> => PromptsWait /\ PromptsOnce
  BY DEF PromptsWait, PromptsOnce, FirstOfItsRequest
<1> QED BY <1>1, <1>2, <1>3, StarterStep DEF Overtaken

\* What Continue restores: requests with a row that waits, once each, but not
\* the current one.
LEMMA UnservedWaits ==
  ASSUME TypeOK, OrderOnce
  PROVE  /\ \A i \in DOMAIN Unserved :
              /\ Unserved[i] \in Requests /\ Unserved[i] # job.request
              /\ work[Unserved[i]].phase = "queued"
              /\ work[Unserved[i]].state # "cancelled"
         /\ \A i, j \in DOMAIN Unserved : i < j => Unserved[i] # Unserved[j]
<1> DEFINE waiting == {k \in DOMAIN order : /\ work[order[k]].phase = "queued"
                                            /\ work[order[k]].state # "cancelled"
                                            /\ order[k] # job.request}
           n == Cardinality(waiting)
<1>1. waiting \in SUBSET DOMAIN order /\ order \in Seq(Requests) /\ Unserved = Keep(order, waiting)
  BY DEF TypeOK, Unserved
<1>2. \A k \in waiting : /\ k \in DOMAIN order /\ order[k] \in Requests
                         /\ order[k] # job.request /\ work[order[k]].phase = "queued"
                         /\ work[order[k]].state # "cancelled"
  BY <1>1
<1> HIDE DEF waiting
<1>3. /\ Unserved \in Seq(Requests) /\ Len(Unserved) = n
      /\ \A i \in 1 .. n : Nth(waiting, i) \in waiting /\ Unserved[i] = order[Nth(waiting, i)]
      /\ \A i, j \in 1 .. n : i < j => Nth(waiting, i) < Nth(waiting, j)
  BY <1>1, KeepSelects, KeepInOrder
<1> HIDE DEF n
<1>4. DOMAIN Unserved = 1 .. n
  BY <1>3
<1>5. ASSUME NEW i \in DOMAIN Unserved, NEW j \in DOMAIN Unserved, i < j
      PROVE  Unserved[i] # Unserved[j]
  <2>1. Nth(waiting, i) < Nth(waiting, j)
    BY <1>3, <1>4, <1>5
  <2>2. Nth(waiting, i) \in DOMAIN order /\ Nth(waiting, j) \in DOMAIN order
    BY <1>2, <1>3, <1>4
  <2>3. Nth(waiting, i) # Nth(waiting, j)
    BY <1>1, <2>1, <2>2
  <2> QED BY <1>3, <1>4, <2>2, <2>3 DEF OrderOnce
<1> QED BY <1>2, <1>3, <1>4, <1>5

\* What a cancellation of a queued request keeps.
LEMMA OthersKept ==
  ASSUME TypeOK, NEW r \in Requests
  PROVE  LET kept == Keep(rt.queue, OthersThan(r))
         IN  /\ kept \in Seq(Item)
             /\ \A i \in DOMAIN kept : /\ Nth(OthersThan(r), i) \in DOMAIN rt.queue
                                       /\ kept[i] = rt.queue[Nth(OthersThan(r), i)]
                                       /\ kept[i].req # r
             /\ \A i, j \in DOMAIN kept : i < j => Nth(OthersThan(r), i) < Nth(OthersThan(r), j)
<1>1. rt.queue \in Seq(Item) /\ OthersThan(r) \in SUBSET DOMAIN rt.queue
  BY DEF TypeOK, Runtime, OthersThan
<1>2. \A k \in OthersThan(r) : k \in DOMAIN rt.queue /\ rt.queue[k].req # r
  BY DEF OthersThan
<1>3. DOMAIN Keep(rt.queue, OthersThan(r)) = 1 .. Cardinality(OthersThan(r))
  BY DEF Keep
<1> QED BY <1>1, <1>2, <1>3, KeepSelects, KeepInOrder

\* Where a waiting original prompt comes from.
WasWaiting(r) ==
  /\ ~CancelQueued(r)
  /\ \E l \in DOMAIN rt.queue : /\ IsPrompt(rt.queue[l]) /\ rt.queue[l].req = r
                                /\ PumpPops => l # 1
IsRestored(r) == Restores /\ \E i \in DOMAIN Unserved : r = Unserved[i]

\* Where a waiting prompt comes from: the queue, the ledger, a followup, or
\* startJob.
LEMMA PromptCame ==
  ASSUME Coherent, [Next]_vars, NEW k \in DOMAIN rt'.queue, IsPrompt(rt'.queue[k])
  PROVE  LET r == rt'.queue[k].req
         IN  \/ WasWaiting(r) \/ IsRestored(r)
             \/ r \in Requests /\ Followup(r)
             \/ SessionCreated /\ r = starter.req
<1> DEFINE r == rt'.queue[k].req
           Goal == \/ WasWaiting(r) \/ IsRestored(r)
                   \/ r \in Requests /\ Followup(r)
                   \/ SessionCreated /\ r = starter.req
<1>1. TypeOK /\ rt \in Runtime /\ rt.queue \in Seq(Item) /\ rt'.queue \in Seq(Item)
  <2>1. TypeOK /\ TypeOK'
    BY TypeStep DEF Coherent
  <2> QED BY <2>1 DEF TypeOK, Runtime
<1>2. ASSUME NEW q \in Requests, CancelQueued(q) PROVE rt'.queue = Keep(rt.queue, OthersThan(q))
  BY <1>1, <1>2 DEF CancelQueued, OthersThan, Runtime
<1>a. r \in Requests
  <2>1. rt'.queue[k] \in Item
    BY <1>1
  <2> QED BY <2>1 DEF Item
<1>3. ASSUME CancelQueued(r) PROVE FALSE
  <2>1. r \in Requests
    BY <1>a
  <2>2. rt'.queue = Keep(rt.queue, OthersThan(r))
    BY <1>2, <1>3, <2>1
  <2> QED BY <1>1, <2>1, <2>2, OthersKept
<1>4. ASSUME NEW l \in DOMAIN rt.queue, rt.queue[l].req = r, IsPrompt(rt.queue[l]),
             PumpPops => l # 1
      PROVE  Goal
  BY <1>3, <1>4 DEF WasWaiting
<1> HIDE DEF Goal
<1>5. CASE PumpPops
  <2>1. rt'.queue = Tail(rt.queue) /\ rt.queue # <<>>
    BY <1>1, <1>5 DEF PumpPops, PumpMayPop, Runtime
  <2>2. k + 1 \in DOMAIN rt.queue /\ rt.queue[k + 1] = rt'.queue[k] /\ k + 1 # 1
    BY <1>1, <2>1
  <2>3. Goal
    BY <1>4, <2>2
  <2> QED BY <2>3 DEF Goal
<1>6. CASE ~PumpPops
  <2>1. ASSUME rt'.queue = rt.queue PROVE Goal
    BY <1>4, <1>6, <2>1
  <2>2. ASSUME NEW gen, rt'.queue = Restamped(rt.queue, gen) PROVE Goal
    <3>1. k \in DOMAIN rt.queue /\ rt'.queue[k] = [rt.queue[k] EXCEPT !.gen = gen]
      BY <2>2 DEF Restamped
    <3>2. rt.queue[k].req = r /\ rt'.queue[k].kind = rt.queue[k].kind
      BY <1>1, <3>1 DEF Item
    <3> QED BY <1>4, <1>6, <3>1, <3>2 DEF IsPrompt
  <2>3. ASSUME NEW q \in Requests, rt'.queue = Keep(rt.queue, OthersThan(q)) PROVE Goal
    <3>1. /\ Nth(OthersThan(q), k) \in DOMAIN rt.queue
          /\ rt'.queue[k] = rt.queue[Nth(OthersThan(q), k)]
      BY <1>1, <2>3, OthersKept
    <3> QED BY <1>4, <1>6, <3>1
  <2>4. ASSUME NEW item \in Item, rt'.queue = Append(rt.queue, item)
        PROVE  Goal \/ rt'.queue[k] = item
    <3>1. rt'.queue[k] = item \/ (k \in DOMAIN rt.queue /\ rt'.queue[k] = rt.queue[k])
      BY <1>1, <2>4
    <3> QED BY <1>4, <1>6, <3>1
  <2>5. ASSUME NEW q \in Requests, NEW item \in Item,
               Followup(q), Prompted(item, q), rt'.queue = Append(rt.queue, item)
        PROVE  Goal
    BY <2>4, <2>5 DEF Goal, Prompted
  <2>6. ASSUME NEW item \in Item, SessionCreated, Prompted(item, starter.req),
               rt'.queue = Append(rt.queue, item)
        PROVE  Goal
    BY <2>4, <2>6 DEF Goal, Prompted
  <2>7. ASSUME NEW item \in Item, Continuation(item), rt'.queue = Append(rt.queue, item)
        PROVE  Goal
    BY <2>4, <2>7 DEF Continuation, IsPrompt
  <2>8. ASSUME Restores PROVE Goal
    <3>1. PICK item \in Item, q \in Seq(Item) :
                 /\ Continuation(item) /\ rt'.queue = <<item>> \o q
                 /\ \A i \in DOMAIN q : i \in DOMAIN Unserved /\ q[i].req = Unserved[i]
      BY <2>8 DEF Restores
    <3>2. rt'.queue[k] = item \/ (k - 1 \in DOMAIN q /\ rt'.queue[k] = q[k - 1])
      BY <3>1
    <3>3. rt'.queue[k] # item
      BY <3>1 DEF Continuation, IsPrompt
    <3> QED BY <2>8, <3>1, <3>2, <3>3 DEF Goal, IsRestored
  <2>9. ASSUME NEW item \in Item, Continuation(item), rt'.queue = <<item>> \o rt.queue
        PROVE  Goal
    <3>1. rt'.queue[k] = item \/ (k - 1 \in DOMAIN rt.queue /\ rt'.queue[k] = rt.queue[k - 1])
      BY <1>1, <2>9
    <3>2. rt'.queue[k] # item
      BY <2>9 DEF Continuation, IsPrompt
    <3> QED BY <1>4, <1>6, <3>1, <3>2
  <2>10. rt'.queue # <<>>
    BY <1>1
  <2>11. Goal
    BY <1>6, <2>1, <2>2, <2>3, <2>5, <2>6, <2>7, <2>8, <2>9, <2>10, QueueMovesStep
       DEF QueueMoves
  <2> QED BY <2>11 DEF Goal
<1> QED BY <1>5, <1>6

WaitsAfter(r) == /\ work'[r].phase = "queued"
                 /\ work'[r].state = "cancelled" => job'.cancelled

\* A prompt that waited goes on waiting.
LEMMA WaitsOn ==
  ASSUME Orderly, [Next]_vars, ~starter'.late, NEW r, WasWaiting(r)
  PROVE  WaitsAfter(r)
<1>1. /\ Accountable /\ Coherent /\ TypeOK /\ rt.queue \in Seq(Item)
      /\ PromptsWait /\ PromptsOnce
      /\ \A t \in turns : work[t.item.req].phase # "queued"
  BY InTime DEF Orderly, TakenUp, Accountable, Coherent, TypeOK, Runtime
<1>2. PICK l \in DOMAIN rt.queue : /\ IsPrompt(rt.queue[l]) /\ rt.queue[l].req = r
                                   /\ PumpPops => l # 1
  BY DEF WasWaiting
<1>3. work[r].phase = "queued" /\ (work[r].state = "cancelled" => job.cancelled)
  BY <1>1, <1>2 DEF PromptsWait, RowWaits
<1>4. r \in Requests /\ Accepted(r)
  <2>1. rt.queue[l] \in Item
    BY <1>1
  <2> QED BY <1>2, <1>3, <2>1 DEF Item, Accepted
<1>5. PumpPops => Head(rt.queue).req # r
  <2>1. PumpPops => 1 \in DOMAIN rt.queue /\ 1 < l /\ Head(rt.queue) = rt.queue[1]
    BY <1>1, <1>2
  <2> QED BY <1>1, <1>2, <2>1 DEF PromptsOnce, FirstOfItsRequest
<1>6. \A q \in Requests : Followup(q) => q # r
  BY <1>1, <1>4, FollowupDoes
<1>7. work'[r].phase = "queued"
  <2>1. CASE PhasesKept
    BY <1>3, <1>4, <2>1 DEF PhasesKept
  <2>2. CASE PumpPops
    BY <1>1, <1>3, <1>4, <1>5, <2>2, PumpDoes
  <2>3. ASSUME NEW q \in Requests, Followup(q) PROVE work'[r].phase = "queued"
    BY <1>1, <1>3, <1>4, <1>6, <2>3, FollowupDoes
  <2>4. ASSUME NEW t \in turns, SendPrompt(t) \/ FinishApplied(t)
        PROVE  work'[r].phase = "queued"
    <3>1. job.request = t.item.req
      <4>1. ~Stale(t) /\ (starter.stage = "done" \/ t.out \in Marks)
        BY <2>4 DEF SendPrompt, FinishApplied
      <4>2. starter.stage = "done"
        BY <1>1, <4>1 DEF Accountable, SessionFirst
      <4>3. ~starter.late
        <5>1. ~SessionCreated
          BY <4>2 DEF SessionCreated
        <5> QED BY <1>1, <5>1, StarterStep
      <4> QED BY <1>1, <4>1, <4>2, <4>3 DEF Accountable, CurrentFirst, Undisturbed
    <3>2. job.request # r
      BY <1>1, <1>3, <3>1
    <3> QED BY <1>1, <1>3, <1>4, <2>4, <3>2, SendDoes, FinishAppliedDoes
  <2> QED BY <1>1, <2>1, <2>2, <2>3, <2>4, PhasesStep
<1>8. ASSUME work'[r].state = "cancelled" PROVE job'.cancelled
  <2>1. /\ job'.state = "cancelled" => job'.cancelled
        /\ job.cancelled => job'.cancelled
    BY <1>1, CancelledStays
  <2>2. CASE StatesKept
    BY <1>3, <1>4, <1>8, <2>1, <2>2 DEF StatesKept
  <2>3. CASE work' = work
    BY <1>3, <1>8, <2>1, <2>3
  <2>4. ASSUME NEW q \in Requests, Followup(q) PROVE job'.cancelled
    BY <1>1, <1>3, <1>4, <1>8, <2>1, <2>4, FollowupDoes
  <2>5. ASSUME NEW q \in Requests, CancelQueued(q) PROVE job'.cancelled
    <3>1. q # r /\ work' = [work EXCEPT ![q].state = "cancelled"]
      BY <2>5 DEF CancelQueued, WasWaiting
    <3>2. work'[r] = work[r]
      BY <1>1, <1>4, <3>1 DEF TypeOK
    <3> QED BY <1>3, <1>8, <2>1, <3>2
  <2> QED BY <1>1, <2>2, <2>3, <2>4, <2>5, StatesStep
<1> QED BY <1>7, <1>8 DEF WaitsAfter

\* PromptsWait is kept: Continue restores from the ledger, and a popped prompt
\* leaves the queue as its request turns to preparing.
LEMMA PromptsWaitStep ==
  ASSUME Orderly, [Next]_vars, ~starter'.late
  PROVE  PromptsWait'
<1>1. Accountable /\ Coherent /\ TypeOK /\ OrderOnce
  BY DEF Orderly, Accountable, Coherent
<1>2. job'.state = "cancelled" => job'.cancelled
  BY <1>1, CancelledStays
<1> SUFFICES ASSUME NEW k \in DOMAIN rt'.queue, IsPrompt(rt'.queue[k])
             PROVE  WaitsAfter(rt'.queue[k].req)
  BY DEF PromptsWait, RowWaits, WaitsAfter
<1> DEFINE r == rt'.queue[k].req
<1>3. CASE WasWaiting(r)
  BY <1>3, WaitsOn
<1>4. CASE IsRestored(r)
  <2>1. PICK i \in DOMAIN Unserved : r = Unserved[i]
    BY <1>4 DEF IsRestored
  <2>2. /\ r \in Requests /\ r # job.request /\ work[r].phase = "queued"
        /\ work[r].state # "cancelled"
    BY <1>1, <2>1, UnservedWaits
  <2>3. Continue
    BY <1>4 DEF IsRestored, Restores
  <2>4. JobIs("active", "", "", FALSE, job.request) /\ PhasesKept /\ StatesKept
    BY <1>1, <2>3, ContinueDoes
  <2> HIDE DEF r
  <2>5. work'[r].phase = "queued"
    BY <2>2, <2>4 DEF PhasesKept
  <2>6. work'[r].state = "cancelled" => job'.cancelled
    BY <2>2, <2>4 DEF StatesKept, JobIs
  <2>7. WaitsAfter(r)
    BY <2>5, <2>6 DEF WaitsAfter
  <2> QED BY <2>7 DEF r
<1>5. CASE r \in Requests /\ Followup(r)
  <2> HIDE DEF r
  <2>1. work'[r].phase = "queued"
    BY <1>1, <1>5, FollowupDoes
  <2>2. work'[r].state = "cancelled" => job'.cancelled
    BY <1>1, <1>2, <1>5, FollowupDoes
  <2>3. WaitsAfter(r)
    BY <2>1, <2>2 DEF WaitsAfter
  <2> QED BY <2>3 DEF r
<1>6. CASE SessionCreated /\ r = starter.req
  <2> HIDE DEF r
  <2>1. work[r].phase = "queued" /\ r \in Requests
    BY <1>1, <1>6, InTime DEF TypeOK
  <2>2. JobIs("active", "", "", FALSE, r) /\ PhasesKept /\ StatesKept
    BY <1>1, <1>6, StarterDoes
  <2>3. work'[r].phase = "queued"
    BY <2>1, <2>2 DEF PhasesKept
  <2>4. work'[r].state # "cancelled"
    BY <2>1, <2>2 DEF StatesKept, JobIs
  <2>5. WaitsAfter(r)
    BY <2>3, <2>4 DEF WaitsAfter
  <2> QED BY <2>5 DEF r
<1> QED BY <1>1, <1>3, <1>4, <1>5, <1>6, PromptCame

\* PromptsOnce is kept: Keep and the restored rows repeat no request.
LEMMA PromptsOnceStep ==
  ASSUME Orderly, [Next]_vars, ~starter'.late
  PROVE  PromptsOnce'
<1>1. /\ Accountable /\ Coherent /\ TypeOK /\ OrderOnce /\ rt.queue \in Seq(Item)
      /\ FirstOfItsRequest(rt.queue)
      /\ \A k \in DOMAIN rt.queue : IsPrompt(rt.queue[k]) =>
           \A t \in turns : t.item.req # rt.queue[k].req
  BY InTime DEF Orderly, Accountable, Coherent, TypeOK, Runtime, TakenUp, PromptsOnce,
     PromptsWait, RowWaits
<1>2. \A k \in DOMAIN rt.queue : Accepted(rt.queue[k].req) /\ rt.queue[k] \in Item
  <2>1. \A k \in DOMAIN rt.queue : rt.queue[k] \in FreshItem
    BY <1>1 DEF Coherent, QueueFresh
  <2> QED BY <2>1 DEF FreshItem
<1> DEFINE Goal == FirstOfItsRequest(rt'.queue)
<1>3. ASSUME rt'.queue = rt.queue PROVE Goal
  BY <1>1, <1>3
<1>4. ASSUME rt'.queue = <<>> PROVE Goal
  BY <1>4 DEF FirstOfItsRequest
<1>5. ASSUME NEW gen, rt'.queue = Restamped(rt.queue, gen) PROVE Goal
  <2>1. /\ DOMAIN rt'.queue = DOMAIN rt.queue
        /\ \A k \in DOMAIN rt.queue : /\ rt'.queue[k].req = rt.queue[k].req
                                      /\ rt'.queue[k].kind = rt.queue[k].kind
    BY <1>2, <1>5 DEF Restamped, Item
  <2> QED BY <1>1, <2>1 DEF FirstOfItsRequest, IsPrompt
<1>6. ASSUME NEW r \in Requests, rt'.queue = Keep(rt.queue, OthersThan(r)) PROVE Goal
  BY <1>1, <1>6, OthersKept DEF FirstOfItsRequest
<1>7. ASSUME NEW item \in Item, rt'.queue = Append(rt.queue, item),
             \/ ~IsPrompt(item)
             \/ \A k \in DOMAIN rt.queue : rt.queue[k].req # item.req
      PROVE  Goal
  <2>1. \A k \in DOMAIN rt'.queue : \/ k = Len(rt.queue) + 1 /\ rt'.queue[k] = item
                                    \/ k \in DOMAIN rt.queue /\ rt'.queue[k] = rt.queue[k]
    BY <1>1, <1>7
  <2>2. ASSUME NEW k \in DOMAIN rt'.queue, NEW l \in DOMAIN rt'.queue,
               l < k, IsPrompt(rt'.queue[k])
        PROVE  rt'.queue[l].req # rt'.queue[k].req
    <3>1. l \in DOMAIN rt.queue /\ rt'.queue[l] = rt.queue[l]
      BY <1>1, <1>7, <2>1, <2>2
    <3> QED BY <1>1, <1>7, <2>1, <2>2, <3>1 DEF FirstOfItsRequest
  <2> QED BY <2>2 DEF FirstOfItsRequest
<1>8. ASSUME NEW item, NEW q \in Seq(Item), rt'.queue = <<item>> \o q, ~IsPrompt(item),
             FirstOfItsRequest(q),
             \A k \in DOMAIN q : IsPrompt(q[k]) => q[k].req # item.req
      PROVE  Goal
  <2>1. \A k \in DOMAIN rt'.queue : \/ k = 1 /\ rt'.queue[k] = item
                                    \/ k - 1 \in DOMAIN q /\ rt'.queue[k] = q[k - 1]
    BY <1>8
  <2>2. ASSUME NEW k \in DOMAIN rt'.queue, NEW l \in DOMAIN rt'.queue,
               l < k, IsPrompt(rt'.queue[k])
        PROVE  rt'.queue[l].req # rt'.queue[k].req
    <3>1. k - 1 \in DOMAIN q /\ rt'.queue[k] = q[k - 1]
      BY <1>8, <2>1, <2>2
    <3>2. CASE l = 1 /\ rt'.queue[l] = item
      BY <1>8, <2>2, <3>1, <3>2
    <3>3. CASE l - 1 \in DOMAIN q /\ rt'.queue[l] = q[l - 1]
      <4>1. l - 1 < k - 1
        BY <1>8, <2>2
      <4> QED BY <1>8, <2>2, <3>1, <3>3, <4>1 DEF FirstOfItsRequest
    <3> QED BY <2>1, <3>2, <3>3
  <2> QED BY <2>2 DEF FirstOfItsRequest
<1>9. ASSUME NEW r \in Requests, NEW item \in Item, Followup(r), Prompted(item, r),
             rt'.queue = Append(rt.queue, item)
      PROVE  Goal
  <2>1. ~Accepted(r) /\ item.req = r
    BY <1>1, <1>9, FollowupDoes DEF Prompted
  <2> QED BY <1>2, <1>7, <1>9, <2>1
<1>10. ASSUME NEW item \in Item, SessionCreated, rt'.queue = Append(rt.queue, item) PROVE Goal
  <2>1. rt.queue = <<>>
    BY <1>10, InTime
  <2> QED BY <1>7, <1>10, <2>1
<1>11. ASSUME Restores PROVE Goal
  <2>1. PICK item \in Item, q \in Seq(Item) :
               /\ Continuation(item) /\ item.req = job.request /\ rt'.queue = <<item>> \o q
               /\ \A i \in DOMAIN q : i \in DOMAIN Unserved /\ q[i].req = Unserved[i]
    BY <1>11 DEF Restores
  <2>2. FirstOfItsRequest(q) /\ \A k \in DOMAIN q : q[k].req # item.req
    BY <1>1, <2>1, UnservedWaits DEF FirstOfItsRequest
  <2> QED BY <1>8, <2>1, <2>2 DEF Continuation, IsPrompt
<1>12. ASSUME rt.queue # <<>>, rt'.queue = Tail(rt.queue) PROVE Goal
  <2>1. \A k \in DOMAIN rt'.queue : k + 1 \in DOMAIN rt.queue /\ rt'.queue[k] = rt.queue[k + 1]
    BY <1>1, <1>12
  <2>2. DOMAIN rt'.queue \subseteq Nat
    BY <1>1, <1>12
  <2>3. ASSUME NEW k \in DOMAIN rt'.queue, NEW l \in DOMAIN rt'.queue,
               l < k, IsPrompt(rt'.queue[k])
        PROVE  rt'.queue[l].req # rt'.queue[k].req
    <3>1. l + 1 < k + 1
      BY <2>2, <2>3
    <3> QED BY <1>1, <2>1, <2>3, <3>1, Zenon DEF FirstOfItsRequest
  <2> QED BY <2>3 DEF FirstOfItsRequest
<1>13. ASSUME NEW t \in turns, NEW item \in Item, Continuation(item), item.req = t.item.req,
              rt'.queue = <<item>> \o rt.queue
       PROVE  Goal
  <2>1. ~IsPrompt(item)
    BY <1>13 DEF Continuation, IsPrompt
  <2>2. \A k \in DOMAIN rt.queue : IsPrompt(rt.queue[k]) => rt.queue[k].req # item.req
    BY <1>1, <1>13
  <2> QED BY <1>1, <1>8, <1>13, <2>1, <2>2
<1> HIDE DEF Goal
<1>14. ASSUME NEW item \in Item, Continuation(item), rt'.queue = Append(rt.queue, item)
       PROVE  Goal
  BY <1>7, <1>14 DEF Continuation, IsPrompt
<1>15. rt'.queue = rt.queue \/ QueueMoves
  BY <1>1, QueueMovesStep
<1>16. Goal
  BY <1>3, <1>4, <1>5, <1>6, <1>9, <1>10, <1>11, <1>12, <1>13, <1>14, <1>15 DEF QueueMoves
<1> QED BY <1>16 DEF Goal, PromptsOnce

\* Every step keeps Orderly.
LEMMA OrderlyStep == Orderly /\ [Next]_vars => Orderly'
BY AccountableStep, TakenUpStep, OrderOnceStep, PromptsWaitStep, PromptsOnceStep DEF Orderly

\* Whatever users do while the session is created, and unless it comes late, a
\* waiting prompt is queued in the ledger and waits once.
THEOREM LedgerMatched == Spec => []QueueMatchesLedger
<1>1. Orderly => QueueMatchesLedger
  <2> SUFFICES ASSUME Orderly, ~starter.late PROVE QueueMatchesLedger
    BY DEF QueueMatchesLedger
  <2>1. rt.queue \in Seq(Item)
    BY DEF Orderly, Accountable, Coherent, TypeOK, Runtime
  <2>2. \A k \in DOMAIN rt.queue : k \in Nat
    BY <2>1
  <2>3. \A k, l \in DOMAIN rt.queue : k # l => k < l \/ l < k
    BY <2>2
  <2>4. \A k, l \in DOMAIN rt.queue :
          l < k /\ IsPrompt(rt.queue[k]) => rt.queue[l].req # rt.queue[k].req
    BY DEF Orderly, PromptsOnce, FirstOfItsRequest
  <2>5. \A k \in DOMAIN rt.queue : IsPrompt(rt.queue[k]) => RowWaits(rt.queue[k].req)
    BY DEF Orderly, PromptsWait
  <2> QED BY <2>3, <2>4, <2>5 DEF QueueMatchesLedger, IsPrompt, RowWaits
<1>2. Orderly /\ [Next]_vars => Orderly'
  BY OrderlyStep
<1> QED BY <1>1, <1>2, OrderlyInit, PTL DEF Spec
=============================================================================
