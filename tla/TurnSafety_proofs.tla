------------------------- MODULE TurnSafety_proofs --------------------------
(***************************************************************************)
(* Safety of the coordinator for every set of requests and every bound:    *)
(* one turn at a time, a queue without left-behind items, "completed" only *)
(* when drained, silence of revoked turns, and the refinement of           *)
(* TurnService.  All rest on one inductive invariant, Coherent, which says *)
(* how the runtime, the turns in flight, the queue and the ledger agree.   *)
(***************************************************************************)
EXTENDS TurnQueue_proofs

-----------------------------------------------------------------------------
(* The inductive invariant.                                                *)

\* Items the pump may hand to a turn now: of the current generation, for a
\* request the ledger knows.
FreshItem == {i \in Item : i.gen = rt.gen /\ Accepted(i.req)}
QueueFresh == rt.queue \in Seq(FreshItem)

\* Whoever can enqueue work names a request the ledger knows.
SourcesAccepted == /\ Accepted(job.request) /\ Accepted(starter.req)
                   /\ \A t \in turns : Accepted(t.item.req)

\* The history variable names turns in flight, and what it names is stale.
RevokedIsStale ==
  /\ revoked \subseteq InFlight
  /\ \A t \in turns : /\ t.item.gen <= rt.gen
                      /\ t.id \in revoked => Stale(t)

Coherent == /\ TypeOK /\ SingleTurn /\ QueueFresh /\ SourcesAccepted
            /\ RevokedIsStale /\ CompletedMeansDrained

-----------------------------------------------------------------------------
(* What a step does to the ledger: only Followup takes a request on.       *)

AcceptedSet == {r \in Requests : Accepted(r)}

\* A write of the job row that carries no phase leaves the phases alone.
LEMMA SaveKeepsPhases ==
  ASSUME NEW j, Save(j)
  PROVE  AcceptedSet' = AcceptedSet
<1>1. \A r \in Requests : work'[r].phase = work[r].phase
  BY DEF Save, SavedWork
<1> QED BY <1>1 DEF AcceptedSet, Accepted

\* One that carries a phase moves the phase of a request taken on before.
LEMMA SavePhaseKeepsAccepted ==
  ASSUME NEW j, NEW phase, phase # "", SavePhase(j, phase), Accepted(j.request)
  PROVE  AcceptedSet' = AcceptedSet
<1>1. \A r \in Requests : work'[r].phase = IF r = j.request THEN phase
                                           ELSE work[r].phase
  BY DEF SavePhase, SavedWork
<1> QED BY <1>1 DEF AcceptedSet, Accepted

\* Every step but Followup leaves the set of accepted requests as it is, and
\* Followup adds its own.
LEMMA LedgerStep ==
  ASSUME Coherent, [Next]_vars
  PROVE  \/ AcceptedSet' = AcceptedSet
         \/ \E r \in Requests : /\ Followup(r) /\ ~Accepted(r)
                                /\ AcceptedSet' = AcceptedSet \cup {r}
<1> DEFINE Same == AcceptedSet' = AcceptedSet
<1>0. work' = work => Same
  BY DEF AcceptedSet, Accepted
<1>1. ASSUME Session PROVE Same
  BY <1>0, <1>1, SaveKeepsPhases
     DEF Session, StartJob, SessionFailed, SessionCreated, SessionSuperseded
<1>2. ASSUME NEW r \in Requests, Followup(r)
      PROVE  ~Accepted(r) /\ AcceptedSet' = AcceptedSet \cup {r}
  <2>1. \A q \in Requests : work'[q].phase = Inserted(work, r)[q].phase
    BY <1>2 DEF Followup, SavedWork
  <2>2. ~Accepted(r) /\ work \in [Requests -> Row]
    BY <1>2 DEF Followup, Coherent, TypeOK
  <2>3. Inserted(work, r) = [work EXCEPT ![r] = [phase |-> "queued", state |-> "queued"]]
    BY <2>2 DEF Inserted, Accepted
  <2>4. \A q \in Requests : work'[q].phase = IF q = r THEN "queued"
                                             ELSE work[q].phase
    BY <2>1, <2>2, <2>3
  <2> QED BY <2>2, <2>4 DEF AcceptedSet, Accepted
<1>3. ASSUME Continue PROVE Same
  BY <1>3, SaveKeepsPhases DEF Continue
<1>4. ASSUME NEW r \in Requests, CancelQueued(r) PROVE Same
  <2>1. \A q \in Requests : work'[q].phase = work[q].phase
    BY <1>4 DEF CancelQueued, Coherent, TypeOK, Row
  <2> QED BY <2>1 DEF AcceptedSet, Accepted
<1>5. ASSUME PumpPops PROVE Same
  <2>1. Head(rt.queue) \in FreshItem
    BY <1>5, HeadTailProperties DEF PumpPops, PumpMayPop, Coherent, QueueFresh
  <2>2. Accepted(Head(rt.queue).req)
    BY <2>1 DEF FreshItem
  <2>3. SavePhase([job EXCEPT !.request = Head(rt.queue).req, !.state = "active",
                              !.pause = ""], "preparing")
    BY <1>5 DEF PumpPops
  <2>4. [job EXCEPT !.request = Head(rt.queue).req, !.state = "active",
                    !.pause = ""].request = Head(rt.queue).req
    BY DEF Coherent, TypeOK, Job
  <2> QED BY <2>2, <2>3, <2>4, SavePhaseKeepsAccepted
<1>6. ASSUME NEW t \in turns, Preparing(t) PROVE Same
  <2>1. SavePhase(job, "sent") => Same
    BY SavePhaseKeepsAccepted DEF Coherent, SourcesAccepted
  <2> QED BY <1>0, <1>6, <2>1 DEF Preparing, PrepareFails, SendPrompt, DropStale
<1>7. ASSUME NEW t \in turns, Finish(t) PROVE Same
  <2>1. CASE FinishNothing(t) \/ FinishLost(t) \/ FinishFailed(t)
    <3>1. work' = work \/ \E j : Save(j)
      BY <2>1, Zenon DEF FinishNothing, FinishLost, FinishFailed
    <3> QED BY <1>0, <3>1, SaveKeepsPhases
  <2>2. CASE FinishApplied(t)
    <3> DEFINE j == [job EXCEPT
                       !.state = StateAfter(MarkState(t.out)),
                       !.pause = IF t.out = "unmarked" THEN "review_required" ELSE "",
                       !.delivery = Confirmed(@)]
    <3>1. work' = [SavedWork(work, j, "returned") EXCEPT
                     ![t.item.req].state = MarkState(t.out)]
      BY <2>2, Zenon DEF FinishApplied
    <3>2. j.request = job.request
      BY DEF Coherent, TypeOK, Job
    <3> HIDE DEF j
    <3>3. \A r \in Requests : work'[r].phase = IF r = job.request THEN "returned"
                                               ELSE work[r].phase
      BY <3>1, <3>2 DEF SavedWork
    <3> QED BY <3>3 DEF AcceptedSet, Accepted, Coherent, SourcesAccepted
  <2> QED BY <1>7, <2>1, <2>2 DEF Finish
<1>8. ASSUME Agent PROVE Same
  <2>1. ASSUME NEW t \in turns, NEW out \in Outcomes, PromptReturns(t, out) PROVE Same
    BY <1>0, <2>1 DEF PromptReturns
  <2>2. ASSUME NEW t \in turns, NEW pause \in Pauses, OnApproval(t, pause) PROVE Same
    BY <2>2, SaveKeepsPhases, Zenon DEF OnApproval
  <2>3. ASSUME AskDropped PROVE Same
    BY <1>0, <2>3 DEF AskDropped
  <2> QED BY <1>6, <1>7, <1>8, <2>1, <2>2, <2>3 DEF Agent
<1>9. ASSUME Settling PROVE Same
  <2>1. ASSUME ListJobs \/ Disconnect PROVE Same
    BY <1>0, <2>1, SaveKeepsPhases, Zenon DEF ListJobs, Disconnect
  <2>2. ASSUME NEW d \in deciders, PlanDecided(d) PROVE Same
    BY <1>0, <2>2, SaveKeepsPhases, Zenon DEF PlanDecided
  <2>3. ASSUME NEW d \in deciders, NEW res \in {"ok", "err"}, ResolveApproval(d, res)
        PROVE  Same
    BY <1>0, <2>3 DEF ResolveApproval
  <2>4. ASSUME NEW c \in cancels, CancelBegin(c) PROVE Same
    BY <2>4, SaveKeepsPhases, Zenon DEF CancelBegin
  <2>5. ASSUME NEW c \in cancels, CancelRefused(c) PROVE Same
    BY <1>0, <2>5 DEF CancelRefused
  <2>6. ASSUME NEW c \in cancels, NEW ok \in BOOLEAN, CancelDelivered(c, ok) PROVE Same
    BY <1>0, <2>6, SaveKeepsPhases, Zenon DEF CancelDelivered
  <2> QED BY <1>9, <2>1, <2>2, <2>3, <2>4, <2>5, <2>6 DEF Settling
<1>10. ASSUME Faults PROVE Same
  BY <1>0, <1>10, SaveKeepsPhases DEF Faults, ConnectionLost, Restart
<1>11. ASSUME Users PROVE Same \/ \E r \in Requests : Followup(r)
  <2>1. ASSUME NEW d \in Decision, PlanDecide(d) PROVE Same
    BY <2>1, SaveKeepsPhases, Zenon DEF PlanDecide
  <2>2. ASSUME NEW r \in Requests \cup {NoRequest}, NEW turn \in {0, rt.turn},
               CancelChecked(r, turn)
        PROVE  Same
    BY <1>0, <2>2 DEF CancelChecked
  <2> QED BY <1>3, <1>4, <1>11, <2>1, <2>2 DEF Users
<1>12. PumpSkips \/ UNCHANGED vars => Same
  BY <1>0 DEF PumpSkips, vars
<1> QED BY <1>1, <1>2, <1>5, <1>8, <1>9, <1>10, <1>11, <1>12 DEF Next
-----------------------------------------------------------------------------
(* What a step does to the turn in flight.                                 *)

\* The runtime's idea of the turn and the turn itself stay as they are.
SameTurn == /\ turns' = turns
            /\ rt'.busy = rt.busy /\ rt'.turn = rt.turn /\ rt'.req = rt.req

\* Turns advance: each has its counterpart, for the same item.
Advance == /\ rt' = rt /\ job'.state = job.state /\ revoked' = revoked
           /\ \A t \in turns : \E u \in turns' : u.id = t.id /\ u.item = t.item
           /\ \A u \in turns' : \E t \in turns : u.id = t.id /\ u.item = t.item
           /\ \A t \in turns : turns = {t} => \E u : turns' = {u}

LEMMA MovedAdvances ==
  ASSUME TypeOK, NEW t \in turns, NEW stage, NEW out, Moved(t, stage, out)
  PROVE  /\ \A a \in turns : \E u \in turns' : u.id = a.id /\ u.item = a.item
         /\ \A u \in turns' : \E a \in turns : u.id = a.id /\ u.item = a.item
         /\ \A a \in turns : turns = {a} => \E u : turns' = {u}
<1> DEFINE moved == [t EXCEPT !.stage = stage, !.out = out]
<1>1. moved.id = t.id /\ moved.item = t.item
  BY DEF TypeOK, Turn
<1>2. turns' = (turns \ {t}) \cup {moved}
  BY DEF Moved
<1> HIDE DEF moved
<1>3. ASSUME NEW a \in turns, turns = {a} PROVE turns' = {moved}
  BY <1>2, <1>3, Zenon
<1> QED BY <1>1, <1>2, <1>3, Zenon

LEMMA SaveKeepsState ==
  ASSUME TypeOK, NEW j \in Job
  PROVE  /\ Save(j) => job'.state = j.state
         /\ \A phase \in Phases : SavePhase(j, phase) => job'.state = j.state
BY DEF Save, SavePhase, SavedJob, Job

\* A lost connection ends the prompt of the turn in flight, not the turn.
LEMMA LostAdvances ==
  ASSUME TypeOK, ConnectionLost
  PROVE  Advance
<1> DEFINE cut(t) == IF t.stage = "sent"
                     THEN [t EXCEPT !.stage = "returned",
                                    !.out = IF Stale(t) THEN "nil" ELSE "lost"]
                     ELSE t
<1>1. turns' = {cut(t) : t \in turns}
  BY DEF ConnectionLost
<1>2. \A t \in turns : cut(t).id = t.id /\ cut(t).item = t.item
  BY DEF TypeOK, Turn
<1>3. rt' = rt /\ job' = job /\ revoked' = revoked
  BY DEF ConnectionLost
<1> HIDE DEF cut
<1>4. ASSUME NEW t \in turns, turns = {t} PROVE turns' = {cut(t)}
  BY <1>1, <1>4
<1> QED BY <1>1, <1>2, <1>3, <1>4 DEF Advance

\* So does a step of the pump goroutine up to the return of its prompt.
LEMMA RunAdvances ==
  ASSUME TypeOK, NEW t \in turns
  PROVE  /\ Preparing(t) => Advance
         /\ \A out \in Outcomes : PromptReturns(t, out) => Advance
<1>1. ASSUME NEW out \in Outcomes, PrepareFails(t, out) PROVE Advance
  BY <1>1, MovedAdvances DEF PrepareFails, Advance
<1>2. ASSUME SendPrompt(t) PROVE Advance
  <2>1. job'.state = job.state
    <3>1. job \in Job /\ "sent" \in Phases
      BY DEF TypeOK, Phases
    <3> QED BY <1>2, <3>1, SaveKeepsState DEF SendPrompt
  <2> QED BY <1>2, <2>1, MovedAdvances DEF SendPrompt, Advance
<1>3. ASSUME DropStale(t) PROVE Advance
  BY <1>3, MovedAdvances DEF DropStale, Advance
<1>4. ASSUME NEW out \in Outcomes, PromptReturns(t, out) PROVE Advance
  BY <1>4, MovedAdvances DEF PromptReturns, Advance
<1>5. {"nil", "lost", "refused"} \in SUBSET Outcomes
  BY DEF Outcomes
<1> QED BY <1>1, <1>2, <1>3, <1>4, <1>5 DEF Preparing

\* Every step is of one of five kinds.
LEMMA TurnStep ==
  ASSUME TypeOK, [Next]_vars
  PROVE  \/ SameTurn
         \/ Advance
         \/ PumpPops
         \/ \E t \in turns : Finish(t)
         \/ Restart
<1>0. UNCHANGED <<turns, rt>> => SameTurn
  BY DEF SameTurn
<1>1. ASSUME Session PROVE SameTurn
  BY <1>1 DEF Session, StartJob, SessionFailed, SessionCreated,
     SessionSuperseded, SameTurn, TypeOK, Runtime
<1>2. ASSUME Users PROVE SameTurn
  <2>1. ASSUME NEW r \in Requests, Followup(r) PROVE SameTurn
    BY <2>1 DEF Followup, SameTurn, TypeOK, Runtime
  <2>2. ASSUME NEW r \in Requests, CancelQueued(r) PROVE SameTurn
    BY <2>2 DEF CancelQueued, SameTurn, TypeOK, Runtime
  <2>3. ASSUME Continue PROVE SameTurn
    BY <2>3 DEF Continue, SameTurn, TypeOK, Runtime
  <2>4. ASSUME NEW r \in Requests \cup {NoRequest}, NEW turn \in {0, rt.turn},
               CancelChecked(r, turn)
        PROVE  SameTurn
    BY <1>0, <2>4 DEF CancelChecked
  <2>5. ASSUME NEW d \in Decision, PlanDecide(d) PROVE SameTurn
    BY <1>0, <2>5 DEF PlanDecide
  <2> QED BY <1>2, <2>1, <2>2, <2>3, <2>4, <2>5 DEF Users
<1>3. PumpSkips \/ UNCHANGED vars => SameTurn
  BY <1>0 DEF PumpSkips, vars
<1>4. ASSUME Agent PROVE SameTurn \/ Advance \/ \E t \in turns : Finish(t)
  <2>1. ASSUME NEW t \in turns, NEW pause \in Pauses, OnApproval(t, pause) PROVE SameTurn
    BY <1>0, <2>1 DEF OnApproval
  <2>2. ASSUME AskDropped PROVE SameTurn
    BY <1>0, <2>2 DEF AskDropped
  <2> QED BY <1>4, <2>1, <2>2, RunAdvances DEF Agent
<1>5. ASSUME Settling PROVE SameTurn
  <2>1. ASSUME ListJobs \/ Disconnect PROVE SameTurn
    BY <2>1 DEF ListJobs, Disconnect, DisconnectedRt, SameTurn, TypeOK, Runtime
  <2>2. ASSUME NEW d \in deciders, PlanDecided(d) PROVE SameTurn
    BY <2>2 DEF PlanDecided, DisconnectedRt, SameTurn, TypeOK, Runtime
  <2>3. ASSUME NEW d \in deciders, NEW res \in {"ok", "err"}, ResolveApproval(d, res)
        PROVE  SameTurn
    BY <1>0, <2>3 DEF ResolveApproval
  <2>4. ASSUME NEW c \in cancels, CancelBegin(c) PROVE SameTurn
    BY <2>4 DEF CancelBegin, SameTurn, TypeOK, Runtime
  <2>5. ASSUME NEW c \in cancels, CancelRefused(c) PROVE SameTurn
    BY <1>0, <2>5 DEF CancelRefused
  <2>6. ASSUME NEW c \in cancels, NEW ok \in BOOLEAN, CancelDelivered(c, ok) PROVE SameTurn
    BY <2>6 DEF CancelDelivered, Uncontrolled, SameTurn, TypeOK, Runtime
  <2> QED BY <1>5, <2>1, <2>2, <2>3, <2>4, <2>5, <2>6 DEF Settling
<1> QED BY <1>1, <1>2, <1>3, <1>4, <1>5, LostAdvances DEF Next, Faults

\* The turn that finishes was the only one.
LEMMA FinishLeavesNone ==
  ASSUME TypeOK, SingleTurn, NEW t \in turns, Finish(t)
  PROVE  turns = {t} /\ turns' = {} /\ revoked' = revoked \ {t.id} /\ rt'.busy = FALSE
<1>1. turns = {t}
  BY DEF SingleTurn
<1>2. turns' = turns \ {t} /\ revoked' = revoked \ {t.id}
  BY DEF Finish, FinishNothing, FinishLost, FinishFailed, FinishApplied, Finishes
<1>3. rt'.busy = FALSE
  <2>1. Released \in Runtime /\ Released.busy = FALSE
    BY ReleasedType DEF Released, TypeOK, Runtime
  <2>2. DisconnectedRt(Released).busy = FALSE
    BY <2>1 DEF DisconnectedRt, Runtime
  <2>3. FinishNothing(t) \/ FinishFailed(t) => rt' = Released
    BY DEF FinishNothing, FinishFailed
  <2>4. FinishLost(t) => rt' = DisconnectedRt(Released)
    BY DEF FinishLost
  <2>5. FinishApplied(t) => \/ rt' = Released
                            \/ \E q : rt' = [Released EXCEPT !.queue = q]
    BY Zenon DEF FinishApplied
  <2> QED BY <2>1, <2>2, <2>3, <2>4, <2>5 DEF Finish, Runtime
<1> QED BY <1>1, <1>2, <1>3

\* One turn at a time: the pump starts one only when none is in flight.
LEMMA SingleTurnStep ==
  ASSUME TypeOK, SingleTurn, [Next]_vars
  PROVE  SingleTurn'
<1>1. CASE SameTurn
  BY <1>1 DEF SameTurn, SingleTurn
<1>2. CASE Advance
  <2>1. \A t, u \in turns' : t = u
    BY <1>2, Zenon DEF Advance, SingleTurn
  <2> QED BY <1>2, <2>1 DEF Advance, SingleTurn
<1>3. CASE PumpPops
  <2> DEFINE t == [id |-> issued + 1, item |-> Head(rt.queue),
                   stage |-> "loading", out |-> "none", seen |-> job.delivery]
  <2>1. turns = {} /\ turns' = turns \cup {t}
    BY <1>3 DEF PumpPops, PumpMayPop, SingleTurn
  <2>2. rt'.busy = TRUE /\ rt'.turn = issued + 1 /\ rt'.req = Head(rt.queue).req
    BY <1>3 DEF PumpPops, TypeOK, Runtime
  <2>3. t.id = issued + 1 /\ t.item = Head(rt.queue)
    OBVIOUS
  <2> HIDE DEF t
  <2> QED BY <2>1, <2>2, <2>3 DEF SingleTurn
<1>4. ASSUME NEW t \in turns, Finish(t) PROVE SingleTurn'
  <2>1. turns' = {} /\ rt'.busy = FALSE
    BY <1>4, FinishLeavesNone
  <2>2. rt'.busy <=> turns' # {}
    BY <2>1
  <2>3. \A a, b \in turns' : a = b
    BY <2>1
  <2>4. \A a \in turns' : a.id = rt'.turn /\ a.item.req = rt'.req
    BY <2>1
  <2> QED BY <2>2, <2>3, <2>4, Zenon DEF SingleTurn
<1>5. CASE Restart
  BY <1>5 DEF Restart, IdleRuntime, SingleTurn
<1> QED BY <1>1, <1>2, <1>3, <1>4, <1>5, TurnStep

-----------------------------------------------------------------------------
(* What a step does to the queue.                                          *)

\* Restored requests are requests the ledger calls queued.
LEMMA UnservedAccepted ==
  ASSUME TypeOK
  PROVE  Unserved \in Seq(Requests) /\ \A i \in DOMAIN Unserved : Accepted(Unserved[i])
<1> DEFINE waiting == {k \in DOMAIN order : /\ work[order[k]].phase = "queued"
                                            /\ work[order[k]].state # "cancelled"
                                            /\ order[k] # job.request}
<1>1. waiting \in SUBSET DOMAIN order /\ order \in Seq(Requests)
  BY DEF TypeOK
<1>2. /\ Keep(order, waiting) \in Seq(Requests)
      /\ Len(Keep(order, waiting)) = Cardinality(waiting)
      /\ \A i \in 1 .. Cardinality(waiting) :
           \E k \in waiting : Keep(order, waiting)[i] = order[k]
  <2> HIDE DEF waiting
  <2> QED BY <1>1, KeepSelects
<1>3. \A k \in waiting : Accepted(order[k])
  BY DEF Accepted
<1>4. Unserved = Keep(order, waiting)
  BY DEF Unserved
<1> HIDE DEF waiting
<1>5. DOMAIN Unserved = 1 .. Cardinality(waiting)
  BY <1>2, <1>4
<1> QED BY <1>2, <1>3, <1>4, <1>5

\* The queue holds fresh items after a step that leaves the queue and the
\* generation alone, since accepted requests stay accepted.
LEMMA QuietQueue ==
  ASSUME Coherent, [Next]_vars, rt'.queue = rt.queue, rt'.gen = rt.gen
  PROVE  QueueFresh'
<1>1. \A r \in Requests : Accepted(r) => Accepted(r)'
  BY LedgerStep DEF AcceptedSet
<1>2. FreshItem \subseteq FreshItem'
  BY <1>1 DEF FreshItem, Item
<1>3. Seq(FreshItem) \subseteq Seq(FreshItem')
  BY <1>2
<1> QED BY <1>3 DEF QueueFresh, Coherent

\* Items of the present generation for accepted requests.
LEMMA EnqueueFresh ==
  ASSUME Coherent, [Next]_vars, rt'.gen = rt.gen
  PROVE  /\ rt.queue \in Seq(FreshItem')
         /\ \A i \in Item : i.gen = rt.gen /\ Accepted(i.req) => i \in FreshItem'
<1>1. \A r \in Requests : Accepted(r) => Accepted(r)'
  BY LedgerStep DEF AcceptedSet
<1>2. FreshItem \subseteq FreshItem'
  BY <1>1 DEF FreshItem, Item
<1>3. \A i \in Item : i.gen = rt.gen /\ Accepted(i.req) => i \in FreshItem
  BY DEF FreshItem
<1> QED BY <1>2, <1>3 DEF QueueFresh, Coherent

\* No step leaves an item of a passed generation, or of an unknown request,
\* in the queue.
LEMMA QueueStep ==
  ASSUME Coherent, [Next]_vars
  PROVE  QueueFresh'
<1>0. rt' = rt => QueueFresh'
  BY QuietQueue
<1>a. rt'.queue = <<>> => QueueFresh'
  BY EmptySeq DEF QueueFresh
<1>b. rt \in Runtime /\ rt.queue \in Seq(FreshItem)
  BY DEF Coherent, TypeOK, QueueFresh
<1>1. CASE Session
  <2>1. CASE SessionCreated
    <3> DEFINE item == [req |-> starter.req, kind |-> "plan", connect |-> FALSE,
                        text |-> "prompt", gen |-> rt.gen]
    <3>1. rt' = [rt EXCEPT !.queue = Append(@, item)]
      BY <2>1 DEF SessionCreated
    <3>2. item \in Item /\ item.gen = rt.gen /\ Accepted(item.req)
      BY DEF Coherent, TypeOK, Runtime, Item, SourcesAccepted
    <3> HIDE DEF item
    <3>3. rt'.gen = rt.gen /\ rt'.queue = Append(rt.queue, item)
      BY <1>b, <3>1 DEF Runtime
    <3>4. rt.queue \in Seq(FreshItem') /\ item \in FreshItem'
      BY <3>2, <3>3, EnqueueFresh
    <3> QED BY <3>3, <3>4 DEF QueueFresh
  <2> QED BY <1>0, <1>1, <2>1 DEF Session, StartJob, SessionFailed, SessionSuperseded
<1>2. CASE Users
  <2>1. ASSUME NEW r \in Requests, Followup(r) PROVE QueueFresh'
    <3> DEFINE item == [req |-> r, kind |-> "followup", connect |-> TRUE,
                        text |-> "prompt", gen |-> rt.gen]
    <3>1. rt' = [rt EXCEPT !.queue = Pushed(@, item)]
      BY <2>1 DEF Followup
    <3>2. item \in Item /\ item.gen = rt.gen /\ item.req = r
      BY <1>b DEF Runtime, Item
    <3> HIDE DEF item
    <3>3. rt'.gen = rt.gen /\ rt'.queue = Pushed(rt.queue, item)
      BY <1>b, <3>1 DEF Runtime
    <3>4. work'[r].phase = "queued"
      <4>1. work'[r].phase = Inserted(work, r)[r].phase
        BY <2>1 DEF Followup, SavedWork
      <4> QED BY <2>1, <4>1 DEF Inserted, Followup, Accepted, Coherent, TypeOK
    <3>5. item \in FreshItem'
      BY <3>2, <3>3, <3>4 DEF FreshItem, Accepted
    <3>6. rt.queue \in Seq(FreshItem')
      BY <3>3, EnqueueFresh
    <3> QED BY <3>3, <3>5, <3>6, PushedType DEF QueueFresh
  <2>2. ASSUME NEW r \in Requests, CancelQueued(r) PROVE QueueFresh'
    <3> DEFINE K == {k \in DOMAIN rt.queue : rt.queue[k].req # r}
    <3>1. rt' = [rt EXCEPT !.queue = Keep(@, K)]
      BY <2>2 DEF CancelQueued
    <3>2. K \in SUBSET DOMAIN rt.queue
      OBVIOUS
    <3> HIDE DEF K
    <3>3. rt'.gen = rt.gen /\ rt'.queue = Keep(rt.queue, K)
      BY <1>b, <3>1 DEF Runtime
    <3>4. rt.queue \in Seq(FreshItem')
      BY <3>3, EnqueueFresh
    <3> QED BY <3>2, <3>3, <3>4, KeepSelects DEF QueueFresh
  <2>3. ASSUME Continue PROVE QueueFresh'
    <3> DEFINE text == IF work[job.request].phase \in {"queued", "preparing"}
                       THEN "prompt" ELSE "resume"
               item == [req |-> job.request, kind |-> "continue", connect |-> TRUE,
                        text |-> text, gen |-> rt.gen]
               old(i) == [req |-> Unserved[i], kind |-> "followup",
                          connect |-> TRUE, text |-> "prompt", gen |-> rt.gen]
               restored == IF rt.queue = <<>> /\ (~rt.busy \/ rt.cancelledTurn)
                           THEN [i \in DOMAIN Unserved |-> old(i)] ELSE <<>>
    <3>1. rt' = [rt EXCEPT !.queue = Pushed(@, item) \o restored]
      BY <2>3 DEF Continue
    <3>2. item \in Item /\ item.gen = rt.gen /\ Accepted(item.req)
      BY DEF Coherent, TypeOK, Runtime, Item, Job, SourcesAccepted
    <3>3. /\ Unserved \in Seq(Requests)
          /\ \A i \in DOMAIN Unserved : Accepted(Unserved[i])
      BY UnservedAccepted DEF Coherent
    <3>4. \A i \in DOMAIN Unserved :
            old(i) \in Item /\ old(i).gen = rt.gen /\ Accepted(old(i).req)
      BY <1>b, <3>3 DEF Item, Runtime
    <3> HIDE DEF item, old
    <3>5. rt'.gen = rt.gen /\ rt'.queue = Pushed(rt.queue, item) \o restored
      BY <1>b, <3>1 DEF Runtime
    <3>6. /\ rt.queue \in Seq(FreshItem') /\ item \in FreshItem'
          /\ \A i \in DOMAIN Unserved : old(i) \in FreshItem'
      BY <3>2, <3>4, <3>5, EnqueueFresh
    <3>7. restored \in Seq(FreshItem')
      BY <3>3, <3>6, EmptySeq
    <3> HIDE DEF restored
    <3> QED BY <3>5, <3>6, <3>7, PushedType, ConcatProperties DEF QueueFresh
  <2>4. ASSUME NEW r \in Requests \cup {NoRequest}, NEW turn \in {0, rt.turn},
               CancelChecked(r, turn)
        PROVE  rt' = rt
    BY <2>4 DEF CancelChecked
  <2>5. ASSUME NEW d \in Decision, PlanDecide(d) PROVE rt' = rt
    BY <2>5 DEF PlanDecide
  <2> QED BY <1>0, <1>2, <2>1, <2>2, <2>3, <2>4, <2>5 DEF Users
<1>3. CASE PumpPops
  <2>1. rt'.queue = Tail(rt.queue) /\ rt'.gen = rt.gen /\ rt.queue # <<>>
    BY <1>3, <1>b DEF PumpPops, PumpMayPop, Runtime
  <2>2. rt.queue \in Seq(FreshItem')
    BY <2>1, EnqueueFresh
  <2> QED BY <2>1, <2>2, HeadTailProperties DEF QueueFresh
<1>4. ASSUME NEW t \in turns, Finish(t) PROVE QueueFresh'
  <2>1. Released.queue = rt.queue /\ Released.gen = rt.gen /\ Released \in Runtime
    BY <1>b, ReleasedType DEF Released, Runtime, Coherent
  <2>2. CASE FinishNothing(t) \/ FinishFailed(t)
    BY <2>1, <2>2, QuietQueue DEF FinishNothing, FinishFailed
  <2>3. CASE FinishLost(t)
    BY <1>a, <2>1, <2>3 DEF FinishLost, DisconnectedRt, Runtime
  <2>4. CASE FinishApplied(t)
    <3> DEFINE again == [req |-> t.item.req, kind |-> "continue", connect |-> FALSE,
                         text |-> "resume", gen |-> rt.gen]
    <3>1. \/ rt' = Released
          \/ rt' = [Released EXCEPT !.queue = Pushed(@, again)]
      BY <2>4, Zenon DEF FinishApplied
    <3>2. again \in Item /\ again.gen = rt.gen /\ Accepted(again.req)
      BY <1>b DEF Coherent, TypeOK, Turn, Runtime, Item, SourcesAccepted
    <3> HIDE DEF again
    <3>3. rt'.gen = rt.gen /\ rt'.queue \in {rt.queue, Pushed(rt.queue, again)}
      BY <2>1, <3>1 DEF Runtime
    <3>4. rt.queue \in Seq(FreshItem') /\ again \in FreshItem'
      BY <3>2, <3>3, EnqueueFresh
    <3> QED BY <3>3, <3>4, PushedType DEF QueueFresh
  <2> QED BY <1>4, <2>2, <2>3, <2>4 DEF Finish
<1>6. CASE Restart
  <2>1. rt' = IdleRuntime
    BY <1>6 DEF Restart
  <2>2. IdleRuntime.queue = <<>>
    BY DEF IdleRuntime
  <2> QED BY <1>a, <2>1, <2>2
<1>5. CASE Settling
  <2>1. DisconnectedRt(rt).queue = <<>>
    BY <1>b DEF DisconnectedRt, Runtime
  <2>2. ASSUME ListJobs \/ Disconnect PROVE QueueFresh'
    BY <1>0, <1>a, <2>1, <2>2 DEF ListJobs, Disconnect
  <2>3. ASSUME NEW d \in deciders, PlanDecided(d) PROVE QueueFresh'
    BY <1>0, <1>a, <2>1, <2>3, Zenon DEF PlanDecided
  <2>4. ASSUME NEW d \in deciders, NEW res \in {"ok", "err"}, ResolveApproval(d, res)
        PROVE  rt' = rt
    BY <2>4 DEF ResolveApproval
  <2>5. ASSUME NEW c \in cancels, CancelBegin(c) PROVE QueueFresh'
    <3>1. rt'.gen = rt.gen + 1 /\ rt'.queue = Restamped(rt.queue, rt.gen + 1)
      BY <1>b, <2>5 DEF CancelBegin, Runtime
    <3>2. \A r \in Requests : Accepted(r) => Accepted(r)'
      BY LedgerStep DEF AcceptedSet
    <3>3. ASSUME NEW i \in FreshItem PROVE [i EXCEPT !.gen = rt.gen + 1] \in FreshItem'
      <4>1. rt.gen + 1 \in Nat /\ i \in Item /\ Accepted(i.req)
        BY <1>b DEF FreshItem, Runtime
      <4>2. /\ [i EXCEPT !.gen = rt.gen + 1] \in Item
            /\ [i EXCEPT !.gen = rt.gen + 1].gen = rt.gen + 1
            /\ [i EXCEPT !.gen = rt.gen + 1].req = i.req /\ i.req \in Requests
        BY <4>1 DEF Item
      <4> QED BY <3>1, <3>2, <4>1, <4>2 DEF FreshItem
    <3>4. \A k \in DOMAIN rt.queue : rt.queue[k] \in FreshItem
      BY <1>b
    <3>5. Restamped(rt.queue, rt.gen + 1) \in Seq(FreshItem')
      BY <1>b, <3>3, <3>4 DEF Restamped
    <3> QED BY <3>1, <3>5 DEF QueueFresh
  <2>6. ASSUME NEW c \in cancels, CancelRefused(c) PROVE rt' = rt
    BY <2>6 DEF CancelRefused
  <2>7. ASSUME NEW c \in cancels, NEW ok \in BOOLEAN, CancelDelivered(c, ok)
        PROVE  QueueFresh'
    <3>1. rt'.queue = rt.queue /\ rt'.gen = rt.gen
      BY <1>b, <2>7 DEF CancelDelivered, Uncontrolled, Runtime
    <3> QED BY <3>1, QuietQueue
  <2> QED BY <1>0, <1>5, <2>2, <2>3, <2>4, <2>5, <2>6, <2>7 DEF Settling
<1>7. CASE Agent
  <2>1. ASSUME NEW t \in turns, NEW pause \in Pauses, OnApproval(t, pause) PROVE rt' = rt
    BY <2>1 DEF OnApproval
  <2>2. ASSUME NEW t \in turns, Preparing(t) PROVE rt' = rt
    BY <2>2 DEF Preparing, PrepareFails, SendPrompt, DropStale
  <2>3. ASSUME NEW t \in turns, NEW out \in Outcomes, PromptReturns(t, out) PROVE rt' = rt
    BY <2>3 DEF PromptReturns
  <2> QED BY <1>0, <1>4, <1>7, <2>1, <2>2, <2>3 DEF Agent, AskDropped
<1>8. CASE PumpSkips \/ ConnectionLost \/ UNCHANGED vars
  BY <1>0, <1>8 DEF PumpSkips, ConnectionLost, vars
<1> QED BY <1>1, <1>2, <1>3, <1>5, <1>6, <1>7, <1>8 DEF Next, Faults

-----------------------------------------------------------------------------
(* What a step does to the job row.                                        *)

\* The row names the request it named, the one of Dispatch, the one of a
\* Followup, or the one the pump popped.
LEMMA RequestStep ==
  ASSUME TypeOK, [Next]_vars
  PROVE  \/ job'.request \in {job.request, starter.req}
         \/ \E r \in Requests : Followup(r) /\ job'.request = r
         \/ PumpPops /\ job'.request = Head(rt.queue).req
<1> DEFINE Kept == job'.request \in {job.request, starter.req}
<1>0. job' = job => Kept
  OBVIOUS
<1>a. ASSUME NEW j \in Job
      PROVE  /\ Save(j) => job'.request = j.request
             /\ \A phase \in Phases : SavePhase(j, phase) => job'.request = j.request
  BY DEF Save, SavePhase, SavedJob, Job
<1>b. job \in Job /\ \A phase \in Phases : SavePhase(job, phase) => Kept
  BY <1>a DEF TypeOK
<1>1. CASE Session
  <2>1. StarterJob \in Job /\ StarterJob.request = starter.req
    BY DEF TypeOK, StarterJob, Job, JobStates, Pauses, Deliveries, Phases
  <2>2. \A state \in JobStates : /\ [StarterJob EXCEPT !.state = state] \in Job
                                 /\ [StarterJob EXCEPT !.state = state].request = starter.req
    BY <2>1 DEF Job
  <2>3. {"failed", "active"} \in SUBSET JobStates
    BY DEF JobStates
  <2> QED BY <1>0, <1>1, <1>a, <1>b, <2>1, <2>2, <2>3
         DEF Session, StartJob, SessionFailed, SessionCreated, SessionSuperseded
<1>2. CASE Users
  <2>1. ASSUME NEW r \in Requests, Followup(r) PROVE job'.request \in {job.request, r}
    BY <2>1 DEF Followup, SavedJob, TypeOK, Job
  <2>2. ASSUME Continue PROVE Kept
    BY <2>2 DEF Continue, Save, SavedJob, TypeOK, Job
  <2>3. ASSUME NEW r \in Requests, CancelQueued(r) PROVE Kept
    BY <2>3 DEF CancelQueued
  <2>4. ASSUME NEW r \in Requests \cup {NoRequest}, NEW turn \in {0, rt.turn},
               CancelChecked(r, turn)
        PROVE  Kept
    BY <2>4 DEF CancelChecked
  <2>5. ASSUME NEW d \in Decision, PlanDecide(d) PROVE Kept
    <3> DEFINE c == (d = "cancel")
               s == IF d = "cancel" THEN "cancelled" ELSE "active"
    <3>1. c \in BOOLEAN /\ Save([job EXCEPT !.delivery = "submitted",
                                            !.pause = "approval_delivery",
                                            !.state = s, !.cancelled = c])
      BY <2>5, Zenon DEF PlanDecide
    <3> HIDE DEF c, s
    <3> QED BY <3>1 DEF Save, SavedJob, TypeOK, Job
  <2> QED BY <1>2, <2>1, <2>2, <2>3, <2>4, <2>5 DEF Users
<1>3. CASE PumpPops
  BY <1>3 DEF PumpPops, SavePhase, SavedJob, TypeOK, Job
<1>4. CASE Agent
  <2>1. ASSUME NEW t \in turns, Preparing(t) PROVE Kept
    <3>1. "sent" \in Phases
      BY DEF Phases
    <3> QED BY <1>0, <1>b, <2>1, <3>1 DEF Preparing, PrepareFails, SendPrompt, DropStale
  <2>2. ASSUME NEW t \in turns, FinishLost(t) PROVE Kept
    BY <2>2 DEF FinishLost, DisconnectedJob, Save, SavedJob, TypeOK, Job
  <2>3. ASSUME NEW t \in turns, FinishFailed(t) PROVE Kept
    <3> DEFINE base == IF t.out = "refused"
                       THEN [job EXCEPT !.delivery = t.seen, !.pause = ""] ELSE job
               down == [base EXCEPT !.state = "failed"]
               j == IF base.delivery = "submitted"
                    THEN [down EXCEPT !.delivery = "unknown",
                                      !.pause = "approval_delivery_unknown"]
                    ELSE down
    <3>1. job' = SavedJob(j, "")
      BY <2>3 DEF FinishFailed, Save
    <3>2. base.request = job.request /\ DOMAIN base = DOMAIN job /\ "request" \in DOMAIN job
      BY DEF TypeOK, Job
    <3>3. j.request = job.request /\ DOMAIN j = DOMAIN job
      <4> HIDE DEF base
      <4> QED BY <3>2
    <3> HIDE DEF j
    <3> QED BY <3>1, <3>2, <3>3 DEF SavedJob
  <2>4. ASSUME NEW t \in turns, FinishApplied(t) PROVE Kept
    <3>1. \E s, p, d : job' = SavedJob([job EXCEPT !.state = s, !.pause = p,
                                                   !.delivery = d], "returned")
      BY <2>4, Zenon DEF FinishApplied
    <3> QED BY <3>1 DEF SavedJob, TypeOK, Job
  <2>5. ASSUME NEW t \in turns, FinishNothing(t) PROVE Kept
    BY <2>5 DEF FinishNothing
  <2>6. ASSUME NEW t \in turns, NEW out \in Outcomes, PromptReturns(t, out) PROVE Kept
    BY <2>6 DEF PromptReturns
  <2>7. ASSUME NEW t \in turns, NEW pause \in Pauses, OnApproval(t, pause) PROVE Kept
    BY <2>7 DEF OnApproval, Save, SavedJob, TypeOK, Job
  <2> QED BY <1>4, <2>1, <2>2, <2>3, <2>4, <2>5, <2>6, <2>7 DEF Agent, Finish, AskDropped
<1>5. CASE Settling
  <2>1. ASSUME ListJobs \/ Disconnect PROVE Kept
    BY <2>1 DEF ListJobs, Disconnect, DisconnectedJob, Save, SavedJob, TypeOK, Job
  <2>2. ASSUME NEW d \in deciders, PlanDecided(d) PROVE Kept
    BY <2>2 DEF PlanDecided, Save, SavedJob, TypeOK, Job
  <2>3. ASSUME NEW d \in deciders, NEW res \in {"ok", "err"}, ResolveApproval(d, res)
        PROVE  Kept
    BY <2>3 DEF ResolveApproval
  <2>4. ASSUME NEW c \in cancels, CancelBegin(c) PROVE Kept
    BY <2>4 DEF CancelBegin, Save, SavedJob, TypeOK, Job
  <2>5. ASSUME NEW c \in cancels, CancelRefused(c) PROVE Kept
    BY <2>5 DEF CancelRefused
  <2>6. ASSUME NEW c \in cancels, NEW ok \in BOOLEAN, CancelDelivered(c, ok) PROVE Kept
    BY <2>6 DEF CancelDelivered, Save, SavedJob, TypeOK, Job
  <2> QED BY <1>5, <2>1, <2>2, <2>3, <2>4, <2>5, <2>6 DEF Settling
<1>6. CASE Restart
  <2>1. ResumeJob.request = job.request /\ DOMAIN ResumeJob = DOMAIN job
    BY DEF ResumeJob, TypeOK, Job
  <2>2. job' = job \/ job' = SavedJob(ResumeJob, "")
    BY <1>6 DEF Restart, Save
  <2>3. "request" \in DOMAIN job
    BY DEF TypeOK, Job
  <2> QED BY <2>1, <2>2, <2>3 DEF SavedJob
<1>7. CASE PumpSkips \/ ConnectionLost \/ UNCHANGED vars
  BY <1>7 DEF PumpSkips, ConnectionLost, vars
<1> QED BY <1>1, <1>2, <1>3, <1>4, <1>5, <1>6, <1>7 DEF Next, Faults

\* Sources of work go on naming accepted requests.
LEMMA SourcesStep ==
  ASSUME Coherent, [Next]_vars
  PROVE  SourcesAccepted'
<1>1. \A r \in Requests : Accepted(r) => Accepted(r)'
  BY LedgerStep DEF AcceptedSet
<1>2. /\ job.request \in Requests /\ starter.req \in Requests
      /\ Accepted(job.request) /\ Accepted(starter.req)
      /\ \A t \in turns : t.item.req \in Requests /\ Accepted(t.item.req)
  BY DEF Coherent, TypeOK, Job, Turn, Item, SourcesAccepted
<1>3. starter'.req = starter.req
  <2>1. starter \in [stage : {"new", "creating", "done", "failed"}, gen : Nat,
                     req : Requests, late : BOOLEAN]
    BY DEF Coherent, TypeOK
  <2>2. CASE Session
    <3>1. SessionCreated => starter'.req = starter.req
      <4> DEFINE late == Overtaken
      <4>1. SessionCreated => starter' = [starter EXCEPT !.stage = "done", !.late = late]
        BY DEF SessionCreated
      <4> HIDE DEF late
      <4> QED BY <2>1, <4>1
    <3>2. StartJob \/ SessionFailed => starter'.req = starter.req
      BY <2>1 DEF StartJob, SessionFailed
    <3>3. \A ok \in BOOLEAN : SessionSuperseded(ok) => starter'.req = starter.req
      BY <2>1 DEF SessionSuperseded
    <3> QED BY <2>2, <3>1, <3>2, <3>3 DEF Session
  <2>3. CASE Users
    BY <2>3 DEF Users, Followup, Continue, CancelQueued, CancelChecked, PlanDecide
  <2>4. CASE Agent
    BY <2>4 DEF Agent, Preparing, PrepareFails, SendPrompt, DropStale, PromptReturns,
       OnApproval, AskDropped, Finish, FinishNothing, FinishLost, FinishFailed,
       FinishApplied, Finishes
  <2>5. CASE Settling
    BY <2>5 DEF Settling, ListJobs, Disconnect, PlanDecided, ResolveApproval,
       CancelBegin, CancelRefused, CancelDelivered
  <2>6. CASE Restart
    BY <2>1, <2>6 DEF Restart
  <2>7. CASE PumpSkips \/ PumpPops \/ ConnectionLost \/ UNCHANGED vars
    BY <2>7 DEF PumpSkips, PumpPops, ConnectionLost, vars
  <2> QED BY <2>2, <2>3, <2>4, <2>5, <2>6, <2>7 DEF Next, Faults
<1>4. PumpPops => /\ Head(rt.queue).req \in Requests /\ Accepted(Head(rt.queue).req)
  <2>1. PumpPops => Head(rt.queue) \in FreshItem
    BY HeadTailProperties DEF PumpPops, PumpMayPop, Coherent, QueueFresh
  <2> QED BY <2>1 DEF FreshItem, Item
<1>5. \A r \in Requests : Followup(r) => Accepted(r)'
  <2>1. ASSUME NEW r \in Requests, Followup(r) PROVE work'[r].phase = "queued"
    <3>1. work'[r].phase = Inserted(work, r)[r].phase
      BY <2>1 DEF Followup, SavedWork
    <3> QED BY <2>1, <3>1 DEF Inserted, Followup, Accepted, Coherent, TypeOK
  <2> QED BY <2>1 DEF Accepted
<1>6. Accepted(job.request)'
  <2>1. job'.request \in Requests /\ \/ Accepted(job'.request)
                                     \/ Followup(job'.request)
    BY <1>2, <1>4, RequestStep DEF Coherent
  <2>2. \A r \in Requests : Accepted(r) \/ Followup(r) => work'[r].phase # ""
    BY <1>1, <1>5 DEF Accepted
  <2> QED BY <2>1, <2>2 DEF Accepted
<1>7. Accepted(starter.req)'
  BY <1>1, <1>2, <1>3 DEF Accepted
<1>8. \A t \in turns' : Accepted(t.item.req)'
  <2>1. ASSUME NEW t \in turns', ~\E u \in turns : u.item = t.item
        PROVE  PumpPops /\ t.item = Head(rt.queue)
    <3>1. CASE SameTurn
      BY <2>1, <3>1 DEF SameTurn
    <3>2. CASE Advance
      BY <2>1, <3>2 DEF Advance
    <3>3. CASE PumpPops
      BY <2>1, <3>3 DEF PumpPops
    <3>4. ASSUME NEW u \in turns, Finish(u) PROVE FALSE
      BY <2>1, <3>4, FinishLeavesNone DEF Coherent
    <3>5. CASE Restart
      BY <2>1, <3>5 DEF Restart
    <3> QED BY <3>1, <3>2, <3>3, <3>4, <3>5, TurnStep DEF Coherent
  <2>2. ASSUME NEW t \in turns' PROVE t.item.req \in Requests /\ Accepted(t.item.req)
    BY <1>2, <1>4, <2>1
  <2>3. \A r \in Requests : Accepted(r) => work'[r].phase # ""
    BY <1>1 DEF Accepted
  <2> QED BY <2>2, <2>3 DEF Accepted
<1> QED BY <1>6, <1>7, <1>8 DEF SourcesAccepted

\* Where the generation moves, every turn in flight is revoked in the same
\* step; where a turn begins, it begins with the generation of that moment.
LEMMA RevokedStep ==
  ASSUME Coherent, [Next]_vars
  PROVE  RevokedIsStale'
<1> DEFINE Held == rt'.gen = rt.gen /\ revoked' = revoked
           Bumped == rt'.gen = rt.gen + 1 /\ revoked' = revoked \cup InFlight
<1>1. /\ rt \in Runtime /\ rt.gen \in Nat
      /\ \A t \in turns : t.item.gen \in Nat /\ t.item.gen <= rt.gen
      /\ revoked \subseteq InFlight
      /\ \A t \in turns : t.id \in revoked => t.item.gen # rt.gen
  BY DEF Coherent, TypeOK, Runtime, Turn, Item, RevokedIsStale, Stale
<1>2. ASSUME turns' = turns, Held \/ Bumped PROVE RevokedIsStale'
  <2>1. InFlight' = InFlight
    BY <1>2 DEF InFlight
  <2>2. revoked' \subseteq InFlight'
    BY <1>1, <1>2, <2>1
  <2>3. ASSUME NEW t \in turns
        PROVE  /\ t.item.gen <= rt'.gen
               /\ t.id \in revoked' => t.item.gen # rt'.gen
    BY <1>1, <1>2
  <2> QED BY <1>2, <2>2, <2>3 DEF RevokedIsStale, Stale
<1>3. UNCHANGED <<rt, revoked>> => Held
  OBVIOUS
<1>4. DisconnectedRt(rt).gen = rt.gen + 1
  BY <1>1 DEF DisconnectedRt, Runtime
<1>5. CASE Session
  <2>1. turns' = turns /\ Held
    BY <1>1, <1>5 DEF Session, StartJob, SessionFailed, SessionCreated,
       SessionSuperseded, Runtime
  <2> QED BY <1>2, <2>1
<1>6. CASE Users
  <2>1. turns' = turns /\ revoked' = revoked
    BY <1>6 DEF Users, Followup, Continue, CancelQueued, CancelChecked, PlanDecide
  <2>2. rt' = rt \/ \E q : rt' = [rt EXCEPT !.queue = q]
    <3>1. ASSUME NEW r \in Requests, Followup(r) PROVE \E q : rt' = [rt EXCEPT !.queue = q]
      BY <3>1, Zenon DEF Followup
    <3>2. ASSUME NEW r \in Requests, CancelQueued(r)
          PROVE  \E q : rt' = [rt EXCEPT !.queue = q]
      BY <3>2, Zenon DEF CancelQueued
    <3>3. ASSUME Continue PROVE \E q : rt' = [rt EXCEPT !.queue = q]
      BY <3>3, Zenon DEF Continue
    <3> QED BY <1>6, <3>1, <3>2, <3>3 DEF Users, CancelChecked, PlanDecide
  <2>3. Held
    BY <1>1, <2>1, <2>2 DEF Runtime
  <2> QED BY <1>2, <2>1, <2>3
<1>7. CASE Settling
  <2>1. ASSUME ListJobs \/ Disconnect PROVE turns' = turns /\ (Held \/ Bumped)
    BY <1>4, <2>1 DEF ListJobs, Disconnect
  <2>2. ASSUME NEW d \in deciders, PlanDecided(d) PROVE turns' = turns /\ (Held \/ Bumped)
    BY <1>4, <2>2 DEF PlanDecided
  <2>3. ASSUME NEW d \in deciders, NEW res \in {"ok", "err"}, ResolveApproval(d, res)
        PROVE  turns' = turns /\ Held
    BY <2>3 DEF ResolveApproval
  <2>4. ASSUME NEW c \in cancels, CancelBegin(c) PROVE turns' = turns /\ Bumped
    BY <1>1, <2>4 DEF CancelBegin, Runtime
  <2>5. ASSUME NEW c \in cancels, CancelRefused(c) PROVE turns' = turns /\ Held
    BY <2>5 DEF CancelRefused
  <2>6. ASSUME NEW c \in cancels, NEW ok \in BOOLEAN, CancelDelivered(c, ok)
        PROVE  turns' = turns /\ Held
    BY <1>1, <2>6 DEF CancelDelivered, Uncontrolled, Runtime
  <2> QED BY <1>2, <1>7, <2>1, <2>2, <2>3, <2>4, <2>5, <2>6 DEF Settling
<1>8. CASE PumpSkips \/ UNCHANGED vars \/ AskDropped
  BY <1>2, <1>8 DEF PumpSkips, AskDropped, vars
<1>9. ASSUME NEW t \in turns, NEW pause \in Pauses, OnApproval(t, pause)
      PROVE  RevokedIsStale'
  BY <1>2, <1>9 DEF OnApproval
<1>10. CASE Advance
  <2>1. InFlight' = InFlight
    BY <1>10 DEF Advance, InFlight
  <2> QED BY <1>1, <1>10, <2>1 DEF Advance, RevokedIsStale, Stale
<1>11. CASE PumpPops
  <2> DEFINE t == [id |-> issued + 1, item |-> Head(rt.queue),
                   stage |-> "loading", out |-> "none", seen |-> job.delivery]
  <2>1. turns = {} /\ turns' = turns \cup {t} /\ revoked' = revoked
    BY <1>11 DEF PumpPops, PumpMayPop, Coherent, SingleTurn
  <2>2. revoked = {}
    BY <1>1, <2>1 DEF InFlight
  <2>3. Head(rt.queue) \in FreshItem
    BY <1>11, HeadTailProperties DEF PumpPops, PumpMayPop, Coherent, QueueFresh
  <2>4. t.item.gen = rt.gen /\ rt'.gen = rt.gen
    BY <1>1, <1>11, <2>3 DEF PumpPops, FreshItem, Runtime
  <2> HIDE DEF t
  <2> QED BY <1>1, <2>1, <2>2, <2>4 DEF RevokedIsStale
<1>12. ASSUME NEW t \in turns, Finish(t) PROVE RevokedIsStale'
  <2>1. turns = {t} /\ turns' = {} /\ revoked' = revoked \ {t.id}
    BY <1>12, FinishLeavesNone DEF Coherent
  <2>2. revoked' = {}
    BY <1>1, <2>1 DEF InFlight
  <2> QED BY <2>1, <2>2 DEF RevokedIsStale
<1>13. CASE Restart
  BY <1>13 DEF Restart, RevokedIsStale
<1>14. CASE SameTurn /\ Agent
  <2>1. ASSUME NEW t \in turns, Preparing(t) PROVE turns' = turns /\ Held
    BY <1>14, <2>1 DEF SameTurn, Preparing, PrepareFails, SendPrompt, DropStale
  <2>2. ASSUME NEW t \in turns, NEW out \in Outcomes, PromptReturns(t, out)
        PROVE  turns' = turns /\ Held
    BY <1>14, <2>2 DEF SameTurn, PromptReturns
  <2> QED BY <1>2, <1>8, <1>9, <1>12, <1>14, <2>1, <2>2 DEF Agent
<1>15. CASE SameTurn /\ ConnectionLost
  BY <1>2, <1>15 DEF SameTurn, ConnectionLost
<1> QED BY <1>5, <1>6, <1>7, <1>8, <1>10, <1>11, <1>12, <1>13, <1>14, <1>15, TurnStep
       DEF Next, Faults, Coherent

\* The job is called completed only by an answer that finds the queue empty,
\* and nothing is enqueued for a completed job without calling it active.
LEMMA DrainedStep ==
  ASSUME Coherent, [Next]_vars
  PROVE  CompletedMeansDrained'
<1> SUFFICES ASSUME job'.state = "completed" PROVE rt'.queue = <<>> /\ turns' = {}
  BY DEF CompletedMeansDrained
<1> DEFINE Drained == rt'.queue = <<>> /\ turns' = {}
<1>1. /\ rt \in Runtime /\ job \in Job
      /\ job.state = "completed" => rt.queue = <<>> /\ turns = {} /\ ~rt.busy
  BY DEF Coherent, TypeOK, CompletedMeansDrained, SingleTurn
<1>2. job'.state = job.state /\ rt'.queue = rt.queue /\ turns' = turns => Drained
  BY <1>1
<1>3. ASSUME NEW j \in Job
      PROVE  /\ Save(j) => job'.state = j.state
             /\ \A phase \in Phases : SavePhase(j, phase) => job'.state = j.state
  BY <1>3, SaveKeepsState DEF Coherent
<1>4. CASE Session
  <2>1. \A state \in JobStates : /\ [StarterJob EXCEPT !.state = state] \in Job
                                 /\ [StarterJob EXCEPT !.state = state].state = state
    BY DEF Coherent, TypeOK, StarterJob, Job, JobStates, Pauses, Deliveries, Phases
  <2>2. StarterJob \in Job /\ StarterJob.state = "starting"
    BY DEF Coherent, TypeOK, StarterJob, Job, JobStates, Pauses, Deliveries, Phases
  <2>3. {"failed", "active"} \in SUBSET JobStates
    BY DEF JobStates
  <2>4. ~StartJob /\ ~SessionFailed /\ ~SessionCreated
    BY <1>3, <2>1, <2>2, <2>3 DEF StartJob, SessionFailed, SessionCreated
  <2> QED BY <1>1, <1>2, <1>3, <1>4, <2>4 DEF Session, SessionSuperseded
<1>5. CASE Users
  <2>1. ASSUME NEW r \in Requests, Followup(r) PROVE FALSE
    <3> DEFINE j == IF rt.busy THEN job
                    ELSE [job EXCEPT !.request = r, !.state = "active", !.pause = ""]
    <3>1. job' = SavedJob(j, "")
      BY <2>1 DEF Followup
    <3>2. j \in Job /\ j.state # "completed"
      <4>1. rt.busy => job.state # "completed"
        BY <1>1
      <4> QED BY <1>1, <4>1 DEF Job, JobStates, Pauses
    <3> HIDE DEF j
    <3> QED BY <3>1, <3>2 DEF SavedJob, Job
  <2>2. ASSUME NEW r \in Requests, CancelQueued(r) PROVE FALSE
    BY <2>2 DEF CancelQueued, AcceptsTurnControl
  <2>3. ASSUME Continue PROVE FALSE
    <3>1. /\ [job EXCEPT !.state = "active", !.pause = "", !.delivery = ""] \in Job
          /\ [job EXCEPT !.state = "active", !.pause = "", !.delivery = ""].state = "active"
      BY <1>1 DEF Job, JobStates, Pauses, Deliveries
    <3> QED BY <1>3, <2>3, <3>1 DEF Continue
  <2>4. ASSUME NEW r \in Requests \cup {NoRequest}, NEW turn \in {0, rt.turn},
               CancelChecked(r, turn)
        PROVE  Drained
    BY <1>2, <2>4 DEF CancelChecked
  <2>5. ASSUME NEW d \in Decision, PlanDecide(d) PROVE FALSE
    <3> DEFINE s == IF d = "cancel" THEN "cancelled" ELSE "active"
               c == (d = "cancel")
    <3>1. Save([job EXCEPT !.delivery = "submitted", !.pause = "approval_delivery",
                           !.state = s, !.cancelled = c])
      BY <2>5, Zenon DEF PlanDecide
    <3>2. s # "completed"
      OBVIOUS
    <3> HIDE DEF c, s
    <3> QED BY <1>1, <3>1, <3>2 DEF Save, SavedJob, Job
  <2> QED BY <1>5, <2>1, <2>2, <2>3, <2>4, <2>5 DEF Users
<1>6. CASE PumpPops
  BY <1>1, <1>6 DEF PumpPops, SavePhase, SavedJob, Job
<1>7. ASSUME NEW t \in turns, Finish(t) PROVE Drained
  <2>1. turns' = {} /\ job.state # "completed"
    BY <1>1, <1>7, FinishLeavesNone DEF Coherent
  <2>2. CASE FinishNothing(t)
    BY <2>1, <2>2 DEF FinishNothing
  <2>3. CASE FinishLost(t)
    <3>1. DisconnectedJob \in Job
      BY DisconnectedTypes DEF Coherent
    <3>2. DisconnectedJob.state \in {"plan_ready", "disconnected"}
      BY <1>1 DEF DisconnectedJob, Job
    <3> QED BY <1>3, <2>3, <3>1, <3>2 DEF FinishLost
  <2>4. CASE FinishFailed(t)
    <3> DEFINE base == IF t.out = "refused"
                       THEN [job EXCEPT !.delivery = t.seen, !.pause = ""] ELSE job
               down == [base EXCEPT !.state = "failed"]
               j == IF base.delivery = "submitted"
                    THEN [down EXCEPT !.delivery = "unknown",
                                      !.pause = "approval_delivery_unknown"]
                    ELSE down
    <3>1. job' = SavedJob(j, "")
      BY <2>4 DEF FinishFailed, Save
    <3>2. DOMAIN base = DOMAIN job /\ "state" \in DOMAIN job
      BY <1>1 DEF Job
    <3>3. j.state = "failed" /\ "state" \in DOMAIN j
      <4> HIDE DEF base
      <4> QED BY <3>2
    <3> HIDE DEF j
    <3> QED BY <3>1, <3>3 DEF SavedJob
  <2>5. CASE FinishApplied(t)
    <3> DEFINE j == [job EXCEPT
                       !.state = StateAfter(MarkState(t.out)),
                       !.pause = IF t.out = "unmarked" THEN "review_required" ELSE "",
                       !.delivery = Confirmed(@)]
    <3>1. /\ job' = SavedJob(j, "returned") /\ t.out \in Marks
          /\ t.out # "working" => rt' = Released
      BY <2>5 DEF FinishApplied
    <3>2. j.state = StateAfter(MarkState(t.out)) /\ "state" \in DOMAIN j
      BY <1>1 DEF Job
    <3> HIDE DEF j
    <3>3. StateAfter(MarkState(t.out)) = "completed"
      BY <3>1, <3>2 DEF SavedJob
    <3>4. t.out # "working" /\ rt.queue = <<>>
      BY <3>1, <3>3 DEF StateAfter, MarkState, Marks
    <3> QED BY <1>1, <2>1, <3>1, <3>4 DEF Released, Runtime
  <2> QED BY <1>7, <2>2, <2>3, <2>4, <2>5 DEF Finish
<1>8. CASE Settling
  <2>1. DisconnectedJob \in Job /\ DisconnectedJob.state \in {"plan_ready", "disconnected"}
    BY <1>1, DisconnectedTypes DEF DisconnectedJob, Job, Coherent
  <2>2. DisconnectedRt(rt).queue = <<>>
    BY <1>1 DEF DisconnectedRt, Runtime
  <2>3. ASSUME ListJobs \/ Disconnect PROVE Drained
    BY <1>2, <1>3, <2>1, <2>3 DEF ListJobs, Disconnect
  <2>4. ASSUME NEW d \in deciders, PlanDecided(d) PROVE Drained
    <3>1. /\ [job EXCEPT !.delivery = "unknown", !.state = "needs_input",
                         !.pause = "approval_delivery_unknown"] \in Job
          /\ [job EXCEPT !.delivery = "unknown", !.state = "needs_input",
                         !.pause = "approval_delivery_unknown"].state = "needs_input"
      BY <1>1 DEF Job, JobStates, Pauses, Deliveries
    <3>2. job' = job /\ turns' = turns
      BY <1>3, <2>4, <3>1 DEF PlanDecided
    <3>3. rt'.queue = rt.queue \/ rt'.queue = <<>>
      BY <2>2, <2>4 DEF PlanDecided
    <3> QED BY <1>1, <3>2, <3>3
  <2>5. ASSUME NEW d \in deciders, NEW res \in {"ok", "err"}, ResolveApproval(d, res)
        PROVE  Drained
    BY <1>2, <2>5 DEF ResolveApproval
  <2>6. ASSUME NEW c \in cancels, CancelBegin(c) PROVE FALSE
    <3>1. /\ [job EXCEPT !.state = "needs_input", !.pause = "cancel_delivery"] \in Job
          /\ [job EXCEPT !.state = "needs_input",
                         !.pause = "cancel_delivery"].state = "needs_input"
      BY <1>1 DEF Job, JobStates, Pauses
    <3> QED BY <1>3, <2>6, <3>1 DEF CancelBegin
  <2>7. ASSUME NEW c \in cancels, CancelRefused(c) PROVE Drained
    BY <1>2, <2>7 DEF CancelRefused
  <2>8. ASSUME NEW c \in cancels, NEW ok \in BOOLEAN, CancelDelivered(c, ok) PROVE Drained
    <3>1. job'.state = job.state
      BY <1>1, <2>8 DEF CancelDelivered, Save, SavedJob, Job
    <3>2. rt'.queue = rt.queue /\ turns' = turns
      BY <1>1, <2>8 DEF CancelDelivered, Uncontrolled, Runtime
    <3> QED BY <1>2, <3>1, <3>2
  <2> QED BY <1>8, <2>3, <2>4, <2>5, <2>6, <2>7, <2>8 DEF Settling
<1>9. CASE Restart
  BY <1>9 DEF Restart, IdleRuntime
<1>10. ASSUME NEW t \in turns, NEW pause \in Pauses, OnApproval(t, pause) PROVE FALSE
  <2>1. Save([job EXCEPT !.state = "plan_ready", !.approval = asked + 1,
                         !.delivery = "pending", !.pause = pause])
    BY <1>10 DEF OnApproval
  <2> QED BY <1>1, <2>1 DEF Save, SavedJob, Job
<1>11. CASE PumpSkips \/ AskDropped \/ UNCHANGED vars
  BY <1>2, <1>11 DEF PumpSkips, AskDropped, vars
<1>12. CASE ConnectionLost
  <2>1. turns = {} => turns' = {}
    BY <1>12 DEF ConnectionLost
  <2>2. job' = job /\ rt' = rt
    BY <1>12 DEF ConnectionLost
  <2> QED BY <1>1, <2>1, <2>2
<1>13. CASE Agent
  <2>1. ASSUME NEW t \in turns, Preparing(t) PROVE job'.state = job.state
    <3>1. job \in Job /\ "sent" \in Phases
      BY <1>1 DEF Phases
    <3> QED BY <1>3, <2>1, <3>1 DEF Preparing, PrepareFails, SendPrompt, DropStale
  <2>2. ASSUME NEW t \in turns, NEW out \in Outcomes, PromptReturns(t, out)
        PROVE  job'.state = job.state
    BY <2>2 DEF PromptReturns
  <2> QED BY <1>1, <1>7, <1>10, <1>11, <1>13, <2>1, <2>2 DEF Agent
<1> QED BY <1>4, <1>5, <1>6, <1>8, <1>9, <1>11, <1>12, <1>13 DEF Next, Faults

-----------------------------------------------------------------------------
(* The theorems.                                                           *)

LEMMA CoherentInit == Init => Coherent
<1> SUFFICES ASSUME NEW r \in Requests, Dispatched(r) PROVE Coherent
  BY DEF Init
<1>1. Init
  BY DEF Init
<1>2. TypeOK
  BY <1>1, InitType
<1>3. rt.queue = <<>> /\ rt.busy = FALSE /\ turns = {} /\ revoked = {}
  BY DEF Dispatched, IdleRuntime
<1>4. SingleTurn
  BY <1>3 DEF SingleTurn
<1>5. QueueFresh
  BY <1>3, EmptySeq DEF QueueFresh
<1>6. SourcesAccepted
  BY <1>3 DEF Dispatched, SourcesAccepted, Accepted
<1> QED BY <1>2, <1>3, <1>4, <1>5, <1>6
       DEF Coherent, RevokedIsStale, CompletedMeansDrained

\* Coherent is inductive: true at Dispatch, kept by every step.
THEOREM AlwaysCoherent == Spec => []Coherent
<1>1. Init => Coherent
  BY CoherentInit
<1>2. Coherent /\ [Next]_vars => Coherent'
  BY TypeStep, SingleTurnStep, QueueStep, SourcesStep, RevokedStep, DrainedStep
     DEF Coherent
<1> QED BY <1>1, <1>2, PTL DEF Spec

\* However many pump goroutines there are, at most one item runs at a time,
\* and the runtime describes it.
THEOREM OneTurnAtATime == Spec => []SingleTurn
<1>1. Coherent => SingleTurn
  BY DEF Coherent
<1> QED BY <1>1, AlwaysCoherent, PTL

\* No cancellation, disconnection or restart leaves an item of a passed
\* generation in the queue.
THEOREM QueueIsCurrent == Spec => []QueueCurrent
<1>1. Coherent => QueueCurrent
  BY DEF Coherent, QueueFresh, FreshItem, QueueCurrent
<1> QED BY <1>1, AlwaysCoherent, PTL

\* A job is published as completed only with nothing running and nothing
\* waiting in memory.
THEOREM CompletedIsDrained == Spec => []CompletedMeansDrained
<1>1. Coherent => CompletedMeansDrained
  BY DEF Coherent
<1> QED BY <1>1, AlwaysCoherent, PTL

\* A turn that was revoked and now moves or leaves commits nothing.
LEMMA SilentStep ==
  ASSUME Coherent, [Next]_vars, NEW t \in turns, t.id \in revoked,
         t \notin turns', faults' = faults
  PROVE  UNCHANGED <<job, work, results>>
<1>1. /\ \A u \in turns : u = t
      /\ Stale(t)
      /\ turns' # turns
  BY DEF Coherent, SingleTurn, RevokedIsStale
<1>2. ~Session /\ ~Users /\ ~PumpSkips /\ ~UNCHANGED vars /\ ~AskDropped
  BY <1>1 DEF Session, StartJob, SessionFailed, SessionCreated, SessionSuperseded,
     Users, Followup, Continue, CancelQueued, CancelChecked, PlanDecide,
     PumpSkips, AskDropped, vars
<1>3. ~PumpPops /\ ~Settling
  BY <1>1 DEF PumpPops, Settling, ListJobs, Disconnect, PlanDecided,
     ResolveApproval, CancelBegin, CancelRefused, CancelDelivered
<1>4. ~Faults
  <2>1. faults + 1 # faults
    BY DEF Coherent, TypeOK
  <2> QED BY <2>1 DEF Faults, ConnectionLost, Restart
<1>5. ASSUME NEW u \in turns, Preparing(u) PROVE UNCHANGED <<job, work, results>>
  BY <1>1, <1>5 DEF Preparing, PrepareFails, SendPrompt, DropStale
<1>6. ASSUME NEW u \in turns, Finish(u) PROVE UNCHANGED <<job, work, results>>
  BY <1>1, <1>6 DEF Finish, FinishNothing, FinishLost, FinishFailed, FinishApplied
<1>7. ASSUME NEW u \in turns, NEW out \in Outcomes, PromptReturns(u, out)
      PROVE  UNCHANGED <<job, work, results>>
  BY <1>7 DEF PromptReturns
<1>8. ASSUME NEW u \in turns, NEW pause \in Pauses, OnApproval(u, pause) PROVE FALSE
  BY <1>1, <1>8 DEF OnApproval
<1> QED BY <1>2, <1>3, <1>4, <1>5, <1>6, <1>7, <1>8 DEF Next, Agent

\* A cancelled or disconnected turn changes no row, whatever it does later.
THEOREM RevokedTurnsAreSilent == Spec => RevokedTurnIsSilent
<1>1. Coherent /\ [Next]_vars => [RevokedMovesSilently]_vars
  BY SilentStep DEF RevokedMovesSilently
<1> QED BY <1>1, AlwaysCoherent, PTL DEF Spec, RevokedTurnIsSilent

-----------------------------------------------------------------------------
(* The coordinator implements TurnService.                                 *)

NoTurn == [id |-> 0, req |-> NoRequest]
Label(t) == [id |-> t.id, req |-> t.item.req]

\* The live turn is the turn in flight, unless that one is revoked.
LEMMA LiveIs ==
  ASSUME NEW t, turns = {t}
  PROVE  LiveTurn = IF t.id \in revoked THEN NoTurn ELSE Label(t)
<1>1. LiveTurns = IF t.id \in revoked THEN {} ELSE {t}
  BY DEF LiveTurns
<1>2. (CHOOSE x \in {t} : TRUE) = t
  OBVIOUS
<1> QED BY <1>1, <1>2 DEF LiveTurn, NoTurn, Label

LEMMA LiveIsNext ==
  ASSUME NEW t, turns' = {t}
  PROVE  LiveTurn' = IF t.id \in revoked' THEN NoTurn ELSE Label(t)
<1>1. LiveTurns' = IF t.id \in revoked' THEN {} ELSE {t}
  BY DEF LiveTurns
<1>2. (CHOOSE x \in {t} : TRUE) = t
  OBVIOUS
<1> QED BY <1>1, <1>2 DEF LiveTurn, NoTurn, Label

\* What a step makes of the live turn.
LEMMA LiveStep ==
  ASSUME Coherent
  PROVE  /\ turns = {} => LiveTurn = NoTurn
         /\ turns' = turns /\ revoked' = revoked => LiveTurn' = LiveTurn
         /\ turns' = {} => LiveTurn' = NoTurn
         /\ turns' = turns /\ revoked' = revoked \cup InFlight => LiveTurn' = NoTurn
         /\ Advance => LiveTurn' = LiveTurn
<1>1. turns = {} => LiveTurn = NoTurn
  BY DEF LiveTurn, LiveTurns, NoTurn
<1>2. turns' = turns /\ revoked' = revoked => LiveTurn' = LiveTurn
  BY DEF LiveTurn, LiveTurns
<1>3. LiveTurns' = {} => LiveTurn' = NoTurn
  BY DEF LiveTurn, NoTurn
<1>4. turns' = {} => LiveTurns' = {}
  BY DEF LiveTurns
<1>5. turns' = turns /\ revoked' = revoked \cup InFlight => LiveTurns' = {}
  BY DEF LiveTurns, InFlight
<1>6. ASSUME Advance PROVE LiveTurn' = LiveTurn
  <2>1. CASE turns = {}
    <3>1. turns' = {}
      BY <1>6, <2>1 DEF Advance
    <3> QED BY <1>1, <1>3, <1>4, <2>1, <3>1
  <2>2. ASSUME NEW t \in turns PROVE LiveTurn' = LiveTurn
    <3>1. turns = {t}
      BY DEF Coherent, SingleTurn
    <3>2. PICK u : turns' = {u}
      BY <1>6, <3>1 DEF Advance
    <3>3. u.id = t.id /\ u.item = t.item /\ revoked' = revoked
      BY <1>6, <3>1, <3>2 DEF Advance
    <3> QED BY <3>1, <3>2, <3>3, LiveIs, LiveIsNext DEF Label
  <2> QED BY <2>1, <2>2
<1> QED BY <1>1, <1>2, <1>3, <1>4, <1>5, <1>6

\* Every step of the coordinator is a step of the service, or none of its.
LEMMA PromiseStep ==
  ASSUME Coherent, [Next]_vars
  PROVE  [Promise!SNext]_(Promise!svars)
<1> DEFINE Rest == UNCHANGED <<issued, rt.controlPending, results>>
           Still == Rest /\ LiveTurn' = LiveTurn
           Gone == Rest /\ LiveTurn' = NoTurn
           Same == AcceptedSet' = AcceptedSet
<1> USE DEF AcceptedSet
<1>1. Same /\ Still => UNCHANGED Promise!svars
  BY DEF Promise!svars
<1>2. Same /\ Gone => Promise!Abandon \/ UNCHANGED Promise!svars
  BY DEF Promise!svars, Promise!Abandon, Promise!NoTurn, NoTurn
<1>3. /\ rt \in Runtime /\ rt.controlPending \in BOOLEAN
      /\ \A t \in turns : t.item.req \in Requests /\ t.item.req # NoRequest
  BY RequestsAssumption DEF Coherent, TypeOK, Runtime, Turn, Item
<1>4. ASSUME NEW r \in Requests, Followup(r), ~Accepted(r),
             AcceptedSet' = AcceptedSet \cup {r}
      PROVE  Promise!Accept(r)
  <2>1. UNCHANGED <<turns, revoked, issued, results>> /\ rt'.controlPending = rt.controlPending
    BY <1>3, <1>4 DEF Followup, Runtime
  <2>2. LiveTurn' = LiveTurn
    BY <2>1, LiveStep
  <2> QED BY <1>4, <2>1, <2>2 DEF Promise!Accept
<1>5. ASSUME UNCHANGED <<turns, revoked, issued, results>>,
             rt'.controlPending = rt.controlPending
      PROVE  Still
  BY <1>5, LiveStep
<1>6. ASSUME Session \/ Users PROVE Still
  <2>1. UNCHANGED <<turns, revoked, issued, results>>
    BY <1>6 DEF Session, StartJob, SessionFailed, SessionCreated, SessionSuperseded,
       Users, Followup, Continue, CancelQueued, CancelChecked, PlanDecide
  <2>2. rt' = rt \/ \E q : rt' = [rt EXCEPT !.queue = q]
    <3>1. ASSUME NEW r \in Requests, Followup(r) \/ CancelQueued(r)
          PROVE  \E q : rt' = [rt EXCEPT !.queue = q]
      BY <3>1, Zenon DEF Followup, CancelQueued
    <3>2. ASSUME Continue \/ SessionCreated PROVE \E q : rt' = [rt EXCEPT !.queue = q]
      BY <3>2, Zenon DEF Continue, SessionCreated
    <3> QED BY <1>6, <3>1, <3>2 DEF Users, CancelChecked, PlanDecide, Session,
         StartJob, SessionFailed, SessionSuperseded
  <2>3. rt'.controlPending = rt.controlPending
    BY <1>3, <2>2 DEF Runtime
  <2> QED BY <1>5, <2>1, <2>3
<1>7. ASSUME PumpSkips \/ UNCHANGED vars \/ AskDropped PROVE Still
  BY <1>5, <1>7 DEF PumpSkips, AskDropped, vars
<1>8. ASSUME PumpPops, Same PROVE \E r \in Requests : Promise!Begin(r)
  <2> DEFINE item == Head(rt.queue)
             t == [id |-> issued + 1, item |-> item, stage |-> "loading",
                   out |-> "none", seen |-> job.delivery]
  <2>1. /\ turns = {} /\ turns' = turns \cup {t} /\ revoked' = revoked
        /\ ~rt.controlPending /\ issued' = issued + 1 /\ results' = results
    BY <1>8 DEF PumpPops, PumpMayPop, Coherent, SingleTurn
  <2>2. rt'.controlPending = rt.controlPending
    BY <1>3, <1>8 DEF PumpPops, Runtime
  <2>3. item \in FreshItem
    BY <1>8, HeadTailProperties DEF PumpPops, PumpMayPop, Coherent, QueueFresh
  <2>4. item.req \in Requests /\ Accepted(item.req)
    BY <2>3 DEF FreshItem, Item
  <2>5. t.id = issued + 1 /\ t.item = item
    OBVIOUS
  <2> HIDE DEF t, item
  <2>6. turns' = {t} /\ t.id \notin revoked'
    BY <2>1 DEF Coherent, RevokedIsStale, InFlight
  <2>7. LiveTurn = NoTurn /\ LiveTurn' = [id |-> issued + 1, req |-> item.req]
    BY <2>1, <2>5, <2>6, LiveStep, LiveIsNext DEF Label
  <2> QED BY <1>8, <2>1, <2>2, <2>4, <2>7 DEF Promise!Begin, Promise!NoTurn, NoTurn
<1>9. ASSUME Advance, UNCHANGED <<issued, results>> PROVE Still
  <2>1. LiveTurn' = LiveTurn /\ rt' = rt
    BY <1>9, LiveStep DEF Advance
  <2> QED BY <1>9, <2>1
<1>10. ASSUME NEW t \in turns, Finish(t), Same
       PROVE  Promise!Answer \/ Promise!Abandon \/ UNCHANGED Promise!svars
  <2>1. turns = {t} /\ turns' = {} /\ issued' = issued
    BY <1>10, FinishLeavesNone DEF Coherent, Finish, FinishNothing, FinishLost,
       FinishFailed, FinishApplied, Finishes
  <2>2. LiveTurn' = NoTurn
    BY <2>1, LiveStep
  <2>3. rt'.controlPending = rt.controlPending
    <3>1. Released \in Runtime /\ Released.controlPending = rt.controlPending
      BY <1>3, ReleasedType DEF Released, Runtime, Coherent
    <3>2. \/ rt' = Released \/ rt' = DisconnectedRt(Released)
          \/ \E q : rt' = [Released EXCEPT !.queue = q]
      BY <1>10, Zenon DEF Finish, FinishNothing, FinishLost, FinishFailed, FinishApplied
    <3> QED BY <3>1, <3>2 DEF DisconnectedRt, Runtime
  <2>4. CASE FinishNothing(t) \/ FinishLost(t) \/ FinishFailed(t)
    <3>1. results' = results
      BY <2>4 DEF FinishNothing, FinishLost, FinishFailed
    <3> QED BY <1>2, <1>10, <2>1, <2>2, <2>3, <3>1
  <2>5. CASE FinishApplied(t)
    <3>2. results' = results \cup {[turn |-> t.id, req |-> t.item.req]} /\ ~Stale(t)
      BY <2>5 DEF FinishApplied
    <3>3. LiveTurn = Label(t)
      BY <2>1, <3>2, LiveIs DEF Coherent, RevokedIsStale
    <3>4. Label(t).id = t.id /\ Label(t).req = t.item.req /\ Label(t) # NoTurn
      BY <1>3 DEF Label, NoTurn
    <3> QED BY <1>10, <2>1, <2>2, <2>3, <3>2, <3>3, <3>4
           DEF Promise!Answer, Promise!NoTurn, NoTurn
  <2> QED BY <1>10, <2>4, <2>5 DEF Finish
<1>11. ASSUME Agent, Same
       PROVE  Promise!Answer \/ Promise!Abandon \/ UNCHANGED Promise!svars
  <2>1. ASSUME NEW t \in turns, Preparing(t) PROVE Still
    <3>1. UNCHANGED <<issued, results>>
      BY <2>1 DEF Preparing, PrepareFails, SendPrompt, DropStale
    <3> QED BY <1>9, <2>1, <3>1, RunAdvances DEF Coherent
  <2>2. ASSUME NEW t \in turns, NEW out \in Outcomes, PromptReturns(t, out) PROVE Still
    <3>1. UNCHANGED <<issued, results>>
      BY <2>2 DEF PromptReturns
    <3> QED BY <1>9, <2>2, <3>1, RunAdvances DEF Coherent
  <2>3. ASSUME NEW t \in turns, NEW pause \in Pauses, OnApproval(t, pause) PROVE Still
    BY <1>5, <2>3 DEF OnApproval
  <2> QED BY <1>1, <1>7, <1>10, <1>11, <2>1, <2>2, <2>3 DEF Agent
<1>12. ASSUME Settling, Same
       PROVE  \/ Promise!Abandon \/ Promise!StartCancel \/ Promise!EndCancel
              \/ UNCHANGED Promise!svars
  <2>1. DisconnectedRt(rt).controlPending = rt.controlPending
    BY <1>3 DEF DisconnectedRt, Runtime
  <2>2. ASSUME ListJobs \/ Disconnect PROVE Still \/ Gone
    BY <1>5, <2>1, <2>2, LiveStep DEF ListJobs, Disconnect
  <2>3. ASSUME NEW d \in deciders, PlanDecided(d) PROVE Still \/ Gone
    BY <1>5, <2>1, <2>3, LiveStep DEF PlanDecided
  <2>4. ASSUME NEW d \in deciders, NEW res \in {"ok", "err"}, ResolveApproval(d, res)
        PROVE  Still
    BY <1>5, <2>4 DEF ResolveApproval
  <2>5. ASSUME NEW c \in cancels, CancelBegin(c) PROVE Promise!StartCancel
    <3>1. /\ ~rt.controlPending /\ rt'.controlPending = TRUE
          /\ UNCHANGED <<issued, results>>
      BY <1>3, <2>5 DEF CancelBegin, CancelAllowed, Runtime
    <3>2. LiveTurn' = NoTurn
      BY <2>5, LiveStep DEF CancelBegin
    <3> QED BY <1>12, <3>1, <3>2 DEF Promise!StartCancel, Promise!NoTurn, NoTurn
  <2>6. ASSUME NEW c \in cancels, CancelRefused(c) PROVE Still
    BY <1>5, <2>6 DEF CancelRefused
  <2>7. ASSUME NEW c \in cancels, NEW ok \in BOOLEAN, CancelDelivered(c, ok)
        PROVE  Promise!EndCancel \/ Still
    <3>1. /\ rt'.controlPending = FALSE
          /\ UNCHANGED <<issued, results, turns, revoked>>
      BY <1>3, <2>7 DEF CancelDelivered, Uncontrolled, Runtime
    <3>2. LiveTurn' = LiveTurn
      BY <3>1, LiveStep
    <3> QED BY <1>3, <1>12, <3>1, <3>2 DEF Promise!EndCancel
  <2> QED BY <1>1, <1>2, <1>12, <2>2, <2>3, <2>4, <2>5, <2>6, <2>7 DEF Settling
<1>13. ASSUME Restart, Same PROVE Promise!Crash
  <2>1. turns' = {} /\ rt'.controlPending = FALSE /\ UNCHANGED <<issued, results>>
    BY <1>13 DEF Restart, IdleRuntime
  <2>2. LiveTurn' = NoTurn
    BY <2>1, LiveStep
  <2> QED BY <1>13, <2>1, <2>2 DEF Promise!Crash, Promise!NoTurn, NoTurn
<1>14. ASSUME ConnectionLost PROVE Still
  <2>1. Advance
    BY <1>14, LostAdvances DEF Coherent
  <2> QED BY <1>9, <1>14, <2>1 DEF ConnectionLost
<1> HIDE DEF AcceptedSet
<1>15. CASE Same
  BY <1>1, <1>6, <1>7, <1>8, <1>11, <1>12, <1>13, <1>14, <1>15
     DEF Next, Faults, Promise!SNext
<1>16. CASE ~Same
  BY <1>4, <1>16, LedgerStep DEF Promise!SNext
<1> QED BY <1>15, <1>16

\* Each step of the coordinator is one step of TurnService, or none: requests
\* are taken on once, turns begin only for accepted requests, one at a time and
\* never while a cancellation is being delivered, and only a live turn answers.
THEOREM ImplementsTurnService == Spec => KeepsPromise
<1>1. Init => Promise!SInit
  <2>1. ASSUME NEW r \in Requests, Dispatched(r) PROVE Promise!SInit
    <3>1. LiveTurn = NoTurn
      BY <2>1 DEF Dispatched, LiveTurn, LiveTurns, NoTurn
    <3>2. {q \in Requests : Accepted(q)} = {r}
      BY <2>1 DEF Dispatched, Accepted, NoRow
    <3> QED BY <2>1, <3>1, <3>2 DEF Dispatched, IdleRuntime, Promise!SInit,
            Promise!NoTurn, NoTurn
  <2> QED BY <2>1 DEF Init
<1>2. Coherent /\ [Next]_vars => [Promise!SNext]_(Promise!svars)
  BY PromiseStep
<1> QED BY <1>1, <1>2, AlwaysCoherent, PTL DEF Spec, KeepsPromise, Promise!SSpec
=============================================================================
