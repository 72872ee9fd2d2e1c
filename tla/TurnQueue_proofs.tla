-------------------------- MODULE TurnQueue_proofs --------------------------
(***************************************************************************)
(* Theorems about the coordinator of one job, for every set of requests    *)
(* and every value of the bounds, users acting early or not.               *)
(***************************************************************************)
EXTENDS TurnQueue, FunctionTheorems, FiniteSetTheorems, SequenceTheorems, TLAPS

-----------------------------------------------------------------------------
(* What Keep returns.  The only difficulty is that the CHOOSE in Nth finds *)
(* a position for each i, that is, that the ranks of K fill 0 ..           *)
(* Cardinality(K) - 1.                                                     *)

Below(K, k) == {j \in K : j < k}

\* A larger member has everything below it that a smaller one has, and the
\* smaller one besides.
LEMMA BelowGrows ==
  ASSUME NEW K \in SUBSET Nat, NEW a \in K, NEW b \in K, a < b
  PROVE  /\ Below(K, a) \in SUBSET Below(K, b)
         /\ a \in Below(K, b) /\ a \notin Below(K, a)
<1>1. a \in Nat /\ b \in Nat
  OBVIOUS
<1>2. ASSUME NEW j \in K, j < a PROVE j < b
  <2>1. j \in Nat
    OBVIOUS
  <2> QED BY <1>1, <1>2, <2>1
<1>3. Below(K, a) \in SUBSET Below(K, b)
  BY <1>2, Zenon DEF Below
<1>4. a \in Below(K, b)
  BY Zenon DEF Below
<1>5. ~(a < a)
  BY <1>1
<1>6. a \notin Below(K, a)
  BY <1>5, Zenon DEF Below
<1> QED BY <1>3, <1>4, <1>6

\* The i-th smallest member of a finite set of naturals is a member of it, with
\* i - 1 of them below: a position that Keep copies is one the code's filter let
\* through.
LEMMA NthIsMember ==
  ASSUME NEW K \in SUBSET Nat, IsFiniteSet(K), NEW i \in 1 .. Cardinality(K)
  PROVE  /\ Nth(K, i) \in K
         /\ Cardinality(Below(K, Nth(K, i))) = i - 1
<1> DEFINE n == Cardinality(K)
           rank == [k \in K |-> Cardinality(Below(K, k))]
<1>n. n \in Nat
  BY FS_CardinalityType
<1>1. ASSUME NEW k \in K
      PROVE  /\ IsFiniteSet(Below(K, k))
             /\ Cardinality(Below(K, k)) \in 0 .. n - 1
  <2>1. Below(K, k) \in SUBSET K /\ k \notin Below(K, k)
    BY DEF Below
  <2>2. IsFiniteSet(Below(K, k)) /\ Cardinality(Below(K, k)) <= n
    BY <2>1, FS_Subset
  <2>3. Cardinality(Below(K, k)) # n
    BY <2>1, FS_Subset
  <2>4. Cardinality(Below(K, k)) \in Nat
    BY <2>2, FS_CardinalityType
  <2> QED BY <2>2, <2>3, <2>4, <1>n
<1>2. ASSUME NEW a \in K, NEW b \in K, a < b
      PROVE  rank[a] < rank[b]
  <2>1. Below(K, a) \in SUBSET Below(K, b) /\ a \in Below(K, b) /\ a \notin Below(K, a)
    BY <1>2, BelowGrows
  <2>2. Cardinality(Below(K, a)) <= Cardinality(Below(K, b))
        /\ Cardinality(Below(K, a)) # Cardinality(Below(K, b))
    BY <2>1, <1>1, FS_Subset
  <2> QED BY <2>2, <1>1
<1>3. rank \in [K -> 0 .. n - 1]
  BY <1>1
<1>4. rank \in Injection(K, 0 .. n - 1)
  <2>1. ASSUME NEW a \in K, NEW b \in K, rank[a] = rank[b] PROVE a = b
    <3>1. rank[a] \in Int /\ rank[b] \in Int
      BY <1>3
    <3>2. ~(a < b) /\ ~(b < a)
      BY <1>2, <2>1, <3>1
    <3> QED BY <3>2
  <2> QED BY <2>1, <1>3, Fun_IsInj
<1>5. rank \in Surjection(K, 0 .. n - 1)
  <2>1. IsFiniteSet(0 .. n - 1) /\ Cardinality(0 .. n - 1) = n
    <3>1. 0 \in Int /\ n - 1 \in Int
      BY <1>n
    <3>2. Cardinality(0 .. n - 1) = IF 0 > n - 1 THEN 0 ELSE n - 1 - 0 + 1
      BY <3>1, FS_Interval
    <3>3. IsFiniteSet(0 .. n - 1)
      BY <3>1, FS_Interval
    <3> HIDE DEF n
    <3> QED BY <3>2, <3>3, <1>n
  <2> QED BY <2>1, <1>4, FS_Injection
<1>6. PICK k \in K : rank[k] = i - 1
  <2>1. \A r \in 0 .. n - 1 : \E k \in K : rank[k] = r
    BY <1>5 DEF Surjection
  <2>2. i - 1 \in 0 .. n - 1
    BY <1>n
  <2> QED BY <2>1, <2>2
<1>7. \E j \in K : Cardinality({l \in K : l < j}) = i - 1
  BY <1>6 DEF Below
<1> QED BY <1>7 DEF Nth, Below

\* A filtered queue is a queue of the same items; every item in it was in the
\* original at a chosen position.
THEOREM KeepSelects ==
  ASSUME NEW S, NEW s \in Seq(S), NEW K \in SUBSET DOMAIN s
  PROVE  /\ Keep(s, K) \in Seq(S)
         /\ Len(Keep(s, K)) = Cardinality(K)
         /\ \A i \in 1 .. Cardinality(K) : \E k \in K : Keep(s, K)[i] = s[k]
<1>1. IsFiniteSet(K) /\ K \in SUBSET Nat /\ Cardinality(K) \in Nat
  <2>1. IsFiniteSet(1 .. Len(s))
    BY FS_Interval
  <2> QED BY <2>1, FS_Subset, FS_CardinalityType
<1>2. \A i \in 1 .. Cardinality(K) : Nth(K, i) \in K
  BY <1>1, NthIsMember
<1>3. \A i \in 1 .. Cardinality(K) : Keep(s, K)[i] = s[Nth(K, i)]
  BY DEF Keep
<1>4. Keep(s, K) \in [1 .. Cardinality(K) -> S]
  BY <1>2 DEF Keep
<1>5. Keep(s, K) \in Seq(S) /\ Len(Keep(s, K)) = Cardinality(K)
  BY <1>1, <1>4 DEF Keep
<1> QED BY <1>2, <1>3, <1>5

\* Keep copies the chosen positions in their order.
THEOREM KeepInOrder ==
  ASSUME NEW S, NEW s \in Seq(S), NEW K \in SUBSET DOMAIN s
  PROVE  /\ \A i \in 1 .. Cardinality(K) : Nth(K, i) \in K /\ Keep(s, K)[i] = s[Nth(K, i)]
         /\ \A i, j \in 1 .. Cardinality(K) : i < j => Nth(K, i) < Nth(K, j)
<1>1. IsFiniteSet(K) /\ K \in SUBSET Nat /\ Cardinality(K) \in Nat
  <2>1. IsFiniteSet(1 .. Len(s))
    BY FS_Interval
  <2> QED BY <2>1, FS_Subset, FS_CardinalityType
<1>2. \A i \in 1 .. Cardinality(K) :
        Nth(K, i) \in K /\ Cardinality(Below(K, Nth(K, i))) = i - 1
  BY <1>1, NthIsMember
<1>3. ASSUME NEW i \in 1 .. Cardinality(K), NEW j \in 1 .. Cardinality(K), i < j
      PROVE  Nth(K, i) < Nth(K, j)
  <2> DEFINE a == Nth(K, i)
             b == Nth(K, j)
  <2>1. /\ a \in K /\ b \in K /\ a \in Nat /\ b \in Nat
        /\ Cardinality(Below(K, a)) = i - 1 /\ Cardinality(Below(K, b)) = j - 1
    BY <1>1, <1>2
  <2>2. i - 1 < j - 1 /\ i \in Nat /\ j \in Nat
    BY <1>1, <1>3
  <2> HIDE DEF a, b
  <2>3. a # b
    BY <2>1, <2>2
  <2>4. ~(b < a)
    <3>1. SUFFICES ASSUME b < a PROVE FALSE
      OBVIOUS
    <3>2. Below(K, b) \in SUBSET Below(K, a)
      BY <1>1, <2>1, <3>1, BelowGrows
    <3>3. IsFiniteSet(Below(K, a))
      BY <1>1, FS_Subset DEF Below
    <3>4. Cardinality(Below(K, b)) <= Cardinality(Below(K, a))
      BY <3>2, <3>3, FS_Subset
    <3> QED BY <2>1, <2>2, <3>4
  <2> QED BY <2>1, <2>3, <2>4 DEF a, b
<1> QED BY <1>2, <1>3 DEF Keep

-----------------------------------------------------------------------------
(* What the helpers return.                                                *)

\* A write of the job row leaves a job row and a ledger.
LEMMA SavedTypes ==
  ASSUME TypeOK, NEW j \in Job, NEW phase \in Phases,
         NEW w \in [Requests -> Row]
  PROVE  /\ SavedJob(j, phase) \in Job
         /\ SavedWork(w, j, phase) \in [Requests -> Row]
<1>1. SavedJob(j, phase) \in Job
  BY DEF SavedJob, Job, Phases
<1>2. ASSUME NEW r \in Requests
      PROVE  SavedWork(w, j, phase)[r] \in Row
  <2>1. w[r] \in Row
    OBVIOUS
  <2> QED BY <2>1 DEF SavedWork, Row, Job, JobStates
<1>3. SavedWork(w, j, phase) = [r \in Requests |-> SavedWork(w, j, phase)[r]]
  BY DEF SavedWork
<1> QED BY <1>1, <1>2, <1>3

\* Save and SavePhase leave a job row and a ledger.
LEMMA SaveTypes ==
  ASSUME TypeOK, NEW j \in Job
  PROVE  /\ Save(j) => job' \in Job /\ work' \in [Requests -> Row]
         /\ \A phase \in Phases :
              SavePhase(j, phase) => job' \in Job /\ work' \in [Requests -> Row]
<1>1. work \in [Requests -> Row] /\ "" \in Phases
  BY DEF TypeOK, Phases
<1> QED BY <1>1, SavedTypes DEF Save, SavePhase

\* The runtime of a job nobody has served yet.
LEMMA IdleType == IdleRuntime \in Runtime
<1>1. <<>> \in Seq(Item)
  BY EmptySeq
<1> QED BY <1>1 DEF IdleRuntime, Runtime

\* An enqueued item joins the queue at one end.
LEMMA PushedType ==
  ASSUME NEW S, NEW queue \in Seq(S), NEW item \in S
  PROVE  Pushed(queue, item) \in Seq(S)
<1>1. <<item>> \in Seq(S)
  OBVIOUS
<1> QED BY <1>1 DEF Pushed

\* The requests Continue restores are requests.
LEMMA UnservedType ==
  ASSUME order \in Seq(Requests)
  PROVE  Unserved \in Seq(Requests)
<1> DEFINE waiting == {k \in DOMAIN order : /\ work[order[k]].phase = "queued"
                                            /\ work[order[k]].state # "cancelled"
                                            /\ order[k] # job.request}
<1>1. waiting \in SUBSET DOMAIN order
  OBVIOUS
<1>2. Keep(order, waiting) \in Seq(Requests)
  BY <1>1, KeepSelects
<1> QED BY <1>2 DEF Unserved
-----------------------------------------------------------------------------
(* Type correctness.                                                       *)

LEMMA InitType == Init => TypeOK
<1> SUFFICES ASSUME NEW r \in Requests, Dispatched(r) PROVE TypeOK
  BY DEF Init
<1>1. job \in Job
  BY DEF Dispatched, Job, JobStates, Pauses, Deliveries, Phases
<1>2. work \in [Requests -> Row]
  BY DEF Dispatched, Row, NoRow, Phases, JobStates
<1>3. rt \in Runtime
  BY IdleType DEF Dispatched
<1>4. order \in Seq(Requests)
  <2>1. <<r>> \in Seq(Requests)
    OBVIOUS
  <2> QED BY <2>1 DEF Dispatched
<1> QED BY <1>1, <1>2, <1>3, <1>4
       DEF Dispatched, TypeOK, Ask, NoAsk, NoListeners

\* What a turn, an item and the runtime look like after the small updates.
LEMMA MovedType ==
  ASSUME TypeOK, NEW t \in turns, NEW out \in Outcomes,
         NEW stage \in {"loading", "sent", "returned"}, Moved(t, stage, out)
  PROVE  turns' \subseteq Turn
<1>1. t \in Turn
  BY DEF TypeOK
<1>2. [t EXCEPT !.stage = stage, !.out = out] \in Turn
  BY <1>1 DEF Turn
<1> QED BY <1>2 DEF Moved, TypeOK

LEMMA DisconnectedTypes ==
  ASSUME TypeOK
  PROVE  /\ DisconnectedJob \in Job
         /\ \A r \in Runtime : DisconnectedRt(r) \in Runtime
<1>1. DisconnectedJob \in Job
  BY DEF TypeOK, DisconnectedJob, Job, JobStates, Pauses, Deliveries
<1>2. <<>> \in Seq(Item)
  BY EmptySeq
<1>3. ASSUME NEW r \in Runtime PROVE DisconnectedRt(r) \in Runtime
  <2>1. r.gen + 1 \in Nat
    BY DEF Runtime
  <2> QED BY <1>2, <2>1 DEF DisconnectedRt, Runtime
<1> QED BY <1>1, <1>3

LEMMA RestampedType ==
  ASSUME NEW queue \in Seq(Item), NEW gen \in Nat
  PROVE  Restamped(queue, gen) \in Seq(Item)
<1>1. ASSUME NEW k \in DOMAIN queue PROVE [queue[k] EXCEPT !.gen = gen] \in Item
  <2>1. queue[k] \in Item
    OBVIOUS
  <2> QED BY <2>1 DEF Item
<1> QED BY <1>1 DEF Restamped

LEMMA ReleasedType == TypeOK => Released \in Runtime
BY DEF TypeOK, Released, Runtime

\* The steps of startJob keep every type.
LEMMA SessionTypes ==
  ASSUME TypeOK, Session PROVE TypeOK'
<1>1. /\ StarterJob \in Job
      /\ \A state \in JobStates : [StarterJob EXCEPT !.state = state] \in Job
  BY DEF TypeOK, StarterJob, Job, JobStates, Pauses, Deliveries, Phases
<1>2. CASE StartJob
  <2>1. job' \in Job /\ work' \in [Requests -> Row]
    BY <1>1, <1>2, SaveTypes DEF StartJob
  <2> QED BY <1>2, <2>1 DEF StartJob, TypeOK, Runtime
<1>3. ASSUME NEW ok \in BOOLEAN, SessionSuperseded(ok) PROVE TypeOK'
  <2>1. job' \in Job /\ work' \in [Requests -> Row]
    BY <1>3, SaveTypes DEF SessionSuperseded, TypeOK
  <2> QED BY <1>3, <2>1 DEF SessionSuperseded, TypeOK
<1>4. CASE SessionFailed
  <2>1. job' \in Job /\ work' \in [Requests -> Row]
    BY <1>1, <1>4, SaveTypes DEF SessionFailed, JobStates
  <2> QED BY <1>4, <2>1 DEF SessionFailed, TypeOK
<1>5. CASE SessionCreated
  <2>1. job' \in Job /\ work' \in [Requests -> Row]
    BY <1>1, <1>5, SaveTypes DEF SessionCreated, JobStates
  <2>2. rt' \in Runtime
    <3> DEFINE item == [req |-> starter.req, kind |-> "plan", connect |-> FALSE,
                        text |-> "prompt", gen |-> rt.gen]
    <3>1. item \in Item /\ rt.queue \in Seq(Item)
      BY DEF TypeOK, Runtime, Item
    <3>2. Append(rt.queue, item) \in Seq(Item)
      BY <3>1
    <3>3. rt' = [rt EXCEPT !.queue = Append(@, item)]
      BY <1>5 DEF SessionCreated
    <3> HIDE DEF item
    <3> QED BY <3>2, <3>3 DEF TypeOK, Runtime
  <2>3. pumps' \in Nat
    BY <1>5 DEF SessionCreated, TypeOK
  <2>4. Overtaken \in BOOLEAN
    BY DEF Overtaken
  <2>5. starter' \in [stage : {"new", "creating", "done", "failed"}, gen : Nat,
                      req : Requests, late : BOOLEAN]
    BY <1>5, <2>4 DEF SessionCreated, TypeOK
  <2> QED BY <1>5, <2>1, <2>2, <2>3, <2>5 DEF SessionCreated, TypeOK
<1> QED BY <1>2, <1>3, <1>4, <1>5 DEF Session

LEMMA FollowupType ==
  ASSUME TypeOK, NEW r \in Requests, Followup(r) PROVE TypeOK'
<1> DEFINE item == [req |-> r, kind |-> "followup", connect |-> TRUE,
                    text |-> "prompt", gen |-> rt.gen]
           j == IF rt.busy THEN job
                ELSE [job EXCEPT !.request = r, !.state = "active", !.pause = ""]
<1>1. item \in Item /\ j \in Job
  BY DEF TypeOK, Item, Runtime, Job, JobStates, Pauses
<1>2. Inserted(work, r) \in [Requests -> Row]
  BY DEF TypeOK, Inserted, Row, Phases
<1>3. job' \in Job /\ work' \in [Requests -> Row]
  <2>1. "" \in Phases
    BY DEF Phases
  <2> QED BY <1>1, <1>2, <2>1, SavedTypes DEF Followup
<1>4. rt' \in Runtime
  <2>1. rt.queue \in Seq(Item)
    BY DEF TypeOK, Runtime
  <2>2. Pushed(rt.queue, item) \in Seq(Item)
    BY <1>1, <2>1, PushedType
  <2> QED BY <2>2 DEF Followup, TypeOK, Runtime
<1>5. order' \in Seq(Requests)
  <2>1. order \in Seq(Requests) /\ order' = Append(order, r)
    BY DEF Followup, TypeOK
  <2> QED BY <2>1
<1>6. pumps' \in Nat
  <2>1. pumps' = IF rt.busy THEN pumps ELSE pumps + 1
    BY DEF Followup
  <2> QED BY <2>1 DEF TypeOK
<1> QED BY <1>3, <1>4, <1>5, <1>6 DEF Followup, TypeOK

LEMMA ContinueType ==
  ASSUME TypeOK, Continue PROVE TypeOK'
<1> DEFINE text == IF work[job.request].phase \in {"queued", "preparing"}
                   THEN "prompt" ELSE "resume"
           item == [req |-> job.request, kind |-> "continue", connect |-> TRUE,
                    text |-> text, gen |-> rt.gen]
           restore == rt.queue = <<>> /\ (~rt.busy \/ rt.cancelledTurn)
           restored == IF restore
                       THEN [i \in DOMAIN Unserved |->
                               [req |-> Unserved[i], kind |-> "followup",
                                connect |-> TRUE, text |-> "prompt", gen |-> rt.gen]]
                       ELSE <<>>
<1>1. item \in Item
  BY DEF TypeOK, Item, Runtime, Job
<1>2. restored \in Seq(Item)
  <2>1. Unserved \in Seq(Requests)
    BY UnservedType DEF TypeOK
  <2>2. \A i \in DOMAIN Unserved :
          [req |-> Unserved[i], kind |-> "followup", connect |-> TRUE,
           text |-> "prompt", gen |-> rt.gen] \in Item
    BY <2>1 DEF Item, TypeOK, Runtime
  <2> QED BY <2>1, <2>2, EmptySeq
<1>3. job' \in Job /\ work' \in [Requests -> Row]
  <2>1. [job EXCEPT !.state = "active", !.pause = "", !.delivery = ""] \in Job
    BY DEF TypeOK, Job, JobStates, Pauses, Deliveries
  <2> QED BY <2>1, SaveTypes DEF Continue
<1>4. rt' \in Runtime
  <2>1. rt.queue \in Seq(Item)
    BY DEF TypeOK, Runtime
  <2>2. Pushed(rt.queue, item) \o restored \in Seq(Item)
    BY <1>1, <1>2, <2>1, PushedType, ConcatProperties
  <2>3. rt' = [rt EXCEPT !.queue = Pushed(@, item) \o restored]
    BY DEF Continue
  <2> HIDE DEF item, restored
  <2> QED BY <2>2, <2>3 DEF TypeOK, Runtime
<1>5. pumps' \in Nat
  <2>1. Len(restored) \in Nat
    BY <1>2, LenProperties
  <2>2. pumps' = IF rt.busy THEN pumps ELSE pumps + 1 + Len(restored)
    BY DEF Continue
  <2> HIDE DEF restored
  <2> QED BY <2>1, <2>2 DEF TypeOK
<1> QED BY <1>3, <1>4, <1>5 DEF Continue, TypeOK

LEMMA PumpType ==
  ASSUME TypeOK, PumpPops PROVE TypeOK'
<1> DEFINE item == Head(rt.queue)
<1>1. /\ rt.queue \in Seq(Item) /\ rt.queue # <<>>
      /\ rt' = [rt EXCEPT !.queue = Tail(rt.queue), !.busy = TRUE,
                          !.turn = issued + 1, !.req = item.req,
                          !.cancelledTurn = FALSE]
      /\ turns' = turns \cup {[id |-> issued + 1, item |-> item,
                               stage |-> "loading", out |-> "none",
                               seen |-> job.delivery]}
      /\ SavePhase([job EXCEPT !.request = item.req, !.state = "active",
                               !.pause = ""], "preparing")
  BY DEF PumpPops, PumpMayPop, TypeOK, Runtime
<1>2. item \in Item /\ Tail(rt.queue) \in Seq(Item)
  BY <1>1, HeadTailProperties
<1>3. item.req \in Requests
  BY <1>2 DEF Item
<1> HIDE DEF item
<1>4. rt' \in Runtime
  <2>1. issued + 1 \in Nat
    BY DEF TypeOK
  <2> QED BY <1>1, <1>2, <1>3, <2>1 DEF TypeOK, Runtime
<1>5. turns' \subseteq Turn
  <2>1. [id |-> issued + 1, item |-> item, stage |-> "loading", out |-> "none",
         seen |-> job.delivery] \in Turn
    BY <1>2 DEF TypeOK, Turn, Outcomes, Job
  <2> QED BY <1>1, <2>1 DEF TypeOK
<1>6. job' \in Job /\ work' \in [Requests -> Row]
  <2>1. [job EXCEPT !.request = item.req, !.state = "active", !.pause = ""] \in Job
    BY <1>3 DEF TypeOK, Job, JobStates, Pauses
  <2>2. "preparing" \in Phases
    BY DEF Phases
  <2> QED BY <1>1, <2>1, <2>2, SaveTypes
<1>7. pumps' \in Nat /\ issued' \in Nat
  BY DEF PumpPops, TypeOK
<1> QED BY <1>4, <1>5, <1>6, <1>7 DEF PumpPops, TypeOK

\* The steps of a turn up to the return of its prompt.
LEMMA RunTypes ==
  ASSUME TypeOK, NEW t \in turns
  PROVE  /\ \A out \in {"nil", "lost", "refused"} : PrepareFails(t, out) => TypeOK'
         /\ SendPrompt(t) => TypeOK'
         /\ DropStale(t) => TypeOK'
         /\ \A out \in Outcomes : PromptReturns(t, out) => TypeOK'
         /\ \A pause \in Pauses : OnApproval(t, pause) => TypeOK'
<1>1. ASSUME NEW out \in {"nil", "lost", "refused"}, PrepareFails(t, out)
      PROVE  TypeOK'
  <2>1. turns' \subseteq Turn
    BY <1>1, MovedType DEF PrepareFails, Outcomes
  <2> QED BY <1>1, <2>1 DEF PrepareFails, TypeOK
<1>2. ASSUME SendPrompt(t) PROVE TypeOK'
  <2>1. turns' \subseteq Turn
    BY <1>2, MovedType DEF SendPrompt, Outcomes
  <2>2. job' \in Job /\ work' \in [Requests -> Row]
    <3>1. job \in Job /\ "sent" \in Phases
      BY DEF TypeOK, Phases
    <3> QED BY <1>2, <3>1, SaveTypes DEF SendPrompt
  <2>3. sent' \in [Requests -> Nat]
    <3>1. t.item.req \in Requests
      BY DEF TypeOK, Turn, Item
    <3> QED BY <1>2, <3>1 DEF SendPrompt, TypeOK
  <2> QED BY <1>2, <2>1, <2>2, <2>3 DEF SendPrompt, TypeOK
<1>3. ASSUME DropStale(t) PROVE TypeOK'
  <2>1. turns' \subseteq Turn
    BY <1>3, MovedType DEF DropStale, Outcomes
  <2> QED BY <1>3, <2>1 DEF DropStale, TypeOK
<1>4. ASSUME NEW out \in Outcomes, PromptReturns(t, out) PROVE TypeOK'
  <2>1. (IF Stale(t) THEN "nil" ELSE out) \in Outcomes
    BY DEF Outcomes
  <2>2. turns' \subseteq Turn
    BY <1>4, <2>1, MovedType DEF PromptReturns
  <2> QED BY <1>4, <2>2 DEF PromptReturns, TypeOK
<1>5. ASSUME NEW pause \in Pauses, OnApproval(t, pause) PROVE TypeOK'
  <2>0. asked + 1 \in Nat
    BY DEF TypeOK
  <2>1. [job EXCEPT !.state = "plan_ready", !.approval = asked + 1,
                    !.delivery = "pending", !.pause = pause] \in Job
    BY <2>0 DEF TypeOK, Job, JobStates, Deliveries
  <2>2. job' \in Job /\ work' \in [Requests -> Row]
    BY <1>5, <2>1, SaveTypes DEF OnApproval
  <2>3. ask' \in Ask /\ asked' \in Nat
    BY <1>5 DEF OnApproval, TypeOK, Turn, Ask
  <2> QED BY <1>5, <2>2, <2>3 DEF OnApproval, TypeOK
<1> QED BY <1>1, <1>2, <1>3, <1>4, <1>5

\* The tail of a pump round.
LEMMA FinishTypes ==
  ASSUME TypeOK, NEW t \in turns, Finish(t) PROVE TypeOK'
<1>1. /\ turns' \subseteq Turn /\ revoked' \subseteq Nat
      /\ pumps + LoopAgain \in Nat /\ pumps + LoopAgain + 1 \in Nat
      /\ Released \in Runtime /\ t.item \in Item /\ t.seen \in Deliveries
      /\ t.id \in Nat /\ job \in Job /\ rt.queue \in Seq(Item)
  <2>1. turns' = turns \ {t} /\ revoked' = revoked \ {t.id}
    BY DEF Finish, FinishNothing, FinishLost, FinishFailed, FinishApplied, Finishes
  <2>2. turns' \subseteq Turn /\ revoked' \subseteq Nat
    BY <2>1, Zenon DEF TypeOK
  <2>3. LoopAgain \in {0, 1}
    BY DEF LoopAgain
  <2>4. pumps + LoopAgain \in Nat /\ pumps + LoopAgain + 1 \in Nat
    BY <2>3 DEF TypeOK
  <2>5. t \in Turn
    BY DEF TypeOK
  <2>6. t.item \in Item /\ t.seen \in Deliveries /\ t.id \in Nat
    BY <2>5 DEF Turn
  <2> QED BY <2>2, <2>4, <2>6, ReleasedType DEF TypeOK, Runtime
<1>2. CASE FinishNothing(t)
  BY <1>1, <1>2 DEF FinishNothing, Finishes, TypeOK
<1>3. CASE FinishLost(t)
  <2>1. job' \in Job /\ work' \in [Requests -> Row]
    BY <1>3, DisconnectedTypes, SaveTypes DEF FinishLost
  <2>2. rt' \in Runtime
    BY <1>1, <1>3, DisconnectedTypes DEF FinishLost
  <2> QED BY <1>1, <1>3, <2>1, <2>2 DEF FinishLost, Finishes, TypeOK
<1>4. CASE FinishFailed(t)
  <2> DEFINE base == IF t.out = "refused"
                     THEN [job EXCEPT !.delivery = t.seen, !.pause = ""] ELSE job
             down == [base EXCEPT !.state = "failed"]
             j == IF base.delivery = "submitted"
                  THEN [down EXCEPT !.delivery = "unknown",
                                    !.pause = "approval_delivery_unknown"]
                  ELSE down
  <2>1. base \in Job
    BY <1>1 DEF Job, Pauses
  <2>2. j \in Job
    <3> HIDE DEF base
    <3> QED BY <2>1 DEF Job, JobStates, Pauses, Deliveries
  <2>3. Save(j)
    BY <1>4 DEF FinishFailed
  <2>4. job' \in Job /\ work' \in [Requests -> Row]
    <3> HIDE DEF j
    <3> QED BY <2>2, <2>3, SaveTypes
  <2> QED BY <1>1, <1>4, <2>4 DEF FinishFailed, Finishes, TypeOK
<1>5. CASE FinishApplied(t)
  <2> DEFINE resultState == MarkState(t.out)
             j == [job EXCEPT
                     !.state = StateAfter(resultState),
                     !.pause = IF t.out = "unmarked" THEN "review_required" ELSE "",
                     !.delivery = Confirmed(@)]
             again == [req |-> t.item.req, kind |-> "continue", connect |-> FALSE,
                       text |-> "resume", gen |-> rt.gen]
  <2>1. /\ job' = SavedJob(j, "returned")
        /\ work' = [SavedWork(work, j, "returned") EXCEPT
                      ![t.item.req].state = resultState]
        /\ results' = results \cup {[turn |-> t.id, req |-> t.item.req]}
        /\ rt' = IF t.out = "working"
                 THEN [Released EXCEPT !.queue = Pushed(@, again)] ELSE Released
        /\ pumps' = pumps + LoopAgain + (IF t.out = "working" THEN 1 ELSE 0)
    BY <1>5 DEF FinishApplied
  <2>2. resultState \in JobStates /\ StateAfter(resultState) \in JobStates
    BY <1>5 DEF FinishApplied, Marks, MarkState, StateAfter, JobStates
  <2>3. j \in Job
    <3>1. Confirmed(job.delivery) \in Deliveries
      BY <1>1 DEF Job, Confirmed, Deliveries
    <3> QED BY <1>1, <2>2, <3>1 DEF Job, Pauses
  <2> HIDE DEF j, resultState
  <2>4. job' \in Job /\ SavedWork(work, j, "returned") \in [Requests -> Row]
    <3>1. "returned" \in Phases /\ work \in [Requests -> Row]
      BY DEF Phases, TypeOK
    <3> QED BY <2>1, <2>3, <3>1, SavedTypes
  <2>5. work' \in [Requests -> Row]
    BY <2>1, <2>2, <2>4 DEF Row
  <2>6. results' \subseteq Result
    BY <1>1, <2>1 DEF TypeOK, Result, Item
  <2>7. rt' \in Runtime
    <3>1. again \in Item
      BY <1>1 DEF Item, TypeOK, Runtime
    <3>2. Released.queue = rt.queue
      BY DEF Released, TypeOK, Runtime
    <3>3. Pushed(Released.queue, again) \in Seq(Item)
      BY <1>1, <3>1, <3>2, PushedType
    <3> HIDE DEF again
    <3> QED BY <1>1, <2>1, <3>3 DEF Runtime
  <2>8. pumps' \in Nat
    BY <1>1, <2>1
  <2> QED BY <1>1, <1>5, <2>4, <2>5, <2>6, <2>7, <2>8
         DEF FinishApplied, Finishes, TypeOK
<1> QED BY <1>2, <1>3, <1>4, <1>5 DEF Finish

\* A lost connection, the visits of connectionLost, and a restart.
LEMMA FaultTypes ==
  ASSUME TypeOK
  PROVE  /\ ConnectionLost => TypeOK'
         /\ ListJobs => TypeOK'
         /\ Disconnect => TypeOK'
         /\ Restart => TypeOK'
<1>1. ASSUME ConnectionLost PROVE TypeOK'
  <2>1. turns' \subseteq Turn
    <3>1. ASSUME NEW t \in turns, t.stage = "sent"
          PROVE  [t EXCEPT !.stage = "returned",
                           !.out = IF Stale(t) THEN "nil" ELSE "lost"] \in Turn
      <4>1. t \in Turn /\ (IF Stale(t) THEN "nil" ELSE "lost") \in Outcomes
        BY DEF TypeOK, Outcomes
      <4> QED BY <4>1 DEF Turn
    <3> QED BY <1>1, <3>1 DEF ConnectionLost, TypeOK
  <2>2. NoAsk \in Ask
    BY DEF NoAsk, Ask
  <2>3. /\ ask' = NoAsk /\ faults' = faults + 1
        /\ listeners' = [listeners EXCEPT !.noticed = @ + 1]
        /\ UNCHANGED <<job, work, order, results, rt, pumps, cancels, deciders,
                       starter, issued, asked, revoked, sent, calls>>
    BY <1>1 DEF ConnectionLost
  <2>4. listeners' \in [noticed : Nat, visiting : Nat] /\ faults' \in Nat
    <3>1. listeners.noticed + 1 \in Nat /\ faults + 1 \in Nat
      BY DEF TypeOK
    <3> QED BY <2>3, <3>1 DEF TypeOK
  <2> QED BY <2>1, <2>2, <2>3, <2>4 DEF TypeOK
<1>2. ASSUME ListJobs PROVE TypeOK'
  <2>1. listeners' \in [noticed : Nat, visiting : Nat]
    <3>1. \E n \in {0, 1} : listeners' = [noticed |-> listeners.noticed - 1,
                                          visiting |-> listeners.visiting + n]
      BY <1>2 DEF ListJobs
    <3>2. listeners.noticed - 1 \in Nat /\ listeners.visiting \in Nat
      BY <1>2 DEF ListJobs, TypeOK
    <3> QED BY <3>1, <3>2
  <2> QED BY <1>2, <2>1 DEF ListJobs, TypeOK
<1>3. ASSUME Disconnect PROVE TypeOK'
  <2>1. job' \in Job /\ work' \in [Requests -> Row]
    BY <1>3, DisconnectedTypes, SaveTypes DEF Disconnect, TypeOK
  <2>2. rt' \in Runtime
    BY <1>3, DisconnectedTypes DEF Disconnect, TypeOK
  <2>3. InFlight \subseteq Nat
    BY DEF InFlight, TypeOK, Turn
  <2>4. revoked' \subseteq Nat
    BY <1>3, <2>3 DEF Disconnect, TypeOK
  <2>5. listeners' \in [noticed : Nat, visiting : Nat]
    <3>1. listeners.visiting - 1 \in Nat /\ listeners.noticed \in Nat
      BY <1>3 DEF Disconnect, TypeOK
    <3>2. listeners' = [listeners EXCEPT !.visiting = @ - 1]
      BY <1>3 DEF Disconnect
    <3> QED BY <3>1, <3>2 DEF TypeOK
  <2> QED BY <1>3, <2>1, <2>2, <2>4, <2>5 DEF Disconnect, TypeOK
<1>4. ASSUME Restart PROVE TypeOK'
  <2>1. ResumeJob \in Job
    <3> DEFINE expired == IF job.state = "plan_ready"
                          THEN [job EXCEPT !.pause = "approval_expired",
                                           !.delivery = "expired"]
                          ELSE job
               unknown == IF expired.delivery = "submitted"
                          THEN [expired EXCEPT !.delivery = "unknown",
                                               !.pause = "approval_delivery_unknown"]
                          ELSE expired
               reason == IF unknown.pause # "" THEN unknown.pause
                         ELSE IF job.phase \in {"queued", "preparing"}
                         THEN "request_not_sent" ELSE "execution_unknown"
    <3>1. expired \in Job
      BY DEF TypeOK, Job, Pauses, Deliveries
    <3>2. unknown \in Job
      <4> HIDE DEF expired
      <4> QED BY <3>1 DEF Job, Pauses, Deliveries
    <3>3. reason \in Pauses
      <4> HIDE DEF unknown
      <4> QED BY <3>2 DEF Job, Pauses
    <3>4. [unknown EXCEPT !.state = "disconnected", !.pause = reason] \in Job
      <4> HIDE DEF unknown, reason
      <4> QED BY <3>2, <3>3 DEF Job, JobStates
    <3>5. ResumeJob = IF IsActive(job.state) \/ job.state = "disconnected"
                      THEN [unknown EXCEPT !.state = "disconnected", !.pause = reason]
                      ELSE unknown
      BY Zenon DEF ResumeJob
    <3> HIDE DEF unknown, reason
    <3> QED BY <3>2, <3>4, <3>5
  <2>2. job' \in Job /\ work' \in [Requests -> Row]
    BY <1>4, <2>1, SaveTypes DEF Restart, TypeOK
  <2>3. NoAsk \in Ask /\ NoListeners \in [noticed : Nat, visiting : Nat]
    BY DEF NoAsk, Ask, NoListeners
  <2>4. starter' \in [stage : {"new", "creating", "done", "failed"}, gen : Nat,
                      req : Requests, late : BOOLEAN]
    BY <1>4 DEF Restart, TypeOK
  <2>5. /\ rt' = IdleRuntime /\ pumps' = 0 /\ turns' = {} /\ cancels' = {}
        /\ deciders' = {} /\ ask' = NoAsk /\ listeners' = NoListeners
        /\ revoked' = {} /\ faults' = faults + 1
        /\ UNCHANGED <<order, results, issued, asked, sent, calls>>
    BY <1>4 DEF Restart
  <2> QED BY <2>2, <2>3, <2>4, <2>5, IdleType DEF TypeOK
<1> QED BY <1>1, <1>2, <1>3, <1>4

\* Decisions on plans.
LEMMA DecisionTypes ==
  ASSUME TypeOK
  PROVE  /\ AskDropped => TypeOK'
         /\ \A d \in Decision : PlanDecide(d) => TypeOK'
         /\ \A d \in deciders, res \in {"ok", "err"} : ResolveApproval(d, res) => TypeOK'
         /\ \A d \in deciders : PlanDecided(d) => TypeOK'
<1>1. NoAsk \in Ask
  BY DEF NoAsk, Ask
<1>2. ASSUME AskDropped PROVE TypeOK'
  BY <1>1, <1>2 DEF AskDropped, TypeOK
<1>3. ASSUME NEW d \in Decision, PlanDecide(d) PROVE TypeOK'
  <2> DEFINE j == [job EXCEPT !.delivery = "submitted", !.pause = "approval_delivery",
                              !.state = IF d = "cancel" THEN "cancelled" ELSE "active",
                              !.cancelled = (d = "cancel")]
  <2>1. j \in Job
    <3>1. (d = "cancel") \in BOOLEAN
      OBVIOUS
    <3> QED BY <3>1 DEF TypeOK, Job, JobStates, Pauses, Deliveries
  <2>2. Save(j)
    BY <1>3 DEF PlanDecide
  <2>3. job' \in Job /\ work' \in [Requests -> Row]
    <3> HIDE DEF j
    <3> QED BY <2>1, <2>2, SaveTypes
  <2>4. deciders' \subseteq Decider
    <3>1. [id |-> job.approval, decide |-> d, res |-> ""] \in Decider
      BY DEF TypeOK, Decider, Job
    <3>2. deciders' = deciders \cup {[id |-> job.approval, decide |-> d, res |-> ""]}
      BY <1>3 DEF PlanDecide
    <3> QED BY <3>1, <3>2 DEF TypeOK
  <2>5. /\ calls' = calls + 1
        /\ UNCHANGED <<order, results, rt, pumps, turns, cancels, ask, starter,
                       issued, asked, revoked, sent, faults, listeners>>
    BY <1>3 DEF PlanDecide
  <2>6. calls' \in Nat
    BY <2>5 DEF TypeOK
  <2> QED BY <2>3, <2>4, <2>5, <2>6 DEF TypeOK
<1>4. ASSUME NEW d \in deciders, NEW res \in {"ok", "err"}, ResolveApproval(d, res)
      PROVE  TypeOK'
  <2>1. d \in Decider
    BY DEF TypeOK
  <2>2. [d EXCEPT !.res = res] \in Decider
    BY <2>1 DEF Decider
  <2>3. deciders' \subseteq Decider /\ ask' \in Ask
    BY <1>1, <1>4, <2>2 DEF ResolveApproval, TypeOK
  <2> QED BY <1>4, <2>3 DEF ResolveApproval, TypeOK
<1>5. ASSUME NEW d \in deciders, PlanDecided(d) PROVE TypeOK'
  <2>1. [job EXCEPT !.delivery = "unknown", !.state = "needs_input",
                    !.pause = "approval_delivery_unknown"] \in Job
    BY DEF TypeOK, Job, JobStates, Pauses, Deliveries
  <2>2. job' \in Job /\ work' \in [Requests -> Row]
    BY <1>5, <2>1, SaveTypes DEF PlanDecided, TypeOK
  <2>3. rt' \in Runtime
    BY <1>5, DisconnectedTypes DEF PlanDecided, TypeOK
  <2>4. InFlight \subseteq Nat
    BY DEF InFlight, TypeOK, Turn
  <2>5. revoked' \subseteq Nat
    BY <1>5, <2>4 DEF PlanDecided, TypeOK
  <2>6. deciders' \subseteq Decider
    <3>1. deciders' = deciders \ {d} /\ deciders \subseteq Decider
      BY <1>5 DEF PlanDecided, TypeOK
    <3> QED BY <3>1, Zenon
  <2>7. UNCHANGED <<order, results, pumps, turns, cancels, ask, starter, issued,
                    asked, sent, calls, faults, listeners>>
    BY <1>5 DEF PlanDecided
  <2> QED BY <2>2, <2>3, <2>5, <2>6, <2>7 DEF TypeOK
<1> QED BY <1>2, <1>3, <1>4, <1>5

\* Cancellations of a waiting request and of the running turn.
LEMMA CancelTypes ==
  ASSUME TypeOK
  PROVE  /\ \A r \in Requests : CancelQueued(r) => TypeOK'
         /\ \A r \in Requests \cup {NoRequest}, turn \in {0, rt.turn} :
              CancelChecked(r, turn) => TypeOK'
         /\ \A c \in cancels : CancelBegin(c) => TypeOK'
         /\ \A c \in cancels : CancelRefused(c) => TypeOK'
         /\ \A c \in cancels, ok \in BOOLEAN : CancelDelivered(c, ok) => TypeOK'
<1>1. ASSUME NEW r \in Requests, CancelQueued(r) PROVE TypeOK'
  <2> DEFINE K == {k \in DOMAIN rt.queue : rt.queue[k].req # r}
  <2>1. rt.queue \in Seq(Item) /\ K \in SUBSET DOMAIN rt.queue
    BY DEF TypeOK, Runtime
  <2>2. Keep(rt.queue, K) \in Seq(Item)
    BY <2>1, KeepSelects
  <2>3. rt' = [rt EXCEPT !.queue = Keep(@, K)]
    BY <1>1 DEF CancelQueued
  <2>4. rt' \in Runtime
    <3> HIDE DEF K
    <3> QED BY <2>2, <2>3 DEF TypeOK, Runtime
  <2>5. work' \in [Requests -> Row]
    BY <1>1 DEF CancelQueued, TypeOK, Row, JobStates
  <2> QED BY <1>1, <2>4, <2>5 DEF CancelQueued, TypeOK
<1>2. ASSUME NEW r \in Requests \cup {NoRequest}, NEW turn \in {0, rt.turn},
             CancelChecked(r, turn)
      PROVE  TypeOK'
  <2>1. [req |-> r, turn |-> turn, stage |-> "checked", gen |-> 0] \in CancelCall
    BY DEF CancelCall, TypeOK, Runtime
  <2> QED BY <1>2, <2>1 DEF CancelChecked, TypeOK
<1>3. ASSUME NEW c \in cancels, CancelBegin(c) PROVE TypeOK'
  <2>1. rt.gen + 1 \in Nat /\ rt.queue \in Seq(Item) /\ c \in CancelCall
    BY DEF TypeOK, Runtime
  <2>2. Restamped(rt.queue, rt.gen + 1) \in Seq(Item)
    BY <2>1, RestampedType
  <2>3. rt' \in Runtime
    BY <1>3, <2>1, <2>2 DEF CancelBegin, TypeOK, Runtime
  <2>4. [job EXCEPT !.state = "needs_input", !.pause = "cancel_delivery"] \in Job
    BY DEF TypeOK, Job, JobStates, Pauses
  <2>5. job' \in Job /\ work' \in [Requests -> Row]
    BY <1>3, <2>4, SaveTypes DEF CancelBegin
  <2>6. [c EXCEPT !.stage = "delivering", !.gen = rt.gen + 1] \in CancelCall
    BY <2>1 DEF CancelCall
  <2>7. InFlight \subseteq Nat
    BY DEF InFlight, TypeOK, Turn
  <2>8. cancels' \subseteq CancelCall /\ revoked' \subseteq Nat
    BY <1>3, <2>6, <2>7 DEF CancelBegin, TypeOK
  <2> QED BY <1>3, <2>3, <2>5, <2>8 DEF CancelBegin, TypeOK
<1>4. ASSUME NEW c \in cancels, CancelRefused(c) PROVE TypeOK'
  BY <1>4 DEF CancelRefused, TypeOK
<1>5. ASSUME NEW c \in cancels, NEW ok \in BOOLEAN, CancelDelivered(c, ok) PROVE TypeOK'
  <2>1. [job EXCEPT !.pause = IF ok THEN "" ELSE "cancel_delivery_unknown"] \in Job
    BY DEF TypeOK, Job, Pauses
  <2>2. job' \in Job /\ work' \in [Requests -> Row]
    BY <1>5, <2>1, SaveTypes DEF CancelDelivered, TypeOK
  <2>3. rt' \in Runtime
    BY <1>5 DEF CancelDelivered, Uncontrolled, TypeOK, Runtime
  <2>4. pumps' \in Nat /\ cancels' \subseteq CancelCall
    <3>1. pumps' \in {pumps, pumps + 1} /\ cancels' = cancels \ {c}
      BY <1>5 DEF CancelDelivered
    <3>2. pumps + 1 \in Nat /\ pumps \in Nat /\ cancels \subseteq CancelCall
      BY DEF TypeOK
    <3> QED BY <3>1, <3>2, Zenon
  <2> QED BY <1>5, <2>2, <2>3, <2>4 DEF CancelDelivered, TypeOK
<1> QED BY <1>1, <1>2, <1>3, <1>4, <1>5

\* Each step leaves every variable in its type.
LEMMA TypeStep == TypeOK /\ [Next]_vars => TypeOK'
<1> SUFFICES ASSUME TypeOK, [Next]_vars PROVE TypeOK'
  OBVIOUS
<1>1. CASE Session
  BY <1>1, SessionTypes
<1>2. CASE Users
  BY <1>2, FollowupType, ContinueType, CancelTypes, DecisionTypes DEF Users
<1>3. CASE PumpSkips
  BY <1>3 DEF PumpSkips, TypeOK
<1>4. CASE PumpPops
  BY <1>4, PumpType
<1>5. CASE Agent
  <2>1. ASSUME NEW t \in turns, Preparing(t) PROVE TypeOK'
    BY <2>1, RunTypes DEF Preparing
  <2>2. ASSUME NEW t \in turns, Finish(t) PROVE TypeOK'
    BY <2>2, FinishTypes
  <2>3. ASSUME NEW t \in turns, NEW out \in Outcomes, PromptReturns(t, out) PROVE TypeOK'
    BY <2>3, RunTypes
  <2>4. ASSUME NEW t \in turns, NEW pause \in Pauses, OnApproval(t, pause) PROVE TypeOK'
    BY <2>4, RunTypes
  <2> QED BY <1>5, <2>1, <2>2, <2>3, <2>4, DecisionTypes DEF Agent
<1>6. CASE Settling
  BY <1>6, FaultTypes, DecisionTypes, CancelTypes DEF Settling
<1>7. CASE Faults
  BY <1>7, FaultTypes DEF Faults
<1>8. CASE UNCHANGED vars
  BY <1>8 DEF vars, TypeOK
<1> QED BY <1>1, <1>2, <1>3, <1>4, <1>5, <1>6, <1>7, <1>8 DEF Next

\* In every reachable state, for any number of requests, each variable holds
\* a value its Go or SQL type admits.
THEOREM TypeCorrect == Spec => []TypeOK
<1>1. Init => TypeOK
  BY InitType
<1>2. TypeOK /\ [Next]_vars => TypeOK'
  BY TypeStep
<1> QED BY <1>1, <1>2, PTL DEF Spec
=============================================================================
