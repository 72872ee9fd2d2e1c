----------------------------- MODULE WaitNotify -----------------------------
(***************************************************************************)
(* Waiting for boundaries: how PutJob (store/store.go) records a boundary  *)
(* of a job as a numbered notification, how the supervisor announces a     *)
(* commit to its subscribers, and how Wait (supervisor/wait.go) reads      *)
(* several jobs one after the other until enough of them have a boundary   *)
(* its caller has not seen, or its timer ends.  The caller keeps the       *)
(* cursors it is given and calls again.                                    *)
(***************************************************************************)
EXTENDS Integers, Sequences, FiniteSets

CONSTANTS
    Jobs,        \* the jobs a caller waits for, numbered as its request lists them
    Events       \* bound: commits, reports of the watchdog, failed commits, deletions

ASSUME WaitAssumption ==
    /\ IsFiniteSet(Jobs) /\ Jobs # {} /\ Jobs \subseteq Nat
    /\ Events \in Nat

VARIABLES
    row,      \* [Jobs -> row]: the committed row, and what memory adds to it
    notes,    \* job_notifications: the snapshots in the order of their ids
    emits,    \* the jobs whose commit is not yet announced
    caller,   \* the call of Wait
    cursors,  \* [Jobs -> cursor]: what the caller was last told
    seen,     \* history: the ids of the boundaries the caller was shown
    used      \* how many of the bounded events have happened

vars == <<row, notes, emits, caller, cursors, seen, used>>

\* "completed" stands for every boundary that is not a native approval.
Boundaries == {"plan_ready", "completed"}
States == Boundaries \cup {"executing"}
\* No cursor given: not a number a cursor can have.
Unset == -1
\* `approval` stands for ApprovalID, PlanVersion, LastSummary and PauseReason: the
\* fields whose change alone makes a new boundary of the same state.  A row is `broken` while memory holds a failed commit (persistenceFailed).
Row == [state : States, request : Nat, approval : Nat,
        stalled : BOOLEAN, broken : BOOLEAN, deleted : BOOLEAN, cursor : Nat]
Modes == {"any", "all"}
Idle == [at |-> "idle"]
Cursors == [Jobs -> Nat \cup {Unset}]

\* JobState.IsBoundary or Stalled.
Boundary(r) == r.state \in Boundaries \/ r.stalled

Init ==
    /\ row = [j \in Jobs |-> [state |-> "executing", request |-> 1, approval |-> 0,
                 stalled |-> FALSE, broken |-> FALSE, deleted |-> FALSE,
                 cursor |-> 0]]
    /\ notes = <<>> /\ emits = {} /\ caller = Idle
    /\ cursors = [j \in Jobs |-> Unset] /\ seen = {}
    /\ used = 0

-----------------------------------------------------------------------------
(* Commits.                                                                *)

Told(r) == [r EXCEPT !.cursor = 0, !.broken = FALSE]
\* PutJob records a boundary only if something a caller can see of it changed.
Notifies(old, new) == Boundary(new) /\ Told(old) # Told(new)
PutJob_ForgetsCursor(j, new) ==
    IF Notifies(row[j], new)
    THEN /\ notes' = Append(notes, [job |-> j, of |-> new])
         /\ row' = [row EXCEPT ![j] = [new EXCEPT !.cursor = Len(notes) + 1]]
    ELSE row' = [row EXCEPT ![j] = [new EXCEPT !.cursor = 0]] /\ UNCHANGED notes
PutJob(j, new) ==
    IF Notifies(row[j], new)
    THEN /\ notes' = Append(notes, [job |-> j, of |-> new])
         /\ row' = [row EXCEPT ![j] = [new EXCEPT !.cursor = Len(notes) + 1]]
    ELSE row' = [row EXCEPT ![j] = new] /\ UNCHANGED notes

\* A turn begins, or reaches a boundary; a native approval comes with an id of its
\* own, a followup with a new request.
Successors(r) ==
    {[r EXCEPT !.state = "executing", !.request = q] : q \in {r.request, r.request + 1}}
    \cup {[r EXCEPT !.state = "plan_ready", !.approval = r.approval + 1]}
    \cup {[r EXCEPT !.state = "completed"]}

Save(j) ==
    /\ used < Events /\ ~row[j].deleted
    /\ \E new \in Successors(row[j]) \ {row[j]} : PutJob(j, new)
    /\ emits' = emits \cup {j}
    /\ used' = used + 1
    /\ UNCHANGED <<caller, cursors, seen>>

\* The watchdog reports a stall, or withdraws it (and a failed commit with it).
WatchdogSaves(j) ==
    /\ used < Events /\ ~row[j].deleted
    /\ PutJob(j, [row[j] EXCEPT !.stalled = ~@, !.broken = FALSE])
    /\ emits' = emits \cup {j}
    /\ used' = used + 1
    /\ UNCHANGED <<caller, cursors, seen>>

\* persistenceFailed: the row keeps its old content, memory says so.
CommitFails(j) ==
    /\ used < Events /\ ~row[j].deleted
    /\ row' = [row EXCEPT ![j].broken = TRUE]
    /\ emits' = emits \cup {j}
    /\ used' = used + 1
    /\ UNCHANGED <<notes, caller, cursors, seen>>

\* DeleteJob: the row and its notifications go.
Delete(j) ==
    /\ used < Events /\ ~row[j].deleted
    /\ row' = [row EXCEPT ![j].deleted = TRUE]
    /\ emits' = emits \cup {j}
    /\ used' = used + 1
    /\ UNCHANGED <<notes, caller, cursors, seen>>

Listening_AtSelect == caller.at = "select"
\* A call subscribes before it reads anything.
Listening == caller.at # "idle"
\* emitEvent: the subscriber's channel holds one wake-up; more are dropped.
Emit(j) ==
    /\ j \in emits
    /\ emits' = emits \ {j}
    /\ caller' = IF Listening THEN [caller EXCEPT !.woken = TRUE] ELSE caller
    /\ UNCHANGED <<row, notes, cursors, seen, used>>

-----------------------------------------------------------------------------
(* Wait.                                                                   *)

Reading(mode, woken, last) ==
    [at |-> "reading", mode |-> mode, woken |-> woken, last |-> last, left |-> Jobs,
     hits |-> 0, shown |-> {}, upto |-> cursors]

Call(mode) ==
    /\ caller = Idle
    /\ caller' = Reading(mode, FALSE, FALSE)
    /\ UNCHANGED <<row, notes, emits, cursors, seen, used>>

After(j) == IF cursors[j] = Unset THEN 0 ELSE cursors[j]
\* The boundaries WaitSnapshot returns and the loop keeps: those of the present
\* request, after the cursor, that a later state did not replace.
Kept(j) == {i \in After(j) + 1 .. row[j].cursor :
               /\ notes[i].job = j /\ notes[i].of.request = row[j].request
               /\ notes[i].of.state = row[j].state
               /\ notes[i].of.approval = row[j].approval}
\* "Completed" is published only when nothing is queued or running
\* (TurnQueue!CompletedMeansDrained), so a boundary is always actionable.
Actionable(j) == Boundary(row[j])
Fresh(j) == cursors[j] = Unset \/ row[j].cursor > After(j)
Hit(j) == Actionable(j) /\ (Fresh(j) \/ Kept(j) # {})
Count_Both(j) == (IF Actionable(j) /\ Fresh(j) THEN 1 ELSE 0) + Cardinality(Kept(j))
Count(j) == IF Hit(j) THEN 1 ELSE 0

\* One job of the snapshot, under its coordinator's lock; a job that is gone, a
\* failed commit and a cursor from elsewhere end the call with an error.
ReadJob(j) ==
    /\ caller.at = "reading" /\ j \in caller.left /\ \A k \in caller.left : j <= k
    /\ caller' = IF row[j].deleted \/ row[j].broken \/ After(j) > row[j].cursor THEN Idle
                 ELSE [caller EXCEPT !.left = @ \ {j}, !.hits = @ + Count(j),
                                     !.shown = @ \cup Kept(j), !.upto[j] = row[j].cursor]
    /\ UNCHANGED <<row, notes, emits, cursors, seen, used>>

Ready_OffByOne(mode, hits) == hits > 1 /\ (mode = "any" \/ hits = Cardinality(Jobs))
Ready(mode, hits) == hits > 0 /\ (mode = "any" \/ hits = Cardinality(Jobs))

Restored_Not == caller.upto
\* A call for all jobs that ends by its timer consumes nothing.
Restored == IF caller.mode = "all" THEN [j \in Jobs |-> After(j)] ELSE caller.upto

Decide ==
    /\ caller.at = "reading" /\ caller.left = {}
    /\ \/ /\ Ready(caller.mode, caller.hits)
          /\ seen' = seen \cup caller.shown /\ cursors' = caller.upto
          /\ caller' = Idle
       \/ /\ ~Ready(caller.mode, caller.hits) /\ caller.last
          /\ cursors' = Restored /\ caller' = Idle /\ UNCHANGED seen
       \/ /\ ~Ready(caller.mode, caller.hits) /\ ~caller.last
          /\ caller' = [at |-> "select", mode |-> caller.mode, woken |-> caller.woken]
          /\ UNCHANGED <<seen, cursors>>
    /\ UNCHANGED <<row, notes, emits, used>>

Woken ==
    /\ caller.at = "select" /\ caller.woken
    /\ caller' = Reading(caller.mode, FALSE, FALSE)
    /\ UNCHANGED <<row, notes, emits, cursors, seen, used>>

\* The timer; a last snapshot is taken.
TimerFires ==
    /\ caller.at = "select"
    /\ caller' = Reading(caller.mode, caller.woken, TRUE)
    /\ UNCHANGED <<row, notes, emits, cursors, seen, used>>

\* The caller's context ends, or the service closes.
Abort ==
    /\ caller.at = "select"
    /\ caller' = Idle
    /\ UNCHANGED <<row, notes, emits, cursors, seen, used>>

Next ==
    \/ \E j \in Jobs : Save(j) \/ WatchdogSaves(j) \/ CommitFails(j) \/ Delete(j)
                         \/ Emit(j) \/ ReadJob(j)
    \/ \E mode \in Modes : Call(mode)
    \/ Decide \/ Woken \/ TimerFires \/ Abort

\* Announcements and calls run on, timers fire, and the caller comes back again
\* and again with a call for any of its jobs.
Fairness ==
    /\ \A j \in Jobs : WF_vars(Emit(j))
    /\ WF_vars(Decide \/ Woken \/ TimerFires \/ \E j \in Jobs : ReadJob(j))
    /\ SF_vars(Call("any"))
Spec == Init /\ [][Next]_vars /\ Fairness

-----------------------------------------------------------------------------
(* Properties.                                                             *)

\* The type invariant.
TypeOK ==
    /\ row \in [Jobs -> Row] /\ emits \subseteq Jobs /\ cursors \in Cursors
    /\ notes \in Seq([job : Jobs, of : Row]) /\ seen \subseteq 1..Len(notes)
    /\ \/ caller = Idle
       \/ caller \in [at : {"select"}, mode : Modes, woken : BOOLEAN]
       \/ caller \in [at : {"reading"}, mode : Modes, woken : BOOLEAN, last : BOOLEAN,
                      left : SUBSET Jobs, hits : 0..Cardinality(Jobs),
                      shown : SUBSET (1..Len(notes)), upto : Cursors]
    /\ used \in 0..Events

\* What a snapshot taken now would count.
HitsNow == Cardinality({j \in Jobs : Hit(j)})
\* wait.go:39: no commit falls between the snapshot and the wait for news.  A call
\* that sleeps without a wake-up pending, while nothing is left to announce, would
\* find too few boundaries if it looked again, and no error either.
NoLostWakeUp ==
    caller.at = "select" /\ ~caller.woken /\ emits = {} =>
        /\ ~Ready(caller.mode, HitsNow)
        /\ \A j \in Jobs : ~row[j].deleted /\ ~row[j].broken

\* A caller that goes on from the cursors it is given is never moved past a
\* boundary that still stands without being shown it: neither by a timer in a call
\* for all jobs (wait.go:139), nor by the boundary of another job, nor by a boundary
\* that was replaced and reached again.
NothingSkipped ==
    \A j \in Jobs :
        cursors[j] # Unset /\ Boundary(row[j]) /\ ~row[j].deleted
            /\ 0 < row[j].cursor /\ row[j].cursor <= After(j)
        => row[j].cursor \in seen

\* The cursors a caller is given are never refused as ahead of the job
\* (notifications.go:62), whatever was read in which order.
CursorsAreValid == \A j \in Jobs : After(j) <= row[j].cursor

Unseen(j) == /\ Boundary(row[j]) /\ 0 < row[j].cursor /\ row[j].cursor \notin seen
             /\ \A k \in Jobs : ~row[k].deleted /\ ~row[k].broken
\* A boundary that stands is shown in the end, if the caller keeps asking for any.
BoundariesArrive == \A j \in Jobs : Unseen(j) ~> ~Unseen(j)
=============================================================================
