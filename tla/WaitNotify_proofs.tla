------------------------- MODULE WaitNotify_proofs --------------------------
(***************************************************************************)
(* Theorems about waiting for boundaries, for every finite set of jobs and *)
(* every number of commits: a caller that goes on from its cursors misses  *)
(* no wake-up and no boundary.                                             *)
(***************************************************************************)
EXTENDS WaitNotify, FiniteSetTheorems, SequenceTheorems, TLAPS

Note == [job : Jobs, of : Row]
Sleeping == [at : {"select"}, mode : Modes, woken : BOOLEAN]
\* A call that reads, when n notifications have been recorded.
Readings(n) == [at : {"reading"}, mode : Modes, woken : BOOLEAN, last : BOOLEAN,
                left : SUBSET Jobs, hits : 0..Cardinality(Jobs),
                shown : SUBSET (1..n), upto : Cursors]

LEMMA TypeParts ==
  TypeOK <=> /\ row \in [Jobs -> Row] /\ emits \subseteq Jobs /\ cursors \in Cursors
             /\ notes \in Seq(Note) /\ seen \subseteq 1..Len(notes)
             /\ caller = Idle \/ caller \in Sleeping \/ caller \in Readings(Len(notes))
             /\ used \in 0..Events
  BY DEF TypeOK, Note, Sleeping, Readings

LEMMA CallerCases ==
  ASSUME TypeOK
  PROVE  /\ caller.at \in {"idle", "select", "reading"}
         /\ caller.at = "idle" <=> caller = Idle
         /\ caller.at = "select" <=> caller \in Sleeping
         /\ caller.at = "reading" <=> caller \in Readings(Len(notes))
  BY TypeParts DEF Idle, Sleeping, Readings

\* What a boundary that stands is: the last one recorded of a job that exists.
Stands(j) == Boundary(row[j]) /\ ~row[j].deleted /\ 0 < row[j].cursor
Sound(j) == ~row[j].deleted /\ ~row[j].broken
Matches(n, j, r) ==
    n.job = j /\ n.of.request = r.request /\ n.of.state = r.state /\ n.of.approval = r.approval

-----------------------------------------------------------------------------
(* The inductive invariant.                                                *)

\* The cursor of a row is the number of a notification, that of its boundary if it is
\* at one.
RowsMarked ==
    \A j \in Jobs :
        /\ row[j].cursor <= Len(notes)
        /\ Boundary(row[j]) /\ 0 < row[j].cursor => Matches(notes[row[j].cursor], j, row[j])

\* What the call has read so far: each boundary it would move its caller past is one
\* it will show or has shown, and counts; and unless it will look again, what it has
\* counted is still so.
Accounted(j) == Stands(j) /\ row[j].cursor <= caller.upto[j] =>
               /\ row[j].cursor \in seen \cup caller.shown
               /\ caller.hits = 0 => row[j].cursor \in seen
Counted ==
    ~caller.woken /\ emits = {} =>
        /\ caller.hits = Cardinality({j \in Jobs \ caller.left : Hit(j)})
        /\ \A j \in Jobs \ caller.left : Sound(j)
ReadSoFar ==
    caller.at = "reading" =>
        /\ \A j \in Jobs : caller.upto[j] <= row[j].cursor
        /\ caller.hits + Cardinality(caller.left) <= Cardinality(Jobs)
        /\ \A j \in Jobs \ caller.left : Accounted(j)
        /\ Counted

WaitInv ==
    TypeOK /\ RowsMarked /\ CursorsAreValid /\ NothingSkipped /\ ReadSoFar /\ NoLostWakeUp

LEMMA InitHolds == Init => WaitInv
<1> SUFFICES ASSUME Init PROVE WaitInv
  OBVIOUS
<1>1. \A j \in Jobs : row[j] \in Row /\ row[j].cursor = 0 /\ row[j].state = "executing"
                      /\ ~row[j].stalled
  BY DEF Init, Row, States
<1>2. row \in [Jobs -> Row] /\ cursors \in Cursors /\ notes = <<>> /\ caller = Idle
      /\ cursors = [j \in Jobs |-> Unset] /\ emits = {} /\ seen = {} /\ used = 0
  BY <1>1 DEF Init, Cursors
<1>3. TypeOK
  BY <1>2, TypeParts, EmptySeq, WaitAssumption
<1>4. caller.at = "idle"
  BY <1>2 DEF Idle
<1>5. RowsMarked /\ CursorsAreValid
  BY <1>1, <1>2 DEF RowsMarked, CursorsAreValid, After
<1>6. NothingSkipped /\ ReadSoFar /\ NoLostWakeUp
  BY <1>1, <1>4 DEF NothingSkipped, ReadSoFar, NoLostWakeUp
<1> QED BY <1>3, <1>5, <1>6 DEF WaitInv

-----------------------------------------------------------------------------
(* Commits.                                                                *)

\* What any commit does to the row of j and the notifications.
RowStep(j) ==
    /\ row' \in [Jobs -> Row] /\ \A k \in Jobs : k # j => row'[k] = row[k]
    /\ notes' \in Seq(Note) /\ Len(notes) <= Len(notes')
    /\ \A i \in 1..Len(notes) : notes'[i] = notes[i]
    /\ row[j].cursor <= row'[j].cursor /\ row'[j].cursor <= Len(notes')
    /\ Boundary(row'[j]) /\ 0 < row'[j].cursor => Matches(notes'[row'[j].cursor], j, row'[j])
    /\ Stands(j)' => (Len(notes) < row'[j].cursor \/ (row'[j].cursor = row[j].cursor /\ Stands(j)))

\* A commit takes no boundary back that a cursor has passed.
LEMMA RowStepHolds ==
  ASSUME WaitInv, NEW j \in Jobs, RowStep(j), emits' = emits \cup {j},
         used < Events, used' = used + 1, UNCHANGED <<caller, cursors, seen>>
  PROVE  WaitInv'
<1>1. TypeOK /\ RowsMarked /\ CursorsAreValid /\ NothingSkipped /\ ReadSoFar
  BY DEF WaitInv
<1>2. /\ row' \in [Jobs -> Row] /\ \A k \in Jobs : k # j => row'[k] = row[k]
      /\ notes' \in Seq(Note) /\ Len(notes) <= Len(notes')
      /\ \A i \in 1..Len(notes) : notes'[i] = notes[i]
      /\ row[j].cursor <= row'[j].cursor /\ row'[j].cursor <= Len(notes')
      /\ Boundary(row'[j]) /\ 0 < row'[j].cursor => Matches(notes'[row'[j].cursor], j, row'[j])
      /\ Stands(j)' => (Len(notes) < row'[j].cursor \/ (row'[j].cursor = row[j].cursor /\ Stands(j)))
  BY DEF RowStep
<1>3. /\ row \in [Jobs -> Row] /\ cursors \in [Jobs -> Nat \cup {Unset}]
      /\ notes \in Seq(Note) /\ Len(notes) \in Nat /\ Len(notes') \in Nat
      /\ \A k \in Jobs : row[k].cursor \in Nat /\ row'[k].cursor \in Nat
  BY <1>1, <1>2, TypeParts, LenProperties DEF Row, Cursors
<1>4. \A k \in Jobs : row[k].cursor <= row'[k].cursor
  BY <1>2, <1>3
<1>5. TypeOK'
  <2>1. caller = Idle \/ caller \in Sleeping \/ caller \in Readings(Len(notes'))
    <3>1. 1..Len(notes) \subseteq 1..Len(notes')
      BY <1>2, <1>3
    <3>2. CASE caller \in Readings(Len(notes))
      BY <3>1, <3>2 DEF Readings
    <3> QED BY <1>1, <3>2, TypeParts
  <2>2. seen \subseteq 1..Len(notes')
    BY <1>1, <1>2, <1>3, TypeParts
  <2>3. used' \in 0..Events
    BY <1>1, TypeParts, WaitAssumption
  <2> QED BY <1>1, <1>2, <2>1, <2>2, <2>3, TypeParts
          DEF TypeOK, Note, Sleeping, Readings
<1>6. RowsMarked'
  <2> SUFFICES ASSUME NEW k \in Jobs
      PROVE  /\ row'[k].cursor <= Len(notes')
             /\ Boundary(row'[k]) /\ 0 < row'[k].cursor =>
                    Matches(notes'[row'[k].cursor], k, row'[k])
    BY DEF RowsMarked
  <2>1. CASE k = j
    BY <1>2, <2>1
  <2>2. CASE k # j
    <3>1. row'[k] = row[k] /\ row[k].cursor <= Len(notes)
      BY <1>1, <1>2, <2>2 DEF RowsMarked
    <3>2. 0 < row[k].cursor => notes'[row[k].cursor] = notes[row[k].cursor]
      BY <1>2, <1>3, <3>1
    <3>3. Boundary(row[k]) /\ 0 < row[k].cursor => Matches(notes[row[k].cursor], k, row[k])
      BY <1>1 DEF RowsMarked
    <3> QED BY <1>2, <1>3, <3>1, <3>2, <3>3
  <2> QED BY <2>1, <2>2
<1>7. CursorsAreValid'
  BY <1>1, <1>3, <1>4 DEF CursorsAreValid, After
\* A boundary that stands afterwards is new, or stood before at the same number.
<1>8. \A k \in Jobs : Stands(k)' => (Len(notes) < row'[k].cursor \/ (row'[k].cursor = row[k].cursor /\ Stands(k)))
  BY <1>2 DEF Stands
<1>9. NothingSkipped'
  <2> SUFFICES ASSUME NEW k \in Jobs, cursors[k] # Unset, Stands(k)', row'[k].cursor <= After(k)
               PROVE  row'[k].cursor \in seen
    BY DEF NothingSkipped, Stands, After
  <2>1. After(k) <= row[k].cursor /\ row[k].cursor <= Len(notes) /\ After(k) \in Nat
    BY <1>1, <1>3 DEF CursorsAreValid, RowsMarked, After
  <2>2. row'[k].cursor = row[k].cursor /\ Stands(k)
    BY <1>3, <1>8, <2>1
  <2> QED BY <1>1, <2>2 DEF NothingSkipped, Stands
<1>10. ReadSoFar'
  <2> SUFFICES ASSUME caller.at = "reading" PROVE ReadSoFar'
    BY DEF ReadSoFar
  <2>1. caller \in Readings(Len(notes))
    BY <1>1, CallerCases
  <2>2. caller.upto \in [Jobs -> Nat \cup {Unset}]
    BY <2>1 DEF Readings, Cursors
  <2>3. \A k \in Jobs : caller.upto[k] <= row'[k].cursor
    <3>1. \A k \in Jobs : caller.upto[k] <= row[k].cursor /\ caller.upto[k] \in Int
      BY <1>1, <2>2 DEF ReadSoFar, Unset
    <3> QED BY <1>3, <1>4, <3>1
  <2>4. \A k \in Jobs \ caller.left : Accounted(k)'
    <3> SUFFICES ASSUME NEW k \in Jobs \ caller.left, Stands(k)', row'[k].cursor <= caller.upto[k]
                 PROVE  /\ row'[k].cursor \in seen \cup caller.shown
                        /\ caller.hits = 0 => row'[k].cursor \in seen
      BY DEF Accounted
    <3>1. caller.upto[k] <= row[k].cursor /\ row[k].cursor <= Len(notes) /\ caller.upto[k] \in Int
      BY <1>1, <2>2 DEF ReadSoFar, RowsMarked, Unset
    <3>2. row'[k].cursor = row[k].cursor /\ Stands(k)
      BY <1>3, <1>8, <3>1
    <3>3. Accounted(k)
      BY <1>1 DEF ReadSoFar
    <3> QED BY <3>2, <3>3 DEF Accounted
  <2>5. Counted'
    BY DEF Counted
  <2>6. caller.hits + Cardinality(caller.left) <= Cardinality(Jobs)
    BY <1>1 DEF ReadSoFar
  <2> QED BY <2>3, <2>4, <2>5, <2>6 DEF ReadSoFar
<1>11. NoLostWakeUp'
  BY DEF NoLostWakeUp
<1> QED BY <1>5, <1>6, <1>7, <1>9, <1>10, <1>11 DEF WaitInv

\* Two rows of which PutJob sees no difference agree in all that makes a boundary.
LEMMA ToldFields ==
  ASSUME NEW a \in Row
  PROVE  /\ Told(a).state = a.state /\ Told(a).request = a.request
         /\ Told(a).approval = a.approval /\ Told(a).stalled = a.stalled
         /\ Told(a).deleted = a.deleted
<1>1. [a EXCEPT !.cursor = 0] \in Row
  BY DEF Row
<1>2. ASSUME NEW b \in Row
      PROVE  LET c == [b EXCEPT !.broken = FALSE] IN
             /\ c.state = b.state /\ c.request = b.request /\ c.approval = b.approval
             /\ c.stalled = b.stalled /\ c.deleted = b.deleted
  BY DEF Row
<1>3. ASSUME NEW b \in Row
      PROVE  LET c == [b EXCEPT !.cursor = 0] IN
             /\ c.state = b.state /\ c.request = b.request /\ c.approval = b.approval
             /\ c.stalled = b.stalled /\ c.deleted = b.deleted
  BY DEF Row
<1>4. Told(a) = [[a EXCEPT !.cursor = 0] EXCEPT !.broken = FALSE]
  BY DEF Told
<1> QED BY <1>1, <1>2, <1>3, <1>4

\* PutJob, of a row that differs from the committed one in what a caller is told.
LEMMA PutJobStep ==
  ASSUME WaitInv, NEW j \in Jobs, NEW new \in Row, new.cursor = row[j].cursor,
         new.deleted = row[j].deleted, PutJob(j, new)
  PROVE  RowStep(j)
<1>1. /\ row \in [Jobs -> Row] /\ notes \in Seq(Note) /\ RowsMarked
      /\ Len(notes) \in Nat /\ row[j] \in Row /\ row[j].cursor \in Nat
  BY TypeParts, LenProperties DEF WaitInv, Row
<1>2. CASE Notifies(row[j], new)
  <2> DEFINE n == Len(notes) + 1
             note == [job |-> j, of |-> new]
             marked == [new EXCEPT !.cursor = n]
  <2>1. notes' = Append(notes, note) /\ row' = [row EXCEPT ![j] = marked]
    BY <1>2 DEF PutJob
  <2>2. n \in Nat /\ Len(notes) < n
    BY <1>1
  <2>3. /\ marked \in Row /\ marked.cursor = n /\ marked.state = new.state
        /\ marked.request = new.request /\ marked.approval = new.approval
    <3> HIDE DEF n
    <3> QED BY <2>2 DEF Row
  <2>4. note \in Note /\ note.job = j /\ note.of = new
    BY DEF Note
  <2> HIDE DEF note, marked
  <2>5. notes' \in Seq(Note) /\ Len(notes') = n /\ notes'[n] = note
        /\ \A i \in 1..Len(notes) : notes'[i] = notes[i]
    BY <1>1, <2>1, <2>4, AppendProperties
  <2>6. row' \in [Jobs -> Row] /\ row'[j] = marked /\ \A k \in Jobs : k # j => row'[k] = row[k]
    BY <1>1, <2>1, <2>3
  <2> HIDE DEF n
  <2>7. Matches(notes'[n], j, row'[j])
    BY <2>3, <2>4, <2>5, <2>6 DEF Matches
  <2>8. row[j].cursor <= n
    BY <1>1, <2>2 DEF RowsMarked
  <2> QED BY <1>1, <2>2, <2>3, <2>5, <2>6, <2>7, <2>8 DEF RowStep
<1>3. CASE ~Notifies(row[j], new)
  <2>1. notes' = notes /\ row' = [row EXCEPT ![j] = new]
    BY <1>3 DEF PutJob
  <2>2. row' \in [Jobs -> Row] /\ row'[j] = new /\ \A k \in Jobs : k # j => row'[k] = row[k]
    BY <1>1, <2>1
  <2>3. Boundary(new) =>
           /\ Boundary(row[j]) /\ new.state = row[j].state /\ new.request = row[j].request
           /\ new.approval = row[j].approval
    <3>1. Boundary(new) => Told(row[j]) = Told(new)
      BY <1>3 DEF Notifies
    <3>2. Boundary(new) =>
             /\ new.state = row[j].state /\ new.request = row[j].request
             /\ new.approval = row[j].approval /\ new.stalled = row[j].stalled
      BY <1>1, <3>1, ToldFields
    <3> QED BY <3>2 DEF Boundary
  <2>4. Boundary(new) /\ 0 < new.cursor => Matches(notes[new.cursor], j, new)
    BY <1>1, <2>3 DEF RowsMarked, Matches
  <2>5. row[j].cursor <= Len(notes)
    BY <1>1 DEF RowsMarked
  <2>6. Stands(j)' => row'[j].cursor = row[j].cursor /\ Stands(j)
    BY <2>2, <2>3 DEF Stands
  <2> QED BY <1>1, <2>1, <2>2, <2>4, <2>5, <2>6 DEF RowStep
<1> QED BY <1>2, <1>3

LEMMA SaveHolds ==
  ASSUME WaitInv, NEW j \in Jobs, Save(j) PROVE WaitInv'
<1>1. row[j] \in Row
  BY TypeParts DEF WaitInv
<1>2. PICK new \in Successors(row[j]) \ {row[j]} : PutJob(j, new)
  BY DEF Save
<1>3. new \in Row /\ new.cursor = row[j].cursor /\ new.deleted = row[j].deleted
  <2> DEFINE r == row[j]
  <2>1. ASSUME NEW q \in {r.request, r.request + 1},
               new = [r EXCEPT !.state = "executing", !.request = q]
        PROVE  new \in Row /\ new.cursor = r.cursor /\ new.deleted = r.deleted
    <3>1. q \in Nat /\ "executing" \in States
      BY <1>1 DEF Row, States
    <3> HIDE DEF r
    <3> QED BY <1>1, <2>1, <3>1 DEF r, Row
  <2>2. ASSUME new = [r EXCEPT !.state = "plan_ready", !.approval = r.approval + 1]
        PROVE  new \in Row /\ new.cursor = r.cursor /\ new.deleted = r.deleted
    <3>1. ASSUME NEW a \in Nat
          PROVE  LET c == [r EXCEPT !.state = "plan_ready", !.approval = a] IN
                 c \in Row /\ c.cursor = r.cursor /\ c.deleted = r.deleted
      <4>1. "plan_ready" \in States
        BY DEF States, Boundaries
      <4>2. ASSUME NEW b \in Row
            PROVE  LET c == [b EXCEPT !.state = "plan_ready"] IN
                   c \in Row /\ c.cursor = b.cursor /\ c.deleted = b.deleted
        BY <4>1 DEF Row
      <4>3. ASSUME NEW b \in Row
            PROVE  LET c == [b EXCEPT !.approval = a] IN
                   c \in Row /\ c.cursor = b.cursor /\ c.deleted = b.deleted
        BY DEF Row
      <4> HIDE DEF r
      <4> QED BY <1>1, <4>2, <4>3 DEF r
    <3>2. r.approval + 1 \in Nat
      BY <1>1 DEF Row
    <3> HIDE DEF r
    <3> QED BY <2>2, <3>1, <3>2
  <2>3. ASSUME new = [r EXCEPT !.state = "completed"]
        PROVE  new \in Row /\ new.cursor = r.cursor /\ new.deleted = r.deleted
    BY <1>1, <2>3 DEF Row, States, Boundaries
  <2> QED BY <1>2, <2>1, <2>2, <2>3 DEF Successors
<1>4. RowStep(j)
  BY <1>2, <1>3, PutJobStep
<1> QED BY <1>4, RowStepHolds DEF Save

LEMMA WatchdogHolds ==
  ASSUME WaitInv, NEW j \in Jobs, WatchdogSaves(j) PROVE WaitInv'
<1> DEFINE new == [row[j] EXCEPT !.stalled = ~@, !.broken = FALSE]
<1>1. row[j] \in Row
  BY TypeParts DEF WaitInv
<1>2. new \in Row /\ new.cursor = row[j].cursor /\ new.deleted = row[j].deleted
  <2>1. ASSUME NEW b \in Row, NEW v \in BOOLEAN
        PROVE  LET c == [b EXCEPT !.stalled = v] IN
               c \in Row /\ c.cursor = b.cursor /\ c.deleted = b.deleted
    BY DEF Row
  <2>2. ASSUME NEW b \in Row
        PROVE  LET c == [b EXCEPT !.broken = FALSE] IN
               c \in Row /\ c.cursor = b.cursor /\ c.deleted = b.deleted
    BY DEF Row
  <2>3. (~row[j].stalled) \in BOOLEAN
    OBVIOUS
  <2> DEFINE told == [row[j] EXCEPT !.stalled = ~row[j].stalled]
  <2>4. new = [told EXCEPT !.broken = FALSE]
    OBVIOUS
  <2>5. told \in Row /\ told.cursor = row[j].cursor /\ told.deleted = row[j].deleted
    BY <1>1, <2>1, <2>3
  <2> HIDE DEF new, told
  <2> QED BY <2>2, <2>4, <2>5
<1>3. PutJob(j, new)
  BY DEF WatchdogSaves
<1>4. RowStep(j)
  <2> HIDE DEF new
  <2> QED BY <1>2, <1>3, PutJobStep
<1> QED BY <1>4, RowStepHolds DEF WatchdogSaves

\* A failed commit, or the deletion of the job: the row's boundary is the same, or gone.
LEMMA FlagHolds ==
  ASSUME WaitInv, NEW j \in Jobs, CommitFails(j) \/ Delete(j) PROVE WaitInv'
<1>1. /\ row \in [Jobs -> Row] /\ notes \in Seq(Note) /\ RowsMarked
      /\ Len(notes) \in Nat /\ row[j] \in Row /\ row[j].cursor \in Nat
  BY TypeParts, LenProperties DEF WaitInv, Row
<1>2. ASSUME NEW new \in Row, row' = [row EXCEPT ![j] = new], notes' = notes,
             new.cursor = row[j].cursor, new.state = row[j].state,
             new.request = row[j].request, new.approval = row[j].approval,
             new.stalled = row[j].stalled, row[j].deleted => new.deleted
      PROVE  RowStep(j)
  <2>1. row' \in [Jobs -> Row] /\ row'[j] = new /\ \A k \in Jobs : k # j => row'[k] = row[k]
    BY <1>1, <1>2
  <2>2. Boundary(new) <=> Boundary(row[j])
    BY <1>2 DEF Boundary
  <2>3. Boundary(new) /\ 0 < new.cursor => Matches(notes[new.cursor], j, new)
    BY <1>1, <1>2, <2>2 DEF RowsMarked, Matches
  <2>4. Stands(j)' => row'[j].cursor = row[j].cursor /\ Stands(j)
    BY <1>2, <2>1, <2>2 DEF Stands
  <2>5. row[j].cursor <= Len(notes)
    BY <1>1 DEF RowsMarked
  <2> QED BY <1>1, <1>2, <2>1, <2>3, <2>4, <2>5 DEF RowStep
<1>3. CASE CommitFails(j)
  <2>1. LET new == [row[j] EXCEPT !.broken = TRUE] IN
        /\ new \in Row /\ new.cursor = row[j].cursor /\ new.state = row[j].state
        /\ new.request = row[j].request /\ new.approval = row[j].approval
        /\ new.stalled = row[j].stalled /\ new.deleted = row[j].deleted
    BY <1>1 DEF Row
  <2>2. row' = [row EXCEPT ![j] = [row[j] EXCEPT !.broken = TRUE]] /\ notes' = notes
    BY <1>3 DEF CommitFails
  <2>3. RowStep(j)
    BY <1>2, <2>1, <2>2
  <2> QED BY <1>3, <2>3, RowStepHolds DEF CommitFails
<1>4. CASE Delete(j)
  <2>1. LET new == [row[j] EXCEPT !.deleted = TRUE] IN
        /\ new \in Row /\ new.cursor = row[j].cursor /\ new.state = row[j].state
        /\ new.request = row[j].request /\ new.approval = row[j].approval
        /\ new.stalled = row[j].stalled /\ new.deleted
    BY <1>1 DEF Row
  <2>2. row' = [row EXCEPT ![j] = [row[j] EXCEPT !.deleted = TRUE]] /\ notes' = notes
    BY <1>4 DEF Delete
  <2>3. RowStep(j)
    BY <1>2, <2>1, <2>2
  <2> QED BY <1>4, <2>3, RowStepHolds DEF Delete
<1> QED BY <1>3, <1>4

-----------------------------------------------------------------------------
(* The call of Wait.                                                       *)

\* What does not depend on the call survives a step of it that consumes nothing.
LEMMA CallKeeps ==
  ASSUME WaitInv, UNCHANGED <<row, notes, cursors, seen>>
  PROVE  RowsMarked' /\ CursorsAreValid' /\ NothingSkipped'
  BY DEF WaitInv, RowsMarked, CursorsAreValid, NothingSkipped, After, Boundary, Matches

\* A snapshot begins.
LEMMA ReadingHolds ==
  ASSUME WaitInv, NEW mode \in Modes, NEW woken \in BOOLEAN, NEW last \in BOOLEAN,
         caller' = Reading(mode, woken, last), UNCHANGED <<row, notes, emits, cursors, seen, used>>
  PROVE  WaitInv'
<1>1. TypeOK /\ CursorsAreValid
  BY DEF WaitInv
<1>2. Cardinality(Jobs) \in Nat /\ IsFiniteSet(Jobs)
  BY FS_CardinalityType, WaitAssumption
<1>3. caller' = [at |-> "reading", mode |-> mode, woken |-> woken, last |-> last,
                 left |-> Jobs, hits |-> 0, shown |-> {}, upto |-> cursors]
  BY DEF Reading
<1>4. /\ caller'.at = "reading" /\ caller'.left = Jobs /\ caller'.hits = 0
      /\ caller'.upto = cursors
  BY <1>3
<1>5. caller' \in Readings(Len(notes))
  <2>1. cursors \in Cursors /\ 0 \in 0..Cardinality(Jobs)
    BY <1>1, <1>2, TypeParts
  <2> QED BY <1>3, <2>1 DEF Readings
<1>6. TypeOK'
  BY <1>1, <1>5, TypeParts DEF TypeOK, Note, Sleeping, Readings
<1>7. \A j \in Jobs : cursors[j] <= row[j].cursor
  <2> SUFFICES ASSUME NEW j \in Jobs PROVE cursors[j] <= row[j].cursor
    OBVIOUS
  <2>1. cursors[j] \in Nat \cup {Unset} /\ row[j].cursor \in Nat
    BY <1>1, TypeParts DEF Cursors, Row
  <2>2. After(j) <= row[j].cursor
    BY <1>1 DEF CursorsAreValid
  <2> QED BY <2>1, <2>2 DEF After, Unset
<1>8. ReadSoFar'
  <2>1. {j \in Jobs \ Jobs : Hit(j)'} = {} /\ Cardinality({}) = 0
    BY FS_EmptySet
  <2>2. Counted'
    BY <1>4, <2>1 DEF Counted
  <2> QED BY <1>2, <1>4, <1>7, <2>2 DEF ReadSoFar
<1>9. NoLostWakeUp'
  BY <1>4 DEF NoLostWakeUp
<1> QED BY <1>6, <1>8, <1>9, CallKeeps DEF WaitInv

LEMMA EmitHolds ==
  ASSUME WaitInv, NEW j \in Jobs, Emit(j) PROVE WaitInv'
<1>1. TypeOK /\ ReadSoFar /\ UNCHANGED <<row, notes, cursors, seen, used>>
      /\ emits' = emits \ {j}
  BY DEF WaitInv, Emit
<1>2. CASE caller.at = "idle"
  <2>1. caller' = caller
    BY <1>2 DEF Emit, Listening
  <2>2. TypeOK'
    BY <1>1, <2>1, TypeParts DEF TypeOK, Note, Sleeping, Readings
  <2> QED BY <1>1, <1>2, <2>1, <2>2, CallKeeps DEF WaitInv, ReadSoFar, NoLostWakeUp
<1>3. CASE caller.at = "select"
  <2>1. caller \in Sleeping /\ caller' = [caller EXCEPT !.woken = TRUE]
    BY <1>1, <1>3, CallerCases DEF Emit, Listening
  <2>2. caller' \in Sleeping /\ caller'.woken /\ caller'.at = "select"
    BY <2>1 DEF Sleeping
  <2>3. TypeOK'
    BY <1>1, <2>2, TypeParts DEF TypeOK, Note, Sleeping, Readings
  <2> QED BY <1>1, <2>2, <2>3, CallKeeps DEF WaitInv, ReadSoFar, NoLostWakeUp
<1>4. CASE caller.at = "reading"
  <2>1. caller \in Readings(Len(notes)) /\ caller' = [caller EXCEPT !.woken = TRUE]
    BY <1>1, <1>4, CallerCases DEF Emit, Listening
  <2>2. /\ caller' \in Readings(Len(notes)) /\ caller'.woken /\ caller'.at = "reading"
        /\ caller'.left = caller.left /\ caller'.hits = caller.hits
        /\ caller'.shown = caller.shown /\ caller'.upto = caller.upto
    BY <2>1 DEF Readings
  <2>3. TypeOK'
    BY <1>1, <2>2, TypeParts DEF TypeOK, Note, Sleeping, Readings
  <2>4. ReadSoFar'
    <3>1. \A k \in Jobs \ caller.left : Accounted(k)'
      BY <1>1, <1>4, <2>2 DEF ReadSoFar, Accounted, Stands, Boundary
    <3>2. Counted'
      BY <2>2 DEF Counted
    <3> QED BY <1>1, <1>4, <2>2, <3>1, <3>2 DEF ReadSoFar
  <2>5. NoLostWakeUp'
    BY <2>2 DEF NoLostWakeUp
  <2> QED BY <1>1, <2>3, <2>4, <2>5, CallKeeps DEF WaitInv
<1> QED BY <1>1, <1>2, <1>3, <1>4, CallerCases

\* The call ends, or goes to sleep without a snapshot in progress.
LEMMA IdleHolds ==
  ASSUME WaitInv, caller' = Idle, UNCHANGED <<row, notes, emits, cursors, seen, used>>
  PROVE  WaitInv'
<1>1. caller'.at = "idle"
  BY DEF Idle
<1>2. TypeOK'
  BY TypeParts DEF WaitInv, TypeOK, Note, Sleeping, Readings
<1>3. ReadSoFar' /\ NoLostWakeUp'
  BY <1>1 DEF ReadSoFar, NoLostWakeUp
<1> QED BY <1>2, <1>3, CallKeeps DEF WaitInv

\* What the loop keeps of a job: some notifications, and its boundary if that is new to
\* the caller.
LEMMA KeptFacts ==
  ASSUME WaitInv, NEW j \in Jobs
  PROVE  /\ Kept(j) \subseteq 1..Len(notes)
         /\ After(j) \in Nat /\ row[j].cursor \in Nat /\ row[j].cursor <= Len(notes)
         /\ Stands(j) /\ After(j) < row[j].cursor => row[j].cursor \in Kept(j)
<1>1. /\ row[j] \in Row /\ cursors[j] \in Nat \cup {Unset} /\ notes \in Seq(Note)
      /\ Len(notes) \in Nat /\ row[j].cursor <= Len(notes) /\ row[j].cursor \in Nat
  BY TypeParts, LenProperties DEF WaitInv, Cursors, RowsMarked, Row
<1>2. After(j) \in Nat
  BY <1>1 DEF After
<1>3. Kept(j) \subseteq 1..Len(notes)
  BY <1>1, <1>2 DEF Kept
<1>4. Stands(j) /\ After(j) < row[j].cursor => row[j].cursor \in Kept(j)
  <2> SUFFICES ASSUME Stands(j), After(j) < row[j].cursor PROVE row[j].cursor \in Kept(j)
    OBVIOUS
  <2>1. Matches(notes[row[j].cursor], j, row[j])
    BY DEF WaitInv, RowsMarked, Stands
  <2>2. row[j].cursor \in After(j) + 1 .. row[j].cursor
    BY <1>1, <1>2
  <2> QED BY <2>1, <2>2 DEF Kept, Matches
<1> QED BY <1>1, <1>2, <1>3, <1>4

\* A call that has read one job more, and its fields.
HasRead(c, j, L, h, S, v) ==
    [c EXCEPT !.left = L, !.hits = h, !.shown = S, !.upto[j] = v]
LEMMA ReadFields ==
  ASSUME NEW n, NEW c \in Readings(n), NEW j \in Jobs, NEW L \in SUBSET Jobs,
         NEW h \in 0..Cardinality(Jobs), NEW S \in SUBSET (1..n), NEW v \in Nat
  PROVE  LET d == HasRead(c, j, L, h, S, v) IN
         /\ d \in Readings(n) /\ d.at = "reading" /\ d.left = L /\ d.hits = h /\ d.shown = S
         /\ d.woken = c.woken /\ d.upto = [c.upto EXCEPT ![j] = v]
<1>1. c.upto \in Cursors
  BY DEF Readings
<1>2. [c.upto EXCEPT ![j] = v] \in Cursors
  BY <1>1 DEF Cursors
<1> DEFINE u == [c.upto EXCEPT ![j] = v]
<1> HIDE DEF u
<1>3. u \in Cursors
  BY <1>2 DEF u
<1>4. LET d == [c EXCEPT !.left = L] IN
      /\ d \in Readings(n) /\ d.left = L /\ d.woken = c.woken /\ d.upto = c.upto
  BY DEF Readings
<1>5. ASSUME NEW e \in Readings(n)
      PROVE  LET d == [e EXCEPT !.hits = h] IN
             /\ d \in Readings(n) /\ d.hits = h
             /\ d.left = e.left /\ d.woken = e.woken /\ d.upto = e.upto
  BY DEF Readings
<1>6. ASSUME NEW e \in Readings(n)
      PROVE  LET d == [e EXCEPT !.shown = S] IN
             /\ d \in Readings(n) /\ d.shown = S
             /\ d.left = e.left /\ d.woken = e.woken /\ d.upto = e.upto /\ d.hits = e.hits
  BY DEF Readings
<1>7. ASSUME NEW e \in Readings(n)
      PROVE  LET d == [e EXCEPT !.upto = u] IN
             /\ d \in Readings(n) /\ d.upto = u /\ d.at = "reading"
             /\ d.left = e.left /\ d.woken = e.woken /\ d.shown = e.shown /\ d.hits = e.hits
  BY <1>3 DEF Readings
<1> DEFINE d1 == [c EXCEPT !.left = L]
           d2 == [d1 EXCEPT !.hits = h]
           d3 == [d2 EXCEPT !.shown = S]
           d4 == [d3 EXCEPT !.upto = u]
<1>8. d3.upto = c.upto /\ d3 = [c EXCEPT !.left = L, !.hits = h, !.shown = S]
  BY <1>4, <1>5, <1>6
<1>9. [c EXCEPT !.left = L, !.hits = h, !.shown = S, !.upto[j] = v] = d4
  BY <1>8 DEF u, Readings
<1>10. /\ d4 \in Readings(n) /\ d4.at = "reading" /\ d4.left = L /\ d4.hits = h /\ d4.shown = S
       /\ d4.woken = c.woken /\ d4.upto = u
  <2>1. d1 \in Readings(n) /\ d1.left = L /\ d1.woken = c.woken
    BY <1>4
  <2> HIDE DEF d1
  <2>2. d2 \in Readings(n) /\ d2.left = L /\ d2.woken = c.woken /\ d2.hits = h
    BY <1>5, <2>1
  <2> HIDE DEF d2
  <2>3. d3 \in Readings(n) /\ d3.left = L /\ d3.woken = c.woken /\ d3.hits = h /\ d3.shown = S
    BY <1>6, <2>2
  <2> HIDE DEF d3
  <2> QED BY <1>7, <2>3
<1> HIDE DEF d4
<1>11. HasRead(c, j, L, h, S, v) = d4
  BY <1>9 DEF HasRead
<1> QED BY <1>10, <1>11 DEF u

\* One more job is read: its boundary is counted and shown, or its cursor has passed it
\* already.
LEMMA ReadJobHolds ==
  ASSUME WaitInv, NEW j \in Jobs, ReadJob(j) PROVE WaitInv'
<1>1. /\ TypeOK /\ RowsMarked /\ CursorsAreValid /\ NothingSkipped /\ ReadSoFar
      /\ caller.at = "reading" /\ j \in caller.left
      /\ UNCHANGED <<row, notes, emits, cursors, seen, used>>
  BY DEF WaitInv, ReadJob
<1>2. CASE row[j].deleted \/ row[j].broken \/ After(j) > row[j].cursor
  <2>1. caller' = Idle
    BY <1>2 DEF ReadJob
  <2> QED BY <1>1, <2>1, IdleHolds
<1>3. CASE ~(row[j].deleted \/ row[j].broken \/ After(j) > row[j].cursor)
  <2>1. caller \in Readings(Len(notes))
    BY <1>1, CallerCases
  <2>2. /\ caller.left \in SUBSET Jobs /\ caller.hits \in Nat
        /\ caller.shown \in SUBSET (1..Len(notes)) /\ caller.upto \in [Jobs -> Nat \cup {Unset}]
    BY <2>1 DEF Readings, Cursors
  <2>3. /\ IsFiniteSet(Jobs) /\ Cardinality(Jobs) \in Nat
        /\ IsFiniteSet(caller.left) /\ Cardinality(caller.left) \in Nat
        /\ Cardinality(caller.left \ {j}) = Cardinality(caller.left) - 1
        /\ Cardinality(caller.left \ {j}) \in Nat
    BY <1>1, <2>2, WaitAssumption, FS_CardinalityType, FS_Subset, FS_RemoveElement
  <2>4. Count(j) \in {0, 1} /\ (Count(j) = 1 <=> Hit(j))
    BY DEF Count
  <2>5. caller.hits + Cardinality(caller.left) <= Cardinality(Jobs)
    BY <1>1 DEF ReadSoFar
  <2>6. caller.hits + Count(j) \in 0..Cardinality(Jobs)
    <3>1. Cardinality(caller.left) - 1 \in Nat
      BY <2>3
    <3> QED BY <2>2, <2>3, <2>4, <2>5, <3>1
  <2>7. /\ Kept(j) \subseteq 1..Len(notes)
        /\ After(j) \in Nat /\ row[j].cursor \in Nat
        /\ Stands(j) /\ After(j) < row[j].cursor => row[j].cursor \in Kept(j)
    BY KeptFacts
  <2>8. caller' = [caller EXCEPT !.left = caller.left \ {j}, !.hits = caller.hits + Count(j),
                                 !.shown = caller.shown \cup Kept(j), !.upto[j] = row[j].cursor]
    BY <1>3 DEF ReadJob
  <2>9. /\ caller' \in Readings(Len(notes)) /\ caller'.at = "reading"
        /\ caller'.left = caller.left \ {j} /\ caller'.hits = caller.hits + Count(j)
        /\ caller'.shown = caller.shown \cup Kept(j) /\ caller'.woken = caller.woken
        /\ caller'.upto = [caller.upto EXCEPT ![j] = row[j].cursor]
    <3>1. caller.left \ {j} \in SUBSET Jobs /\ caller.shown \cup Kept(j) \in SUBSET (1..Len(notes))
      BY <2>2, <2>7
    <3> DEFINE n == Len(notes)
               L == caller.left \ {j}
               h == caller.hits + Count(j)
               S == caller.shown \cup Kept(j)
               v == row[j].cursor
    <3>2. /\ caller \in Readings(n) /\ L \in SUBSET Jobs /\ h \in 0..Cardinality(Jobs)
          /\ S \in SUBSET (1..n) /\ v \in Nat
      BY <2>1, <2>6, <2>7, <3>1
    <3>3. caller' = HasRead(caller, j, L, h, S, v)
      BY <2>8 DEF HasRead
    <3> HIDE DEF n, L, h, S, v
    <3>4. /\ caller' \in Readings(n) /\ caller'.at = "reading"
          /\ caller'.left = L /\ caller'.hits = h
          /\ caller'.shown = S /\ caller'.woken = caller.woken
          /\ caller'.upto = [caller.upto EXCEPT ![j] = v]
      BY <3>2, <3>3, ReadFields
    <3> QED BY <3>4 DEF n, L, h, S, v
  <2>10. caller'.upto[j] = row[j].cursor
         /\ \A k \in Jobs : k # j => caller'.upto[k] = caller.upto[k]
    BY <2>2, <2>9
  <2>11. TypeOK'
    BY <1>1, <2>9, TypeParts DEF TypeOK, Note, Sleeping, Readings
  <2>12. ASSUME NEW k \in Jobs \ caller'.left PROVE Accounted(k)'
    <3>1. CASE k = j
      <4> SUFFICES ASSUME Stands(j)
                   PROVE  /\ row[j].cursor \in seen \cup caller'.shown
                          /\ caller'.hits = 0 => row[j].cursor \in seen
        BY <1>1, <3>1 DEF Accounted, Stands, Boundary
      <4>1. CASE After(j) < row[j].cursor
        <5>1. row[j].cursor \in Kept(j)
          BY <2>7, <4>1
        <5>2. Hit(j)
          BY <5>1 DEF Hit, Actionable, Stands
        <5>3. caller'.hits # 0
          BY <2>2, <2>4, <2>9, <5>2
        <5> QED BY <2>9, <5>1, <5>3
      <4>2. CASE ~(After(j) < row[j].cursor)
        <5>1. row[j].cursor <= After(j) /\ 0 < row[j].cursor
          BY <2>7, <4>2 DEF Stands
        <5>2. cursors[j] # Unset
          BY <2>7, <5>1 DEF After
        <5>3. row[j].cursor \in seen
          BY <1>1, <5>1, <5>2 DEF NothingSkipped, Stands
        <5> QED BY <5>3
      <4> QED BY <4>1, <4>2
    <3>2. CASE k # j
      <4>1. Accounted(k)
        BY <1>1, <2>9, <3>2 DEF ReadSoFar
      <4>2. caller'.hits = 0 => caller.hits = 0
        BY <2>2, <2>4, <2>9
      <4>3. caller'.upto[k] = caller.upto[k]
        BY <2>10, <3>2
      <4> QED BY <1>1, <2>9, <4>1, <4>2, <4>3 DEF Accounted, Stands, Boundary
    <3> QED BY <3>1, <3>2
  <2>13. Counted'
    <3> SUFFICES ASSUME ~caller.woken, emits = {}
                 PROVE  /\ caller'.hits = Cardinality({k \in Jobs \ caller'.left : Hit(k)'})
                        /\ \A k \in Jobs \ caller'.left : Sound(k)'
      BY <1>1, <2>9 DEF Counted
    <3> DEFINE hit == {k \in Jobs \ caller.left : Hit(k)}
    <3>1. caller.hits = Cardinality(hit) /\ \A k \in Jobs \ caller.left : Sound(k)
      BY <1>1 DEF ReadSoFar, Counted
    <3>2. \A k \in Jobs : (Hit(k)' <=> Hit(k)) /\ (Sound(k)' <=> Sound(k))
      BY <1>1 DEF Hit, Actionable, Fresh, Kept, After, Boundary, Sound
    <3>3. {k \in Jobs \ caller'.left : Hit(k)'} = IF Hit(j) THEN hit \cup {j} ELSE hit
      BY <1>1, <2>2, <2>9, <3>2
    <3>4. IsFiniteSet(hit) /\ j \notin hit
      <4>1. hit \in SUBSET Jobs
        OBVIOUS
      <4> QED BY <1>1, <2>3, <4>1, FS_Subset
    <3>5. Cardinality(hit \cup {j}) = Cardinality(hit) + 1
      BY <3>4, FS_AddElement
    <3> HIDE DEF hit
    <3>6. caller'.hits = Cardinality({k \in Jobs \ caller'.left : Hit(k)'})
      <4>1. CASE Hit(j)
        BY <2>4, <2>9, <3>1, <3>3, <3>5, <4>1
      <4>2. CASE ~Hit(j)
        <5>1. Count(j) = 0
          BY <2>4, <4>2
        <5>2. caller'.hits = caller.hits
          BY <2>2, <2>9, <5>1
        <5>3. {k \in Jobs \ caller'.left : Hit(k)'} = hit
          BY <3>3, <4>2
        <5> QED BY <3>1, <5>2, <5>3
      <4> QED BY <4>1, <4>2
    <3>7. Sound(j)
      BY <1>3 DEF Sound
    <3>8. \A k \in Jobs \ caller'.left : Sound(k)'
      BY <2>9, <3>1, <3>2, <3>7
    <3> QED BY <3>6, <3>8
  <2>14. \A k \in Jobs : caller'.upto[k] <= row[k].cursor
    <3>1. \A k \in Jobs : caller.upto[k] <= row[k].cursor
      BY <1>1 DEF ReadSoFar
    <3> QED BY <2>7, <2>10, <3>1
  <2>15. caller'.hits + Cardinality(caller'.left) <= Cardinality(Jobs)
    BY <2>2, <2>3, <2>4, <2>5, <2>9
  <2>16. ReadSoFar'
    BY <1>1, <2>12, <2>13, <2>14, <2>15 DEF ReadSoFar
  <2>17. NoLostWakeUp'
    BY <2>9 DEF NoLostWakeUp
  <2> QED BY <1>1, <2>11, <2>16, <2>17, CallKeeps DEF WaitInv
<1> QED BY <1>2, <1>3

\* The snapshot is complete: the call returns, gives up, or goes to sleep.
LEMMA DecideHolds ==
  ASSUME WaitInv, Decide PROVE WaitInv'
<1>1. /\ TypeOK /\ RowsMarked /\ CursorsAreValid /\ NothingSkipped /\ ReadSoFar
      /\ caller.at = "reading" /\ caller.left = {} /\ UNCHANGED <<row, notes, emits, used>>
  BY DEF WaitInv, Decide
<1>2. /\ caller \in Readings(Len(notes)) /\ row \in [Jobs -> Row] /\ notes \in Seq(Note)
      /\ cursors \in [Jobs -> Nat \cup {Unset}] /\ seen \subseteq 1..Len(notes)
      /\ \A j \in Jobs : row[j].cursor \in Nat
  BY <1>1, CallerCases, TypeParts DEF Row, Cursors
<1>3. /\ caller.upto \in [Jobs -> Nat \cup {Unset}] /\ caller.shown \subseteq 1..Len(notes)
      /\ caller.hits \in Nat /\ caller.mode \in Modes /\ caller.woken \in BOOLEAN
  BY <1>2 DEF Readings, Cursors
<1>4. /\ \A j \in Jobs : caller.upto[j] <= row[j].cursor /\ Accounted(j)
      /\ Counted
  BY <1>1 DEF ReadSoFar
<1>5. RowsMarked'
  BY <1>1 DEF RowsMarked, Boundary, Matches
\* The cursors a call returns, wherever it has moved them.
<1>6. ASSUME caller' = Idle, seen \subseteq seen', seen' \subseteq 1..Len(notes),
             cursors' \in [Jobs -> Nat \cup {Unset}],
             \A j \in Jobs : cursors'[j] = After(j) \/
                 (cursors'[j] = caller.upto[j] /\ (Stands(j) /\ row[j].cursor <= caller.upto[j]
                                                     => row[j].cursor \in seen'))
      PROVE  WaitInv'
  <2>1. caller'.at = "idle"
    BY <1>6 DEF Idle
  <2>2. TypeOK'
    BY <1>1, <1>2, <1>6, TypeParts DEF TypeOK, Note, Sleeping, Readings, Cursors
  <2>3. \A j \in Jobs : After(j) \in Nat /\ After(j) <= row[j].cursor
    BY <1>1, <1>2 DEF CursorsAreValid, After
  <2>4. CursorsAreValid'
    BY <1>1, <1>2, <1>4, <1>6, <2>3 DEF CursorsAreValid, After
  <2>5. NothingSkipped'
    <3> SUFFICES ASSUME NEW j \in Jobs, cursors'[j] # Unset, Stands(j), row[j].cursor <= After(j)'
                 PROVE  row[j].cursor \in seen'
      BY <1>1 DEF NothingSkipped, Stands, Boundary
    <3>1. After(j)' = cursors'[j]
      BY DEF After
    <3>2. CASE cursors'[j] = After(j)
      <4>1. row[j].cursor <= After(j) /\ 0 < row[j].cursor
        BY <3>1, <3>2 DEF Stands
      <4>2. cursors[j] # Unset
        BY <1>2, <4>1 DEF After
      <4> QED BY <1>1, <1>6, <4>1, <4>2 DEF NothingSkipped, Stands
    <3>3. CASE cursors'[j] # After(j)
      BY <1>6, <3>1, <3>3
    <3> QED BY <3>2, <3>3
  <2> QED BY <1>5, <2>1, <2>2, <2>4, <2>5 DEF WaitInv, ReadSoFar, NoLostWakeUp
<1>7. CASE /\ seen' = seen \cup caller.shown /\ cursors' = caller.upto /\ caller' = Idle
  BY <1>2, <1>3, <1>4, <1>6, <1>7 DEF Accounted
<1>8. CASE /\ ~Ready(caller.mode, caller.hits) /\ caller.last
           /\ cursors' = Restored /\ caller' = Idle /\ UNCHANGED seen
  <2>1. CASE caller.mode = "all"
    <3>1. cursors' = [j \in Jobs |-> After(j)]
      BY <1>8, <2>1 DEF Restored
    <3>2. \A j \in Jobs : After(j) \in Nat
      BY <1>2 DEF After
    <3>3. cursors' \in [Jobs -> Nat \cup {Unset}] /\ \A j \in Jobs : cursors'[j] = After(j)
      BY <3>1, <3>2
    <3> QED BY <1>2, <1>6, <1>8, <3>3
  <2>2. CASE caller.mode # "all"
    <3>1. caller.mode = "any" /\ cursors' = caller.upto
      BY <1>3, <1>8, <2>2 DEF Restored, Modes
    <3>2. caller.hits = 0
      BY <1>3, <1>8, <3>1 DEF Ready
    <3>3. \A j \in Jobs : Stands(j) /\ row[j].cursor <= caller.upto[j] => row[j].cursor \in seen
      BY <1>4, <3>2 DEF Accounted
    <3> QED BY <1>2, <1>3, <1>6, <1>8, <3>1, <3>3
  <2> QED BY <2>1, <2>2
<1>9. CASE /\ ~Ready(caller.mode, caller.hits)
           /\ caller' = [at |-> "select", mode |-> caller.mode, woken |-> caller.woken]
           /\ UNCHANGED <<seen, cursors>>
  <2>1. /\ caller' \in Sleeping /\ caller'.at = "select" /\ caller'.mode = caller.mode
        /\ caller'.woken = caller.woken
    BY <1>3, <1>9 DEF Sleeping
  <2>2. TypeOK'
    BY <1>1, <1>9, <2>1, TypeParts DEF TypeOK, Note, Sleeping, Readings
  <2>3. ReadSoFar'
    BY <2>1 DEF ReadSoFar
  <2>4. NoLostWakeUp'
    <3> SUFFICES ASSUME ~caller.woken, emits = {}
                 PROVE  /\ ~Ready(caller.mode, HitsNow')
                        /\ \A j \in Jobs : Sound(j)'
      BY <1>1, <2>1 DEF NoLostWakeUp, Sound
    <3>1. \A j \in Jobs : (Hit(j)' <=> Hit(j)) /\ (Sound(j)' <=> Sound(j))
      BY <1>1, <1>9 DEF Hit, Actionable, Fresh, Kept, After, Boundary, Sound
    <3>2. /\ caller.hits = Cardinality({j \in Jobs \ caller.left : Hit(j)})
          /\ \A j \in Jobs \ caller.left : Sound(j)
      BY <1>4 DEF Counted
    <3>3. {j \in Jobs : Hit(j)'} = {j \in Jobs \ caller.left : Hit(j)}
      BY <1>1, <3>1
    <3>4. HitsNow' = caller.hits
      BY <3>2, <3>3 DEF HitsNow
    <3> QED BY <1>1, <1>9, <3>1, <3>2, <3>4
  <2> QED BY <1>1, <1>9, <2>2, <2>3, <2>4, CallKeeps DEF WaitInv
<1> QED BY <1>7, <1>8, <1>9 DEF Decide

-----------------------------------------------------------------------------
(* The theorems.                                                           *)

LEMMA StepHolds == WaitInv /\ [Next]_vars => WaitInv'
<1> SUFFICES ASSUME WaitInv, [Next]_vars PROVE WaitInv'
  OBVIOUS
<1>1. TypeOK
  BY DEF WaitInv
<1>2. ASSUME NEW j \in Jobs, Save(j) PROVE WaitInv'
  BY <1>2, SaveHolds
<1>3. ASSUME NEW j \in Jobs, WatchdogSaves(j) PROVE WaitInv'
  BY <1>3, WatchdogHolds
<1>4. ASSUME NEW j \in Jobs, CommitFails(j) \/ Delete(j) PROVE WaitInv'
  BY <1>4, FlagHolds
<1>5. ASSUME NEW j \in Jobs, Emit(j) PROVE WaitInv'
  BY <1>5, EmitHolds
<1>6. ASSUME NEW j \in Jobs, ReadJob(j) PROVE WaitInv'
  BY <1>6, ReadJobHolds
<1>7. ASSUME NEW mode \in Modes, Call(mode) PROVE WaitInv'
  BY <1>7, ReadingHolds DEF Call
<1>8. CASE Decide
  BY <1>8, DecideHolds
<1>9. CASE Woken \/ TimerFires
  <2>1. caller \in Sleeping
    BY <1>1, <1>9, CallerCases DEF Woken, TimerFires
  <2>2. caller.mode \in Modes /\ caller.woken \in BOOLEAN
    BY <2>1 DEF Sleeping
  <2> QED BY <1>9, <2>2, ReadingHolds DEF Woken, TimerFires
<1>10. CASE Abort
  BY <1>10, IdleHolds DEF Abort
<1>11. CASE UNCHANGED vars
  <2>1. UNCHANGED <<row, notes, emits, caller, cursors, seen, used>>
    BY <1>11 DEF vars
  <2>2. TypeOK'
    BY <1>1, <2>1, TypeParts DEF TypeOK, Note, Sleeping, Readings
  <2>3. ReadSoFar'
    <3>1. ReadSoFar
      BY DEF WaitInv
    <3>2. \A j \in Jobs : (Accounted(j)' <=> Accounted(j)) /\ (Hit(j)' <=> Hit(j)) /\ (Sound(j)' <=> Sound(j))
      BY <2>1 DEF Accounted, Stands, Hit, Actionable, Fresh, Kept, After, Boundary, Sound
    <3>3. {j \in Jobs \ caller.left : Hit(j)'} = {j \in Jobs \ caller.left : Hit(j)}
      BY <3>2
    <3>4. Counted' <=> Counted
      BY <2>1, <3>2, <3>3 DEF Counted
    <3> QED BY <2>1, <3>1, <3>2, <3>4 DEF ReadSoFar
  <2>4. NoLostWakeUp'
    <3>1. NoLostWakeUp
      BY DEF WaitInv
    <3>2. \A j \in Jobs : Hit(j)' <=> Hit(j)
      BY <2>1 DEF Hit, Actionable, Fresh, Kept, After, Boundary
    <3>3. HitsNow' = HitsNow
      <4>1. {j \in Jobs : Hit(j)'} = {j \in Jobs : Hit(j)}
        BY <3>2
      <4> QED BY <4>1 DEF HitsNow
    <3> QED BY <2>1, <3>1, <3>3 DEF NoLostWakeUp
  <2> QED BY <2>1, <2>2, <2>3, <2>4, CallKeeps DEF WaitInv
<1> QED BY <1>2, <1>3, <1>4, <1>5, <1>6, <1>7, <1>8, <1>9, <1>10, <1>11 DEF Next

\* The inductive invariant: rows and notifications agree, and what a call has read so
\* far is accounted for (wait.go:43-137 reads job by job while commits go on).
THEOREM WaitInvHolds == Spec => []WaitInv
<1> QED BY InitHolds, StepHolds, PTL DEF Spec

\* Waiting keeps its types: a call's cursors, counts and notifications are those of
\* wait.go:43-137 and notifications.go:52-97.
THEOREM WaitTypes == Spec => []TypeOK
<1>1. WaitInv => TypeOK
  BY DEF WaitInv
<1> QED BY <1>1, WaitInvHolds, PTL

\* No commit falls between a snapshot and the sleep after it (wait.go:39 subscribes
\* before the first read; the subscriber's channel holds one wake-up), however many jobs
\* are read and however many commits come meanwhile.
THEOREM WakeUpsAreNotLost == Spec => []NoLostWakeUp
<1>1. WaitInv => NoLostWakeUp
  BY DEF WaitInv
<1> QED BY <1>1, WaitInvHolds, PTL

\* A caller that goes on from its cursors is shown every boundary that stands (wait.go:139
\* restores the cursors of a call for all jobs that timed out).
THEOREM BoundariesAreNotSkipped == Spec => []NothingSkipped
<1>1. WaitInv => NothingSkipped
  BY DEF WaitInv
<1> QED BY <1>1, WaitInvHolds, PTL

\* The cursors a caller is given are never refused by notifications.go:62.
THEOREM CursorsStayValid == Spec => []CursorsAreValid
<1>1. WaitInv => CursorsAreValid
  BY DEF WaitInv
<1> QED BY <1>1, WaitInvHolds, PTL
=============================================================================
