--------------------------- MODULE RecurringProofs ---------------------------
(***************************************************************************)
(* Proofs about Recurring, for every set of schedulers, keys and schedules *)
(* and every bound.                                                        *)
(***************************************************************************)
EXTENDS Recurring, TLAPS, FiniteSetTheorems, WellFoundedInduction

TaskRow ==
  [id : Nat, schedule : Schedules, next : Instants \cup {NoTime, Never}, static : BOOLEAN]

ExecRow == [id : Nat, attached : BOOLEAN]

Item == [key : Keys, row : Nat, run : Instants, recovers : BOOLEAN]

PCs == {"down", "idle", "fire", "reserving", "reserved", "publishing", "maintain"}

Local == [pc : PCs, todo : Seq(Item), id : Nat, cleaned : BOOLEAN]

Typed ==
  /\ clock \in Instants /\ edits \in Nat /\ issued \in Nat
  /\ tasks \in [Keys -> TaskRow \cup {NoRow}]
  /\ execs \in [Keys -> [Instants -> ExecRow \cup {NoRow}]]
  /\ sched \in [Schedulers -> Local]

\* A run that is fired has something to fire; one that is reserved has the id
\* of a job.
Firing ==
  \A s \in Schedulers :
    /\ sched[s].pc \in {"fire", "reserving", "reserved", "publishing"}
         => sched[s].todo # <<>>
    /\ sched[s].pc \in {"reserved", "publishing"} => sched[s].id \in 1 .. issued

\* A locked task row is there: nobody deletes it.
TaskHeld ==
  \A s \in Schedulers :
    sched[s].pc = "reserving" => Exists(tasks[Head(sched[s].todo).key])

\* A locked execution row is there, unpublished, and has one publisher.
ExecutionHeld ==
  /\ \A s \in Schedulers :
       sched[s].pc = "publishing" =>
         LET item == Head(sched[s].todo)
             row == execs[item.key][item.run]
         IN  Exists(row) /\ row.id = sched[s].id /\ ~row.attached
  /\ \A s, t \in Schedulers :
       s # t /\ sched[s].pc = "publishing" /\ sched[t].pc = "publishing"
         => sched[s].id # sched[t].id

\* Ids are drawn once: no two runs intend the same job.
FreshIds ==
  /\ jobs \subseteq 1 .. issued
  /\ \A k \in Keys, r \in Instants : Exists(execs[k][r]) => execs[k][r].id <= issued
  /\ \A k, l \in Keys, r, q \in Instants :
       /\ Exists(execs[k][r]) /\ execs[k][r].id # NoId
       /\ Exists(execs[l][q]) /\ execs[l][q].id = execs[k][r].id
       => k = l /\ r = q

\* A remembered run is not reserved again.
Remembering ==
  \A k \in Keys, r \in Instants :
    <<k, r>> \in remembered =>
      Remembers(k, r) /\ (Exists(execs[k][r]) => execs[k][r].attached)

(***************************************************************************)
(* The inductive invariant.                                                *)
(***************************************************************************)
IInv == /\ Typed /\ Firing /\ TaskHeld /\ ExecutionHeld /\ FreshIds /\ Remembering
        /\ JobExactlyWhenAttached

-----------------------------------------------------------------------------
\* A nonempty set of naturals has a least element.
LEMMA NatMin ==
  ASSUME NEW S, S \subseteq Nat, S # {}
  PROVE  \E x \in S : \A y \in S : x <= y
<1> DEFINE R == OpToRel(<, Nat)
<1>1. IsWellFoundedOn(R, Nat)
  BY NatLessThanWellFounded
<1>2. R = {ss \in Nat \X Nat : ss[1] < ss[2]}
  BY DEF OpToRel
<1> HIDE DEF R
<1>3. PICK x \in S : \A y \in S : ~(<<y, x>> \in R)
  BY <1>1, WFMin
<1>4. ASSUME NEW y \in S, ~(x <= y) PROVE FALSE
  <2>1. y < x /\ <<y, x>> \in Nat \X Nat
    BY <1>4
  <2>2. <<y, x>> \in R
    BY <1>2, <2>1
  <2>3. QED
    BY <1>3, <2>2
<1>5. QED
  BY <1>4

\* A bounded one has a greatest.
LEMMA NatMax ==
  ASSUME NEW S, S \subseteq Nat, S # {}, NEW n \in Nat, \A y \in S : y <= n
  PROVE  Max(S) \in S
<1> DEFINE U == {m \in Nat : \A y \in S : y <= m}
<1>1. PICK m \in U : \A u \in U : m <= u
  <2>1. U \subseteq Nat /\ n \in U
    OBVIOUS
  <2> HIDE DEF U
  <2>2. QED
    BY <2>1, NatMin
<1>2. m \in S
  <2>1. SUFFICES ASSUME m \notin S PROVE FALSE
    OBVIOUS
  <2>2. PICK y \in S : TRUE
    OBVIOUS
  <2>3. m - 1 \in Nat /\ \A z \in S : z <= m - 1
    BY <2>1, <2>2
  <2>4. m - 1 \in U
    BY <2>3
  <2>5. QED
    BY <1>1, <2>4
<1>3. QED
  BY <1>2 DEF Max

\* The latest run of a schedule is an instant.
LEMMA LatestRun ==
  ASSUME NEW schedule \in Schedules, NEW now \in Instants
  PROVE  latest_cron_run(schedule, now) \in Instants
<1> DEFINE S == {r \in schedule : r <= now}
<1>1. S \subseteq Nat /\ S \subseteq Instants /\ 0 \in S /\ now \in Nat /\ \A y \in S : y <= now
  BY RecurringAssumption DEF Instants
<1> HIDE DEF S
<1>2. Max(S) \in S
  BY <1>1, NatMax
<1>3. QED
  BY <1>1, <1>2 DEF latest_cron_run, S

\* The next run is an instant or beyond the clock.
LEMMA NextRun ==
  ASSUME NEW schedule \in Schedules, NEW now \in Instants
  PROVE  next_cron_run(schedule, now) \in Instants \cup {Never}
<1> DEFINE S == {r \in schedule \cup {Never} : r > now}
<1>1. S \subseteq Instants \cup {Never} /\ S \subseteq Nat /\ Never \in S
  BY RecurringAssumption DEF Instants, Never
<1> HIDE DEF S
<1>2. Min(S) \in S
  BY <1>1, NatMin DEF Min
<1>3. QED
  BY <1>1, <1>2 DEF next_cron_run, S

\* Rows and the absence of a row are told apart.
LEMMA RowsExist ==
  /\ \A row \in TaskRow : Exists(row)
  /\ \A row \in ExecRow : Exists(row)
  /\ ~Exists(NoRow)
BY DEF TaskRow, ExecRow, Exists, NoRow

LEMMA RowType ==
  ASSUME Typed, NEW k \in Keys
  PROVE  /\ Exists(tasks[k]) => tasks[k] \in TaskRow
         /\ \A r \in Instants : Exists(execs[k][r]) => execs[k][r] \in ExecRow
BY DEF Typed, Exists

\* What a poll takes up is a finite list of runs of known tasks.
LEMMA WorkListType ==
  ASSUME IInv, NEW todo \in WorkLists(clock)
  PROVE  todo \in Seq(Item)
<1> DEFINE W == Work(clock)
           due == DueTasks(clock)
           recovery == {[key |-> p[1], row |-> tasks[p[1]].id, run |-> p[2],
                         recovers |-> TRUE] : p \in PendingRuns(due)}
           latest == {[key |-> k, row |-> tasks[k].id,
                       run |-> latest_cron_run(tasks[k].schedule, clock),
                       recovers |-> FALSE] : k \in {d \in due : Due(d, clock)}}
<1>1. due \subseteq {k \in Keys : Exists(tasks[k])}
  BY DEF DueTasks, First
<1>2. PendingRuns(due) \subseteq due \X Instants
  BY DEF PendingRuns, First
<1>3. W \subseteq recovery \cup latest
  BY DEF Work, First
<1>4. \A k \in due : k \in Keys /\ tasks[k] \in TaskRow
  BY <1>1, RowType DEF IInv
<1>5. \A k \in due : latest_cron_run(tasks[k].schedule, clock) \in Instants
  BY <1>4, LatestRun DEF TaskRow, IInv, Typed
<1>6. \A k \in due : tasks[k].id \in Nat
  BY <1>4 DEF TaskRow
<1> HIDE DEF due
<1>7. recovery \subseteq Item
  <2>1. SUFFICES ASSUME NEW p \in PendingRuns(due)
                 PROVE  [key |-> p[1], row |-> tasks[p[1]].id, run |-> p[2],
                         recovers |-> TRUE] \in Item
    OBVIOUS
  <2>2. p[1] \in due /\ p[2] \in Instants
    BY <1>2
  <2>3. QED
    BY <1>4, <1>6, <2>2 DEF Item
<1>8. latest \subseteq Item
  <2>1. SUFFICES ASSUME NEW k \in due
                 PROVE  [key |-> k, row |-> tasks[k].id,
                         run |-> latest_cron_run(tasks[k].schedule, clock),
                         recovers |-> FALSE] \in Item
    OBVIOUS
  <2>2. QED
    BY <1>4, <1>5, <1>6 DEF Item
<1>9. \A x \in recovery \cup latest : x.row = tasks[x.key].id
  OBVIOUS
<1> HIDE DEF W, recovery, latest
<1>10. IsFiniteSet(W)
  <2> DEFINE T == Keys \X (Instants \X BOOLEAN)
             f == [x \in W |-> <<x.key, <<x.run, x.recovers>>>>]
  <2>1. IsFiniteSet(T)
    <3>1. IsFiniteSet(Instants)
      BY FS_Interval, RecurringAssumption DEF Instants
    <3>2. IsFiniteSet(BOOLEAN)
      <4>1. BOOLEAN = {TRUE, FALSE}
        OBVIOUS
      <4>2. IsFiniteSet({TRUE}) /\ IsFiniteSet({TRUE} \cup {FALSE})
        BY FS_Singleton, FS_AddElement
      <4>3. QED
        BY <4>1, <4>2
    <3>3. IsFiniteSet(Instants \X BOOLEAN)
      BY <3>1, <3>2, FS_Product
    <3>4. QED
      BY <3>3, FS_Product, RecurringAssumption
  <2>2. W \subseteq Item
    BY <1>3, <1>7, <1>8
  <2>3. f \in [W -> T]
    BY <2>2 DEF Item
  <2>4. ASSUME NEW x \in W, NEW y \in W, f[x] = f[y] PROVE x = y
    <3>1. x.key = y.key /\ x.run = y.run /\ x.recovers = y.recovers
      BY <2>4
    <3>2. x.row = y.row
      BY <1>3, <1>9, <3>1
    <3>3. QED
      BY <2>2, <3>1, <3>2 DEF Item
  <2>5. f \in Injection(W, T)
    BY <2>3, <2>4 DEF Injection, IsInjective
  <2>6. QED
    BY <2>1, <2>5, FS_Injection
<1>11. Cardinality(W) \in Nat
  BY <1>10, FS_CardinalityType
<1>12. todo \in [1 .. Cardinality(W) -> W]
  BY DEF WorkLists, SetToSeqs, W
<1>13. QED
  BY <1>3, <1>7, <1>8, <1>11, <1>12

-----------------------------------------------------------------------------
(* Steps of one scheduler.                                                 *)

\* The local state x is one that scheduler s may have after the step.
Fits(s, x) ==
  /\ x \in Local
  /\ x.pc \in {"fire", "reserving", "reserved", "publishing"} => x.todo # <<>>
  /\ x.pc \in {"reserved", "publishing"} => x.id \in 1 .. issued'
  /\ x.pc = "reserving" => Exists(tasks'[Head(x.todo).key])
  /\ x.pc = "publishing" =>
       LET item == Head(x.todo)
           row == execs'[item.key][item.run]
       IN  /\ Exists(row) /\ row.id = x.id /\ ~row.attached
           /\ \A t \in Schedulers \ {s} :
                sched[t].pc = "publishing" => sched[t].id # x.id

\* The step leaves the rows that scheduler t has locked alone.
Undisturbed(t) ==
  LET item == Head(sched[t].todo) IN
  /\ sched[t].pc = "reserving" => Exists(tasks'[item.key])
  /\ sched[t].pc = "publishing" => execs'[item.key][item.run] = execs[item.key][item.run]

LEMMA LocalStep ==
  ASSUME IInv, NEW s \in Schedulers, NEW x, Fits(s, x), sched' = [sched EXCEPT ![s] = x],
         issued' \in {issued, issued + 1}, \A t \in Schedulers \ {s} : Undisturbed(t)
  PROVE  sched' \in [Schedulers -> Local] /\ Firing' /\ TaskHeld' /\ ExecutionHeld'
<1>1. /\ sched \in [Schedulers -> Local] /\ issued \in Nat
      /\ sched'[s] = x /\ \A t \in Schedulers \ {s} : sched'[t] = sched[t]
      /\ sched' \in [Schedulers -> Local]
  BY DEF IInv, Typed, Fits
<1>2. Firing'
  BY <1>1 DEF IInv, Firing, Fits
<1>3. TaskHeld'
  BY <1>1 DEF IInv, TaskHeld, Fits, Undisturbed
<1>4. ExecutionHeld'
  <2>1. ASSUME NEW t \in Schedulers, sched'[t].pc = "publishing"
        PROVE  LET item == Head(sched'[t].todo)
                   row == execs'[item.key][item.run]
               IN  Exists(row) /\ row.id = sched'[t].id /\ ~row.attached
    <3>1. CASE t = s
      BY <1>1, <2>1, <3>1 DEF Fits
    <3>2. CASE t # s
      BY <1>1, <2>1, <3>2 DEF IInv, ExecutionHeld, Undisturbed
    <3>3. QED
      BY <3>1, <3>2
  <2>2. ASSUME NEW t \in Schedulers, NEW u \in Schedulers, t # u,
               sched'[t].pc = "publishing", sched'[u].pc = "publishing"
        PROVE  sched'[t].id # sched'[u].id
    BY <1>1, <2>2 DEF IInv, ExecutionHeld, Fits
  <2>3. QED
    BY <2>1, <2>2 DEF ExecutionHeld, Exists
<1>5. QED
  BY <1>1, <1>2, <1>3, <1>4

\* A step that only a scheduler's local state notices.
LEMMA LocalOnly ==
  ASSUME IInv, NEW s \in Schedulers, NEW x, Fits(s, x), sched' = [sched EXCEPT ![s] = x],
         UNCHANGED <<clock, tasks, edits, execs, issued, jobs, remembered>>
  PROVE  IInv'
<1>1. \A t \in Schedulers \ {s} : Undisturbed(t)
  BY DEF IInv, TaskHeld, Undisturbed
<1>2. sched' \in [Schedulers -> Local] /\ Firing' /\ TaskHeld' /\ ExecutionHeld'
  BY <1>1, LocalStep
<1>3. Typed' /\ FreshIds' /\ Remembering' /\ JobExactlyWhenAttached'
  BY <1>2 DEF IInv, Typed, FreshIds, Remembering, Remembers, Exists, JobExactlyWhenAttached
<1>4. QED
  BY <1>2, <1>3 DEF IInv

\* A scheduler that is done with a run, that stops or that goes on to the next.
LEMMA Settled ==
  ASSUME IInv, NEW s \in Schedulers
  PROVE  /\ \A c \in BOOLEAN :
              Fits(s, [sched[s] EXCEPT !.pc = "idle", !.cleaned = c])
         /\ Fits(s, [sched[s] EXCEPT !.pc = "down", !.todo = <<>>, !.id = NoId])
         /\ sched[s].todo # <<>> =>
              LET rest == Tail(sched[s].todo)
              IN  Fits(s, [sched[s] EXCEPT !.todo = rest, !.id = NoId,
                             !.pc = IF rest = <<>> THEN "maintain" ELSE "fire"])
<1>1. sched[s] \in Local
  BY DEF IInv, Typed
<1>2. \A c \in BOOLEAN : Fits(s, [sched[s] EXCEPT !.pc = "idle", !.cleaned = c])
  BY <1>1 DEF Fits, Local, PCs
<1>3. Fits(s, [sched[s] EXCEPT !.pc = "down", !.todo = <<>>, !.id = NoId])
  <2> DEFINE none == <<>>
  <2>1. none \in Seq(Item)
    OBVIOUS
  <2> HIDE DEF none
  <2>2. Fits(s, [sched[s] EXCEPT !.pc = "down", !.todo = none, !.id = NoId])
    BY <1>1, <2>1 DEF Fits, Local, PCs, NoId
  <2>3. QED
    BY <2>2 DEF none
<1>4. ASSUME sched[s].todo # <<>>
      PROVE  LET rest == Tail(sched[s].todo)
             IN  Fits(s, [sched[s] EXCEPT !.todo = rest, !.id = NoId,
                            !.pc = IF rest = <<>> THEN "maintain" ELSE "fire"])
  <2> DEFINE rest == Tail(sched[s].todo)
  <2>1. rest \in Seq(Item)
    BY <1>1, <1>4 DEF Local
  <2> HIDE DEF rest
  <2>2. Fits(s, [sched[s] EXCEPT !.todo = rest, !.id = NoId,
                   !.pc = IF rest = <<>> THEN "maintain" ELSE "fire"])
    BY <1>1, <2>1 DEF Fits, Local, PCs, NoId
  <2>3. QED
    BY <2>2 DEF rest
<1>5. QED
  BY <1>2, <1>3, <1>4

LEMMA DropFits ==
  ASSUME IInv, NEW s \in Schedulers, sched[s].todo # <<>>, Drop(s)
  PROVE  \E x : Fits(s, x) /\ sched' = [sched EXCEPT ![s] = x]
<1> DEFINE rest == Tail(sched[s].todo)
           x == [sched[s] EXCEPT !.todo = rest, !.id = NoId,
                   !.pc = IF rest = <<>> THEN "maintain" ELSE "fire"]
<1>1. Fits(s, x)
  BY Settled
<1>2. sched' = [sched EXCEPT ![s] = x]
  BY DEF Drop
<1>3. QED
  BY <1>1, <1>2

\* The run that a scheduler is about to fire.
LEMMA HeadType ==
  ASSUME IInv, NEW s \in Schedulers, sched[s].todo # <<>>
  PROVE  Head(sched[s].todo) \in Item
<1>1. sched[s].todo \in Seq(Item)
  BY DEF IInv, Typed, Local
<1>2. QED
  BY <1>1

\* Polling, taking locks, stopping and crashing.
LEMMA LocalIInv ==
  ASSUME IInv, NEW s \in Schedulers,
         \/ Poll(s) \/ LockTask(s) \/ LockExecution(s)
         \/ PublishRaises(s) \/ Crash(s) \/ CleanupInterval(s)
  PROVE  IInv'
<1>0. sched[s] \in Local /\ issued \in Nat
  BY DEF IInv, Typed
<1>1. CASE Poll(s)
  <2>1. PICK todo \in WorkLists(clock) :
          sched' = [sched EXCEPT ![s].todo = todo,
                      ![s].pc = IF todo = <<>> THEN "maintain" ELSE "fire"]
    BY <1>1 DEF Poll
  <2> DEFINE x == [sched[s] EXCEPT !.todo = todo,
                     !.pc = IF todo = <<>> THEN "maintain" ELSE "fire"]
  <2>2. todo \in Seq(Item)
    BY WorkListType
  <2>3. Fits(s, x)
    BY <1>0, <2>2 DEF Fits, Local, PCs
  <2>4. sched' = [sched EXCEPT ![s] = x]
    BY <2>1
  <2> HIDE DEF x
  <2>5. QED
    BY <1>1, <2>3, <2>4, LocalOnly DEF Poll
<1>2. CASE LockTask(s)
  <2> DEFINE item == Head(sched[s].todo)
             x == [sched[s] EXCEPT !.pc = "reserving"]
  <2>1. sched[s].pc = "fire" /\ sched[s].todo # <<>>
    BY <1>2 DEF LockTask, IInv, Firing
  <2>2. \/ Exists(tasks[item.key]) /\ Goto(s, "reserving")
        \/ Drop(s)
    BY <1>2 DEF LockTask
  <2>3. UNCHANGED <<clock, tasks, edits, execs, issued, jobs, remembered>>
    BY <1>2 DEF LockTask
  <2>4. CASE Exists(tasks[item.key]) /\ Goto(s, "reserving")
    <3>1. Fits(s, x)
      BY <1>0, <2>1, <2>3, <2>4 DEF Fits, Local, PCs
    <3>2. sched' = [sched EXCEPT ![s] = x]
      BY <2>4 DEF Goto
    <3>3. QED
      BY <2>3, <3>1, <3>2, LocalOnly
  <2>5. QED
    BY <2>1, <2>2, <2>3, <2>4, DropFits, LocalOnly
<1>3. CASE LockExecution(s)
  <2> DEFINE item == Head(sched[s].todo)
             row == execs[item.key][item.run]
             x == [sched[s] EXCEPT !.pc = "publishing"]
  <2>1. sched[s].pc = "reserved" /\ sched[s].todo # <<>> /\ sched[s].id \in 1 .. issued
    BY <1>3 DEF LockExecution, IInv, Firing
  <2>2. \/ /\ Exists(row) /\ row.id = sched[s].id /\ ~ExecutionLocked(sched[s].id)
           /\ ~row.attached /\ Goto(s, "publishing")
        \/ Drop(s)
    BY <1>3 DEF LockExecution
  <2>3. UNCHANGED <<clock, tasks, edits, execs, issued, jobs, remembered>>
    BY <1>3 DEF LockExecution
  <2>4. CASE /\ Exists(row) /\ row.id = sched[s].id /\ ~ExecutionLocked(sched[s].id)
             /\ ~row.attached /\ Goto(s, "publishing")
    <3>1. \A t \in Schedulers : sched[t].pc = "publishing" => sched[t].id # sched[s].id
      BY <2>4 DEF ExecutionLocked, HoldsExecution
    <3>2. Fits(s, x)
      BY <1>0, <2>1, <2>3, <2>4, <3>1 DEF Fits, Local, PCs
    <3>3. sched' = [sched EXCEPT ![s] = x]
      BY <2>4 DEF Goto
    <3>4. QED
      BY <2>3, <3>2, <3>3, LocalOnly
  <2>5. QED
    BY <2>1, <2>2, <2>3, <2>4, DropFits, LocalOnly
<1>4. CASE PublishRaises(s) \/ Crash(s)
  <2> DEFINE x == [sched[s] EXCEPT !.pc = "down", !.todo = <<>>, !.id = NoId]
  <2>1. sched' = [sched EXCEPT ![s] = x]
        /\ UNCHANGED <<clock, tasks, edits, execs, issued, jobs, remembered>>
    BY <1>4 DEF PublishRaises, Crash, Stopped
  <2>2. Fits(s, x)
    BY Settled
  <2> HIDE DEF x
  <2>3. QED
    BY <2>1, <2>2, LocalOnly
<1>5. CASE CleanupInterval(s)
  <2> DEFINE x == [sched[s] EXCEPT !.cleaned = FALSE]
  <2>1. sched' = [sched EXCEPT ![s] = x]
        /\ UNCHANGED <<clock, tasks, edits, execs, issued, jobs, remembered>>
    BY <1>5 DEF CleanupInterval
  <2>2. x \in Local /\ x.pc = sched[s].pc /\ x.todo = sched[s].todo /\ x.id = sched[s].id
    BY <1>0 DEF Local
  <2>3. Fits(s, x)
    BY <2>1, <2>2 DEF Fits, IInv, Firing, TaskHeld, ExecutionHeld
  <2> HIDE DEF x
  <2>4. QED
    BY <2>1, <2>3, LocalOnly
<1>6. QED
  BY <1>1, <1>2, <1>3, <1>4, <1>5

-----------------------------------------------------------------------------
(* Steps that change rows.                                                 *)

\* What is remembered stays so, as long as no remembered run is reserved anew.
LEMMA RememberingKept ==
  ASSUME IInv, Remember({}),
         \A k \in Keys, r \in Instants :
           Exists(execs'[k][r]) /\ ~execs'[k][r].attached
             => \/ Exists(execs[k][r]) /\ ~execs[k][r].attached
                \/ ~Remembers(k, r)
  PROVE  Remembering'
<1> SUFFICES ASSUME NEW k \in Keys, NEW r \in Instants, <<k, r>> \in remembered'
             PROVE  Remembers(k, r)' /\ (Exists(execs'[k][r]) => execs'[k][r].attached)
  BY DEF Remembering, Exists
<1>1. <<k, r>> \in remembered /\ Remembers(k, r)'
  BY DEF Remember
<1>2. Remembers(k, r) /\ (Exists(execs[k][r]) => execs[k][r].attached)
  BY <1>1 DEF IInv, Remembering
<1>3. QED
  BY <1>1, <1>2

\* Jobs are deleted with the rows attached to them, and old rows.
LEMMA Deleting ==
  ASSUME IInv, NEW gone, NEW old, execs' = Without(gone, old), jobs' = jobs \ gone,
         issued' = issued, Remember({})
  PROVE  /\ execs' \in [Keys -> [Instants -> ExecRow \cup {NoRow}]]
         /\ FreshIds' /\ JobExactlyWhenAttached' /\ Remembering'
         /\ \A k \in Keys, r \in Instants :
              execs'[k][r] = NoRow \/ execs'[k][r] = execs[k][r]
         /\ \A k \in Keys, r \in Instants :
              Exists(execs[k][r]) /\ ~execs[k][r].attached /\ <<k, r>> \notin old
                => execs'[k][r] = execs[k][r]
<1>1. ASSUME NEW k \in Keys, NEW r \in Instants
      PROVE  execs'[k][r] = IF /\ Exists(execs[k][r])
                               /\ \/ <<k, r>> \in old
                                  \/ execs[k][r].attached /\ execs[k][r].id \in gone
                            THEN NoRow ELSE execs[k][r]
  BY DEF Without
<1>2. execs' \in [Keys -> [Instants -> ExecRow \cup {NoRow}]]
  BY DEF Without, IInv, Typed
<1>3. \A k \in Keys, r \in Instants :
        execs'[k][r] = NoRow \/ execs'[k][r] = execs[k][r]
  BY <1>1
<1>4. FreshIds'
  <2>1. \A k \in Keys, r \in Instants :
          Exists(execs'[k][r]) => Exists(execs[k][r]) /\ execs'[k][r] = execs[k][r]
    BY <1>3 DEF Exists
  <2>2. jobs' \subseteq 1 .. issued'
    BY DEF IInv, FreshIds
  <2>3. \A k \in Keys, r \in Instants : Exists(execs'[k][r]) => execs'[k][r].id <= issued'
    BY <2>1 DEF IInv, FreshIds
  <2>4. ASSUME NEW k \in Keys, NEW l \in Keys, NEW r \in Instants, NEW q \in Instants,
               Exists(execs'[k][r]), execs'[k][r].id # NoId,
               Exists(execs'[l][q]), execs'[l][q].id = execs'[k][r].id
        PROVE  k = l /\ r = q
    <3>1. /\ Exists(execs[k][r]) /\ execs[k][r].id # NoId
          /\ Exists(execs[l][q]) /\ execs[l][q].id = execs[k][r].id
      BY <2>1, <2>4
    <3>2. QED
      BY <3>1 DEF IInv, FreshIds
  <2>5. QED
    BY <2>2, <2>3, <2>4 DEF FreshIds, Exists
<1>5. JobExactlyWhenAttached'
  <2> SUFFICES ASSUME NEW k \in Keys, NEW r \in Instants,
                      Exists(execs'[k][r]), execs'[k][r].id # NoId
               PROVE  execs'[k][r].attached <=> execs'[k][r].id \in jobs'
    BY DEF JobExactlyWhenAttached, Exists
  <2>1. /\ execs'[k][r] = execs[k][r] /\ Exists(execs[k][r])
        /\ ~(execs[k][r].attached /\ execs[k][r].id \in gone)
    BY <1>1, RowsExist
  <2>2. execs[k][r].attached <=> execs[k][r].id \in jobs
    BY <2>1 DEF IInv, JobExactlyWhenAttached
  <2>3. QED
    BY <2>1, <2>2
<1>6. Remembering'
  BY <1>3, RowsExist, RememberingKept
<1>7. QED
  BY <1>1, <1>2, <1>3, <1>4, <1>5, <1>6

\* The job of a run ends.
LEMMA JobIInv ==
  ASSUME IInv, NEW id, FinishJob(id) \/ DiscardJob(id)
  PROVE  IInv'
<1>1. UNCHANGED <<clock, tasks, edits, issued, sched>> /\ Remember({})
  BY DEF FinishJob, DiscardJob
<1>2. CASE UNCHANGED <<jobs, execs>>
  <2>1. Remembering'
    BY <1>1, <1>2, RememberingKept
  <2>2. Typed' /\ Firing' /\ TaskHeld' /\ ExecutionHeld'
    BY <1>1, <1>2 DEF IInv, Typed, Firing, TaskHeld, ExecutionHeld
  <2>3. FreshIds' /\ JobExactlyWhenAttached'
    BY <1>1, <1>2 DEF IInv, FreshIds, JobExactlyWhenAttached
  <2>4. QED
    BY <2>1, <2>2, <2>3 DEF IInv
<1>3. CASE jobs' = jobs \ {id} /\ execs' = Without({id}, {})
  <2>1. /\ execs' \in [Keys -> [Instants -> ExecRow \cup {NoRow}]]
        /\ FreshIds' /\ JobExactlyWhenAttached' /\ Remembering'
        /\ \A k \in Keys, r \in Instants :
             Exists(execs[k][r]) /\ ~execs[k][r].attached => execs'[k][r] = execs[k][r]
    <3> DEFINE gone == {id}
               old == {}
    <3>1. jobs' = jobs \ gone /\ execs' = Without(gone, old) /\ \A p : p \notin old
      BY <1>3
    <3> HIDE DEF gone, old
    <3>2. QED
      BY <1>1, <3>1, Deleting
  <2>2. Typed' /\ Firing' /\ TaskHeld'
    BY <1>1, <2>1 DEF IInv, Typed, Firing, TaskHeld
  <2>3. ExecutionHeld'
    <3>1. ASSUME NEW s \in Schedulers, sched[s].pc = "publishing"
          PROVE  LET item == Head(sched[s].todo)
                     row == execs'[item.key][item.run]
                 IN  Exists(row) /\ row.id = sched[s].id /\ ~row.attached
      <4>1. Head(sched[s].todo) \in Item
        BY <3>1, HeadType DEF IInv, Firing
      <4>2. Head(sched[s].todo).key \in Keys /\ Head(sched[s].todo).run \in Instants
        BY <4>1 DEF Item
      <4>3. QED
        BY <2>1, <3>1, <4>2 DEF IInv, ExecutionHeld
    <3>2. QED
      BY <1>1, <3>1 DEF IInv, ExecutionHeld, Exists
  <2>4. QED
    BY <2>1, <2>2, <2>3 DEF IInv
<1>4. QED
  BY <1>2, <1>3 DEF FinishJob, DiscardJob

\* Time, and the code of a task.
LEMMA AmbientIInv ==
  ASSUME IInv, Tick \/ \E k \in Keys : CodeRemoved(k)
  PROVE  IInv'
<1>1. UNCHANGED <<tasks, edits, execs, issued, jobs, sched, remembered>>
      /\ clock' \in Instants
  BY RecurringAssumption DEF Tick, CodeRemoved, IInv, Typed, Instants
<1>2. Typed' /\ Firing' /\ TaskHeld' /\ ExecutionHeld'
  BY <1>1 DEF IInv, Typed, Firing, TaskHeld, ExecutionHeld
<1>3. FreshIds' /\ JobExactlyWhenAttached' /\ Remembering'
  BY <1>1 DEF IInv, FreshIds, JobExactlyWhenAttached, Remembering, Remembers, Exists
<1>4. QED
  BY <1>2, <1>3 DEF IInv

\* Maintenance at the end of a poll.
LEMMA MaintainIInv ==
  ASSUME IInv, NEW s \in Schedulers, Maintain(s)
  PROVE  IInv'
<1> DEFINE due == ~sched[s].cleaned
           cleared == Cleared(due)
           old == IF due THEN OldExecutions ELSE {}
           x == [sched[s] EXCEPT !.pc = "idle", !.cleaned = TRUE]
<1>1. /\ jobs' = jobs \ cleared /\ execs' = Without(cleared, old)
      /\ sched' = [sched EXCEPT ![s] = x]
      /\ UNCHANGED <<clock, tasks, edits, issued>> /\ Remember({})
  BY DEF Maintain
<1>2. Fits(s, x)
  BY Settled
<1>3. old \subseteq OldExecutions
  OBVIOUS
<1> HIDE DEF x, cleared, old
<1>4. /\ execs' \in [Keys -> [Instants -> ExecRow \cup {NoRow}]]
      /\ FreshIds' /\ JobExactlyWhenAttached' /\ Remembering'
      /\ \A k \in Keys, r \in Instants :
           Exists(execs[k][r]) /\ ~execs[k][r].attached /\ <<k, r>> \notin old
             => execs'[k][r] = execs[k][r]
  BY <1>1, Deleting
<1>5. ASSUME NEW t \in Schedulers PROVE Undisturbed(t)
  <2>1. sched[t].pc = "reserving" => Exists(tasks'[Head(sched[t].todo).key])
    BY <1>1 DEF IInv, TaskHeld
  <2>2. ASSUME sched[t].pc = "publishing"
        PROVE  LET item == Head(sched[t].todo)
               IN  execs'[item.key][item.run] = execs[item.key][item.run]
    <3> DEFINE item == Head(sched[t].todo)
    <3>1. item \in Item
      BY <2>2, HeadType DEF IInv, Firing
    <3>2. item.key \in Keys /\ item.run \in Instants
      BY <3>1 DEF Item
    <3>3. /\ Exists(execs[item.key][item.run]) /\ ~execs[item.key][item.run].attached
          /\ execs[item.key][item.run].id = sched[t].id
      BY <2>2 DEF IInv, ExecutionHeld
    <3>4. ExecutionLocked(execs[item.key][item.run].id)
      BY <2>2, <3>3 DEF ExecutionLocked, HoldsExecution
    <3>5. <<item.key, item.run>> \notin old
      BY <1>3, <3>4 DEF OldExecutions
    <3>6. QED
      BY <1>4, <3>2, <3>3, <3>5
  <2>3. QED
    BY <2>1, <2>2 DEF Undisturbed
<1>6. sched' \in [Schedulers -> Local] /\ Firing' /\ TaskHeld' /\ ExecutionHeld'
  BY <1>1, <1>2, <1>5, LocalStep
<1>7. Typed'
  BY <1>1, <1>4, <1>6 DEF IInv, Typed
<1>8. QED
  BY <1>4, <1>6, <1>7 DEF IInv

\* The task rows change; the rows that are locked stay.
LEMMA TasksChange ==
  ASSUME IInv, tasks' \in [Keys -> TaskRow \cup {NoRow}], edits' \in Nat,
         UNCHANGED <<clock, execs, issued, jobs>>, Remember({}),
         \A k \in Keys : TaskLocked(k) /\ Exists(tasks[k]) => Exists(tasks'[k])
  PROVE  /\ Remembering' /\ FreshIds' /\ JobExactlyWhenAttached'
         /\ \A t \in Schedulers : Undisturbed(t)
<1>1. Remembering'
  BY RememberingKept
<1>2. FreshIds' /\ JobExactlyWhenAttached'
  BY DEF IInv, FreshIds, JobExactlyWhenAttached
<1>3. ASSUME NEW t \in Schedulers PROVE Undisturbed(t)
  <2>1. ASSUME sched[t].pc = "reserving"
        PROVE  Exists(tasks'[Head(sched[t].todo).key])
    <3>1. Head(sched[t].todo) \in Item
      BY <2>1, HeadType DEF IInv, Firing
    <3>2. Head(sched[t].todo).key \in Keys
      BY <3>1 DEF Item
    <3>3. QED
      BY <2>1, <3>2 DEF TaskLocked, HoldsTask, IInv, TaskHeld
  <2>2. QED
    BY <2>1 DEF Undisturbed
<1>4. QED
  BY <1>1, <1>2, <1>3

\* What the set-up of a task writes.
LEMMA NewRows ==
  ASSUME Typed, NEW schedule \in Schedules
  PROVE  /\ \A static \in BOOLEAN : NewRow(schedule, static) \in TaskRow
         /\ \A row \in TaskRow : Rescheduled(row, schedule) \in TaskRow
<1>1. edits + 1 \in Nat
  BY DEF Typed
<1>2. \A static \in BOOLEAN : NewRow(schedule, static) \in TaskRow
  BY <1>1 DEF NewRow, TaskRow
<1>3. \A row \in TaskRow : Rescheduled(row, schedule) \in TaskRow
  <2>1. SUFFICES ASSUME NEW row \in TaskRow
                 PROVE  [row EXCEPT !.schedule = schedule, !.next = NoTime] \in TaskRow
    BY DEF Rescheduled
  <2>2. QED
    BY DEF TaskRow
<1>4. QED
  BY <1>2, <1>3

\* Edits are counted.
LEMMA EditType ==
  ASSUME Typed, Edit
  PROVE  edits' \in Nat
<1>1. edits \in Nat
  BY DEF Typed
<1>2. edits' = edits \/ edits' = edits + 1
  BY DEF Edit
<1>3. QED
  BY <1>1, <1>2

\* A release is started.
LEMMA StartIInv ==
  ASSUME IInv, NEW s \in Schedulers, NEW config \in Configs, Start(s, config)
  PROVE  IInv'
<1> DEFINE x == [sched[s] EXCEPT !.pc = "idle", !.cleaned = FALSE]
<1>1. /\ sched' = [sched EXCEPT ![s] = x]
      /\ UNCHANGED <<clock, execs, issued, jobs>> /\ Remember({})
  BY DEF Start
<1>2. Fits(s, x)
  BY Settled
<1> HIDE DEF x
<1>3. edits' \in Nat
  BY EditType DEF Start, IInv
<1>4. \A k \in Keys : k \in DOMAIN config => config[k] \in Schedules
  BY RecurringAssumption
<1>5. ASSUME NEW k \in Keys
      PROVE  /\ tasks'[k] \in TaskRow \cup {NoRow}
             /\ TaskLocked(k) /\ Exists(tasks[k]) => Exists(tasks'[k])
  <2>1. tasks'[k] = IF k \in DOMAIN config
                    THEN IF Exists(tasks[k]) THEN Rescheduled(tasks[k], config[k])
                                             ELSE NewRow(config[k], TRUE)
                    ELSE IF Exists(tasks[k]) /\ tasks[k].static THEN NoRow ELSE tasks[k]
    BY DEF Start
  <2>2. /\ tasks[k] \in TaskRow \cup {NoRow}
        /\ Exists(tasks[k]) => tasks[k] \in TaskRow
    BY RowType DEF IInv, Typed
  <2>3. tasks'[k] \in TaskRow \cup {NoRow}
    BY <1>4, <2>1, <2>2, NewRows DEF IInv
  <2>4. TaskLocked(k) => ~(k \in DOMAIN config \/ (Exists(tasks[k]) /\ tasks[k].static))
    BY DEF Start
  <2>5. QED
    BY <2>1, <2>3, <2>4
<1>6. tasks' \in [Keys -> TaskRow \cup {NoRow}]
  BY <1>5 DEF Start
<1>7. /\ Remembering' /\ FreshIds' /\ JobExactlyWhenAttached'
      /\ \A t \in Schedulers : Undisturbed(t)
  BY <1>1, <1>3, <1>5, <1>6, TasksChange
<1>8. sched' \in [Schedulers -> Local] /\ Firing' /\ TaskHeld' /\ ExecutionHeld'
  BY <1>1, <1>2, <1>7, LocalStep
<1>9. Typed'
  BY <1>1, <1>3, <1>6, <1>8 DEF IInv, Typed
<1>10. QED
  BY <1>7, <1>8, <1>9 DEF IInv

\* An operator schedules or unschedules a dynamic task.
LEMMA DynamicIInv ==
  ASSUME IInv, NEW k \in Keys,
         \/ \E schedule \in Schedules : schedule_recurring_task(k, schedule)
         \/ unschedule_recurring_task(k)
  PROVE  IInv'
<1>1. UNCHANGED <<clock, execs, issued, jobs, sched>> /\ Remember({}) /\ ~TaskLocked(k)
  BY DEF schedule_recurring_task, unschedule_recurring_task
<1>2. edits' \in Nat
  BY EditType DEF schedule_recurring_task, unschedule_recurring_task, IInv, Typed
<1>3. \E row \in TaskRow \cup {NoRow} : tasks' = [tasks EXCEPT ![k] = row]
  <2>1. CASE unschedule_recurring_task(k)
    BY <2>1 DEF unschedule_recurring_task
  <2>2. ASSUME NEW schedule \in Schedules, schedule_recurring_task(k, schedule)
        PROVE  \E row \in TaskRow \cup {NoRow} : tasks' = [tasks EXCEPT ![k] = row]
    <3>1. \/ tasks' = [tasks EXCEPT ![k] = NewRow(schedule, FALSE)]
          \/ Exists(tasks[k]) /\ tasks' = [tasks EXCEPT ![k] = Rescheduled(tasks[k], schedule)]
      BY <2>2 DEF schedule_recurring_task
    <3>2. /\ NewRow(schedule, FALSE) \in TaskRow
          /\ Exists(tasks[k]) => Rescheduled(tasks[k], schedule) \in TaskRow
      BY NewRows, RowType DEF IInv
    <3>3. QED
      BY <3>1, <3>2
  <2>3. QED
    BY <2>1, <2>2
<1>4. /\ tasks' \in [Keys -> TaskRow \cup {NoRow}]
      /\ \A q \in Keys : q # k => tasks'[q] = tasks[q]
  BY <1>3 DEF IInv, Typed
<1>5. /\ Remembering' /\ FreshIds' /\ JobExactlyWhenAttached'
      /\ \A t \in Schedulers : Undisturbed(t)
  BY <1>1, <1>2, <1>4, TasksChange
<1>6. Typed' /\ Firing' /\ ExecutionHeld'
  BY <1>1, <1>2, <1>4 DEF IInv, Typed, Firing, ExecutionHeld
<1>7. TaskHeld'
  BY <1>1, <1>5 DEF TaskHeld, Undisturbed, Exists
<1>8. QED
  BY <1>5, <1>6, <1>7 DEF IInv

\* A run is published.
LEMMA PublishIInv ==
  ASSUME IInv, NEW s \in Schedulers, Publish(s)
  PROVE  IInv'
<1> DEFINE item == Head(sched[s].todo)
           k == item.key
           r == item.run
           id == sched[s].id
           row == [execs[k][r] EXCEPT !.attached = TRUE]
<1>1. /\ sched[s].pc = "publishing" /\ sched[s].todo # <<>> /\ id \in 1 .. issued
      /\ Exists(execs[k][r]) /\ execs[k][r].id = id /\ ~execs[k][r].attached
  BY DEF Publish, IInv, Firing, ExecutionHeld
<1>2. k \in Keys /\ r \in Instants
  <2>1. item \in Item
    BY <1>1, HeadType
  <2>2. QED
    BY <2>1 DEF Item
<1>3. /\ jobs' = jobs \cup {id} /\ Drop(s)
      /\ execs' = [execs EXCEPT ![k] = [execs[k] EXCEPT ![r] = row]]
      /\ UNCHANGED <<clock, tasks, edits, issued>>
      /\ Remember({<<k, r>>})
  BY DEF Publish
<1>4. execs[k][r] \in ExecRow
  BY <1>1, <1>2, RowType DEF IInv
<1>5. row \in ExecRow /\ row.id = id /\ row.attached /\ Exists(row)
  BY <1>1, <1>4, RowsExist DEF ExecRow
<1> HIDE DEF row, id, k, r
<1>6. /\ execs' \in [Keys -> [Instants -> ExecRow \cup {NoRow}]]
      /\ execs'[k][r] = row
      /\ \A l \in Keys, q \in Instants : l # k \/ q # r => execs'[l][q] = execs[l][q]
  BY <1>2, <1>3, <1>5 DEF IInv, Typed
<1>7. \A l \in Keys, q \in Instants :
        /\ Exists(execs'[l][q]) <=> Exists(execs[l][q])
        /\ Exists(execs'[l][q]) => execs'[l][q].id = execs[l][q].id
  BY <1>1, <1>5, <1>6
<1>8. FreshIds'
  <2>1. jobs' \subseteq 1 .. issued'
    BY <1>1, <1>3 DEF IInv, FreshIds
  <2>2. \A l \in Keys, q \in Instants : Exists(execs'[l][q]) => execs'[l][q].id <= issued'
    BY <1>3, <1>7 DEF IInv, FreshIds
  <2>3. ASSUME NEW l \in Keys, NEW m \in Keys, NEW p \in Instants, NEW q \in Instants,
               Exists(execs'[l][p]), execs'[l][p].id # NoId,
               Exists(execs'[m][q]), execs'[m][q].id = execs'[l][p].id
        PROVE  l = m /\ p = q
    <3>1. /\ Exists(execs[l][p]) /\ execs[l][p].id # NoId
          /\ Exists(execs[m][q]) /\ execs[m][q].id = execs[l][p].id
      BY <1>7, <2>3
    <3>2. QED
      BY <3>1 DEF IInv, FreshIds
  <2>4. QED
    BY <2>1, <2>2, <2>3 DEF FreshIds, Exists
<1>9. id # NoId
  BY <1>1 DEF NoId
<1>10. ASSUME NEW l \in Keys, NEW q \in Instants, l # k \/ q # r, Exists(execs[l][q])
       PROVE  execs[l][q].id # id
  BY <1>1, <1>2, <1>9, <1>10 DEF IInv, FreshIds
<1>11. JobExactlyWhenAttached'
  <2> SUFFICES ASSUME NEW l \in Keys, NEW q \in Instants,
                      Exists(execs'[l][q]), execs'[l][q].id # NoId
               PROVE  execs'[l][q].attached <=> execs'[l][q].id \in jobs'
    BY DEF JobExactlyWhenAttached, Exists
  <2>1. CASE l = k /\ q = r
    BY <1>3, <1>5, <1>6, <2>1
  <2>2. CASE l # k \/ q # r
    <3>1. execs'[l][q] = execs[l][q] /\ execs[l][q].id # id
      BY <1>6, <1>10, <2>2
    <3>2. execs[l][q].attached <=> execs[l][q].id \in jobs
      BY <3>1 DEF IInv, JobExactlyWhenAttached
    <3>3. QED
      BY <1>3, <3>1, <3>2
  <2>3. QED
    BY <2>1, <2>2
<1>12. Remembering'
  <2> SUFFICES ASSUME NEW l \in Keys, NEW q \in Instants, <<l, q>> \in remembered'
               PROVE  Remembers(l, q)' /\ (Exists(execs'[l][q]) => execs'[l][q].attached)
    BY DEF Remembering, Exists
  <2>1. Remembers(l, q)' /\ (<<l, q>> \in remembered \/ <<l, q>> = <<k, r>>)
    BY <1>3 DEF Remember
  <2>2. CASE l = k /\ q = r
    BY <1>5, <1>6, <2>1, <2>2
  <2>3. CASE l # k \/ q # r
    <3>1. <<l, q>> \in remembered /\ execs'[l][q] = execs[l][q]
      BY <1>6, <2>1, <2>3
    <3>2. QED
      BY <2>1, <3>1 DEF IInv, Remembering
  <2>4. QED
    BY <2>2, <2>3
<1>13. ASSUME NEW t \in Schedulers \ {s} PROVE Undisturbed(t)
  <2>1. sched[t].pc = "reserving" => Exists(tasks'[Head(sched[t].todo).key])
    BY <1>3 DEF IInv, TaskHeld
  <2>2. ASSUME sched[t].pc = "publishing"
        PROVE  LET it == Head(sched[t].todo)
               IN  execs'[it.key][it.run] = execs[it.key][it.run]
    <3> DEFINE it == Head(sched[t].todo)
    <3>1. it \in Item
      BY <2>2, HeadType DEF IInv, Firing
    <3>2. it.key \in Keys /\ it.run \in Instants
      BY <3>1 DEF Item
    <3>3. execs[it.key][it.run].id = sched[t].id /\ sched[t].id # id
      BY <1>1, <2>2 DEF IInv, ExecutionHeld, id
    <3>4. it.key # k \/ it.run # r
      BY <1>1, <3>3
    <3>5. QED
      BY <1>6, <3>2, <3>4
  <2>3. QED
    BY <2>1, <2>2 DEF Undisturbed
<1>14. sched' \in [Schedulers -> Local] /\ Firing' /\ TaskHeld' /\ ExecutionHeld'
  <2>1. PICK x : Fits(s, x) /\ sched' = [sched EXCEPT ![s] = x]
    BY <1>1, <1>3, DropFits
  <2>2. QED
    BY <1>3, <1>13, <2>1, LocalStep
<1>15. Typed'
  BY <1>3, <1>6, <1>14 DEF IInv, Typed
<1>16. QED
  BY <1>8, <1>11, <1>12, <1>14, <1>15 DEF IInv

\* A run is reserved, or found to be reserved already, or passed over.
LEMMA ReserveIInv ==
  ASSUME IInv, NEW s \in Schedulers, Reserve(s)
  PROVE  IInv'
<1> DEFINE item == Head(sched[s].todo)
           k == item.key
           r == item.run
           next == next_cron_run(tasks[k].schedule, r)
           new == [id |-> issued + 1, attached |-> FALSE]
           Resume == sched' = [sched EXCEPT ![s].pc = "reserved", ![s].id = execs[k][r].id]
           Advance == tasks' = [tasks EXCEPT ![k] = Advanced(tasks[k], next)]
<1>1. /\ sched[s].pc = "reserving" /\ sched[s].todo # <<>> /\ Exists(tasks[k])
      /\ sched[s] \in Local /\ issued \in Nat
  BY DEF Reserve, IInv, Firing, TaskHeld, Typed
<1>2. k \in Keys /\ r \in Instants /\ r \in Nat
  <2>1. item \in Item
    BY <1>1, HeadType
  <2>2. k \in Keys /\ r \in Instants
    BY <2>1 DEF Item
  <2>3. QED
    BY <2>2, RecurringAssumption DEF Instants
<1>3. tasks[k] \in TaskRow
  BY <1>1, <1>2, RowType DEF IInv
<1>4. Advanced(tasks[k], next) \in TaskRow
  <2>1. next \in Instants \cup {Never}
    BY <1>2, <1>3, NextRun DEF TaskRow
  <2> HIDE DEF next
  <2>2. [tasks[k] EXCEPT !.next = next] \in TaskRow
    BY <1>3, <2>1 DEF TaskRow
  <2>3. QED
    BY <1>3, <2>2 DEF Advanced
<1>5. UNCHANGED <<clock, edits, jobs>> /\ Remember({})
  BY DEF Reserve
<1>6. /\ tasks' = tasks \/ Advance
      /\ \/ /\ execs' = execs /\ issued' = issued
            /\ (Pending(k, r) /\ Resume) \/ Drop(s)
         \/ /\ ~CursorPast(tasks[k], r) /\ ~Exists(execs[k][r])
            /\ issued' = issued + 1
            /\ execs' = [execs EXCEPT ![k] = [execs[k] EXCEPT ![r] = new]]
            /\ sched' = [sched EXCEPT ![s].pc = "reserved", ![s].id = issued + 1]
  BY DEF Reserve
<1>7. /\ tasks' \in [Keys -> TaskRow \cup {NoRow}]
      /\ \A q \in Keys : Exists(tasks[q]) => Exists(tasks'[q])
  <2>1. PICK row \in TaskRow : row = Advanced(tasks[k], next)
    BY <1>4
  <2>2. PICK key \in Keys : key = k
    BY <1>2
  <2>3. tasks \in [Keys -> TaskRow \cup {NoRow}] /\ Exists(row)
    BY RowsExist DEF IInv, Typed
  <2>4. tasks' = tasks \/ tasks' = [tasks EXCEPT ![key] = row]
    BY ONLY <1>6, <2>1, <2>2
  <2>5. QED
    BY ONLY <2>3, <2>4
<1>8. ASSUME NEW t \in Schedulers, sched[t].todo # <<>>
      PROVE  Head(sched[t].todo).key \in Keys /\ Head(sched[t].todo).run \in Instants
  BY <1>8, HeadType DEF Item
<1> HIDE DEF k, r, next, new
<1>9. CASE /\ execs' = execs /\ issued' = issued
           /\ (Pending(k, r) /\ Resume) \/ Drop(s)
  <2>1. \A t \in Schedulers : Undisturbed(t)
    BY <1>7, <1>8, <1>9 DEF Undisturbed, IInv, Firing, TaskHeld
  <2>2. \E x : Fits(s, x) /\ sched' = [sched EXCEPT ![s] = x]
    <3>1. CASE Pending(k, r) /\ Resume
      <4> DEFINE x == [sched[s] EXCEPT !.pc = "reserved", !.id = execs[k][r].id]
      <4>1. execs[k][r] \in ExecRow /\ execs[k][r].id # NoId /\ execs[k][r].id <= issued
        BY <1>2, <3>1, RowType DEF Pending, IInv, FreshIds
      <4>2. execs[k][r].id \in 1 .. issued /\ execs[k][r].id \in Nat
        BY <1>1, <4>1 DEF ExecRow, NoId
      <4>3. Fits(s, x)
        BY <1>1, <1>9, <4>2 DEF Fits, Local, PCs
      <4>4. sched' = [sched EXCEPT ![s] = x]
        BY <3>1
      <4>5. QED
        BY <4>3, <4>4
    <3>2. QED
      BY <1>1, <1>9, <3>1, DropFits
  <2>3. sched' \in [Schedulers -> Local] /\ Firing' /\ TaskHeld' /\ ExecutionHeld'
    BY <1>9, <2>1, <2>2, LocalStep
  <2>4. FreshIds' /\ JobExactlyWhenAttached'
    BY <1>5, <1>9 DEF IInv, FreshIds, JobExactlyWhenAttached
  <2>5. Remembering'
    BY <1>5, <1>9, RememberingKept
  <2>6. Typed'
    BY <1>5, <1>7, <1>9, <2>3 DEF IInv, Typed
  <2>7. QED
    BY <2>3, <2>4, <2>5, <2>6 DEF IInv
<1>10. CASE /\ ~CursorPast(tasks[k], r) /\ ~Exists(execs[k][r])
            /\ issued' = issued + 1
            /\ execs' = [execs EXCEPT ![k] = [execs[k] EXCEPT ![r] = new]]
            /\ sched' = [sched EXCEPT ![s].pc = "reserved", ![s].id = issued + 1]
  <2> DEFINE x == [sched[s] EXCEPT !.pc = "reserved", !.id = issued + 1]
             fresh == issued + 1
  <2>0. fresh \in Nat /\ fresh \in 1 .. fresh /\ fresh > issued /\ fresh # NoId
    BY <1>1 DEF NoId
  <2>1. /\ new \in ExecRow /\ new.id = fresh /\ ~new.attached /\ Exists(new)
    BY <2>0, RowsExist DEF new, ExecRow
  <2>2. /\ execs' \in [Keys -> [Instants -> ExecRow \cup {NoRow}]]
        /\ execs'[k][r] = new
        /\ \A l \in Keys, q \in Instants : l # k \/ q # r => execs'[l][q] = execs[l][q]
    BY <1>2, <1>10, <2>1 DEF IInv, Typed
  <2>3. ASSUME NEW t \in Schedulers PROVE Undisturbed(t)
    <3>1. sched[t].pc = "reserving" => Exists(tasks'[Head(sched[t].todo).key])
      BY <1>7, <1>8 DEF IInv, Firing, TaskHeld
    <3>2. ASSUME sched[t].pc = "publishing"
          PROVE  LET it == Head(sched[t].todo)
                 IN  execs'[it.key][it.run] = execs[it.key][it.run]
      <4> DEFINE it == Head(sched[t].todo)
      <4>1. it.key \in Keys /\ it.run \in Instants /\ Exists(execs[it.key][it.run])
        BY <1>8, <3>2 DEF IInv, Firing, ExecutionHeld
      <4>2. it.key # k \/ it.run # r
        BY <1>10, <4>1
      <4>3. QED
        BY <2>2, <4>1, <4>2
    <3>3. QED
      BY <3>1, <3>2 DEF Undisturbed
  <2>4. Fits(s, x)
    BY <1>1, <1>10, <2>0 DEF Fits, Local, PCs
  <2>5. sched' = [sched EXCEPT ![s] = x]
    BY <1>10
  <2> HIDE DEF x
  <2>6. sched' \in [Schedulers -> Local] /\ Firing' /\ TaskHeld' /\ ExecutionHeld'
    BY <1>10, <2>3, <2>4, <2>5, LocalStep
  <2>7. ASSUME NEW l \in Keys, NEW q \in Instants, Exists(execs[l][q])
        PROVE  execs[l][q].id # fresh /\ execs[l][q].id \in Nat /\ execs[l][q].id <= issued
    <3>1. execs[l][q] \in ExecRow /\ execs[l][q].id <= issued
      BY <2>7, RowType DEF IInv, FreshIds
    <3>2. execs[l][q].id \in Nat
      BY <3>1 DEF ExecRow
    <3>3. QED
      BY <1>1, <2>0, <3>1, <3>2
  <2>8. FreshIds'
    <3>1. jobs' \subseteq 1 .. issued'
      BY <1>1, <1>5, <1>10 DEF IInv, FreshIds
    <3>2. ASSUME NEW l \in Keys, NEW q \in Instants, Exists(execs'[l][q])
          PROVE  execs'[l][q].id <= issued'
      <4>1. CASE l = k /\ q = r
        BY <1>10, <2>0, <2>1, <2>2, <4>1
      <4>2. CASE l # k \/ q # r
        BY <1>1, <1>10, <2>2, <2>7, <3>2, <4>2
      <4>3. QED
        BY <4>1, <4>2
    <3>3. ASSUME NEW l \in Keys, NEW m \in Keys, NEW p \in Instants, NEW q \in Instants,
                 Exists(execs'[l][p]), execs'[l][p].id # NoId,
                 Exists(execs'[m][q]), execs'[m][q].id = execs'[l][p].id
          PROVE  l = m /\ p = q
      <4>1. CASE (l = k /\ p = r) \/ (m = k /\ q = r)
        BY <2>1, <2>2, <2>7, <3>3, <4>1
      <4>2. CASE (l # k \/ p # r) /\ (m # k \/ q # r)
        <5>1. execs'[l][p] = execs[l][p] /\ execs'[m][q] = execs[m][q]
          BY <2>2, <4>2
        <5>2. QED
          BY <3>3, <5>1 DEF IInv, FreshIds
      <4>3. QED
        BY <4>1, <4>2
    <3>4. QED
      BY <3>1, <3>2, <3>3 DEF FreshIds, Exists
  <2>9. JobExactlyWhenAttached'
    <3> SUFFICES ASSUME NEW l \in Keys, NEW q \in Instants,
                        Exists(execs'[l][q]), execs'[l][q].id # NoId
                 PROVE  execs'[l][q].attached <=> execs'[l][q].id \in jobs'
      BY DEF JobExactlyWhenAttached, Exists
    <3>1. CASE l = k /\ q = r
      <4>1. fresh \notin jobs
        BY <1>1, <2>0 DEF IInv, FreshIds
      <4>2. QED
        BY <1>5, <2>1, <2>2, <3>1, <4>1
    <3>2. CASE l # k \/ q # r
      BY <1>5, <2>2, <3>2 DEF IInv, JobExactlyWhenAttached
    <3>3. QED
      BY <3>1, <3>2
  <2>10. Remembering'
    <3>1. ~Remembers(k, r)
      <4>1. tasks[k].next \in Int
        BY <1>3, RecurringAssumption DEF TaskRow, Instants, NoTime, Never
      <4>2. tasks[k].next = NoTime \/ ~(tasks[k].next > r)
        BY <1>10 DEF CursorPast
      <4>3. ~(tasks[k].next > r)
        BY <1>2, <4>1, <4>2 DEF NoTime
      <4>4. QED
        BY <1>10, <4>3 DEF Remembers
    <3>2. QED
      BY <1>5, <2>2, <3>1, RememberingKept
  <2>11. Typed'
    BY <1>1, <1>5, <1>7, <1>10, <2>2, <2>6 DEF IInv, Typed
  <2>12. QED
    BY <2>6, <2>8, <2>9, <2>10, <2>11 DEF IInv
<1>11. QED
  BY <1>6, <1>9, <1>10 DEF k, r, new

-----------------------------------------------------------------------------
\* The database of a running system, fresh or upgraded.
LEMMA InitIInv == Init => IInv
<1> SUFFICES ASSUME Init PROVE IInv
  OBVIOUS
<1>1. PICK config \in Configs :
        tasks = [k \in Keys |-> IF k \in DOMAIN config
                                THEN [NewRow(config[k], TRUE) EXCEPT !.id = 0]
                                ELSE NoRow]
  BY DEF Init
<1>2. PICK legacy \in SUBSET Keys :
        execs = [k \in Keys |-> [r \in Instants |->
                   IF r = 0 /\ k \in legacy THEN Legacy ELSE NoRow]]
  BY DEF Init
<1>3. Typed
  <2>1. \A k \in Keys : k \in DOMAIN config => config[k] \in Schedules
    BY RecurringAssumption
  <2>2. \A k \in Keys :
          k \in DOMAIN config => [NewRow(config[k], TRUE) EXCEPT !.id = 0] \in TaskRow
    BY <2>1 DEF NewRow, TaskRow
  <2>3. tasks \in [Keys -> TaskRow \cup {NoRow}]
    BY <1>1, <2>2
  <2>4. Legacy \in ExecRow
    BY DEF Legacy, ExecRow, NoId
  <2>5. execs \in [Keys -> [Instants -> ExecRow \cup {NoRow}]]
    BY <1>2, <2>4
  <2>6. sched \in [Schedulers -> Local]
    <3> DEFINE none == <<>>
    <3>1. none \in Seq(Item)
      OBVIOUS
    <3> HIDE DEF none
    <3>2. [pc |-> "down", todo |-> none, id |-> NoId, cleaned |-> FALSE] \in Local
      BY <3>1 DEF Local, PCs, NoId
    <3>3. QED
      BY <3>2 DEF Init, none
  <2>7. clock \in Instants /\ edits \in Nat /\ issued \in Nat
    BY RecurringAssumption DEF Init, Instants
  <2>8. QED
    BY <2>3, <2>5, <2>6, <2>7 DEF Typed
<1>4. Firing /\ TaskHeld /\ ExecutionHeld
  BY DEF Init, Firing, TaskHeld, ExecutionHeld
<1>5. \A k \in Keys, r \in Instants : Exists(execs[k][r]) => execs[k][r].id = NoId
  BY <1>2 DEF Legacy, Exists
<1>6. FreshIds /\ JobExactlyWhenAttached /\ Remembering
  BY <1>5 DEF Init, FreshIds, JobExactlyWhenAttached, Remembering, NoId
<1>7. QED
  BY <1>3, <1>4, <1>6 DEF IInv

\* Every step preserves the invariant.
LEMMA NextIInv == IInv /\ [Next]_vars => IInv'
<1> SUFFICES ASSUME IInv, [Next]_vars PROVE IInv'
  OBVIOUS
<1>1. ASSUME NEW s \in Schedulers, SchedulerStep(s) \/ Crash(s) \/ CleanupInterval(s)
      PROVE  IInv'
  BY <1>1, StartIInv, LocalIInv, ReserveIInv, PublishIInv, MaintainIInv DEF SchedulerStep
<1>2. ASSUME NEW k \in Keys,
             \/ \E schedule \in Schedules : schedule_recurring_task(k, schedule)
             \/ unschedule_recurring_task(k)
             \/ CodeRemoved(k)
      PROVE  IInv'
  BY <1>2, DynamicIInv, AmbientIInv
<1>3. ASSUME NEW id \in Ids, FinishJob(id) \/ DiscardJob(id) PROVE IInv'
  BY <1>3, JobIInv
<1>4. CASE Tick
  BY <1>4, AmbientIInv
<1>5. CASE UNCHANGED vars
  <2>1. Typed' /\ Firing' /\ TaskHeld' /\ ExecutionHeld'
    BY <1>5 DEF vars, IInv, Typed, Firing, TaskHeld, ExecutionHeld
  <2>2. FreshIds' /\ JobExactlyWhenAttached' /\ Remembering'
    BY <1>5 DEF vars, IInv, FreshIds, JobExactlyWhenAttached, Remembering, Remembers, Exists
  <2>3. QED
    BY <2>1, <2>2 DEF IInv
<1>6. QED
  BY <1>1, <1>2, <1>3, <1>4, <1>5 DEF Next

LEMMA InductiveInvariant == Spec => []IInv
BY InitIInv, NextIInv, PTL DEF Spec

(***************************************************************************)
(* A published job and the row of its run come and go together: in every   *)
(* state that a transaction can see, the intended job of a run exists      *)
(* exactly when it is attached to the run, whichever schedulers race,      *)
(* crash or are replaced.                                                  *)
(***************************************************************************)
THEOREM JobExactlyWhenAttachedAlways == Spec => []JobExactlyWhenAttached
<1>1. IInv => JobExactlyWhenAttached
  BY DEF IInv
<1>2. QED
  BY <1>1, InductiveInvariant, PTL

(***************************************************************************)
(* No run is published a second time while the database still has its      *)
(* execution row or a cursor beyond it.                                    *)
(***************************************************************************)
THEOREM NoSecondJobAlways == Spec => NoSecondJob
<1>1. IInv /\ [Next]_vars
        => [\A k \in Keys, r \in Instants :
              Attaches(k, r) => <<k, r>> \notin remembered]_vars
  BY DEF IInv, Remembering, Attaches
<1>2. QED
  BY <1>1, InductiveInvariant, PTL DEF Spec, NoSecondJob

\* The cursor of one task in one step.
CursorKept(k) ==
  (/\ Exists(tasks[k]) /\ Exists(tasks'[k])
   /\ tasks[k].id = tasks'[k].id
   /\ tasks[k].schedule = tasks'[k].schedule)
    => tasks'[k].next >= tasks[k].next

LEMMA NextCursorKept ==
  ASSUME IInv, [Next]_vars, NEW k \in Keys
  PROVE  CursorKept(k)
<1>0. Exists(tasks[k]) => tasks[k] \in TaskRow /\ tasks[k].next \in Int /\ tasks[k].next >= NoTime
  BY RowType, RecurringAssumption DEF IInv, TaskRow, Instants, NoTime, Never
<1>1. CASE tasks'[k] = tasks[k]
  BY <1>0, <1>1 DEF CursorKept
<1>2. ASSUME NEW schedule, Exists(tasks[k]) => tasks'[k] = Rescheduled(tasks[k], schedule)
      PROVE  CursorKept(k)
  <2> SUFFICES ASSUME Exists(tasks[k]), tasks[k].schedule = tasks'[k].schedule
               PROVE  tasks'[k].next >= tasks[k].next
    BY DEF CursorKept
  <2>1. CASE tasks[k].schedule = schedule
    BY <1>0, <1>2, <2>1 DEF Rescheduled
  <2>2. CASE tasks[k].schedule # schedule
    <3>1. tasks'[k] = [tasks[k] EXCEPT !.schedule = schedule, !.next = NoTime]
      BY <1>2, <2>2 DEF Rescheduled
    <3>2. tasks'[k].schedule = schedule
      BY <1>0, <3>1 DEF TaskRow
    <3>3. QED
      BY <2>2, <3>2
  <2>3. QED
    BY <2>1, <2>2
<1>3. ASSUME NEW s \in Schedulers, NEW config \in Configs, Start(s, config)
      PROVE  CursorKept(k)
  <2>1. tasks'[k] = IF k \in DOMAIN config
                    THEN IF Exists(tasks[k]) THEN Rescheduled(tasks[k], config[k])
                                             ELSE NewRow(config[k], TRUE)
                    ELSE IF Exists(tasks[k]) /\ tasks[k].static THEN NoRow ELSE tasks[k]
    BY <1>3 DEF Start
  <2>2. CASE k \in DOMAIN config
    BY <1>2, <2>1, <2>2
  <2>3. CASE k \notin DOMAIN config
    BY <1>1, <2>1, <2>3, RowsExist DEF CursorKept
  <2>4. QED
    BY <2>2, <2>3
<1>4. ASSUME NEW q \in Keys, NEW schedule \in Schedules, schedule_recurring_task(q, schedule)
      PROVE  CursorKept(k)
  <2>1. CASE k = q
    <3>1. Exists(tasks[k]) => tasks'[k] = Rescheduled(tasks[k], schedule)
      BY <1>4, <2>1 DEF schedule_recurring_task, IInv, Typed
    <3>2. QED
      BY <1>2, <3>1
  <2>2. CASE k # q
    BY <1>1, <1>4, <2>2 DEF schedule_recurring_task, IInv, Typed
  <2>3. QED
    BY <2>1, <2>2
<1>5. ASSUME NEW q \in Keys, unschedule_recurring_task(q)
      PROVE  CursorKept(k)
  <2>1. CASE k = q
    BY <1>5, <2>1, RowsExist DEF unschedule_recurring_task, CursorKept, IInv, Typed
  <2>2. CASE k # q
    BY <1>1, <1>5, <2>2 DEF unschedule_recurring_task, IInv, Typed
  <2>3. QED
    BY <2>1, <2>2
<1>6. ASSUME NEW s \in Schedulers, Reserve(s)
      PROVE  CursorKept(k)
  <2> DEFINE item == Head(sched[s].todo)
             next == next_cron_run(tasks[item.key].schedule, item.run)
  <2>1. \/ tasks' = tasks
        \/ tasks' = [tasks EXCEPT ![item.key] = Advanced(tasks[item.key], next)]
    BY <1>6 DEF Reserve
  <2>2. item.key \in Keys /\ item.run \in Instants /\ Exists(tasks[item.key])
    <3>1. sched[s].pc = "reserving" /\ sched[s].todo # <<>>
      BY <1>6 DEF Reserve, IInv, Firing
    <3>2. item \in Item
      BY <3>1, HeadType
    <3>3. QED
      BY <3>1, <3>2 DEF Item, IInv, TaskHeld
  <2>3. CASE k = item.key /\ tasks' = [tasks EXCEPT ![item.key] = Advanced(tasks[item.key], next)]
    <3>1. tasks'[k] = Advanced(tasks[k], next)
      BY <2>3 DEF IInv, Typed
    <3>2. next \in Nat
      <4>1. tasks[k] \in TaskRow
        BY <1>0, <2>2, <2>3
      <4>2. next \in Instants \cup {Never}
        BY <2>2, <2>3, <4>1, NextRun DEF TaskRow
      <4>3. QED
        BY <4>2, RecurringAssumption DEF Instants, Never
    <3> HIDE DEF next
    <3>3. \/ tasks'[k] = tasks[k]
          \/ /\ tasks[k].next = NoTime \/ tasks[k].next < next
             /\ tasks'[k].next = next
      <4>1. tasks[k] \in TaskRow
        BY <1>0, <2>2, <2>3
      <4>2. [tasks[k] EXCEPT !.next = next].next = next
        BY <4>1 DEF TaskRow
      <4>3. QED
        BY <3>1, <4>2 DEF Advanced
    <3>4. CASE tasks'[k] = tasks[k]
      BY <1>1, <3>4
    <3>5. CASE /\ tasks[k].next = NoTime \/ tasks[k].next < next
               /\ tasks'[k].next = next
      <4>1. tasks[k].next \in Int
        BY <1>0, <2>2, <2>3
      <4>2. tasks'[k].next >= tasks[k].next
        BY <3>2, <3>5, <4>1 DEF NoTime
      <4>3. QED
        BY <4>2 DEF CursorKept
    <3>6. QED
      BY <3>3, <3>4, <3>5
  <2>4. CASE k # item.key \/ tasks' = tasks
    <3>1. tasks'[k] = tasks[k]
      BY <2>1, <2>4 DEF IInv, Typed
    <3>2. QED
      BY <1>1, <3>1
  <2>5. QED
    BY <2>1, <2>3, <2>4
<1>7. CASE tasks' = tasks
  BY <1>1, <1>7
<1>8. ASSUME NEW s \in Schedulers,
             \/ Poll(s) \/ LockTask(s) \/ LockExecution(s) \/ Publish(s)
             \/ PublishRaises(s) \/ Maintain(s) \/ Crash(s) \/ CleanupInterval(s)
      PROVE  tasks' = tasks
  BY <1>8 DEF Poll, LockTask, LockExecution, Publish, PublishRaises, Maintain, Crash,
              CleanupInterval
<1>9. CASE \/ \E q \in Keys : CodeRemoved(q)
           \/ \E id \in Ids : FinishJob(id) \/ DiscardJob(id)
           \/ Tick \/ UNCHANGED vars
  BY <1>7, <1>9 DEF CodeRemoved, FinishJob, DiscardJob, Tick, vars
<1>10. ASSUME NEW s \in Schedulers, SchedulerStep(s) \/ Crash(s) \/ CleanupInterval(s)
       PROVE  CursorKept(k)
  BY <1>3, <1>6, <1>7, <1>8, <1>10 DEF SchedulerStep
<1>11. QED
  BY <1>4, <1>5, <1>9, <1>10 DEF Next

(***************************************************************************)
(* No scheduler moves the cursor of a task back, however stale the run it  *)
(* fires: only a new schedule, or a new task row, resets it.               *)
(***************************************************************************)
THEOREM CursorNeverRewindsAlways == Spec => CursorNeverRewinds
<1>1. IInv /\ [Next]_vars
        => [\A k \in Keys :
              (/\ Exists(tasks[k]) /\ Exists(tasks'[k])
               /\ tasks[k].id = tasks'[k].id
               /\ tasks[k].schedule = tasks'[k].schedule)
                => tasks'[k].next >= tasks[k].next]_vars
  BY NextCursorKept DEF CursorKept
<1>2. QED
  BY <1>1, InductiveInvariant, PTL DEF Spec, CursorNeverRewinds
=============================================================================
