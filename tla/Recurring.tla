------------------------------ MODULE Recurring ------------------------------
(***************************************************************************)
(* Recurring tasks: their edits, the record of each run (an execution row,  *)
(* unique per task key and run time), the jobs the runs publish, and the   *)
(* schedulers that race to fire them.  A scheduler fires a run in two      *)
(* transactions: one reserves it (inserts the execution row with the id of *)
(* the job it intends to create and moves the task's cursor next_run_at),  *)
(* one publishes it (creates that job and attaches it to the row).  Each   *)
(* transaction is two steps, taking the row lock and committing, so that   *)
(* the other schedulers meet the locked row; a scheduler that dies in      *)
(* between leaves no trace of it.                                          *)
(*                                                                         *)
(* Time is a bounded clock.  A cron expression is the set of instants it   *)
(* matches; every schedule matches an instant in the past of the clock's   *)
(* first value, here instant 0.                                            *)
(***************************************************************************)
EXTENDS Integers, FiniteSets, FiniteSetsExt, SequencesExt

CONSTANTS
  Schedulers,       \* scheduler runners, over all nodes
  Keys,             \* recurring task keys, ordered as numbers
  MaxTime,          \* bound of the clock
  Schedules,        \* cron schedules: sets of instants
  Configs,          \* static definitions a release may ship: key -> schedule
  Batch,            \* RECURRING_BATCH_SIZE
  SkipLocked,       \* the use_skip_locked option
  DynamicEnabled,   \* the dynamic_tasks_enabled option
  NullsFirst,       \* how the database sorts a NULL next_run_at
  PreserveFinished, \* the preserve_finished_jobs option
  Retention,        \* clear_recurring_executions_after, in clock ticks
  Breakable,        \* keys whose task code a later release may remove
  MaxEdits,         \* bound on the edits of task definitions
  MaxIds,           \* bound on the job ids ever drawn
  MaxCrashes        \* bound on the number of crashes

Instants == 0 .. MaxTime
Never == MaxTime + 1     \* the next match lies beyond the bounded clock
NoTime == -1             \* a NULL next_run_at
Ids == 1 .. MaxIds
NoId == 0                \* a NULL intended_job_id, written by older releases
NoRow == [none |-> TRUE]

ASSUME RecurringAssumption ==
  /\ Keys \subseteq Nat /\ IsFiniteSet(Keys)
  /\ MaxTime \in Nat /\ Batch \in Nat \ {0} /\ Retention \in Nat
  /\ \A s \in Schedules : s \subseteq Instants /\ 0 \in s
  /\ \A c \in Configs : \E K \in SUBSET Keys : c \in [K -> Schedules]
  /\ {SkipLocked, DynamicEnabled, NullsFirst, PreserveFinished} \subseteq BOOLEAN
  /\ Breakable \subseteq Keys
  /\ {MaxEdits, MaxIds, MaxCrashes} \subseteq Nat

VARIABLES
  clock,
  tasks,      \* RecurringTask row of each key
  edits,      \* number of edits of task definitions so far
  execs,      \* RecurringExecution row of each key and run time
  issued,     \* number of job ids drawn
  jobs,       \* ids of the Job rows that recurring runs created
  finished,   \* of these, the settled ones past their retention window
  broken,     \* keys whose task_path can no longer be imported
  sched,      \* program counter and local variables of each scheduler
  crashes,
  remembered  \* history: published runs the database still knows of

vars == <<clock, tasks, edits, execs, issued, jobs, finished, broken, sched,
          crashes, remembered>>

\* A task row holds an id that a new row never shares, the schedule, the cursor
\* next and whether it is static; an execution row the id of its job and whether
\* the job is attached.  A scheduler holds the lock of a task row while it is
\* "reserving" and of an execution row while "publishing".

-----------------------------------------------------------------------------
(* Cron arithmetic, as the callers see it. *)

latest_cron_run(schedule, now) == Max({r \in schedule : r <= now})

next_cron_run(schedule, now) == Min({r \in schedule \cup {Never} : r > now})

-----------------------------------------------------------------------------
HoldsTask(s, k) == sched[s].pc = "reserving" /\ Head(sched[s].todo).key = k

HoldsExecution(s, id) == sched[s].pc = "publishing" /\ sched[s].id = id

TaskLocked(k) == \E s \in Schedulers : HoldsTask(s, k)

ExecutionLocked(id) == \E s \in Schedulers : HoldsExecution(s, id)

Exists(row) == row # NoRow

\* A run that is reserved and whose job id is known, but has no job yet.
Pending(k, r) ==
  /\ Exists(execs[k][r])
  /\ ~execs[k][r].attached
  /\ execs[k][r].id # NoId

Due(k, now) == tasks[k].next = NoTime \/ tasks[k].next <= now

\* The database cannot take r for a new run of k: it has the record of the
\* published run or a cursor beyond it.
Remembers(k, r) ==
  \/ Exists(execs[k][r]) /\ execs[k][r].attached
  \/ Exists(tasks[k]) /\ tasks[k].next > r

Remember(published) ==
  remembered' = {p \in remembered \cup published : Remembers(p[1], p[2])'}

\* Execution rows after the jobs gone and the rows old are deleted: the
\* foreign key of an execution row cascades.
Without(gone, old) ==
  [k \in Keys |-> [r \in Instants |->
     IF /\ Exists(execs[k][r])
        /\ \/ <<k, r>> \in old
           \/ execs[k][r].attached /\ execs[k][r].id \in gone
     THEN NoRow ELSE execs[k][r]]]

-----------------------------------------------------------------------------
(* The set-up of tasks. *)

NewRow(schedule, static) ==
  [id |-> edits + 1, schedule |-> schedule, next |-> NoTime,
   static |-> static]

\* Mutant: every synchronisation resets the cursor.
RescheduledAlways(row, schedule) ==
  [row EXCEPT !.schedule = schedule, !.next = NoTime]

Rescheduled(row, schedule) ==
  IF row.schedule = schedule THEN row
  ELSE [row EXCEPT !.schedule = schedule, !.next = NoTime]

\* Counts a change of the task rows, which also numbers the rows it inserts.
Edit ==
  IF tasks' = tasks THEN UNCHANGED edits
  ELSE edits < MaxEdits /\ edits' = edits + 1

\* Scheduler.start: synchronise the static tasks of the release in one
\* transaction.  It raises, and the runner does not start, if a configured
\* task cannot be imported or its key is scheduled dynamically.
Start(s, config) ==
  /\ sched[s].pc = "down"
  /\ DOMAIN config \cap broken = {}
  /\ \A k \in DOMAIN config : Exists(tasks[k]) => tasks[k].static
  /\ \A k \in Keys :
       k \in DOMAIN config \/ (Exists(tasks[k]) /\ tasks[k].static)
         => ~TaskLocked(k)
  /\ tasks' = [k \in Keys |->
       IF k \in DOMAIN config
       THEN IF Exists(tasks[k]) THEN Rescheduled(tasks[k], config[k])
                                ELSE NewRow(config[k], TRUE)
       ELSE IF Exists(tasks[k]) /\ tasks[k].static THEN NoRow ELSE tasks[k]]
  /\ Edit
  /\ sched' = [sched EXCEPT ![s].pc = "idle", ![s].cleaned = FALSE]
  /\ UNCHANGED <<clock, execs, issued, jobs, finished, broken, crashes>>
  /\ Remember({})

\* A dynamic task is created, or its schedule replaced.  It raises for a key
\* that is managed statically and for a task that cannot be imported.
schedule_recurring_task(k, schedule) ==
  /\ k \notin broken
  /\ ~TaskLocked(k)
  /\ \E config \in Configs : k \notin DOMAIN config
  /\ \/ /\ ~Exists(tasks[k])
        /\ tasks' = [tasks EXCEPT ![k] = NewRow(schedule, FALSE)]
     \/ /\ Exists(tasks[k])
        /\ ~tasks[k].static
        /\ tasks' = [tasks EXCEPT ![k] = Rescheduled(@, schedule)]
  /\ Edit
  /\ UNCHANGED <<clock, execs, issued, jobs, finished, broken, sched, crashes>>
  /\ Remember({})

unschedule_recurring_task(k) ==
  /\ Exists(tasks[k])
  /\ ~tasks[k].static
  /\ ~TaskLocked(k)
  /\ tasks' = [tasks EXCEPT ![k] = NoRow]
  /\ UNCHANGED <<clock, edits, execs, issued, jobs, finished, broken, sched,
                 crashes>>
  /\ Remember({})

\* A release removes the code of a task whose row stays in the database.
CodeRemoved(k) ==
  /\ k \in Breakable \ broken
  /\ broken' = broken \cup {k}
  /\ UNCHANGED <<clock, tasks, edits, execs, issued, jobs, finished, sched,
                 crashes, remembered>>

-----------------------------------------------------------------------------
(* The work list of one poll. *)

First(S, Before(_, _), n) == {x \in S : Cardinality({y \in S : Before(y, x)}) < n}

\* order_by("next_run_at", "key")
CursorBefore(a, b) ==
  LET x == tasks[a].next
      y == tasks[b].next
  IN IF x = y THEN a < b
     ELSE IF x = NoTime \/ y = NoTime THEN (x = NoTime) = NullsFirst
     ELSE x < y

\* Mutant: a reserved run does not make its task eligible.
DueTasksWithoutPending(now) ==
  First({k \in Keys : /\ Exists(tasks[k])
                      /\ tasks[k].static \/ DynamicEnabled
                      /\ Due(k, now)},
        CursorBefore, Batch)


\* The tasks one poll loads.
DueTasks(now) ==
  First({k \in Keys :
           /\ Exists(tasks[k])
           /\ tasks[k].static \/ DynamicEnabled
           /\ Due(k, now) \/ \E r \in Instants : Pending(k, r)},
        CursorBefore, Batch)

\* order_by("run_at", "id"); ids are drawn in the order rows are inserted.
ReservedBefore(p, q) ==
  \/ p[2] < q[2]
  \/ p[2] = q[2] /\ execs[p[1]][p[2]].id < execs[q[1]][q[2]].id

\* The pending runs one poll loads, for the tasks it loaded.
PendingRuns(due) ==
  First({p \in due \X Instants : Pending(p[1], p[2])}, ReservedBefore, Batch)

\* Task by task: the pending runs, oldest first, then the latest run.
FiresBefore(a, b) ==
  IF a.key # b.key THEN CursorBefore(a.key, b.key)
  ELSE IF a.recovers # b.recovers THEN a.recovers
  ELSE a.run < b.run

\* What fire_due_recurring_tasks will try to fire.
Work(now) ==
  LET due == DueTasks(now)
      recovery == {[key |-> p[1], row |-> tasks[p[1]].id, run |-> p[2],
                    recovers |-> TRUE] : p \in PendingRuns(due)}
      latest == {[key |-> k, row |-> tasks[k].id,
                  run |-> latest_cron_run(tasks[k].schedule, now),
                  recovers |-> FALSE] : k \in {d \in due : Due(d, now)}}
  IN First(recovery \cup latest, FiresBefore, Batch)

\* The same in order; there is one such sequence.
WorkLists(now) ==
  {todo \in SetToSeqs(Work(now)) :
     \A i, j \in DOMAIN todo : i < j => FiresBefore(todo[i], todo[j])}

-----------------------------------------------------------------------------
(* One poll of a scheduler. *)

Goto(s, pc) == sched' = [sched EXCEPT ![s].pc = pc]

\* The current run is settled; go on with the next one, or with maintenance.
Drop(s) ==
  LET rest == Tail(sched[s].todo) IN
  sched' = [sched EXCEPT ![s].todo = rest, ![s].id = NoId,
              ![s].pc = IF rest = <<>> THEN "maintain" ELSE "fire"]

\* poll_once reads the clock, the due tasks and their pending runs.  Nothing
\* is locked: each value may be stale when it is used.
Poll(s) ==
  /\ sched[s].pc = "idle"
  /\ \E todo \in WorkLists(clock) :
       sched' = [sched EXCEPT ![s].todo = todo,
                   ![s].pc = IF todo = <<>> THEN "maintain" ELSE "fire"]
  /\ UNCHANGED <<clock, tasks, edits, execs, issued, jobs, finished, broken,
                 crashes, remembered>>

\* _reserve_recurring_task: lock the task row by primary key.
LockTask(s) ==
  /\ sched[s].pc = "fire"
  /\ LET item == Head(sched[s].todo)
         there == /\ Exists(tasks[item.key])
                  /\ tasks[item.key].id = item.row
     IN \/ there /\ ~TaskLocked(item.key) /\ Goto(s, "reserving")
        \/ ~there /\ Drop(s)
        \/ there /\ TaskLocked(item.key) /\ SkipLocked /\ Drop(s)
  /\ UNCHANGED <<clock, tasks, edits, execs, issued, jobs, finished, broken,
                 crashes, remembered>>

\* _advance_next_run_at
Advanced(row, next) ==
  IF row.next = NoTime \/ row.next < next THEN [row EXCEPT !.next = next]
                                          ELSE row

\* Mutant: the cursor is not consulted.
CursorIgnored(row, r) == FALSE

\* The task has moved on past run r.
CursorPast(row, r) == row.next # NoTime /\ row.next > r

\* The rest of _reserve_recurring_task, up to its commit.
Reserve(s) ==
  LET item == Head(sched[s].todo)
      k == item.key
      r == item.run
      row == tasks[k]
      cursorPast == CursorPast(row, r)
      onSchedule == latest_cron_run(row.schedule, r) = r
      Resume == sched' = [sched EXCEPT ![s].pc = "reserved",
                                       ![s].id = execs[k][r].id]
      Advance == tasks' = [tasks EXCEPT
                   ![k] = Advanced(@, next_cron_run(row.schedule, r))]
  IN
  /\ sched[s].pc = "reserving"
  /\ \/ /\ ~onSchedule
        /\ Drop(s)
        /\ UNCHANGED <<tasks, execs, issued>>
     \/ /\ onSchedule /\ cursorPast
        /\ IF Pending(k, r) THEN Resume ELSE Drop(s)
        /\ UNCHANGED <<tasks, execs, issued>>
     \/ /\ onSchedule /\ ~cursorPast
        /\ Exists(execs[k][r])
        /\ Advance
        /\ IF Pending(k, r) THEN Resume ELSE Drop(s)
        /\ UNCHANGED <<execs, issued>>
     \/ /\ onSchedule /\ ~cursorPast
        /\ ~Exists(execs[k][r])
        /\ issued < MaxIds
        /\ issued' = issued + 1
        /\ execs' = [execs EXCEPT
             ![k][r] = [id |-> issued + 1, attached |-> FALSE]]
        /\ Advance
        /\ sched' = [sched EXCEPT ![s].pc = "reserved", ![s].id = issued + 1]
  /\ UNCHANGED <<clock, edits, jobs, finished, broken, crashes>>
  /\ Remember({})

\* _publish_reserved_recurring_task: lock the reserved execution row.
LockExecution(s) ==
  LET item == Head(sched[s].todo)
      row == execs[item.key][item.run]
      there == Exists(row) /\ row.id = sched[s].id
      locked == ExecutionLocked(sched[s].id)
  IN
  /\ sched[s].pc = "reserved"
  /\ \/ there /\ ~locked /\ ~row.attached /\ Goto(s, "publishing")
     \/ (there => ~locked /\ row.attached) /\ Drop(s)
     \/ there /\ locked /\ SkipLocked /\ Drop(s)
  /\ UNCHANGED <<clock, tasks, edits, execs, issued, jobs, finished, broken,
                 crashes, remembered>>

\* Mutant: the job is committed before it is attached.
PublishUnattached(s) ==
  /\ sched[s].pc = "publishing"
  /\ Head(sched[s].todo).key \notin broken
  /\ jobs' = jobs \cup {sched[s].id}
  /\ Goto(s, "reserved")
  /\ UNCHANGED <<clock, tasks, edits, execs, issued, finished, broken, crashes,
                 remembered>>

\* The rest of _publish_reserved_recurring_task: create the intended job and
\* attach it, in one commit.  The task was importable or this raises.
Publish(s) ==
  LET item == Head(sched[s].todo) IN
  /\ sched[s].pc = "publishing"
  /\ item.key \notin broken
  /\ jobs' = jobs \cup {sched[s].id}
  /\ execs' = [execs EXCEPT ![item.key][item.run].attached = TRUE]
  /\ Drop(s)
  /\ UNCHANGED <<clock, tasks, edits, issued, finished, broken, crashes>>
  /\ Remember({<<item.key, item.run>>})

Stopped(s) == sched' = [sched EXCEPT ![s].pc = "down", ![s].todo = <<>>,
                                     ![s].id = NoId]

\* import_string raises out of poll_once: the poll loop ends and the runner
\* stops, to be replaced by its supervisor.
PublishRaises(s) ==
  /\ sched[s].pc = "publishing"
  /\ Head(sched[s].todo).key \in broken
  /\ Stopped(s)
  /\ UNCHANGED <<clock, tasks, edits, execs, issued, jobs, finished, broken,
                 crashes, remembered>>

\* The process dies, or the database refuses a statement; an open transaction
\* is rolled back.
Crash(s) ==
  /\ sched[s].pc # "down"
  /\ crashes < MaxCrashes
  /\ crashes' = crashes + 1
  /\ Stopped(s)
  /\ UNCHANGED <<clock, tasks, edits, execs, issued, jobs, finished, broken,
                 remembered>>

\* Mutant: the clean-up of finished jobs tests the wrong setting.
ClearedWhenNotPreserved(due) ==
  IF due /\ ~PreserveFinished THEN finished ELSE {}

\* What one clear_finished_jobs deletes: only preserved jobs are cleaned up.
Cleared(due) == IF due /\ PreserveFinished THEN finished ELSE {}

\* clear_recurring_executions: the rows of runs past their retention, except
\* those a publication has locked.
OldExecutions ==
  {p \in Keys \X Instants :
     /\ p[2] < clock - Retention
     /\ Exists(execs[p[1]][p[2]])
     /\ ~ExecutionLocked(execs[p[1]][p[2]].id)}

\* _cleanup_due and _run_cleanup, after the runs of a poll.
Maintain(s) ==
  LET due == ~sched[s].cleaned
      cleared == Cleared(due)
      old == IF due THEN OldExecutions ELSE {}
  IN
  /\ sched[s].pc = "maintain"
  /\ jobs' = jobs \ cleared
  /\ finished' = finished \ cleared
  /\ execs' = Without(cleared, old)
  /\ sched' = [sched EXCEPT ![s].pc = "idle", ![s].cleaned = TRUE]
  /\ UNCHANGED <<clock, tasks, edits, issued, broken, crashes>>
  /\ Remember({})

\* CLEANUP_INTERVAL has passed since the scheduler's last clean-up.
CleanupInterval(s) ==
  /\ sched[s].cleaned
  /\ sched' = [sched EXCEPT ![s].cleaned = FALSE]
  /\ UNCHANGED <<clock, tasks, edits, execs, issued, jobs, finished, broken,
                 crashes, remembered>>

-----------------------------------------------------------------------------
(* The rest of the system. *)

\* The job of a run settles: its row is kept until clear_finished_jobs, or
\* deleted at once (preserve_finished_jobs off).
FinishJob(id) ==
  /\ id \in jobs \ finished
  /\ IF PreserveFinished
     THEN /\ finished' = finished \cup {id}
          /\ UNCHANGED <<jobs, execs>>
     ELSE /\ jobs' = jobs \ {id}
          /\ execs' = Without({id}, {})
          /\ UNCHANGED finished
  /\ UNCHANGED <<clock, tasks, edits, issued, broken, sched, crashes>>
  /\ Remember({})

\* The job of a run is discarded before it finishes.
DiscardJob(id) ==
  /\ id \in jobs \ finished
  /\ jobs' = jobs \ {id}
  /\ execs' = Without({id}, {})
  /\ UNCHANGED <<clock, tasks, edits, issued, finished, broken, sched, crashes>>
  /\ Remember({})

Tick ==
  /\ clock < MaxTime
  /\ clock' = clock + 1
  /\ UNCHANGED <<tasks, edits, execs, issued, jobs, finished, broken, sched,
                 crashes, remembered>>

-----------------------------------------------------------------------------
\* The database of a running system: the static tasks of some release are in
\* place.  An upgraded database may hold runs reserved by a release that kept no
\* intended job id.
Legacy == [id |-> NoId, attached |-> FALSE]

Init ==
  /\ clock = 0
  /\ edits = 0
  /\ \E config \in Configs :
       tasks = [k \in Keys |-> IF k \in DOMAIN config
                                THEN [NewRow(config[k], TRUE) EXCEPT !.id = 0]
                                ELSE NoRow]
  /\ \E legacy \in SUBSET Keys :
       execs = [k \in Keys |-> [r \in Instants |->
                  IF r = 0 /\ k \in legacy THEN Legacy ELSE NoRow]]
  /\ issued = 0 /\ crashes = 0
  /\ jobs = {} /\ finished = {} /\ broken = {} /\ remembered = {}
  /\ sched = [s \in Schedulers |->
       [pc |-> "down", todo |-> <<>>, id |-> NoId, cleaned |-> FALSE]]

SchedulerStep(s) ==
  \/ \E config \in Configs : Start(s, config)
  \/ Poll(s)
  \/ LockTask(s)
  \/ Reserve(s)
  \/ LockExecution(s)
  \/ Publish(s)
  \/ PublishRaises(s)
  \/ Maintain(s)

Next ==
  \/ \E s \in Schedulers : SchedulerStep(s) \/ Crash(s) \/ CleanupInterval(s)
  \/ \E k \in Keys :
       \/ \E schedule \in Schedules : schedule_recurring_task(k, schedule)
       \/ unschedule_recurring_task(k)
       \/ CodeRemoved(k)
  \/ \E id \in Ids : FinishJob(id) \/ DiscardJob(id)
  \/ Tick

Spec == Init /\ [][Next]_vars

\* Every scheduler keeps polling, a supervisor replaces one that stopped, and
\* the interval between two clean-ups passes.
FairSpec ==
  /\ Spec
  /\ \A s \in Schedulers :
       WF_vars(SchedulerStep(s)) /\ WF_vars(CleanupInterval(s))

-----------------------------------------------------------------------------
(* Properties. *)

Attaches(k, r) ==
  /\ Exists(execs[k][r]) /\ ~execs[k][r].attached
  /\ Exists(execs'[k][r]) /\ execs'[k][r].attached

\* A run is published at most once, by whichever scheduler, after any crash,
\* for as long as the database has kept the run's execution row or a cursor
\* beyond it: a second job for it needs both to have been lost in between
\* (its job deleted and its task rescheduled or created anew).
NoSecondJob ==
  [][\A k \in Keys, r \in Instants :
       Attaches(k, r) => <<k, r>> \notin remembered]_vars

\* The intended job exists exactly when it is attached to its run: no other
\* transaction ever sees a published job whose run could be fired again, or a
\* run whose job is gone.
JobExactlyWhenAttached ==
  \A k \in Keys, r \in Instants :
    Exists(execs[k][r]) /\ execs[k][r].id # NoId
      => (execs[k][r].attached <=> execs[k][r].id \in jobs)

\* The cursor of a task moves back only when its schedule is replaced.
CursorNeverRewinds ==
  [][\A k \in Keys :
       (/\ Exists(tasks[k]) /\ Exists(tasks'[k])
        /\ tasks[k].id = tasks'[k].id
        /\ tasks[k].schedule = tasks'[k].schedule)
         => tasks'[k].next >= tasks[k].next]_vars

\* A reserved run whose scheduler died is published by some later poll, although
\* a poll has more to do than its batch admits, unless the task is removed,
\* rescheduled to other instants or cannot be imported.
ReservationRecovered ==
  \A k \in Keys, r \in Instants :
    Pending(k, r) ~> \/ ~Pending(k, r)
                     \/ ~Exists(tasks[k])
                     \/ r \notin tasks[k].schedule
                     \/ k \in broken


\* There is a task that ends every poll: it is due, or has a reserved run, and
\* its code is gone.
EndsPolls ==
  \E k \in broken :
    Exists(tasks[k]) /\ (Due(k, clock) \/ \E r \in Instants : Pending(k, r))

\* Finished jobs past their retention are deleted by the schedulers, crashes or
\* not; nothing but a task that ends every poll before the clean-up is in the way.
FinishedJobsCleared ==
  PreserveFinished =>
    \A id \in Ids : id \in finished ~> (id \notin jobs \/ EndsPolls)
=============================================================================
