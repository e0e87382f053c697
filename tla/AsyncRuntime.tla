---------------------------- MODULE AsyncRuntime ----------------------------
(***************************************************************************)
(* A supervisor that runs a worker in a thread of its own process: the     *)
(* worker's poll loop, its sleep and the events that end it, the pool of   *)
(* task threads with its callbacks, the stop of a worker from two threads, *)
(* and the replacement of a worker whose loop ended.                       *)
(*                                                                         *)
(* A worker object is a generation; a new one takes its place under the    *)
(* same name.  The steps of the threads are split where a lock is released *)
(* or a transaction ends.                                                  *)
(***************************************************************************)
EXTENDS Naturals, FiniteSets, FiniteSetsExt

CONSTANTS
  Jobs,
  Threads,      \* threads of the pool
  Prefetch,     \* prefetch_multiplier
  MaxFaults     \* faults that may happen

ASSUME AsyncRuntimeAssumption ==
  /\ IsFiniteSet(Jobs)
  /\ Threads \in Nat \ {0} /\ Prefetch \in Nat \ {0} /\ MaxFaults \in Nat

\* Every fault costs at most one worker.
Gens == 1 .. MaxFaults + 1

VARIABLES
  status,    \* each job: "new", "ready", "claimed", "done" or "failed"
  owner,     \* the generation in the claim of a job, 0 without one
  rows,      \* generations with a process row
  notes,     \* jobs whose notification is under way
  missed,    \* jobs whose notification was lost
  run,       \* the worker object of each generation
  task,      \* each job in a pool: where it is, whether it raised, whose it is
  loop,      \* the thread of the worker: step, generation, jobs at hand
  stopping,  \* the stop of each generation: step and futures waited for
  host,      \* the thread of the supervisor
  stop_event,\* the supervisor was told to stop
  listed,    \* the generation in the supervisor's list of runners
  faults     \* faults still to come

vars == <<status, owner, rows, notes, missed, run, task, loop, stopping, host,
          stop_event, listed, faults>>

database == <<status, owner, rows, notes, missed>>
threads == <<run, task, loop, stopping>>
supervisor == <<host, stop_event, listed>>

NewRunner ==
  [process |-> FALSE, stopped |-> FALSE, stop_event |-> FALSE, pipe |-> FALSE,
   closing |-> FALSE, shutdown |-> FALSE, on_drained |-> FALSE,
   in_flight |-> 0, futures |-> {}]

NoTask == [at |-> "none", raised |-> FALSE, gen |-> 0, inline |-> FALSE]

-----------------------------------------------------------------------------
(* Waking up.                                                              *)

Idle(g) == IF run[g].in_flight < Threads THEN Threads - run[g].in_flight ELSE 0

\* InterruptibleSleeper.wake_up: a byte in the pipe, unless it is closed.
Woken(r) == [r EXCEPT !.pipe = @ \/ r.process]

Requested(r) == [Woken(r) EXCEPT !.stop_event = TRUE]

\* notify_ready_queues, once the transaction has committed.
NotifyReadyQueues(j) == notes' = notes \cup {j}

Enqueue(j) ==
  /\ status[j] = "new"
  /\ status' = [status EXCEPT ![j] = "ready"]
  /\ NotifyReadyQueues(j)
  /\ UNCHANGED <<owner, rows, missed, threads, supervisor, faults>>

\* The watcher of the worker that listens is told of a job on its queues.
Deliver(j) ==
  /\ j \in notes
  /\ notes' = notes \ {j}
  /\ run' = [g \in Gens |-> IF run[g].stopped THEN run[g] ELSE Woken(run[g])]
  /\ UNCHANGED <<status, owner, rows, missed, task, loop, stopping, supervisor,
                 faults>>

-----------------------------------------------------------------------------
(* Ending a worker.  finish runs under its lock in whichever thread comes  *)
(* first.                                                                  *)

Finished(r) == [r EXCEPT !.process = FALSE, !.pipe = FALSE]

Deregister(g, r) ==
  /\ rows' = IF r.process THEN rows \ {g} ELSE rows
  /\ run' = [run EXCEPT ![g] = Finished(r)]

\* Jobs in the hands of a thread of the pool; a job that ended before it was
\* listed has left its thread.
InThread(g) ==
  {j \in Jobs : /\ task[j].gen = g /\ ~task[j].inline
                /\ \/ task[j].at \in {"running", "calling", "waking", "handling"}
                   \/ task[j].at = "ended" /\ j \in run[g].futures}

\* Worker.stop, first part; a second call returns at once.
StopBegin(g) ==
  /\ run' = [run EXCEPT ![g] = Requested([@ EXCEPT !.stopped = TRUE])]
  /\ stopping' = [stopping EXCEPT ![g].at = "begun"]

\* WorkerPool.shutdown: no more jobs are taken,
ShutdownClose(g) ==
  /\ stopping[g].at = "begun"
  /\ run' = [run EXCEPT ![g].closing = TRUE]
  /\ stopping' = [stopping EXCEPT ![g].at = "closing"]
  /\ UNCHANGED <<database, task, loop, supervisor, faults>>

\* Mutant: no callback is left for jobs that outlive the wait.
ShutdownSnapshotOnly(g) ==
  /\ stopping[g].at = "closing"
  /\ stopping' = [stopping EXCEPT
                    ![g] = [at |-> "waiting", futures |-> run[g].futures]]
  /\ UNCHANGED <<database, run, task, loop, supervisor, faults>>

\* the callback is left for the last job and the listed ones are noted,
ShutdownSnapshot(g) ==
  /\ stopping[g].at = "closing"
  /\ run' = [run EXCEPT ![g].on_drained = TRUE]
  /\ stopping' = [stopping EXCEPT
                    ![g] = [at |-> "waiting", futures |-> run[g].futures]]
  /\ UNCHANGED <<database, task, loop, supervisor, faults>>

\* they end in time,
ShutdownDone(g) ==
  /\ stopping[g].at = "waiting"
  /\ \A j \in stopping[g].futures :
       task[j].at \notin {"queued", "running"}
  /\ run' = [run EXCEPT ![g].shutdown = TRUE]
  /\ stopping' = [stopping EXCEPT ![g].at = "joining"]
  /\ UNCHANGED <<database, task, loop, supervisor, faults>>

\* Mutant: the jobs are waited for without a limit.
ShutdownTimeoutNever(g) ==
  FALSE /\ UNCHANGED vars

\* or they do not,
ShutdownTimeout(g) ==
  /\ stopping[g].at = "waiting"
  /\ \E j \in stopping[g].futures : task[j].at \in {"queued", "running"}
  /\ run' = [run EXCEPT ![g].shutdown = TRUE]
  /\ stopping' = [stopping EXCEPT ![g].at = "timed out"]
  /\ UNCHANGED <<database, task, loop, supervisor, faults>>

\* and the threads of the pool are waited for, with whatever a job taken at the
\* last moment makes them do.
ShutdownJoin(g) ==
  /\ stopping[g].at = "joining"
  /\ InThread(g) = {}
  /\ \A j \in Jobs : task[j].gen = g => task[j].at # "queued"
  /\ Deregister(g, [run[g] EXCEPT !.on_drained = FALSE])
  /\ stopping' = [stopping EXCEPT ![g].at = "drained"]
  /\ UNCHANGED <<status, owner, notes, missed, task, loop, supervisor, faults>>

-----------------------------------------------------------------------------
(* The poll loop.                                                          *)

\* The thread runs no callback of a future that ended before it was listed.
At(step) ==
  /\ loop.at = step
  /\ \A j \in Jobs : ~task[j].inline

Goto(step) == loop' = [loop EXCEPT !.at = step]

Stops == run[loop.gen].stop_event \/ stop_event

\* Mutant: a loop that ends is taken for one that was told to.
LeaveLoopForGood ==
  /\ At("loop") \/ At("check")
  /\ Stops
  /\ Goto("ended")
  /\ UNCHANGED <<database, run, task, stopping, supervisor, faults>>

\* The loop ends: at the request of the supervisor for good, else as a crash.
LeaveLoop ==
  /\ At("loop") \/ At("check")
  /\ Stops
  /\ Goto(IF stop_event THEN "ended" ELSE "crashed")
  /\ UNCHANGED <<database, run, task, stopping, supervisor, faults>>

\* The process row is gone: should_continue, or the heartbeat thread.
Vanished(g) ==
  /\ run[g].process /\ g \notin rows /\ ~run[g].stop_event
  /\ run' = [run EXCEPT ![g] = Requested(@)]
  /\ UNCHANGED <<database, task, loop, stopping, supervisor, faults>>

\* poll_once, up to the claim: only with an idle thread and below the limit.
PollCapacity ==
  /\ At("loop") /\ ~Stops
  /\ Goto(IF Idle(loop.gen) > 0 THEN "claim" ELSE "check")
  /\ UNCHANGED <<database, run, task, stopping, supervisor, faults>>

ClaimLimit(g) == Threads * Prefetch - run[g].in_flight

Ready == {j \in Jobs : status[j] = "ready"}

Batches(g) ==
  kSubset(Min({ClaimLimit(g), Cardinality(Ready)}), Ready)

CreateClaims(batch) ==
  /\ status' = [j \in Jobs |-> IF j \in batch THEN "claimed" ELSE status[j]]
  /\ owner' = [j \in Jobs |-> IF j \in batch THEN loop.gen ELSE owner[j]]

Claim ==
  /\ At("claim") /\ loop.gen \in rows
  /\ \E batch \in Batches(loop.gen) :
       /\ CreateClaims(batch)
       /\ loop' = [loop EXCEPT !.at = "submit", !.jobs = batch]
  /\ UNCHANGED <<rows, notes, missed, run, task, stopping, supervisor, faults>>

\* Without its process row a claim is refused by the foreign key.
ClaimRefused ==
  /\ At("claim") /\ loop.gen \notin rows
  /\ Goto("crashed")
  /\ UNCHANGED <<database, run, task, stopping, supervisor, faults>>

\* fail_claimed_job: nothing happens if the claim is gone.
FailClaim(j) ==
  LET held == status[j] = "claimed" IN
  /\ status' = IF held THEN [status EXCEPT ![j] = "failed"] ELSE status
  /\ owner' = IF held THEN [owner EXCEPT ![j] = 0] ELSE owner

\* WorkerPool.submit refuses a job while closing: _handle_submit_error.
SubmitRefused(j) ==
  /\ At("submit") /\ j \in loop.jobs /\ run[loop.gen].closing
  /\ FailClaim(j)
  /\ run' = [run EXCEPT ![loop.gen] = Requested(@)]
  /\ loop' = [loop EXCEPT !.jobs = @ \ {j}]
  /\ UNCHANGED <<rows, notes, missed, task, stopping, supervisor, faults>>

SubmitCount(j) ==
  /\ At("submit") /\ j \in loop.jobs /\ ~run[loop.gen].closing
  /\ run' = [run EXCEPT ![loop.gen].in_flight = @ + 1]
  /\ loop' = [loop EXCEPT !.at = "counted", !.jobs = @ \ {j}, !.job = j]
  /\ UNCHANGED <<database, task, stopping, supervisor, faults>>

\* The executor takes the job.
SubmitQueue ==
  /\ At("counted") /\ ~run[loop.gen].shutdown
  /\ task' = [task EXCEPT ![loop.job] =
                [at |-> "queued", raised |-> FALSE, gen |-> loop.gen,
                 inline |-> FALSE]]
  /\ Goto("queued")
  /\ UNCHANGED <<database, run, stopping, supervisor, faults>>

\* The executor was shut down since: the job is counted down again, the last
\* one ends the worker, and the claim is failed.
SubmitTooLate ==
  LET g == loop.gen
      left == [run[g] EXCEPT !.in_flight = @ - 1]
      drained == left.in_flight = 0 /\ left.futures = {} /\ left.on_drained
  IN /\ At("counted") /\ run[g].shutdown
     /\ IF drained THEN Deregister(g, [left EXCEPT !.on_drained = FALSE,
                                                   !.stop_event = TRUE])
        ELSE rows' = rows /\ run' = [run EXCEPT ![g] = Requested(left)]
     /\ FailClaim(loop.job)
     /\ Goto("submit")
     /\ UNCHANGED <<notes, missed, task, stopping, supervisor, faults>>

\* The future is listed and gets its callbacks; if it has already ended they
\* run in this thread.
SubmitList ==
  LET g == loop.gen IN
  /\ At("queued")
  /\ run' = [run EXCEPT ![g].futures = @ \cup {loop.job}]
  /\ task' = [task EXCEPT ![loop.job].inline = task[loop.job].at = "ended"]
  /\ Goto("submit")
  /\ UNCHANGED <<database, stopping, supervisor, faults>>

Submitted ==
  /\ At("submit") /\ loop.jobs = {}
  /\ Goto("check")
  /\ UNCHANGED <<database, run, task, stopping, supervisor, faults>>

\* Mutant: the pipe is emptied before the sleep.
SleepEmptied ==
  /\ At("check") /\ ~Stops
  /\ run' = [run EXCEPT ![loop.gen].pipe = FALSE]
  /\ Goto("asleep")
  /\ UNCHANGED <<database, task, stopping, supervisor, faults>>

Sleep ==
  /\ At("check") /\ ~Stops
  /\ Goto("asleep")
  /\ UNCHANGED <<database, run, task, stopping, supervisor, faults>>

\* InterruptibleSleeper.sleep ends with a byte in the pipe, which is emptied,
WakeUp ==
  /\ At("asleep") /\ run[loop.gen].pipe
  /\ run' = [run EXCEPT ![loop.gen].pipe = FALSE]
  /\ Goto("loop")
  /\ UNCHANGED <<database, task, stopping, supervisor, faults>>

\* or with the polling interval, or because the pipe is closed.
PollingInterval ==
  /\ At("asleep") /\ ~run[loop.gen].pipe
  /\ Goto("loop")
  /\ UNCHANGED <<database, run, task, stopping, supervisor, faults>>

-----------------------------------------------------------------------------
(* The threads of the pool.                                                *)

StartTask(j) ==
  /\ task[j].at = "queued" /\ Cardinality(InThread(task[j].gen)) < Threads
  /\ task' = [task EXCEPT ![j].at = "running"]
  /\ UNCHANGED <<database, run, loop, stopping, supervisor, faults>>

\* execute_claimed_job settles the claim, or raises when it is gone.
EndTask(j) ==
  LET held == status[j] = "claimed" IN
  /\ task[j].at = "running"
  /\ status' = IF held THEN [status EXCEPT ![j] = "done"] ELSE status
  /\ owner' = IF held THEN [owner EXCEPT ![j] = 0] ELSE owner
  /\ task' = [task EXCEPT ![j].at = "ended", ![j].raised = ~held]
  /\ UNCHANGED <<rows, notes, missed, run, loop, stopping, supervisor, faults>>

\* _complete: the job is counted down, and the last one takes the callback of a
\* shutdown.
CallsBack(r) == r.in_flight = 0 /\ r.futures = {} /\ r.on_drained

Complete(j) ==
  LET g == task[j].gen
      left == [run[g] EXCEPT !.in_flight = @ - 1, !.futures = @ \ {j}]
      calls == CallsBack(left)
  IN /\ task[j].at = "ended" /\ j \in run[g].futures
     /\ run' = [run EXCEPT ![g] = [left EXCEPT !.on_drained = @ /\ ~calls]]
     /\ task' = [task EXCEPT ![j].at = IF calls THEN "calling" ELSE "waking"]
     /\ UNCHANGED <<database, loop, stopping, supervisor, faults>>

FinishByCallback(j) ==
  /\ task[j].at = "calling"
  /\ Deregister(task[j].gen, run[task[j].gen])
  /\ task' = [task EXCEPT ![j].at = "waking"]
  /\ UNCHANGED <<status, owner, notes, missed, loop, stopping, supervisor, faults>>

WakeLoop(j) ==
  /\ task[j].at = "waking"
  /\ run' = [run EXCEPT ![task[j].gen] = Woken(@)]
  /\ task' = [task EXCEPT ![j] = IF task[j].raised
                                 THEN [@ EXCEPT !.at = "handling"] ELSE NoTask]
  /\ UNCHANGED <<database, loop, stopping, supervisor, faults>>

\* _handle_future: the claim of a job that raised is failed and the worker is
\* told to stop.
HandleFuture(j) ==
  /\ task[j].at = "handling"
  /\ FailClaim(j)
  /\ run' = [run EXCEPT ![task[j].gen] = Requested(@)]
  /\ task' = [task EXCEPT ![j] = NoTask]
  /\ UNCHANGED <<rows, notes, missed, loop, stopping, supervisor, faults>>

-----------------------------------------------------------------------------
(* Replacement of a worker whose loop crashed.                             *)

\* Mutant: the claims are failed whatever the pool does.
HasActiveWorkNever(g) == FALSE

HasActiveWork(g) == Idle(g) < Threads

\* The claims of a worker without active work are read,
CrashedRead ==
  LET g == loop.gen IN
  /\ At("crashed")
  /\ loop' = IF HasActiveWork(g) \/ ~run[g].process
             THEN [loop EXCEPT !.at = "stop"]
             ELSE [loop EXCEPT !.at = "failing",
                               !.jobs = {j \in Jobs : owner[j] = g}]
  /\ UNCHANGED <<database, run, task, stopping, supervisor, faults>>

\* and failed in one transaction, unless one of them is gone: the error ends
\* the thread, after the stop of the worker.
CrashedFail ==
  LET all == \A j \in loop.jobs : status[j] = "claimed" IN
  /\ At("failing")
  /\ status' = IF all THEN [j \in Jobs |-> IF j \in loop.jobs THEN "failed"
                                           ELSE status[j]] ELSE status
  /\ owner' = IF all THEN [j \in Jobs |-> IF j \in loop.jobs THEN 0
                                          ELSE owner[j]] ELSE owner
  /\ loop' = IF all THEN [loop EXCEPT !.at = "stop", !.jobs = {}]
             ELSE IF stop_event THEN [loop EXCEPT !.at = "ended", !.jobs = {}]
             ELSE [loop EXCEPT !.at = "stop", !.jobs = {}, !.last = TRUE]
  /\ UNCHANGED <<rows, notes, missed, run, task, stopping, supervisor, faults>>

LoopStop ==
  LET g == loop.gen IN
  /\ At("stop")
  /\ IF run[g].stopped THEN UNCHANGED <<run, stopping>> ELSE StopBegin(g)
  /\ Goto(IF run[g].stopped THEN "ended" ELSE "stopped")
  /\ UNCHANGED <<database, task, supervisor, faults>>

\* What follows a stop.
AfterStop(outcome) == IF outcome = "drained" THEN "restart" ELSE "draining"

LoopStopped ==
  LET outcome == stopping[loop.gen].at IN
  /\ At("stopped") /\ outcome \in {"drained", "timed out"}
  /\ Goto(IF stop_event \/ loop.last THEN "ended" ELSE AfterStop(outcome))
  /\ UNCHANGED <<database, run, task, stopping, supervisor, faults>>

\* _wait_for_runner_stop
Drained ==
  /\ At("draining") /\ (~run[loop.gen].process \/ stop_event)
  /\ Goto(IF run[loop.gen].process THEN "ended" ELSE "restart")
  /\ UNCHANGED <<database, run, task, stopping, supervisor, faults>>

GiveUpRestart ==
  /\ At("restart") /\ stop_event
  /\ Goto("ended")
  /\ UNCHANGED <<database, run, task, stopping, supervisor, faults>>

\* A new worker registers; the name must be free, else it is tried again.
Restart ==
  LET g == loop.gen + 1 IN
  /\ At("restart") /\ ~stop_event /\ g \in Gens
  /\ rows = {}
  /\ rows' = {g}
  /\ run' = [run EXCEPT ![g].process = TRUE]
  /\ loop' = [loop EXCEPT !.at = "replace", !.gen = g]
  /\ UNCHANGED <<status, owner, notes, missed, task, stopping, supervisor, faults>>

Replace ==
  /\ At("replace")
  /\ listed' = IF host = "stopped" THEN listed ELSE loop.gen
  /\ Goto(IF stop_event THEN "ended" ELSE "loop")
  /\ UNCHANGED <<database, run, task, stopping, host, stop_event, faults>>

-----------------------------------------------------------------------------
(* The supervisor.                                                         *)

\* fail_orphaned_jobs, in the housekeeping of any supervisor of the backend.
RecoverOrphans ==
  LET orphans == {j \in Jobs : status[j] = "claimed" /\ owner[j] \notin rows} IN
  /\ orphans # {}
  /\ status' = [j \in Jobs |-> IF j \in orphans THEN "failed" ELSE status[j]]
  /\ owner' = [j \in Jobs |-> IF j \in orphans THEN 0 ELSE owner[j]]
  /\ UNCHANGED <<rows, notes, missed, threads, supervisor, faults>>

\* A signal, or the end of the server in which the supervisor is embedded.
RequestStop ==
  /\ host = "run" /\ ~stop_event
  /\ stop_event' = TRUE
  /\ UNCHANGED <<database, threads, host, listed, faults>>

StopRunners ==
  /\ host = "run" /\ stop_event
  /\ run' = [run EXCEPT ![listed] = Requested(@)]
  /\ host' = "join"
  /\ UNCHANGED <<database, task, loop, stopping, stop_event, listed, faults>>

\* The thread is waited for until the deadline.
StopJoin ==
  /\ host = "join"
  /\ host' = "stop"
  /\ UNCHANGED <<database, threads, stop_event, listed, faults>>

StopRunner ==
  /\ host = "stop"
  /\ IF run[listed].stopped
     THEN host' = "stopped" /\ UNCHANGED <<run, stopping>>
     ELSE host' = "stopped runner" /\ StopBegin(listed)
  /\ UNCHANGED <<database, task, loop, stop_event, listed, faults>>

StopSupervisor ==
  /\ host = "stopped runner"
  /\ stopping[listed].at \in {"drained", "timed out"}
  /\ host' = "stopped"
  /\ UNCHANGED <<database, threads, stop_event, listed, faults>>

-----------------------------------------------------------------------------
(* Faults.                                                                 *)

Fault == faults > 0 /\ faults' = faults - 1

\* A claim fails, before or after its commit.
ClaimFails ==
  /\ Fault /\ At("claim")
  /\ \E batch \in {{}} \cup (IF loop.gen \in rows THEN Batches(loop.gen) ELSE {}) :
       CreateClaims(batch)
  /\ Goto("crashed")
  /\ UNCHANGED <<rows, notes, missed, run, task, stopping, supervisor>>

\* A task ends with an error of the runtime, its claim unsettled.
TaskRaises(j) ==
  /\ Fault /\ task[j].at = "running"
  /\ task' = [task EXCEPT ![j].at = "ended", ![j].raised = TRUE]
  /\ UNCHANGED <<database, run, loop, stopping, supervisor>>

\* Another supervisor takes the worker for dead: its row goes, its claims fail.
Pruned(g) ==
  /\ Fault /\ g \in rows
  /\ rows' = rows \ {g}
  /\ status' = [j \in Jobs |-> IF owner[j] = g THEN "failed" ELSE status[j]]
  /\ owner' = [j \in Jobs |-> IF owner[j] = g THEN 0 ELSE owner[j]]
  /\ UNCHANGED <<notes, missed, threads, supervisor>>

\* The connection that listens is broken when the notification is sent.
NotifyLost(j) ==
  /\ Fault /\ j \in notes
  /\ notes' = notes \ {j} /\ missed' = missed \cup {j}
  /\ UNCHANGED <<status, owner, rows, threads, supervisor>>

-----------------------------------------------------------------------------
Init ==
  /\ status = [j \in Jobs |-> "new"]
  /\ owner = [j \in Jobs |-> 0]
  /\ rows = {1}
  /\ notes = {} /\ missed = {}
  /\ run = [g \in Gens |-> [NewRunner EXCEPT !.process = g = 1]]
  /\ task = [j \in Jobs |-> NoTask]
  /\ loop = [at |-> "loop", gen |-> 1, jobs |-> {}, job |-> {}, last |-> FALSE]
  /\ stopping = [g \in Gens |-> [at |-> "no", futures |-> {}]]
  /\ host = "run" /\ stop_event = FALSE /\ listed = 1
  /\ faults = MaxFaults

Poll ==
  \/ LeaveLoop \/ PollCapacity \/ Claim \/ ClaimRefused
  \/ \E j \in Jobs : SubmitRefused(j) \/ SubmitCount(j)
  \/ SubmitQueue \/ SubmitTooLate \/ SubmitList \/ Submitted
  \/ Sleep \/ WakeUp \/ PollingInterval
  \/ CrashedRead \/ CrashedFail \/ LoopStop \/ LoopStopped \/ Drained
  \/ GiveUpRestart \/ Restart \/ Replace

StopWorker(g) ==
  \/ ShutdownClose(g) \/ ShutdownSnapshot(g) \/ ShutdownDone(g)
  \/ ShutdownTimeout(g) \/ ShutdownJoin(g)

PoolThread(j) ==
  \/ StartTask(j) \/ Complete(j) \/ FinishByCallback(j)
  \/ WakeLoop(j) \/ HandleFuture(j)

StopHost == StopRunners \/ StopJoin \/ StopRunner \/ StopSupervisor

Faults ==
  \/ ClaimFails
  \/ \E j \in Jobs : TaskRaises(j) \/ NotifyLost(j)
  \/ \E g \in Gens : Pruned(g)

Next ==
  \/ \E j \in Jobs : Enqueue(j) \/ Deliver(j) \/ PoolThread(j) \/ EndTask(j)
  \/ \E g \in Gens : StopWorker(g) \/ Vanished(g)
  \/ Poll \/ RecoverOrphans \/ RequestStop \/ StopHost
  \/ Faults

Spec == Init /\ [][Next]_vars

\* Threads run; jobs, requests to stop and faults need not come, and a job may
\* run forever.
FairSpec ==
  /\ Spec
  /\ WF_vars(Poll) /\ WF_vars(StopHost) /\ WF_vars(RecoverOrphans)
  /\ \A j \in Jobs : WF_vars(PoolThread(j)) /\ WF_vars(Deliver(j))
  /\ \A g \in Gens : WF_vars(StopWorker(g)) /\ WF_vars(Vanished(g))

-----------------------------------------------------------------------------
\* A job that a thread of the pool executes stays claimed under a registered
\* process, through the crash of the poll loop, the stop of the worker and its
\* replacement, so that nobody recovers it while it runs; only a worker that
\* was pruned alive may lose it.
RowCoversWork ==
  \A j \in Jobs :
    task[j].at \in {"queued", "running"} =>
      \/ status[j] = "claimed" /\ owner[j] = task[j].gen /\ task[j].gen \in rows
      \/ task[j].gen \notin rows /\ run[task[j].gen].process

\* When the stop of a worker has come back and nothing of it is in flight, its
\* process is deregistered, whether the last job ended before, during or after
\* the wait of the shutdown: the callback and the stop do not leave it to each
\* other.
DeregisteredWhenDrained ==
  \A g \in Gens :
    /\ stopping[g].at \in {"drained", "timed out"}
    /\ run[g].in_flight = 0
    /\ \A j \in Jobs : task[j].gen = g => task[j].at # "calling"
    => ~run[g].process /\ g \notin rows

\* A worker does not sleep beside a job that it could have taken and was told
\* of: a byte is in the pipe, or its notification or the wake-up of a thread
\* that became idle is still to come, or the notification was lost.
NoLostWakeup ==
  loop.at = "asleep" /\ run[loop.gen].process /\ ~run[loop.gen].pipe
    /\ Idle(loop.gen) > 0 =>
    \A j \in Ready :
      \/ j \in notes \cup missed
      \/ \E k \in Jobs : task[k].at \in {"calling", "waking"}

\* A worker whose loop crashed and whose jobs have ended is replaced while the
\* supervisor runs.
RunnerComesBack ==
  loop.at \in {"crashed", "draining", "ended"}
    /\ (\A j \in Jobs : task[j].at \notin {"queued", "running"})
    ~> loop.at = "loop" \/ stop_event

\* A job that the pool took after its shutdown had noted the listed ones.
TakenLate(j) ==
  /\ task[j].at \in {"queued", "running"}
  /\ stopping[task[j].gen].at = "joining"

\* Once the supervisor is told to stop, its stop comes back, whatever its
\* threads do at that moment and however long the jobs run: the wait has its
\* limit, except for a job that was taken late.
StopEnds == stop_event ~> host = "stopped" \/ \E j \in Jobs : TakenLate(j)
=============================================================================
