------------------------- MODULE AsyncRuntimeProofs -------------------------
(***************************************************************************)
(* Proofs about AsyncRuntime, for any number of jobs, threads and faults:  *)
(* a job in the pool stays under its process row, the row of a worker that *)
(* was stopped goes with its last job, and no wake-up is lost.             *)
(***************************************************************************)
EXTENDS AsyncRuntime, TLAPS, FiniteSetTheorems

TaskSteps ==
  {"none", "queued", "running", "ended", "calling", "waking", "handling"}

LoopSteps ==
  {"loop", "claim", "submit", "counted", "queued", "check", "asleep", "crashed",
   "failing", "stop", "stopped", "draining", "restart", "replace", "ended"}

StopSteps ==
  {"no", "begun", "closing", "waiting", "joining", "timed out", "drained"}

Runners ==
  [process : BOOLEAN, stopped : BOOLEAN, stop_event : BOOLEAN, pipe : BOOLEAN,
   closing : BOOLEAN, shutdown : BOOLEAN, on_drained : BOOLEAN,
   in_flight : Nat, futures : SUBSET Jobs]

Tasks ==
  [at : TaskSteps, raised : BOOLEAN, gen : Gens \cup {0}, inline : BOOLEAN]

Loops ==
  [at : LoopSteps, gen : Gens, jobs : SUBSET Jobs, job : Jobs \cup {{}},
   last : BOOLEAN]

Stoppings == [at : StopSteps, futures : SUBSET Jobs]

Typed ==
  /\ status \in [Jobs -> {"new", "ready", "claimed", "done", "failed"}]
  /\ owner \in [Jobs -> Gens \cup {0}]
  /\ rows \subseteq Gens
  /\ run \in [Gens -> Runners]
  /\ task \in [Jobs -> Tasks]
  /\ loop \in Loops
  /\ stopping \in [Gens -> Stoppings]
  /\ stop_event \in BOOLEAN
  /\ listed \in Gens

-----------------------------------------------------------------------------
(* The parts of the inductive invariant.                                   *)

\* The poll loop has jobs at hand that it is submitting.
Submitting == loop.at \in {"submit", "counted", "queued"}

InHand(j) ==
  \/ Submitting /\ j \in loop.jobs
  \/ loop.at = "counted" /\ j = loop.job

\* The jobs the counter of a pool stands for.
InPool(g) == {j \in Jobs : /\ task[j].gen = g
                           /\ task[j].at \in {"queued", "running", "ended"}}

InFlight(g) ==
  InPool(g) \cup {j \in Jobs : loop.at = "counted" /\ loop.gen = g /\ j = loop.job}

\* The counter is exact, and the futures it keeps are counted; the job that the
\* poll loop has just handed over is not yet listed.
CountsInFlight ==
  /\ \A g \in Gens : /\ run[g].in_flight = Cardinality(InFlight(g))
                     /\ run[g].futures \subseteq InPool(g)
  /\ loop.at = "queued" => loop.job \notin run[loop.gen].futures

\* Nobody but the poll loop of the newest worker adds jobs.
Generations ==
  /\ \A j \in Jobs : task[j].at # "none" => task[j].gen \in 1 .. loop.gen
  /\ \A j \in Jobs : task[j].at \in {"queued", "running"} => ~task[j].inline
  /\ listed <= loop.gen
  /\ \A g \in Gens : g > loop.gen => stopping[g].at = "no"

\* A job comes to a pool once.
Fresh(j) ==
  /\ task[j].at = "none"
  /\ \A g \in Gens : j \notin stopping[g].futures

ComesOnce ==
  /\ \A j \in Jobs : status[j] \in {"new", "ready"} => Fresh(j) /\ ~InHand(j)
  /\ \A j \in Jobs : InHand(j) => Fresh(j)
  /\ loop.at = "counted" => loop.job \in Jobs /\ loop.job \notin loop.jobs
  /\ loop.at = "queued" => loop.job \in InPool(loop.gen)
  /\ \A g \in Gens : \A j \in stopping[g].futures :
       task[j].at # "none" => task[j].gen = g

Calling(g) == \E j \in Jobs : task[j].gen = g /\ task[j].at = "calling"

\* What the stop of a worker has done.
StopInOrder ==
  \A g \in Gens :
    /\ run[g].on_drained \/ run[g].shutdown => run[g].closing
    /\ stopping[g].at \in {"closing", "waiting"} => run[g].closing
    /\ stopping[g].at = "joining" => run[g].shutdown
    /\ Calling(g) => run[g].closing /\ run[g].in_flight = 0
    /\ run[g].stopped => run[g].stop_event

\* A process row belongs to a worker that has not deregistered.
RowsRegistered == \A g \in rows : run[g].process

\* The callback of a shutdown is with the last job, or has been called.
RowHandedOn ==
  \A g \in Gens :
    /\ stopping[g].at = "waiting" =>
         run[g].on_drained \/ Calling(g) \/ ~run[g].process
    /\ stopping[g].at = "timed out" =>
         \/ run[g].on_drained /\ run[g].in_flight # 0
         \/ Calling(g)
         \/ ~run[g].process
    /\ stopping[g].at = "drained" => ~run[g].process

\* The claim of a job is under the row of a worker, or the row was pruned.
Covered(j, g) ==
  \/ status[j] = "claimed" /\ owner[j] = g /\ g \in rows
  \/ g \notin rows /\ run[g].process

HandCovered ==
  /\ Submitting =>
       \A j \in loop.jobs : Covered(j, loop.gen) \/ run[loop.gen].closing
  /\ loop.at = "counted" =>
       Covered(loop.job, loop.gen) \/ run[loop.gen].shutdown

\* The claims that a crashed loop fails are those of an idle worker.
FailsIdle ==
  loop.at = "failing" =>
    /\ run[loop.gen].in_flight = 0
    /\ \A j \in loop.jobs : status[j] = "claimed" => owner[j] = loop.gen

\* Something will make the poll loop look again, or there is nothing to see.
Alert ==
  \/ ~run[loop.gen].process
  \/ run[loop.gen].pipe
  \/ run[loop.gen].stop_event
  \/ \E k \in Jobs : task[k].gen = loop.gen /\ task[k].at \in {"calling", "waking"}
  \/ \A j \in Ready : j \in notes \cup missed

Awake ==
  /\ loop.at = "claim" => run[loop.gen].in_flight < Threads
  /\ Submitting =>
       Alert \/ run[loop.gen].in_flight + Cardinality(loop.jobs) >= Threads
  /\ loop.at \in {"check", "asleep"} => Alert \/ run[loop.gen].in_flight >= Threads
  /\ loop.at = "asleep" /\ run[loop.gen].stop_event /\ run[loop.gen].process =>
       run[loop.gen].pipe

IInv ==
  /\ Typed
  /\ CountsInFlight
  /\ Generations
  /\ ComesOnce
  /\ StopInOrder
  /\ RowsRegistered
  /\ RowHandedOn
  /\ HandCovered
  /\ FailsIdle
  /\ RowCoversWork
  /\ Awake

USE DEF database, threads, supervisor
USE AsyncRuntimeAssumption

-----------------------------------------------------------------------------
(* Updates of the worker objects.                                          *)

\* The fields of a worker object that neither a wake-up nor a request changes.
PoolKept(r, s) ==
  /\ r.process = s.process /\ r.closing = s.closing
  /\ r.shutdown = s.shutdown /\ r.on_drained = s.on_drained
  /\ r.in_flight = s.in_flight /\ r.futures = s.futures

LEMMA WokenRunner ==
  ASSUME NEW r \in Runners
  PROVE  /\ Woken(r) \in Runners /\ PoolKept(Woken(r), r)
         /\ Woken(r).stopped = r.stopped
         /\ Woken(r).stop_event = r.stop_event
         /\ Woken(r).pipe = (r.pipe \/ r.process)
BY DEF Woken, Runners, PoolKept

LEMMA RequestedRunner ==
  ASSUME NEW r \in Runners
  PROVE  /\ Requested(r) \in Runners /\ PoolKept(Requested(r), r)
         /\ Requested(r).stopped = r.stopped
         /\ Requested(r).stop_event
         /\ Requested(r).pipe = (r.pipe \/ r.process)
<1> DEFINE w == Woken(r)
<1>1. /\ w \in Runners /\ PoolKept(w, r)
      /\ w.stopped = r.stopped /\ w.pipe = (r.pipe \/ r.process)
  BY WokenRunner
<1>2. Requested(r) = [w EXCEPT !.stop_event = TRUE]
  BY DEF Requested
<1> HIDE DEF w
<1>3. Requested(r) \in Runners
  BY <1>1, <1>2 DEF Runners
<1>4. QED
  BY <1>1, <1>2, <1>3 DEF Runners, PoolKept

LEMMA FinishedRunner ==
  ASSUME NEW r \in Runners
  PROVE  /\ Finished(r) \in Runners
         /\ ~Finished(r).process
         /\ Finished(r).stopped = r.stopped
         /\ Finished(r).stop_event = r.stop_event
         /\ Finished(r).closing = r.closing
         /\ Finished(r).shutdown = r.shutdown
         /\ Finished(r).on_drained = r.on_drained
         /\ Finished(r).in_flight = r.in_flight
         /\ Finished(r).futures = r.futures
BY DEF Finished, Runners

\* Worker.stop, first part.
LEMMA StopBeginRunner ==
  ASSUME Typed, NEW g \in Gens, StopBegin(g)
  PROVE  /\ run' \in [Gens -> Runners]
         /\ stopping' \in [Gens -> Stoppings]
         /\ \A h \in Gens : PoolKept(run'[h], run[h])
         /\ \A h \in Gens : h # g => run'[h] = run[h] /\ stopping'[h] = stopping[h]
         /\ run'[g].stopped /\ run'[g].stop_event
         /\ run'[g].pipe = (run[g].pipe \/ run[g].process)
         /\ stopping'[g].at = "begun" /\ stopping'[g].futures = stopping[g].futures
<1> DEFINE r == [run[g] EXCEPT !.stopped = TRUE]
<1>0. run[g] \in Runners
  BY DEF Typed
<1>1. /\ r \in Runners /\ PoolKept(r, run[g]) /\ r.stopped
      /\ r.pipe = run[g].pipe
  BY <1>0 DEF Runners, PoolKept
<1>2. run' = [run EXCEPT ![g] = Requested(r)]
  BY DEF StopBegin, Typed
<1>3. \A h \in Gens : PoolKept(run[h], run[h])
  BY DEF PoolKept
<1> HIDE DEF r
<1>4. /\ Requested(r) \in Runners /\ PoolKept(Requested(r), r)
      /\ Requested(r).stopped = r.stopped
      /\ Requested(r).stop_event
      /\ Requested(r).pipe = (r.pipe \/ r.process)
  BY <1>1, RequestedRunner
<1>5. PoolKept(Requested(r), run[g])
  BY <1>1, <1>4 DEF PoolKept
<1>6. /\ run' \in [Gens -> Runners]
      /\ run'[g] = Requested(r)
      /\ \A h \in Gens : h # g => run'[h] = run[h]
  BY <1>2, <1>4 DEF Typed
<1>7. /\ stopping' \in [Gens -> Stoppings]
      /\ \A h \in Gens : h # g => stopping'[h] = stopping[h]
      /\ stopping'[g].at = "begun" /\ stopping'[g].futures = stopping[g].futures
  BY DEF StopBegin, Typed, Stoppings, StopSteps
<1>8. r.process = run[g].process
  BY <1>1 DEF PoolKept
<1> QED
  BY <1>1, <1>3, <1>4, <1>5, <1>6, <1>7, <1>8

-----------------------------------------------------------------------------
(* What keeps parts of the invariant.                                      *)

LEMMA CountsKept ==
  ASSUME Typed, CountsInFlight,
         \A h \in Gens : /\ run'[h].in_flight = run[h].in_flight
                         /\ run'[h].futures = run[h].futures,
         \A j \in Jobs :
           /\ task'[j].gen = task[j].gen
                \/ task[j].at \notin {"queued", "running", "ended"}
           /\ task'[j].at \in {"queued", "running", "ended"}
                <=> task[j].at \in {"queued", "running", "ended"},
         loop.at = "counted" <=> loop'.at = "counted",
         loop.at = "counted" => loop'.gen = loop.gen /\ loop'.job = loop.job,
         loop'.at = "queued" => loop' = loop
  PROVE  CountsInFlight'
<1>1. ASSUME NEW h \in Gens
      PROVE  InFlight(h)' = InFlight(h) /\ InPool(h)' = InPool(h)
  BY DEF InFlight, InPool
<1>2. QED
  BY <1>1 DEF CountsInFlight, Typed, Loops

LEMMA TaskGen ==
  IInv => \A j \in Jobs : task[j].at # "none" => task[j].gen \in Gens
BY DEF IInv, Typed, Loops, Generations, Gens

\* The order of a stop is not disturbed by a step that leaves its flags alone.
LEMMA StopOrderKept ==
  ASSUME StopInOrder,
         \A h \in Gens : stopping'[h].at = stopping[h].at,
         \A h \in Gens : Calling(h)' <=> Calling(h),
         \A h \in Gens :
           /\ run'[h].closing = run[h].closing /\ run'[h].shutdown = run[h].shutdown
           /\ run'[h].on_drained = run[h].on_drained
           /\ run'[h].in_flight = run[h].in_flight
           /\ run'[h].stopped = run[h].stopped
           /\ run[h].stop_event => run'[h].stop_event
  PROVE  StopInOrder'
BY DEF StopInOrder

\* Nor is the duty to delete the row, by one that leaves a pool its jobs.
LEMMA RowStaysHandedOn ==
  ASSUME RowHandedOn,
         \A h \in Gens : stopping'[h].at = stopping[h].at \/ stopping'[h].at = "begun",
         \A h \in Gens : Calling(h)' <=> Calling(h),
         \A h \in Gens :
           /\ run'[h].process = run[h].process
           /\ run'[h].on_drained = run[h].on_drained
           /\ run[h].in_flight # 0 => run'[h].in_flight # 0
  PROVE  RowHandedOn'
BY DEF RowHandedOn

\* A loop that something will wake stays so while no flag of its worker is cleared.
LEMMA StaysAwake ==
  ASSUME Awake, UNCHANGED <<database, task, loop>>,
         run'[loop.gen].process = run[loop.gen].process,
         run'[loop.gen].in_flight = run[loop.gen].in_flight,
         run[loop.gen].pipe => run'[loop.gen].pipe,
         run[loop.gen].stop_event => run'[loop.gen].stop_event,
         run'[loop.gen].stop_event /\ run[loop.gen].process =>
           run[loop.gen].stop_event \/ run'[loop.gen].pipe
  PROVE  Awake'
<1>1. Alert => Alert'
  BY DEF Alert, Ready
<1>2. Submitting' <=> Submitting
  BY DEF Submitting
<1>3. QED
  BY <1>1, <1>2 DEF Awake

\* A wake-up or a request disturbs nothing but the flags it sets.
LEMMA RunKept ==
  ASSUME IInv,
         run' \in [Gens -> Runners],
         \A h \in Gens : PoolKept(run'[h], run[h]),
         \A h \in Gens : stopping'[h].at = stopping[h].at \/ stopping'[h].at = "begun",
         \A h \in Gens : h > loop.gen => stopping'[h].at = stopping[h].at,
         \A h \in Gens : stopping'[h].futures = stopping[h].futures,
         UNCHANGED <<database, task, listed>>,
         \/ loop' = loop
         \/ /\ loop.at \in {"asleep", "stop"} /\ loop'.gen = loop.gen
            /\ loop'.at \in {"loop", "stopped", "ended"}
  PROVE  /\ CountsInFlight' /\ Generations' /\ ComesOnce' /\ RowsRegistered'
         /\ RowHandedOn' /\ HandCovered' /\ FailsIdle' /\ RowCoversWork'
<1>1. \A h \in Gens : Calling(h)' <=> Calling(h)
  BY DEF Calling
<1>2. CountsInFlight'
  BY CountsKept DEF IInv, PoolKept
<1>3. Generations'
  BY DEF IInv, Generations
<1>4. ComesOnce'
  BY DEF IInv, ComesOnce, Fresh, InHand, Submitting, InPool
<1>5. RowsRegistered' /\ FailsIdle'
  BY DEF IInv, Typed, Loops, RowsRegistered, FailsIdle, PoolKept
<1>6. RowHandedOn'
  <2>1. \A h \in Gens :
          /\ run'[h].process = run[h].process
          /\ run'[h].on_drained = run[h].on_drained
          /\ run[h].in_flight # 0 => run'[h].in_flight # 0
    BY DEF PoolKept
  <2>2. RowHandedOn
    BY DEF IInv
  <2>3. QED
    BY <1>1, <2>1, <2>2, RowStaysHandedOn
<1>7. HandCovered'
  BY DEF IInv, Typed, Loops, HandCovered, Covered, Submitting, PoolKept
<1>8. RowCoversWork'
  BY DEF IInv, Typed, Tasks, Generations, RowCoversWork, PoolKept
<1>9. QED
  BY <1>2, <1>3, <1>4, <1>5, <1>6, <1>7, <1>8


-----------------------------------------------------------------------------
(* The steps of the supervisor's threads that only go on.                  *)

LEMMA HostOnly ==
  ASSUME IInv, UNCHANGED <<database, threads, listed>>, stop_event' \in BOOLEAN
  PROVE  IInv'
<1>1. Typed' /\ Generations' /\ RowsRegistered' /\ RowCoversWork' /\ FailsIdle'
  BY DEF IInv, Typed, Generations, RowsRegistered, RowCoversWork, FailsIdle
<1>2. CountsInFlight'
  BY CountsKept DEF IInv
<1>3. ComesOnce'
  BY DEF IInv, ComesOnce, Fresh, InHand, Submitting, InPool
<1>4. StopInOrder' /\ RowHandedOn'
  BY DEF IInv, StopInOrder, RowHandedOn, Calling
<1>5. HandCovered'
  BY DEF IInv, HandCovered, Submitting, Covered
<1>6. Awake'
  BY DEF IInv, Awake, Alert, Ready, Submitting
<1>7. QED
  BY <1>1, <1>2, <1>3, <1>4, <1>5, <1>6 DEF IInv

\* A step of the poll loop outside of its submissions.
LEMMA LoopOnly ==
  ASSUME IInv, UNCHANGED <<database, run, task, stopping, stop_event>>,
         loop.at # "counted", loop' \in Loops, loop'.gen = loop.gen,
         loop'.at \notin {"submit", "counted", "queued"},
         listed' \in Gens, listed' <= loop.gen,
         FailsIdle', Awake'
  PROVE  IInv'
<1>1. Typed' /\ Generations' /\ RowsRegistered' /\ RowCoversWork'
  BY DEF IInv, Typed, Generations, RowsRegistered, RowCoversWork
<1>2. CountsInFlight'
  BY CountsKept DEF IInv
<1>3. ComesOnce'
  BY DEF IInv, ComesOnce, Fresh, InHand, Submitting, InPool
<1>4. StopInOrder' /\ RowHandedOn'
  BY DEF IInv, StopInOrder, RowHandedOn, Calling
<1>5. HandCovered'
  BY DEF HandCovered, Submitting
<1>6. QED
  BY <1>1, <1>2, <1>3, <1>4, <1>5 DEF IInv

LEMMA ListedKept == IInv => listed \in Gens /\ listed <= loop.gen
BY DEF IInv, Typed, Generations

\* It goes to a step at which nothing is promised of it.
LEMMA LoopGoesOn ==
  ASSUME IInv, UNCHANGED <<database, run, task, stopping, stop_event>>,
         loop.at # "counted",
         NEW step \in {"loop", "crashed", "stop", "stopped", "draining", "restart",
                       "ended"},
         Goto(step), listed' \in Gens, listed' <= loop.gen
  PROVE  IInv'
<1>1. loop' \in Loops /\ loop'.at = step /\ loop'.gen = loop.gen
  BY DEF IInv, Typed, Loops, Goto, LoopSteps
<1>2. FailsIdle' /\ Awake'
  BY <1>1 DEF FailsIdle, Awake, Submitting
<1>3. QED
  BY <1>1, <1>2, LoopOnly

LEMMA LoopGoesOnActions ==
  ASSUME IInv,
         \/ LeaveLoop \/ ClaimRefused \/ PollingInterval \/ LoopStopped \/ Drained
         \/ GiveUpRestart \/ Replace
  PROVE  IInv'
<1>1. ASSUME UNCHANGED <<database, run, task, stopping, stop_event>>,
             loop.at # "counted",
             NEW step \in {"loop", "crashed", "stop", "stopped", "draining",
                           "restart", "ended"},
             Goto(step), listed' \in Gens, listed' <= loop.gen
      PROVE  IInv'
  BY <1>1, LoopGoesOn
<1>2. listed \in Gens /\ listed <= loop.gen /\ loop.gen \in Gens /\ loop.gen <= loop.gen
  BY DEF IInv, Typed, Loops, Generations, Gens
<1>3. CASE LeaveLoop
  BY <1>1, <1>2, <1>3 DEF LeaveLoop, At
<1>4. CASE ClaimRefused
  BY <1>1, <1>2, <1>4 DEF ClaimRefused, At
<1>5. CASE PollingInterval
  BY <1>1, <1>2, <1>5 DEF PollingInterval, At
<1>6. CASE LoopStopped
  BY <1>1, <1>2, <1>6 DEF LoopStopped, AfterStop, At
<1>7. CASE Drained
  BY <1>1, <1>2, <1>7 DEF Drained, At
<1>8. CASE GiveUpRestart
  BY <1>1, <1>2, <1>8 DEF GiveUpRestart, At
<1>9. CASE Replace
  BY <1>1, <1>2, <1>9 DEF Replace, At
<1>10. QED
  BY <1>3, <1>4, <1>5, <1>6, <1>7, <1>8, <1>9

LEMMA PollCapacityStep == ASSUME IInv, PollCapacity PROVE IInv'
<1>1. /\ loop' \in Loops /\ loop'.gen = loop.gen
      /\ loop'.at = (IF Idle(loop.gen) > 0 THEN "claim" ELSE "check")
  BY DEF IInv, Typed, PollCapacity, Goto, Loops, LoopSteps
<1>2. loop.at = "loop" /\ loop.gen \in Gens
  BY DEF IInv, Typed, Loops, PollCapacity, At
<1>3. FailsIdle'
  BY <1>1 DEF FailsIdle
<1>4. Awake'
  BY <1>1, <1>2 DEF IInv, Typed, Runners, Awake, Submitting, Idle, PollCapacity
<1>5. QED
  BY <1>1, <1>2, <1>3, <1>4, LoopOnly, ListedKept DEF PollCapacity

LEMMA SubmittedStep == ASSUME IInv, Submitted PROVE IInv'
<1>1. loop' \in Loops /\ loop'.at = "check" /\ loop'.gen = loop.gen
  BY DEF IInv, Typed, Submitted, Goto, Loops, LoopSteps
<1>2. loop.at = "submit" /\ loop.gen \in Gens /\ loop.jobs = {}
  BY DEF IInv, Typed, Loops, Submitted, At
<1>3. FailsIdle'
  BY <1>1 DEF FailsIdle
<1>4. Awake'
  <2>1. Cardinality(loop.jobs) = 0
    BY <1>2, FS_EmptySet
  <2>2. Alert \/ run[loop.gen].in_flight >= Threads
    BY <1>2, <2>1 DEF IInv, Typed, Runners, Awake, Submitting
  <2>3. Alert' <=> Alert
    BY <1>1 DEF Alert, Ready, Submitted
  <2>4. QED
    BY <1>1, <2>2, <2>3 DEF Awake, Submitting, Submitted
<1>5. QED
  BY <1>1, <1>2, <1>3, <1>4, LoopOnly, ListedKept DEF Submitted

LEMMA SleepStep == ASSUME IInv, Sleep PROVE IInv'
<1>1. loop' \in Loops /\ loop'.at = "asleep" /\ loop'.gen = loop.gen
  BY DEF IInv, Typed, Sleep, Goto, Loops, LoopSteps
<1>2. loop.at = "check" /\ loop.gen \in Gens
  BY DEF IInv, Typed, Loops, Sleep, At
<1>3. FailsIdle'
  BY <1>1 DEF FailsIdle
<1>4. Awake'
  BY <1>1, <1>2 DEF IInv, Awake, Alert, Ready, Submitting, Sleep, Stops
<1>5. QED
  BY <1>1, <1>2, <1>3, <1>4, LoopOnly, ListedKept DEF Sleep

LEMMA CrashedReadStep == ASSUME IInv, CrashedRead PROVE IInv'
<1> DEFINE idle == ~HasActiveWork(loop.gen) /\ run[loop.gen].process
<1>1. /\ loop' \in Loops /\ loop'.gen = loop.gen
      /\ loop'.at = (IF idle THEN "failing" ELSE "stop")
      /\ idle => loop'.jobs = {j \in Jobs : owner[j] = loop.gen}
  BY DEF IInv, Typed, CrashedRead, Loops, LoopSteps
<1>2. loop.at = "crashed" /\ loop.gen \in Gens
  BY DEF IInv, Typed, Loops, CrashedRead, At
<1>3. Awake'
  BY <1>1 DEF Awake, Submitting
<1>4. FailsIdle'
  <2>1. idle => run[loop.gen].in_flight = 0
    BY <1>2 DEF IInv, Typed, Runners, HasActiveWork, Idle
  <2>2. QED
    BY <1>1, <2>1 DEF FailsIdle, CrashedRead
<1>5. QED
  BY <1>1, <1>2, <1>3, <1>4, LoopOnly, ListedKept DEF CrashedRead


-----------------------------------------------------------------------------
(* Notifications, wake-ups and requests to stop.                           *)

LEMMA EnqueueStep == ASSUME IInv, NEW j \in Jobs, Enqueue(j) PROVE IInv'
<1>1. status' = [status EXCEPT ![j] = "ready"] /\ status[j] = "new"
  BY DEF Enqueue
<1>2. Typed' /\ Generations' /\ RowsRegistered'
  BY <1>1 DEF IInv, Typed, Generations, RowsRegistered, Enqueue
<1>3. CountsInFlight'
  BY CountsKept DEF IInv, Enqueue
<1>4. ComesOnce'
  BY <1>1 DEF IInv, Typed, ComesOnce, Fresh, InHand, Submitting, InPool, Enqueue
<1>5. StopInOrder' /\ RowHandedOn'
  BY DEF IInv, StopInOrder, RowHandedOn, Calling, Enqueue
<1>6. HandCovered' /\ FailsIdle' /\ RowCoversWork'
  BY <1>1 DEF IInv, Typed, HandCovered, FailsIdle, RowCoversWork, Submitting, Covered,
              ComesOnce, Fresh, Enqueue
<1>7. Awake'
  BY <1>1 DEF IInv, Typed, Awake, Alert, Ready, Submitting, Enqueue, NotifyReadyQueues
<1>8. QED
  BY <1>2, <1>3, <1>4, <1>5, <1>6, <1>7 DEF IInv

LEMMA NotifyLostStep == ASSUME IInv, NEW j \in Jobs, NotifyLost(j) PROVE IInv'
<1>1. Typed' /\ Generations' /\ RowsRegistered' /\ RowCoversWork' /\ FailsIdle'
  BY DEF IInv, Typed, Generations, RowsRegistered, RowCoversWork, FailsIdle, NotifyLost
<1>2. CountsInFlight'
  BY CountsKept DEF IInv, NotifyLost
<1>3. ComesOnce'
  BY DEF IInv, ComesOnce, Fresh, InHand, Submitting, InPool, NotifyLost
<1>4. StopInOrder' /\ RowHandedOn'
  BY DEF IInv, StopInOrder, RowHandedOn, Calling, NotifyLost
<1>5. HandCovered'
  BY DEF IInv, HandCovered, Submitting, Covered, NotifyLost
<1>6. Awake'
  BY DEF IInv, Awake, Alert, Ready, Submitting, NotifyLost
<1>7. QED
  BY <1>1, <1>2, <1>3, <1>4, <1>5, <1>6 DEF IInv

LEMMA DeliverStep == ASSUME IInv, NEW j \in Jobs, Deliver(j) PROVE IInv'
<1>1. ASSUME NEW h \in Gens
      PROVE  /\ run'[h] \in Runners /\ PoolKept(run'[h], run[h])
             /\ run'[h].stopped = run[h].stopped
             /\ run'[h].stop_event = run[h].stop_event
             /\ run[h].pipe => run'[h].pipe
             /\ run[h].process => run'[h].pipe \/ run[h].stopped
  <2>1. run[h] \in Runners
    BY DEF IInv, Typed
  <2>2. run'[h] = IF run[h].stopped THEN run[h] ELSE Woken(run[h])
    BY DEF Deliver
  <2>3. PoolKept(run[h], run[h])
    BY DEF PoolKept
  <2>4. CASE run[h].stopped
    BY <2>1, <2>2, <2>3, <2>4
  <2>5. CASE ~run[h].stopped
    BY <2>1, <2>2, <2>5, WokenRunner DEF Runners
  <2>6. QED
    BY <2>4, <2>5
<1>2. run' \in [Gens -> Runners]
  BY <1>1 DEF Deliver
<1>3. Typed'
  BY <1>2 DEF IInv, Typed, Deliver
<1>4. CountsInFlight' /\ Generations' /\ ComesOnce' /\ RowsRegistered'
  <2>1. CountsInFlight'
    BY <1>1, CountsKept DEF IInv, Deliver, PoolKept
  <2>2. Generations' /\ ComesOnce'
    BY DEF IInv, Generations, ComesOnce, Fresh, InHand, Submitting, InPool, Deliver
  <2>3. RowsRegistered'
    BY <1>1 DEF IInv, Typed, RowsRegistered, PoolKept, Deliver
  <2>4. QED
    BY <2>1, <2>2, <2>3
<1>5. StopInOrder' /\ RowHandedOn'
  <2>1. \A h \in Gens : Calling(h)' <=> Calling(h)
    BY DEF Calling, Deliver
  <2>2. \A h \in Gens :
          /\ run'[h].process = run[h].process
          /\ run'[h].closing = run[h].closing /\ run'[h].shutdown = run[h].shutdown
          /\ run'[h].on_drained = run[h].on_drained
          /\ run'[h].in_flight = run[h].in_flight
          /\ run'[h].stopped = run[h].stopped
          /\ run[h].stop_event => run'[h].stop_event
    BY <1>1 DEF PoolKept
  <2>3. StopInOrder /\ RowHandedOn /\ \A h \in Gens : stopping'[h].at = stopping[h].at
    BY DEF IInv, Deliver
  <2>4. StopInOrder'
    BY <2>1, <2>2, <2>3, StopOrderKept
  <2>5. RowHandedOn'
    BY <2>1, <2>2, <2>3, RowStaysHandedOn
  <2>6. QED
    BY <2>4, <2>5
<1>6. HandCovered' /\ FailsIdle'
  BY <1>1 DEF IInv, Typed, Loops, HandCovered, FailsIdle, Submitting, Covered,
              PoolKept, Deliver
<1>7. RowCoversWork'
  BY <1>1 DEF IInv, Typed, Tasks, Generations, RowCoversWork, PoolKept, Deliver
<1>8. Awake'
  <2> DEFINE g == loop.gen
  <2>1. g \in Gens /\ PoolKept(run'[g], run[g])
    BY <1>1 DEF IInv, Typed, Loops
  <2>2. Alert'
    BY <1>1, <2>1 DEF IInv, StopInOrder, Alert, PoolKept, Deliver
  <2>3. QED
    BY <1>1, <2>1, <2>2 DEF IInv, Awake, Submitting, PoolKept, Deliver
<1>9. QED
  BY <1>3, <1>4, <1>5, <1>6, <1>7, <1>8 DEF IInv

\* A worker is told to stop.
LEMMA RequestKept ==
  ASSUME IInv, NEW g \in Gens, run' = [run EXCEPT ![g] = Requested(@)],
         UNCHANGED <<database, task, loop, stopping, stop_event, listed>>
  PROVE  IInv'
<1>1. run[g] \in Runners
  BY DEF IInv, Typed
<1>2. /\ Requested(run[g]) \in Runners /\ PoolKept(Requested(run[g]), run[g])
      /\ Requested(run[g]).stop_event
      /\ Requested(run[g]).pipe = (run[g].pipe \/ run[g].process)
  BY <1>1, RequestedRunner
<1>3. /\ run' \in [Gens -> Runners]
      /\ run'[g] = Requested(run[g])
      /\ \A h \in Gens : h # g => run'[h] = run[h]
  BY <1>2 DEF IInv, Typed
<1>4. \A h \in Gens : PoolKept(run'[h], run[h])
  BY <1>2, <1>3 DEF PoolKept
<1>5. Typed'
  BY <1>3 DEF IInv, Typed
<1>6. /\ CountsInFlight' /\ Generations' /\ ComesOnce' /\ RowsRegistered'
      /\ RowHandedOn' /\ HandCovered' /\ FailsIdle' /\ RowCoversWork'
  BY <1>3, <1>4, RunKept
<1>7. StopInOrder'
  BY <1>2, <1>3, <1>4 DEF IInv, StopInOrder, Calling, PoolKept
<1>8. Awake'
  <2>1. loop.gen \in Gens /\ Awake
    BY DEF IInv, Typed, Loops
  <2>2. /\ run'[loop.gen].process = run[loop.gen].process
        /\ run'[loop.gen].in_flight = run[loop.gen].in_flight
    BY <1>4, <2>1 DEF PoolKept
  <2>3. /\ run[loop.gen].pipe => run'[loop.gen].pipe
        /\ run[loop.gen].stop_event => run'[loop.gen].stop_event
        /\ run'[loop.gen].stop_event /\ run[loop.gen].process =>
             run[loop.gen].stop_event \/ run'[loop.gen].pipe
    <3>1. CASE loop.gen = g
      BY <1>2, <1>3, <3>1
    <3>2. CASE loop.gen # g
      BY <1>3, <2>1, <3>2
    <3>3. QED
      BY <3>1, <3>2
  <2>4. QED
    BY <2>1, <2>2, <2>3, StaysAwake
<1>9. QED
  BY <1>5, <1>6, <1>7, <1>8 DEF IInv

LEMMA RequestActions ==
  ASSUME IInv, (\E g \in Gens : Vanished(g)) \/ StopRunners
  PROVE  IInv'
<1>1. CASE \E g \in Gens : Vanished(g)
  BY <1>1, RequestKept DEF Vanished
<1>2. CASE StopRunners
  BY <1>2, RequestKept DEF StopRunners, IInv, Typed
<1>3. QED
  BY <1>1, <1>2

LEMMA WakeUpStep == ASSUME IInv, WakeUp PROVE IInv'
<1> DEFINE g == loop.gen
           r == [run[g] EXCEPT !.pipe = FALSE]
<1>1. g \in Gens /\ run[g] \in Runners /\ loop.at = "asleep"
  BY DEF IInv, Typed, Loops, WakeUp, At
<1>2. /\ r \in Runners /\ PoolKept(r, run[g])
      /\ r.stopped = run[g].stopped /\ r.stop_event = run[g].stop_event
  BY <1>1 DEF Runners, PoolKept
<1>3. /\ run' \in [Gens -> Runners]
      /\ run'[g] = r
      /\ \A h \in Gens : h # g => run'[h] = run[h]
  BY <1>1, <1>2 DEF IInv, Typed, WakeUp
<1> HIDE DEF r
<1>4. \A h \in Gens : PoolKept(run'[h], run[h])
  BY <1>2, <1>3 DEF PoolKept
<1>5. loop' \in Loops /\ loop'.at = "loop" /\ loop'.gen = g
  BY DEF IInv, Typed, Loops, LoopSteps, WakeUp, Goto
<1>6. Typed'
  BY <1>3, <1>5 DEF IInv, Typed, WakeUp
<1>7. /\ CountsInFlight' /\ Generations' /\ ComesOnce' /\ RowsRegistered'
      /\ RowHandedOn' /\ HandCovered' /\ FailsIdle' /\ RowCoversWork'
  BY <1>1, <1>3, <1>4, <1>5, RunKept DEF WakeUp
<1>8. StopInOrder'
  BY <1>2, <1>3, <1>4 DEF IInv, StopInOrder, Calling, PoolKept, WakeUp
<1>9. Awake'
  BY <1>5 DEF Awake, Submitting
<1>10. QED
  BY <1>6, <1>7, <1>8, <1>9 DEF IInv


-----------------------------------------------------------------------------
(* The stop of a worker.                                                   *)

LEMMA StopBegins ==
  ASSUME IInv, NEW g \in Gens, g <= loop.gen, StopBegin(g),
         UNCHANGED <<database, task, stop_event, listed>>, loop' \in Loops,
         \/ loop' = loop
         \/ /\ loop.at \in {"asleep", "stop"} /\ loop'.gen = loop.gen
            /\ loop'.at \in {"loop", "stopped", "ended"}
  PROVE  IInv'
<1>1. /\ run' \in [Gens -> Runners]
      /\ stopping' \in [Gens -> Stoppings]
      /\ \A h \in Gens : PoolKept(run'[h], run[h])
      /\ \A h \in Gens : h # g => run'[h] = run[h] /\ stopping'[h] = stopping[h]
      /\ run'[g].stopped /\ run'[g].stop_event
      /\ run'[g].pipe = (run[g].pipe \/ run[g].process)
      /\ stopping'[g].at = "begun" /\ stopping'[g].futures = stopping[g].futures
  BY StopBeginRunner DEF IInv
<1>2. loop.gen \in Nat /\ Gens \subseteq Nat
  BY DEF IInv, Typed, Loops, Gens
<1>3. Typed'
  BY <1>1 DEF IInv, Typed
<1>4. \A h \in Gens :
        /\ stopping'[h].at = stopping[h].at \/ stopping'[h].at = "begun"
        /\ h > loop.gen => stopping'[h].at = stopping[h].at
        /\ stopping'[h].futures = stopping[h].futures
  BY <1>1, <1>2
<1>5. /\ CountsInFlight' /\ Generations' /\ ComesOnce' /\ RowsRegistered'
      /\ RowHandedOn' /\ HandCovered' /\ FailsIdle' /\ RowCoversWork'
  BY <1>1, <1>4, RunKept
<1>6. StopInOrder'
  BY <1>1 DEF IInv, StopInOrder, Calling, PoolKept
<1>7. Awake'
  <2>1. CASE loop' = loop
    <3>1. loop.gen \in Gens
      BY DEF IInv, Typed, Loops
    <3>2. run'[loop.gen].in_flight = run[loop.gen].in_flight
      BY <1>1, <3>1 DEF PoolKept
    <3>3. Alert => Alert'
      BY <1>1, <2>1, <3>1 DEF Alert, Ready, PoolKept
    <3>4. QED
      BY <1>1, <2>1, <3>1, <3>2, <3>3 DEF IInv, Awake, Submitting, PoolKept
  <2>2. CASE loop'.at \in {"loop", "stopped", "ended"}
    BY <2>2 DEF Awake, Submitting
  <2>3. QED
    BY <2>1, <2>2
<1>8. QED
  BY <1>3, <1>5, <1>6, <1>7 DEF IInv

LEMMA LoopStopStep == ASSUME IInv, LoopStop PROVE IInv'
<1>1. loop.gen \in Gens /\ loop.gen <= loop.gen /\ loop.at = "stop"
  BY DEF IInv, Typed, Loops, Gens, LoopStop, At
<1>2. /\ loop' \in Loops /\ loop'.gen = loop.gen
      /\ loop'.at = IF run[loop.gen].stopped THEN "ended" ELSE "stopped"
  BY DEF IInv, Typed, Loops, LoopSteps, LoopStop, Goto
<1>3. CASE run[loop.gen].stopped
  BY <1>1, <1>3, LoopGoesOn, ListedKept DEF LoopStop
<1>4. CASE ~run[loop.gen].stopped
  BY <1>1, <1>2, <1>4, StopBegins DEF LoopStop
<1>5. QED
  BY <1>3, <1>4

LEMMA StopRunnerStep == ASSUME IInv, StopRunner PROVE IInv'
<1>1. listed \in Gens /\ listed <= loop.gen /\ loop \in Loops
  BY DEF IInv, Typed, Generations
<1>2. CASE run[listed].stopped
  BY <1>2, HostOnly DEF StopRunner, IInv, Typed
<1>3. CASE ~run[listed].stopped
  BY <1>1, <1>3, StopBegins DEF StopRunner
<1>4. QED
  BY <1>2, <1>3

\* A step of WorkerPool.shutdown that only sets flags of the pool.
LEMMA ShutdownKept ==
  ASSUME IInv, NEW g \in Gens, NEW r \in Runners, run' = [run EXCEPT ![g] = r],
         NEW p \in Stoppings, stopping' = [stopping EXCEPT ![g] = p],
         UNCHANGED <<database, task, loop, stop_event, listed>>,
         /\ r.process = run[g].process /\ r.stopped = run[g].stopped
         /\ r.stop_event = run[g].stop_event /\ r.pipe = run[g].pipe
         /\ r.in_flight = run[g].in_flight /\ r.futures = run[g].futures,
         /\ run[g].closing => r.closing
         /\ run[g].shutdown => r.shutdown
         /\ run[g].on_drained => r.on_drained,
         stopping[g].at # "no", p.futures \in {stopping[g].futures, run[g].futures},
         r.on_drained \/ r.shutdown => r.closing,
         p.at \in {"closing", "waiting"} => r.closing,
         p.at = "joining" => r.shutdown,
         p.at = "waiting" => r.on_drained,
         p.at = "timed out" => /\ r.on_drained \/ Calling(g) \/ ~r.process
                               /\ r.in_flight # 0,
         p.at # "drained"
  PROVE  IInv'
<1>1. /\ run' \in [Gens -> Runners] /\ run'[g] = r
      /\ \A h \in Gens : h # g => run'[h] = run[h]
      /\ stopping' \in [Gens -> Stoppings] /\ stopping'[g] = p
      /\ \A h \in Gens : h # g => stopping'[h] = stopping[h]
  BY DEF IInv, Typed
<1>2. \A h \in Gens :
        /\ run'[h].process = run[h].process
        /\ run'[h].stopped = run[h].stopped
        /\ run'[h].stop_event = run[h].stop_event
        /\ run'[h].pipe = run[h].pipe
        /\ run'[h].in_flight = run[h].in_flight
        /\ run'[h].futures = run[h].futures
        /\ run[h].closing => run'[h].closing
        /\ run[h].shutdown => run'[h].shutdown
  BY <1>1
<1>3. loop.gen \in Gens /\ rows \subseteq Gens /\ RowsRegistered /\ RowCoversWork
  BY DEF IInv, Typed, Loops
<1>4. Typed'
  BY <1>1 DEF IInv, Typed
<1>5. CountsInFlight'
  BY <1>2, CountsKept DEF IInv
<1>6. Generations'
  BY <1>1 DEF IInv, Generations
<1>7. ComesOnce'
  <2>1. \A h \in Gens : stopping'[h].futures \subseteq stopping[h].futures \cup run[h].futures
    BY <1>1
  <2>2. \A h \in Gens : \A j \in run[h].futures :
          /\ task[j].at \in {"queued", "running", "ended"} /\ task[j].gen = h
    BY DEF IInv, CountsInFlight, InPool
  <2>3. ASSUME NEW j \in Jobs, Fresh(j) PROVE Fresh(j)'
    BY <2>1, <2>2, <2>3 DEF Fresh
  <2>4. ASSUME NEW h \in Gens, NEW j \in stopping'[h].futures
        PROVE  task[j].at # "none" => task[j].gen = h
    <3>1. CASE j \in stopping[h].futures
      BY <3>1 DEF IInv, ComesOnce
    <3>2. CASE j \in run[h].futures
      BY <2>2, <3>2
    <3>3. QED
      BY <2>1, <2>4, <3>1, <3>2
  <2>5. ComesOnce /\ \A j \in Jobs : InHand(j)' <=> InHand(j)
    BY DEF IInv, InHand, Submitting
  <2>6. InPool(loop.gen)' = InPool(loop.gen)
    BY DEF InPool
  <2>7. QED
    BY <2>3, <2>4, <2>5, <2>6 DEF ComesOnce
<1>8. StopInOrder'
  <2>1. \A h \in Gens : Calling(h)' <=> Calling(h)
    BY DEF Calling
  <2>2. ASSUME NEW h \in Gens
        PROVE  /\ run'[h].on_drained \/ run'[h].shutdown => run'[h].closing
               /\ stopping'[h].at \in {"closing", "waiting"} => run'[h].closing
               /\ stopping'[h].at = "joining" => run'[h].shutdown
               /\ Calling(h) => run'[h].closing /\ run'[h].in_flight = 0
               /\ run'[h].stopped => run'[h].stop_event
    <3>1. /\ run[h].on_drained \/ run[h].shutdown => run[h].closing
          /\ stopping[h].at \in {"closing", "waiting"} => run[h].closing
          /\ stopping[h].at = "joining" => run[h].shutdown
          /\ Calling(h) => run[h].closing /\ run[h].in_flight = 0
          /\ run[h].stopped => run[h].stop_event
      BY DEF IInv, StopInOrder
    <3>2. CASE h = g
      BY <1>1, <3>1, <3>2
    <3>3. CASE h # g
      BY <1>1, <3>1, <3>3
    <3>4. QED
      BY <3>2, <3>3
  <2>3. QED
    BY <2>1, <2>2 DEF StopInOrder
<1>9. RowHandedOn'
  <2>1. \A h \in Gens : Calling(h)' <=> Calling(h)
    BY DEF Calling
  <2>2. ASSUME NEW h \in Gens, h # g
        PROVE  /\ stopping'[h].at = stopping[h].at
               /\ run'[h] = run[h]
    BY <1>1, <2>2
  <2>3. ASSUME NEW h \in Gens
        PROVE  /\ stopping'[h].at = "waiting" =>
                    run'[h].on_drained \/ Calling(h) \/ ~run'[h].process
               /\ stopping'[h].at = "timed out" =>
                    \/ run'[h].on_drained /\ run'[h].in_flight # 0
                    \/ Calling(h)
                    \/ ~run'[h].process
               /\ stopping'[h].at = "drained" => ~run'[h].process
    <3>1. CASE h = g
      BY <1>1, <3>1
    <3>2. CASE h # g
      BY <2>2, <3>2 DEF IInv, RowHandedOn
    <3>3. QED
      BY <3>1, <3>2
  <2>4. QED
    BY <2>1, <2>3 DEF RowHandedOn
<1>10. RowsRegistered' /\ FailsIdle'
  <2>1. RowsRegistered'
    BY ONLY <1>2, <1>3, UNCHANGED database DEF RowsRegistered, database
  <2>2. FailsIdle'
    BY <1>2, <1>3 DEF IInv, FailsIdle
  <2>3. QED
    BY <2>1, <2>2
<1>11. HandCovered'
  <2>1. /\ run'[loop.gen].process = run[loop.gen].process
        /\ run[loop.gen].closing => run'[loop.gen].closing
        /\ run[loop.gen].shutdown => run'[loop.gen].shutdown
    BY <1>2, <1>3
  <2>2. HandCovered /\ (Submitting' <=> Submitting)
    BY DEF IInv, Submitting
  <2>3. QED
    BY <2>1, <2>2 DEF HandCovered, Covered
<1>12. RowCoversWork'
  <2>1. ASSUME NEW j \in Jobs, task[j].at \in {"queued", "running"}
        PROVE  run'[task[j].gen].process = run[task[j].gen].process
    BY <1>2, <2>1, TaskGen
  <2>2. QED
    BY ONLY <1>3, <2>1, UNCHANGED <<database, task>> DEF RowCoversWork, database
<1>13. Awake'
  <2>1. /\ run'[loop.gen].process = run[loop.gen].process
        /\ run'[loop.gen].in_flight = run[loop.gen].in_flight
        /\ run'[loop.gen].pipe = run[loop.gen].pipe
        /\ run'[loop.gen].stop_event = run[loop.gen].stop_event
    BY <1>2, <1>3
  <2>2. Awake
    BY DEF IInv
  <2>3. QED
    BY <2>1, <2>2, StaysAwake
<1>14. QED
  BY <1>4, <1>5, <1>6, <1>7, <1>8, <1>9, <1>10, <1>11, <1>12, <1>13 DEF IInv

LEMMA ShutdownCloseStep == ASSUME IInv, NEW g \in Gens, ShutdownClose(g) PROVE IInv'
<1> DEFINE r == [run[g] EXCEPT !.closing = TRUE]
           p == [stopping[g] EXCEPT !.at = "closing"]
<1>1. run[g] \in Runners /\ stopping[g] \in Stoppings /\ stopping[g].at = "begun"
  BY DEF IInv, Typed, ShutdownClose
<1>2. /\ r \in Runners /\ r.closing
      /\ r.process = run[g].process /\ r.stopped = run[g].stopped
      /\ r.stop_event = run[g].stop_event /\ r.pipe = run[g].pipe
      /\ r.in_flight = run[g].in_flight /\ r.futures = run[g].futures
      /\ r.shutdown = run[g].shutdown /\ r.on_drained = run[g].on_drained
  BY <1>1 DEF Runners
<1>3. p \in Stoppings /\ p.at = "closing" /\ p.futures = stopping[g].futures
  BY <1>1 DEF Stoppings, StopSteps
<1>4. run' = [run EXCEPT ![g] = r] /\ stopping' = [stopping EXCEPT ![g] = p]
  BY DEF IInv, Typed, ShutdownClose
<1> HIDE DEF r, p
<1>5. QED
  BY <1>1, <1>2, <1>3, <1>4, ShutdownKept DEF ShutdownClose

LEMMA ShutdownSnapshotStep ==
  ASSUME IInv, NEW g \in Gens, ShutdownSnapshot(g) PROVE IInv'
<1> DEFINE r == [run[g] EXCEPT !.on_drained = TRUE]
           p == [at |-> "waiting", futures |-> run[g].futures]
<1>1. run[g] \in Runners /\ stopping[g].at = "closing" /\ run[g].closing
  BY DEF IInv, Typed, StopInOrder, ShutdownSnapshot
<1>2. /\ r \in Runners /\ r.on_drained
      /\ r.process = run[g].process /\ r.stopped = run[g].stopped
      /\ r.stop_event = run[g].stop_event /\ r.pipe = run[g].pipe
      /\ r.in_flight = run[g].in_flight /\ r.futures = run[g].futures
      /\ r.shutdown = run[g].shutdown /\ r.closing = run[g].closing
  BY <1>1 DEF Runners
<1>3. p \in Stoppings /\ p.at = "waiting" /\ p.futures = run[g].futures
  BY <1>1 DEF Stoppings, StopSteps, Runners
<1>4. run' = [run EXCEPT ![g] = r] /\ stopping' = [stopping EXCEPT ![g] = p]
  BY DEF IInv, Typed, ShutdownSnapshot
<1> HIDE DEF r, p
<1>5. QED
  BY <1>1, <1>2, <1>3, <1>4, ShutdownKept DEF ShutdownSnapshot

LEMMA ShutdownDoneStep == ASSUME IInv, NEW g \in Gens, ShutdownDone(g) PROVE IInv'
<1> DEFINE r == [run[g] EXCEPT !.shutdown = TRUE]
           p == [stopping[g] EXCEPT !.at = "joining"]
<1>1. /\ run[g] \in Runners /\ stopping[g] \in Stoppings
      /\ stopping[g].at = "waiting" /\ run[g].closing
  BY DEF IInv, Typed, StopInOrder, ShutdownDone
<1>2. /\ r \in Runners /\ r.shutdown
      /\ r.process = run[g].process /\ r.stopped = run[g].stopped
      /\ r.stop_event = run[g].stop_event /\ r.pipe = run[g].pipe
      /\ r.in_flight = run[g].in_flight /\ r.futures = run[g].futures
      /\ r.on_drained = run[g].on_drained /\ r.closing = run[g].closing
  BY <1>1 DEF Runners
<1>3. p \in Stoppings /\ p.at = "joining" /\ p.futures = stopping[g].futures
  BY <1>1 DEF Stoppings, StopSteps
<1>4. run' = [run EXCEPT ![g] = r] /\ stopping' = [stopping EXCEPT ![g] = p]
  BY DEF IInv, Typed, ShutdownDone
<1> HIDE DEF r, p
<1>5. QED
  BY <1>1, <1>2, <1>3, <1>4, ShutdownKept DEF ShutdownDone

\* A job that is waited for in vain is counted: the callback stays with it.
LEMMA ShutdownTimeoutStep ==
  ASSUME IInv, NEW g \in Gens, ShutdownTimeout(g) PROVE IInv'
<1> DEFINE r == [run[g] EXCEPT !.shutdown = TRUE]
           p == [stopping[g] EXCEPT !.at = "timed out"]
<1>1. /\ run[g] \in Runners /\ stopping[g] \in Stoppings
      /\ stopping[g].at = "waiting" /\ run[g].closing
      /\ run[g].on_drained \/ Calling(g) \/ ~run[g].process
  BY DEF IInv, Typed, StopInOrder, RowHandedOn, ShutdownTimeout
<1>2. run[g].in_flight # 0
  <2>1. PICK j \in stopping[g].futures : task[j].at \in {"queued", "running"}
    BY DEF ShutdownTimeout
  <2>2. j \in Jobs /\ task[j].gen = g
    BY <1>1, <2>1 DEF IInv, ComesOnce, Stoppings
  <2>3. j \in InFlight(g)
    BY <2>1, <2>2 DEF InFlight, InPool
  <2>4. IsFiniteSet(InFlight(g))
    BY FS_Subset DEF InFlight, InPool
  <2>5. Cardinality(InFlight(g)) # 0
    BY <2>3, <2>4, FS_EmptySet
  <2>6. QED
    BY <2>5 DEF IInv, CountsInFlight
<1>3. /\ r \in Runners /\ r.shutdown
      /\ r.process = run[g].process /\ r.stopped = run[g].stopped
      /\ r.stop_event = run[g].stop_event /\ r.pipe = run[g].pipe
      /\ r.in_flight = run[g].in_flight /\ r.futures = run[g].futures
      /\ r.on_drained = run[g].on_drained /\ r.closing = run[g].closing
  BY <1>1 DEF Runners
<1>4. p \in Stoppings /\ p.at = "timed out" /\ p.futures = stopping[g].futures
  BY <1>1 DEF Stoppings, StopSteps
<1>5. run' = [run EXCEPT ![g] = r] /\ stopping' = [stopping EXCEPT ![g] = p]
  BY DEF IInv, Typed, ShutdownTimeout
<1> HIDE DEF r, p
<1>6. QED
  BY <1>1, <1>2, <1>3, <1>4, <1>5, ShutdownKept DEF ShutdownTimeout


LEMMA NoneInFlight ==
  ASSUME IInv, NEW g \in Gens, run[g].in_flight = 0
  PROVE  InFlight(g) = {}
<1>1. IsFiniteSet(InFlight(g))
  BY FS_Subset DEF InFlight, InPool
<1>2. Cardinality(InFlight(g)) = 0
  BY DEF IInv, CountsInFlight
<1>3. QED
  BY <1>1, <1>2, FS_EmptySet

\* A worker is deregistered: at the end of its shutdown, by the callback of its
\* last job, or when its last job comes too late.
LEMMA Deregistered ==
  ASSUME IInv, NEW g \in Gens, NEW r \in Runners, Deregister(g, r),
         r.process = run[g].process
  PROVE  /\ run' \in [Gens -> Runners] /\ run'[g] = Finished(r)
         /\ \A h \in Gens : h # g => run'[h] = run[h]
         /\ rows' = rows \ {g}
<1>1. Finished(r) \in Runners
  BY FinishedRunner
<1>2. rows' = rows \ {g}
  BY DEF IInv, RowsRegistered, Deregister
<1>3. QED
  BY <1>1, <1>2 DEF IInv, Typed, Deregister

LEMMA ShutdownJoinStep == ASSUME IInv, NEW g \in Gens, ShutdownJoin(g) PROVE IInv'
<1> DEFINE r == [run[g] EXCEPT !.on_drained = FALSE]
           p == [stopping[g] EXCEPT !.at = "drained"]
           f == Finished(r)
<1>1. /\ run[g] \in Runners /\ stopping[g] \in Stoppings
      /\ stopping[g].at = "joining" /\ run[g].shutdown /\ run[g].closing
  BY DEF IInv, Typed, StopInOrder, ShutdownJoin
<1>2. /\ r \in Runners /\ ~r.on_drained
      /\ r.process = run[g].process /\ r.stopped = run[g].stopped
      /\ r.stop_event = run[g].stop_event
      /\ r.in_flight = run[g].in_flight /\ r.futures = run[g].futures
      /\ r.shutdown = run[g].shutdown /\ r.closing = run[g].closing
  BY <1>1 DEF Runners
<1>3. /\ p \in Stoppings /\ p.at = "drained" /\ p.futures = stopping[g].futures
      /\ stopping' = [stopping EXCEPT ![g] = p]
  BY <1>1 DEF IInv, Typed, Stoppings, StopSteps, ShutdownJoin
<1>4. /\ f \in Runners /\ ~f.process /\ ~f.on_drained
      /\ f.stopped = run[g].stopped /\ f.stop_event = run[g].stop_event
      /\ f.in_flight = run[g].in_flight /\ f.futures = run[g].futures
      /\ f.shutdown = run[g].shutdown /\ f.closing = run[g].closing
  BY <1>2, FinishedRunner
<1>5. /\ run' \in [Gens -> Runners] /\ run'[g] = f
      /\ \A h \in Gens : h # g => run'[h] = run[h]
      /\ rows' = rows \ {g}
  BY <1>2, Deregistered DEF ShutdownJoin
<1>6. /\ stopping' \in [Gens -> Stoppings] /\ stopping'[g] = p
      /\ \A h \in Gens : h # g => stopping'[h] = stopping[h]
  BY <1>3 DEF IInv, Typed
<1> HIDE DEF r, p, f
<1>7. \A h \in Gens :
        /\ run'[h].stopped = run[h].stopped
        /\ run'[h].stop_event = run[h].stop_event
        /\ run'[h].in_flight = run[h].in_flight
        /\ run'[h].futures = run[h].futures
        /\ run'[h].closing = run[h].closing
        /\ run'[h].shutdown = run[h].shutdown
        /\ stopping'[h].futures = stopping[h].futures
  BY <1>1, <1>3, <1>4, <1>5, <1>6
<1>8. \A j \in Jobs : task[j].gen = g => task[j].at \notin {"queued", "running"}
  BY DEF IInv, Generations, ShutdownJoin, InThread
<1>9. loop.gen \in Gens /\ rows \subseteq Gens
  BY DEF IInv, Typed, Loops
<1>10. Typed'
  BY <1>5, <1>6 DEF IInv, Typed, ShutdownJoin
<1>11. CountsInFlight'
  BY <1>7, CountsKept DEF IInv, ShutdownJoin
<1>12. Generations'
  <2>1. g <= loop.gen
    BY <1>1 DEF IInv, Generations, Typed, Loops, Gens
  <2>2. \A h \in Gens : h > loop.gen => stopping'[h].at = "no"
    BY <1>6, <1>9, <2>1 DEF IInv, Generations, Gens
  <2>3. QED
    BY <2>2 DEF IInv, Generations, ShutdownJoin
<1>13. ComesOnce'
  BY <1>7 DEF IInv, ComesOnce, Fresh, InHand, Submitting, InPool, ShutdownJoin
<1>14. StopInOrder' /\ RowHandedOn'
  <2>1. \A h \in Gens : Calling(h)' <=> Calling(h)
    BY DEF Calling, ShutdownJoin
  <2>2. StopInOrder'
    BY <1>3, <1>4, <1>5, <1>6, <1>7, <2>1 DEF IInv, StopInOrder
  <2>3. RowHandedOn'
    BY <1>3, <1>4, <1>5, <1>6, <2>1 DEF IInv, RowHandedOn
  <2>4. QED
    BY <2>2, <2>3
<1>15. RowsRegistered'
  BY <1>5, <1>9 DEF IInv, RowsRegistered
<1>16. HandCovered'
  <2>1. CASE g = loop.gen
    BY <1>1, <1>4, <1>5, <2>1 DEF HandCovered, Submitting, ShutdownJoin
  <2>2. CASE g # loop.gen
    BY <1>5, <1>9, <2>2 DEF IInv, HandCovered, Submitting, Covered, ShutdownJoin
  <2>3. QED
    BY <2>1, <2>2
<1>17. FailsIdle'
  BY <1>7, <1>9 DEF IInv, FailsIdle, ShutdownJoin
<1>18. RowCoversWork'
  <2>1. ASSUME NEW j \in Jobs, task[j].at \in {"queued", "running"}
        PROVE  task[j].gen # g /\ run'[task[j].gen] = run[task[j].gen]
    BY <1>5, <1>8, <2>1, TaskGen
  <2>2. QED
    BY <1>5, <2>1 DEF IInv, RowCoversWork, ShutdownJoin
<1>19. Awake'
  <2>1. CASE g = loop.gen
    BY <1>4, <1>5, <1>7, <2>1 DEF IInv, Awake, Alert, Submitting, ShutdownJoin
  <2>2. CASE g # loop.gen
    BY <1>5, <1>9, <2>2 DEF IInv, Awake, Alert, Ready, Submitting, ShutdownJoin
  <2>3. QED
    BY <2>1, <2>2
<1>20. QED
  BY <1>10, <1>11, <1>12, <1>13, <1>14, <1>15, <1>16, <1>17, <1>18, <1>19 DEF IInv

-----------------------------------------------------------------------------
(* Recovery.                                                               *)

LEMMA PrunedStep == ASSUME IInv, NEW g \in Gens, Pruned(g) PROVE IInv'
<1>1. /\ rows' = rows \ {g} /\ g \in rows
      /\ status' = [j \in Jobs |-> IF owner[j] = g THEN "failed" ELSE status[j]]
      /\ owner' = [j \in Jobs |-> IF owner[j] = g THEN 0 ELSE owner[j]]
      /\ UNCHANGED <<notes, missed, threads, supervisor>>
  BY DEF Pruned
<1>2. run[g].process
  BY <1>1 DEF IInv, RowsRegistered
<1>3. Typed' /\ Generations' /\ RowsRegistered'
  BY <1>1 DEF IInv, Typed, Generations, RowsRegistered
<1>4. CountsInFlight'
  BY <1>1, CountsKept DEF IInv
<1>5. ComesOnce'
  BY <1>1 DEF IInv, Typed, ComesOnce, Fresh, InHand, Submitting, InPool
<1>6. StopInOrder' /\ RowHandedOn'
  BY <1>1 DEF IInv, StopInOrder, RowHandedOn, Calling
<1>7. ASSUME NEW j \in Jobs, NEW h \in Gens, Covered(j, h)
      PROVE  Covered(j, h)'
  BY <1>1, <1>2, <1>7 DEF Covered
<1>8. HandCovered'
  BY <1>1, <1>7 DEF IInv, Typed, Loops, ComesOnce, HandCovered, Submitting
<1>9. FailsIdle'
  BY <1>1 DEF IInv, Typed, Loops, FailsIdle
<1>10. RowCoversWork'
  BY <1>1, <1>7, TaskGen DEF IInv, RowCoversWork, Covered
<1>11. Awake'
  BY <1>1 DEF IInv, Typed, Awake, Alert, Ready, Submitting
<1>12. QED
  BY <1>3, <1>4, <1>5, <1>6, <1>8, <1>9, <1>10, <1>11 DEF IInv

LEMMA RecoverOrphansStep == ASSUME IInv, RecoverOrphans PROVE IInv'
<1> DEFINE orphans == {j \in Jobs : status[j] = "claimed" /\ owner[j] \notin rows}
<1>1. /\ status' = [j \in Jobs |-> IF j \in orphans THEN "failed" ELSE status[j]]
      /\ owner' = [j \in Jobs |-> IF j \in orphans THEN 0 ELSE owner[j]]
      /\ UNCHANGED <<rows, notes, missed, threads, supervisor>>
  BY DEF RecoverOrphans
<1>2. \A j \in orphans : j \in Jobs /\ status[j] = "claimed" /\ owner[j] \notin rows
  OBVIOUS
<1> HIDE DEF orphans
<1>3. Typed' /\ Generations' /\ RowsRegistered'
  BY <1>1 DEF IInv, Typed, Generations, RowsRegistered
<1>4. CountsInFlight'
  BY <1>1, CountsKept DEF IInv
<1>5. ComesOnce'
  BY <1>1 DEF IInv, Typed, ComesOnce, Fresh, InHand, Submitting, InPool
<1>6. StopInOrder' /\ RowHandedOn'
  BY <1>1 DEF IInv, StopInOrder, RowHandedOn, Calling
<1>7. ASSUME NEW j \in Jobs, NEW h \in Gens, Covered(j, h)
      PROVE  Covered(j, h)'
  BY <1>1, <1>2, <1>7 DEF Covered
<1>8. HandCovered'
  BY <1>1, <1>7 DEF IInv, Typed, Loops, ComesOnce, HandCovered, Submitting
<1>9. FailsIdle'
  BY <1>1 DEF IInv, Typed, Loops, FailsIdle
<1>10. RowCoversWork'
  BY <1>1, <1>7, TaskGen DEF IInv, RowCoversWork, Covered
<1>11. Awake'
  BY <1>1 DEF IInv, Typed, Awake, Alert, Ready, Submitting
<1>12. QED
  BY <1>3, <1>4, <1>5, <1>6, <1>8, <1>9, <1>10, <1>11 DEF IInv


-----------------------------------------------------------------------------
(* The threads of the pool.                                                *)

\* A job of the pool goes on or ends; its claim may be settled with it.
LEMMA TaskGoesOn ==
  ASSUME IInv, NEW j \in Jobs, NEW t \in Tasks, task' = [task EXCEPT ![j] = t],
         t.gen = task[j].gen /\ t.inline = task[j].inline,
         \/ task[j].at = "queued" /\ t.at = "running"
         \/ task[j].at = "running" /\ t.at = "ended",
         UNCHANGED <<rows, notes, missed, run, loop, stopping, stop_event, listed>>,
         \/ UNCHANGED <<status, owner>>
         \/ /\ t.at = "ended" /\ status[j] = "claimed"
            /\ status' = [status EXCEPT ![j] = "done"]
            /\ owner' = [owner EXCEPT ![j] = 0]
  PROVE  IInv'
<1>1. task' \in [Jobs -> Tasks] /\ task'[j] = t /\ \A i \in Jobs : i # j => task'[i] = task[i]
  BY DEF IInv, Typed
<1>2. \A i \in Jobs :
        /\ task'[i].gen = task[i].gen /\ task'[i].inline = task[i].inline
        /\ task'[i].at \in {"queued", "running", "ended"}
             <=> task[i].at \in {"queued", "running", "ended"}
        /\ task'[i].at \notin {"queued", "running", "ended"} => task'[i].at = task[i].at
        /\ task'[i].at \in {"queued", "running"} => task[i].at \in {"queued", "running"}
  BY <1>1
<1>3. status' \in [Jobs -> {"new", "ready", "claimed", "done", "failed"}]
      /\ owner' \in [Jobs -> Gens \cup {0}]
  BY DEF IInv, Typed
<1>4. \A i \in Jobs :
        \/ status'[i] = status[i] /\ owner'[i] = owner[i]
        \/ status[i] = "claimed" /\ status'[i] = "done" /\ i = j /\ t.at = "ended"
  BY DEF IInv, Typed
<1>5. ~InHand(j)
  BY DEF IInv, ComesOnce, Fresh
<1>6. Typed'
  BY <1>1, <1>3 DEF IInv, Typed
<1>7. CountsInFlight'
  BY <1>2, CountsKept DEF IInv
<1>8. Generations'
  BY <1>2 DEF IInv, Generations
<1>9. ComesOnce'
  <2>1. \A i \in Jobs : Fresh(i)' <=> Fresh(i)
    BY <1>2 DEF Fresh
  <2>2. \A i \in Jobs : InHand(i)' <=> InHand(i)
    BY DEF InHand, Submitting
  <2>3. InPool(loop.gen)' = InPool(loop.gen)
    BY <1>2 DEF InPool
  <2>4. \A i \in Jobs : status'[i] \in {"new", "ready"} => status[i] \in {"new", "ready"}
    BY <1>4
  <2>5. \A g \in Gens : \A i \in stopping[g].futures :
          task'[i].at # "none" => task'[i].gen = g
    BY <1>2 DEF IInv, Typed, Stoppings, ComesOnce
  <2>6. QED
    BY <2>1, <2>2, <2>3, <2>4, <2>5 DEF IInv, ComesOnce
<1>10. \A g \in Gens : Calling(g)' <=> Calling(g)
  BY <1>2 DEF Calling
<1>11. StopInOrder' /\ RowHandedOn' /\ RowsRegistered'
  BY <1>10 DEF IInv, StopInOrder, RowHandedOn, RowsRegistered
<1>12. HandCovered'
  BY <1>4, <1>5 DEF IInv, Typed, Loops, ComesOnce, HandCovered, Submitting, Covered, InHand
<1>13. FailsIdle'
  BY <1>4 DEF IInv, Typed, Loops, FailsIdle
<1>14. RowCoversWork'
  <2>1. ASSUME NEW i \in Jobs, task'[i].at \in {"queued", "running"}
        PROVE  /\ task[i].at \in {"queued", "running"} /\ task'[i].gen = task[i].gen
               /\ status'[i] = status[i] /\ owner'[i] = owner[i]
    BY <1>1, <1>2, <1>4, <2>1
  <2>2. QED
    BY <2>1 DEF IInv, RowCoversWork
<1>15. Awake'
  <2>1. Ready' = Ready
    BY <1>4 DEF Ready
  <2>2. Alert' <=> Alert
    BY <1>2, <2>1 DEF Alert
  <2>3. QED
    BY <2>2 DEF IInv, Awake, Submitting
<1>16. QED
  BY <1>6, <1>7, <1>8, <1>9, <1>11, <1>12, <1>13, <1>14, <1>15 DEF IInv

LEMMA StartTaskStep == ASSUME IInv, NEW j \in Jobs, StartTask(j) PROVE IInv'
<1> DEFINE t == [task[j] EXCEPT !.at = "running"]
<1>1. task[j] \in Tasks /\ task[j].at = "queued"
  BY DEF IInv, Typed, StartTask
<1>2. t \in Tasks /\ t.at = "running" /\ t.gen = task[j].gen /\ t.inline = task[j].inline
  BY <1>1 DEF Tasks, TaskSteps
<1>3. task' = [task EXCEPT ![j] = t]
  BY DEF IInv, Typed, StartTask
<1> HIDE DEF t
<1>4. QED
  BY <1>1, <1>2, <1>3, TaskGoesOn DEF StartTask

LEMMA TaskRaisesStep == ASSUME IInv, NEW j \in Jobs, TaskRaises(j) PROVE IInv'
<1> DEFINE t == [task[j] EXCEPT !.at = "ended", !.raised = TRUE]
<1>1. task[j] \in Tasks /\ task[j].at = "running"
  BY DEF IInv, Typed, TaskRaises
<1>2. t \in Tasks /\ t.at = "ended" /\ t.gen = task[j].gen /\ t.inline = task[j].inline
  BY <1>1 DEF Tasks, TaskSteps
<1>3. task' = [task EXCEPT ![j] = t]
  BY DEF IInv, Typed, TaskRaises
<1> HIDE DEF t
<1>4. QED
  BY <1>1, <1>2, <1>3, TaskGoesOn DEF TaskRaises

LEMMA EndTaskStep == ASSUME IInv, NEW j \in Jobs, EndTask(j) PROVE IInv'
<1> DEFINE held == status[j] = "claimed"
           t == [task[j] EXCEPT !.at = "ended", !.raised = ~held]
<1>1. task[j] \in Tasks /\ task[j].at = "running"
  BY DEF IInv, Typed, EndTask
<1>2. t \in Tasks /\ t.at = "ended" /\ t.gen = task[j].gen /\ t.inline = task[j].inline
  BY <1>1 DEF Tasks, TaskSteps
<1>3. task' = [task EXCEPT ![j] = t]
  BY DEF IInv, Typed, EndTask
<1>4. \/ UNCHANGED <<status, owner>>
      \/ /\ status[j] = "claimed"
         /\ status' = [status EXCEPT ![j] = "done"]
         /\ owner' = [owner EXCEPT ![j] = 0]
  BY DEF EndTask
<1> HIDE DEF t
<1>5. QED
  BY <1>1, <1>2, <1>3, <1>4, TaskGoesOn DEF EndTask

\* The claim of a job that is neither in the pool nor at hand is failed.
LEMMA FailedClaim ==
  ASSUME IInv, NEW j \in Jobs, FailClaim(j)
  PROVE  /\ status' \in [Jobs -> {"new", "ready", "claimed", "done", "failed"}]
         /\ owner' \in [Jobs -> Gens \cup {0}]
         /\ \A i \in Jobs :
              \/ status'[i] = status[i] /\ owner'[i] = owner[i]
              \/ status[i] = "claimed" /\ status'[i] = "failed" /\ i = j
BY DEF IInv, Typed, FailClaim


LEMMA CompleteStep == ASSUME IInv, NEW j \in Jobs, Complete(j) PROVE IInv'
<1>0. PICK g \in Gens : g = task[j].gen
  BY TaskGen DEF Complete
<1> DEFINE left == [run[g] EXCEPT !.in_flight = @ - 1, !.futures = @ \ {j}]
           calls == CallsBack(left)
           r == [left EXCEPT !.on_drained = @ /\ ~calls]
           t == [task[j] EXCEPT !.at = IF calls THEN "calling" ELSE "waking"]
<1>1. task[j] \in Tasks /\ task[j].at = "ended" /\ task[j].gen = g /\ j \in run[g].futures
  BY <1>0 DEF IInv, Typed, Complete
<1>2. run[g] \in Runners /\ run[g].in_flight \in Nat
  BY <1>1 DEF IInv, Typed, Runners
<1>3. j \in InPool(g) /\ ~InHand(j)
  BY <1>1 DEF IInv, CountsInFlight, ComesOnce, Fresh, InPool
<1>4. IsFiniteSet(InFlight(g)) /\ j \in InFlight(g)
  BY <1>3, FS_Subset DEF InFlight, InPool
<1>5. /\ run[g].in_flight = Cardinality(InFlight(g)) /\ run[g].in_flight # 0
      /\ Cardinality(InFlight(g) \ {j}) = run[g].in_flight - 1
  <2>1. run[g].in_flight = Cardinality(InFlight(g))
    BY <1>1 DEF IInv, CountsInFlight
  <2>2. Cardinality(InFlight(g)) # 0
    BY <1>4, FS_EmptySet
  <2>3. Cardinality(InFlight(g) \ {j}) = Cardinality(InFlight(g)) - 1
    BY <1>4, FS_RemoveElement
  <2>4. QED
    BY <2>1, <2>2, <2>3
<1>35. run[g].in_flight - 1 \in Nat /\ run[g].futures \ {j} \subseteq Jobs
  BY <1>2, <1>5 DEF Runners
<1>6. /\ left \in Runners
      /\ left.in_flight = run[g].in_flight - 1 /\ left.futures = run[g].futures \ {j}
      /\ left.process = run[g].process /\ left.stopped = run[g].stopped
      /\ left.stop_event = run[g].stop_event /\ left.pipe = run[g].pipe
      /\ left.closing = run[g].closing /\ left.shutdown = run[g].shutdown
      /\ left.on_drained = run[g].on_drained
  <2>1. PICK q \in Runners, n \in Nat, F \in SUBSET Jobs :
          /\ q = run[g] /\ n = run[g].in_flight - 1 /\ F = run[g].futures \ {j}
    BY <1>2, <1>35
  <2>2. left = [q EXCEPT !.in_flight = n, !.futures = F]
    BY <2>1
  <2> HIDE DEF left
  <2>3. /\ left \in Runners /\ left.in_flight = n /\ left.futures = F
        /\ left.process = q.process /\ left.stopped = q.stopped
        /\ left.stop_event = q.stop_event /\ left.pipe = q.pipe
        /\ left.closing = q.closing /\ left.shutdown = q.shutdown
        /\ left.on_drained = q.on_drained
    <3>1. left \in Runners
      BY <2>2 DEF Runners
    <3>2. QED
      BY <2>2, <3>1 DEF Runners
  <2>4. QED
    BY <2>1, <2>3
<1>7. calls = (left.in_flight = 0 /\ left.futures = {} /\ left.on_drained)
  BY DEF CallsBack
<1>8. /\ run' = [run EXCEPT ![g] = r] /\ task' = [task EXCEPT ![j] = t]
      /\ UNCHANGED <<database, loop, stopping, supervisor, faults>>
  BY <1>0 DEF IInv, Typed, Complete
<1>9. /\ t \in Tasks /\ t.at = (IF calls THEN "calling" ELSE "waking") /\ t.gen = g
  BY <1>1 DEF Tasks, TaskSteps
<1> HIDE DEF left, calls
<1>10. /\ r \in Runners
       /\ r.in_flight = run[g].in_flight - 1 /\ r.futures = run[g].futures \ {j}
       /\ r.process = run[g].process /\ r.stopped = run[g].stopped
       /\ r.stop_event = run[g].stop_event /\ r.pipe = run[g].pipe
       /\ r.closing = run[g].closing /\ r.shutdown = run[g].shutdown
       /\ r.on_drained = (run[g].on_drained /\ ~calls)
  BY <1>6, <1>7 DEF Runners
<1> HIDE DEF r, t
<1>11. /\ run' \in [Gens -> Runners] /\ run'[g] = r
       /\ \A h \in Gens : h # g => run'[h] = run[h]
       /\ task' \in [Jobs -> Tasks] /\ task'[j] = t
       /\ \A i \in Jobs : i # j => task'[i] = task[i]
  BY <1>1, <1>8, <1>9, <1>10 DEF IInv, Typed
<1>12. \A i \in Jobs :
         /\ task'[i].gen = task[i].gen
         /\ task'[i].at = "none" <=> task[i].at = "none"
         /\ task'[i].at \in {"queued", "running"} => i # j /\ task'[i] = task[i]
  BY <1>1, <1>9, <1>11
<1>13. \A h \in Gens :
         /\ run'[h].process = run[h].process /\ run'[h].stopped = run[h].stopped
         /\ run'[h].stop_event = run[h].stop_event /\ run'[h].pipe = run[h].pipe
         /\ run'[h].closing = run[h].closing /\ run'[h].shutdown = run[h].shutdown
  BY <1>10, <1>11
<1>14. loop.gen \in Gens /\ rows \subseteq Gens
  BY DEF IInv, Typed, Loops
<1>15. Typed'
  BY <1>8, <1>11 DEF IInv, Typed
<1>16. CountsInFlight'
  <2>1. \A h \in Gens : InPool(h)' = InPool(h) \ {j}
    BY <1>9, <1>11 DEF InPool
  <2>2. \A i \in Jobs : loop.at = "counted" /\ i = loop.job => i # j
    BY <1>3 DEF InHand
  <2>3. InFlight(g)' = InFlight(g) \ {j}
    BY <1>8, <2>1, <2>2 DEF InFlight
  <2>4. ASSUME NEW h \in Gens, h # g
        PROVE  InFlight(h)' = InFlight(h) /\ InPool(h)' = InPool(h)
    <3>1. InPool(h)' = InPool(h)
      BY <1>1, <2>1, <2>4 DEF InPool
    <3>2. QED
      BY <1>8, <3>1 DEF InFlight
  <2>5. \A h \in Gens : run'[h].in_flight = Cardinality(InFlight(h)')
    BY <1>5, <1>10, <1>11, <2>3, <2>4 DEF IInv, CountsInFlight
  <2>6. \A h \in Gens : run'[h].futures \subseteq InPool(h)'
    BY <1>10, <1>11, <2>1, <2>4 DEF IInv, CountsInFlight
  <2>7. loop.at = "queued" => loop.job \notin run'[loop.gen].futures
    BY <1>10, <1>11, <1>14 DEF IInv, CountsInFlight
  <2>8. QED
    BY <1>8, <2>5, <2>6, <2>7 DEF CountsInFlight
<1>17. Generations'
  BY <1>8, <1>9, <1>11, <1>12 DEF IInv, Generations
<1>18. ComesOnce'
  <2>1. \A i \in Jobs : (Fresh(i)' <=> Fresh(i)) /\ (InHand(i)' <=> InHand(i))
    BY <1>8, <1>12 DEF Fresh, InHand, Submitting
  <2>2. loop.at = "queued" => loop.job \in InPool(loop.gen)'
    <3>1. loop.at = "queued" => loop.job \in InPool(loop.gen) /\ loop.job # j
      BY <1>1 DEF IInv, CountsInFlight, ComesOnce, InPool
    <3>2. QED
      BY <1>8, <1>11, <3>1 DEF InPool
  <2>3. \A h \in Gens : \A i \in stopping[h].futures :
          task'[i].at # "none" => task'[i].gen = h
    BY <1>12 DEF IInv, Typed, Stoppings, ComesOnce
  <2>4. QED
    BY <1>8, <2>1, <2>2, <2>3 DEF IInv, ComesOnce
<1>19. ~Calling(g) /\ (Calling(g)' <=> calls)
  <2>1. ~Calling(g)
    BY <1>1, <1>5 DEF IInv, StopInOrder
  <2>2. QED
    BY <1>1, <1>9, <1>11, <2>1 DEF Calling
<1>20. \A h \in Gens : h # g => (Calling(h)' <=> Calling(h))
  BY <1>1, <1>9, <1>11, <1>12 DEF Calling
<1>21. StopInOrder'
  <2>1. calls => run[g].on_drained /\ r.in_flight = 0
    BY <1>6, <1>7, <1>10
  <2>2. ASSUME NEW h \in Gens
        PROVE  Calling(h)' => run'[h].closing /\ run'[h].in_flight = 0
    BY <1>1, <1>11, <1>13, <1>19, <1>20, <2>1 DEF IInv, StopInOrder
  <2>3. \A h \in Gens : run'[h].on_drained => run[h].on_drained
    BY <1>10, <1>11
  <2>4. QED
    BY <1>8, <1>13, <2>2, <2>3 DEF IInv, StopInOrder
<1>22. RowHandedOn'
  <2>1. r.in_flight = 0 => r.futures = {}
    <3>1. IsFiniteSet(InFlight(g)')
      BY FS_Subset DEF InFlight, InPool
    <3>2. r.in_flight = 0 => InFlight(g)' = {}
      BY <1>1, <1>11, <1>16, <3>1, FS_EmptySet DEF CountsInFlight
    <3>3. QED
      BY <1>1, <1>11, <1>16, <3>2 DEF CountsInFlight, InFlight
  <2>2. run[g].on_drained => r.on_drained \/ calls
    BY <1>10
  <2>3. run[g].on_drained /\ r.in_flight = 0 => calls
    BY <1>6, <1>7, <1>10, <2>1
  <2>4. ASSUME NEW h \in Gens, h # g
        PROVE  run'[h] = run[h] /\ (Calling(h)' <=> Calling(h))
    BY <1>11, <1>20, <2>4
  <2>5. ASSUME NEW h \in Gens
        PROVE  /\ stopping[h].at = "waiting" =>
                    run'[h].on_drained \/ Calling(h)' \/ ~run'[h].process
               /\ stopping[h].at = "timed out" =>
                    \/ run'[h].on_drained /\ run'[h].in_flight # 0
                    \/ Calling(h)'
                    \/ ~run'[h].process
               /\ stopping[h].at = "drained" => ~run'[h].process
    <3>1. CASE h = g
      BY <1>1, <1>10, <1>11, <1>19, <2>3, <3>1 DEF IInv, RowHandedOn
    <3>2. CASE h # g
      BY <2>4, <3>2 DEF IInv, RowHandedOn
    <3>3. QED
      BY <3>1, <3>2
  <2>6. QED
    BY <1>8, <2>5 DEF RowHandedOn
<1>23. RowsRegistered' /\ HandCovered'
  BY <1>8, <1>13, <1>14 DEF IInv, RowsRegistered, HandCovered, Submitting, Covered
<1>24. FailsIdle'
  BY <1>5, <1>8, <1>11, <1>14 DEF IInv, FailsIdle
<1>25. RowCoversWork'
  <2>1. ASSUME NEW i \in Jobs, task'[i].at \in {"queued", "running"}
        PROVE  /\ task'[i] = task[i]
               /\ run'[task[i].gen].process = run[task[i].gen].process
    BY <1>12, <1>13, <2>1, TaskGen
  <2>2. QED
    BY <1>8, <2>1 DEF IInv, RowCoversWork
<1>26. Awake'
  <2>1. CASE g = loop.gen
    <3>1. Alert'
      BY <1>8, <1>9, <1>11, <2>1 DEF Alert
    <3>2. run'[loop.gen].in_flight <= run[loop.gen].in_flight
      BY <1>2, <1>10, <1>11, <2>1
    <3>3. run'[loop.gen].in_flight \in Nat
      BY <1>14, <1>11 DEF Runners
    <3>4. QED
      BY <1>2, <1>8, <1>13, <1>14, <2>1, <3>1, <3>2, <3>3 DEF IInv, Awake, Submitting
  <2>2. CASE g # loop.gen
    <3>1. run'[loop.gen] = run[loop.gen]
      BY <1>11, <1>14, <2>2
    <3>2. Alert => Alert'
      BY <1>1, <1>8, <1>11, <2>2, <3>1 DEF Alert, Ready
    <3>3. QED
      BY <1>8, <3>1, <3>2 DEF IInv, Awake, Submitting
  <2>3. QED
    BY <2>1, <2>2
<1>27. QED
  BY <1>15, <1>16, <1>17, <1>18, <1>21, <1>22, <1>23, <1>24, <1>25, <1>26 DEF IInv


\* A job that has left the pool goes on with its callbacks, and may have its
\* claim failed.
LEMMA CallbackKept ==
  ASSUME IInv, NEW j \in Jobs, NEW t \in Tasks, task' = [task EXCEPT ![j] = t],
         task[j].at \in {"calling", "waking", "handling"},
         t.at \in {"waking", "handling", "none"}, t.at # "none" => t.gen = task[j].gen,
         UNCHANGED <<loop, stopping, listed>>,
         \A h \in Gens : /\ run'[h].in_flight = run[h].in_flight
                         /\ run'[h].futures = run[h].futures,
         UNCHANGED <<status, owner>> \/ FailClaim(j)
  PROVE  /\ task' \in [Jobs -> Tasks] /\ task'[j] = t
         /\ \A i \in Jobs : i # j => task'[i] = task[i]
         /\ status' \in [Jobs -> {"new", "ready", "claimed", "done", "failed"}]
         /\ owner' \in [Jobs -> Gens \cup {0}]
         /\ \A i \in Jobs :
              \/ status'[i] = status[i] /\ owner'[i] = owner[i]
              \/ status[i] = "claimed" /\ status'[i] = "failed" /\ i = j
         /\ \A i \in Jobs : task'[i].at \in {"queued", "running", "ended"} => i # j
         /\ CountsInFlight' /\ Generations' /\ ComesOnce' /\ FailsIdle'
<1>1. /\ task' \in [Jobs -> Tasks] /\ task'[j] = t
      /\ \A i \in Jobs : i # j => task'[i] = task[i]
  BY DEF IInv, Typed
<1>2. /\ status' \in [Jobs -> {"new", "ready", "claimed", "done", "failed"}]
      /\ owner' \in [Jobs -> Gens \cup {0}]
      /\ \A i \in Jobs :
           \/ status'[i] = status[i] /\ owner'[i] = owner[i]
           \/ status[i] = "claimed" /\ status'[i] = "failed" /\ i = j
  <2>1. CASE UNCHANGED <<status, owner>>
    BY <2>1 DEF IInv, Typed
  <2>2. CASE FailClaim(j)
    BY <2>2, FailedClaim
  <2>3. QED
    BY <2>1, <2>2
<1>3. \A i \in Jobs :
        /\ task'[i].at \in {"queued", "running", "ended"} => i # j /\ task'[i] = task[i]
        /\ task[i].at \in {"queued", "running", "ended"} => i # j /\ task'[i] = task[i]
        /\ task[i].at = "none" => task'[i].at = "none"
        /\ task'[i].at # "none" => task[i].at # "none" /\ task'[i].gen = task[i].gen
  BY <1>1
<1>4. CountsInFlight'
  BY <1>3, CountsKept DEF IInv
<1>5. Generations'
  BY <1>3 DEF IInv, Generations
<1>6. ComesOnce'
  <2>1. \A i \in Jobs : Fresh(i) => Fresh(i)'
    BY <1>3 DEF Fresh
  <2>2. \A i \in Jobs : InHand(i)' <=> InHand(i)
    BY DEF InHand, Submitting
  <2>3. loop.at = "queued" => loop.job \in InPool(loop.gen)'
    BY <1>3 DEF IInv, ComesOnce, InPool
  <2>4. \A h \in Gens : \A i \in stopping[h].futures :
          task'[i].at # "none" => task'[i].gen = h
    BY <1>3 DEF IInv, Typed, Stoppings, ComesOnce
  <2>5. \A i \in Jobs : status'[i] \in {"new", "ready"} => status[i] \in {"new", "ready"}
    BY <1>2
  <2>6. QED
    BY <2>1, <2>2, <2>3, <2>4, <2>5 DEF IInv, ComesOnce
<1>7. FailsIdle'
  BY <1>2 DEF IInv, Typed, Loops, FailsIdle
<1>8. QED
  BY <1>1, <1>2, <1>3, <1>4, <1>5, <1>6, <1>7

LEMMA FinishByCallbackStep ==
  ASSUME IInv, NEW j \in Jobs, FinishByCallback(j) PROVE IInv'
<1>0. PICK g \in Gens : g = task[j].gen
  BY TaskGen DEF FinishByCallback
<1> DEFINE t == [task[j] EXCEPT !.at = "waking"]
           f == Finished(run[g])
<1>1. task[j] \in Tasks /\ task[j].at = "calling" /\ task[j].gen = g /\ run[g] \in Runners
  BY <1>0 DEF IInv, Typed, FinishByCallback
<1>2. /\ t \in Tasks /\ t.at = "waking" /\ t.gen = g /\ task' = [task EXCEPT ![j] = t]
  BY <1>1 DEF IInv, Typed, FinishByCallback, Tasks, TaskSteps
<1>3. run[g].closing /\ run[g].in_flight = 0 /\ InFlight(g) = {}
  <2>1. Calling(g)
    BY <1>1 DEF Calling
  <2>2. run[g].closing /\ run[g].in_flight = 0
    BY <2>1 DEF IInv, StopInOrder
  <2>3. QED
    BY <2>2, NoneInFlight
<1>4. /\ f \in Runners /\ ~f.process
      /\ f.stopped = run[g].stopped /\ f.stop_event = run[g].stop_event
      /\ f.closing = run[g].closing /\ f.shutdown = run[g].shutdown
      /\ f.on_drained = run[g].on_drained
      /\ f.in_flight = run[g].in_flight /\ f.futures = run[g].futures
  BY <1>1, FinishedRunner
<1>5. /\ run' \in [Gens -> Runners] /\ run'[g] = f
      /\ \A h \in Gens : h # g => run'[h] = run[h]
      /\ rows' = rows \ {g}
  <2>1. Deregister(g, run[g]) /\ run[g].process = run[g].process
    BY <1>0 DEF FinishByCallback
  <2>2. QED
    BY <1>1, <2>1, Deregistered
<1>6. UNCHANGED <<status, owner, notes, missed, loop, stopping, supervisor, faults>>
  BY DEF FinishByCallback
<1> HIDE DEF t, f
<1>7. \A h \in Gens :
        /\ run'[h].in_flight = run[h].in_flight /\ run'[h].futures = run[h].futures
        /\ run'[h].stopped = run[h].stopped /\ run'[h].stop_event = run[h].stop_event
        /\ run'[h].closing = run[h].closing /\ run'[h].shutdown = run[h].shutdown
        /\ run'[h].on_drained = run[h].on_drained
  BY <1>4, <1>5
<1>8. loop.gen \in Gens /\ rows \subseteq Gens
  BY DEF IInv, Typed, Loops
<1>9. /\ task' \in [Jobs -> Tasks] /\ task'[j] = t
      /\ \A i \in Jobs : i # j => task'[i] = task[i]
      /\ \A i \in Jobs : task'[i].at \in {"queued", "running", "ended"} => i # j
      /\ CountsInFlight' /\ Generations' /\ ComesOnce' /\ FailsIdle'
  BY <1>1, <1>2, <1>6, <1>7, CallbackKept
<1>10. Typed'
  BY <1>5, <1>6, <1>9 DEF IInv, Typed
<1>11. StopInOrder' /\ RowHandedOn'
  <2>1. \A h \in Gens : Calling(h)' => Calling(h)
    BY <1>1, <1>2, <1>9 DEF Calling
  <2>2. StopInOrder'
    BY <1>6, <1>7, <2>1 DEF IInv, StopInOrder
  <2>3. \A h \in Gens : h # g => (Calling(h)' <=> Calling(h))
    BY <1>1, <1>2, <1>9 DEF Calling
  <2>4. RowHandedOn'
    BY <1>4, <1>5, <1>6, <2>3 DEF IInv, RowHandedOn
  <2>5. QED
    BY <2>2, <2>4
<1>12. RowsRegistered'
  BY <1>5, <1>8 DEF IInv, RowsRegistered
<1>13. HandCovered'
  <2>1. loop.at = "counted" => loop.gen # g
    BY <1>3 DEF IInv, ComesOnce, InFlight
  <2>2. CASE g = loop.gen
    BY <1>3, <1>4, <1>5, <1>6, <2>1, <2>2 DEF HandCovered, Submitting
  <2>3. CASE g # loop.gen
    BY <1>5, <1>6, <1>8, <2>3 DEF IInv, HandCovered, Submitting, Covered
  <2>4. QED
    BY <2>2, <2>3
<1>14. RowCoversWork'
  <2>1. ASSUME NEW i \in Jobs, task'[i].at \in {"queued", "running"}
        PROVE  /\ task'[i] = task[i]
               /\ task[i].gen # g /\ run'[task[i].gen] = run[task[i].gen]
    <3>1. task'[i] = task[i]
      BY <1>9, <2>1
    <3>2. task[i].gen # g
      BY <1>3, <2>1, <3>1 DEF InFlight, InPool
    <3>3. QED
      BY <1>5, <2>1, <3>1, <3>2, TaskGen
  <2>2. QED
    BY <1>5, <1>6, <2>1 DEF IInv, RowCoversWork
<1>15. Awake'
  <2>1. CASE g = loop.gen
    BY <1>4, <1>5, <1>6, <1>7, <2>1 DEF IInv, Awake, Alert, Submitting
  <2>2. CASE g # loop.gen
    BY <1>1, <1>5, <1>6, <1>8, <1>9, <2>2 DEF IInv, Awake, Alert, Ready, Submitting
  <2>3. QED
    BY <2>1, <2>2
<1>16. QED
  BY <1>9, <1>10, <1>11, <1>12, <1>13, <1>14, <1>15 DEF IInv

LEMMA WakeLoopStep == ASSUME IInv, NEW j \in Jobs, WakeLoop(j) PROVE IInv'
<1>0. PICK g \in Gens : g = task[j].gen
  BY TaskGen DEF WakeLoop
<1> DEFINE t == IF task[j].raised THEN [task[j] EXCEPT !.at = "handling"] ELSE NoTask
           w == Woken(run[g])
<1>1. task[j] \in Tasks /\ task[j].at = "waking" /\ task[j].gen = g /\ run[g] \in Runners
  BY <1>0 DEF IInv, Typed, WakeLoop
<1>2. /\ t \in Tasks /\ t.at \in {"handling", "none"}
      /\ t.at # "none" => t.gen = g
      /\ task' = [task EXCEPT ![j] = t]
  BY <1>1 DEF IInv, Typed, WakeLoop, NoTask, Tasks, TaskSteps
<1>3. /\ w \in Runners /\ PoolKept(w, run[g])
      /\ w.stopped = run[g].stopped /\ w.stop_event = run[g].stop_event
      /\ w.pipe = (run[g].pipe \/ run[g].process)
  BY <1>1, WokenRunner
<1>4. /\ run' \in [Gens -> Runners] /\ run'[g] = w
      /\ \A h \in Gens : h # g => run'[h] = run[h]
  BY <1>0, <1>3 DEF IInv, Typed, WakeLoop
<1>5. UNCHANGED <<database, loop, stopping, supervisor, faults>>
  BY DEF WakeLoop
<1> HIDE DEF t, w
<1>6. \A h \in Gens :
        /\ run'[h].process = run[h].process
        /\ run'[h].in_flight = run[h].in_flight /\ run'[h].futures = run[h].futures
        /\ run'[h].stopped = run[h].stopped /\ run'[h].stop_event = run[h].stop_event
        /\ run'[h].closing = run[h].closing /\ run'[h].shutdown = run[h].shutdown
        /\ run'[h].on_drained = run[h].on_drained
  BY <1>3, <1>4 DEF PoolKept
<1>7. loop.gen \in Gens /\ rows \subseteq Gens
  BY DEF IInv, Typed, Loops
<1>8. /\ task' \in [Jobs -> Tasks] /\ task'[j] = t
      /\ \A i \in Jobs : i # j => task'[i] = task[i]
      /\ \A i \in Jobs : task'[i].at \in {"queued", "running", "ended"} => i # j
      /\ CountsInFlight' /\ Generations' /\ ComesOnce' /\ FailsIdle'
  BY <1>1, <1>2, <1>5, <1>6, CallbackKept
<1>9. Typed'
  BY <1>4, <1>5, <1>8 DEF IInv, Typed
<1>10. \A h \in Gens : Calling(h)' <=> Calling(h)
  BY <1>1, <1>2, <1>8 DEF Calling
<1>11. StopInOrder' /\ RowHandedOn'
  <2>1. StopInOrder /\ RowHandedOn /\ \A h \in Gens : stopping'[h].at = stopping[h].at
    BY <1>5 DEF IInv
  <2>2. StopInOrder'
    BY <1>6, <1>10, <2>1, StopOrderKept
  <2>3. RowHandedOn'
    BY <1>6, <1>10, <2>1, RowStaysHandedOn
  <2>4. QED
    BY <2>2, <2>3
<1>12. RowsRegistered' /\ HandCovered'
  BY <1>5, <1>6, <1>7 DEF IInv, RowsRegistered, HandCovered, Submitting, Covered
<1>13. RowCoversWork'
  <2>1. ASSUME NEW i \in Jobs, task'[i].at \in {"queued", "running"}
        PROVE  /\ task'[i] = task[i]
               /\ run'[task[i].gen].process = run[task[i].gen].process
    BY <1>6, <1>8, <2>1, TaskGen
  <2>2. QED
    BY <1>5, <2>1 DEF IInv, RowCoversWork
<1>14. Awake'
  <2>1. CASE g = loop.gen
    <3>1. Alert'
      BY <1>3, <1>4, <1>5, <1>6, <1>7, <2>1 DEF Alert
    <3>2. QED
      BY <1>3, <1>4, <1>5, <1>6, <2>1, <3>1 DEF IInv, Awake, Submitting
  <2>2. CASE g # loop.gen
    BY <1>1, <1>4, <1>5, <1>7, <1>8, <2>2 DEF IInv, Awake, Alert, Ready, Submitting
  <2>3. QED
    BY <2>1, <2>2
<1>15. QED
  BY <1>8, <1>9, <1>11, <1>12, <1>13, <1>14 DEF IInv

LEMMA HandleFutureStep == ASSUME IInv, NEW j \in Jobs, HandleFuture(j) PROVE IInv'
<1>0. PICK g \in Gens : g = task[j].gen
  BY TaskGen DEF HandleFuture
<1> DEFINE w == Requested(run[g])
<1>1. task[j].at = "handling" /\ task[j].gen = g /\ run[g] \in Runners
  BY <1>0 DEF IInv, Typed, HandleFuture
<1>2. PICK t \in Tasks : t.at = "none" /\ task' = [task EXCEPT ![j] = t]
  <2>1. NoTask \in Tasks /\ NoTask.at = "none"
    BY DEF NoTask, Tasks, TaskSteps
  <2>2. QED
    BY <2>1 DEF HandleFuture
<1>3. /\ w \in Runners /\ PoolKept(w, run[g])
      /\ w.stopped = run[g].stopped /\ w.stop_event
      /\ w.pipe = (run[g].pipe \/ run[g].process)
  BY <1>1, RequestedRunner
<1>4. /\ run' \in [Gens -> Runners] /\ run'[g] = w
      /\ \A h \in Gens : h # g => run'[h] = run[h]
  BY <1>0, <1>3 DEF IInv, Typed, HandleFuture
<1>5. UNCHANGED <<rows, notes, missed, loop, stopping, supervisor, faults>> /\ FailClaim(j)
  BY DEF HandleFuture
<1> HIDE DEF w
<1>6. \A h \in Gens :
        /\ run'[h].process = run[h].process
        /\ run'[h].in_flight = run[h].in_flight /\ run'[h].futures = run[h].futures
        /\ run'[h].stopped = run[h].stopped
        /\ run[h].stop_event => run'[h].stop_event
        /\ run'[h].closing = run[h].closing /\ run'[h].shutdown = run[h].shutdown
        /\ run'[h].on_drained = run[h].on_drained
  BY <1>3, <1>4 DEF PoolKept
<1>7. loop.gen \in Gens /\ rows \subseteq Gens
  BY DEF IInv, Typed, Loops
<1>8. /\ task' \in [Jobs -> Tasks] /\ task'[j] = t
      /\ \A i \in Jobs : i # j => task'[i] = task[i]
      /\ status' \in [Jobs -> {"new", "ready", "claimed", "done", "failed"}]
      /\ owner' \in [Jobs -> Gens \cup {0}]
      /\ \A i \in Jobs :
           \/ status'[i] = status[i] /\ owner'[i] = owner[i]
           \/ status[i] = "claimed" /\ status'[i] = "failed" /\ i = j
      /\ \A i \in Jobs : task'[i].at \in {"queued", "running", "ended"} => i # j
      /\ CountsInFlight' /\ Generations' /\ ComesOnce' /\ FailsIdle'
  BY <1>1, <1>2, <1>5, <1>6, CallbackKept
<1>9. Typed'
  BY <1>4, <1>5, <1>8 DEF IInv, Typed
<1>10. \A h \in Gens : Calling(h)' <=> Calling(h)
  BY <1>1, <1>2, <1>8 DEF Calling
<1>11. StopInOrder' /\ RowHandedOn' /\ RowsRegistered'
  BY <1>5, <1>6, <1>7, <1>10 DEF IInv, StopInOrder, RowHandedOn, RowsRegistered
<1>12. HandCovered'
  <2>1. ~InHand(j)
    BY <1>1 DEF IInv, ComesOnce, Fresh
  <2>2. \A i \in Jobs : i # j => status'[i] = status[i] /\ owner'[i] = owner[i]
    BY <1>8
  <2>3. QED
    BY <1>5, <1>6, <1>7, <2>1, <2>2
    DEF IInv, Typed, Loops, ComesOnce, HandCovered, Submitting, Covered, InHand
<1>13. RowCoversWork'
  <2>1. ASSUME NEW i \in Jobs, task'[i].at \in {"queued", "running"}
        PROVE  /\ task'[i] = task[i] /\ status'[i] = status[i] /\ owner'[i] = owner[i]
               /\ run'[task[i].gen].process = run[task[i].gen].process
    BY <1>6, <1>8, <2>1, TaskGen
  <2>2. QED
    BY <1>5, <2>1 DEF IInv, RowCoversWork
<1>14. Awake'
  <2>1. Ready' = Ready
    BY <1>8 DEF Ready
  <2>2. Alert => Alert'
    BY <1>1, <1>3, <1>4, <1>5, <1>6, <1>7, <1>8, <2>1 DEF Alert
  <2>3. loop.gen # g => run'[loop.gen] = run[loop.gen]
    BY <1>4, <1>7
  <2>4. run[loop.gen].process /\ g = loop.gen => run'[g].pipe
    BY <1>3, <1>4
  <2>5. run'[loop.gen].in_flight = run[loop.gen].in_flight
        /\ run'[loop.gen].process = run[loop.gen].process
    BY <1>6, <1>7
  <2>6. QED
    BY <1>5, <2>2, <2>3, <2>4, <2>5 DEF IInv, Awake, Submitting
<1>15. QED
  BY <1>8, <1>9, <1>11, <1>12, <1>13, <1>14 DEF IInv


-----------------------------------------------------------------------------
(* Submissions.                                                            *)

LEMMA SubmitRefusedStep == ASSUME IInv, NEW j \in Jobs, SubmitRefused(j) PROVE IInv'
<1>0. PICK g \in Gens : g = loop.gen
  BY DEF IInv, Typed, Loops
<1> DEFINE w == Requested(run[g])
<1>1. /\ run[g] \in Runners /\ loop.at = "submit" /\ j \in loop.jobs /\ run[g].closing
      /\ FailClaim(j)
      /\ UNCHANGED <<rows, notes, missed, task, stopping, supervisor, faults>>
  BY <1>0 DEF IInv, Typed, SubmitRefused, At
<1>2. /\ w \in Runners /\ PoolKept(w, run[g])
      /\ w.stopped = run[g].stopped /\ w.stop_event
      /\ w.pipe = (run[g].pipe \/ run[g].process)
  BY <1>1, RequestedRunner
<1>3. /\ run' \in [Gens -> Runners] /\ run'[g] = w
      /\ \A h \in Gens : h # g => run'[h] = run[h]
  BY <1>0, <1>2 DEF IInv, Typed, SubmitRefused
<1> HIDE DEF w
<1>4. /\ loop' \in Loops /\ loop'.at = "submit" /\ loop'.gen = g
      /\ loop'.jobs = loop.jobs \ {j} /\ loop'.job = loop.job
  BY <1>0, <1>1 DEF IInv, Typed, Loops, SubmitRefused
<1>5. \A h \in Gens :
        /\ run'[h].process = run[h].process
        /\ run'[h].in_flight = run[h].in_flight /\ run'[h].futures = run[h].futures
        /\ run'[h].stopped = run[h].stopped
        /\ run[h].stop_event => run'[h].stop_event
        /\ run'[h].closing = run[h].closing /\ run'[h].shutdown = run[h].shutdown
        /\ run'[h].on_drained = run[h].on_drained
  BY <1>2, <1>3 DEF PoolKept
<1>6. /\ status' \in [Jobs -> {"new", "ready", "claimed", "done", "failed"}]
      /\ owner' \in [Jobs -> Gens \cup {0}]
      /\ \A i \in Jobs :
           \/ status'[i] = status[i] /\ owner'[i] = owner[i]
           \/ status[i] = "claimed" /\ status'[i] = "failed" /\ i = j
  BY <1>1, FailedClaim
<1>7. rows \subseteq Gens /\ task[j].at = "none"
  BY <1>1 DEF IInv, Typed, ComesOnce, Fresh, InHand, Submitting
<1>8. Typed'
  BY <1>1, <1>3, <1>4, <1>6 DEF IInv, Typed
<1>9. CountsInFlight'
  BY <1>1, <1>4, <1>5, CountsKept DEF IInv
<1>10. Generations'
  BY <1>0, <1>1, <1>4 DEF IInv, Generations
<1>11. ComesOnce'
  <2>1. \A i \in Jobs : (Fresh(i)' <=> Fresh(i)) /\ (InHand(i)' => InHand(i))
    BY <1>1, <1>4 DEF Fresh, InHand, Submitting
  <2>2. \A i \in Jobs : status'[i] \in {"new", "ready"} => status[i] \in {"new", "ready"}
    BY <1>6
  <2>3. QED
    BY <1>1, <1>4, <2>1, <2>2 DEF IInv, ComesOnce
<1>12. \A h \in Gens : Calling(h)' <=> Calling(h)
  BY <1>1 DEF Calling
<1>13. StopInOrder' /\ RowHandedOn' /\ RowsRegistered'
  <2>1. StopInOrder /\ RowHandedOn /\ \A h \in Gens : stopping'[h].at = stopping[h].at
    BY <1>1 DEF IInv
  <2>2. StopInOrder'
    BY <1>5, <1>12, <2>1, StopOrderKept
  <2>3. RowHandedOn'
    BY <1>5, <1>12, <2>1, RowStaysHandedOn
  <2>4. RowsRegistered'
    BY <1>1, <1>5, <1>7 DEF IInv, RowsRegistered
  <2>5. QED
    BY <2>2, <2>3, <2>4
<1>14. HandCovered'
  BY <1>1, <1>4, <1>5 DEF HandCovered, Submitting
<1>15. FailsIdle'
  BY <1>4 DEF FailsIdle
<1>16. RowCoversWork'
  <2>1. ASSUME NEW i \in Jobs, task[i].at \in {"queued", "running"}
        PROVE  /\ status'[i] = status[i] /\ owner'[i] = owner[i]
               /\ run'[task[i].gen].process = run[task[i].gen].process
    BY <1>5, <1>6, <1>7, <2>1, TaskGen
  <2>2. QED
    BY <1>1, <2>1 DEF IInv, RowCoversWork
<1>17. Awake'
  BY <1>2, <1>3, <1>4 DEF Awake, Alert, Submitting
<1>18. QED
  BY <1>8, <1>9, <1>10, <1>11, <1>13, <1>14, <1>15, <1>16, <1>17 DEF IInv

LEMMA SubmitCountStep == ASSUME IInv, NEW j \in Jobs, SubmitCount(j) PROVE IInv'
<1>0. PICK g \in Gens : g = loop.gen
  BY DEF IInv, Typed, Loops
<1> DEFINE r == [run[g] EXCEPT !.in_flight = @ + 1]
<1>1. /\ run[g] \in Runners /\ loop.at = "submit" /\ j \in loop.jobs /\ ~run[g].closing
      /\ UNCHANGED <<database, task, stopping, supervisor, faults>>
      /\ IsFiniteSet(loop.jobs) /\ run[g].in_flight \in Nat
  BY <1>0, FS_Subset DEF IInv, Typed, Loops, Runners, SubmitCount, At
<1>2. /\ r \in Runners /\ r.in_flight = run[g].in_flight + 1
      /\ r.futures = run[g].futures
      /\ r.process = run[g].process /\ r.stopped = run[g].stopped
      /\ r.stop_event = run[g].stop_event /\ r.pipe = run[g].pipe
      /\ r.closing = run[g].closing /\ r.shutdown = run[g].shutdown
      /\ r.on_drained = run[g].on_drained
  <2>1. PICK q \in Runners, n \in Nat : q = run[g] /\ n = run[g].in_flight + 1
    <3>1. run[g].in_flight + 1 \in Nat
      BY <1>1
    <3>2. QED
      BY <1>1, <3>1
  <2>2. r = [q EXCEPT !.in_flight = n]
    BY <2>1
  <2> HIDE DEF r
  <2>3. r \in Runners
    BY <2>2 DEF Runners
  <2>4. QED
    BY <2>1, <2>2, <2>3 DEF Runners
<1>3. /\ run' \in [Gens -> Runners] /\ run'[g] = r
      /\ \A h \in Gens : h # g => run'[h] = run[h]
  BY <1>0, <1>2 DEF IInv, Typed, SubmitCount
<1> HIDE DEF r
<1>4. /\ loop' \in Loops /\ loop'.at = "counted" /\ loop'.gen = g
      /\ loop'.jobs = loop.jobs \ {j} /\ loop'.job = j
  BY <1>0 DEF IInv, Typed, Loops, LoopSteps, SubmitCount
<1>5. \A h \in Gens :
        /\ run'[h].process = run[h].process /\ run'[h].pipe = run[h].pipe
        /\ run'[h].futures = run[h].futures
        /\ run'[h].stopped = run[h].stopped /\ run'[h].stop_event = run[h].stop_event
        /\ run'[h].closing = run[h].closing /\ run'[h].shutdown = run[h].shutdown
        /\ run'[h].on_drained = run[h].on_drained
  BY <1>2, <1>3
<1>6. rows \subseteq Gens /\ Fresh(j)
  BY <1>1 DEF IInv, Typed, ComesOnce, InHand, Submitting
<1>7. Typed'
  BY <1>1, <1>3, <1>4 DEF IInv, Typed
<1>8. CountsInFlight'
  <2>1. InFlight(g)' = InFlight(g) \cup {j} /\ j \notin InFlight(g)
    BY <1>1, <1>4, <1>6 DEF InFlight, InPool, Fresh
  <2>2. \A h \in Gens : InPool(h)' = InPool(h)
    BY <1>1 DEF InPool
  <2>3. ASSUME NEW h \in Gens, h # g PROVE InFlight(h)' = InFlight(h)
    BY <1>1, <1>4, <2>2, <2>3 DEF InFlight
  <2>4. IsFiniteSet(InFlight(g))
    BY FS_Subset DEF InFlight, InPool
  <2>5. Cardinality(InFlight(g) \cup {j}) = Cardinality(InFlight(g)) + 1
    BY <2>1, <2>4, FS_AddElement
  <2>6. \A h \in Gens : run'[h].in_flight = Cardinality(InFlight(h)')
    BY <1>2, <1>3, <2>1, <2>3, <2>5 DEF IInv, CountsInFlight
  <2>7. QED
    BY <1>4, <1>5, <2>2, <2>6 DEF IInv, CountsInFlight
<1>9. Generations'
  BY <1>0, <1>1, <1>4 DEF IInv, Generations
<1>10. ComesOnce'
  <2>1. \A i \in Jobs : (Fresh(i)' <=> Fresh(i)) /\ (InHand(i)' => InHand(i))
    BY <1>1, <1>4 DEF Fresh, InHand, Submitting
  <2>2. QED
    BY <1>1, <1>4, <2>1 DEF IInv, ComesOnce
<1>11. \A h \in Gens : Calling(h)' <=> Calling(h)
  BY <1>1 DEF Calling
<1>12. StopInOrder' /\ RowHandedOn' /\ RowsRegistered'
  <2>1. ~Calling(g)
    BY <1>1 DEF IInv, StopInOrder
  <2>2. StopInOrder' /\ RowsRegistered'
    BY <1>1, <1>3, <1>5, <1>6, <1>11, <2>1 DEF IInv, StopInOrder, RowsRegistered
  <2>3. \A h \in Gens : run[h].in_flight # 0 => run'[h].in_flight # 0
    BY <1>1, <1>2, <1>3
  <2>4. RowHandedOn'
    BY <1>1, <1>5, <1>11, <2>3 DEF IInv, RowHandedOn
  <2>5. QED
    BY <2>2, <2>4
<1>13. HandCovered'
  <2>1. \A i \in loop.jobs : Covered(i, g)
    BY <1>0, <1>1 DEF IInv, HandCovered, Submitting
  <2>2. \A i \in loop.jobs : Covered(i, g)'
    BY <1>1, <1>5, <2>1 DEF Covered
  <2>3. QED
    BY <1>1, <1>4, <2>2 DEF HandCovered, Submitting, Covered
<1>14. FailsIdle'
  BY <1>4 DEF FailsIdle
<1>15. RowCoversWork'
  <2>1. ASSUME NEW i \in Jobs, task[i].at \in {"queued", "running"}
        PROVE  run'[task[i].gen].process = run[task[i].gen].process
    BY <1>5, <2>1, TaskGen
  <2>2. QED
    BY <1>1, <2>1 DEF IInv, RowCoversWork
<1>16. Awake'
  <2>1. Cardinality(loop.jobs \ {j}) = Cardinality(loop.jobs) - 1
    BY <1>1, FS_RemoveElement
  <2>2. Cardinality(loop.jobs) \in Nat
    BY <1>1, FS_CardinalityType
  <2>3. Alert \/ run[g].in_flight + Cardinality(loop.jobs) >= Threads
    BY <1>0, <1>1 DEF IInv, Awake, Submitting
  <2>4. Alert => Alert'
    BY <1>0, <1>1, <1>4, <1>5 DEF Alert, Ready
  <2>5. run'[g].in_flight + Cardinality(loop'.jobs)
          = run[g].in_flight + Cardinality(loop.jobs)
    BY <1>1, <1>2, <1>3, <1>4, <2>1, <2>2
  <2>6. QED
    BY <1>4, <2>3, <2>4, <2>5 DEF Awake, Submitting
<1>17. QED
  BY <1>7, <1>8, <1>9, <1>10, <1>12, <1>13, <1>14, <1>15, <1>16 DEF IInv

LEMMA SubmitQueueStep == ASSUME IInv, SubmitQueue PROVE IInv'
<1>0. PICK g \in Gens, j \in Jobs : g = loop.gen /\ j = loop.job
  BY DEF IInv, Typed, Loops, ComesOnce, SubmitQueue, At
<1> DEFINE t == [at |-> "queued", raised |-> FALSE, gen |-> g, inline |-> FALSE]
<1>1. /\ loop.at = "counted" /\ ~run[g].shutdown /\ task' = [task EXCEPT ![j] = t]
      /\ UNCHANGED <<database, run, stopping, supervisor, faults>>
      /\ Fresh(j) /\ j \notin loop.jobs
  BY <1>0 DEF IInv, ComesOnce, InHand, SubmitQueue, At
<1>2. t \in Tasks /\ t.at = "queued" /\ t.gen = g /\ ~t.inline
  BY DEF Tasks, TaskSteps
<1> HIDE DEF t
<1>3. /\ task' \in [Jobs -> Tasks] /\ task'[j] = t
      /\ \A i \in Jobs : i # j => task'[i] = task[i]
  BY <1>1, <1>2 DEF IInv, Typed
<1>4. /\ loop' \in Loops /\ loop'.at = "queued" /\ loop'.gen = g
      /\ loop'.jobs = loop.jobs /\ loop'.job = j
  BY <1>0 DEF IInv, Typed, Loops, LoopSteps, SubmitQueue, Goto
<1>5. task[j].at = "none"
  BY <1>1 DEF Fresh
<1>6. Typed'
  BY <1>1, <1>3, <1>4 DEF IInv, Typed
<1>7. InPool(g)' = InPool(g) \cup {j} /\ \A h \in Gens : h # g => InPool(h)' = InPool(h)
  BY <1>2, <1>3, <1>5 DEF InPool
<1>8. CountsInFlight'
  <2>1. \A h \in Gens : InFlight(h)' = InFlight(h)
    BY <1>0, <1>1, <1>4, <1>7 DEF InFlight
  <2>2. \A h \in Gens : InPool(h) \subseteq InPool(h)'
    BY <1>7
  <2>3. j \notin run[g].futures
    BY <1>5 DEF IInv, CountsInFlight, InPool
  <2>4. QED
    BY <1>1, <1>4, <2>1, <2>2, <2>3 DEF IInv, CountsInFlight
<1>9. Generations'
  <2>1. g \in 1 .. g
    BY DEF Gens
  <2>2. QED
    BY <1>0, <1>1, <1>2, <1>3, <1>4, <2>1 DEF IInv, Generations
<1>10. ComesOnce'
  <2>1. \A i \in Jobs : InHand(i)' => InHand(i) /\ i # j
    BY <1>0, <1>1, <1>4 DEF InHand, Submitting
  <2>2. \A i \in Jobs : i # j => (Fresh(i)' <=> Fresh(i))
    BY <1>1, <1>3 DEF Fresh
  <2>3. status[j] \notin {"new", "ready"}
    BY <1>0, <1>1 DEF IInv, ComesOnce, InHand
  <2>4. \A h \in Gens : \A i \in stopping[h].futures : i \in Jobs /\ i # j
    BY <1>1 DEF IInv, Typed, Stoppings, Fresh
  <2>5. \A h \in Gens : \A i \in stopping[h].futures :
          task'[i].at # "none" => task'[i].gen = h
    BY <1>3, <2>4 DEF IInv, ComesOnce
  <2>6. QED
    BY <1>1, <1>4, <1>7, <2>1, <2>2, <2>3, <2>5 DEF IInv, ComesOnce
<1>11. \A h \in Gens : Calling(h)' <=> Calling(h)
  BY <1>2, <1>3, <1>5 DEF Calling
<1>12. StopInOrder' /\ RowHandedOn' /\ RowsRegistered'
  BY <1>1, <1>11 DEF IInv, StopInOrder, RowHandedOn, RowsRegistered
<1>13. HandCovered'
  BY <1>0, <1>1, <1>4 DEF IInv, HandCovered, Submitting, Covered
<1>14. FailsIdle'
  BY <1>4 DEF FailsIdle
<1>15. RowCoversWork'
  <2>1. Covered(j, g)
    BY <1>0, <1>1 DEF IInv, HandCovered
  <2>2. QED
    BY <1>1, <1>2, <1>3, <2>1 DEF IInv, RowCoversWork, Covered
<1>16. Awake'
  <2>1. Alert => Alert'
    BY <1>0, <1>1, <1>3, <1>4, <1>5 DEF Alert, Ready
  <2>2. QED
    BY <1>0, <1>1, <1>4, <2>1 DEF IInv, Awake, Submitting
<1>17. QED
  BY <1>6, <1>8, <1>9, <1>10, <1>12, <1>13, <1>14, <1>15, <1>16 DEF IInv


LEMMA SubmitListStep == ASSUME IInv, SubmitList PROVE IInv'
<1>0. PICK g \in Gens, j \in Jobs : g = loop.gen /\ j = loop.job
  BY DEF IInv, Typed, Loops, ComesOnce, InPool, SubmitList, At
<1> DEFINE t == [task[j] EXCEPT !.inline = task[j].at = "ended"]
           r == [run[g] EXCEPT !.futures = @ \cup {j}]
<1>1. /\ loop.at = "queued" /\ task' = [task EXCEPT ![j] = t]
      /\ run' = [run EXCEPT ![g] = r] /\ j \in InPool(g)
      /\ task[j] \in Tasks /\ run[g] \in Runners
      /\ UNCHANGED <<database, stopping, supervisor, faults>>
  BY <1>0 DEF IInv, Typed, ComesOnce, SubmitList, At
<1>2. /\ t \in Tasks /\ t.at = task[j].at /\ t.gen = task[j].gen
      /\ t.at \in {"queued", "running"} => ~t.inline
  BY <1>1 DEF Tasks
<1>3. /\ r \in Runners /\ r.futures = run[g].futures \cup {j}
      /\ r.in_flight = run[g].in_flight
      /\ r.process = run[g].process /\ r.stopped = run[g].stopped
      /\ r.stop_event = run[g].stop_event /\ r.pipe = run[g].pipe
      /\ r.closing = run[g].closing /\ r.shutdown = run[g].shutdown
      /\ r.on_drained = run[g].on_drained
  <2>1. PICK q \in Runners, F \in SUBSET Jobs : q = run[g] /\ F = run[g].futures \cup {j}
    <3>1. run[g].futures \cup {j} \in SUBSET Jobs
      BY <1>1 DEF Runners
    <3>2. QED
      BY <1>1, <3>1
  <2>2. r = [q EXCEPT !.futures = F]
    BY <2>1
  <2> HIDE DEF r
  <2>3. r \in Runners
    BY <2>2 DEF Runners
  <2>4. QED
    BY <2>1, <2>2, <2>3 DEF Runners
<1> HIDE DEF t, r
<1>4. /\ task' \in [Jobs -> Tasks] /\ task'[j] = t
      /\ \A i \in Jobs : i # j => task'[i] = task[i]
      /\ run' \in [Gens -> Runners] /\ run'[g] = r
      /\ \A h \in Gens : h # g => run'[h] = run[h]
  BY <1>1, <1>2, <1>3 DEF IInv, Typed
<1>5. \A i \in Jobs : task'[i].at = task[i].at /\ task'[i].gen = task[i].gen
  BY <1>2, <1>4
<1>6. \A h \in Gens :
        /\ run'[h].in_flight = run[h].in_flight
        /\ run'[h].process = run[h].process /\ run'[h].pipe = run[h].pipe
        /\ run'[h].stopped = run[h].stopped /\ run'[h].stop_event = run[h].stop_event
        /\ run'[h].closing = run[h].closing /\ run'[h].shutdown = run[h].shutdown
        /\ run'[h].on_drained = run[h].on_drained
  BY <1>3, <1>4
<1>7. /\ loop' \in Loops /\ loop'.at = "submit" /\ loop'.gen = g
      /\ loop'.jobs = loop.jobs /\ loop'.job = j
  BY <1>0 DEF IInv, Typed, Loops, LoopSteps, SubmitList, Goto
<1>8. rows \subseteq Gens
  BY DEF IInv, Typed
<1>9. Typed'
  BY <1>1, <1>4, <1>7 DEF IInv, Typed
<1>10. CountsInFlight'
  <2>1. \A h \in Gens : InPool(h)' = InPool(h)
    BY <1>5 DEF InPool
  <2>2. \A h \in Gens : InFlight(h)' = InFlight(h)
    BY <1>1, <1>7, <2>1 DEF InFlight
  <2>3. QED
    BY <1>1, <1>3, <1>4, <1>6, <1>7, <2>1, <2>2 DEF IInv, CountsInFlight
<1>11. Generations'
  BY <1>0, <1>1, <1>2, <1>4, <1>5, <1>7 DEF IInv, Generations
<1>12. ComesOnce'
  <2>1. \A i \in Jobs : (Fresh(i)' <=> Fresh(i)) /\ (InHand(i)' => InHand(i))
    BY <1>1, <1>5, <1>7 DEF Fresh, InHand, Submitting
  <2>2. \A h \in Gens : \A i \in stopping[h].futures :
          task'[i].at # "none" => task'[i].gen = h
    BY <1>5 DEF IInv, Typed, Stoppings, ComesOnce
  <2>3. QED
    BY <1>1, <1>7, <2>1, <2>2 DEF IInv, ComesOnce
<1>13. \A h \in Gens : Calling(h)' <=> Calling(h)
  BY <1>5 DEF Calling
<1>14. StopInOrder' /\ RowHandedOn' /\ RowsRegistered'
  <2>1. StopInOrder' /\ RowsRegistered'
    BY <1>1, <1>6, <1>8, <1>13 DEF IInv, StopInOrder, RowsRegistered
  <2>2. RowHandedOn'
    <3>1. RowHandedOn /\ \A h \in Gens : stopping'[h].at = stopping[h].at
      BY <1>1 DEF IInv
    <3>2. QED
      BY <1>6, <1>13, <3>1, RowStaysHandedOn
  <2>3. QED
    BY <2>1, <2>2
<1>15. HandCovered'
  BY <1>0, <1>1, <1>6, <1>7 DEF IInv, HandCovered, Submitting, Covered
<1>16. FailsIdle'
  BY <1>7 DEF FailsIdle
<1>17. RowCoversWork'
  <2>1. ASSUME NEW i \in Jobs, task[i].at \in {"queued", "running"}
        PROVE  run'[task[i].gen].process = run[task[i].gen].process
    BY <1>6, <2>1, TaskGen
  <2>2. QED
    BY <1>1, <1>5, <2>1 DEF IInv, RowCoversWork
<1>18. Awake'
  <2>1. Alert => Alert'
    BY <1>0, <1>1, <1>5, <1>6, <1>7 DEF Alert, Ready
  <2>2. QED
    BY <1>0, <1>1, <1>6, <1>7, <2>1 DEF IInv, Awake, Submitting
<1>19. QED
  BY <1>9, <1>10, <1>11, <1>12, <1>14, <1>15, <1>16, <1>17, <1>18 DEF IInv

\* The last job of a worker whose executor was shut down ends it; an earlier one
\* only leaves.
LEMMA SubmitTooLateStep == ASSUME IInv, SubmitTooLate PROVE IInv'
<1>0. PICK g \in Gens, j \in Jobs : g = loop.gen /\ j = loop.job
  BY DEF IInv, Typed, Loops, ComesOnce, SubmitTooLate, At
<1> DEFINE left == [run[g] EXCEPT !.in_flight = @ - 1]
           drained == left.in_flight = 0 /\ left.futures = {} /\ left.on_drained
           last == [left EXCEPT !.on_drained = FALSE, !.stop_event = TRUE]
<1>1. /\ loop.at = "counted" /\ run[g].shutdown /\ run[g].closing /\ FailClaim(j)
      /\ run[g] \in Runners /\ run[g].in_flight \in Nat
      /\ UNCHANGED <<notes, missed, task, stopping, supervisor, faults>>
  BY <1>0 DEF IInv, Typed, Runners, StopInOrder, SubmitTooLate, At
<1>2. task[j].at = "none" /\ j \notin loop.jobs /\ j \in InFlight(g)
  BY <1>0, <1>1 DEF IInv, ComesOnce, Fresh, InHand, InFlight
<1>3. /\ run[g].in_flight = Cardinality(InFlight(g)) /\ run[g].in_flight # 0
      /\ Cardinality(InFlight(g) \ {j}) = run[g].in_flight - 1
  <2>1. IsFiniteSet(InFlight(g))
    BY FS_Subset DEF InFlight, InPool
  <2>2. run[g].in_flight = Cardinality(InFlight(g))
    BY DEF IInv, CountsInFlight
  <2>3. Cardinality(InFlight(g)) # 0
    BY <1>2, <2>1, FS_EmptySet
  <2>4. Cardinality(InFlight(g) \ {j}) = Cardinality(InFlight(g)) - 1
    BY <1>2, <2>1, FS_RemoveElement
  <2>5. QED
    BY <2>2, <2>3, <2>4
<1>4. /\ left \in Runners
      /\ left.in_flight = run[g].in_flight - 1 /\ left.futures = run[g].futures
      /\ left.process = run[g].process /\ left.stopped = run[g].stopped
      /\ left.stop_event = run[g].stop_event /\ left.pipe = run[g].pipe
      /\ left.closing = run[g].closing /\ left.shutdown = run[g].shutdown
      /\ left.on_drained = run[g].on_drained
  <2>1. PICK q \in Runners, n \in Nat : q = run[g] /\ n = run[g].in_flight - 1
    <3>1. run[g].in_flight - 1 \in Nat
      BY <1>1, <1>3
    <3>2. QED
      BY <1>1, <3>1
  <2>2. left = [q EXCEPT !.in_flight = n]
    BY <2>1
  <2> HIDE DEF left
  <2>3. left \in Runners
    BY <2>2 DEF Runners
  <2>4. QED
    BY <2>1, <2>2, <2>3 DEF Runners
<1>5. /\ drained => Deregister(g, last)
      /\ ~drained => rows' = rows /\ run' = [run EXCEPT ![g] = Requested(left)]
  BY <1>0 DEF SubmitTooLate
<1>6. drained = (left.in_flight = 0 /\ left.futures = {} /\ left.on_drained)
  OBVIOUS
<1> HIDE DEF left, drained
<1>7. /\ last \in Runners /\ ~last.on_drained /\ last.stop_event
      /\ last.in_flight = run[g].in_flight - 1 /\ last.futures = run[g].futures
      /\ last.process = run[g].process /\ last.stopped = run[g].stopped
      /\ last.closing = run[g].closing /\ last.shutdown = run[g].shutdown
  BY <1>4 DEF Runners
<1> HIDE DEF last
\* Either way the job is counted down and the worker told to stop.
<1>8. /\ run' \in [Gens -> Runners]
      /\ \A h \in Gens : h # g => run'[h] = run[h]
      /\ run'[g].in_flight = run[g].in_flight - 1
      /\ run'[g].futures = run[g].futures /\ run'[g].stop_event
      /\ run'[g].closing = run[g].closing /\ run'[g].shutdown = run[g].shutdown
      /\ run'[g].stopped = run[g].stopped
      /\ drained => /\ rows' = rows \ {g} /\ ~run'[g].process /\ ~run'[g].on_drained
                    /\ run'[g].in_flight = 0
      /\ ~drained => /\ rows' = rows /\ run'[g].process = run[g].process
                     /\ run'[g].on_drained = run[g].on_drained
  <2>1. CASE drained
    <3>1. /\ run' \in [Gens -> Runners] /\ run'[g] = Finished(last)
          /\ \A h \in Gens : h # g => run'[h] = run[h]
          /\ rows' = rows \ {g}
      BY <1>5, <1>7, <2>1, Deregistered
    <3>2. /\ Finished(last) \in Runners /\ ~Finished(last).process
          /\ Finished(last).stopped = last.stopped
          /\ Finished(last).stop_event = last.stop_event
          /\ Finished(last).closing = last.closing
          /\ Finished(last).shutdown = last.shutdown
          /\ Finished(last).on_drained = last.on_drained
          /\ Finished(last).in_flight = last.in_flight
          /\ Finished(last).futures = last.futures
      BY <1>7, FinishedRunner
    <3>3. QED
      BY <1>4, <1>6, <1>7, <2>1, <3>1, <3>2
  <2>2. CASE ~drained
    <3>1. /\ Requested(left) \in Runners /\ PoolKept(Requested(left), left)
          /\ Requested(left).stopped = left.stopped /\ Requested(left).stop_event
      BY <1>4, RequestedRunner
    <3>2. /\ run' \in [Gens -> Runners] /\ run'[g] = Requested(left)
          /\ \A h \in Gens : h # g => run'[h] = run[h]
      BY <1>5, <2>2, <3>1 DEF IInv, Typed
    <3>3. QED
      BY <1>4, <1>5, <2>2, <3>1, <3>2 DEF PoolKept
  <2>3. QED
    BY <2>1, <2>2
<1>9. /\ loop' \in Loops /\ loop'.at = "submit" /\ loop'.gen = g
      /\ loop'.jobs = loop.jobs /\ loop'.job = j
  BY <1>0 DEF IInv, Typed, Loops, LoopSteps, SubmitTooLate, Goto
<1>10. /\ status' \in [Jobs -> {"new", "ready", "claimed", "done", "failed"}]
       /\ owner' \in [Jobs -> Gens \cup {0}]
       /\ \A i \in Jobs :
            \/ status'[i] = status[i] /\ owner'[i] = owner[i]
            \/ status[i] = "claimed" /\ status'[i] = "failed" /\ i = j
  BY <1>1, FailedClaim
<1>11. rows \subseteq Gens /\ rows' \subseteq rows
  BY <1>8 DEF IInv, Typed
<1>12. Typed'
  BY <1>1, <1>8, <1>9, <1>10, <1>11 DEF IInv, Typed
<1>13. \A h \in Gens : InPool(h)' = InPool(h)
  BY <1>1 DEF InPool
<1>14. CountsInFlight'
  <2>1. InFlight(g)' = InFlight(g) \ {j}
    BY <1>0, <1>2, <1>9, <1>13 DEF InFlight, InPool
  <2>2. ASSUME NEW h \in Gens, h # g PROVE InFlight(h)' = InFlight(h)
    BY <1>0, <1>9, <1>13, <2>2 DEF InFlight
  <2>3. \A h \in Gens : run'[h].in_flight = Cardinality(InFlight(h)')
    BY <1>3, <1>8, <2>1, <2>2 DEF IInv, CountsInFlight
  <2>4. \A h \in Gens : run'[h].futures = run[h].futures
    BY <1>8
  <2>5. QED
    BY <1>9, <1>13, <2>3, <2>4 DEF IInv, CountsInFlight
<1>15. run'[g].in_flight = 0 => InPool(g) = {} /\ run[g].futures = {}
  <2>1. IsFiniteSet(InFlight(g)')
    BY FS_Subset DEF InFlight, InPool
  <2>2. run'[g].in_flight = 0 => InFlight(g)' = {}
    BY <1>14, <2>1, FS_EmptySet DEF CountsInFlight
  <2>3. InPool(g) \subseteq InFlight(g)'
    BY <1>13 DEF InFlight
  <2>4. run[g].futures \subseteq InPool(g)
    BY DEF IInv, CountsInFlight
  <2>5. QED
    BY <2>2, <2>3, <2>4
<1>16. Generations'
  BY <1>0, <1>1, <1>9 DEF IInv, Generations
<1>17. ComesOnce'
  <2>1. \A i \in Jobs : (Fresh(i)' <=> Fresh(i)) /\ (InHand(i)' => InHand(i))
    BY <1>1, <1>9 DEF Fresh, InHand, Submitting
  <2>2. \A i \in Jobs : status'[i] \in {"new", "ready"} => status[i] \in {"new", "ready"}
    BY <1>10
  <2>3. QED
    BY <1>1, <1>9, <2>1, <2>2 DEF IInv, ComesOnce
<1>18. ~Calling(g) /\ \A h \in Gens : Calling(h)' <=> Calling(h)
  BY <1>1, <1>3 DEF IInv, StopInOrder, Calling
<1>19. StopInOrder'
  BY <1>1, <1>8, <1>18 DEF IInv, StopInOrder
<1>20. RowHandedOn'
  <2>1. run[g].on_drained /\ ~drained => run'[g].in_flight # 0
    BY <1>4, <1>6, <1>8, <1>15
  <2>2. ASSUME NEW h \in Gens
        PROVE  /\ stopping[h].at = "waiting" =>
                    run'[h].on_drained \/ Calling(h) \/ ~run'[h].process
               /\ stopping[h].at = "timed out" =>
                    \/ run'[h].on_drained /\ run'[h].in_flight # 0
                    \/ Calling(h)
                    \/ ~run'[h].process
               /\ stopping[h].at = "drained" => ~run'[h].process
    <3>1. CASE h = g
      BY <1>8, <2>1, <3>1 DEF IInv, RowHandedOn
    <3>2. CASE h # g
      BY <1>8, <3>2 DEF IInv, RowHandedOn
    <3>3. QED
      BY <3>1, <3>2
  <2>3. QED
    BY <1>1, <1>18, <2>2 DEF RowHandedOn
<1>21. RowsRegistered'
  BY <1>8, <1>11 DEF IInv, RowsRegistered
<1>22. HandCovered' /\ FailsIdle' /\ Awake'
  BY <1>1, <1>8, <1>9 DEF HandCovered, FailsIdle, Awake, Alert, Submitting
<1>23. RowCoversWork'
  <2>1. ASSUME NEW i \in Jobs, task[i].at \in {"queued", "running"}
        PROVE  /\ status'[i] = status[i] /\ owner'[i] = owner[i]
               /\ task[i].gen \in rows' <=> task[i].gen \in rows
               /\ run'[task[i].gen].process = run[task[i].gen].process
    <3>1. status'[i] = status[i] /\ owner'[i] = owner[i] /\ task[i].gen \in Gens
      BY <1>2, <1>10, <2>1, TaskGen
    <3>2. CASE task[i].gen = g
      <4>1. i \in InPool(g)
        BY <2>1, <3>2 DEF InPool
      <4>2. ~drained
        BY <1>8, <1>15, <4>1
      <4>3. QED
        BY <1>8, <3>1, <3>2, <4>2
    <3>3. CASE task[i].gen # g
      BY <1>8, <3>1, <3>3
    <3>4. QED
      BY <3>2, <3>3
  <2>2. QED
    BY <1>1, <2>1 DEF IInv, RowCoversWork
<1>24. QED
  BY <1>12, <1>14, <1>16, <1>17, <1>19, <1>20, <1>21, <1>22, <1>23 DEF IInv


-----------------------------------------------------------------------------
(* Claims.                                                                 *)

LEMMA MinOfTwo ==
  ASSUME NEW a \in Nat, NEW b \in Nat
  PROVE  Min({a, b}) = IF a <= b THEN a ELSE b
BY DEF Min

\* Ready jobs are claimed, and the poll loop turns to its next step.
LEMMA ClaimsCreated ==
  ASSUME IInv, NEW batch \in SUBSET Ready, CreateClaims(batch),
         UNCHANGED <<rows, notes, missed, run, task, stopping, supervisor>>,
         loop.at = "claim", batch # {} => loop.gen \in rows,
         loop' \in Loops, loop'.gen = loop.gen,
         loop'.at \in {"submit", "crashed"}, loop'.at = "submit" => loop'.jobs = batch,
         Awake'
  PROVE  IInv'
<1>1. \A i \in Jobs :
        /\ i \in batch => /\ status[i] = "ready"
                          /\ status'[i] = "claimed" /\ owner'[i] = loop.gen
        /\ i \notin batch => status'[i] = status[i] /\ owner'[i] = owner[i]
  BY DEF CreateClaims, Ready
<1>2. /\ status' \in [Jobs -> {"new", "ready", "claimed", "done", "failed"}]
      /\ owner' \in [Jobs -> Gens \cup {0}] /\ loop.gen \in Gens
      /\ batch \subseteq Jobs
  BY DEF IInv, Typed, Loops, CreateClaims, Ready
<1>3. \A i \in batch : Fresh(i)
  BY <1>1, <1>2 DEF IInv, ComesOnce
<1>4. Typed' /\ Generations' /\ RowsRegistered'
  BY <1>2 DEF IInv, Typed, Generations, RowsRegistered
<1>5. CountsInFlight'
  BY CountsKept DEF IInv
<1>6. ComesOnce'
  <2>1. \A i \in Jobs : Fresh(i)' <=> Fresh(i)
    BY DEF Fresh
  <2>2. \A i \in Jobs : InHand(i)' => i \in batch
    BY DEF InHand, Submitting
  <2>3. \A i \in Jobs : status'[i] \in {"new", "ready"} =>
          status[i] \in {"new", "ready"} /\ i \notin batch
    BY <1>1
  <2>4. QED
    BY <1>3, <2>1, <2>2, <2>3 DEF IInv, ComesOnce
<1>7. StopInOrder' /\ RowHandedOn'
  BY DEF IInv, StopInOrder, RowHandedOn, Calling
<1>8. HandCovered'
  BY <1>1, <1>2 DEF HandCovered, Submitting, Covered
<1>9. FailsIdle'
  BY DEF FailsIdle
<1>10. RowCoversWork'
  <2>1. ASSUME NEW i \in Jobs, task[i].at \in {"queued", "running"}
        PROVE  status'[i] = status[i] /\ owner'[i] = owner[i]
    BY <1>1, <1>3, <2>1 DEF Fresh
  <2>2. QED
    BY <2>1 DEF IInv, RowCoversWork
<1>11. QED
  BY <1>4, <1>5, <1>6, <1>7, <1>8, <1>9, <1>10 DEF IInv

\* A claim takes every ready job, or as many as fill the pool.
LEMMA ClaimStep == ASSUME IInv, Claim PROVE IInv'
<1>0. PICK g \in Gens : g = loop.gen
  BY DEF IInv, Typed, Loops
<1>1. PICK batch \in Batches(g) :
        /\ CreateClaims(batch)
        /\ loop' = [loop EXCEPT !.at = "submit", !.jobs = batch]
  BY <1>0 DEF Claim
<1>2. /\ loop.at = "claim" /\ g \in rows
      /\ UNCHANGED <<rows, notes, missed, run, task, stopping, supervisor, faults>>
  BY <1>0 DEF Claim, At
<1>3. /\ batch \in SUBSET Ready
      /\ Cardinality(batch) = Min({ClaimLimit(g), Cardinality(Ready)})
  BY <1>1 DEF Batches, kSubset
<1>4. batch \in SUBSET Jobs
  BY <1>3 DEF Ready
<1>5. /\ loop' \in Loops /\ loop'.at = "submit" /\ loop'.gen = g /\ loop'.jobs = batch
  BY <1>0, <1>1, <1>4 DEF IInv, Typed, Loops, LoopSteps
<1>6. Awake'
  <2>1. run[g].in_flight \in Nat /\ run[g].in_flight < Threads
    BY <1>0, <1>2 DEF IInv, Typed, Runners, Awake
  <2>2. Threads * Prefetch \in Nat /\ Threads * Prefetch >= Threads
    <3>1. \A a, b \in Nat \ {0} : a * b \in Nat /\ a * b >= a
      OBVIOUS
    <3>2. QED
      BY <3>1
  <2>3. ClaimLimit(g) \in Nat /\ run[g].in_flight + ClaimLimit(g) >= Threads
    BY <2>1, <2>2 DEF ClaimLimit
  <2>4. IsFiniteSet(Ready) /\ Cardinality(Ready) \in Nat
    BY FS_Subset, FS_CardinalityType DEF Ready
  <2>5. CASE ClaimLimit(g) <= Cardinality(Ready)
    <3>1. Cardinality(batch) = ClaimLimit(g)
      BY <1>3, <2>3, <2>4, <2>5, MinOfTwo
    <3>2. QED
      BY <1>2, <1>5, <2>3, <3>1 DEF Awake, Submitting
  <2>6. CASE ~(ClaimLimit(g) <= Cardinality(Ready))
    <3>1. Cardinality(batch) = Cardinality(Ready)
      BY <1>3, <2>3, <2>4, <2>6, MinOfTwo
    <3>2. batch = Ready
      BY <1>3, <2>4, <3>1, FS_Subset
    <3>3. Ready' = {}
      BY <1>1, <3>2 DEF CreateClaims, Ready
    <3>4. Alert'
      BY <3>3 DEF Alert
    <3>5. QED
      BY <1>5, <3>4 DEF Awake, Submitting
  <2>7. QED
    BY <2>5, <2>6
<1>7. QED
  BY <1>0, <1>1, <1>2, <1>3, <1>5, <1>6, ClaimsCreated

LEMMA ClaimFailsStep == ASSUME IInv, ClaimFails PROVE IInv'
<1>0. PICK g \in Gens : g = loop.gen
  BY DEF IInv, Typed, Loops
<1>1. PICK batch \in {{}} \cup (IF g \in rows THEN Batches(g) ELSE {}) :
        CreateClaims(batch)
  BY <1>0 DEF ClaimFails
<1>2. /\ loop.at = "claim" /\ Goto("crashed")
      /\ UNCHANGED <<rows, notes, missed, run, task, stopping, supervisor>>
  BY DEF ClaimFails, At
<1>3. batch \in SUBSET Ready /\ (batch # {} => g \in rows)
  BY <1>1 DEF Batches, kSubset
<1>4. loop' \in Loops /\ loop'.at = "crashed" /\ loop'.gen = g
  BY <1>0, <1>2 DEF IInv, Typed, Loops, LoopSteps, Goto
<1>5. Awake'
  BY <1>4 DEF Awake, Submitting
<1>6. QED
  BY <1>0, <1>1, <1>2, <1>3, <1>4, <1>5, ClaimsCreated

-----------------------------------------------------------------------------
(* Replacement of a worker.                                                *)

LEMMA CrashedFailStep == ASSUME IInv, CrashedFail PROVE IInv'
<1>0. PICK g \in Gens : g = loop.gen
  BY DEF IInv, Typed, Loops
<1> DEFINE all == \A j \in loop.jobs : status[j] = "claimed"
<1>1. /\ loop.at = "failing" /\ loop.jobs \subseteq Jobs
      /\ UNCHANGED <<rows, notes, missed, run, task, stopping, supervisor, faults>>
      /\ run[g].in_flight = 0 /\ InFlight(g) = {}
      /\ \A j \in loop.jobs : status[j] = "claimed" => owner[j] = g
  <2>1. /\ loop.at = "failing" /\ loop.jobs \subseteq Jobs
        /\ UNCHANGED <<rows, notes, missed, run, task, stopping, supervisor, faults>>
    BY DEF IInv, Typed, Loops, CrashedFail, At
  <2>2. /\ run[g].in_flight = 0
        /\ \A j \in loop.jobs : status[j] = "claimed" => owner[j] = g
    BY <1>0, <2>1 DEF IInv, FailsIdle
  <2>3. QED
    BY <2>1, <2>2, NoneInFlight
<1>2. /\ status' \in [Jobs -> {"new", "ready", "claimed", "done", "failed"}]
      /\ owner' \in [Jobs -> Gens \cup {0}]
      /\ \A i \in Jobs :
           \/ status'[i] = status[i] /\ owner'[i] = owner[i]
           \/ /\ status[i] = "claimed" /\ owner[i] = g
              /\ status'[i] = "failed"
  <2>1. CASE all
    BY <1>1, <2>1 DEF IInv, Typed, CrashedFail
  <2>2. CASE ~all
    BY <2>2 DEF IInv, Typed, CrashedFail
  <2>3. QED
    BY <2>1, <2>2
<1>3. loop' \in Loops /\ loop'.gen = g /\ loop'.at \in {"stop", "ended"}
  BY <1>0 DEF IInv, Typed, Loops, LoopSteps, CrashedFail
<1>4. Typed' /\ RowsRegistered'
  BY <1>1, <1>2, <1>3 DEF IInv, Typed, RowsRegistered
<1>5. Generations'
  BY <1>0, <1>1, <1>3 DEF IInv, Generations
<1>6. CountsInFlight'
  BY <1>1, <1>3, CountsKept DEF IInv
<1>7. ComesOnce'
  <2>1. \A i \in Jobs : (Fresh(i)' <=> Fresh(i)) /\ ~InHand(i)'
    BY <1>1, <1>3 DEF Fresh, InHand, Submitting
  <2>2. \A i \in Jobs : status'[i] \in {"new", "ready"} => status[i] \in {"new", "ready"}
    BY <1>2
  <2>3. QED
    BY <1>1, <1>3, <2>1, <2>2 DEF IInv, ComesOnce
<1>8. StopInOrder' /\ RowHandedOn'
  BY <1>1 DEF IInv, StopInOrder, RowHandedOn, Calling
<1>9. HandCovered' /\ FailsIdle' /\ Awake'
  BY <1>3 DEF HandCovered, FailsIdle, Awake, Submitting
<1>10. RowCoversWork'
  <2>1. ASSUME NEW i \in Jobs, task[i].at \in {"queued", "running"}
        PROVE  task[i].gen # g
    BY <1>1, <2>1 DEF InFlight, InPool
  <2>2. QED
    BY <1>1, <1>2, <2>1 DEF IInv, RowCoversWork
<1>11. QED
  BY <1>4, <1>5, <1>6, <1>7, <1>8, <1>9, <1>10 DEF IInv

LEMMA RestartStep == ASSUME IInv, Restart PROVE IInv'
<1>0. PICK g \in Gens : g = loop.gen + 1
  BY DEF Restart
<1> DEFINE r == [run[g] EXCEPT !.process = TRUE]
<1>1. /\ loop.at = "restart" /\ rows = {} /\ rows' = {g} /\ run[g] \in Runners
      /\ run' = [run EXCEPT ![g] = r]
      /\ UNCHANGED <<status, owner, notes, missed, task, stopping, supervisor, faults>>
  BY <1>0 DEF IInv, Typed, Restart, At
<1>2. /\ r \in Runners /\ r.process
      /\ r.in_flight = run[g].in_flight /\ r.futures = run[g].futures
      /\ r.stopped = run[g].stopped
      /\ r.stop_event = run[g].stop_event
      /\ r.closing = run[g].closing /\ r.shutdown = run[g].shutdown
      /\ r.on_drained = run[g].on_drained
  BY <1>1 DEF Runners
<1> HIDE DEF r
<1>3. /\ run' \in [Gens -> Runners] /\ run'[g] = r
      /\ \A h \in Gens : h # g => run'[h] = run[h]
  BY <1>1, <1>2 DEF IInv, Typed
<1>4. \A h \in Gens :
        /\ run'[h].in_flight = run[h].in_flight /\ run'[h].futures = run[h].futures
        /\ run'[h].stopped = run[h].stopped /\ run'[h].stop_event = run[h].stop_event
        /\ run'[h].closing = run[h].closing /\ run'[h].shutdown = run[h].shutdown
        /\ run'[h].on_drained = run[h].on_drained
  BY <1>2, <1>3
<1>5. loop' \in Loops /\ loop'.gen = g /\ loop'.at = "replace"
  BY <1>0 DEF IInv, Typed, Loops, LoopSteps, Restart
<1>6. loop.gen \in Nat /\ listed \in Nat /\ Gens \subseteq Nat
  BY DEF IInv, Typed, Loops, Gens
<1>7. Typed'
  BY <1>1, <1>3, <1>5 DEF IInv, Typed
<1>8. CountsInFlight'
  BY <1>1, <1>4, <1>5, CountsKept DEF IInv
<1>9. Generations'
  <2>1. \A i \in Jobs : task[i].at # "none" => task[i].gen \in 1 .. g
    BY <1>0, <1>6 DEF IInv, Generations
  <2>2. listed <= g /\ \A h \in Gens : h > g => stopping[h].at = "no"
    BY <1>0, <1>6 DEF IInv, Generations
  <2>3. QED
    BY <1>1, <1>5, <2>1, <2>2 DEF IInv, Generations
<1>10. ComesOnce'
  <2>1. \A i \in Jobs : (Fresh(i)' <=> Fresh(i)) /\ ~InHand(i)'
    BY <1>1, <1>5 DEF Fresh, InHand, Submitting
  <2>2. QED
    BY <1>1, <1>5, <2>1 DEF IInv, ComesOnce
<1>11. \A h \in Gens : Calling(h)' <=> Calling(h)
  BY <1>1 DEF Calling
<1>12. StopInOrder' /\ RowsRegistered'
  BY <1>1, <1>2, <1>3, <1>4, <1>11 DEF IInv, StopInOrder, RowsRegistered
<1>13. RowHandedOn'
  <2>1. stopping[g].at = "no"
    BY <1>0, <1>6 DEF IInv, Generations
  <2>2. QED
    BY <1>1, <1>3, <1>11, <2>1 DEF IInv, RowHandedOn
<1>14. HandCovered' /\ FailsIdle' /\ Awake'
  BY <1>5 DEF HandCovered, FailsIdle, Awake, Submitting
<1>15. RowCoversWork'
  <2>1. ASSUME NEW i \in Jobs, task[i].at \in {"queued", "running"}
        PROVE  task[i].gen # g /\ run'[task[i].gen] = run[task[i].gen]
    <3>1. task[i].gen \in Gens /\ task[i].gen # g
      BY <1>0, <1>6, <2>1, TaskGen DEF IInv, Generations
    <3>2. QED
      BY <1>3, <3>1
  <2>2. QED
    BY <1>1, <2>1 DEF IInv, RowCoversWork
<1>16. QED
  BY <1>7, <1>8, <1>9, <1>10, <1>12, <1>13, <1>14, <1>15 DEF IInv

-----------------------------------------------------------------------------
LEMMA InitIInv == Init => IInv
<1> SUFFICES ASSUME Init PROVE IInv
  OBVIOUS
<1> USE DEF Init
<1>1. 1 \in Gens
  BY DEF Gens
<1>2. Typed
  <2>1. NewRunner \in Runners
    BY DEF NewRunner, Runners
  <2>2. \A g \in Gens : [NewRunner EXCEPT !.process = g = 1] \in Runners
    BY <2>1 DEF Runners
  <2>3. NoTask \in Tasks /\ loop \in Loops
    BY <1>1 DEF NoTask, Tasks, TaskSteps, Loops, LoopSteps
  <2>4. [at |-> "no", futures |-> {}] \in Stoppings
    BY DEF Stoppings, StopSteps
  <2>5. QED
    BY <1>1, <2>2, <2>3, <2>4 DEF Typed
<1>3. \A g \in Gens :
        /\ run[g].process = (g = 1) /\ ~run[g].stopped /\ ~run[g].stop_event
        /\ ~run[g].shutdown /\ ~run[g].on_drained /\ run[g].in_flight = 0
        /\ run[g].futures = {}
  BY DEF NewRunner
<1>4. \A j \in Jobs : task[j].at = "none" /\ ~task[j].inline
  BY DEF NoTask
<1>5. CountsInFlight
  <2>1. \A g \in Gens : InFlight(g) = {}
    BY <1>4 DEF InFlight, InPool
  <2>2. QED
    BY <1>3, <2>1, FS_EmptySet DEF CountsInFlight
<1>6. Generations
  BY <1>4 DEF Generations
<1>7. ComesOnce
  BY <1>4 DEF ComesOnce, Fresh, InHand, Submitting
<1>8. StopInOrder /\ RowHandedOn /\ RowsRegistered
  BY <1>1, <1>3, <1>4 DEF StopInOrder, RowHandedOn, RowsRegistered, Calling
<1>9. HandCovered /\ FailsIdle /\ RowCoversWork /\ Awake
  BY <1>4 DEF HandCovered, FailsIdle, RowCoversWork, Awake, Submitting
<1>10. QED
  BY <1>2, <1>5, <1>6, <1>7, <1>8, <1>9 DEF IInv

LEMMA NextIInv == IInv /\ [Next]_vars => IInv'
<1> SUFFICES ASSUME IInv, [Next]_vars PROVE IInv'
  OBVIOUS
<1>1. CASE \E j \in Jobs : Enqueue(j) \/ Deliver(j) \/ PoolThread(j) \/ EndTask(j)
  BY <1>1, EnqueueStep, DeliverStep, EndTaskStep, StartTaskStep, CompleteStep,
     FinishByCallbackStep, WakeLoopStep, HandleFutureStep DEF PoolThread
<1>2. CASE \E g \in Gens : StopWorker(g) \/ Vanished(g)
  BY <1>2, ShutdownCloseStep, ShutdownSnapshotStep, ShutdownDoneStep,
     ShutdownTimeoutStep, ShutdownJoinStep, RequestActions DEF StopWorker
<1>3. CASE Poll
  BY <1>3, LoopGoesOnActions, PollCapacityStep, ClaimStep, SubmitRefusedStep,
     SubmitCountStep, SubmitQueueStep, SubmitTooLateStep, SubmitListStep,
     SubmittedStep, SleepStep, WakeUpStep, CrashedReadStep, CrashedFailStep,
     LoopStopStep, RestartStep DEF Poll
<1>4. CASE RecoverOrphans
  BY <1>4, RecoverOrphansStep
<1>5. CASE RequestStop
  BY <1>5, HostOnly DEF RequestStop
<1>6. CASE StopHost
  <2>1. stop_event \in BOOLEAN
    BY DEF IInv, Typed
  <2>2. CASE StopJoin \/ StopSupervisor
    BY <2>1, <2>2, HostOnly DEF StopJoin, StopSupervisor
  <2>3. QED
    BY <1>6, <2>2, RequestActions, StopRunnerStep DEF StopHost
<1>7. CASE Faults
  BY <1>7, ClaimFailsStep, TaskRaisesStep, NotifyLostStep, PrunedStep DEF Faults
<1>8. CASE UNCHANGED vars
  BY <1>8, HostOnly DEF vars, IInv, Typed
<1>9. QED
  BY <1>1, <1>2, <1>3, <1>4, <1>5, <1>6, <1>7, <1>8 DEF Next

LEMMA InductiveInvariant == Spec => []IInv
BY InitIInv, NextIInv, PTL DEF Spec

-----------------------------------------------------------------------------
(***************************************************************************)
(* Whatever crashes, stops or replaces a worker, a job that one of its     *)
(* threads executes stays claimed under the process row of that worker, so *)
(* that no recovery takes it away, unless the worker was pruned alive.     *)
(***************************************************************************)
THEOREM RowCoversWorkAlways == Spec => []RowCoversWork
<1>1. IInv => RowCoversWork
  BY DEF IInv
<1>2. QED
  BY <1>1, InductiveInvariant, PTL

(***************************************************************************)
(* The callback of WorkerPool.shutdown and the stop of the worker do not   *)
(* leave the process row to each other: once the stop has come back and    *)
(* nothing is in flight or about to call, the row is gone.                 *)
(***************************************************************************)
THEOREM DeregisteredWhenDrainedAlways == Spec => []DeregisteredWhenDrained
<1>1. IInv => DeregisteredWhenDrained
  BY DEF IInv, RowHandedOn, RowsRegistered, Calling, DeregisteredWhenDrained
<1>2. QED
  BY <1>1, InductiveInvariant, PTL

(***************************************************************************)
(* A worker with an idle thread does not sleep beside a ready job that it  *)
(* was told of, however the poll, the notifications and the completions of *)
(* its jobs interleave.                                                    *)
(***************************************************************************)
THEOREM NoLostWakeupAlways == Spec => []NoLostWakeup
<1>1. IInv => NoLostWakeup
  <2> SUFFICES ASSUME IInv PROVE NoLostWakeup
    OBVIOUS
  <2>1. loop.gen \in Gens /\ run[loop.gen].in_flight \in Nat
    BY DEF IInv, Typed, Loops, Runners
  <2>2. Idle(loop.gen) > 0 => ~(run[loop.gen].in_flight >= Threads)
    BY <2>1 DEF Idle
  <2>3. QED
    BY <2>2 DEF IInv, Awake, Alert, NoLostWakeup
<1>2. QED
  BY <1>1, InductiveInvariant, PTL

=============================================================================
