---------------------------- MODULE ForkRuntime ----------------------------
(***************************************************************************)
(* Supervisors that fork a worker each, the process table they share, and  *)
(* what becomes of claimed jobs when one of them dies, stalls or stops.    *)
(* Runners register a row, touch it with heartbeats and delete it when     *)
(* they leave.  A supervisor reaps and replaces its worker, fails the      *)
(* claims that lost their process, and prunes rows, of any supervisor,     *)
(* whose heartbeat expired.                                                *)
(*                                                                         *)
(* Recovery reads the claims of a process in one statement and fails them  *)
(* in another, and it finds them again by job.                             *)
(***************************************************************************)
EXTENDS Naturals, FiniteSets, SequencesExt

CONSTANTS
  Jobs,
  Sups,          \* incarnations of supervisors
  Wrks,          \* incarnations of workers
  NoProc,
  Pid,           \* pid of each supervisor, which makes its name
  Capacity,      \* threads * prefetch_multiplier
  Budgets        \* bounds: how many supervisors are kept running, and the
                 \* faults a behaviour with that many may have

Procs == Sups \cup Wrks

ASSUME ForkRuntimeAssumption ==
  /\ NoProc \notin Procs /\ Sups \cap Wrks = {}
  /\ Sups \subseteq DOMAIN Pid
  /\ Capacity \in Nat \ {0}
  /\ Budgets \subseteq [supervisors : Nat \ {0}, faults : Nat]

VARIABLES
  life,        \* of each incarnation
  rows,        \* registered processes
  silent,      \* those that send no heartbeats, the oldest heartbeat first
  link,        \* supervisor column of a registered worker
  parent,      \* supervisor that forked the worker and has not reaped it
  stopReq,     \* _stop_event
  running,     \* jobs in the pool of each worker
  cleanup,     \* jobs whose threads found no claim to settle
  job, owner,  \* state of each job, and process column of its claim
  recovery,    \* recovery each supervisor is in the middle of
  budget       \* what is left of the budget

vars == <<life, rows, silent, link, parent, stopReq, running, cleanup, job,
          owner, recovery, budget>>

Idle == [op |-> "idle", procs |-> {}, jobs |-> {}]

-----------------------------------------------------------------------------
(* The process table. *)

\* Rows a prune selected FOR UPDATE.
Locked(p) ==
  \E s \in Sups : recovery[s].op = "prune" /\ p \in recovery[s].procs

ClaimsOf(p) == {j \in Jobs : owner[j] = p}

\* Mutant of Orphans: claims without a process are nobody's business.
OrphansLeft == {}

\* Claims whose process column is null.
Orphans == {j \in Jobs : job[j] = "claimed" /\ owner[j] = NoProc}

\* The rows of P that are pruned before x.
Earlier(P, x) == {p \in P : \E m, n \in DOMAIN silent :
                              silent[m] = p /\ silent[n] = x /\ m < n}

\* Rows are deleted one by one, the oldest first.  A worker whose supervisor
\* goes is left with no supervisor, and two rows of one name may not be: the
\* workers of all supervisors have the same name.
NameClash(P) ==
  \E x \in P \cap Sups, c, d \in rows \cap Wrks :
    /\ c # d
    /\ {c, d} \cap Earlier(P, x) = {}
    /\ link[c] = x
    /\ link[d] \in {NoProc} \cup Earlier(P, x)

\* The rows of P go, the columns that refer to them become null, and the
\* jobs of J are failed.
DeleteRows(P, J) ==
  /\ rows' = rows \ P
  /\ silent' = SelectSeq(silent, LAMBDA p : p \notin P)
  /\ link' = [w \in Wrks |-> IF w \in P \/ link[w] \in P THEN NoProc
                             ELSE link[w]]
  /\ owner' = [j \in Jobs |-> IF j \in J \/ owner[j] \in P THEN NoProc
                              ELSE owner[j]]
  /\ job' = [j \in Jobs |-> IF j \in J THEN "failed" ELSE job[j]]

\* _fail_claimed_jobs
Fail(J) ==
  /\ job' = [j \in Jobs |-> IF j \in J THEN "failed" ELSE job[j]]
  /\ owner' = [j \in Jobs |-> IF j \in J THEN NoProc ELSE owner[j]]

AllClaimed(J) == \A j \in J : job[j] = "claimed"

Die(p) == life' = [life EXCEPT ![p] = "dead"]

\* The threads of the processes P end with them.
EndThreads(P) ==
  /\ running' = [w \in Wrks |-> IF w \in P THEN {} ELSE running[w]]
  /\ cleanup' = [w \in Wrks |-> IF w \in P THEN {} ELSE cleanup[w]]

\* The row of p stays, and nobody touches it any more.
Silence(p) ==
  silent' = IF p \in rows \ Range(silent) THEN Append(silent, p) ELSE silent

-----------------------------------------------------------------------------
(* Heartbeats. *)

\* A process is suspended or cut off from the database.
Stall(p) ==
  /\ budget.faults > 0
  /\ life[p] \in {"running", "stopping"}
  /\ p \in rows \ Range(silent)
  /\ Silence(p)
  /\ budget' = [budget EXCEPT !.faults = @ - 1]
  /\ UNCHANGED <<life, rows, link, parent, stopReq, running, cleanup, job,
                 owner, recovery>>

\* Mutant of Beat: a missing row is not noticed.
BeatBlindly(p) ==
  /\ life[p] \in {"running", "stopping"}
  /\ ~Locked(p)
  /\ silent' = SelectSeq(silent, LAMBDA q : q # p)
  /\ UNCHANGED <<life, rows, link, parent, stopReq, running, cleanup, job,
                 owner, recovery, budget>>

\* _touch_process_row after a stall; a runner that finds its row gone, now or
\* in should_continue, stops.
Beat(p) ==
  /\ life[p] \in {"running", "stopping"}
  /\ ~Locked(p)
  /\ IF p \in rows
     THEN /\ silent' = SelectSeq(silent, LAMBDA q : q # p)
          /\ UNCHANGED stopReq
     ELSE stopReq' = stopReq \cup {p} /\ UNCHANGED silent
  /\ UNCHANGED <<life, rows, link, parent, running, cleanup, job, owner,
                 recovery, budget>>

-----------------------------------------------------------------------------
(* Workers. *)

\* The forked worker registers under the id of its supervisor.  The row needs
\* the row of the supervisor, and no other worker of it.
Boot(w) ==
  /\ life[w] = "booting"
  /\ IF parent[w] \in rows /\ \A v \in rows \cap Wrks : link[v] # parent[w]
     THEN /\ life' = [life EXCEPT ![w] = "running"]
          /\ rows' = rows \cup {w}
          /\ link' = [link EXCEPT ![w] = parent[w]]
     ELSE Die(w) /\ UNCHANGED <<rows, link>>
  /\ UNCHANGED <<silent, parent, stopReq, running, cleanup, job, owner,
                 recovery, budget>>

\* Mutant of MayClaim: a claim does not wait for the prune of its process.
MayClaimUnlocked(w, J) ==
  /\ life[w] = "running" /\ w \notin stopReq
  /\ w \in rows
  /\ J # {} /\ \A j \in J : job[j] = "ready"
  /\ Cardinality(running[w] \cup J) <= Capacity

\* _claim_limit: what the pool has room for, prefetching included.
MayClaim(w, J) ==
  /\ life[w] = "running" /\ w \notin stopReq
  /\ w \in rows /\ ~Locked(w)
  /\ J # {} /\ \A j \in J : job[j] = "ready"
  /\ Cardinality(running[w] \cup J) <= Capacity

\* claim_ready_jobs
CreateClaims(w, J) ==
  /\ job' = [j \in Jobs |-> IF j \in J THEN "claimed" ELSE job[j]]
  /\ owner' = [j \in Jobs |-> IF j \in J THEN w ELSE owner[j]]

\* WorkerPool.submit
Submit(w, J) == running' = [running EXCEPT ![w] = @ \cup J]

\* poll_once: jobs are claimed for the worker's row and handed to the pool.
Claim(w, J) ==
  /\ MayClaim(w, J)
  /\ CreateClaims(w, J)
  /\ Submit(w, J)
  /\ UNCHANGED <<life, rows, silent, link, parent, stopReq, cleanup, recovery,
                 budget>>

\* Mutant of LoseAnswer: the poll loop goes on after the error.
LoseAnswerUnnoticed(w, J) ==
  /\ budget.faults > 0
  /\ MayClaim(w, J)
  /\ CreateClaims(w, J)
  /\ budget' = [budget EXCEPT !.faults = @ - 1]
  /\ UNCHANGED <<life, rows, silent, link, parent, stopReq, running, cleanup,
                 recovery>>

\* The claim commits but its answer is lost: poll_once raises, and the loop
\* ends with jobs claimed that no thread will run.
LoseAnswer(w, J) ==
  /\ budget.faults > 0
  /\ MayClaim(w, J)
  /\ CreateClaims(w, J)
  /\ life' = [life EXCEPT ![w] = "stopping"]
  /\ budget' = [budget EXCEPT !.faults = @ - 1]
  /\ UNCHANGED <<rows, silent, link, parent, stopReq, running, cleanup,
                 recovery>>

\* The row of the worker is gone when it claims: the claim violates the
\* foreign key, poll_once raises and the loop ends.
ClaimRefused(w) ==
  /\ life[w] = "running" /\ w \notin stopReq
  /\ w \notin rows
  /\ \E j \in Jobs : job[j] = "ready"
  /\ life' = [life EXCEPT ![w] = "stopping"]
  /\ UNCHANGED <<rows, silent, link, parent, stopReq, running, cleanup, job,
                 owner, recovery, budget>>

\* A task ends and its job is completed or failed.  The claim is found by the
\* job; if there is none, the error ends the thread.
EndTask(w, j, outcome) ==
  /\ life[w] \in {"running", "stopping"}
  /\ j \in running[w]
  /\ running' = [running EXCEPT ![w] = @ \ {j}]
  /\ IF job[j] = "claimed"
     THEN /\ job' = [job EXCEPT ![j] = outcome]
          /\ owner' = [owner EXCEPT ![j] = NoProc]
          /\ UNCHANGED cleanup
     ELSE /\ cleanup' = [cleanup EXCEPT ![w] = @ \cup {j}]
          /\ UNCHANGED <<job, owner>>
  /\ UNCHANGED <<life, rows, silent, link, parent, stopReq, recovery, budget>>

\* _handle_future: the job is looked for once more, to fail the claim it may
\* have by now, and the worker stops.
CleanUp(w, j) ==
  /\ life[w] \in {"running", "stopping"}
  /\ j \in cleanup[w]
  /\ cleanup' = [cleanup EXCEPT ![w] = @ \ {j}]
  /\ Fail({j} \cap {i \in Jobs : job[i] = "claimed"})
  /\ stopReq' = stopReq \cup {w}
  /\ UNCHANGED <<life, rows, silent, link, parent, running, recovery, budget>>

\* The pool has drained: the worker deletes its row and exits.
DrainedExit(w) ==
  /\ life[w] = "stopping"
  /\ running[w] = {} /\ cleanup[w] = {}
  /\ ~Locked(w)
  /\ DeleteRows({w}, {})
  /\ Die(w)
  /\ UNCHANGED <<parent, stopReq, running, cleanup, recovery, budget>>

\* shutdown_timeout ends first: the process exits under its threads, and its
\* row and claims stay.
TimeoutExit(w) ==
  /\ life[w] = "stopping"
  /\ running[w] # {}
  /\ Die(w) /\ Silence(w) /\ EndThreads({w})
  /\ UNCHANGED <<rows, link, parent, stopReq, job, owner, recovery, budget>>

-----------------------------------------------------------------------------
(* Supervisors. *)

\* An incarnation to stand for a new process.
Unused(S) == CHOOSE p \in S : life[p] = "unborn"

\* start: the supervisor registers; its name has to be free.
StartSupervisor(s) ==
  /\ life[s] = "unborn" /\ s = Unused(Sups)
  /\ Cardinality({t \in Sups : life[t] \notin {"unborn", "dead"}})
       < budget.supervisors
  /\ IF \E t \in rows \cap Sups : Pid[t] = Pid[s]
     THEN Die(s) /\ UNCHANGED rows
     ELSE /\ life' = [life EXCEPT ![s] = "booting"]
          /\ rows' = rows \cup {s}
  /\ UNCHANGED <<silent, link, parent, stopReq, running, cleanup, job, owner,
                 recovery, budget>>

\* _launch_child.  (Bound: it waits for an incarnation of a worker.)
Fork(s) ==
  \E w \in Wrks :
    /\ life[w] = "unborn" /\ w = Unused(Wrks)
    /\ life' = [life EXCEPT ![s] = "running", ![w] = "booting"]
    /\ parent' = [parent EXCEPT ![w] = s]

\* It fails the orphans it finds and forks its worker.
FinishStart(s) ==
  /\ life[s] = "booting"
  /\ IF \E w \in Wrks : life[w] = "unborn" THEN Fork(s)
     ELSE life' = [life EXCEPT ![s] = "running"] /\ UNCHANGED parent
  /\ Fail(Orphans)
  /\ UNCHANGED <<rows, silent, link, stopReq, running, cleanup, recovery,
                 budget>>

Children(s) == {w \in Wrks : parent[w] = s}

\* The housekeeping of a poll: fail_orphaned_claimed_jobs, then
\* prune_stale_processes locks the rows of the n oldest heartbeats, which have
\* expired by now, and reads their claims.  (Bound: no more than batch_size.)
Housekeeping(s, n) ==
  LET expired == {p \in rows \ {s} : /\ p \in Range(SubSeq(silent, 1, n))
                                     /\ ~Locked(p)} IN
  /\ life[s] = "running" /\ s \notin stopReq /\ recovery[s].op = "idle"
  /\ Orphans # {} \/ expired # {}
  /\ Fail(Orphans)
  /\ recovery' = [recovery EXCEPT ![s] =
       [op |-> IF expired = {} THEN "children" ELSE "prune",
        procs |-> expired, jobs |-> UNION {ClaimsOf(p) : p \in expired}]]
  /\ UNCHANGED <<life, rows, silent, link, parent, stopReq, running, cleanup,
                 budget>>

\* It deletes the rows and fails the claims, or rolls back: when a claim was
\* settled meanwhile, or when the names of two workers clash.
PruneCommit(s) ==
  LET r == recovery[s] IN
  /\ life[s] \in {"running", "stopping"}
  /\ r.op = "prune"
  /\ recovery' = [recovery EXCEPT ![s] = [Idle EXCEPT !.op = "children"]]
  /\ IF AllClaimed(r.jobs) /\ ~NameClash(r.procs)
     THEN DeleteRows(r.procs, r.jobs)
     ELSE UNCHANGED <<rows, silent, link, owner, job>>
  /\ UNCHANGED <<life, parent, stopReq, running, cleanup, budget>>

\* check_children follows; a stopping supervisor does nothing else.
Checking(s) ==
  /\ life[s] \in {"running", "stopping"}
  /\ recovery[s].op \in {"idle", "children"}

\* waitpid returns a dead worker: its row is looked up by pid, name and
\* supervisor, and its claims are read.
ReapRead(s, w) ==
  /\ Checking(s)
  /\ life[w] = "dead" /\ parent[w] = s
  /\ parent' = [parent EXCEPT ![w] = NoProc]
  /\ recovery' = [recovery EXCEPT ![s] =
       IF w \in rows /\ link[w] = s
       THEN [op |-> "reap", procs |-> {w}, jobs |-> ClaimsOf(w)] ELSE Idle]
  /\ UNCHANGED <<life, rows, silent, link, stopReq, running, cleanup, job,
                 owner, budget>>

\* Mutant of Replace: a replacement that is due is dropped.
ReplaceDropped(s) ==
  /\ Checking(s) /\ life[s] = "running" /\ s \notin stopReq
  /\ Children(s) = {}
  /\ recovery' = [recovery EXCEPT ![s] = Idle]
  /\ UNCHANGED <<life, rows, silent, link, parent, stopReq, running, cleanup,
                 job, owner, budget>>

\* A reaped worker is replaced, at once or after the back-off.
Replace(s) ==
  /\ Checking(s) /\ life[s] = "running" /\ s \notin stopReq
  /\ Children(s) = {}
  /\ Fork(s)
  /\ recovery' = [recovery EXCEPT ![s] = Idle]
  /\ UNCHANGED <<rows, silent, link, stopReq, running, cleanup, job, owner,
                 budget>>

\* No worker to reap, or to replace before the back-off is over.
NothingToReap(s) ==
  /\ life[s] = "running" /\ recovery[s].op = "children"
  /\ \A w \in Children(s) : life[w] # "dead"
  /\ recovery' = [recovery EXCEPT ![s] = Idle]
  /\ UNCHANGED <<life, rows, silent, link, parent, stopReq, running, cleanup,
                 job, owner, budget>>

\* The claims are failed.  If one was settled meanwhile the error ends the
\* poll loop or, when the supervisor is stopping, the supervisor itself.
ReapFail(s) ==
  LET r == recovery[s] IN
  /\ life[s] \in {"running", "stopping"}
  /\ r.op = "reap"
  /\ IF AllClaimed(r.jobs)
     THEN /\ Fail(r.jobs)
          /\ recovery' = [recovery EXCEPT ![s].op = "delete"]
          /\ UNCHANGED <<life, stopReq, silent>>
     ELSE /\ recovery' = [recovery EXCEPT ![s] = Idle]
          /\ IF life[s] = "running"
             THEN stopReq' = stopReq \cup {s} /\ UNCHANGED <<life, silent>>
             ELSE Die(s) /\ Silence(s) /\ UNCHANGED stopReq
          /\ UNCHANGED <<job, owner>>
  /\ UNCHANGED <<rows, link, parent, running, cleanup, budget>>

\* Mutant of ReapDelete: without delete_process.
ReapDeleteNothing(s) ==
  /\ life[s] \in {"running", "stopping"}
  /\ recovery[s].op = "delete"
  /\ recovery' = [recovery EXCEPT ![s] = Idle]
  /\ UNCHANGED <<life, rows, silent, link, parent, stopReq, running, cleanup,
                 job, owner, budget>>

\* The row of the dead worker is deleted.
ReapDelete(s) ==
  LET r == recovery[s] IN
  /\ life[s] \in {"running", "stopping"}
  /\ r.op = "delete"
  /\ \A w \in r.procs : ~Locked(w)
  /\ DeleteRows(r.procs, {})
  /\ recovery' = [recovery EXCEPT ![s] = Idle]
  /\ UNCHANGED <<life, parent, stopReq, running, cleanup, budget>>

\* SIGTERM or SIGINT to the supervisor.
Terminate(s) ==
  /\ budget.faults > 0
  /\ life[s] = "running" /\ s \notin stopReq
  /\ stopReq' = stopReq \cup {s}
  /\ budget' = [budget EXCEPT !.faults = @ - 1]
  /\ UNCHANGED <<life, rows, silent, link, parent, running, cleanup, job,
                 owner, recovery>>

\* The poll loop ends and stop begins; a supervisor passes SIGTERM on, which a
\* worker loses that has not installed its own handlers yet.
LeaveLoop(p) ==
  /\ life[p] = "running" /\ p \in stopReq
  /\ p \in Sups => Checking(p)
  /\ life' = [life EXCEPT ![p] = "stopping"]
  /\ \E lost \in SUBSET {w \in Wrks : life[w] = "booting"} :
       stopReq' = stopReq \cup
         {w \in Wrks \ lost : parent[w] = p /\ life[w] # "dead"}
  /\ UNCHANGED <<rows, silent, link, parent, running, cleanup, job, owner,
                 recovery, budget>>

\* The worker did not leave in time: SIGKILL.
KillChild(s, w) ==
  /\ life[s] = "stopping" /\ Checking(s)
  /\ parent[w] = s /\ life[w] # "dead"
  /\ Die(w) /\ Silence(w) /\ EndThreads({w})
  /\ UNCHANGED <<rows, link, parent, stopReq, job, owner, recovery, budget>>

\* With its workers gone the supervisor deletes its row and exits; the row
\* stays if the names of two workers would clash.
FinishStop(s) ==
  /\ life[s] = "stopping" /\ Checking(s)
  /\ Children(s) = {}
  /\ ~Locked(s)
  /\ IF NameClash({s}) THEN Silence(s) /\ UNCHANGED <<rows, link, owner, job>>
     ELSE DeleteRows({s}, {})
  /\ Die(s)
  /\ recovery' = [recovery EXCEPT ![s] = Idle]
  /\ UNCHANGED <<parent, stopReq, running, cleanup, budget>>

-----------------------------------------------------------------------------
\* A process is killed; the transaction it is in is rolled back.  (Bound: an
\* incarnation of a supervisor is left.)
Kill(p) ==
  /\ budget.faults > 0
  /\ life[p] \in {"booting", "running", "stopping"}
  /\ \E s \in Sups \ {p} : life[s] # "dead"
  /\ Die(p) /\ Silence(p) /\ EndThreads({p})
  /\ recovery' = [s \in Sups |-> IF s = p THEN Idle ELSE recovery[s]]
  /\ budget' = [budget EXCEPT !.faults = @ - 1]
  /\ UNCHANGED <<rows, link, parent, stopReq, job, owner>>

\* A supervisor and its worker are killed together: their host is lost.
KillHost(s, w) ==
  /\ budget.faults > 0
  /\ life[s] \in {"running", "stopping"}
  /\ parent[w] = s /\ life[w] \in {"running", "stopping"}
  /\ \E t \in Sups \ {s} : life[t] # "dead"
  /\ life' = [life EXCEPT ![s] = "dead", ![w] = "dead"]
  /\ \E order \in {<<s, w>>, <<w, s>>} :
       silent' = silent \o SelectSeq(order, LAMBDA p :
                                       p \in rows \ Range(silent))
  /\ EndThreads({w})
  /\ recovery' = [recovery EXCEPT ![s] = Idle]
  /\ budget' = [budget EXCEPT !.faults = @ - 1]
  /\ UNCHANGED <<rows, link, parent, stopReq, job, owner>>

\* A dead process nothing refers to: the incarnation can stand for another.
Forget(p) ==
  /\ life[p] = "dead"
  /\ p \notin rows
  /\ \A w \in Wrks : parent[w] = p => life[w] = "dead"
  /\ \A s \in Sups : p \in Children(s) => life[s] = "dead"
  /\ \A s \in Sups : p \notin recovery[s].procs
  /\ life' = [life EXCEPT ![p] = "unborn"]
  /\ stopReq' = stopReq \ {p}
  /\ parent' = [w \in Wrks |-> IF p \in {w, parent[w]} THEN NoProc
                               ELSE parent[w]]
  /\ UNCHANGED <<rows, silent, link, running, cleanup, job, owner, recovery,
                 budget>>

\* An operator retries a failed job.
Retry(j) ==
  /\ job[j] = "failed"
  /\ job' = [job EXCEPT ![j] = "ready"]
  /\ UNCHANGED <<life, rows, silent, link, parent, stopReq, running, cleanup,
                 owner, recovery, budget>>

Init ==
  /\ life = [p \in Procs |-> "unborn"]
  /\ rows = {} /\ silent = <<>> /\ stopReq = {} /\ budget \in Budgets
  /\ link = [w \in Wrks |-> NoProc]
  /\ parent = [w \in Wrks |-> NoProc]
  /\ running = [w \in Wrks |-> {}]
  /\ cleanup = [w \in Wrks |-> {}]
  /\ job = [j \in Jobs |-> "ready"]
  /\ owner = [j \in Jobs |-> NoProc]
  /\ recovery = [s \in Sups |-> Idle]

Next ==
  \/ \E p \in Procs : \/ Beat(p) \/ Stall(p) \/ LeaveLoop(p)
                      \/ Kill(p) \/ Forget(p)
  \/ \E w \in Wrks :
       \/ Boot(w) \/ ClaimRefused(w) \/ DrainedExit(w) \/ TimeoutExit(w)
       \/ \E J \in SUBSET Jobs : Claim(w, J) \/ LoseAnswer(w, J)
       \/ \E j \in Jobs, outcome \in {"finished", "failed"} :
            EndTask(w, j, outcome)
       \/ \E j \in Jobs : CleanUp(w, j)
  \/ \E s \in Sups :
       \/ StartSupervisor(s) \/ FinishStart(s)
       \/ \E n \in 0 .. Len(silent) : Housekeeping(s, n)
       \/ PruneCommit(s) \/ ReapFail(s) \/ ReapDelete(s) \/ Replace(s)
       \/ NothingToReap(s) \/ Terminate(s) \/ FinishStop(s)
       \/ \E w \in Wrks : ReapRead(s, w) \/ KillChild(s, w)
                         \/ KillHost(s, w)
  \/ \E j \in Jobs : Retry(j)

Spec == Init /\ [][Next]_vars

SupervisorStep(s) ==
  \/ FinishStart(s) \/ PruneCommit(s)
  \/ \E n \in 0 .. Len(silent) : Housekeeping(s, n)
  \/ ReapFail(s) \/ ReapDelete(s) \/ Replace(s) \/ NothingToReap(s)
  \/ LeaveLoop(s) \/ FinishStop(s)
  \/ \E w \in Wrks : ReapRead(s, w) \/ KillChild(s, w)

WorkerStep(w) == Boot(w) \/ LeaveLoop(w) \/ DrainedExit(w)

\* Living processes go on, tasks end, the heartbeats of dead processes expire,
\* and a supervisor that ended is started again.
FairSpec ==
  /\ Spec
  /\ SF_vars(\E p \in Procs : Beat(p))
  /\ WF_vars(\E p \in Procs : Forget(p))
  /\ WF_vars(\E s \in Sups : StartSupervisor(s))
  /\ \A s \in Sups :
       /\ WF_vars(SupervisorStep(s))
       /\ SF_vars(ReapDelete(s)) /\ SF_vars(Replace(s))
  /\ \A w \in Wrks :
       /\ WF_vars(WorkerStep(w))
       /\ \A j \in Jobs :
            /\ WF_vars(\E o \in {"finished", "failed"} : EndTask(w, j, o))
            /\ WF_vars(CleanUp(w, j))

-----------------------------------------------------------------------------
\* A claim that names a process names one that is registered, and while that
\* worker goes on the job is in its pool: a lost answer, a prune or a
\* settlement by another worker never leave a claim to a worker that does not
\* know of it and carries on.
ClaimsAttended ==
  \A j \in Jobs : job[j] = "claimed" /\ owner[j] # NoProc =>
    /\ owner[j] \in rows
    /\ life[owner[j]] = "running" => j \in running[owner[j]]

\* Recovery strands nothing within a batch: prunes and reaps that overlap each
\* other, claims and exits delete no row under a claim they do not fail.  A
\* claim loses its process only when the worker deletes its own row, its pool
\* empty.
OrphansByExit ==
  [][\A j \in Orphans' \ Orphans :
       /\ owner[j] \in Wrks /\ running[owner[j]] = {}
       /\ life[owner[j]] = "stopping" /\ life'[owner[j]] = "dead"]_vars

\* A worker that boots never finds the row of the worker it replaces: the
\* claims were failed and the row deleted before the fork, or another prune
\* did it, or the supervisor forks no more.
ReplacementBoots ==
  \A w \in Wrks : life[w] = "booting" =>
    \A v \in rows \cap Wrks : link[v] # parent[w]

\* Claimed work is not left behind: whatever dies, stalls or stops, and
\* whenever, a claimed job is completed or failed in the end.
ClaimsSettle == \A j \in Jobs : job[j] = "claimed" ~> job[j] # "claimed"

\* A supervisor that keeps running has a registered worker again in the end.
WorkerComesBack ==
  \A s \in Sups :
    life[s] = "running" ~>
      \/ life[s] # "running"
      \/ \E w \in Children(s) : life[w] = "running" /\ w \in rows

\* A worker or supervisor that was pruned while it lived does not live on.
PrunedStops ==
  \A p \in Procs : life[p] = "running" /\ p \notin rows ~> life[p] # "running"
=============================================================================
