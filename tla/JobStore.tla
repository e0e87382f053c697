------------------------------ MODULE JobStore ------------------------------
(***************************************************************************)
(* The dj_queue database: job rows, the five execution-state tables, the   *)
(* process registry and the concurrency semaphores.  Each action is one    *)
(* committed transaction of an operation; an operation that raises rolls   *)
(* back and is a step that does not happen.                                *)
(*                                                                         *)
(* Wall-clock tests (due, expired, stale) only decide when a row becomes   *)
(* eligible; here any such row may be eligible at any time.  Row ids,      *)
(* priorities and queue selection are abstracted to "any eligible row".    *)
(* That includes who inherits a slot: the query orders the waiters by      *)
(* priority but passes over rows that another transaction has locked, so   *)
(* that any of them may be the first it finds.  A batch holds jobs of one  *)
(* backend and one policy per key: the code handles policy groups one      *)
(* after the other, so a larger batch is a sequence of these steps.        *)
(***************************************************************************)
EXTENDS SemaphoreRow, FiniteSets

CONSTANTS
  Jobs,             \* job ids; an id may be used again after its row is deleted
  Procs,            \* rows of the process registry
  NoProc,           \* a NULL process reference
  Keys,             \* concurrency keys
  NoKey,            \* an empty concurrency key
  Key,              \* the key of each job
  Limit,            \* the concurrency limit each job was submitted with
  Delayed,          \* jobs submitted with a scheduled_at
  Blocks,           \* jobs submitted with on_conflict = "block"
  Backend,          \* the backend alias of each job and process
  Historical,       \* jobs of an older release, with no persisted policy
  PreserveFinished  \* the preserve_finished_jobs option

ASSUME ConstantsAssumption ==
  /\ IsFiniteSet(Jobs)
  /\ NoProc \notin Procs
  /\ NoKey \notin Keys
  /\ Key \in [Jobs -> Keys \cup {NoKey}]
  /\ Limit \in [Jobs -> Nat \ {0}]
  /\ Delayed \subseteq Jobs
  /\ Blocks \subseteq Jobs
  /\ Historical \subseteq Jobs
  /\ PreserveFinished \in BOOLEAN

VARIABLES
  jobs,       \* ids with a Job row
  finished,   \* of these, the ones with finished_at set
  ready, scheduled, blocked, claimed, failed,   \* the execution-state tables
  retryAt,    \* failed executions with retry_at set
  owner,      \* process reference of each claimed execution
  procs,      \* registered processes
  sem         \* semaphore row of each key

tables == <<ready, scheduled, blocked, claimed, failed>>
vars == <<jobs, finished, ready, scheduled, blocked, claimed, failed, retryAt,
          owner, procs, sem>>

-----------------------------------------------------------------------------
OfKey(S, k) == {j \in S : Key[j] = k}

Limited(S) == {j \in S : Key[j] # NoKey}

OneBackend(S) == \A i, j \in S : Backend[i] = Backend[j]

\* Jobs that one call of the grouping code treats as one group per key.
OnePolicy(S) ==
  \A i, j \in Limited(S) :
    Key[i] = Key[j] => Limit[i] = Limit[j] /\ (i \in Blocks <=> j \in Blocks)

\* The limit that a group of jobs of key k brings.
GroupLimit(S, k) == Limit[CHOOSE j \in OfKey(S, k) : TRUE]

\* _ensure_no_other_execution_state: the caller has consumed the rows of S in
\* one table; T are the other tables.
NoRowIn(S, T) == S \cap T = {}

\* A historical job takes its policy from the task, which may be gone.
Unresolvable(S) == Limited(S) \cap Historical

-----------------------------------------------------------------------------
(***************************************************************************)
(* Dispatch: every job of S becomes ready, blocked or discarded.  granted  *)
(* are the jobs of S that got a slot: as many of each key as were free.    *)
(***************************************************************************)
DispatchRows(S, granted) ==
  LET grant(k) == AcquireMany(sem[k], Cardinality(OfKey(S, k)), GroupLimit(S, k))
  IN  /\ OneBackend(S) /\ OnePolicy(S)
      /\ granted \subseteq Limited(S)
      /\ \A k \in Keys : Cardinality(OfKey(granted, k)) = grant(k).got
      /\ ready' = ready \cup (S \ Limited(S)) \cup granted
      /\ blocked' = blocked \cup ((Limited(S) \ granted) \cap Blocks)
      /\ sem' = [k \in Keys |-> grant(k).row]

\* The jobs that lose a conflict under on_conflict = "discard".
Discarded(S, granted) == (Limited(S) \ granted) \ Blocks

Enqueue(S, later, granted) ==
  /\ S # {} /\ S \cap jobs = {} /\ S \cap Historical = {}
  /\ later \subseteq S \cap Delayed /\ OneBackend(S)
  /\ DispatchRows(S \ later, granted)
  /\ jobs' = jobs \cup S
  /\ scheduled' = scheduled \cup later
  /\ finished' = finished \cup Discarded(S \ later, granted)
  /\ UNCHANGED <<claimed, failed, retryAt, owner, procs>>

\* Mutant of PromoteScheduled: policy failures are consumed but not recorded.
PromoteScheduledLosesBad(S, bad, granted) ==
  /\ S # {} /\ S \subseteq scheduled
  /\ bad \subseteq Unresolvable(S)
  /\ NoRowIn(S, ready \cup blocked \cup claimed \cup failed)
  /\ DispatchRows(S \ bad, granted)
  /\ scheduled' = scheduled \ S
  /\ finished' = finished \cup Discarded(S \ bad, granted)
  /\ UNCHANGED <<jobs, claimed, failed, retryAt, owner, procs>>

\* Due scheduled jobs; those in bad have no resolvable policy and fail.
PromoteScheduled(S, bad, granted) ==
  /\ S # {} /\ S \subseteq scheduled
  /\ bad \subseteq Unresolvable(S)
  /\ NoRowIn(S, ready \cup blocked \cup claimed \cup failed)
  /\ DispatchRows(S \ bad, granted)
  /\ scheduled' = scheduled \ S
  /\ failed' = failed \cup bad
  /\ finished' = finished \cup Discarded(S \ bad, granted)
  /\ UNCHANGED <<jobs, claimed, retryAt, owner, procs>>

\* An operator sends one scheduled job on; an unresolvable policy rolls back.
DispatchNow(j, granted) == PromoteScheduled({j}, {}, granted)

ScheduleRetry(j) ==
  /\ j \in failed
  /\ retryAt' = retryAt \cup {j}
  /\ UNCHANGED <<jobs, finished, tables, owner, procs, sem>>

\* Failed jobs are dispatched again.  later are those whose scheduled_at is
\* still ahead on the clock of this node; bad have no resolvable policy.
RetryFailed(S, bad, later, granted) ==
  /\ S # {} /\ S \subseteq failed
  /\ later \subseteq S \cap Delayed
  /\ bad \subseteq Unresolvable(S \ later)
  /\ NoRowIn(S, ready \cup scheduled \cup blocked \cup claimed)
  /\ DispatchRows(S \ (bad \cup later), granted)
  /\ failed' = (failed \ S) \cup bad
  /\ retryAt' = retryAt \ S
  /\ scheduled' = scheduled \cup later
  /\ finished' = (finished \ S) \cup Discarded(S \ (bad \cup later), granted)
  /\ UNCHANGED <<jobs, claimed, owner, procs>>

\* One job by hand; an unresolvable policy rolls back.
RetryFailedJob(j, later, granted) == RetryFailed({j}, {}, later, granted)

\* The dispatcher retries what was scheduled for it.
PromoteFailedRetries(S, bad, later, granted) ==
  S \subseteq retryAt /\ RetryFailed(S, bad, later, granted)

-----------------------------------------------------------------------------
Register(p) ==
  /\ p \notin procs
  /\ procs' = procs \cup {p}
  /\ UNCHANGED <<jobs, finished, tables, retryAt, owner, sem>>

\* Deleting a process row sets the references to it to NULL.
Orphaned(p) == [j \in Jobs |-> IF owner[j] = p THEN NoProc ELSE owner[j]]

\* Mutant of RemoveProcess: the references to the process stay.
RemoveProcessKeepsClaims(p) ==
  /\ p \in procs
  /\ procs' = procs \ {p}
  /\ UNCHANGED <<jobs, finished, tables, retryAt, owner, sem>>

RemoveProcess(p) ==
  /\ p \in procs
  /\ procs' = procs \ {p}
  /\ owner' = Orphaned(p)
  /\ UNCHANGED <<jobs, finished, tables, retryAt, sem>>

\* The foreign key refuses a claim for a process row that is gone.
Claim(p, S) ==
  /\ p \in procs
  /\ S # {} /\ S \subseteq ready
  /\ \A j \in S : Backend[j] = Backend[p]
  /\ NoRowIn(S, scheduled \cup blocked \cup claimed \cup failed)
  /\ ready' = ready \ S
  /\ claimed' = claimed \cup S
  /\ owner' = [j \in Jobs |-> IF j \in S THEN p ELSE owner[j]]
  /\ UNCHANGED <<jobs, finished, scheduled, blocked, failed, retryAt, procs, sem>>

-----------------------------------------------------------------------------
\* Blocked jobs that a release by a job of backend b can see.
Waiters(k, b) == {j \in OfKey(blocked, k) : Backend[j] = b}

\* The limit j brings when it releases its slot.
ReleaseLimits(j) ==
  {Limit[j]} \cup (IF j \in Historical THEN {FallbackLimit(sem[Key[j]])} ELSE {})

\* Mutant of PassSlot: the slot is given back and nobody is woken.
PassSlotNoWakeup(j, rdy, cl) ==
  /\ ready' = rdy
  /\ sem' = [k \in Keys |-> IF k = Key[j] THEN Release(sem[k], Limit[j]) ELSE sem[k]]
  /\ UNCHANGED blocked

\* The waiter w is made ready, unless it is in another state by now.
Wake(w, rdy, cl) ==
  /\ w \notin rdy \cup scheduled \cup cl \cup failed
  /\ ready' = rdy \cup {w}
  /\ blocked' = blocked \ {w}

\* release_concurrency_slot(j), with rdy the ready table so far and cl the
\* claimed table.  The first of the two looks may miss the waiter.
PassSlot(j, rdy, cl) ==
  \/ /\ Key[j] = NoKey
     /\ ready' = rdy
     /\ UNCHANGED <<blocked, sem>>
  \/ /\ Key[j] # NoKey
     /\ \E L \in ReleaseLimits(j), first \in BOOLEAN :
          LET k == Key[j]
              waiting == Waiters(k, Backend[j])
              r == ReleaseSlot(sem[k], L, first /\ waiting # {}, waiting # {})
          IN  /\ sem' = [sem EXCEPT ![k] = r.row]
              /\ \/ /\ r.unblocked = 0
                    /\ ready' = rdy /\ blocked' = blocked
                 \/ /\ r.unblocked = 1
                    /\ \E w \in waiting : Wake(w, rdy, cl)

\* The claims of S are deleted.
Unclaim(S) == [j \in Jobs |-> IF j \in S THEN NoProc ELSE owner[j]]

\* The job is marked finished, or deleted when finished jobs are not kept.
Finish(j) ==
  IF PreserveFinished
  THEN jobs' = jobs /\ finished' = finished \cup {j}
  ELSE jobs' = jobs \ {j} /\ finished' = finished \ {j}

\* The claim is deleted by job id; who holds it is not looked at.
Complete(j) ==
  /\ j \in claimed
  /\ NoRowIn({j}, ready \cup scheduled \cup blocked \cup failed)
  /\ claimed' = claimed \ {j}
  /\ owner' = Unclaim({j})
  /\ Finish(j)
  /\ PassSlot(j, ready, claimed \ {j})
  /\ UNCHANGED <<scheduled, failed, retryAt, procs>>

\* Mutant of Fail: a failed job is put back into the queue.
FailRequeues(j) ==
  /\ j \in claimed
  /\ claimed' = claimed \ {j}
  /\ owner' = Unclaim({j})
  /\ ready' = ready \cup {j}
  /\ UNCHANGED <<jobs, finished, scheduled, blocked, failed, retryAt, procs, sem>>

Fail(j) ==
  /\ j \in claimed
  /\ NoRowIn({j}, ready \cup scheduled \cup blocked \cup failed)
  /\ claimed' = claimed \ {j}
  /\ owner' = Unclaim({j})
  /\ failed' = failed \cup {j}
  /\ PassSlot(j, ready, claimed \ {j})
  /\ UNCHANGED <<jobs, finished, scheduled, retryAt, procs>>

\* _fail_claimed_jobs: fail the claims of S and give their slots back, one
\* group per key; promoted are the waiters that inherit one.
RecoverClaims(S, promoted) ==
  LET visible(k) == {w \in OfKey(blocked, k) : \E j \in S : Backend[w] = Backend[j]}
      freed(k) == OfKey(S, k)
  IN  /\ S # {} /\ S \subseteq claimed /\ OneBackend(S)
      /\ NoRowIn(S, ready \cup scheduled \cup blocked \cup failed)
      /\ NoRowIn(promoted, ready \cup scheduled \cup (claimed \ S) \cup failed)
      /\ promoted \subseteq Limited(blocked)
      /\ \E lim \in [Keys -> (UNION {ReleaseLimits(j) : j \in Limited(S)}) \cup {1}] :
           LET r(k) == IF freed(k) = {} THEN [unblocked |-> 0, row |-> sem[k]]
                       ELSE ReleaseGroup(sem[k], Cardinality(freed(k)), lim[k],
                                         Cardinality(visible(k)))
           IN  /\ \A j \in Limited(S) : lim[Key[j]] \in ReleaseLimits(j)
               /\ \A k \in Keys :
                    /\ OfKey(promoted, k) \subseteq visible(k)
                    /\ Cardinality(OfKey(promoted, k)) = r(k).unblocked
               /\ sem' = [k \in Keys |-> r(k).row]
      /\ claimed' = claimed \ S
      /\ failed' = failed \cup S
      /\ ready' = ready \cup promoted
      /\ blocked' = blocked \ promoted
      /\ UNCHANGED <<jobs, finished, scheduled, retryAt>>

Claims(p) == {j \in claimed : owner[j] = p}

\* Claims whose process row is gone.
FailOrphaned(S, promoted) ==
  /\ S \subseteq Claims(NoProc)
  /\ RecoverClaims(S, promoted)
  /\ owner' = Unclaim(S)
  /\ UNCHANGED procs

\* The claims of a process are read before the transaction that fails them,
\* which only rechecks that the jobs are still claimed, by whomever.
FailClaimedForProcess(S, promoted) ==
  /\ RecoverClaims(S, promoted)
  /\ owner' = Unclaim(S)
  /\ UNCHANGED procs

\* A stale process is deleted and as many of its claims as the batch has room
\* for are failed; the others become orphans.
PruneProcess(p, S, promoted) ==
  /\ p \in procs
  /\ S \subseteq Claims(p)
  /\ procs' = procs \ {p}
  /\ owner' = Orphaned(p)
  /\ IF S = {} THEN promoted = {} /\ UNCHANGED <<jobs, finished, tables, retryAt, sem>>
               ELSE RecoverClaims(S, promoted)

-----------------------------------------------------------------------------
\* Mutant of PromoteBlocked: a missing semaphore row is not created.
PromoteBlockedNeedsRow(j) ==
  LET r == Acquire(sem[Key[j]], Limit[j]) IN
  /\ j \in blocked /\ sem[Key[j]] # NoRow /\ r.ok
  /\ sem' = [sem EXCEPT ![Key[j]] = r.row]
  /\ ready' = ready \cup {j}
  /\ blocked' = blocked \ {j}
  /\ UNCHANGED <<jobs, finished, scheduled, claimed, failed, retryAt, owner, procs>>

\* Expiry maintenance of one blocked job: fail it, promote it or renew it.
PromoteBlocked(j) ==
  /\ j \in blocked
  /\ NoRowIn({j}, ready \cup scheduled \cup claimed \cup failed)
  /\ \/ /\ j \in Historical
        /\ blocked' = blocked \ {j}
        /\ failed' = failed \cup {j}
        /\ UNCHANGED <<ready, sem>>
     \/ LET r == Acquire(sem[Key[j]], Limit[j]) IN
        /\ sem' = [sem EXCEPT ![Key[j]] = r.row]
        /\ IF r.ok THEN ready' = ready \cup {j} /\ blocked' = blocked \ {j}
                   ELSE UNCHANGED <<ready, blocked>>
        /\ UNCHANGED failed
  /\ UNCHANGED <<jobs, finished, scheduled, claimed, retryAt, owner, procs>>

\* Mutant of DiscardReady: the slot of the discarded job is not released.
DiscardReadyKeepsSlot(j) ==
  /\ j \in ready
  /\ jobs' = jobs \ {j}
  /\ finished' = finished \ {j}
  /\ ready' = ready \ {j}
  /\ UNCHANGED <<scheduled, blocked, claimed, failed, retryAt, owner, procs, sem>>

\* A ready job holds a slot, so discarding it releases the slot.
DiscardReady(j) ==
  /\ j \in ready
  /\ NoRowIn({j}, scheduled \cup blocked \cup claimed \cup failed)
  /\ jobs' = jobs \ {j}
  /\ finished' = finished \ {j}
  /\ PassSlot(j, ready \ {j}, claimed)
  /\ UNCHANGED <<scheduled, claimed, failed, retryAt, owner, procs>>

\* Deletes the row of a job that holds no slot, with its execution row.
DeleteJob(j) ==
  /\ j \notin ready \cup claimed
  /\ jobs' = jobs \ {j}
  /\ finished' = finished \ {j}
  /\ scheduled' = scheduled \ {j}
  /\ blocked' = blocked \ {j}
  /\ failed' = failed \ {j}
  /\ retryAt' = retryAt \ {j}
  /\ UNCHANGED <<ready, claimed, owner, procs, sem>>

DiscardScheduled(j) ==
  j \in scheduled /\ NoRowIn({j}, blocked \cup failed) /\ DeleteJob(j)

DiscardBlocked(j) ==
  j \in blocked /\ NoRowIn({j}, scheduled \cup failed) /\ DeleteJob(j)

DiscardFailed(j) ==
  j \in failed /\ NoRowIn({j}, scheduled \cup blocked) /\ DeleteJob(j)

ClearFailed(j) == DiscardFailed(j)

ClearFinished(j) ==
  j \in finished /\ NoRowIn({j}, scheduled \cup blocked \cup failed) /\ DeleteJob(j)

\* Mutant of CleanupSemaphore: running jobs are forgotten.
CleanupSemaphoreReadyOnly(k) ==
  /\ sem[k] # NoRow
  /\ OfKey(ready, k) = {}
  /\ sem' = [sem EXCEPT ![k] = NoRow]
  /\ UNCHANGED <<jobs, finished, tables, retryAt, owner, procs>>

\* An expired row goes when no job of its key is ready or claimed, whatever
\* its backend.
CleanupSemaphore(k) ==
  /\ sem[k] # NoRow
  /\ OfKey(ready \cup claimed, k) = {}
  /\ sem' = [sem EXCEPT ![k] = NoRow]
  /\ UNCHANGED <<jobs, finished, tables, retryAt, owner, procs>>

-----------------------------------------------------------------------------
\* The database of an older release may hold waiting or failed jobs.
Init ==
  /\ jobs = Historical
  /\ scheduled \in SUBSET (Historical \cap Delayed)
  /\ failed = Historical \ scheduled
  /\ ready = {} /\ blocked = {} /\ claimed = {} /\ finished = {} /\ retryAt = {}
  /\ owner = [j \in Jobs |-> NoProc]
  /\ procs = {}
  /\ sem = [k \in Keys |-> NoRow]

Submit ==
  \E S \in SUBSET Jobs : \E later \in SUBSET S : \E granted \in SUBSET (S \ later) :
    Enqueue(S, later, granted)

Redispatch ==
  \/ \E S \in SUBSET scheduled : \E bad, granted \in SUBSET S :
       PromoteScheduled(S, bad, granted)
  \/ \E j \in scheduled : \E granted \in SUBSET {j} : DispatchNow(j, granted)

Retry ==
  \/ \E j \in failed : ScheduleRetry(j)
  \/ \E S \in SUBSET failed : \E bad, later, granted \in SUBSET S :
       RetryFailed(S, bad, later, granted)
  \/ \E j \in failed : \E later, granted \in SUBSET {j} : RetryFailedJob(j, later, granted)
  \/ \E S \in SUBSET retryAt : \E bad, later, granted \in SUBSET S :
       PromoteFailedRetries(S, bad, later, granted)

Run ==
  \/ \E p \in procs, S \in SUBSET ready : Claim(p, S)
  \/ \E j \in claimed : Complete(j) \/ Fail(j)

Recover ==
  \/ \E S \in SUBSET claimed, promoted \in SUBSET blocked : FailOrphaned(S, promoted)
  \/ \E S \in SUBSET claimed, promoted \in SUBSET blocked :
       FailClaimedForProcess(S, promoted)
  \/ \E p \in procs, S \in SUBSET claimed, promoted \in SUBSET blocked :
       PruneProcess(p, S, promoted)

Discard ==
  \E j \in jobs : \/ DiscardReady(j) \/ DiscardScheduled(j) \/ DiscardBlocked(j)
                  \/ DiscardFailed(j) \/ ClearFailed(j) \/ ClearFinished(j)

Maintain ==
  \/ \E j \in blocked : PromoteBlocked(j)
  \/ \E k \in Keys : CleanupSemaphore(k)

Next ==
  \/ Submit \/ Redispatch \/ Retry \/ Run \/ Recover \/ Discard \/ Maintain
  \/ \E p \in Procs : Register(p) \/ RemoveProcess(p)

Spec == Init /\ [][Next]_vars

(***************************************************************************)
(* Fairness.  The dispatcher and the supervisor poll forever, a worker is  *)
(* always started again, and a claimed job settles: its task ends, or its  *)
(* process dies and is pruned.  Claiming is strongly fair because worker   *)
(* rows come and go between polls.  Submitting, retrying by hand,          *)
(* discarding and removing processes are never forced.                     *)
(***************************************************************************)
Fairness ==
  /\ \A p \in Procs :
       WF_vars((\A q \in procs : Backend[q] # Backend[p]) /\ Register(p))
  /\ SF_vars(\E p \in procs, S \in SUBSET ready : Claim(p, S))
  /\ WF_vars(\E j \in claimed : owner[j] \in procs /\ (Complete(j) \/ Fail(j)))
  /\ WF_vars(\E S \in SUBSET claimed, promoted \in SUBSET blocked :
               FailOrphaned(S, promoted))
  /\ WF_vars(\E S \in SUBSET scheduled : \E bad, granted \in SUBSET S :
               PromoteScheduled(S, bad, granted))
  /\ SF_vars(\E j \in blocked : PromoteBlocked(j))

FairSpec == Spec /\ Fairness

-----------------------------------------------------------------------------
TypeOK ==
  /\ jobs \subseteq Jobs /\ finished \subseteq Jobs
  /\ ready \subseteq Jobs /\ scheduled \subseteq Jobs /\ blocked \subseteq Jobs
  /\ claimed \subseteq Jobs /\ failed \subseteq Jobs /\ retryAt \subseteq failed
  /\ owner \in [Jobs -> Procs \cup {NoProc}]
  /\ procs \subseteq Procs
  /\ sem \in [Keys -> Row]

(***************************************************************************)
(* No job is lost and none is in two states: every Job row is in exactly   *)
(* one execution table or finished, and no execution row outlives its job. *)
(* This is the repository's deep health check on execution state.          *)
(***************************************************************************)
OneState ==
  /\ jobs = ready \cup scheduled \cup blocked \cup claimed \cup failed \cup finished
  /\ ready \cap (scheduled \cup blocked \cup claimed \cup failed \cup finished) = {}
  /\ scheduled \cap (blocked \cup claimed \cup failed \cup finished) = {}
  /\ blocked \cap (claimed \cup failed \cup finished) = {}
  /\ claimed \cap (failed \cup finished) = {}
  /\ failed \cap finished = {}

\* The jobs that occupy a slot of k.
Holders(k) == OfKey(ready \cup claimed, k)

(***************************************************************************)
(* Only claimed jobs name a process, and the process they name is          *)
(* registered: a claim of a process that is gone is visibly an orphan.     *)
(***************************************************************************)
ClaimsOwned ==
  \A j \in Jobs : owner[j] # NoProc =>
    j \in claimed /\ owner[j] \in procs /\ Backend[owner[j]] = Backend[j]

\* One limit for each key.
UniformLimits == \A i, j \in Jobs : Key[i] = Key[j] => Limit[i] = Limit[j]

(***************************************************************************)
(* When all jobs of a key agree on its limit, the semaphore counts exactly *)
(* the jobs that are ready or running, through every dispatch, completion, *)
(* failure, recovery, discard, expiry and cleanup; so never more than the  *)
(* limit hold a slot.                                                      *)
(***************************************************************************)
SlotsExact ==
  UniformLimits =>
    \A k \in Keys :
      /\ Occupied(sem[k]) = Cardinality(Holders(k))
      /\ \A j \in OfKey(Jobs, k) : Cardinality(Holders(k)) <= Limit[j]

(***************************************************************************)
(* No job waits for a slot that is free: with one backend and one limit, a *)
(* key with a blocked job has all its slots in use.  Whoever frees a slot  *)
(* passes it on, or finds nobody waiting.                                  *)
(***************************************************************************)
NoIdleSlotWithWaiter ==
  UniformLimits /\ OneBackend(Jobs) =>
    \A j \in blocked : Cardinality(Holders(Key[j])) >= Limit[j]

StateOf(j) ==
  CASE j \notin jobs -> "none"
    [] j \in ready -> "ready"
    [] j \in scheduled -> "scheduled"
    [] j \in blocked -> "blocked"
    [] j \in claimed -> "claimed"
    [] j \in failed -> "failed"
    [] OTHER -> "finished"

Lifecycle(j) == INSTANCE JobLifecycle WITH state <- StateOf(j)

(***************************************************************************)
(* Every job follows the lifecycle dj_queue promises, whatever the other   *)
(* jobs, workers and operators do.                                         *)
(***************************************************************************)
FollowsLifecycle ==
  /\ \A j \in Jobs : Lifecycle(j)!Init
  /\ [][\A j \in Jobs : [Lifecycle(j)!Next]_(StateOf(j))]_vars

\* Jobs that dj_queue still has to do something about.
Unsettled == scheduled \cup blocked \cup ready \cup claimed

(***************************************************************************)
(* The queue drains: once no job is submitted or retried any more, every   *)
(* job settles.  Orphans of dead workers, waiters of another backend and   *)
(* scheduled jobs included.                                                *)
(***************************************************************************)
Drains == <>[][Unsettled' \subseteq Unsettled]_vars => <>[](Unsettled = {})
=============================================================================
