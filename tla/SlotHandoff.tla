---------------------------- MODULE SlotHandoff ----------------------------
(***************************************************************************)
(* The transactions that move concurrency slots, statement by statement,   *)
(* with the row locks of the database: a bulk enqueue over several keys, a *)
(* completion with its two looks for a waiter, the recovery of claims key  *)
(* by key, and the maintenance that promotes waiters.                      *)
(*                                                                         *)
(* A statement sees what is committed and what its own transaction wrote.  *)
(* The lock of a semaphore row is kept to the end of the transaction, also *)
(* by an acquisition that found no slot.  All jobs of a key bring the same *)
(* limit.  The claimed rows of a recovery are those of dead processes, so  *)
(* no completion works on them.                                            *)
(***************************************************************************)
EXTENDS SemaphoreRow, FiniteSets, FiniteSetsExt

CONSTANTS
  Jobs, Keys,
  Key, Limit,           \* key of each job, limit of each key
  Sessions,             \* database sessions
  Ops,                  \* what each session does
  UseSkipLocked,        \* the use_skip_locked option
  SupportsSkipLocked,   \* the database has SKIP LOCKED
  Attempts,             \* TRANSIENT_DATABASE_RETRY_ATTEMPTS
  MaxCrashes            \* transactions that may die with their connection

ASSUME SlotHandoffAssumption ==
  /\ IsFiniteSet(Jobs) /\ IsFiniteSet(Sessions)
  /\ Key \in [Jobs -> Keys] /\ Limit \in [Keys -> Nat \ {0}]
  /\ Ops \in [Sessions -> SUBSET {"enqueue", "complete", "recover", "promote"}]
  /\ UseSkipLocked \in BOOLEAN /\ SupportsSkipLocked \in BOOLEAN
  /\ Attempts \in Nat \ {0} /\ MaxCrashes \in Nat

VARIABLES
  job,      \* committed state: "new", "ready", "blocked", "claimed" or "gone"
  sem,      \* the semaphore row of each key, with uncommitted writes
  tx,       \* the transaction of each session
  attempt,  \* how often it was started
  doubt,    \* keys whose waiters a released slot may have missed
  crashes

vars == <<job, sem, tx, attempt, doubt, crashes>>

NoTx == [op |-> "none", at |-> "none", jobs |-> {}, todo |-> {}, turn |-> "none",
         rows |-> {}, to |-> [j \in Jobs |-> "same"], before |-> [k \in {} |-> NoRow]]

\* The key whose turn it is; a promotion goes job by job, the others key by key.
Want(s) == IF tx[s].op = "promote" THEN Key[tx[s].turn] ELSE tx[s].turn

\* The transaction turns to another key or job, or to its end.
Onward(rec, step) ==
  IF rec.todo = {} THEN {[rec EXCEPT !.at = "commit"]}
  ELSE {[rec EXCEPT !.at = step, !.turn = x, !.todo = @ \ {x}] : x \in rec.todo}

\* Keys whose semaphore row the transaction has locked.
Held(s) == DOMAIN tx[s].before

KeysOf(S) == {Key[j] : j \in S}

OfKey(S, k) == {j \in S : Key[j] = k}

Blocked(k) == {j \in OfKey(Jobs, k) : job[j] = "blocked"}

\* Waiting rows that another transaction has locked.
LockedByOthers(s) == UNION {tx[t].rows : t \in Sessions \ {s}}

\* Mutant: SKIP LOCKED is never asked for.
SkipsLockedNever == FALSE

\* locked_queryset
SkipsLocked == UseSkipLocked /\ SupportsSkipLocked

\* The sets of at most n waiting rows of the key that a query locks: it passes
\* over the rows of others, or waits for them.
Picks(s, k, n) ==
  LET mine == tx[s].to
      seen == {j \in Blocked(k) : mine[j] = "same"}
      free == seen \ LockedByOthers(s)
  IN IF SkipsLocked \/ free = seen
     THEN kSubset(Least(n, Cardinality(free)), free) ELSE {}

Goto(s, step) == tx' = [tx EXCEPT ![s].at = step]

\* The row of the key can be locked.
Free(s, k) == \A t \in Sessions \ {s} : k \notin Held(t)

\* The lock is taken and the row written.
Write(s, k, row, rec) ==
  /\ Free(s, k)
  /\ sem' = [sem EXCEPT ![k] = row]
  /\ tx' = [tx EXCEPT ![s] =
       [rec EXCEPT !.before = [l \in DOMAIN @ \cup {k} |->
                                 IF l \in DOMAIN @ THEN @[l] ELSE sem[k]]]]

Moved(to, S, state) == [j \in Jobs |-> IF j \in S THEN state ELSE to[j]]

Rest == UNCHANGED <<job, attempt, doubt, crashes>>

-----------------------------------------------------------------------------
InHand == UNION {tx[s].jobs : s \in Sessions}

FirstStep(op) ==
  CASE op = "enqueue" -> "acquire group" [] op = "recover" -> "pick group"
    [] op = "promote" -> "acquire" [] op = "complete" -> "first look"

\* build_dispatch_rows and release_recovered_concurrency_slots go through the
\* keys of their jobs; promote_expired_blocked_jobs has locked the due rows S.
Started(op, S) ==
  LET todo == IF op = "promote" THEN S ELSE KeysOf(S)
      mine == IF op = "promote" THEN [NoTx EXCEPT !.rows = S]
              ELSE [NoTx EXCEPT !.jobs = S]
  IN Onward([mine EXCEPT !.op = op, !.todo = todo], FirstStep(op))

Begin(s, op, S) ==
  /\ tx[s].op = "none" /\ op \in Ops[s] /\ S # {}
  /\ \E rec \in Started(op, S) : tx' = [tx EXCEPT ![s] = rec]
  /\ UNCHANGED <<job, sem, attempt, doubt, crashes>>

Enqueue(s, S) ==
  /\ \A j \in S : job[j] = "new" /\ j \notin InHand
  /\ Begin(s, "enqueue", S)

Complete(s, j) ==
  /\ job[j] = "claimed" /\ j \notin InHand
  /\ Begin(s, "complete", {j})

Recover(s, S) ==
  /\ \A j \in S : job[j] = "claimed" /\ j \notin InHand
  /\ Begin(s, "recover", S)

\* Mutant: keys that nobody uses are left out.
PromoteBusyOnly(s, S) ==
  /\ \A j \in S : /\ job[j] = "blocked" /\ j \notin LockedByOthers(s)
                  /\ sem[Key[j]].value < Limit[Key[j]]
  /\ Begin(s, "promote", S)

Promote(s, S) ==
  /\ \A j \in S : job[j] = "blocked" /\ j \notin LockedByOthers(s)
  /\ Begin(s, "promote", S)

-----------------------------------------------------------------------------
\* semaphore_acquire_many for the group of a key.
AcquireGroup(s) ==
  LET k == Want(s)
      group == OfKey(tx[s].jobs, k)
      grant == AcquireMany(sem[k], Cardinality(group), Limit[k])
  IN /\ tx[s].at = "acquire group"
     /\ \E granted \in kSubset(grant.got, group) :
        \E rec \in Onward([tx[s] EXCEPT !.to =
                              Moved(Moved(@, group, "blocked"), granted, "ready")],
                          "acquire group") :
          Write(s, k, grant.row, rec)
     /\ Rest

\* _release_recovered_concurrency_group: the waiters are locked first,
PickGroup(s) ==
  LET k == Want(s) IN
  /\ tx[s].at = "pick group"
  /\ \E S \in Picks(s, k, Cardinality(OfKey(tx[s].jobs, k))) :
       tx' = [tx EXCEPT ![s].at = "release group", ![s].rows = @ \cup S]
  /\ sem' = sem /\ Rest

\* Mutant: the row is read without a lock and what was read is written back.
ReleaseGroupOfKeyUnlocked(s) ==
  LET k == Want(s)
      n == Cardinality(OfKey(tx[s].jobs, k))
      waiters == OfKey(tx[s].rows, k)
      r == ReleaseGroup(sem[k], n, Limit[k], Cardinality(waiters))
  IN /\ tx[s].at = "release group"
     /\ \E S \in kSubset(r.unblocked, waiters) :
        \E rec \in Onward([tx[s] EXCEPT !.to = Moved(@, S, "ready")], "pick group") :
          sem' = [sem EXCEPT ![k] = r.row] /\ tx' = [tx EXCEPT ![s] = rec]
     /\ Rest

\* then the semaphore, and as many of them as got a slot become ready.
ReleaseGroupOfKey(s) ==
  LET k == Want(s)
      n == Cardinality(OfKey(tx[s].jobs, k))
      waiters == OfKey(tx[s].rows, k)
      r == ReleaseGroup(sem[k], n, Limit[k], Cardinality(waiters))
  IN /\ tx[s].at = "release group"
     /\ \E S \in kSubset(r.unblocked, waiters) :
        \E rec \in Onward([tx[s] EXCEPT !.to = Moved(@, S, "ready")], "pick group") :
          Write(s, k, r.row, rec)
     /\ Rest

\* promote_expired_blocked_jobs, for one row.
AcquireOne(s) ==
  LET k == Want(s)
      r == Acquire(sem[k], Limit[k])
      got == IF r.ok THEN {tx[s].turn} ELSE {}
  IN /\ tx[s].at = "acquire"
     /\ \E rec \in Onward([tx[s] EXCEPT !.to = Moved(@, got, "ready")], "acquire") :
          Write(s, k, r.row, rec)
     /\ Rest

\* release_concurrency_slot: the first look for a waiter locks it,
FirstLook(s) ==
  LET k == Want(s) IN
  /\ tx[s].at = "first look"
  /\ \E S \in Picks(s, k, 1) :
       tx' = [tx EXCEPT ![s].at = IF S = {} THEN "release" ELSE "hand over",
                        ![s].rows = S]
  /\ sem' = sem /\ Rest

\* and hands the slot over to it;
HandOver(s) ==
  LET k == Want(s) IN
  /\ tx[s].at = "hand over" /\ HandoffOK(sem[k], Limit[k])
  /\ Write(s, k, Handoff(sem[k], Limit[k]),
           [tx[s] EXCEPT !.at = "commit", !.to = Moved(@, tx[s].rows, "ready")])
  /\ Rest

\* Mutant: the slot is given back and nobody looks again.
ReleaseOneOnly(s) ==
  LET k == Want(s) IN
  /\ tx[s].at = "release"
  /\ Write(s, k, Release(sem[k], Limit[k]), [tx[s] EXCEPT !.at = "commit"])
  /\ Rest

\* without a waiter it is given back,
ReleaseOne(s) ==
  LET k == Want(s) IN
  /\ tx[s].at = "release"
  /\ Write(s, k, Release(sem[k], Limit[k]), [tx[s] EXCEPT !.at = "second look"])
  /\ Rest

\* and a waiter that came meanwhile gets it.
SecondLook(s) ==
  LET k == Want(s) IN
  /\ tx[s].at = "second look"
  /\ \E S \in Picks(s, k, 1) :
       IF S # {} /\ ConsumeOK(sem[k])
       THEN Write(s, k, ConsumeReleased(sem[k], Limit[k]),
                  [tx[s] EXCEPT !.at = "commit", !.rows = S, !.to = Moved(@, S, "ready")])
       ELSE Goto(s, "commit") /\ sem' = sem
  /\ Rest

-----------------------------------------------------------------------------
\* Where the jobs of a transaction end, apart from those it dispatched.
Settled(s) ==
  [j \in Jobs |-> IF tx[s].to[j] # "same" THEN tx[s].to[j]
                  ELSE IF j \in tx[s].jobs THEN "gone" ELSE job[j]]

Idle(k) == sem[k].value > 0 /\ Blocked(k) # {}

\* A recovery may have missed a waiter, an aborted transaction may have made
\* others miss one.  The doubt ends when no slot is idle, once that is committed.
Commit(s) ==
  /\ tx[s].at = "commit"
  /\ job' = Settled(s)
  /\ tx' = [tx EXCEPT ![s] = NoTx]
  /\ attempt' = [attempt EXCEPT ![s] = 1]
  /\ UNCHANGED <<sem, crashes>>
  /\ doubt' = {k \in doubt \cup (IF tx[s].op = "recover" THEN Held(s) ELSE {}) :
                 Idle(k)' \/ ~Free(s, k)}

RolledBack(s) ==
  /\ sem' = [k \in Keys |-> IF k \in Held(s) THEN tx[s].before[k] ELSE sem[k]]
  /\ doubt' = doubt \cup KeysOf(tx[s].rows)
  /\ job' = job

\* Locks that a session waits for.
WaitsFor(s) ==
  {t \in Sessions \ {s} :
     \/ /\ tx[s].at \in {"acquire group", "release group", "acquire", "hand over", "release"}
        /\ Want(s) \in Held(t)
     \/ /\ ~SkipsLocked
        /\ tx[s].at \in {"pick group", "first look", "second look"}
        /\ OfKey(tx[t].rows, Want(s)) # {}}

\* The session is among those that it waits for, directly or through others.
InCycle(s) ==
  /\ WaitsFor(s) # {}
  /\ \A R \in SUBSET Sessions :
       (\A t \in R \cup {s} : WaitsFor(t) \subseteq R) => s \in R

\* retry_transient_database_errors starts the operation again, a promotion with
\* what is due by then; a recovery is left to the next one.
Restarted(s) ==
  IF attempt[s] = Attempts \/ tx[s].op \in {"recover", "promote"} THEN {NoTx}
  ELSE Started(tx[s].op, tx[s].jobs)

\* The database breaks a cycle.
Deadlock(s) ==
  /\ InCycle(s)
  /\ RolledBack(s)
  /\ \E rec \in Restarted(s) :
       /\ tx' = [tx EXCEPT ![s] = rec]
       /\ attempt' = [attempt EXCEPT ![s] = IF rec = NoTx THEN 1 ELSE @ + 1]
  /\ crashes' = crashes

Crash(s) ==
  /\ tx[s].op # "none" /\ crashes > 0
  /\ crashes' = crashes - 1
  /\ RolledBack(s)
  /\ tx' = [tx EXCEPT ![s] = NoTx]
  /\ attempt' = [attempt EXCEPT ![s] = 1]

\* A worker takes a ready job.
Claim(j) ==
  /\ job[j] = "ready"
  /\ job' = [job EXCEPT ![j] = "claimed"]
  /\ UNCHANGED <<sem, tx, attempt, doubt, crashes>>

-----------------------------------------------------------------------------
\* Keys whose jobs have all been completed.
Init ==
  /\ job = [j \in Jobs |-> "new"]
  /\ sem = [k \in Keys |-> Written(Limit[k], Limit[k])]
  /\ tx = [s \in Sessions |-> NoTx]
  /\ attempt = [s \in Sessions |-> 1]
  /\ doubt = {}
  /\ crashes = MaxCrashes

In(state) == {j \in Jobs : job[j] = state}

Statement(s) ==
  \/ AcquireGroup(s) \/ PickGroup(s) \/ ReleaseGroupOfKey(s) \/ AcquireOne(s)
  \/ FirstLook(s) \/ HandOver(s) \/ ReleaseOne(s) \/ SecondLook(s)
  \/ Commit(s)

Next ==
  \/ \E s \in Sessions :
       \/ \E S \in SUBSET In("new") : Enqueue(s, S)
       \/ \E S \in SUBSET In("claimed") : Recover(s, S)
       \/ \E S \in SUBSET In("blocked") : Promote(s, S)
       \/ \E j \in In("claimed") : Complete(s, j)
       \/ Statement(s) \/ Deadlock(s) \/ Crash(s)
  \/ \E j \in Jobs : Claim(j)

Spec == Init /\ [][Next]_vars

\* Locks are granted in the order of the requests, cycles are broken, and the
\* maintenance comes to every key in the end: a row stays due until it is renewed
\* and the oldest come first.
FairSpec ==
  /\ Spec
  /\ \A s \in Sessions : SF_vars(Statement(s))
  /\ WF_vars(\E s \in Sessions : Deadlock(s))
  /\ \A k \in Keys :
       SF_vars(\E s \in Sessions : \E S \in SUBSET In("blocked") :
                 k \in KeysOf(S) /\ Promote(s, S))

-----------------------------------------------------------------------------
AtRest == \A s \in Sessions : tx[s].op = "none"

\* A free slot never stays beside a waiter of its key, however the statements
\* of completions, enqueues and promotions interleave: who blocks has committed
\* before the release or sees it.  Only a recovery, which looks for waiters
\* before it has the semaphore, and an aborted transaction may leave one.
NoIdleSlotBesideWaiter ==
  AtRest => \A k \in Keys \ doubt : ~Idle(k)

\* Between transactions every slot is either free or held by one job of the
\* key, through concurrent releases, aborts, retries and crashes.
SlotsAddUp ==
  AtRest => \A k \in Keys :
    sem[k].value + Cardinality({j \in OfKey(Jobs, k) : job[j] \in {"ready", "claimed"}})
      = Limit[k]

\* A completion is never part of a deadlock, so that a job that has run is not
\* reported as failed because others lock several keys.
CompletionNeverInCycle ==
  \A s \in Sessions : tx[s].op = "complete" => ~InCycle(s)

\* A slot that was left beside a waiter gets used.
IdleSlotGoes == \A k \in Keys : Idle(k) ~> ~Idle(k)
=============================================================================
