---------------------------- MODULE SemaphoreKey ----------------------------
(***************************************************************************)
(* One concurrency key: its Semaphore row, the number of jobs that hold a  *)
(* slot (a ready or a claimed execution) and the number that wait for one  *)
(* (a blocked execution).  Each action is one transaction of dj_queue, as  *)
(* far as this key is concerned.  Jobs of different deployments may bring  *)
(* different limits for the same key.                                      *)
(***************************************************************************)
EXTENDS SemaphoreRow

CONSTANTS
  Limits,    \* the limits that jobs of this key are submitted with
  MaxJobs    \* bound on holders plus waiters

ASSUME LimitsAssumption == Limits \subseteq Nat \ {0} /\ Limits # {}
ASSUME MaxJobsAssumption == MaxJobs \in Nat

VARIABLES
  row,       \* the Semaphore row, or NoRow
  holders,   \* jobs of the key with a ready or claimed execution
  waiters    \* jobs of the key with a blocked execution

vars == <<row, holders, waiters>>

\* No row yet, or a row of an older release, whose active_count is NULL.
Init ==
  /\ waiters = 0
  /\ \/ row = NoRow /\ holders = 0
     \/ \E L \in Limits : \E h \in 0..Least(L, MaxJobs) :
          /\ row = [value |-> L - h, active |-> NullCount, limit |-> L]
          /\ holders = h

\* A dispatch of n jobs with one policy; the losers block or are discarded.
Dispatch(n, L, block) ==
  LET r == AcquireMany(row, n, L) IN
  /\ holders + waiters + n <= MaxJobs
  /\ row' = r.row
  /\ holders' = holders + r.got
  /\ waiters' = IF block THEN waiters + (n - r.got) ELSE waiters

\* Expiry maintenance retries the acquisition for one waiter.
PromoteWaiter(L) ==
  LET r == Acquire(row, L) IN
  /\ waiters > 0
  /\ row' = r.row
  /\ IF r.ok THEN holders' = holders + 1 /\ waiters' = waiters - 1
             ELSE UNCHANGED <<holders, waiters>>

\* A holder completes, fails or is discarded.  Waiters of another backend are
\* invisible to it, so it may find none although there are some.
ReleaseHolder(L, first, second) ==
  LET r == ReleaseSlot(row, L, first, second) IN
  /\ holders > 0
  /\ (first \/ second) => waiters > 0
  /\ row' = r.row
  /\ holders' = holders - 1 + r.unblocked
  /\ waiters' = waiters - r.unblocked

\* Recovery fails n holders at once; w waiters are visible to it.
RecoverHolders(n, L, w) ==
  LET r == ReleaseGroup(row, n, L, w) IN
  /\ n \in 1..holders
  /\ w \in 0..waiters
  /\ row' = r.row
  /\ holders' = holders - n + r.unblocked
  /\ waiters' = waiters - r.unblocked

\* A waiter is discarded, or failed because its policy does not resolve.
DropWaiter ==
  /\ waiters > 0
  /\ waiters' = waiters - 1
  /\ UNCHANGED <<row, holders>>

\* Cleanup deletes an expired row that no job holds a slot of.
Cleanup ==
  /\ row # NoRow
  /\ holders = 0
  /\ row' = NoRow
  /\ UNCHANGED <<holders, waiters>>

ReleaseLimits == Limits \cup {FallbackLimit(row)}

Next ==
  \/ \E n \in 1..MaxJobs, L \in Limits, block \in BOOLEAN : Dispatch(n, L, block)
  \/ \E L \in Limits : PromoteWaiter(L)
  \/ \E L \in ReleaseLimits, first, second \in BOOLEAN : ReleaseHolder(L, first, second)
  \/ \E n \in 1..MaxJobs, w \in 0..MaxJobs, L \in ReleaseLimits : RecoverHolders(n, L, w)
  \/ DropWaiter
  \/ Cleanup

Spec == Init /\ [][Next]_vars

-----------------------------------------------------------------------------
TypeOK ==
  /\ row \in Row
  /\ holders \in Nat /\ waiters \in Nat
  /\ holders + waiters <= MaxJobs

(***************************************************************************)
(* The row passes the repository's own semaphore health check, condition   *)
(* by condition: a present row has a positive limit, between 0 and limit   *)
(* free slots, and an active_count that is NULL or not negative, whatever  *)
(* sequence of limits has been written to it.                              *)
(***************************************************************************)
RowConsistent ==
  row # NoRow =>
    /\ row.limit >= 1
    /\ row.value >= 0 /\ row.value <= row.limit
    /\ row.active = NullCount \/ row.active >= 0

(***************************************************************************)
(* active_count, kept for readers of the older schema, is NULL or exactly  *)
(* the slots in use.  The simulation test of the repository asserts it     *)
(* after every step.                                                       *)
(***************************************************************************)
BridgeCountExact == row # NoRow => row.active \in {NullCount, Occupied(row)}

(***************************************************************************)
(* No slot leaks: the row never counts more slots in use than there are    *)
(* jobs holding one, even when jobs with different limits share the key.   *)
(* A leaked slot would never be released and would block the key forever.  *)
(***************************************************************************)
NoLeakedSlot == Occupied(row) <= holders

(***************************************************************************)
(* With a single limit for the key the count is exact, hence no more jobs  *)
(* hold a slot than the limit allows.                                      *)
(***************************************************************************)
ExactForOneLimit ==
  \A L \in Limits : Limits = {L} => Occupied(row) = holders /\ holders <= L

(***************************************************************************)
(* The PostgreSQL and MySQL texts of the acquisition do to every reachable *)
(* row exactly what the portable text does, for every limit.               *)
(***************************************************************************)
DialectsAgree ==
  \A L \in Limits : /\ AcquirePostgres(row, L) = Acquire(row, L)
                    /\ AcquireMySQL(row, L) = Acquire(row, L)

\* Bulk dispatch of n jobs takes the slots that n single dispatches would.
BatchIsSingles ==
  \A L \in Limits, n \in 0..MaxJobs :
    LET many == AcquireMany(row, n, L)
        one == Acquire(many.row, L)
    IN  AcquireMany(row, n + 1, L) =
          [got |-> many.got + (IF one.ok THEN 1 ELSE 0), row |-> one.row]

\* While the row does not count more than L slots in use, recovering n + 1
\* jobs in one group is recovering n and then releasing one more: as many
\* waiters get a slot and the row ends the same.
GroupIsSingles ==
  \A L \in Limits, n \in 0..MaxJobs, w \in 0..waiters :
    (row # NoRow /\ n < Occupied(row) /\ Occupied(row) <= L) =>
      LET group == ReleaseGroup(row, n, L, w)
          waiting == w > group.unblocked
          last == ReleaseSlot(group.row, L, waiting, waiting)
      IN  ReleaseGroup(row, n + 1, L, w) =
            [unblocked |-> group.unblocked + last.unblocked, row |-> last.row]

(***************************************************************************)
(* The one statement of a bulk dispatch, and the one formula by which      *)
(* recovery gives back the slots of many jobs, do what as many single      *)
(* acquisitions and releases would, promotions of waiters included.        *)
(***************************************************************************)
BulkIsSingles == BatchIsSingles /\ GroupIsSingles
=============================================================================
