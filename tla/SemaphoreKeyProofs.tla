------------------------- MODULE SemaphoreKeyProofs -------------------------
(***************************************************************************)
(* Proofs about SemaphoreKey, for every set of limits and number of jobs.  *)
(***************************************************************************)
EXTENDS SemaphoreKey, SemaphoreRowProofs

-----------------------------------------------------------------------------
\* The inductive invariant.  NoLeakedSlot alone is not inductive: Counts adds
\* the bounds of a good row, without which re-basing could count slots that
\* nobody holds, ties the stored limit to the limits that jobs bring, and is
\* exact under a single limit.  The last conjunct bounds the jobs of the key.
IInv ==
  /\ Counts(row, holders, Limits)
  /\ waiters \in Nat
  /\ holders + waiters <= MaxJobs

\* What the invariant says of the row and the counters.
LEMMA IInvImplies ==
  ASSUME IInv
  PROVE  /\ GoodRow(row) /\ TypeOK /\ RowConsistent /\ NoLeakedSlot /\ ExactForOneLimit
         /\ ~LeftToRight => BridgeCountExact
<1>1. /\ GoodRow(row) /\ TypeOK /\ RowConsistent /\ NoLeakedSlot
      /\ ~LeftToRight => BridgeCountExact
  BY DEF IInv, Counts, GoodRow, TypeOK, RowConsistent, BridgeCountExact, Occupied,
         NoLeakedSlot, Row
<1>2. ExactForOneLimit
  BY CountsBounded, LimitsAssumption DEF IInv, ExactForOneLimit
<1>3. QED
  BY <1>1, <1>2

\* An empty table and a table of an older release satisfy the invariant.
LEMMA InitIInv == Init => IInv
<1> SUFFICES ASSUME Init PROVE IInv
  OBVIOUS
<1>1. CASE row = NoRow /\ holders = 0
  BY <1>1, NoRowCounts, MaxJobsAssumption DEF Init, IInv
<1>2. CASE \E L \in Limits : \E h \in 0..Least(L, MaxJobs) :
             /\ row = [value |-> L - h, active |-> NullCount, limit |-> L]
             /\ holders = h
  <2>1. PICK L \in Limits : \E h \in 0..Least(L, MaxJobs) :
          /\ row = [value |-> L - h, active |-> NullCount, limit |-> L]
          /\ holders = h
    BY <1>2
  <2>2. PICK h \in 0..Least(L, MaxJobs) :
          /\ row = [value |-> L - h, active |-> NullCount, limit |-> L]
          /\ holders = h
    BY <2>1
  <2>3. L \in Nat \ {0} /\ h \in Nat /\ h <= L
    BY <2>2, LimitsAssumption, MaxJobsAssumption DEF Least
  <2>4. /\ row \in Row /\ row.limit = L /\ row.value <= L
        /\ row.active = NullCount /\ Occupied(row) = h
    BY <2>2, <2>3 DEF Row, Occupied
  <2>5. Counts(row, holders, Limits)
    BY <2>2, <2>3, <2>4 DEF Counts, GoodRow
  <2>6. holders <= MaxJobs
    BY <2>2, LimitsAssumption, MaxJobsAssumption DEF Least
  <2>7. QED
    BY <2>2, <2>3, <2>5, <2>6, MaxJobsAssumption DEF Init, IInv
<1>3. QED
  BY <1>1, <1>2 DEF Init

\* Every transaction preserves the invariant.
LEMMA NextIInv == IInv /\ [Next]_vars => IInv'
<1> SUFFICES ASSUME IInv, [Next]_vars PROVE IInv'
  OBVIOUS
<1>0. /\ Counts(row, holders, Limits) /\ holders \in Nat /\ waiters \in Nat
      /\ Limits \subseteq Nat \ {0} /\ MaxJobs \in Nat /\ holders + waiters <= MaxJobs
  BY LimitsAssumption, MaxJobsAssumption DEF IInv, Counts
<1>1. ASSUME NEW n \in 1..MaxJobs, NEW L \in Limits, NEW block \in BOOLEAN,
             Dispatch(n, L, block)
      PROVE  IInv'
  <2> DEFINE a == AcquireMany(row, n, L)
  <2>1. n \in Nat \ {0}
    BY MaxJobsAssumption
  <2>2. /\ row' = a.row /\ holders' = holders + a.got
        /\ waiters' = IF block THEN waiters + (n - a.got) ELSE waiters
        /\ holders + waiters + n <= MaxJobs
    BY <1>1 DEF Dispatch
  <2> HIDE DEF a
  <2>3. a.got \in 0..n /\ Counts(a.row, holders + a.got, Limits)
    BY <1>0, <2>1, AcquireManyCounts DEF a, Admits
  <2>4. QED
    BY <1>0, <2>1, <2>2, <2>3 DEF IInv
<1>2. ASSUME NEW L \in Limits, PromoteWaiter(L)
      PROVE  IInv'
  <2> DEFINE a == Acquire(row, L)
  <2>1. /\ row' = a.row /\ waiters > 0
        /\ a.ok => holders' = holders + 1 /\ waiters' = waiters - 1
        /\ ~a.ok => holders' = holders /\ waiters' = waiters
    BY <1>2 DEF PromoteWaiter
  <2> HIDE DEF a
  <2>2. /\ a.ok => Counts(a.row, holders + 1, Limits)
        /\ ~a.ok => Counts(a.row, holders, Limits)
    BY <1>0, AcquireCounts DEF a
  <2>3. QED
    BY <1>0, <2>1, <2>2 DEF IInv
<1>3. ASSUME NEW L \in ReleaseLimits, NEW first \in BOOLEAN, NEW second \in BOOLEAN,
             ReleaseHolder(L, first, second)
      PROVE  IInv'
  <2> DEFINE a == ReleaseSlot(row, L, first, second)
  <2>1. /\ row' = a.row /\ holders > 0 /\ (first \/ second => waiters > 0)
        /\ holders' = holders - 1 + a.unblocked /\ waiters' = waiters - a.unblocked
    BY <1>3 DEF ReleaseHolder
  <2> HIDE DEF a
  <2>2. /\ a.unblocked \in {0, 1} /\ (a.unblocked = 1 => first \/ second)
        /\ Counts(a.row, holders - 1 + a.unblocked, Limits)
    BY <1>0, <2>1, ReleaseSlotCounts DEF a, ReleaseLimits
  <2>3. QED
    BY <1>0, <2>1, <2>2 DEF IInv
<1>4. ASSUME NEW n \in 1..MaxJobs, NEW w \in 0..MaxJobs, NEW L \in ReleaseLimits,
             RecoverHolders(n, L, w)
      PROVE  IInv'
  <2> DEFINE a == ReleaseGroup(row, n, L, w)
  <2>1. /\ row' = a.row /\ n \in 1..holders /\ w \in 0..waiters
        /\ holders' = holders - n + a.unblocked /\ waiters' = waiters - a.unblocked
    BY <1>4 DEF RecoverHolders
  <2> HIDE DEF a
  <2>2. n \in Nat \ {0} /\ n <= holders /\ w \in Nat
    BY <1>0, <2>1
  <2>3. /\ a.unblocked \in 0..n /\ a.unblocked \in 0..w
        /\ Counts(a.row, holders - n + a.unblocked, Limits)
    BY <1>0, <2>2, ReleaseGroupCounts DEF a, ReleaseLimits
  <2>4. QED
    BY <1>0, <2>1, <2>2, <2>3 DEF IInv
<1>5. CASE DropWaiter
  BY <1>0, <1>5 DEF DropWaiter, IInv
<1>6. CASE Cleanup
  BY <1>0, <1>6, NoRowCounts DEF Cleanup, IInv
<1>7. CASE UNCHANGED vars
  BY <1>7 DEF vars, IInv
<1>8. QED
  BY <1>1, <1>2, <1>3, <1>4, <1>5, <1>6, <1>7 DEF Next

\* So the invariant holds in every reachable state.
LEMMA InductiveInvariant == Spec => []IInv
BY InitIInv, NextIInv, PTL DEF Spec

\* The row is absent or a row of the table, and no transaction makes up or
\* counts twice a job of the key: holders and waiters together stay within the
\* jobs there are.
THEOREM TypeAlways == Spec => []TypeOK
BY IInvImplies, InductiveInvariant, PTL

(***************************************************************************)
(* Whatever limits are brought to a key, in whatever order and on whatever *)
(* database, its row passes the semaphore health check after every         *)
(* transaction.                                                            *)
(***************************************************************************)
THEOREM RowConsistentAlways == Spec => []RowConsistent
BY IInvImplies, InductiveInvariant, PTL

(***************************************************************************)
(* Where an UPDATE evaluates its expressions on the old row, as PostgreSQL *)
(* and SQLite do, active_count is exact after every transaction.           *)
(***************************************************************************)
THEOREM BridgeCountExactAlways ==
  ASSUME ~LeftToRight
  PROVE  Spec => []BridgeCountExact
<1>1. IInv => BridgeCountExact
  BY IInvImplies
<1>2. QED
  BY <1>1, InductiveInvariant, PTL

(***************************************************************************)
(* No sequence of dispatches, releases, hand-offs, recoveries and cleanups *)
(* leaks a slot, for every mix of limits on one key.                       *)
(***************************************************************************)
THEOREM NoLeakedSlotAlways == Spec => []NoLeakedSlot
BY IInvImplies, InductiveInvariant, PTL

(***************************************************************************)
(* A key with one limit never has more holders than the limit, and its row *)
(* counts them exactly.                                                    *)
(***************************************************************************)
THEOREM ExactForOneLimitAlways == Spec => []ExactForOneLimit
BY IInvImplies, InductiveInvariant, PTL

(***************************************************************************)
(* The three texts of the acquisition are the same function of the row and *)
(* the limit, on every row that a transaction can leave.                   *)
(***************************************************************************)
THEOREM DialectsAgreeAlways == Spec => []DialectsAgree
<1>1. IInv => DialectsAgree
  BY PostgresAcquireAgrees, MySQLAcquireAgrees, IInvImplies, LimitsAssumption
  DEF DialectsAgree
<1>2. QED
  BY <1>1, InductiveInvariant, PTL

(***************************************************************************)
(* The bulk statements of dispatch and recovery do what as many single     *)
(* acquisitions and releases would, on every row that a transaction can    *)
(* leave, for groups of any size.  As for the bridge column, updates that  *)
(* see their own assignments are left out: there the rows differ in it.    *)
(***************************************************************************)
THEOREM BulkIsSinglesAlways ==
  ASSUME ~LeftToRight
  PROVE  Spec => []BulkIsSingles
<1>1. IInv => BatchIsSingles
  <2> SUFFICES ASSUME IInv, NEW L \in Limits, NEW n \in 0..MaxJobs
               PROVE  LET many == AcquireMany(row, n, L)
                          one == Acquire(many.row, L)
                      IN  AcquireMany(row, n + 1, L) =
                            [got |-> many.got + (IF one.ok THEN 1 ELSE 0), row |-> one.row]
    BY DEF BatchIsSingles
  <2>1. GoodRow(row) /\ n \in Nat /\ L \in Nat \ {0}
    BY IInvImplies, LimitsAssumption, MaxJobsAssumption
  <2>2. QED
    BY <2>1, AcquireManyStep
<1>2. IInv => GroupIsSingles
  <2> SUFFICES ASSUME IInv, NEW L \in Limits, NEW n \in 0..MaxJobs, NEW w \in 0..waiters,
                      row # NoRow, n < Occupied(row), Occupied(row) <= L
               PROVE  LET group == ReleaseGroup(row, n, L, w)
                          waiting == w > group.unblocked
                          last == ReleaseSlot(group.row, L, waiting, waiting)
                      IN  ReleaseGroup(row, n + 1, L, w) =
                            [unblocked |-> group.unblocked + last.unblocked, row |-> last.row]
    BY DEF GroupIsSingles
  <2>1. GoodRow(row) /\ n \in Nat /\ w \in Nat /\ L \in Nat \ {0}
    BY IInvImplies, LimitsAssumption, MaxJobsAssumption DEF IInv
  <2>2. QED
    BY <2>1, ReleaseGroupStep
<1>3. IInv => BulkIsSingles
  BY <1>1, <1>2 DEF BulkIsSingles
<1>4. QED
  BY <1>3, InductiveInvariant, PTL
=============================================================================
