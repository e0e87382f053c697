--------------------------- MODULE JobStoreProofs ---------------------------
(***************************************************************************)
(* Proofs about JobStore, for every set of jobs, processes, keys, limits   *)
(* and backends: first of its tables, then of its semaphores.              *)
(***************************************************************************)
EXTENDS JobStoreKeys, SemaphoreRowProofs, FiniteSetTheorems

\* Every semaphore row is one that the row lemmas apply to.
RowsGood == \A k \in Keys : GoodRow(sem[k])

\* Only jobs with a key wait for a slot.
BlockedHaveKey == \A j \in blocked : Key[j] \in Keys

(***************************************************************************)
(* The inductive invariant of the tables.                                  *)
(***************************************************************************)
IInv == TypeOK /\ OneState /\ ClaimsOwned /\ RowsGood /\ BlockedHaveKey

-----------------------------------------------------------------------------
\* The jobs of one key are finitely many, so their number is a natural.
LEMMA OfKeyFinite ==
  ASSUME NEW S, S \subseteq Jobs, NEW k
  PROVE  /\ OfKey(S, k) \subseteq S
         /\ IsFiniteSet(OfKey(S, k))
         /\ Cardinality(OfKey(S, k)) \in Nat
         /\ Cardinality(OfKey(S, k)) = 0 <=> OfKey(S, k) = {}
<1>1. OfKey(S, k) \subseteq S
  BY DEF OfKey
<1>2. IsFiniteSet(OfKey(S, k))
  BY <1>1, FS_Subset, ConstantsAssumption
<1>3. QED
  BY <1>1, <1>2, FS_CardinalityType, FS_EmptySet

\* A nonempty group brings a legal limit.
LEMMA GroupLimitType ==
  ASSUME NEW S, S \subseteq Jobs, NEW k, OfKey(S, k) # {}
  PROVE  GroupLimit(S, k) \in Nat \ {0}
BY ConstantsAssumption DEF GroupLimit, OfKey

\* Dispatching leaves good rows.
LEMMA DispatchSem ==
  ASSUME IInv, NEW S, S \subseteq Jobs, NEW granted, DispatchRows(S, granted)
  PROVE  sem' \in [Keys -> Row] /\ RowsGood'
<1> DEFINE grant(k) == AcquireMany(sem[k], Cardinality(OfKey(S, k)), GroupLimit(S, k))
<1>1. ASSUME NEW k \in Keys
      PROVE  GoodRow(grant(k).row)
  <2>1. GoodRow(sem[k])
    BY <1>1 DEF IInv, RowsGood
  <2>2. Cardinality(OfKey(S, k)) \in Nat
    BY OfKeyFinite
  <2>3. CASE OfKey(S, k) = {}
    <3>1. Cardinality(OfKey(S, k)) = 0
      BY <2>3, OfKeyFinite
    <3>2. grant(k).row = sem[k]
      BY <3>1 DEF AcquireMany
    <3>3. QED
      BY <2>1, <3>2
  <2>4. CASE OfKey(S, k) # {}
    BY <2>1, <2>2, <2>4, GroupLimitType, AcquireManyEffect
  <2>5. QED
    BY <2>3, <2>4
<1>2. sem' = [k \in Keys |-> grant(k).row]
  BY DEF DispatchRows
<1> HIDE DEF grant
<1>3. QED
  BY <1>1, <1>2 DEF RowsGood, GoodRow

\* The limits that a releasing job may bring are legal.
LEMMA ReleaseLimitsType ==
  ASSUME IInv, NEW j \in Jobs, Key[j] # NoKey, NEW L \in ReleaseLimits(j)
  PROVE  L \in Nat \ {0}
<1>1. Key[j] \in Keys
  BY ConstantsAssumption
<1>2. GoodRow(sem[Key[j]])
  BY <1>1 DEF IInv, RowsGood
<1>3. Limit[j] \in Nat \ {0}
  BY ConstantsAssumption
<1>4. FallbackLimit(sem[Key[j]]) \in Nat \ {0}
  BY <1>2 DEF FallbackLimit, GoodRow, Row
<1>5. QED
  BY <1>3, <1>4 DEF ReleaseLimits

\* A release moves at most one waiter of the key to the ready table and leaves
\* good rows.
LEMMA PassSlotEffect ==
  ASSUME IInv, NEW j \in Jobs, NEW rdy, NEW cl, PassSlot(j, rdy, cl)
  PROVE  /\ sem' \in [Keys -> Row] /\ RowsGood'
         /\ \/ ready' = rdy /\ blocked' = blocked
            \/ \E w \in blocked :
                 /\ w \notin rdy \cup scheduled \cup cl \cup failed
                 /\ ready' = rdy \cup {w} /\ blocked' = blocked \ {w}
<1>1. CASE Key[j] = NoKey /\ ready' = rdy /\ UNCHANGED <<blocked, sem>>
  BY <1>1 DEF IInv, TypeOK, RowsGood
<1>2. CASE Key[j] # NoKey
  <2> DEFINE k == Key[j]
             waiting == Waiters(k, Backend[j])
             some == waiting # {}
             r(L, first) == ReleaseSlot(sem[k], L, first /\ some, some)
  <2>1. PICK L \in ReleaseLimits(j), first \in BOOLEAN :
          /\ sem' = [sem EXCEPT ![k] = r(L, first).row]
          /\ \/ r(L, first).unblocked = 0 /\ ready' = rdy /\ blocked' = blocked
             \/ /\ r(L, first).unblocked = 1
                /\ \E w \in waiting :
                     /\ w \notin rdy \cup scheduled \cup cl \cup failed
                     /\ ready' = rdy \cup {w} /\ blocked' = blocked \ {w}
    BY <1>2 DEF PassSlot, Wake
  <2>2. waiting \subseteq blocked
    BY DEF Waiters, OfKey
  <2>3. k \in Keys /\ GoodRow(sem[k]) /\ L \in Nat \ {0}
    BY <1>2, ConstantsAssumption, ReleaseLimitsType DEF IInv, RowsGood
  <2>4. GoodRow(r(L, first).row)
    <3>1. (first /\ some) \in BOOLEAN /\ some \in BOOLEAN
      OBVIOUS
    <3> HIDE DEF some
    <3>2. QED
      BY <2>3, <3>1, ReleaseSlotEffect
  <2> HIDE DEF r, waiting, k
  <2>5. sem' \in [Keys -> Row] /\ RowsGood'
    BY <2>1, <2>3, <2>4 DEF IInv, TypeOK, RowsGood, GoodRow
  <2>6. QED
    BY <2>1, <2>2, <2>5
<1>3. QED
  BY <1>1, <1>2 DEF PassSlot, Wake

\* Recovery moves waiters to the ready table and leaves good rows.
LEMMA RecoverEffect ==
  ASSUME IInv, NEW S, NEW promoted, RecoverClaims(S, promoted)
  PROVE  /\ sem' \in [Keys -> Row] /\ RowsGood'
         /\ S \subseteq claimed /\ promoted \subseteq blocked
         /\ S \cap (ready \cup scheduled \cup blocked \cup failed) = {}
         /\ claimed' = claimed \ S /\ failed' = failed \cup S
         /\ ready' = ready \cup promoted /\ blocked' = blocked \ promoted
         /\ jobs' = jobs /\ finished' = finished /\ scheduled' = scheduled
         /\ retryAt' = retryAt
<1> DEFINE visible(k) == {w \in OfKey(blocked, k) : \E j \in S : Backend[w] = Backend[j]}
           freed(k) == OfKey(S, k)
           r(lim, k) == IF freed(k) = {} THEN [unblocked |-> 0, row |-> sem[k]]
                        ELSE ReleaseGroup(sem[k], Cardinality(freed(k)), lim[k],
                                          Cardinality(visible(k)))
<1>1. /\ S \subseteq claimed /\ promoted \subseteq Limited(blocked)
      /\ NoRowIn(S, ready \cup scheduled \cup blocked \cup failed)
      /\ claimed' = claimed \ S /\ failed' = failed \cup S
      /\ ready' = ready \cup promoted /\ blocked' = blocked \ promoted
      /\ UNCHANGED <<jobs, finished, scheduled, retryAt>>
  BY DEF RecoverClaims
<1>2. PICK lim \in [Keys -> (UNION {ReleaseLimits(j) : j \in Limited(S)}) \cup {1}] :
        /\ \A j \in Limited(S) : lim[Key[j]] \in ReleaseLimits(j)
        /\ sem' = [k \in Keys |-> r(lim, k).row]
  BY DEF RecoverClaims
<1>3. ASSUME NEW k \in Keys
      PROVE  GoodRow(r(lim, k).row)
  <2>1. GoodRow(sem[k])
    BY <1>3 DEF IInv, RowsGood
  <2>2. CASE freed(k) = {}
    BY <2>1, <2>2
  <2>3. CASE freed(k) # {}
    <3>1. PICK j \in S : Key[j] = k
      BY <2>3 DEF OfKey
    <3>2. j \in Limited(S) /\ j \in Jobs /\ S \subseteq Jobs /\ blocked \subseteq Jobs
      BY <1>1, <1>3, <3>1, ConstantsAssumption DEF Limited, IInv, TypeOK
    <3>3. lim[k] \in Nat \ {0}
      BY <1>2, <3>1, <3>2, ReleaseLimitsType DEF Limited
    <3>4. Cardinality(freed(k)) \in Nat
      BY <3>2, OfKeyFinite
    <3>5. visible(k) \subseteq blocked
      BY DEF OfKey
    <3>6. Cardinality(visible(k)) \in Nat
      BY <3>2, <3>5, FS_Subset, FS_CardinalityType, ConstantsAssumption
    <3>7. r(lim, k) = ReleaseGroup(sem[k], Cardinality(freed(k)), lim[k],
                                   Cardinality(visible(k)))
      BY <2>3
    <3> HIDE DEF r
    <3>8. ASSUME NEW n \in Nat, NEW L \in Nat \ {0}, NEW w \in Nat
          PROVE  GoodRow(ReleaseGroup(sem[k], n, L, w).row)
      BY <2>1, ReleaseGroupEffect
    <3> HIDE DEF freed, visible
    <3>9. QED
      BY <3>3, <3>4, <3>6, <3>7, <3>8
  <2>4. QED
    BY <2>2, <2>3
<1> HIDE DEF r
<1>4. sem' \in [Keys -> Row] /\ RowsGood'
  BY <1>2, <1>3 DEF RowsGood, GoodRow
<1>5. QED
  BY <1>1, <1>4 DEF NoRowIn, Limited

-----------------------------------------------------------------------------
\* An empty database and one of an older release satisfy the invariant.
LEMMA InitIInv == Init => IInv
<1> SUFFICES ASSUME Init PROVE IInv
  OBVIOUS
<1>1. GoodRow(NoRow)
  BY NoRowIsEmpty DEF GoodRow
<1>2. TypeOK
  BY <1>1, ConstantsAssumption DEF Init, TypeOK, GoodRow
<1>3. OneState
  BY ConstantsAssumption DEF Init, OneState
<1>4. ClaimsOwned
  BY DEF Init, ClaimsOwned
<1>5. RowsGood /\ BlockedHaveKey
  BY <1>1 DEF Init, RowsGood, BlockedHaveKey
<1>6. QED
  BY <1>2, <1>3, <1>4, <1>5 DEF IInv

\* Submitting jobs.
LEMMA EnqueueIInv ==
  ASSUME IInv, NEW S, S \subseteq Jobs, NEW later, NEW granted,
         Enqueue(S, later, granted)
  PROVE  IInv'
<1> DEFINE D == S \ later
<1>1. sem' \in [Keys -> Row] /\ RowsGood'
  BY DispatchSem DEF Enqueue
<1>2. /\ S \cap jobs = {} /\ later \subseteq S /\ granted \subseteq Limited(D)
      /\ ready' = ready \cup (D \ Limited(D)) \cup granted
      /\ blocked' = blocked \cup ((Limited(D) \ granted) \cap Blocks)
      /\ finished' = finished \cup ((Limited(D) \ granted) \ Blocks)
      /\ jobs' = jobs \cup S /\ scheduled' = scheduled \cup later
      /\ UNCHANGED <<claimed, failed, retryAt, owner, procs>>
  BY DEF Enqueue, DispatchRows, Discarded
<1>3. Limited(D) \subseteq D /\ \A j \in Limited(D) : Key[j] \in Keys
  BY ConstantsAssumption DEF Limited
<1> HIDE DEF D
<1>4. D \subseteq S /\ D = S \ later
  BY DEF D
<1>5. TypeOK'
  BY <1>1, <1>2, <1>3, <1>4 DEF IInv, TypeOK
<1>6. OneState'
  <2>1. OneState
    BY DEF IInv
  <2>2. (jobs = ready \cup scheduled \cup blocked \cup claimed \cup failed \cup finished)'
    BY ONLY <1>2, <1>3, <1>4, <2>1 DEF OneState
  <2>3. (ready \cap (scheduled \cup blocked \cup claimed \cup failed \cup finished) = {})'
    BY ONLY <1>2, <1>3, <1>4, <2>1 DEF OneState
  <2>4. /\ (scheduled \cap (blocked \cup claimed \cup failed \cup finished) = {})'
        /\ (claimed \cap (failed \cup finished) = {})'
    BY ONLY <1>2, <1>3, <1>4, <2>1 DEF OneState
  <2>5. /\ (blocked \cap (claimed \cup failed \cup finished) = {})'
        /\ (failed \cap finished = {})'
    BY ONLY <1>2, <1>3, <1>4, <2>1 DEF OneState
  <2>6. QED
    BY <2>2, <2>3, <2>4, <2>5 DEF OneState
<1>7. ClaimsOwned' /\ BlockedHaveKey'
  BY <1>2, <1>3 DEF IInv, ClaimsOwned, BlockedHaveKey
<1>8. QED
  BY <1>1, <1>5, <1>6, <1>7 DEF IInv

\* Dispatching scheduled jobs.
LEMMA PromoteScheduledIInv ==
  ASSUME IInv, NEW S, NEW bad, NEW granted, PromoteScheduled(S, bad, granted)
  PROVE  IInv'
<1> DEFINE D == S \ bad
<1>1. S \subseteq scheduled /\ S \subseteq Jobs
  BY DEF PromoteScheduled, IInv, TypeOK
<1>2. sem' \in [Keys -> Row] /\ RowsGood'
  BY <1>1, DispatchSem DEF PromoteScheduled
<1>3. /\ bad \subseteq S /\ granted \subseteq Limited(D)
      /\ ready' = ready \cup (D \ Limited(D)) \cup granted
      /\ blocked' = blocked \cup ((Limited(D) \ granted) \cap Blocks)
      /\ finished' = finished \cup ((Limited(D) \ granted) \ Blocks)
      /\ scheduled' = scheduled \ S /\ failed' = failed \cup bad
      /\ UNCHANGED <<jobs, claimed, retryAt, owner, procs>>
  BY DEF PromoteScheduled, DispatchRows, Discarded, Unresolvable, Limited
<1>4. Limited(D) \subseteq D /\ \A j \in Limited(D) : Key[j] \in Keys
  BY <1>1, ConstantsAssumption DEF Limited
<1> HIDE DEF D
<1>5. D = S \ bad
  BY DEF D
<1>6. TypeOK'
  BY <1>1, <1>2, <1>3, <1>4, <1>5 DEF IInv, TypeOK
<1>7. OneState'
  <2>1. OneState
    BY DEF IInv
  <2>2. (jobs = ready \cup scheduled \cup blocked \cup claimed \cup failed \cup finished)'
    BY ONLY <1>1, <1>3, <1>4, <1>5, <2>1 DEF OneState
  <2>3. (ready \cap (scheduled \cup blocked \cup claimed \cup failed \cup finished) = {})'
    BY ONLY <1>1, <1>3, <1>4, <1>5, <2>1 DEF OneState
  <2>4. /\ (scheduled \cap (blocked \cup claimed \cup failed \cup finished) = {})'
        /\ (claimed \cap (failed \cup finished) = {})'
    BY ONLY <1>1, <1>3, <1>4, <1>5, <2>1 DEF OneState
  <2>5. /\ (blocked \cap (claimed \cup failed \cup finished) = {})'
        /\ (failed \cap finished = {})'
    BY ONLY <1>1, <1>3, <1>4, <1>5, <2>1 DEF OneState
  <2>6. QED
    BY <2>2, <2>3, <2>4, <2>5 DEF OneState
<1>8. ClaimsOwned' /\ BlockedHaveKey'
  BY <1>3, <1>4 DEF IInv, ClaimsOwned, BlockedHaveKey
<1>9. QED
  BY <1>2, <1>6, <1>7, <1>8 DEF IInv

\* Retrying failed jobs.
LEMMA RetryFailedIInv ==
  ASSUME IInv, NEW S, NEW bad, NEW later, NEW granted,
         RetryFailed(S, bad, later, granted)
  PROVE  IInv'
<1> DEFINE D == S \ (bad \cup later)
<1>1. S \subseteq failed /\ S \subseteq Jobs
  BY DEF RetryFailed, IInv, TypeOK
<1>2. sem' \in [Keys -> Row] /\ RowsGood'
  BY <1>1, DispatchSem DEF RetryFailed
<1>3. /\ later \subseteq S /\ bad \subseteq S \ later /\ granted \subseteq Limited(D)
      /\ ready' = ready \cup (D \ Limited(D)) \cup granted
      /\ blocked' = blocked \cup ((Limited(D) \ granted) \cap Blocks)
      /\ finished' = (finished \ S) \cup ((Limited(D) \ granted) \ Blocks)
      /\ failed' = (failed \ S) \cup bad /\ retryAt' = retryAt \ S
      /\ scheduled' = scheduled \cup later
      /\ UNCHANGED <<jobs, claimed, owner, procs>>
  BY DEF RetryFailed, DispatchRows, Discarded, Unresolvable, Limited
<1>4. Limited(D) \subseteq D /\ \A j \in Limited(D) : Key[j] \in Keys
  BY <1>1, ConstantsAssumption DEF Limited
<1> HIDE DEF D
<1>5. D = S \ (bad \cup later)
  BY DEF D
<1>6. TypeOK'
  BY <1>1, <1>2, <1>3, <1>4, <1>5 DEF IInv, TypeOK
<1>7. OneState'
  <2>1. OneState
    BY DEF IInv
  <2>2. (jobs = ready \cup scheduled \cup blocked \cup claimed \cup failed \cup finished)'
    BY ONLY <1>1, <1>3, <1>4, <1>5, <2>1 DEF OneState
  <2>3. (ready \cap (scheduled \cup blocked \cup claimed \cup failed \cup finished) = {})'
    BY ONLY <1>1, <1>3, <1>4, <1>5, <2>1 DEF OneState
  <2>4. /\ (scheduled \cap (blocked \cup claimed \cup failed \cup finished) = {})'
        /\ (claimed \cap (failed \cup finished) = {})'
    BY ONLY <1>1, <1>3, <1>4, <1>5, <2>1 DEF OneState
  <2>5. /\ (blocked \cap (claimed \cup failed \cup finished) = {})'
        /\ (failed \cap finished = {})'
    BY ONLY <1>1, <1>3, <1>4, <1>5, <2>1 DEF OneState
  <2>6. QED
    BY <2>2, <2>3, <2>4, <2>5 DEF OneState
<1>8. ClaimsOwned' /\ BlockedHaveKey'
  BY <1>3, <1>4 DEF IInv, ClaimsOwned, BlockedHaveKey
<1>9. QED
  BY <1>2, <1>6, <1>7, <1>8 DEF IInv

\* Scheduling a retry, and the process registry.
LEMMA RegistryIInv ==
  ASSUME IInv,
         \/ \E j \in failed : ScheduleRetry(j)
         \/ \E p \in Procs : Register(p) \/ RemoveProcess(p)
  PROVE  IInv'
<1>1. ASSUME NEW j \in failed, ScheduleRetry(j) PROVE IInv'
  BY <1>1 DEF ScheduleRetry, tables, IInv, TypeOK, OneState, ClaimsOwned, RowsGood,
              BlockedHaveKey
<1>2. ASSUME NEW p \in Procs, Register(p) PROVE IInv'
  BY <1>2 DEF Register, tables, IInv, TypeOK, OneState, ClaimsOwned, RowsGood,
              BlockedHaveKey
<1>3. ASSUME NEW p \in Procs, RemoveProcess(p) PROVE IInv'
  BY <1>3, ConstantsAssumption
  DEF RemoveProcess, Orphaned, tables, IInv, TypeOK, OneState, ClaimsOwned, RowsGood,
      BlockedHaveKey
<1>4. QED
  BY <1>1, <1>2, <1>3

\* Claiming ready jobs.
LEMMA ClaimIInv ==
  ASSUME IInv, NEW p, NEW S, Claim(p, S)
  PROVE  IInv'
<1>1. TypeOK'
  BY DEF Claim, IInv, TypeOK
<1>2. OneState'
  BY DEF Claim, IInv, OneState
<1>3. ClaimsOwned'
  BY DEF Claim, IInv, ClaimsOwned, TypeOK
<1>4. RowsGood' /\ BlockedHaveKey'
  BY DEF Claim, IInv, RowsGood, BlockedHaveKey
<1>5. QED
  BY <1>1, <1>2, <1>3, <1>4 DEF IInv

\* The end of a claimed job.
LEMMA SettleIInv ==
  ASSUME IInv, NEW j, Complete(j) \/ Fail(j)
  PROVE  IInv'
<1>1. j \in claimed /\ j \in Jobs
  BY DEF Complete, Fail, IInv, TypeOK
<1>2. PassSlot(j, ready, claimed \ {j})
  BY DEF Complete, Fail
<1>3. /\ sem' \in [Keys -> Row] /\ RowsGood'
      /\ \/ ready' = ready /\ blocked' = blocked
         \/ \E w \in blocked : ready' = ready \cup {w} /\ blocked' = blocked \ {w}
  BY <1>1, <1>2, PassSlotEffect
<1>4. \/ jobs' = jobs /\ finished' = finished \cup {j} /\ failed' = failed
      \/ jobs' = jobs \ {j} /\ finished' = finished \ {j} /\ failed' = failed
      \/ jobs' = jobs /\ finished' = finished /\ failed' = failed \cup {j}
  BY DEF Complete, Fail, Finish
<1>5. /\ claimed' = claimed \ {j} /\ owner' = Unclaim({j})
      /\ UNCHANGED <<scheduled, retryAt, procs>>
  BY DEF Complete, Fail
<1>6. TypeOK'
  BY <1>1, <1>3, <1>4, <1>5 DEF IInv, TypeOK, Unclaim
<1>7. OneState'
  <2>1. CASE ready' = ready /\ blocked' = blocked
    BY <1>1, <1>4, <1>5, <2>1 DEF IInv, OneState
  <2>2. ASSUME NEW w \in blocked, ready' = ready \cup {w}, blocked' = blocked \ {w}
        PROVE  OneState'
    BY <1>1, <1>4, <1>5, <2>2 DEF IInv, OneState
  <2>3. QED
    BY <1>3, <2>1, <2>2
<1>8. ClaimsOwned'
  BY <1>1, <1>5 DEF IInv, ClaimsOwned, Unclaim, TypeOK
<1>9. BlockedHaveKey'
  BY <1>3 DEF IInv, BlockedHaveKey
<1>10. QED
  BY <1>3, <1>6, <1>7, <1>8, <1>9 DEF IInv

\* Recovery, by whichever of its callers.
LEMMA RecoverIInv ==
  ASSUME IInv, NEW S, NEW promoted,
         \/ FailOrphaned(S, promoted)
         \/ FailClaimedForProcess(S, promoted)
         \/ \E p \in procs : PruneProcess(p, S, promoted)
  PROVE  IInv'
<1>1. ASSUME RecoverClaims(S, promoted)
      PROVE  /\ sem' \in [Keys -> Row] /\ RowsGood' /\ OneState' /\ BlockedHaveKey'
             /\ jobs' \subseteq Jobs /\ finished' \subseteq Jobs /\ ready' \subseteq Jobs
             /\ scheduled' \subseteq Jobs /\ blocked' \subseteq Jobs
             /\ claimed' = claimed \ S /\ claimed' \subseteq Jobs
             /\ failed' \subseteq Jobs /\ retryAt' \subseteq failed'
  <2>1. /\ sem' \in [Keys -> Row] /\ RowsGood'
        /\ S \subseteq claimed /\ promoted \subseteq blocked
        /\ S \cap (ready \cup scheduled \cup blocked \cup failed) = {}
        /\ claimed' = claimed \ S /\ failed' = failed \cup S
        /\ ready' = ready \cup promoted /\ blocked' = blocked \ promoted
        /\ jobs' = jobs /\ finished' = finished /\ scheduled' = scheduled
        /\ retryAt' = retryAt
    BY <1>1, RecoverEffect
  <2>2. OneState'
    BY <2>1 DEF IInv, OneState
  <2>3. QED
    BY <2>1, <2>2 DEF IInv, TypeOK, BlockedHaveKey
<1>2. CASE FailOrphaned(S, promoted) \/ FailClaimedForProcess(S, promoted)
  <2>1. RecoverClaims(S, promoted) /\ owner' = Unclaim(S) /\ procs' = procs
    BY <1>2 DEF FailOrphaned, FailClaimedForProcess
  <2>2. TypeOK'
    BY <1>1, <2>1 DEF IInv, TypeOK, Unclaim
  <2>3. ClaimsOwned'
    BY <1>1, <2>1 DEF IInv, ClaimsOwned, Unclaim, TypeOK
  <2>4. QED
    BY <1>1, <2>1, <2>2, <2>3 DEF IInv
<1>3. ASSUME NEW p \in procs, PruneProcess(p, S, promoted)
      PROVE  IInv'
  <2>1. /\ S \subseteq Claims(p) /\ procs' = procs \ {p} /\ owner' = Orphaned(p)
        /\ \/ UNCHANGED <<jobs, finished, tables, retryAt, sem>>
           \/ RecoverClaims(S, promoted)
    BY <1>3 DEF PruneProcess
  <2>2. owner' \in [Jobs -> Procs \cup {NoProc}] /\ procs' \subseteq Procs
    BY <2>1 DEF Orphaned, IInv, TypeOK
  <2>3. /\ sem' \in [Keys -> Row] /\ RowsGood' /\ OneState' /\ BlockedHaveKey'
        /\ jobs' \subseteq Jobs /\ finished' \subseteq Jobs /\ ready' \subseteq Jobs
        /\ scheduled' \subseteq Jobs /\ blocked' \subseteq Jobs
        /\ claimed \ S \subseteq claimed' /\ claimed' \subseteq Jobs
        /\ failed' \subseteq Jobs /\ retryAt' \subseteq failed'
    <3>1. CASE UNCHANGED <<jobs, finished, tables, retryAt, sem>>
      BY <3>1 DEF tables, IInv, TypeOK, OneState, RowsGood, BlockedHaveKey
    <3>2. CASE RecoverClaims(S, promoted)
      BY <1>1, <3>2
    <3>3. QED
      BY <2>1, <3>1, <3>2
  <2>4. ClaimsOwned'
    BY <2>1, <2>3 DEF IInv, ClaimsOwned, Orphaned, Claims, TypeOK
  <2>5. TypeOK'
    BY <2>2, <2>3 DEF TypeOK
  <2>6. QED
    BY <2>3, <2>4, <2>5 DEF IInv
<1>4. QED
  BY <1>2, <1>3

\* Expiry maintenance of a blocked job.
LEMMA PromoteBlockedIInv ==
  ASSUME IInv, NEW j, PromoteBlocked(j)
  PROVE  IInv'
<1>1. j \in blocked /\ j \in Jobs /\ Key[j] \in Keys /\ Limit[j] \in Nat \ {0}
  BY ConstantsAssumption DEF PromoteBlocked, IInv, TypeOK, BlockedHaveKey
<1>2. UNCHANGED <<jobs, finished, scheduled, claimed, retryAt, owner, procs>>
  BY DEF PromoteBlocked
<1>3. CASE blocked' = blocked \ {j} /\ failed' = failed \cup {j} /\ UNCHANGED <<ready, sem>>
  BY <1>1, <1>2, <1>3
  DEF IInv, TypeOK, OneState, ClaimsOwned, RowsGood, BlockedHaveKey
<1>4. CASE LET r == Acquire(sem[Key[j]], Limit[j]) IN
           /\ sem' = [sem EXCEPT ![Key[j]] = r.row]
           /\ IF r.ok THEN ready' = ready \cup {j} /\ blocked' = blocked \ {j}
                      ELSE UNCHANGED <<ready, blocked>>
           /\ UNCHANGED failed
  <2> DEFINE r == Acquire(sem[Key[j]], Limit[j])
  <2>1. GoodRow(r.row)
    BY <1>1, AcquireEffect DEF IInv, RowsGood
  <2>2. sem' = [sem EXCEPT ![Key[j]] = r.row]
    BY <1>4
  <2>3. \/ ready' = ready \cup {j} /\ blocked' = blocked \ {j}
        \/ UNCHANGED <<ready, blocked>>
    BY <1>4
  <2>4. failed' = failed
    BY <1>4
  <2> HIDE DEF r
  <2>5. sem' \in [Keys -> Row] /\ RowsGood'
    BY <1>1, <2>1, <2>2 DEF IInv, TypeOK, RowsGood, GoodRow
  <2>6. TypeOK' /\ ClaimsOwned' /\ BlockedHaveKey'
    BY <1>1, <1>2, <2>3, <2>4, <2>5 DEF IInv, TypeOK, ClaimsOwned, BlockedHaveKey
  <2>7. OneState'
    BY <1>1, <1>2, <2>3, <2>4 DEF IInv, OneState
  <2>8. QED
    BY <2>5, <2>6, <2>7 DEF IInv
<1>5. QED
  BY <1>3, <1>4 DEF PromoteBlocked

\* Discarding a ready job, with the slot it holds.
LEMMA DiscardReadyIInv ==
  ASSUME IInv, NEW j, DiscardReady(j)
  PROVE  IInv'
<1>1. j \in ready /\ j \in Jobs
  BY DEF DiscardReady, IInv, TypeOK
<1>2. /\ sem' \in [Keys -> Row] /\ RowsGood'
      /\ \/ ready' = ready \ {j} /\ blocked' = blocked
         \/ \E w \in blocked :
              ready' = (ready \ {j}) \cup {w} /\ blocked' = blocked \ {w}
  BY <1>1, PassSlotEffect DEF DiscardReady
<1>3. /\ jobs' = jobs \ {j} /\ finished' = finished \ {j}
      /\ UNCHANGED <<scheduled, claimed, failed, retryAt, owner, procs>>
  BY DEF DiscardReady
<1>4. TypeOK' /\ ClaimsOwned' /\ BlockedHaveKey'
  BY <1>2, <1>3 DEF IInv, TypeOK, ClaimsOwned, BlockedHaveKey
<1>5. OneState'
  <2>1. CASE ready' = ready \ {j} /\ blocked' = blocked
    BY <1>1, <1>3, <2>1 DEF IInv, OneState
  <2>2. ASSUME NEW w \in blocked, ready' = (ready \ {j}) \cup {w}, blocked' = blocked \ {w}
        PROVE  OneState'
    BY <1>1, <1>3, <2>2 DEF IInv, OneState
  <2>3. QED
    BY <1>2, <2>1, <2>2
<1>6. QED
  BY <1>2, <1>4, <1>5 DEF IInv

\* Deleting a job that holds no slot.
LEMMA DeleteJobIInv ==
  ASSUME IInv, NEW j, DeleteJob(j)
  PROVE  IInv'
<1>1. TypeOK' /\ ClaimsOwned' /\ RowsGood' /\ BlockedHaveKey'
  BY DEF DeleteJob, IInv, TypeOK, ClaimsOwned, RowsGood, BlockedHaveKey
<1>2. OneState'
  BY DEF DeleteJob, IInv, OneState
<1>3. QED
  BY <1>1, <1>2 DEF IInv

\* Deleting an expired semaphore.
LEMMA CleanupIInv ==
  ASSUME IInv, NEW k \in Keys, CleanupSemaphore(k)
  PROVE  IInv'
<1>1. GoodRow(NoRow)
  BY NoRowIsEmpty DEF GoodRow
<1>2. QED
  BY <1>1 DEF CleanupSemaphore, tables, IInv, TypeOK, OneState, ClaimsOwned, RowsGood,
              BlockedHaveKey, GoodRow

\* Every transaction preserves the invariant.
LEMMA NextIInv == IInv /\ [Next]_vars => IInv'
<1> SUFFICES ASSUME IInv, [Next]_vars PROVE IInv'
  OBVIOUS
<1>1. CASE Submit
  BY <1>1, EnqueueIInv DEF Submit
<1>2. CASE Redispatch
  BY <1>2, PromoteScheduledIInv DEF Redispatch, DispatchNow
<1>3. CASE Retry
  BY <1>3, RegistryIInv, RetryFailedIInv DEF Retry, RetryFailedJob, PromoteFailedRetries
<1>4. CASE Run
  BY <1>4, ClaimIInv, SettleIInv DEF Run
<1>5. CASE Recover
  BY <1>5, RecoverIInv DEF Recover
<1>6. CASE Discard
  BY <1>6, DiscardReadyIInv, DeleteJobIInv
  DEF Discard, DiscardScheduled, DiscardBlocked, DiscardFailed, ClearFailed, ClearFinished
<1>7. CASE Maintain
  BY <1>7, PromoteBlockedIInv, CleanupIInv DEF Maintain
<1>8. CASE \E p \in Procs : Register(p) \/ RemoveProcess(p)
  BY <1>8, RegistryIInv
<1>9. CASE UNCHANGED vars
  BY <1>9 DEF vars, IInv, TypeOK, OneState, ClaimsOwned, RowsGood, BlockedHaveKey
<1>10. QED
  BY <1>1, <1>2, <1>3, <1>4, <1>5, <1>6, <1>7, <1>8, <1>9 DEF Next

\* So the invariant holds in every reachable state.
LEMMA InductiveInvariant == Spec => []IInv
BY InitIInv, NextIInv, PTL DEF Spec

(***************************************************************************)
(* The tables hold ids of jobs and processes or NULL, only failed jobs     *)
(* have a retry time, and every semaphore row keeps its shape.  That the   *)
(* rows are of jobs that exist is OneStateAlways.                          *)
(***************************************************************************)
THEOREM TypeAlways == Spec => []TypeOK
<1>1. IInv => TypeOK
  BY DEF IInv
<1>2. QED
  BY <1>1, InductiveInvariant, PTL

(***************************************************************************)
(* No job is lost and none is in two states at once, for every set of jobs *)
(* and whatever the workers, dispatchers, supervisors and operators do.    *)
(***************************************************************************)
THEOREM OneStateAlways == Spec => []OneState
<1>1. IInv => OneState
  BY DEF IInv
<1>2. QED
  BY <1>1, InductiveInvariant, PTL

(***************************************************************************)
(* Every claim names a registered process of its backend or is visibly an  *)
(* orphan that recovery will find.                                         *)
(***************************************************************************)
THEOREM ClaimsOwnedAlways == Spec => []ClaimsOwned
<1>1. IInv => ClaimsOwned
  BY DEF IInv
<1>2. QED
  BY <1>1, InductiveInvariant, PTL

-----------------------------------------------------------------------------
(* Moves of one job.                                                       *)

\* What the tables of one job may do in a step, one disjunct for each move of
\* the lifecycle.
Stays(j) ==
  \/ j \notin jobs /\ j \notin jobs'
  \/ j \in ready /\ j \in ready'
  \/ j \in scheduled /\ j \in scheduled'
  \/ j \in blocked /\ j \in blocked'
  \/ j \in claimed /\ j \in claimed'
  \/ j \in failed /\ j \in failed'
  \/ j \in finished /\ j \in finished'

Moves(j) ==
  \/ Stays(j)
  \/ j \notin jobs /\ j \in scheduled' \cup ready' \cup blocked' \cup finished'
  \/ j \in scheduled /\ j \in ready' \cup blocked' \cup finished' \cup failed'
  \/ j \in blocked /\ j \in ready' \cup failed'
  \/ j \in ready /\ j \in claimed'
  \/ j \in claimed /\ (j \in finished' \cup failed' \/ j \notin jobs')
  \/ j \in failed /\ j \in scheduled' \cup ready' \cup blocked' \cup finished'
  \/ j \in jobs \ claimed /\ j \notin jobs'

\* The state of a job says which table has its row.
LEMMA StateOfTables ==
  ASSUME OneState, NEW j
  PROVE  /\ j \notin jobs <=> StateOf(j) = "none"
         /\ j \in ready <=> StateOf(j) = "ready"
         /\ j \in scheduled <=> StateOf(j) = "scheduled"
         /\ j \in blocked <=> StateOf(j) = "blocked"
         /\ j \in claimed <=> StateOf(j) = "claimed"
         /\ j \in failed <=> StateOf(j) = "failed"
         /\ j \in finished <=> StateOf(j) = "finished"
BY DEF StateOf, OneState

\* A job that moves as above takes a step of its lifecycle.
LEMMA MovesFollowLifecycle ==
  ASSUME OneState, OneState', NEW j, Moves(j)
  PROVE  [Lifecycle(j)!Next]_(StateOf(j))
<1>1. /\ j \notin jobs' <=> StateOf(j)' = "none"
      /\ j \in ready' <=> StateOf(j)' = "ready"
      /\ j \in scheduled' <=> StateOf(j)' = "scheduled"
      /\ j \in blocked' <=> StateOf(j)' = "blocked"
      /\ j \in claimed' <=> StateOf(j)' = "claimed"
      /\ j \in failed' <=> StateOf(j)' = "failed"
      /\ j \in finished' <=> StateOf(j)' = "finished"
  BY DEF StateOf, OneState
<1>2. StateOf(j) \in {"none", "scheduled", "ready", "blocked", "claimed", "failed", "finished"}
  BY DEF StateOf
<1> DEFINE before == StateOf(j)
           after == StateOf(j)'
<1> HIDE DEF before, after
<1>3. \/ after = before
      \/ before = "none" /\ after \in {"scheduled", "ready", "blocked", "finished"}
      \/ before = "scheduled" /\ after \in {"ready", "blocked", "finished", "failed"}
      \/ before = "blocked" /\ after \in {"ready", "failed"}
      \/ before = "ready" /\ after = "claimed"
      \/ before = "claimed" /\ after \in {"finished", "failed", "none"}
      \/ before = "failed" /\ after \in {"scheduled", "ready", "blocked", "finished"}
      \/ before # "claimed" /\ before # "none" /\ after = "none"
  BY <1>1, StateOfTables DEF before, after, Moves, Stays
<1>4. QED
  BY <1>2, <1>3
  DEF before, after, Lifecycle!Next, Lifecycle!Submit, Lifecycle!Dispatch,
      Lifecycle!Unblock, Lifecycle!Claim, Lifecycle!Settle, Lifecycle!Retry,
      Lifecycle!Delete

\* Dispatching, for the first time, when due, or once more.
LEMMA DispatchMoves ==
  ASSUME IInv, NEW S, NEW later, NEW bad, NEW granted,
         \/ S \subseteq Jobs /\ Enqueue(S, later, granted)
         \/ PromoteScheduled(S, bad, granted)
         \/ RetryFailed(S, bad, later, granted),
         NEW j \in Jobs
  PROVE  Moves(j)
<1>1. CASE S \subseteq Jobs /\ Enqueue(S, later, granted)
  BY <1>1
  DEF IInv, OneState, Enqueue, DispatchRows, Discarded, Limited, Moves, Stays
<1>2. CASE PromoteScheduled(S, bad, granted)
  BY <1>2
  DEF IInv, OneState, PromoteScheduled, DispatchRows, Discarded, Limited, Unresolvable,
      Moves, Stays
<1>3. CASE RetryFailed(S, bad, later, granted)
  BY <1>3
  DEF IInv, OneState, RetryFailed, DispatchRows, Discarded, Limited, Unresolvable,
      Moves, Stays
<1>4. QED
  BY <1>1, <1>2, <1>3

\* A step that leaves the tables alone, or deletes a job that is not claimed.
LEMMA OtherMoves ==
  ASSUME IInv, NEW j \in Jobs,
         \/ UNCHANGED <<jobs, finished, tables>>
         \/ \E i \in Jobs : DeleteJob(i)
  PROVE  Moves(j)
<1>1. CASE UNCHANGED <<jobs, finished, tables>>
  BY <1>1 DEF tables, IInv, OneState, Moves, Stays
<1>2. CASE \E i \in Jobs : DeleteJob(i)
  BY <1>2 DEF DeleteJob, IInv, OneState, Moves, Stays
<1>3. QED
  BY <1>1, <1>2

\* Running: the claim, its end, and the waiter that inherits the slot.
LEMMA RunMoves ==
  ASSUME IInv, Run, NEW j \in Jobs
  PROVE  Moves(j)
<1>1. ASSUME NEW p, NEW S, Claim(p, S) PROVE Moves(j)
  BY <1>1 DEF Claim, IInv, OneState, Moves, Stays
<1>2. ASSUME NEW i \in claimed, Complete(i) \/ Fail(i) PROVE Moves(j)
  <2>1. /\ i \in claimed /\ i \in Jobs
        /\ claimed' = claimed \ {i} /\ scheduled' = scheduled
    BY <1>2 DEF Complete, Fail, IInv, TypeOK
  <2>2. \/ ready' = ready /\ blocked' = blocked
        \/ \E w \in blocked : ready' = ready \cup {w} /\ blocked' = blocked \ {w}
    BY <1>2, <2>1, PassSlotEffect DEF Complete, Fail
  <2>3. \/ jobs' = jobs /\ finished' = finished \cup {i} /\ failed' = failed
        \/ jobs' = jobs \ {i} /\ finished' = finished \ {i} /\ failed' = failed
        \/ jobs' = jobs /\ finished' = finished /\ failed' = failed \cup {i}
    BY <1>2 DEF Complete, Fail, Finish
  <2>4. QED
    BY <2>1, <2>2, <2>3 DEF IInv, OneState, Moves, Stays
<1>3. QED
  BY <1>1, <1>2 DEF Run

\* Recovery.
LEMMA RecoverMoves ==
  ASSUME IInv, Recover, NEW j \in Jobs
  PROVE  Moves(j)
<1>1. ASSUME NEW S, NEW promoted, RecoverClaims(S, promoted) PROVE Moves(j)
  BY <1>1, RecoverEffect DEF IInv, OneState, Moves, Stays
<1>2. \/ \E S, promoted : RecoverClaims(S, promoted)
      \/ UNCHANGED <<jobs, finished, tables>>
  BY DEF Recover, FailOrphaned, FailClaimedForProcess, PruneProcess
<1>3. QED
  BY <1>1, <1>2, OtherMoves

\* Discarding, and expiry maintenance.
LEMMA DiscardMoves ==
  ASSUME IInv, Discard \/ Maintain, NEW j \in Jobs
  PROVE  Moves(j)
<1>1. ASSUME NEW i \in jobs, DiscardReady(i) PROVE Moves(j)
  <2>1. /\ i \in ready /\ i \in Jobs /\ jobs' = jobs \ {i} /\ finished' = finished \ {i}
        /\ UNCHANGED <<scheduled, claimed, failed>>
    BY <1>1 DEF DiscardReady, IInv, TypeOK
  <2>2. \/ ready' = ready \ {i} /\ blocked' = blocked
        \/ \E w \in blocked : ready' = (ready \ {i}) \cup {w} /\ blocked' = blocked \ {w}
    BY <1>1, <2>1, PassSlotEffect DEF DiscardReady
  <2>3. QED
    BY <2>1, <2>2 DEF IInv, OneState, Moves, Stays
<1>2. ASSUME NEW i \in blocked, PromoteBlocked(i) PROVE Moves(j)
  <2>1. UNCHANGED <<jobs, finished, scheduled, claimed>>
    BY <1>2 DEF PromoteBlocked
  <2>2. \/ blocked' = blocked \ {i} /\ failed' = failed \cup {i} /\ ready' = ready
        \/ blocked' = blocked \ {i} /\ ready' = ready \cup {i} /\ failed' = failed
        \/ UNCHANGED <<ready, blocked, failed>>
    BY <1>2 DEF PromoteBlocked
  <2>3. QED
    BY <2>1, <2>2 DEF IInv, OneState, Moves, Stays
<1>3. CASE \E k \in Keys : CleanupSemaphore(k)
  BY <1>3, OtherMoves DEF CleanupSemaphore
<1>4. CASE \E i \in jobs : DeleteJob(i)
  BY <1>4, OtherMoves DEF IInv, TypeOK
<1>5. QED
  BY <1>1, <1>2, <1>3, <1>4
  DEF Discard, DiscardScheduled, DiscardBlocked, DiscardFailed, ClearFailed,
      ClearFinished, Maintain

\* Every step moves every job along its lifecycle.
LEMMA NextMoves ==
  ASSUME IInv, [Next]_vars, NEW j \in Jobs
  PROVE  Moves(j)
<1>1. CASE Submit \/ Redispatch
  BY <1>1, DispatchMoves DEF Submit, Redispatch, DispatchNow
<1>2. CASE Retry
  <2>1. CASE \E i \in failed : ScheduleRetry(i)
    BY <2>1, OtherMoves DEF ScheduleRetry
  <2>2. CASE \E S, bad, later, granted : RetryFailed(S, bad, later, granted)
    BY <2>2, DispatchMoves
  <2>3. QED
    BY <1>2, <2>1, <2>2 DEF Retry, RetryFailedJob, PromoteFailedRetries
<1>3. CASE Run \/ Recover \/ Discard \/ Maintain
  BY <1>3, RunMoves, RecoverMoves, DiscardMoves
<1>4. CASE \E p \in Procs : Register(p) \/ RemoveProcess(p)
  BY <1>4, OtherMoves DEF Register, RemoveProcess
<1>5. CASE UNCHANGED vars
  BY <1>5, OtherMoves DEF vars, tables
<1>6. QED
  BY <1>1, <1>2, <1>3, <1>4, <1>5 DEF Next

(***************************************************************************)
(* The store implements the lifecycle of every job: whatever the others    *)
(* do, a claimed job is never handed out again but by a retry, nothing     *)
(* runs that was not dispatched, and a finished job only disappears.       *)
(***************************************************************************)
THEOREM FollowsLifecycleAlways == Spec => FollowsLifecycle
<1>1. Init => \A j \in Jobs : Lifecycle(j)!Init
  <2> SUFFICES ASSUME Init, NEW j \in Jobs
               PROVE  StateOf(j) \in {"none", "scheduled", "failed"}
    BY DEF Lifecycle!Init
  <2>1. OneState /\ (j \notin jobs \/ j \in scheduled \/ j \in failed)
    BY InitIInv DEF Init, IInv
  <2>2. QED
    BY <2>1, StateOfTables
<1>2. IInv /\ [Next]_vars => [\A j \in Jobs : [Lifecycle(j)!Next]_(StateOf(j))]_vars
  BY NextMoves, MovesFollowLifecycle, NextIInv DEF IInv
<1>3. QED
  BY <1>1, <1>2, InductiveInvariant, PTL DEF Spec, FollowsLifecycle
-----------------------------------------------------------------------------
(***************************************************************************)
(* The semaphores of JobStore, one concurrency key at a time: every        *)
(* transaction does to a key what one action of SemaphoreKey does, so what *)
(* holds of one key in isolation holds of every key of the store.          *)
(***************************************************************************)
\* The limits that jobs of k bring, and how many jobs of k hold or await a slot.
LimitsOf(k) == {Limit[j] : j \in OfKey(Jobs, k)}
Held(k) == Cardinality(Holders(k))
Waiting(k) == Cardinality(OfKey(blocked, k))

-----------------------------------------------------------------------------
(***************************************************************************)
(* What a transaction may do to the row, the holders and the waiters of k. *)
(***************************************************************************)
Untouched(k) == sem'[k] = sem[k] /\ Held(k)' = Held(k) /\ Waiting(k)' = Waiting(k)

Takes(k, n, L, block) ==
  LET a == AcquireMany(sem[k], n, L) IN
  /\ Held(k) + Waiting(k) + n <= Cardinality(Jobs)
  /\ sem'[k] = a.row
  /\ Held(k)' = Held(k) + a.got
  /\ Waiting(k)' = IF block THEN Waiting(k) + (n - a.got) ELSE Waiting(k)

Expires(k, L) ==
  LET a == Acquire(sem[k], L) IN
  /\ Waiting(k) > 0
  /\ sem'[k] = a.row
  /\ IF a.ok THEN Held(k)' = Held(k) + 1 /\ Waiting(k)' = Waiting(k) - 1
             ELSE Held(k)' = Held(k) /\ Waiting(k)' = Waiting(k)

\* With one backend every waiter is visible to the job that gives its slot back.
GivesBack(k, L, first, second) ==
  LET a == ReleaseSlot(sem[k], L, first, second) IN
  /\ Held(k) > 0
  /\ (first \/ second) => Waiting(k) > 0
  /\ OneBackend(Jobs) /\ Waiting(k) > 0 => second
  /\ sem'[k] = a.row
  /\ Held(k)' = Held(k) - 1 + a.unblocked
  /\ Waiting(k)' = Waiting(k) - a.unblocked

GiveBack(k, n, L, w) ==
  LET a == ReleaseGroup(sem[k], n, L, w) IN
  /\ n <= Held(k) /\ w <= Waiting(k)
  /\ OneBackend(Jobs) => w = Waiting(k)
  /\ sem'[k] = a.row
  /\ Held(k)' = Held(k) - n + a.unblocked
  /\ Waiting(k)' = Waiting(k) - a.unblocked

LosesWaiter(k) ==
  /\ Waiting(k) > 0
  /\ sem'[k] = sem[k] /\ Held(k)' = Held(k) /\ Waiting(k)' = Waiting(k) - 1

LosesRow(k) ==
  /\ sem[k] # NoRow /\ Held(k) = 0
  /\ sem'[k] = NoRow /\ Held(k)' = Held(k) /\ Waiting(k)' = Waiting(k)

Legal(k) == LimitsOf(k) \cup {FallbackLimit(sem[k])}

KeyStep(k) ==
  \/ Untouched(k)
  \/ \E n \in Nat \ {0}, L \in LimitsOf(k), block \in BOOLEAN : Takes(k, n, L, block)
  \/ \E L \in LimitsOf(k) : Expires(k, L)
  \/ \E L \in Legal(k), first, second \in BOOLEAN : GivesBack(k, L, first, second)
  \/ \E n \in Nat \ {0}, w \in Nat, L \in Legal(k) : GiveBack(k, n, L, w)
  \/ LosesWaiter(k)
  \/ LosesRow(k)

-----------------------------------------------------------------------------
\* Counting sets of jobs.
LEMMA JobCount ==
  ASSUME NEW A, A \subseteq Jobs, NEW B, B \subseteq Jobs
  PROVE  /\ Cardinality(A) \in Nat /\ Cardinality(B) \in Nat
         /\ Cardinality(A) <= Cardinality(Jobs)
         /\ Cardinality(Jobs) \in Nat
         /\ A \cap B = {} => Cardinality(A \cup B) = Cardinality(A) + Cardinality(B)
         /\ B \subseteq A => Cardinality(A \ B) = Cardinality(A) - Cardinality(B)
         /\ B \subseteq A => Cardinality(B) <= Cardinality(A)
         /\ Cardinality(A) = 0 <=> A = {}
<1>1. IsFiniteSet(A) /\ IsFiniteSet(B) /\ IsFiniteSet(Jobs)
  BY FS_Subset, ConstantsAssumption
<1>2. Cardinality(A) \in Nat /\ Cardinality(B) \in Nat /\ Cardinality(Jobs) \in Nat
  BY <1>1, FS_CardinalityType
<1>3. Cardinality(A) <= Cardinality(Jobs)
  BY <1>1, FS_Subset
<1>4. A \cap B = {} => Cardinality(A \cup B) = Cardinality(A) + Cardinality(B)
  <2>1. Cardinality(A \cup B) =
          Cardinality(A) + Cardinality(B) - Cardinality(A \cap B)
    BY <1>1, FS_Union
  <2>2. A \cap B = {} => Cardinality(A \cap B) = 0
    BY FS_EmptySet
  <2>3. QED
    BY <1>2, <2>1, <2>2
<1>5. B \subseteq A => A \cap B = B
  OBVIOUS
<1>6. B \subseteq A => Cardinality(A \ B) = Cardinality(A) - Cardinality(B)
  BY <1>1, <1>5, FS_Difference
<1>7. B \subseteq A => Cardinality(B) <= Cardinality(A)
  BY <1>1, FS_Subset
<1>8. QED
  BY <1>1, <1>2, <1>3, <1>4, <1>6, <1>7, FS_EmptySet

\* One job more or less.
LEMMA OneJob ==
  ASSUME NEW A, A \subseteq Jobs, NEW j
  PROVE  /\ j \in A => Cardinality(A \ {j}) = Cardinality(A) - 1 /\ Cardinality(A) > 0
         /\ j \notin A => Cardinality(A \cup {j}) = Cardinality(A) + 1
<1>1. IsFiniteSet(A) /\ Cardinality(A) \in Nat /\ (Cardinality(A) = 0 <=> A = {})
  BY FS_Subset, JobCount, ConstantsAssumption
<1>2. Cardinality(A \ {j}) = IF j \in A THEN Cardinality(A) - 1 ELSE Cardinality(A)
  BY <1>1, FS_RemoveElement
<1>3. Cardinality(A \cup {j}) = IF j \in A THEN Cardinality(A) ELSE Cardinality(A) + 1
  BY <1>1, FS_AddElement
<1>4. QED
  BY <1>1, <1>2, <1>3

\* The numbers of a key are naturals.
LEMMA KeyCounts ==
  ASSUME IInv, NEW k
  PROVE  /\ Holders(k) \subseteq Jobs /\ OfKey(blocked, k) \subseteq Jobs
         /\ Held(k) \in Nat /\ Waiting(k) \in Nat
         /\ Holders(k) \cap OfKey(blocked, k) = {}
         /\ Waiting(k) = 0 <=> OfKey(blocked, k) = {}
         /\ Held(k) = 0 <=> Holders(k) = {}
<1>1. Holders(k) \subseteq Jobs /\ OfKey(blocked, k) \subseteq Jobs
  BY DEF IInv, TypeOK, Holders, OfKey
<1>2. Holders(k) \cap OfKey(blocked, k) = {}
  BY DEF IInv, OneState, Holders, OfKey
<1>3. QED
  BY <1>1, <1>2, JobCount DEF Held, Waiting

LEMMA LimitsOfType ==
  ASSUME NEW k
  PROVE  /\ LimitsOf(k) \subseteq Nat \ {0}
         /\ \A j \in Jobs : Key[j] = k => Limit[j] \in LimitsOf(k)
BY ConstantsAssumption DEF LimitsOf, OfKey

-----------------------------------------------------------------------------
\* Transactions that leave the rows, and who holds or awaits a slot, alone.
LEMMA QuietStep ==
  ASSUME NEW k, sem' = sem, ready' \cup claimed' = ready \cup claimed, blocked' = blocked
  PROVE  KeyStep(k)
BY DEF KeyStep, Untouched, Held, Waiting, Holders, OfKey

\* A dispatch of jobs that held and awaited nothing.
LEMMA DispatchStep ==
  ASSUME IInv, NEW S, S \subseteq Jobs, S \cap (ready \cup claimed \cup blocked) = {},
         NEW granted, DispatchRows(S, granted), claimed' = claimed, NEW k \in Keys
  PROVE  KeyStep(k)
<1> DEFINE M == OfKey(S, k)
           G == OfKey(granted, k)
           n == Cardinality(M)
           L == GroupLimit(S, k)
           a == AcquireMany(sem[k], n, L)
           B == (M \ G) \cap Blocks
<1>1. /\ OnePolicy(S) /\ granted \subseteq Limited(S)
      /\ Cardinality(G) = a.got
      /\ ready' = ready \cup (S \ Limited(S)) \cup granted
      /\ blocked' = blocked \cup ((Limited(S) \ granted) \cap Blocks)
      /\ sem'[k] = a.row
  BY DEF DispatchRows
<1>2. k # NoKey
  BY ConstantsAssumption
<1>3. /\ M \subseteq Jobs /\ G \subseteq M /\ B \subseteq M
      /\ M \cap Holders(k) = {} /\ M \cap OfKey(blocked, k) = {}
  BY <1>1 DEF OfKey, Holders, Limited
<1>4. Holders(k)' = Holders(k) \cup G
  BY <1>1, <1>2 DEF Holders, OfKey, Limited
<1>5. OfKey(blocked, k)' = OfKey(blocked, k) \cup B
  BY <1>1, <1>2 DEF OfKey, Limited
<1>6. B = M \ G \/ B = {}
  BY <1>1, <1>2 DEF OnePolicy, OfKey, Limited
<1>7. /\ Holders(k) \subseteq Jobs /\ OfKey(blocked, k) \subseteq Jobs
      /\ Held(k) \in Nat /\ Waiting(k) \in Nat
      /\ Holders(k) \cap OfKey(blocked, k) = {}
  BY KeyCounts
<1>8. n \in Nat /\ (n = 0 <=> M = {}) /\ L = Limit[CHOOSE j \in M : TRUE]
  BY <1>3, JobCount DEF GroupLimit
<1> HIDE DEF M, G, L, B
<1>9. /\ Cardinality(Holders(k) \cup G) = Held(k) + Cardinality(G)
      /\ Cardinality(OfKey(blocked, k) \cup B) = Waiting(k) + Cardinality(B)
      /\ Cardinality(M \ G) = n - Cardinality(G) /\ Cardinality({}) = 0
  <2>1. G \subseteq Jobs /\ B \subseteq Jobs /\ Holders(k) \cap G = {}
        /\ OfKey(blocked, k) \cap B = {}
    BY <1>3
  <2>2. QED
    BY <1>3, <1>7, <2>1, JobCount, FS_EmptySet DEF Held, Waiting
<1>10. Held(k) + Waiting(k) + n <= Cardinality(Jobs)
  <2>1. /\ Holders(k) \cup OfKey(blocked, k) \subseteq Jobs
        /\ (Holders(k) \cup OfKey(blocked, k)) \cap M = {}
        /\ (Holders(k) \cup OfKey(blocked, k)) \cup M \subseteq Jobs
    BY <1>3, <1>7
  <2>2. Cardinality(Holders(k) \cup OfKey(blocked, k)) = Held(k) + Waiting(k)
    BY <1>7, JobCount DEF Held, Waiting
  <2>3. Cardinality((Holders(k) \cup OfKey(blocked, k)) \cup M) = Held(k) + Waiting(k) + n
    BY <1>3, <2>1, <2>2, JobCount
  <2>4. QED
    BY <2>1, <2>3, JobCount
<1>11. Held(k)' = Held(k) + a.got
  BY <1>1, <1>4, <1>9 DEF Held
<1>12. Waiting(k)' = Waiting(k) + Cardinality(B)
  BY <1>5, <1>9 DEF Waiting
<1>13. Cardinality(B) = n - a.got \/ Cardinality(B) = 0
  BY <1>1, <1>6, <1>9
<1>14. CASE M = {}
  <2>1. n = 0 /\ B = {} /\ Cardinality(B) = 0
    BY <1>3, <1>8, <1>14, FS_EmptySet
  <2>2. a = [got |-> 0, row |-> sem[k]]
    BY <2>1 DEF AcquireMany
  <2>3. QED
    BY <1>1, <1>7, <1>11, <1>12, <2>1, <2>2 DEF KeyStep, Untouched
<1>15. CASE M # {}
  <2>1. n \in Nat \ {0}
    BY <1>8, <1>15
  <2>2. L \in LimitsOf(k)
    <3>1. (CHOOSE j \in M : TRUE) \in M
      BY <1>15
    <3>2. QED
      BY <1>3, <1>8, <3>1, LimitsOfType DEF M, OfKey
  <2>3. \E block \in BOOLEAN : Takes(k, n, L, block)
    <3>1. CASE Cardinality(B) = n - a.got
      <4>1. Takes(k, n, L, TRUE)
        BY <1>1, <1>10, <1>11, <1>12, <3>1 DEF Takes
      <4>2. QED
        BY <4>1
    <3>2. CASE Cardinality(B) = 0
      <4>1. Takes(k, n, L, FALSE)
        BY <1>1, <1>7, <1>10, <1>11, <1>12, <3>2 DEF Takes
      <4>2. QED
        BY <4>1
    <3>3. QED
      BY <1>13, <3>1, <3>2
  <2> HIDE DEF n
  <2>4. QED
    BY <2>1, <2>2, <2>3 DEF KeyStep
<1>16. QED
  BY <1>14, <1>15

\* The end of a job that held a slot: it leaves the tables of holders, rdy and
\* cl are what is left of them, and its slot is passed on.
LEMMA PassSlotStep ==
  ASSUME IInv, NEW j \in ready \cup claimed, NEW rdy, NEW cl, PassSlot(j, rdy, cl),
         rdy \cup cl = (ready \cup claimed) \ {j}, claimed' = cl, NEW k \in Keys
  PROVE  KeyStep(k)
<1>1. /\ j \in Jobs /\ blocked \subseteq Jobs /\ k # NoKey /\ sem \in [Keys -> Row]
      /\ blocked \cap (ready \cup claimed) = {}
  BY ConstantsAssumption DEF IInv, TypeOK, OneState
<1>2. CASE Key[j] = NoKey /\ ready' = rdy /\ UNCHANGED <<blocked, sem>>
  <2>1. Holders(k)' = Holders(k)
    BY <1>1, <1>2 DEF Holders, OfKey
  <2>2. QED
    BY <1>2, <2>1 DEF KeyStep, Untouched, Held, Waiting
<1>3. CASE Key[j] # NoKey
  <2> DEFINE q == Key[j]
             waiting == Waiters(q, Backend[j])
             some == waiting # {}
             r(L, first) == ReleaseSlot(sem[q], L, first /\ some, some)
  <2>1. PICK L \in ReleaseLimits(j), first \in BOOLEAN :
          /\ sem' = [sem EXCEPT ![q] = r(L, first).row]
          /\ \/ r(L, first).unblocked = 0 /\ ready' = rdy /\ blocked' = blocked
             \/ /\ r(L, first).unblocked = 1
                /\ \E w \in waiting : ready' = rdy \cup {w} /\ blocked' = blocked \ {w}
    BY <1>3 DEF PassSlot, Wake
  <2>2. q \in Keys /\ L \in Legal(q)
    BY <1>1, <1>3, ConstantsAssumption, LimitsOfType DEF ReleaseLimits, Legal
  <2>3. /\ waiting \subseteq OfKey(blocked, q)
        /\ OneBackend(Jobs) => waiting = OfKey(blocked, q)
    BY <1>1 DEF Waiters, OfKey, OneBackend
  <2>4. /\ Holders(q) \subseteq Jobs /\ OfKey(blocked, q) \subseteq Jobs
        /\ Held(q) \in Nat /\ Waiting(q) \in Nat
        /\ Waiting(q) = 0 <=> OfKey(blocked, q) = {}
    BY KeyCounts
  <2>5. j \in Holders(q)
    BY DEF Holders, OfKey
  <2>6. CASE k # q
    <3>1. sem'[k] = sem[k]
      BY <1>1, <2>1, <2>6
    <3>2. Holders(k)' = Holders(k) /\ OfKey(blocked, k)' = OfKey(blocked, k)
      <4>1. \A w \in waiting : Key[w] = q
        BY <2>3 DEF OfKey
      <4>2. CASE ready' = rdy /\ blocked' = blocked
        BY <2>6, <4>2 DEF Holders, OfKey
      <4>3. ASSUME NEW w \in waiting, ready' = rdy \cup {w}, blocked' = blocked \ {w}
            PROVE  Holders(k)' = Holders(k) /\ OfKey(blocked, k)' = OfKey(blocked, k)
        BY <2>6, <4>1, <4>3 DEF Holders, OfKey
      <4>4. QED
        BY <2>1, <4>2, <4>3
    <3>3. QED
      BY <3>1, <3>2 DEF KeyStep, Untouched, Held, Waiting
  <2>7. CASE k = q
    <3> DEFINE a == r(L, first)
    <3>1. sem'[k] = a.row
      BY <1>1, <2>1, <2>2, <2>7
    <3>2. /\ Cardinality(Holders(k) \ {j}) = Held(k) - 1 /\ Held(k) > 0
      BY <2>4, <2>5, <2>7, OneJob DEF Held
    <3>3. (Holders(k) \ {j}) = OfKey(rdy \cup cl, k)
      BY DEF Holders, OfKey
    <3>4. /\ Held(k)' = Held(k) - 1 + a.unblocked
          /\ Waiting(k)' = Waiting(k) - a.unblocked
      <4>1. CASE a.unblocked = 0 /\ ready' = rdy /\ blocked' = blocked
        <5>1. Holders(k)' = Holders(k) \ {j} /\ OfKey(blocked, k)' = OfKey(blocked, k)
          BY <3>3, <4>1 DEF Holders, OfKey
        <5>2. QED
          BY <2>4, <2>7, <3>2, <4>1, <5>1 DEF Held, Waiting
      <4>2. ASSUME NEW w \in waiting, ready' = rdy \cup {w}, blocked' = blocked \ {w},
                   a.unblocked = 1
            PROVE  /\ Held(k)' = Held(k) - 1 + a.unblocked
                   /\ Waiting(k)' = Waiting(k) - a.unblocked
        <5>1. w \in OfKey(blocked, k) /\ w \notin Holders(k) \ {j}
          BY <1>1, <2>3, <2>7 DEF Holders, OfKey
        <5>2. /\ Holders(k)' = (Holders(k) \ {j}) \cup {w}
              /\ OfKey(blocked, k)' = OfKey(blocked, k) \ {w}
          BY <3>3, <4>2, <5>1 DEF Holders, OfKey
        <5>3. Holders(k) \ {j} \subseteq Jobs /\ OfKey(blocked, k) \subseteq Jobs
          BY <2>4, <2>7
        <5>4. /\ Cardinality((Holders(k) \ {j}) \cup {w}) = Held(k) - 1 + 1
              /\ Cardinality(OfKey(blocked, k) \ {w}) = Waiting(k) - 1
          BY <3>2, <5>1, <5>3, OneJob DEF Waiting
        <5>5. QED
          BY <4>2, <5>2, <5>4 DEF Held, Waiting
      <4>3. QED
        BY <2>1, <4>1, <4>2
    <3>5. GivesBack(k, L, first /\ some, some)
      <4>1. a = ReleaseSlot(sem[k], L, first /\ some, some)
        BY <2>7
      <4>2. (some => Waiting(k) > 0) /\ (OneBackend(Jobs) /\ Waiting(k) > 0 => some)
        BY <2>3, <2>4, <2>7
      <4> HIDE DEF a, some
      <4>3. QED
        BY <3>1, <3>2, <3>4, <4>1, <4>2 DEF GivesBack
    <3>6. (first /\ some) \in BOOLEAN /\ some \in BOOLEAN
      OBVIOUS
    <3> HIDE DEF some
    <3>7. QED
      BY <2>2, <2>7, <3>5, <3>6 DEF KeyStep
  <2>8. QED
    BY <2>6, <2>7
<1>4. QED
  BY <1>2, <1>3 DEF PassSlot

\* Recovery of a group of claims.
LEMMA RecoverStep ==
  ASSUME IInv, NEW S, NEW promoted, RecoverClaims(S, promoted), NEW k \in Keys
  PROVE  KeyStep(k)
<1> DEFINE visible(q) == {w \in OfKey(blocked, q) : \E j \in S : Backend[w] = Backend[j]}
           freed(q) == OfKey(S, q)
           r(lim, q) == IF freed(q) = {} THEN [unblocked |-> 0, row |-> sem[q]]
                        ELSE ReleaseGroup(sem[q], Cardinality(freed(q)), lim[q],
                                          Cardinality(visible(q)))
<1>1. /\ S # {} /\ S \subseteq claimed /\ promoted \subseteq Limited(blocked)
      /\ claimed' = claimed \ S
      /\ ready' = ready \cup promoted /\ blocked' = blocked \ promoted
  BY DEF RecoverClaims
<1>2. PICK lim \in [Keys -> (UNION {ReleaseLimits(j) : j \in Limited(S)}) \cup {1}] :
        /\ \A j \in Limited(S) : lim[Key[j]] \in ReleaseLimits(j)
        /\ \A q \in Keys : /\ OfKey(promoted, q) \subseteq visible(q)
                           /\ Cardinality(OfKey(promoted, q)) = r(lim, q).unblocked
        /\ sem' = [q \in Keys |-> r(lim, q).row]
  BY DEF RecoverClaims
<1> DEFINE P == OfKey(promoted, k)
           F == freed(k)
           V == visible(k)
           a == r(lim, k)
<1>3. P \subseteq V /\ Cardinality(P) = a.unblocked /\ sem'[k] = a.row
  BY <1>2
<1>4. /\ Holders(k) \subseteq Jobs /\ OfKey(blocked, k) \subseteq Jobs
      /\ Held(k) \in Nat /\ Waiting(k) \in Nat
      /\ Holders(k) \cap OfKey(blocked, k) = {}
  BY KeyCounts
<1>5. k # NoKey /\ S \subseteq Jobs /\ ready \cap claimed = {} /\ blocked \cap claimed = {}
  BY <1>1, ConstantsAssumption DEF IInv, TypeOK, OneState
<1>6. F \subseteq Holders(k) /\ V \subseteq OfKey(blocked, k)
  BY <1>1 DEF Holders, OfKey
<1>7. OneBackend(Jobs) => V = OfKey(blocked, k)
  BY <1>1, <1>4, <1>5 DEF OneBackend
<1>8. Holders(k)' = (Holders(k) \ F) \cup P
  BY <1>1, <1>5 DEF Holders, OfKey, Limited
<1>9. OfKey(blocked, k)' = OfKey(blocked, k) \ P
  BY <1>1 DEF OfKey
<1>10. a = IF F = {} THEN [unblocked |-> 0, row |-> sem[k]]
           ELSE ReleaseGroup(sem[k], Cardinality(F), lim[k], Cardinality(V))
  OBVIOUS
<1>11. F # {} => lim[k] \in Legal(k)
  <2>1. SUFFICES ASSUME NEW j \in F PROVE lim[k] \in Legal(k)
    OBVIOUS
  <2>2. j \in Limited(S) /\ Key[j] = k /\ j \in Jobs
    BY <1>5, <2>1 DEF OfKey, Limited
  <2>3. lim[k] \in ReleaseLimits(j)
    BY <1>2, <2>2
  <2>4. QED
    BY <2>2, <2>3, LimitsOfType DEF ReleaseLimits, Legal
<1> HIDE DEF P, F, V, a, r, freed, visible
<1>12. /\ Cardinality(F) \in Nat /\ (Cardinality(F) = 0 <=> F = {})
       /\ Cardinality(F) <= Held(k)
       /\ Cardinality(V) \in Nat /\ Cardinality(V) <= Waiting(k)
       /\ Cardinality(P) \in Nat /\ (P = {} <=> Cardinality(P) = 0)
  <2>1. F \subseteq Jobs /\ V \subseteq Jobs /\ P \subseteq Jobs
    BY <1>3, <1>4, <1>6
  <2>2. QED
    BY <1>4, <1>6, <2>1, JobCount DEF Held, Waiting
<1>13. Held(k)' = Held(k) - Cardinality(F) + Cardinality(P)
  <2>1. Cardinality(Holders(k) \ F) = Held(k) - Cardinality(F)
    BY <1>4, <1>6, JobCount DEF Held
  <2>2. /\ (Holders(k) \ F) \cap P = {} /\ Holders(k) \ F \subseteq Jobs
        /\ P \subseteq Jobs
    BY <1>3, <1>4, <1>6
  <2>3. QED
    BY <1>8, <2>1, <2>2, JobCount DEF Held
<1>14. Waiting(k)' = Waiting(k) - Cardinality(P)
  BY <1>3, <1>4, <1>6, <1>9, JobCount DEF Waiting
<1>15. CASE F = {}
  <2>1. Cardinality(P) = 0 /\ Cardinality(F) = 0 /\ sem'[k] = sem[k]
    BY <1>3, <1>10, <1>12, <1>15
  <2>2. QED
    BY <1>4, <1>13, <1>14, <2>1 DEF KeyStep, Untouched
<1>16. CASE F # {}
  <2>1. GiveBack(k, Cardinality(F), lim[k], Cardinality(V))
    BY <1>3, <1>7, <1>10, <1>12, <1>13, <1>14, <1>16 DEF GiveBack, Waiting
  <2>2. QED
    BY <1>11, <1>12, <1>16, <2>1 DEF KeyStep
<1>17. QED
  BY <1>15, <1>16

\* Expiry maintenance of a blocked job.
LEMMA PromoteBlockedStep ==
  ASSUME IInv, NEW j, PromoteBlocked(j), NEW k \in Keys
  PROVE  KeyStep(k)
<1>1. /\ j \in blocked /\ j \in Jobs /\ Key[j] \in Keys /\ claimed' = claimed
      /\ j \notin ready \cup claimed /\ sem \in [Keys -> Row]
  BY DEF PromoteBlocked, IInv, TypeOK, OneState, BlockedHaveKey
<1>2. /\ Holders(k) \subseteq Jobs /\ OfKey(blocked, k) \subseteq Jobs
      /\ Held(k) \in Nat /\ Waiting(k) \in Nat
      /\ Waiting(k) = 0 <=> OfKey(blocked, k) = {}
  BY KeyCounts
<1>4. k = Key[j] => j \in OfKey(blocked, k) /\ j \notin Holders(k) /\ Waiting(k) > 0
  BY <1>1, <1>2 DEF OfKey, Holders
<1>5. k = Key[j] => /\ Cardinality(OfKey(blocked, k) \ {j}) = Waiting(k) - 1
                    /\ Cardinality(Holders(k) \cup {j}) = Held(k) + 1
  BY <1>2, <1>4, OneJob DEF Waiting, Held
<1>6. CASE blocked' = blocked \ {j} /\ UNCHANGED <<ready, sem>>
  <2>1. Holders(k)' = Holders(k)
    BY <1>1, <1>6 DEF Holders, OfKey
  <2>2. OfKey(blocked, k)' = IF k = Key[j] THEN OfKey(blocked, k) \ {j} ELSE OfKey(blocked, k)
    BY <1>6 DEF OfKey
  <2>3. QED
    BY <1>4, <1>5, <1>6, <2>1, <2>2 DEF KeyStep, Untouched, LosesWaiter, Held, Waiting
<1>7. CASE LET r == Acquire(sem[Key[j]], Limit[j]) IN
           /\ sem' = [sem EXCEPT ![Key[j]] = r.row]
           /\ IF r.ok THEN ready' = ready \cup {j} /\ blocked' = blocked \ {j}
                      ELSE UNCHANGED <<ready, blocked>>
  <2> DEFINE r == Acquire(sem[Key[j]], Limit[j])
  <2>1. /\ sem' = [sem EXCEPT ![Key[j]] = r.row]
        /\ r.ok => ready' = ready \cup {j} /\ blocked' = blocked \ {j}
        /\ ~r.ok => UNCHANGED <<ready, blocked>>
    BY <1>7
  <2> HIDE DEF r
  <2>2. CASE k # Key[j]
    <3>1. Holders(k)' = Holders(k) /\ OfKey(blocked, k)' = OfKey(blocked, k)
      BY <1>1, <2>1, <2>2 DEF Holders, OfKey
    <3>2. QED
      BY <1>1, <2>1, <2>2, <3>1 DEF KeyStep, Untouched, Held, Waiting
  <2>3. CASE k = Key[j]
    <3>1. /\ sem'[k] = r.row
          /\ r.ok => /\ Holders(k)' = Holders(k) \cup {j}
                     /\ OfKey(blocked, k)' = OfKey(blocked, k) \ {j}
          /\ ~r.ok => Holders(k)' = Holders(k) /\ OfKey(blocked, k)' = OfKey(blocked, k)
      BY <1>1, <2>1, <2>3 DEF Holders, OfKey
    <3>2. /\ r.ok => Held(k)' = Held(k) + 1 /\ Waiting(k)' = Waiting(k) - 1
          /\ ~r.ok => Held(k)' = Held(k) /\ Waiting(k)' = Waiting(k)
      BY <1>5, <2>3, <3>1 DEF Held, Waiting
    <3>3. Expires(k, Limit[j])
      BY <1>4, <2>3, <3>1, <3>2 DEF Expires, r
    <3>4. QED
      BY <1>1, <2>3, <3>3, LimitsOfType DEF KeyStep
  <2>4. QED
    BY <2>2, <2>3
<1>8. QED
  BY <1>6, <1>7 DEF PromoteBlocked

\* A job that holds no slot is deleted.
LEMMA DeleteJobStep ==
  ASSUME IInv, NEW j, DeleteJob(j), NEW k \in Keys
  PROVE  KeyStep(k)
<1>1. sem' = sem /\ Holders(k)' = Holders(k) /\ blocked' = blocked \ {j}
  BY DEF DeleteJob, Holders, OfKey
<1>2. OfKey(blocked, k)' = OfKey(blocked, k) \ {j}
  BY <1>1 DEF OfKey
<1>3. OfKey(blocked, k) \subseteq Jobs
  BY KeyCounts
<1>4. CASE j \in OfKey(blocked, k)
  <2>1. Cardinality(OfKey(blocked, k) \ {j}) = Waiting(k) - 1 /\ Waiting(k) > 0
    BY <1>3, <1>4, OneJob DEF Waiting
  <2>2. QED
    BY <1>1, <1>2, <2>1 DEF KeyStep, LosesWaiter, Held, Waiting
<1>5. CASE j \notin OfKey(blocked, k)
  <2>1. OfKey(blocked, k)' = OfKey(blocked, k)
    BY <1>2, <1>5
  <2>2. QED
    BY <1>1, <2>1 DEF KeyStep, Untouched, Held, Waiting
<1>6. QED
  BY <1>4, <1>5

\* An expired semaphore is deleted.
LEMMA CleanupStep ==
  ASSUME IInv, NEW q \in Keys, CleanupSemaphore(q), NEW k \in Keys
  PROVE  KeyStep(k)
<1>1. sem \in [Keys -> Row]
  BY DEF IInv, TypeOK
<1>2. Held(k)' = Held(k) /\ Waiting(k)' = Waiting(k)
  BY DEF CleanupSemaphore, tables, Held, Waiting, Holders, OfKey
<1>3. CASE k = q
  <2>1. Held(k) = 0
    BY <1>3, FS_EmptySet DEF CleanupSemaphore, Held, Holders
  <2>2. QED
    BY <1>1, <1>2, <1>3, <2>1 DEF CleanupSemaphore, KeyStep, LosesRow
<1>4. CASE k # q
  BY <1>1, <1>2, <1>4 DEF CleanupSemaphore, KeyStep, Untouched
<1>5. QED
  BY <1>3, <1>4

\* Every transaction is one step of every key.
LEMMA NextKeyStep ==
  ASSUME IInv, [Next]_vars, NEW k \in Keys
  PROVE  KeyStep(k)
<1>1. ASSUME NEW S \in SUBSET Jobs, NEW later, NEW granted, Enqueue(S, later, granted)
      PROVE  KeyStep(k)
  <2>1. (S \ later) \cap (ready \cup claimed \cup blocked) = {} /\ S \ later \subseteq Jobs
    BY <1>1 DEF Enqueue, IInv, OneState
  <2>2. DispatchRows(S \ later, granted) /\ claimed' = claimed
    BY <1>1 DEF Enqueue
  <2>3. QED
    BY <2>1, <2>2, DispatchStep
<1>2. ASSUME NEW S, NEW bad, NEW granted, PromoteScheduled(S, bad, granted)
      PROVE  KeyStep(k)
  <2>1. (S \ bad) \cap (ready \cup claimed \cup blocked) = {} /\ S \ bad \subseteq Jobs
    BY <1>2 DEF PromoteScheduled, IInv, TypeOK, OneState
  <2>2. DispatchRows(S \ bad, granted) /\ claimed' = claimed
    BY <1>2 DEF PromoteScheduled
  <2>3. QED
    BY <2>1, <2>2, DispatchStep
<1>3. ASSUME NEW S, NEW bad, NEW later, NEW granted, RetryFailed(S, bad, later, granted)
      PROVE  KeyStep(k)
  <2> DEFINE D == S \ (bad \cup later)
  <2>1. D \cap (ready \cup claimed \cup blocked) = {} /\ D \subseteq Jobs
    BY <1>3 DEF RetryFailed, IInv, TypeOK, OneState
  <2>2. DispatchRows(D, granted) /\ claimed' = claimed
    BY <1>3 DEF RetryFailed
  <2>3. QED
    BY <2>1, <2>2, DispatchStep
<1>4. ASSUME NEW j \in claimed, Complete(j) \/ Fail(j) PROVE KeyStep(k)
  <2>1. PassSlot(j, ready, claimed \ {j}) /\ claimed' = claimed \ {j}
    BY <1>4 DEF Complete, Fail
  <2>2. ready \cup (claimed \ {j}) = (ready \cup claimed) \ {j}
    BY <1>4 DEF IInv, OneState
  <2>3. QED
    BY <1>4, <2>1, <2>2, PassSlotStep
<1>5. ASSUME NEW j, DiscardReady(j) PROVE KeyStep(k)
  <2>1. PassSlot(j, ready \ {j}, claimed) /\ claimed' = claimed /\ j \in ready
    BY <1>5 DEF DiscardReady
  <2>2. (ready \ {j}) \cup claimed = (ready \cup claimed) \ {j}
    BY <2>1 DEF IInv, OneState
  <2>3. QED
    BY <2>1, <2>2, PassSlotStep
<1>6. ASSUME NEW S, NEW promoted,
             \/ FailOrphaned(S, promoted) \/ FailClaimedForProcess(S, promoted)
             \/ \E p \in procs : PruneProcess(p, S, promoted)
      PROVE  KeyStep(k)
  <2>1. \/ RecoverClaims(S, promoted)
        \/ UNCHANGED <<jobs, finished, tables, retryAt, sem>>
    BY <1>6 DEF FailOrphaned, FailClaimedForProcess, PruneProcess
  <2>2. CASE UNCHANGED <<jobs, finished, tables, retryAt, sem>>
    BY <2>2, QuietStep DEF tables
  <2>3. QED
    BY <2>1, <2>2, RecoverStep
<1>7. ASSUME NEW p, NEW S, Claim(p, S) PROVE KeyStep(k)
  BY <1>7, QuietStep DEF Claim
<1>8. CASE \/ \E j \in failed : ScheduleRetry(j)
           \/ \E p \in Procs : Register(p) \/ RemoveProcess(p)
           \/ UNCHANGED vars
  BY <1>8, QuietStep DEF ScheduleRetry, Register, RemoveProcess, tables, vars
<1>9. CASE Submit
  BY <1>1, <1>9 DEF Submit
<1>10. CASE Redispatch
  BY <1>2, <1>10 DEF Redispatch, DispatchNow
<1>11. CASE Retry
  BY <1>3, <1>8, <1>11 DEF Retry, RetryFailedJob, PromoteFailedRetries
<1>12. CASE Run
  BY <1>4, <1>7, <1>12 DEF Run
<1>13. CASE Recover
  BY <1>6, <1>13 DEF Recover
<1>14. CASE Discard
  BY <1>5, <1>14, DeleteJobStep
  DEF Discard, DiscardScheduled, DiscardBlocked, DiscardFailed, ClearFailed, ClearFinished
<1>15. CASE Maintain
  BY <1>15, PromoteBlockedStep, CleanupStep DEF Maintain
<1>16. QED
  BY <1>8, <1>9, <1>10, <1>11, <1>12, <1>13, <1>14, <1>15 DEF Next

-----------------------------------------------------------------------------
(***************************************************************************)
(* The refinement.  KeyView(k) has its own copies of the row operators.    *)
(***************************************************************************)
LEMMA SameOperators ==
  ASSUME NEW k
  PROVE  /\ KeyView(k)!NoRow = NoRow
         /\ \A r, n, L : KeyView(k)!AcquireMany(r, n, L) = AcquireMany(r, n, L)
         /\ \A r, L : KeyView(k)!Acquire(r, L) = Acquire(r, L)
         /\ \A r, L, f, s : KeyView(k)!ReleaseSlot(r, L, f, s) = ReleaseSlot(r, L, f, s)
         /\ \A r, n, L, w : KeyView(k)!ReleaseGroup(r, n, L, w) = ReleaseGroup(r, n, L, w)
         /\ \A r : KeyView(k)!FallbackLimit(r) = FallbackLimit(r)
         /\ \A r : KeyView(k)!Occupied(r) = Occupied(r)
<1>1. KeyView(k)!NoRow = NoRow
  BY DEF KeyView!NoRow, NoRow
<1>2. /\ \A a, b : KeyView(k)!Least(a, b) = Least(a, b)
      /\ \A a, b : KeyView(k)!Greatest(a, b) = Greatest(a, b)
      /\ \A v, L : KeyView(k)!Written(v, L) = Written(v, L)
      /\ \A r, v : KeyView(k)!Seen(r, v) = Seen(r, v)
  BY DEF KeyView!Least, Least, KeyView!Greatest, Greatest, KeyView!Written, Written,
         KeyView!Seen, Seen
<1>3. /\ \A r, L : KeyView(k)!Reconciled(r, L) = Reconciled(r, L)
      /\ \A r, n, L : KeyView(k)!Released(r, n, L) = Released(r, n, L)
  BY <1>2 DEF KeyView!Reconciled, Reconciled, KeyView!Released, Released
<1>4. /\ \A r, L : KeyView(k)!Release(r, L) = Release(r, L)
      /\ \A r, L : KeyView(k)!HandoffOK(r, L) = HandoffOK(r, L)
      /\ \A r, L : KeyView(k)!Handoff(r, L) = Handoff(r, L)
      /\ \A r : KeyView(k)!ConsumeOK(r) = ConsumeOK(r)
      /\ \A r, L : KeyView(k)!ConsumeReleased(r, L) = ConsumeReleased(r, L)
  BY <1>1, <1>2, <1>3
  DEF KeyView!Release, Release, KeyView!HandoffOK, HandoffOK, KeyView!Handoff, Handoff,
      KeyView!ConsumeOK, ConsumeOK, KeyView!ConsumeReleased, ConsumeReleased
<1>5. \A r, n, L : KeyView(k)!AcquireMany(r, n, L) = AcquireMany(r, n, L)
  BY <1>1, <1>2, <1>3 DEF KeyView!AcquireMany, AcquireMany
<1>6. \A r, L : KeyView(k)!Acquire(r, L) = Acquire(r, L)
  BY <1>1, <1>2, <1>3 DEF KeyView!Acquire, Acquire
<1>7. \A r, L, f, s : KeyView(k)!ReleaseSlot(r, L, f, s) = ReleaseSlot(r, L, f, s)
  BY <1>4 DEF KeyView!ReleaseSlot, ReleaseSlot
<1>8. \A r, n, L, w : KeyView(k)!ReleaseGroup(r, n, L, w) = ReleaseGroup(r, n, L, w)
  BY <1>1, <1>2, <1>3 DEF KeyView!ReleaseGroup, ReleaseGroup
<1>9. \A r : KeyView(k)!FallbackLimit(r) = FallbackLimit(r)
  BY <1>1 DEF KeyView!FallbackLimit, FallbackLimit
<1>10. \A r : KeyView(k)!Occupied(r) = Occupied(r)
  BY DEF KeyView!Occupied, Occupied
<1>11. QED
  BY <1>1, <1>5, <1>6, <1>7, <1>8, <1>9, <1>10

\* A step of a key is a step of SemaphoreKey or none.
LEMMA KeyStepImplements ==
  ASSUME IInv, IInv', NEW k \in Keys, KeyStep(k)
  PROVE  [KeyView(k)!Next]_(KeyView(k)!vars)
<1>1. /\ Held(k) \in Nat /\ Waiting(k) \in Nat /\ Cardinality(Jobs) \in Nat
      /\ Held(k) <= Cardinality(Jobs) /\ Waiting(k) <= Cardinality(Jobs)
  BY KeyCounts, JobCount DEF Held, Waiting
<1>2. LimitsOf(k) \subseteq Nat \ {0}
  BY LimitsOfType
<1>3. CASE Untouched(k)
  BY <1>3 DEF Untouched, Held, Waiting, KeyView!vars
<1>4. ASSUME NEW n \in Nat \ {0}, NEW L \in LimitsOf(k), NEW block \in BOOLEAN,
             Takes(k, n, L, block)
      PROVE  KeyView(k)!Next
  <2>1. KeyView(k)!Dispatch(n, L, block)
    BY <1>4, SameOperators DEF Takes, Held, Waiting, KeyView!Dispatch
  <2>2. n \in 1..Cardinality(Jobs)
    BY <1>1, <1>4 DEF Takes
  <2>3. QED
    BY <2>1, <2>2 DEF KeyView!Next, LimitsOf
<1>5. ASSUME NEW L \in LimitsOf(k), Expires(k, L)
      PROVE  KeyView(k)!Next
  <2>1. KeyView(k)!PromoteWaiter(L)
    BY <1>5, SameOperators DEF Expires, Held, Waiting, KeyView!PromoteWaiter
  <2>2. QED
    BY <2>1 DEF KeyView!Next, LimitsOf
<1>6. Legal(k) = KeyView(k)!ReleaseLimits
  BY SameOperators DEF Legal, LimitsOf, KeyView!ReleaseLimits
<1>7. ASSUME NEW L \in Legal(k), NEW first \in BOOLEAN, NEW second \in BOOLEAN,
             GivesBack(k, L, first, second)
      PROVE  KeyView(k)!Next
  <2>1. KeyView(k)!ReleaseHolder(L, first, second)
    BY <1>7, SameOperators DEF GivesBack, Held, Waiting, KeyView!ReleaseHolder
  <2>2. QED
    BY <1>6, <2>1 DEF KeyView!Next
<1>8. ASSUME NEW n \in Nat \ {0}, NEW w \in Nat, NEW L \in Legal(k), GiveBack(k, n, L, w)
      PROVE  KeyView(k)!Next
  <2>1. n \in 1..Cardinality(Jobs) /\ w \in 0..Cardinality(Jobs)
        /\ n \in 1..Held(k) /\ w \in 0..Waiting(k)
    BY <1>1, <1>8 DEF GiveBack
  <2>2. KeyView(k)!RecoverHolders(n, L, w)
    BY <1>8, <2>1, SameOperators DEF GiveBack, Held, Waiting, KeyView!RecoverHolders
  <2>3. QED
    BY <1>6, <2>1, <2>2 DEF KeyView!Next
<1>9. CASE LosesWaiter(k)
  BY <1>9 DEF LosesWaiter, Held, Waiting, KeyView!DropWaiter, KeyView!Next
<1>10. CASE LosesRow(k)
  BY <1>10, SameOperators DEF LosesRow, Held, Waiting, KeyView!Cleanup, KeyView!Next
<1>11. QED
  BY <1>3, <1>4, <1>5, <1>7, <1>8, <1>9, <1>10 DEF KeyStep

(***************************************************************************)
(* The store implements SemaphoreKey, seen from every key: each of its     *)
(* transactions, over whatever jobs, is for each key one action of         *)
(* SemaphoreKey or leaves the key alone.                                   *)
(***************************************************************************)
THEOREM ImplementsSemaphoreKeyAlways == Spec => ImplementsSemaphoreKey
<1>1. Init => \A k \in Keys : KeyView(k)!Init
  <2> SUFFICES ASSUME Init, NEW k \in Keys PROVE KeyView(k)!Init
    OBVIOUS
  <2>1. sem[k] = NoRow /\ Holders(k) = {} /\ OfKey(blocked, k) = {}
    BY DEF Init, Holders, OfKey
  <2>2. QED
    BY <2>1, SameOperators, FS_EmptySet DEF KeyView!Init
<1>2. IInv /\ IInv' /\ [Next]_vars
        => [\A k \in Keys : [KeyView(k)!Next]_(KeyView(k)!vars)]_vars
  <2>1. ASSUME IInv, IInv', [Next]_vars, NEW k \in Keys
        PROVE  [KeyView(k)!Next]_(KeyView(k)!vars)
    BY <2>1, NextKeyStep, KeyStepImplements
  <2>2. QED
    BY <2>1
<1>3. QED
  BY <1>1, <1>2, InductiveInvariant, PTL DEF Spec, ImplementsSemaphoreKey

-----------------------------------------------------------------------------
\* The row of every key counts slots that jobs of the key hold.
RowsCount == \A k \in Keys : Counts(sem[k], Held(k), LimitsOf(k))

\* Under one limit and one backend a key with a waiter has no slot left.
NoneLeft ==
  OneBackend(Jobs) =>
    \A k \in Keys, L \in Nat :
      LimitsOf(k) = {L} /\ Waiting(k) > 0 => Held(k) = L

LEMMA KeyStepCounts ==
  ASSUME IInv, IInv', NEW k \in Keys, Counts(sem[k], Held(k), LimitsOf(k)), KeyStep(k)
  PROVE  Counts(sem'[k], Held(k)', LimitsOf(k))
<1>1. Held(k) \in Nat /\ Waiting(k) \in Nat /\ LimitsOf(k) \subseteq Nat \ {0}
  BY KeyCounts, LimitsOfType
<1>2. CASE Untouched(k) \/ LosesWaiter(k)
  BY <1>2 DEF Untouched, LosesWaiter
<1>3. ASSUME NEW n \in Nat \ {0}, NEW L \in LimitsOf(k), NEW block \in BOOLEAN,
             Takes(k, n, L, block)
      PROVE  Counts(sem'[k], Held(k)', LimitsOf(k))
  BY <1>1, <1>3, AcquireManyCounts DEF Takes, Admits
<1>4. ASSUME NEW L \in LimitsOf(k), Expires(k, L)
      PROVE  Counts(sem'[k], Held(k)', LimitsOf(k))
  BY <1>1, <1>4, AcquireCounts DEF Expires
<1>5. ASSUME NEW L \in Legal(k), NEW first \in BOOLEAN, NEW second \in BOOLEAN,
             GivesBack(k, L, first, second)
      PROVE  Counts(sem'[k], Held(k)', LimitsOf(k))
  BY <1>1, <1>5, ReleaseSlotCounts DEF GivesBack, Legal
<1>6. ASSUME NEW n \in Nat \ {0}, NEW w \in Nat, NEW L \in Legal(k), GiveBack(k, n, L, w)
      PROVE  Counts(sem'[k], Held(k)', LimitsOf(k))
  BY <1>1, <1>6, ReleaseGroupCounts DEF GiveBack, Legal
<1>7. CASE LosesRow(k)
  BY <1>7, NoRowCounts DEF LosesRow
<1>8. QED
  BY <1>2, <1>3, <1>4, <1>5, <1>6, <1>7 DEF KeyStep

LEMMA KeyStepNoneLeft ==
  ASSUME IInv, IInv', NEW k \in Keys, Counts(sem[k], Held(k), LimitsOf(k)), KeyStep(k),
         OneBackend(Jobs), NEW M \in Nat, LimitsOf(k) = {M},
         Waiting(k) > 0 => Held(k) = M, Waiting(k)' > 0
  PROVE  Held(k)' = M
<1>1. /\ Held(k) \in Nat /\ Waiting(k) \in Nat /\ Held(k)' \in Nat /\ Waiting(k)' \in Nat
      /\ LimitsOf(k) \subseteq Nat \ {0} /\ M \in Nat \ {0}
  <2>1. Held(k)' \in Nat
    BY KeyStepCounts DEF Counts
  <2>2. Waiting(k)' \in Nat
    <3>1. OfKey(blocked', k) \subseteq Jobs
      BY DEF IInv, TypeOK, OfKey
    <3>2. QED
      BY <3>1, JobCount DEF Waiting, OfKey
  <2>3. QED
    BY <2>1, <2>2, KeyCounts, LimitsOfType
<1>2. Held(k) <= M /\ Held(k)' <= M
  <2>1. Counts(sem'[k], Held(k)', LimitsOf(k))
    BY KeyStepCounts
  <2>2. QED
    BY <1>1, <2>1, CountsBounded
<1>3. CASE Untouched(k) \/ LosesWaiter(k)
  BY <1>1, <1>3 DEF Untouched, LosesWaiter
<1>4. ASSUME NEW n \in Nat \ {0}, NEW L \in LimitsOf(k), NEW block \in BOOLEAN,
             Takes(k, n, L, block)
      PROVE  Held(k)' = M
  <2> DEFINE a == AcquireMany(sem[k], n, L)
  <2> HIDE DEF a
  <2>0. LimitsOf(k) \subseteq Nat \ {0}
    BY <1>1
  <2>1. /\ a.got \in 0..n
        /\ Counts(a.row, Held(k) + a.got, LimitsOf(k))
        /\ LimitsOf(k) = {L} /\ a.got < n => Held(k) + a.got = L
    <3>1. Admits(a, n, Held(k), L, LimitsOf(k))
      BY ONLY <2>0, Counts(sem[k], Held(k), LimitsOf(k)), n \in Nat \ {0}, L \in LimitsOf(k),
         AcquireManyCounts, Zenon DEF a
    <3>2. QED
      BY ONLY <3>1 DEF Admits
  <2>2. /\ Held(k)' = Held(k) + a.got
        /\ Waiting(k)' = IF block THEN Waiting(k) + (n - a.got) ELSE Waiting(k)
    BY <1>4 DEF Takes, a
  <2>3. QED
    BY <1>1, <1>2, <2>1, <2>2
<1>5. ASSUME NEW L \in LimitsOf(k), Expires(k, L)
      PROVE  Held(k)' = M
  BY <1>1, <1>2, <1>5 DEF Expires
<1>6. ASSUME NEW L \in Legal(k), NEW first \in BOOLEAN, NEW second \in BOOLEAN,
             GivesBack(k, L, first, second)
      PROVE  Held(k)' = M
  <2> DEFINE a == ReleaseSlot(sem[k], L, first, second)
  <2>0. Held(k) > 0 /\ L \in LimitsOf(k) \cup {FallbackLimit(sem[k])}
    BY <1>6 DEF GivesBack, Legal
  <2> HIDE DEF a
  <2>1. /\ a.unblocked \in {0, 1} /\ (a.unblocked = 1 => first \/ second)
        /\ second /\ (\E m \in LimitsOf(k) : LimitsOf(k) = {m}) => a.unblocked = 1
    BY <1>1, <2>0, ReleaseSlotCounts DEF a
  <2>2. /\ Held(k)' = Held(k) - 1 + a.unblocked /\ Waiting(k)' = Waiting(k) - a.unblocked
        /\ Waiting(k) > 0 => second
    BY <1>6 DEF GivesBack, a
  <2>3. QED
    BY <1>1, <1>2, <2>1, <2>2
<1>7. ASSUME NEW n \in Nat \ {0}, NEW w \in Nat, NEW L \in Legal(k), GiveBack(k, n, L, w)
      PROVE  Held(k)' = M
  <2> DEFINE a == ReleaseGroup(sem[k], n, L, w)
  <2>1. /\ (\E m \in LimitsOf(k) : LimitsOf(k) = {m}) => a.unblocked = Least(n, w)
    BY <1>1, <1>7, ReleaseGroupCounts DEF GiveBack, Legal
  <2>2. /\ Held(k)' = Held(k) - n + a.unblocked /\ Waiting(k)' = Waiting(k) - a.unblocked
        /\ w = Waiting(k)
    BY <1>7 DEF GiveBack
  <2> HIDE DEF a
  <2>3. QED
    BY <1>1, <1>2, <2>1, <2>2 DEF Least
<1>8. CASE LosesRow(k)
  BY <1>1, <1>8 DEF LosesRow
<1>9. QED
  BY <1>3, <1>4, <1>5, <1>6, <1>7, <1>8 DEF KeyStep

\* The inductive invariant of the semaphores.
LEMMA RowsCountAlways == Spec => [](IInv /\ RowsCount /\ NoneLeft)
<1>1. Init => RowsCount /\ NoneLeft
  <2>1. ASSUME Init, NEW k \in Keys
        PROVE  sem[k] = NoRow /\ Held(k) = 0 /\ Waiting(k) = 0
    <3>1. sem[k] = NoRow /\ Holders(k) = {} /\ OfKey(blocked, k) = {}
      BY <2>1 DEF Init, Holders, OfKey
    <3>2. QED
      BY <3>1, FS_EmptySet DEF Held, Waiting
  <2>2. QED
    BY <2>1, NoRowCounts DEF RowsCount, NoneLeft
<1>2. IInv /\ IInv' /\ RowsCount /\ NoneLeft /\ [Next]_vars => RowsCount' /\ NoneLeft'
  <2> SUFFICES ASSUME IInv, IInv', RowsCount, NoneLeft, [Next]_vars
               PROVE  RowsCount' /\ NoneLeft'
    OBVIOUS
  <2>1. \A k \in Keys : KeyStep(k) /\ Counts(sem[k], Held(k), LimitsOf(k))
    BY NextKeyStep DEF RowsCount
  <2>2. RowsCount'
    BY <2>1, KeyStepCounts DEF RowsCount, LimitsOf, OfKey
  <2>3. NoneLeft'
    <3>1. SUFFICES ASSUME OneBackend(Jobs), NEW k \in Keys, NEW L \in Nat,
                          LimitsOf(k) = {L}, Waiting(k)' > 0
                   PROVE  Held(k)' = L
      BY DEF NoneLeft, LimitsOf, OfKey, OneBackend
    <3>2. Waiting(k) > 0 => Held(k) = L
      BY <3>1 DEF NoneLeft
    <3>3. QED
      BY <2>1, <3>1, <3>2, KeyStepNoneLeft
  <2>4. QED
    BY <2>2, <2>3
<1>3. QED
  BY <1>1, <1>2, InductiveInvariant, PTL DEF Spec

(***************************************************************************)
(* No slot of the store leaks: however the limits of the jobs of a key     *)
(* differ, and whichever transactions ran, its semaphore never counts more *)
(* slots than there are ready and running jobs of the key.                 *)
(***************************************************************************)
THEOREM NoSlotLeaksAlways == Spec => []NoSlotLeaks
<1>1. RowsCount => NoSlotLeaks
  BY SameOperators DEF RowsCount, Counts, NoSlotLeaks, KeyView!NoLeakedSlot, Held
<1>2. QED
  BY <1>1, RowsCountAlways, PTL

\* Under uniform limits a key with a job has a single limit.
LEMMA OneLimit ==
  ASSUME UniformLimits, NEW j \in Jobs
  PROVE  LimitsOf(Key[j]) = {Limit[j]}
BY DEF UniformLimits, LimitsOf, OfKey

(***************************************************************************)
(* With one limit for each key, the semaphore of a key counts exactly its  *)
(* ready and running jobs, so no more of them run than the limit allows.   *)
(***************************************************************************)
THEOREM SlotsExactAlways == Spec => []SlotsExact
<1>1. IInv /\ RowsCount => SlotsExact
  <2> SUFFICES ASSUME IInv, RowsCount, UniformLimits, NEW k \in Keys
               PROVE  /\ Occupied(sem[k]) = Held(k)
                      /\ \A j \in OfKey(Jobs, k) : Held(k) <= Limit[j]
    BY DEF SlotsExact, Held
  <2>1. Counts(sem[k], Held(k), LimitsOf(k))
    BY DEF RowsCount
  <2>2. ASSUME NEW j \in OfKey(Jobs, k)
        PROVE  Occupied(sem[k]) = Held(k) /\ Held(k) <= Limit[j]
    <3>1. LimitsOf(k) = {Limit[j]} /\ Limit[j] \in Nat \ {0}
      BY <2>2, OneLimit, ConstantsAssumption DEF OfKey
    <3>2. QED
      BY <2>1, <3>1, CountsBounded
  <2>3. CASE OfKey(Jobs, k) = {}
    <3>1. sem[k] = NoRow
      BY <2>1, <2>3 DEF Counts, LimitsOf
    <3>2. Holders(k) = {}
      BY <2>3 DEF Holders, OfKey, IInv, TypeOK
    <3>3. QED
      BY <2>3, <3>1, <3>2, NoRowIsEmpty, FS_EmptySet DEF Held
  <2>4. QED
    BY <2>2, <2>3
<1>2. QED
  BY <1>1, RowsCountAlways, PTL

(***************************************************************************)
(* With one limit and one backend, nobody waits for a slot that is free:   *)
(* every release passes the slot on, and no dispatch, discard, recovery or *)
(* cleanup leaves one behind.                                              *)
(***************************************************************************)
THEOREM NoIdleSlotWithWaiterAlways == Spec => []NoIdleSlotWithWaiter
<1>1. IInv /\ NoneLeft => NoIdleSlotWithWaiter
  <2> SUFFICES ASSUME IInv, NoneLeft, UniformLimits, OneBackend(Jobs), NEW j \in blocked
               PROVE  Held(Key[j]) >= Limit[j]
    BY DEF NoIdleSlotWithWaiter, Held
  <2>1. j \in Jobs /\ Key[j] \in Keys /\ Limit[j] \in Nat \ {0} /\ Limit[j] \in Nat
    BY ConstantsAssumption DEF IInv, TypeOK, BlockedHaveKey
  <2>2. Waiting(Key[j]) > 0
    <3>1. OfKey(blocked, Key[j]) # {}
      BY DEF OfKey
    <3>2. QED
      BY <3>1, KeyCounts
  <2>3. Held(Key[j]) = Limit[j]
    BY <2>1, <2>2, OneLimit DEF NoneLeft
  <2>4. QED
    BY <2>1, <2>3
<1>2. QED
  BY <1>1, RowsCountAlways, PTL
=============================================================================
