---------------------------- MODULE SemaphoreRow ----------------------------
(***************************************************************************)
(* The arithmetic of one row of the dj_queue Semaphore table.              *)
(*                                                                         *)
(* A row counts the free slots of one concurrency key.  Every writer       *)
(* brings the limit L of its own job and re-bases the row to it, so the    *)
(* formulas have to be right for two limits at once: the one stored in the *)
(* row and the one the writer brings.  Timestamps are left out.            *)
(***************************************************************************)
EXTENDS Integers

CONSTANTS
  LeftToRight,  \* an UPDATE assigns its columns one after the other, each
                \* assignment seeing the ones before it (MySQL and MariaDB)
  NullCount     \* the NULL active_count of a row older than the column

ASSUME LeftToRightAssumption == LeftToRight \in BOOLEAN
ASSUME NullCountAssumption == NullCount \notin Int

\* No row for the key.  A stored limit is never 0, so no row looks like it.
NoRow == [value |-> 0, active |-> 0, limit |-> 0]

Row == [value : Nat, active : Nat \cup {NullCount}, limit : Nat]

Least(a, b) == IF a <= b THEN a ELSE b

Greatest(a, b) == IF a >= b THEN a ELSE b

\* The slots in use according to the row.
Occupied(row) == row.limit - row.value

\* Mutant of Reconciled: the free slots kept instead of the slots in use when
\* the limit changes.
ReconciledKeepsFree(row, L) == Least(L, row.value)

\* Mutant of Reconciled: a limit below the slots in use counts free slots below 0.
ReconciledUnclamped(row, L) == Least(L, row.value + L - row.limit)

\* Free slots once the row is re-based to the limit L.
Reconciled(row, L) == Least(L, Greatest(0, row.value + L - row.limit))

\* The same after n slots are given back.
Released(row, n, L) == Least(L, Greatest(0, row.value + L - row.limit + n))

\* What every complete write leaves: v free slots of L.
Written(v, L) == [value |-> v, active |-> L - v, limit |-> L]

(***************************************************************************)
(* Taking one slot.  The three database families have three texts: an      *)
(* insert followed by conditional updates, the PostgreSQL upsert with two  *)
(* data-modifying CTEs, and the MySQL upsert, whose SET list is evaluated  *)
(* from left to right, each assignment seeing the ones before it.          *)
(***************************************************************************)
Acquire(row, L) ==
  IF row = NoRow THEN [ok |-> TRUE, row |-> Written(L - 1, L)]
  ELSE LET available == Reconciled(row, L) IN
       IF row.value > row.limit - L
         THEN [ok |-> TRUE, row |-> Written(available - 1, L)]
         ELSE [ok |-> FALSE, row |-> Written(available, L)]

AcquirePostgres(row, L) ==
  LET available == Reconciled(row, L)
      acquired == row = NoRow \/ row.value > row.limit - L
      stale == \/ row.value # available
               \/ row.active # L - available
               \/ row.limit # L
  IN  [ok |-> acquired,
       row |-> IF row = NoRow THEN [value |-> L - 1, active |-> 1, limit |-> L]
               ELSE IF acquired THEN [value |-> available - 1,
                                      active |-> L - (available - 1),
                                      limit |-> L]
               ELSE IF stale THEN [value |-> available,
                                   active |-> L - available,
                                   limit |-> L]
               ELSE row]

\* Mutant of AcquireMySQL: the limit assigned before the value that reads it.
AcquireMySQLLimitFirst(row, L) ==
  LET taken(r) == LET a == Reconciled(r, L) IN IF a > 0 THEN a - 1 ELSE a
      setActive == [row EXCEPT !.active = L - taken(row)]
      setLimit == [setActive EXCEPT !.limit = L]
      setValue == [setLimit EXCEPT !.value = taken(setLimit)]
  IN  IF row = NoRow
        THEN [ok |-> TRUE, row |-> [value |-> L - 1, active |-> 1, limit |-> L]]
        ELSE [ok |-> Reconciled(row, L) > 0, row |-> setValue]

AcquireMySQL(row, L) ==
  LET taken(r) == LET a == Reconciled(r, L) IN IF a > 0 THEN a - 1 ELSE a
      setActive == [row EXCEPT !.active = L - taken(row)]
      setValue == [setActive EXCEPT !.value = taken(setActive)]
      setLimit == [setValue EXCEPT !.limit = L]
  IN  IF row = NoRow
        THEN [ok |-> TRUE, row |-> [value |-> L - 1, active |-> 1, limit |-> L]]
        ELSE [ok |-> Reconciled(row, L) > 0, row |-> setLimit]

\* Mutant of AcquireMany: the stored limit is not looked at.
AcquireManyStale(row, n, L) ==
  LET available == IF row = NoRow THEN L ELSE Least(L, row.value)
      got == Least(n, available)
  IN  IF n <= 0 THEN [got |-> 0, row |-> row]
      ELSE [got |-> got, row |-> Written(available - got, L)]

\* Taking up to n slots for a group of jobs that share one policy.
AcquireMany(row, n, L) ==
  LET available == IF row = NoRow THEN L ELSE Reconciled(row, L)
      got == Least(n, available)
  IN  IF n <= 0 THEN [got |-> 0, row |-> row]
      ELSE [got |-> got, row |-> Written(available - got, L)]

(***************************************************************************)
(* Giving slots back.  These updates assign value, then active_count, then *)
(* limit, the last two from expressions over the columns.                  *)
(***************************************************************************)
\* The row that the expression for active_count reads once value is v.
Seen(row, v) == IF LeftToRight THEN [row EXCEPT !.value = v] ELSE row

Release(row, L) ==
  LET v == Released(row, 1, L) IN
  IF row = NoRow THEN NoRow
  ELSE [value |-> v, active |-> L - Released(Seen(row, v), 1, L), limit |-> L]

\* RELEASE_CLAIMED: the finishing job's slot goes straight to a waiter.
HandoffOK(row, L) == row # NoRow /\ row.value > row.limit - L - 1

Handoff(row, L) ==
  LET v == Released(row, 1, L) - 1 IN
  [value |-> v, active |-> L - Released(Seen(row, v), 1, L) + 1, limit |-> L]

\* CONSUME_RELEASED: take a slot that the same transaction has released.
ConsumeOK(row) == row # NoRow /\ row.value > 0

\* Mutant of ConsumeReleased: the consumed slot is not added to active_count.
ConsumeReleasedUncounted(row, L) ==
  [value |-> row.value - 1, active |-> L - row.value, limit |-> L]

ConsumeReleased(row, L) ==
  LET v == row.value - 1 IN
  [value |-> v, active |-> L - Seen(row, v).value + 1, limit |-> L]

\* release_concurrency_slot as a whole: hand the slot to a waiter; failing
\* that give it back and look once more for a waiter to pass it on to.  The two
\* looks are two statements, so a waiter may be visible to the second only.
ReleaseSlot(row, L, first, second) ==
  LET released == Release(row, L) IN
  IF first /\ HandoffOK(row, L)
    THEN [unblocked |-> 1, row |-> Handoff(row, L)]
  ELSE IF second /\ ConsumeOK(released)
    THEN [unblocked |-> 1, row |-> ConsumeReleased(released, L)]
  ELSE [unblocked |-> 0, row |-> released]

\* Recovery gives back n slots of one key at once; w waiters are visible.
ReleaseGroup(row, n, L, w) ==
  LET available == Released(row, n, L)
      promoted == Least(Least(n, available), w)
  IN  IF row = NoRow THEN [unblocked |-> 0, row |-> NoRow]
      ELSE [unblocked |-> promoted, row |-> Written(available - promoted, L)]

\* The limit a releasing job uses when its policy no longer resolves.
FallbackLimit(row) == IF row = NoRow THEN 1 ELSE row.limit
=============================================================================
