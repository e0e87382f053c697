-------------------------- MODULE SemaphoreRowProofs --------------------------
(***************************************************************************)
(* What each operation of SemaphoreRow does to the count of slots in use,  *)
(* for every row a transaction can leave and every limit a job can bring.  *)
(***************************************************************************)
EXTENDS SemaphoreRow, TLAPS

\* The rows that transactions leave behind.
GoodRow(r) ==
  /\ r \in Row
  /\ r # NoRow => /\ r.limit > 0
                  /\ r.value <= r.limit
                  /\ ~LeftToRight => r.active \in {NullCount, r.limit - r.value}

\* No row counts no slot.
LEMMA NoRowIsEmpty == NoRow \in Row /\ Occupied(NoRow) = 0
BY DEF NoRow, Row, Occupied

\* A good row counts a natural number of slots in use.
LEMMA OccupiedIsNat ==
  ASSUME NEW r, GoodRow(r)
  PROVE  Occupied(r) \in Nat
BY DEF GoodRow, Row, Occupied, NoRow

\* What a complete write of v free slots out of L leaves.
LEMMA WrittenIsGood ==
  ASSUME NEW L \in Nat \ {0}, NEW v \in 0..L
  PROVE  /\ GoodRow(Written(v, L))
         /\ Written(v, L) # NoRow
         /\ Written(v, L).limit = L
         /\ Occupied(Written(v, L)) = L - v
BY DEF GoodRow, Written, Row, NoRow, Occupied

\* Re-basing keeps the number of free slots within the new limit and never
\* counts more slots in use than before.
LEMMA ReleasedRange ==
  ASSUME NEW r, GoodRow(r), NEW n \in Nat, NEW L \in Nat \ {0}
  PROVE  /\ Released(r, n, L) \in 0..L
         /\ Occupied(r) <= n => L - Released(r, n, L) = 0
         /\ n <= Occupied(r) => L - Released(r, n, L) <= Occupied(r) - n
         /\ n <= Occupied(r) /\ Occupied(r) <= L =>
              L - Released(r, n, L) = Occupied(r) - n
BY DEF GoodRow, Row, Released, Least, Greatest, Occupied, NoRow

\* Re-basing without giving a slot back; a slot is free exactly when the guard
\* of the acquisition holds.
LEMMA ReconciledRange ==
  ASSUME NEW r, GoodRow(r), NEW L \in Nat \ {0}
  PROVE  /\ Reconciled(r, L) \in 0..L
         /\ L - Reconciled(r, L) <= Occupied(r)
         /\ Occupied(r) <= L => L - Reconciled(r, L) = Occupied(r)
         /\ (Reconciled(r, L) > 0) <=> (r.value > r.limit - L)
BY DEF GoodRow, Row, Reconciled, Least, Greatest, Occupied, NoRow

\* Taking slots: the row grows by at most what was granted, and exactly by it
\* while the row fits the limit; nothing is granted beyond the limit.
LEMMA AcquireManyEffect ==
  ASSUME NEW r, GoodRow(r), NEW n \in Nat, NEW L \in Nat \ {0}
  PROVE  LET a == AcquireMany(r, n, L) IN
         /\ a.got \in 0..n
         /\ GoodRow(a.row)
         /\ a.row.limit \in {r.limit, L}
         /\ a.row = NoRow => r = NoRow
         /\ Occupied(a.row) <= Occupied(r) + a.got
         /\ Occupied(r) <= L => Occupied(a.row) = Occupied(r) + a.got
         /\ n > 0 => a.row.limit = L
<1> DEFINE available == IF r = NoRow THEN L ELSE Reconciled(r, L)
           got == Least(n, available)
<1>1. /\ available \in 0..L
      /\ L - available <= Occupied(r)
      /\ Occupied(r) <= L => L - available = Occupied(r)
  BY ReconciledRange, NoRowIsEmpty
<1>2. got \in 0..n /\ got \in 0..available
  BY <1>1 DEF Least
<1>3. CASE n = 0
  BY <1>3 DEF AcquireMany, GoodRow, Row, Occupied
<1>4. CASE n # 0
  <2>1. AcquireMany(r, n, L) = [got |-> got, row |-> Written(available - got, L)]
    BY <1>4 DEF AcquireMany
  <2> DEFINE after == Written(available - got, L)
  <2> HIDE DEF available, got
  <2>2. available - got \in 0..L
    BY <1>1, <1>2
  <2>3. /\ GoodRow(after) /\ after # NoRow /\ after.limit = L
        /\ Occupied(after) = L - (available - got)
    BY <2>2, WrittenIsGood
  <2>4. Occupied(r) \in Nat
    BY OccupiedIsNat
  <2> HIDE DEF after
  <2>5. AcquireMany(r, n, L).got = got /\ AcquireMany(r, n, L).row = after
    BY <2>1 DEF after
  <2>6. QED
    BY <1>1, <1>2, <2>3, <2>4, <2>5
<1>5. QED
  BY <1>3, <1>4

\* A single acquisition, on success and on failure.
LEMMA AcquireEffect ==
  ASSUME NEW r, GoodRow(r), NEW L \in Nat \ {0}
  PROVE  LET a == Acquire(r, L) IN
         /\ a.ok \in BOOLEAN
         /\ GoodRow(a.row) /\ a.row # NoRow /\ a.row.limit = L
         /\ a.ok => Occupied(a.row) <= Occupied(r) + 1
         /\ ~a.ok => Occupied(a.row) <= Occupied(r)
         /\ a.ok /\ Occupied(r) <= L => Occupied(a.row) = Occupied(r) + 1
         /\ ~a.ok /\ Occupied(r) <= L => Occupied(a.row) = Occupied(r)
<1>1. CASE r = NoRow
  BY <1>1, WrittenIsGood, NoRowIsEmpty DEF Acquire
<1>2. CASE r # NoRow
  <2> DEFINE available == Reconciled(r, L)
             ok == r.value > r.limit - L
             v == IF ok THEN available - 1 ELSE available
  <2>1. /\ available \in 0..L
        /\ L - available <= Occupied(r)
        /\ Occupied(r) <= L => L - available = Occupied(r)
        /\ (available > 0) <=> ok
    BY ReconciledRange
  <2>2. v \in 0..L
    BY <2>1
  <2>3. /\ ok => Acquire(r, L) = [ok |-> TRUE, row |-> Written(available - 1, L)]
        /\ ~ok => Acquire(r, L) = [ok |-> FALSE, row |-> Written(available, L)]
    BY <1>2 DEF Acquire
  <2> HIDE DEF available, ok, v
  <2>4. /\ GoodRow(Written(v, L)) /\ Written(v, L) # NoRow
        /\ Written(v, L).limit = L /\ Occupied(Written(v, L)) = L - v
    BY <2>2, WrittenIsGood
  <2>5. Occupied(r) \in Nat /\ ok \in BOOLEAN
    BY OccupiedIsNat DEF ok
  <2>6. CASE ok
    <3>1. v = available - 1 /\ Acquire(r, L).ok /\ Acquire(r, L).row = Written(v, L)
      BY <2>3, <2>6 DEF v
    <3>2. QED
      BY <2>1, <2>4, <2>5, <2>6, <3>1
  <2>7. CASE ~ok
    <3>1. v = available /\ Acquire(r, L).ok = FALSE /\ Acquire(r, L).row = Written(v, L)
      BY <2>3, <2>7 DEF v
    <3>2. QED
      BY <2>1, <2>4, <2>5, <2>7, <3>1
  <2>8. QED
    BY <2>6, <2>7
<1>3. QED
  BY <1>1, <1>2

\* Giving one slot back leaves a good row with one slot less in use.
LEMMA ReleaseRow ==
  ASSUME NEW r, GoodRow(r), r # NoRow, NEW L \in Nat \ {0}
  PROVE  /\ GoodRow(Release(r, L)) /\ Release(r, L) # NoRow
         /\ Release(r, L).value = Released(r, 1, L) /\ Release(r, L).limit = L
<1> DEFINE v == Released(r, 1, L)
           a == L - Released(Seen(r, v), 1, L)
<1>1. v \in 0..L
  BY ReleasedRange
<1>2. a \in 0..L
  <2>1. Seen(r, v).value \in Nat /\ Seen(r, v).limit = r.limit /\ r.limit \in Nat
    BY <1>1, LeftToRightAssumption DEF Seen, GoodRow, Row
  <2>2. QED
    BY <2>1 DEF Released, Least, Greatest
<1>3. ~LeftToRight => a = L - v
  BY DEF Seen
<1>4. Release(r, L) = [value |-> v, active |-> a, limit |-> L]
  BY DEF Release
<1> HIDE DEF v, a
<1>5. Release(r, L) \in Row
  BY <1>1, <1>2, <1>4 DEF Row
<1>6. Release(r, L) # NoRow
  BY <1>4 DEF NoRow
<1>7. QED
  BY <1>1, <1>2, <1>3, <1>4, <1>5, <1>6 DEF GoodRow, v

\* A direct hand-over leaves a good row with as many slots in use as before.
LEMMA HandoffRow ==
  ASSUME NEW r, GoodRow(r), NEW L \in Nat \ {0}, HandoffOK(r, L)
  PROVE  /\ GoodRow(Handoff(r, L)) /\ Handoff(r, L) # NoRow
         /\ Handoff(r, L).value = Released(r, 1, L) - 1 /\ Handoff(r, L).limit = L
         /\ Released(r, 1, L) > 0
<1> DEFINE v == Released(r, 1, L) - 1
           a == L - Released(Seen(r, v), 1, L) + 1
<1>1. Released(r, 1, L) \in 0..L /\ Released(r, 1, L) > 0
  BY ReleasedRange DEF HandoffOK, Released, Least, Greatest, GoodRow, Row
<1>2. a \in Nat
  <2>1. Seen(r, v).value \in Nat /\ Seen(r, v).limit = r.limit /\ r.limit \in Nat
    BY <1>1, LeftToRightAssumption DEF Seen, GoodRow, Row
  <2>2. QED
    BY <2>1 DEF Released, Least, Greatest
<1>3. ~LeftToRight => a = L - v
  BY <1>1 DEF Seen
<1>4. Handoff(r, L) = [value |-> v, active |-> a, limit |-> L]
  BY DEF Handoff
<1>5. v \in 0..L
  BY <1>1
<1> HIDE DEF v, a
<1>6. Handoff(r, L) \in Row /\ Handoff(r, L) # NoRow
  BY <1>2, <1>4, <1>5 DEF Row, NoRow
<1>7. QED
  BY <1>1, <1>2, <1>3, <1>4, <1>5, <1>6 DEF GoodRow, v

\* Taking a released slot of a row already written with the limit L.
LEMMA ConsumeRow ==
  ASSUME NEW r, GoodRow(r), NEW L \in Nat \ {0}, r.limit = L, ConsumeOK(r)
  PROVE  /\ GoodRow(ConsumeReleased(r, L)) /\ ConsumeReleased(r, L) # NoRow
         /\ ConsumeReleased(r, L).value = r.value - 1
         /\ ConsumeReleased(r, L).limit = L
<1> DEFINE v == r.value - 1
           a == L - Seen(r, v).value + 1
<1>1. v \in 0..L /\ r.value \in 0..L
  BY DEF ConsumeOK, GoodRow, Row
<1>2. a \in Nat
  BY <1>1, LeftToRightAssumption DEF Seen, GoodRow, Row
<1>3. ~LeftToRight => a = L - v
  BY <1>1 DEF Seen
<1>4. ConsumeReleased(r, L) = [value |-> v, active |-> a, limit |-> L]
  BY DEF ConsumeReleased
<1> HIDE DEF v, a
<1>5. ConsumeReleased(r, L) \in Row /\ ConsumeReleased(r, L) # NoRow
  BY <1>1, <1>2, <1>4 DEF Row, NoRow
<1>6. QED
  BY <1>1, <1>2, <1>3, <1>4, <1>5 DEF GoodRow, v

\* Handing a slot over directly and giving it back to take it again are the
\* same thing: one is possible when the other is, with the same count after it.
\* So it does not matter which of the two looks for a waiter finds it.
LEMMA HandoffIsReleaseThenConsume ==
  ASSUME NEW r, GoodRow(r), NEW L \in Nat \ {0}
  PROVE  /\ HandoffOK(r, L) <=> ConsumeOK(Release(r, L))
         /\ HandoffOK(r, L) =>
              Occupied(Handoff(r, L)) = Occupied(ConsumeReleased(Release(r, L), L))
<1>1. CASE r = NoRow
  BY <1>1 DEF HandoffOK, ConsumeOK, Release
<1>2. CASE r # NoRow
  <2>1. /\ GoodRow(Release(r, L)) /\ Release(r, L) # NoRow
        /\ Release(r, L).value = Released(r, 1, L) /\ Release(r, L).limit = L
    BY <1>2, ReleaseRow
  <2>2. HandoffOK(r, L) <=> Released(r, 1, L) > 0
    BY <1>2 DEF HandoffOK, Released, Least, Greatest, GoodRow, Row
  <2>3. HandoffOK(r, L) <=> ConsumeOK(Release(r, L))
    BY <2>1, <2>2 DEF ConsumeOK
  <2>4. QED
    BY <2>1, <2>3, HandoffRow, ConsumeRow DEF Occupied
<1>3. QED
  BY <1>1, <1>2

\* One holder gives its slot back, and at most one waiter takes it.
LEMMA ReleaseSlotEffect ==
  ASSUME NEW r, GoodRow(r), NEW L \in Nat \ {0},
         NEW first \in BOOLEAN, NEW second \in BOOLEAN
  PROVE  LET a == ReleaseSlot(r, L, first, second) IN
         /\ a.unblocked \in {0, 1}
         /\ a.unblocked = 1 => first \/ second
         /\ GoodRow(a.row) /\ (a.row = NoRow <=> r = NoRow)
         /\ r # NoRow => a.row.limit = L
         /\ r = NoRow => a.unblocked = 0
         /\ Occupied(r) >= 1 => Occupied(a.row) <= Occupied(r) - 1 + a.unblocked
         /\ Occupied(r) <= 0 => Occupied(a.row) <= a.unblocked
         /\ 1 <= Occupied(r) /\ Occupied(r) <= L =>
              Occupied(a.row) = Occupied(r) - 1 + a.unblocked
<1> DEFINE v == Released(r, 1, L)
           a == ReleaseSlot(r, L, first, second)
<1>1. CASE r = NoRow
  <2>1. ~HandoffOK(r, L) /\ Release(r, L) = NoRow /\ ~ConsumeOK(NoRow)
    BY <1>1 DEF Release, HandoffOK, ConsumeOK
  <2>2. a.unblocked = 0 /\ a.row = NoRow
    BY <2>1 DEF ReleaseSlot
  <2>3. GoodRow(NoRow) /\ Occupied(NoRow) = 0
    BY NoRowIsEmpty DEF GoodRow
  <2> HIDE DEF a
  <2>4. QED
    BY <1>1, <2>2, <2>3 DEF a
<1>2. CASE r # NoRow
  <2>1. /\ v \in 0..L
        /\ Occupied(r) <= 1 => L - v = 0
        /\ 1 <= Occupied(r) => L - v <= Occupied(r) - 1
        /\ 1 <= Occupied(r) /\ Occupied(r) <= L => L - v = Occupied(r) - 1
    BY ReleasedRange
  <2>2. /\ GoodRow(Release(r, L)) /\ Release(r, L) # NoRow
        /\ Release(r, L).value = v /\ Release(r, L).limit = L
    BY <1>2, ReleaseRow
  <2>3. Occupied(r) \in Nat
    BY OccupiedIsNat
  <2>4. CASE first /\ HandoffOK(r, L)
    <3>1. a.unblocked = 1 /\ a.row = Handoff(r, L)
      BY <2>4 DEF ReleaseSlot
    <3>2. /\ GoodRow(a.row) /\ a.row # NoRow
          /\ a.row.limit = L /\ a.row.value = v - 1 /\ v > 0
      <4>1. /\ GoodRow(Handoff(r, L)) /\ Handoff(r, L) # NoRow
            /\ Handoff(r, L).value = Released(r, 1, L) - 1 /\ Handoff(r, L).limit = L
            /\ Released(r, 1, L) > 0
        BY ONLY GoodRow(r), L \in Nat \ {0}, <2>4, HandoffRow
      <4>2. QED
        BY ONLY <3>1, <4>1
    <3> HIDE DEF a, v
    <3>3. Occupied(a.row) = L - (v - 1)
      BY <3>2 DEF Occupied
    <3>4. first \/ second
      BY <2>4
    <3>5. v \in Int
      BY <2>1
    <3>6. QED
      BY <1>2, <2>1, <2>3, <3>1, <3>2, <3>3, <3>4, <3>5 DEF a
  <2>5. CASE ~(first /\ HandoffOK(r, L)) /\ second /\ ConsumeOK(Release(r, L))
    <3>1. a.unblocked = 1 /\ a.row = ConsumeReleased(Release(r, L), L)
      BY <2>5 DEF ReleaseSlot
    <3>2. v > 0
      BY <2>2, <2>5 DEF ConsumeOK
    <3>3. /\ GoodRow(a.row) /\ a.row # NoRow
          /\ a.row.limit = L /\ a.row.value = v - 1
      <4>1. PICK x : x = Release(r, L)
        OBVIOUS
      <4>2. GoodRow(x) /\ x.limit = L /\ x.value = v /\ ConsumeOK(x)
        BY <2>2, <2>5, <4>1
      <4>3. /\ GoodRow(ConsumeReleased(x, L)) /\ ConsumeReleased(x, L) # NoRow
            /\ ConsumeReleased(x, L).value = x.value - 1
            /\ ConsumeReleased(x, L).limit = L
        BY ONLY L \in Nat \ {0}, <4>2, ConsumeRow
      <4>4. a.row = ConsumeReleased(x, L)
        BY ONLY <3>1, <4>1
      <4>5. QED
        BY ONLY <4>2, <4>3, <4>4
    <3> HIDE DEF a, v
    <3>4. Occupied(a.row) = L - (v - 1)
      BY <3>3 DEF Occupied
    <3>5. first \/ second
      BY <2>5
    <3>6. v \in Int
      BY <2>1
    <3>7. QED
      BY <1>2, <2>1, <2>3, <3>1, <3>2, <3>3, <3>4, <3>5, <3>6 DEF a
  <2>6. CASE ~(first /\ HandoffOK(r, L)) /\ ~(second /\ ConsumeOK(Release(r, L)))
    <3>1. a.unblocked = 0 /\ a.row = Release(r, L)
      BY <2>6 DEF ReleaseSlot
    <3> HIDE DEF a, v
    <3>2. Occupied(a.row) = L - v
      BY <2>2, <3>1 DEF Occupied
    <3>3. QED
      BY <1>2, <2>1, <2>2, <2>3, <3>1, <3>2 DEF a
  <2>7. QED
    BY <2>4, <2>5, <2>6
<1>3. QED
  BY <1>1, <1>2

\* Recovery gives n slots back, and no more than n waiters take one.
LEMMA ReleaseGroupEffect ==
  ASSUME NEW r, GoodRow(r), NEW L \in Nat \ {0}, NEW n \in Nat, NEW w \in Nat
  PROVE  LET a == ReleaseGroup(r, n, L, w) IN
         /\ a.unblocked \in 0..n /\ a.unblocked \in 0..w
         /\ GoodRow(a.row) /\ (a.row = NoRow <=> r = NoRow)
         /\ r # NoRow => a.row.limit = L
         /\ n <= Occupied(r) => Occupied(a.row) <= Occupied(r) - n + a.unblocked
         /\ Occupied(r) <= n => Occupied(a.row) <= a.unblocked
         /\ n <= Occupied(r) /\ Occupied(r) <= L =>
              Occupied(a.row) = Occupied(r) - n + a.unblocked
<1> DEFINE v == Released(r, n, L)
           promoted == Least(Least(n, v), w)
<1>1. CASE r = NoRow
  BY <1>1, NoRowIsEmpty DEF ReleaseGroup, GoodRow
<1>2. CASE r # NoRow
  <2>1. /\ v \in 0..L
        /\ Occupied(r) <= n => L - v = 0
        /\ n <= Occupied(r) => L - v <= Occupied(r) - n
        /\ n <= Occupied(r) /\ Occupied(r) <= L => L - v = Occupied(r) - n
    BY ReleasedRange
  <2>2. promoted \in 0..n /\ promoted \in 0..v /\ promoted \in 0..w
    BY <2>1 DEF Least
  <2>3. ReleaseGroup(r, n, L, w) = [unblocked |-> promoted, row |-> Written(v - promoted, L)]
    BY <1>2 DEF ReleaseGroup
  <2>4. Occupied(r) \in Nat
    BY OccupiedIsNat
  <2> HIDE DEF v, promoted
  <2>5. v - promoted \in 0..L
    BY <2>1, <2>2
  <2>6. QED
    BY <1>2, <2>1, <2>2, <2>3, <2>4, <2>5, WrittenIsGood
<1>3. QED
  BY <1>1, <1>2

\* The PostgreSQL upsert computes what the portable text computes.
LEMMA PostgresAcquireAgrees ==
  ASSUME NEW r, GoodRow(r), NEW L \in Nat \ {0}
  PROVE  AcquirePostgres(r, L) = Acquire(r, L)
<1> DEFINE available == Reconciled(r, L)
<1>1. available \in 0..L /\ ((available > 0) <=> (r.value > r.limit - L))
  BY ReconciledRange
<1>2. CASE r = NoRow
  <2>1. Written(L - 1, L) = [value |-> L - 1, active |-> 1, limit |-> L]
    BY DEF Written
  <2>2. (r = NoRow \/ r.value > r.limit - L) = TRUE
    BY <1>2
  <2>3. AcquirePostgres(r, L) =
          [ok |-> TRUE, row |-> [value |-> L - 1, active |-> 1, limit |-> L]]
    BY <1>2, <2>2 DEF AcquirePostgres
  <2>4. QED
    BY <1>2, <2>1, <2>3 DEF Acquire
<1>3. CASE r # NoRow /\ r.value > r.limit - L
  BY <1>1, <1>3 DEF AcquirePostgres, Acquire, Written
<1>4. CASE r # NoRow /\ ~(r.value > r.limit - L)
  <2>1. \/ r = Written(available, L)
        \/ r.value # available \/ r.active # L - available \/ r.limit # L
    BY DEF GoodRow, Row, Written
  <2>2. QED
    BY <1>1, <1>4, <2>1 DEF AcquirePostgres, Acquire, Written
<1>5. QED
  BY <1>2, <1>3, <1>4

\* So does the MySQL upsert, whose assignments see the earlier ones.
LEMMA MySQLAcquireAgrees ==
  ASSUME NEW r, GoodRow(r), NEW L \in Nat \ {0}
  PROVE  AcquireMySQL(r, L) = Acquire(r, L)
<1> DEFINE available == Reconciled(r, L)
           taken == IF available > 0 THEN available - 1 ELSE available
           active == [r EXCEPT !.active = L - taken]
<1>1. available \in 0..L /\ ((available > 0) <=> (r.value > r.limit - L))
  BY ReconciledRange
<1>2. CASE r = NoRow
  <2>1. Written(L - 1, L) = [value |-> L - 1, active |-> 1, limit |-> L]
    BY DEF Written
  <2>2. QED
    BY <1>2, <2>1 DEF AcquireMySQL, Acquire
<1>3. CASE r # NoRow
  <2>1. active.value = r.value /\ active.limit = r.limit /\ active.active = L - taken
    BY DEF GoodRow, Row
  <2>2. Reconciled(active, L) = available
    BY <2>1 DEF Reconciled
  <2> DEFINE value == [active EXCEPT !.value = taken]
             limit == [value EXCEPT !.limit = L]
  <2>3. limit = Written(taken, L)
    <3> HIDE DEF taken
    <3>1. active = [value |-> r.value, active |-> L - taken, limit |-> r.limit]
      BY DEF GoodRow, Row
    <3> HIDE DEF active
    <3>2. value = [value |-> taken, active |-> L - taken, limit |-> r.limit]
      BY <3>1
    <3> HIDE DEF value
    <3>3. QED
      BY <3>2 DEF Written
  <2>4. AcquireMySQL(r, L) = [ok |-> available > 0, row |-> Written(taken, L)]
    BY <1>3, <2>2, <2>3 DEF AcquireMySQL
  <2>5. CASE available > 0
    BY <1>1, <1>3, <2>4, <2>5 DEF Acquire
  <2>6. CASE ~(available > 0)
    <3>1. taken = available /\ (available > 0) = FALSE
      BY <2>6
    <3>2. AcquireMySQL(r, L) = [ok |-> FALSE, row |-> Written(available, L)]
      BY <2>4, <3>1
    <3>3. QED
      BY <1>1, <1>3, <2>6, <3>2 DEF Acquire
  <2>7. QED
    BY <2>5, <2>6
<1>4. QED
  BY <1>2, <1>3
-----------------------------------------------------------------------------
(* A row beside the jobs it counts.                                        *)

\* The row r of a key with h holders, whose jobs bring the limits Lims: it never
\* counts more than the holders, and counts them exactly under a single limit.
Counts(r, h, Lims) ==
  /\ GoodRow(r) /\ h \in Nat
  /\ Occupied(r) <= h
  /\ r # NoRow => r.limit \in Lims
  /\ \A L \in Lims : Lims = {L} => Occupied(r) = h

\* Under a single limit no more jobs hold a slot than it allows.
LEMMA CountsBounded ==
  ASSUME NEW L \in Nat \ {0}, NEW r, NEW h, Counts(r, h, {L})
  PROVE  Occupied(r) = h /\ h <= L
<1>1. CASE r = NoRow
  BY <1>1, NoRowIsEmpty DEF Counts
<1>2. CASE r # NoRow
  BY <1>2 DEF Counts, GoodRow, Row, Occupied
<1>3. QED
  BY <1>1, <1>2

\* An absent row counts nobody.
LEMMA NoRowCounts ==
  ASSUME NEW Lims
  PROVE  Counts(NoRow, 0, Lims)
BY NoRowIsEmpty DEF Counts, GoodRow

\* What a gives a group of n of the slots of a key that h jobs hold.
Admits(a, n, h, L, Lims) ==
  /\ a.got \in 0..n
  /\ Counts(a.row, h + a.got, Lims)
  /\ Lims = {L} /\ a.got < n => h + a.got = L

\* A group takes slots.
LEMMA AcquireManyCounts ==
  ASSUME NEW Lims, Lims \subseteq Nat \ {0}, NEW r, NEW h, Counts(r, h, Lims),
         NEW n \in Nat \ {0}, NEW L \in Lims
  PROVE  Admits(AcquireMany(r, n, L), n, h, L, Lims)
<1> USE DEF Admits
<1> DEFINE a == AcquireMany(r, n, L)
<1>1. Occupied(r) \in Nat /\ L \in Nat \ {0}
  BY OccupiedIsNat DEF Counts
<1>2. /\ a.got \in 0..n /\ GoodRow(a.row) /\ a.row.limit = L
      /\ Occupied(a.row) <= Occupied(r) + a.got
      /\ Occupied(r) <= L => Occupied(a.row) = Occupied(r) + a.got
  BY <1>1, AcquireManyEffect DEF Counts
<1>3. Lims = {L} => Occupied(r) = h /\ h <= L
  BY <1>1, CountsBounded
<1>4. Occupied(r) <= L /\ a.got < n => Occupied(a.row) = L
  <2> DEFINE available == IF r = NoRow THEN L ELSE Reconciled(r, L)
  <2>1. available \in 0..L
    BY <1>1, ReconciledRange DEF Counts
  <2>2. a = [got |-> Least(n, available), row |-> Written(available - Least(n, available), L)]
    BY DEF AcquireMany
  <2> HIDE DEF available, a
  <2>3. a.got = Least(n, available) /\ a.row = Written(available - a.got, L)
    BY <2>2
  <2>4. a.got < n => a.got = available
    BY <2>1, <2>3 DEF Least
  <2>5. ASSUME a.got < n PROVE Occupied(a.row) = L
    <3>1. available - a.got = 0
      BY <2>1, <2>4, <2>5
    <3>2. a.row = Written(0, L)
      BY <2>3, <3>1
    <3>3. QED
      BY <1>1, <3>2, WrittenIsGood
  <2>6. QED
    BY <2>5
<1> HIDE DEF a
<1>5. Counts(a.row, h + a.got, Lims)
  BY <1>1, <1>2, <1>3, OccupiedIsNat DEF Counts
<1>6. Lims = {L} /\ a.got < n => h + a.got = L
  BY <1>1, <1>2, <1>3, <1>4
<1>7. QED
  BY <1>2, <1>5, <1>6 DEF a

\* One job tries to take a slot.
LEMMA AcquireCounts ==
  ASSUME NEW Lims, Lims \subseteq Nat \ {0}, NEW r, NEW h, Counts(r, h, Lims),
         NEW L \in Lims
  PROVE  LET a == Acquire(r, L) IN
         /\ a.ok => Counts(a.row, h + 1, Lims)
         /\ ~a.ok => Counts(a.row, h, Lims)
<1> DEFINE a == Acquire(r, L)
<1>1. Occupied(r) \in Nat /\ L \in Nat \ {0} /\ h \in Nat /\ Occupied(r) <= h
  BY OccupiedIsNat DEF Counts
<1>2. /\ GoodRow(a.row) /\ a.row.limit = L
      /\ a.ok => Occupied(a.row) <= Occupied(r) + 1
      /\ ~a.ok => Occupied(a.row) <= Occupied(r)
      /\ a.ok /\ Occupied(r) <= L => Occupied(a.row) = Occupied(r) + 1
      /\ ~a.ok /\ Occupied(r) <= L => Occupied(a.row) = Occupied(r)
  BY <1>1, AcquireEffect DEF Counts
<1>3. \A M \in Lims : Lims = {M} => M = L /\ Occupied(r) = h /\ h <= L
  BY <1>1, CountsBounded
<1> HIDE DEF a
<1>4. Occupied(a.row) \in Nat
  BY <1>2, OccupiedIsNat
<1>5. a.ok => Counts(a.row, h + 1, Lims)
  BY <1>1, <1>2, <1>3, <1>4 DEF Counts
<1>6. ~a.ok => Counts(a.row, h, Lims)
  BY <1>1, <1>2, <1>3, <1>4 DEF Counts
<1>7. QED
  BY <1>5, <1>6 DEF a

\* The limit with which a holder releases: one of the key's, or the row's own.
LEMMA ReleaseLimit ==
  ASSUME NEW Lims, Lims \subseteq Nat \ {0}, NEW r, NEW h, Counts(r, h, Lims),
         NEW L \in Lims \cup {FallbackLimit(r)}
  PROVE  L \in Nat \ {0} /\ (r # NoRow => L \in Lims)
BY DEF FallbackLimit, Counts

\* A holder releases its slot; a visible waiter takes it.
LEMMA ReleaseSlotCounts ==
  ASSUME NEW Lims, Lims \subseteq Nat \ {0}, NEW r, NEW h, Counts(r, h, Lims), h > 0,
         NEW L \in Lims \cup {FallbackLimit(r)},
         NEW first \in BOOLEAN, NEW second \in BOOLEAN
  PROVE  LET a == ReleaseSlot(r, L, first, second) IN
         /\ a.unblocked \in {0, 1} /\ (a.unblocked = 1 => first \/ second)
         /\ Counts(a.row, h - 1 + a.unblocked, Lims)
         /\ second /\ (\E M \in Lims : Lims = {M}) => a.unblocked = 1
<1> DEFINE a == ReleaseSlot(r, L, first, second)
<1>1. /\ Occupied(r) \in Nat /\ h \in Nat /\ Occupied(r) <= h /\ GoodRow(r)
      /\ L \in Nat \ {0} /\ (r # NoRow => L \in Lims)
  BY OccupiedIsNat, ReleaseLimit DEF Counts
<1>2. /\ a.unblocked \in {0, 1} /\ (a.unblocked = 1 => first \/ second)
      /\ GoodRow(a.row) /\ (a.row = NoRow <=> r = NoRow)
      /\ r # NoRow => a.row.limit = L
      /\ Occupied(r) >= 1 => Occupied(a.row) <= Occupied(r) - 1 + a.unblocked
      /\ Occupied(r) <= 0 => Occupied(a.row) <= a.unblocked
      /\ 1 <= Occupied(r) /\ Occupied(r) <= L =>
           Occupied(a.row) = Occupied(r) - 1 + a.unblocked
  BY <1>1, ReleaseSlotEffect
<1>3. ASSUME NEW M \in Lims, Lims = {M}
      PROVE  r # NoRow /\ M = L /\ Occupied(r) = h /\ h <= L
  <2>1. Occupied(r) = h /\ h <= M
    BY <1>3, CountsBounded
  <2>2. r # NoRow
    BY <2>1, NoRowIsEmpty
  <2>3. QED
    BY <1>1, <1>3, <2>1, <2>2
<1>4. ASSUME second, NEW M \in Lims, Lims = {M}
      PROVE  a.unblocked = 1
  <2>1. /\ r # NoRow /\ 1 <= Occupied(r) /\ Occupied(r) <= L
    BY <1>1, <1>3, <1>4
  <2>2. /\ Release(r, L) # NoRow /\ Release(r, L).value = Released(r, 1, L)
    BY <1>1, <2>1, ReleaseRow
  <2>3. L - Released(r, 1, L) = Occupied(r) - 1 /\ Released(r, 1, L) \in 0..L
    BY <1>1, <2>1, ReleasedRange
  <2>4. ConsumeOK(Release(r, L))
    BY <1>1, <2>1, <2>2, <2>3 DEF ConsumeOK
  <2>5. QED
    BY <1>4, <2>4 DEF ReleaseSlot
<1> HIDE DEF a
<1>5. Occupied(a.row) \in Nat
  BY <1>2, OccupiedIsNat
<1>6. Counts(a.row, h - 1 + a.unblocked, Lims)
  <2>1. h - 1 + a.unblocked \in Nat /\ Occupied(a.row) <= h - 1 + a.unblocked
    BY <1>1, <1>2, <1>5
  <2>2. \A M \in Lims : Lims = {M} => Occupied(a.row) = h - 1 + a.unblocked
    BY <1>1, <1>2, <1>3, <1>5
  <2>3. QED
    BY <1>1, <1>2, <2>1, <2>2 DEF Counts
<1>7. QED
  BY <1>2, <1>4, <1>6 DEF a

\* Recovery releases n slots; visible waiters take as many as there are.
LEMMA ReleaseGroupCounts ==
  ASSUME NEW Lims, Lims \subseteq Nat \ {0}, NEW r, NEW h, Counts(r, h, Lims),
         NEW n \in Nat \ {0}, n <= h, NEW w \in Nat, NEW L \in Lims \cup {FallbackLimit(r)}
  PROVE  LET a == ReleaseGroup(r, n, L, w) IN
         /\ a.unblocked \in 0..n /\ a.unblocked \in 0..w
         /\ Counts(a.row, h - n + a.unblocked, Lims)
         /\ (\E M \in Lims : Lims = {M}) => a.unblocked = Least(n, w)
<1> DEFINE a == ReleaseGroup(r, n, L, w)
<1>0. GoodRow(r) /\ h \in Nat /\ Occupied(r) <= h
  BY DEF Counts
<1>1. /\ Occupied(r) \in Nat /\ h \in Nat /\ Occupied(r) <= h /\ GoodRow(r)
      /\ L \in Nat \ {0} /\ (r # NoRow => L \in Lims) /\ n \in Nat
  BY <1>0, ReleaseLimit, OccupiedIsNat
<1>2. /\ a.unblocked \in 0..n /\ a.unblocked \in 0..w
      /\ GoodRow(a.row) /\ (a.row = NoRow <=> r = NoRow)
      /\ r # NoRow => a.row.limit = L
      /\ n <= Occupied(r) => Occupied(a.row) <= Occupied(r) - n + a.unblocked
      /\ Occupied(r) <= n => Occupied(a.row) <= a.unblocked
      /\ n <= Occupied(r) /\ Occupied(r) <= L =>
           Occupied(a.row) = Occupied(r) - n + a.unblocked
  <2> HIDE DEF a
  <2>1. GoodRow(r) /\ L \in Nat \ {0} /\ n \in Nat /\ w \in Nat
    BY <1>1
  <2>2. QED
    BY <2>1, ReleaseGroupEffect DEF a
<1>3. ASSUME NEW M \in Lims, Lims = {M}
      PROVE  r # NoRow /\ M = L /\ Occupied(r) = h /\ h <= L
  <2>1. Occupied(r) = h /\ h <= M
    BY <1>3, CountsBounded
  <2>2. r # NoRow
    BY <1>1, <2>1, NoRowIsEmpty
  <2>3. QED
    BY <1>1, <1>3, <2>1, <2>2
<1>4. ASSUME NEW M \in Lims, Lims = {M}
      PROVE  a.unblocked = Least(n, w)
  <2>1. r # NoRow /\ n <= Occupied(r) /\ Occupied(r) <= L
    BY <1>1, <1>3, <1>4
  <2>2. L - Released(r, n, L) = Occupied(r) - n /\ Released(r, n, L) \in 0..L
    BY <1>1, <2>1, ReleasedRange
  <2>3. n <= Released(r, n, L)
    BY <1>1, <2>1, <2>2
  <2>4. Least(n, Released(r, n, L)) = n
    BY <2>3 DEF Least
  <2>5. QED
    BY <2>1, <2>4 DEF ReleaseGroup
<1> HIDE DEF a
<1>5. Occupied(a.row) \in Nat
  BY <1>2, OccupiedIsNat
<1>6. Counts(a.row, h - n + a.unblocked, Lims)
  <2>1. h - n + a.unblocked \in Nat /\ Occupied(a.row) <= h - n + a.unblocked
    BY <1>1, <1>2, <1>5
  <2>2. \A M \in Lims : Lims = {M} => Occupied(a.row) = h - n + a.unblocked
    BY <1>1, <1>2, <1>3, <1>5
  <2>3. QED
    BY <1>1, <1>2, <2>1, <2>2 DEF Counts
<1>7. QED
  BY <1>2, <1>4, <1>6 DEF a
-----------------------------------------------------------------------------
(* Bulk operations against as many single ones.                            *)

\* A complete write of v free slots out of L is re-based to L without change.
LEMMA WrittenRebased ==
  ASSUME NEW L \in Nat \ {0}, NEW v \in 0..L
  PROVE  /\ Reconciled(Written(v, L), L) = v
         /\ (Written(v, L).value > Written(v, L).limit - L) <=> v > 0
BY DEF Written, Reconciled, Least, Greatest

\* One more job in a bulk dispatch is one more acquisition.
LEMMA AcquireManyStep ==
  ASSUME NEW r, GoodRow(r), NEW n \in Nat, NEW L \in Nat \ {0}
  PROVE  LET many == AcquireMany(r, n, L)
             one == Acquire(many.row, L)
         IN  AcquireMany(r, n + 1, L) =
               [got |-> many.got + (IF one.ok THEN 1 ELSE 0), row |-> one.row]
<1> DEFINE available == IF r = NoRow THEN L ELSE Reconciled(r, L)
           many == AcquireMany(r, n, L)
           one == Acquire(many.row, L)
           next == AcquireMany(r, n + 1, L)
           got == Least(n + 1, available)
<1>1. available \in 0..L /\ (r # NoRow => (available > 0 <=> r.value > r.limit - L))
  BY ReconciledRange
<1>2. next = [got |-> got, row |-> Written(available - got, L)]
  BY DEF AcquireMany
<1>3. CASE n = 0
  <2>1. many.got = 0 /\ many.row = r
    BY <1>3 DEF AcquireMany
  <2>2. CASE available > 0
    <3>1. got = 1
      BY <1>1, <1>3, <2>2 DEF Least
    <3>2. one = [ok |-> TRUE, row |-> Written(available - 1, L)]
      BY <1>1, <2>1, <2>2 DEF Acquire
    <3> HIDE DEF available, many, one, next, got
    <3>3. one.ok = TRUE /\ one.row = Written(available - 1, L)
      BY <3>2
    <3>4. many.got + (IF one.ok THEN 1 ELSE 0) = 1
      BY <2>1, <3>3
    <3>5. QED
      BY <1>2, <3>1, <3>3, <3>4 DEF many, one, next
  <2>3. CASE ~(available > 0)
    <3>1. got = 0 /\ available = 0 /\ r # NoRow
      BY <1>1, <1>3, <2>3 DEF Least
    <3>2. one = [ok |-> FALSE, row |-> Written(available, L)]
      BY <1>1, <2>1, <2>3, <3>1 DEF Acquire
    <3> HIDE DEF available, many, one, next, got
    <3>3. one.ok = FALSE /\ one.row = Written(available, L)
      BY <3>2
    <3>4. many.got + (IF one.ok THEN 1 ELSE 0) = 0 /\ available - 0 = available
      BY <2>1, <3>1, <3>3
    <3>5. QED
      BY <1>2, <3>1, <3>3, <3>4 DEF many, one, next
  <2>4. QED
    BY <2>2, <2>3
<1>4. CASE n # 0
  <2> DEFINE taken == Least(n, available)
             v == available - taken
  <2>1. many = [got |-> taken, row |-> Written(v, L)]
    BY <1>4 DEF AcquireMany
  <2>2. v \in 0..L /\ taken \in Nat
    BY <1>1 DEF Least
  <2>3. \/ v > 0 /\ taken = n /\ got = n + 1
        \/ v = 0 /\ taken = available /\ got = available
    BY <1>1 DEF Least
  <2> HIDE DEF available, many, one, next, got, taken, v
  <2>4. many.got = taken /\ many.row = Written(v, L)
    BY <2>1
  <2>5. Written(v, L) # NoRow
    BY <2>2, WrittenIsGood
  <2>6. /\ Reconciled(Written(v, L), L) = v
        /\ (Written(v, L).value > Written(v, L).limit - L) <=> v > 0
    BY <2>2, WrittenRebased
  <2>7. CASE v > 0
    <3>1. one = [ok |-> TRUE, row |-> Written(v - 1, L)]
      BY <2>4, <2>5, <2>6, <2>7 DEF Acquire, one
    <3>2. one.ok = TRUE /\ one.row = Written(v - 1, L)
      BY <3>1
    <3>3. many.got + (IF one.ok THEN 1 ELSE 0) = got /\ v - 1 = available - got
      BY <1>1, <2>2, <2>3, <2>4, <2>7, <3>2 DEF v
    <3>4. QED
      BY <1>2, <3>2, <3>3 DEF many, one, next
  <2>8. CASE ~(v > 0)
    <3>1. one = [ok |-> FALSE, row |-> Written(v, L)]
      BY <2>4, <2>5, <2>6, <2>8 DEF Acquire, one
    <3>2. one.ok = FALSE /\ one.row = Written(v, L)
      BY <3>1
    <3>3. many.got + (IF one.ok THEN 1 ELSE 0) = got /\ v = available - got
      BY <1>1, <2>2, <2>3, <2>4, <2>8, <3>2 DEF v
    <3>4. QED
      BY <1>2, <3>2, <3>3 DEF many, one, next
  <2>9. QED
    BY <2>7, <2>8
<1>5. QED
  BY <1>3, <1>4

\* A release from a row that a complete write left, where updates read the old
\* row: the slot is given back, or passed on to a waiter.
LEMMA ReleaseWritten ==
  ASSUME ~LeftToRight, NEW L \in Nat \ {0}, NEW v \in 0..L, v < L, NEW waiting \in BOOLEAN
  PROVE  ReleaseSlot(Written(v, L), L, waiting, waiting) =
           IF waiting THEN [unblocked |-> 1, row |-> Written(v, L)]
                      ELSE [unblocked |-> 0, row |-> Written(v + 1, L)]
<1> DEFINE r == Written(v, L)
<1>1. r = [value |-> v, active |-> L - v, limit |-> L] /\ r # NoRow
  BY WrittenIsGood DEF Written
<1> HIDE DEF r
<1>2. Released(r, 1, L) = v + 1
  BY <1>1 DEF Released, Least, Greatest
<1>3. \A x : Seen(r, x) = r
  BY DEF Seen
<1>4. CASE waiting
  <2>1. HandoffOK(r, L)
    BY <1>1 DEF HandoffOK
  <2>2. Handoff(r, L) = [value |-> (v + 1) - 1, active |-> L - (v + 1) + 1, limit |-> L]
    BY <1>2, <1>3 DEF Handoff
  <2>3. Handoff(r, L) = r
    BY <1>1, <2>2
  <2>4. QED
    BY <1>4, <2>1, <2>3 DEF ReleaseSlot, r
<1>5. CASE ~waiting
  <2>1. Release(r, L) = [value |-> v + 1, active |-> L - (v + 1), limit |-> L]
    BY <1>1, <1>2, <1>3 DEF Release
  <2>2. Release(r, L) = Written(v + 1, L)
    BY <2>1 DEF Written
  <2>3. QED
    BY <1>5, <2>2 DEF ReleaseSlot, r
<1>6. QED
  BY <1>4, <1>5

\* While the row fits the limit, one more job in a recovered group is one more
\* release.
LEMMA ReleaseGroupStep ==
  ASSUME ~LeftToRight, NEW r, GoodRow(r), r # NoRow, NEW n \in Nat, NEW w \in Nat,
         NEW L \in Nat \ {0}, n < Occupied(r), Occupied(r) <= L
  PROVE  LET group == ReleaseGroup(r, n, L, w)
             waiting == w > group.unblocked
             last == ReleaseSlot(group.row, L, waiting, waiting)
         IN  ReleaseGroup(r, n + 1, L, w) =
               [unblocked |-> group.unblocked + last.unblocked, row |-> last.row]
<1> DEFINE group == ReleaseGroup(r, n, L, w)
           waiting == w > group.unblocked
           last == ReleaseSlot(group.row, L, waiting, waiting)
           a == Released(r, n, L)
           b == Released(r, n + 1, L)
           p == Least(Least(n, a), w)
           q == Least(Least(n + 1, b), w)
<1>1. Occupied(r) \in Nat
  BY OccupiedIsNat
<1>2. /\ a \in 0..L /\ L - a = Occupied(r) - n
      /\ b \in 0..L /\ L - b = Occupied(r) - (n + 1)
  <2>1. n + 1 \in Nat /\ n <= Occupied(r) /\ n + 1 <= Occupied(r)
    BY <1>1
  <2>2. a \in 0..L /\ L - a = Occupied(r) - n
    BY <2>1, ReleasedRange
  <2> DEFINE m == n + 1
  <2>3. m \in Nat /\ m <= Occupied(r)
    BY <2>1
  <2> HIDE DEF m
  <2>4. Released(r, m, L) \in 0..L /\ L - Released(r, m, L) = Occupied(r) - m
    BY <2>3, ReleasedRange
  <2>5. QED
    BY <2>2, <2>4 DEF m
<1>3. b = a + 1 /\ a >= n
  BY <1>1, <1>2
<1>4. group = [unblocked |-> p, row |-> Written(a - p, L)]
  BY DEF ReleaseGroup
<1>5. ReleaseGroup(r, n + 1, L, w) = [unblocked |-> q, row |-> Written(b - q, L)]
  BY DEF ReleaseGroup
<1>6. p = Least(n, w) /\ q = Least(n + 1, w)
  BY <1>2, <1>3 DEF Least
<1> HIDE DEF group, waiting, last, a, b, p, q
<1>7. group.unblocked = p /\ group.row = Written(a - p, L)
  BY <1>4
<1>8. a - p \in 0..L /\ a - p < L /\ waiting \in BOOLEAN
  BY <1>1, <1>2, <1>3, <1>6 DEF Least, waiting
<1>9. last = IF waiting THEN [unblocked |-> 1, row |-> Written(a - p, L)]
                        ELSE [unblocked |-> 0, row |-> Written(a - p + 1, L)]
  BY <1>7, <1>8, ReleaseWritten DEF last
<1>10. CASE waiting
  <2>1. p = n /\ q = n + 1
    BY <1>6, <1>7, <1>10 DEF waiting, Least
  <2>2. last.unblocked = 1 /\ last.row = Written(a - p, L)
    BY <1>9, <1>10
  <2>3. group.unblocked + last.unblocked = q /\ b - q = a - p
    BY <1>2, <1>3, <1>7, <2>1, <2>2
  <2>4. QED
    BY <1>5, <2>2, <2>3 DEF group, waiting, last
<1>11. CASE ~waiting
  <2>1. p = w /\ q = w
    BY <1>6, <1>7, <1>11 DEF waiting, Least
  <2>2. last.unblocked = 0 /\ last.row = Written(a - p + 1, L)
    BY <1>9, <1>11
  <2>3. group.unblocked + last.unblocked = q /\ b - q = a - p + 1
    BY <1>2, <1>3, <1>7, <2>1, <2>2
  <2>4. QED
    BY <1>5, <2>2, <2>3 DEF group, waiting, last
<1>12. QED
  BY <1>10, <1>11
=============================================================================
