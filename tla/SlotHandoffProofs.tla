------------------------- MODULE SlotHandoffProofs -------------------------
(***************************************************************************)
(* Proofs about SlotHandoff, for any jobs, keys, limits and sessions, and  *)
(* any number of aborts, retries and crashes: slots add up, none is left   *)
(* idle beside a waiter but by a recovery or an abort, and completions     *)
(* stay out of deadlocks.                                                  *)
(***************************************************************************)
EXTENDS SlotHandoff, TLAPS, FiniteSetTheorems

States == {"new", "ready", "blocked", "claimed", "gone"}

Steps == {"none", "acquire group", "pick group", "release group", "acquire",
          "first look", "hand over", "release", "second look", "commit"}

SemRows == [value : Nat, active : Int, limit : Nat]

Befores == UNION {[K -> SemRows] : K \in SUBSET Keys}

Txs ==
  [op : {"none", "enqueue", "complete", "recover", "promote"}, at : Steps,
   jobs : SUBSET Jobs, todo : SUBSET (Jobs \cup Keys),
   turn : Jobs \cup Keys \cup {"none"}, rows : SUBSET Jobs,
   to : [Jobs -> {"same", "ready", "blocked"}], before : Befores]

-----------------------------------------------------------------------------
(* How far a transaction t is. *)

\* The keys, or waiting rows, that it has yet to come to.
Left(t) == IF t.at = "commit" THEN {} ELSE t.todo \cup {t.turn}

Locks(t) == DOMAIN t.before

Untouched(t) == \A j \in Jobs : t.to[j] = "same"

\* It has locked the semaphores it has come to and no other, and moved only
\* jobs of those.
EnqueueShape(t) ==
  /\ t.at \in {"acquire group", "commit"} /\ t.rows = {}
  /\ Left(t) \subseteq KeysOf(t.jobs) /\ Left(t) \cap Locks(t) = {}
  /\ KeysOf(t.jobs) \subseteq Left(t) \cup Locks(t)
  /\ t.at # "commit" => t.turn \notin t.todo
  /\ \A j \in Jobs : t.to[j] # "same" <=> j \in t.jobs /\ Key[j] \in Locks(t)

RecoverShape(t) ==
  /\ t.at \in {"pick group", "release group", "commit"}
  /\ Left(t) \subseteq KeysOf(t.jobs) /\ Left(t) \cap Locks(t) = {}
  /\ KeysOf(t.jobs) \subseteq Left(t) \cup Locks(t)
  /\ t.at # "commit" => t.turn \notin t.todo
  /\ \A j \in t.rows :
       Key[j] \in Locks(t) \/ (t.at = "release group" /\ Key[j] = t.turn)
  /\ \A j \in Jobs : t.to[j] # "same" =>
       t.to[j] = "ready" /\ j \in t.rows /\ Key[j] \in Locks(t)

PromoteShape(t) ==
  /\ t.at \in {"acquire", "commit"} /\ t.jobs = {}
  /\ Left(t) \subseteq t.rows
  /\ t.at # "commit" => t.turn \notin t.todo
  /\ \A j \in t.rows \ Left(t) : Key[j] \in Locks(t)
  /\ \A j \in Jobs : t.to[j] # "same" =>
       t.to[j] = "ready" /\ j \in t.rows \ Left(t)

CompleteShape(t) ==
  /\ \E j \in Jobs : t.jobs = {j} /\ t.turn = Key[j]
  /\ \A j \in t.rows : Key[j] = t.turn
  /\ \/ /\ t.at \in {"first look", "release"}
        /\ t.rows = {} /\ Locks(t) = {} /\ Untouched(t)
     \/ /\ t.at = "hand over"
        /\ \E x \in Jobs : t.rows = {x}
        /\ Locks(t) = {} /\ Untouched(t)
     \/ /\ t.at = "second look"
        /\ t.rows = {} /\ Locks(t) = {t.turn} /\ Untouched(t)
     \/ /\ t.at = "commit" /\ Locks(t) = {t.turn}
        /\ \A j \in Jobs : t.to[j] # "same" => t.to[j] = "ready" /\ j \in t.rows

Shape(t) ==
  /\ t.op = "none" => /\ t.jobs = {} /\ t.rows = {} /\ Locks(t) = {}
                      /\ t.at = "none" /\ Untouched(t)
  /\ t.op = "enqueue" => EnqueueShape(t)
  /\ t.op = "recover" => RecoverShape(t)
  /\ t.op = "promote" => PromoteShape(t)
  /\ t.op = "complete" => CompleteShape(t)

-----------------------------------------------------------------------------
GoodRow(r, k) == r \in SemRows /\ r.limit = Limit[k] /\ r.value <= Limit[k]

Typed ==
  /\ job \in [Jobs -> States]
  /\ sem \in [Keys -> SemRows] /\ \A k \in Keys : GoodRow(sem[k], k)
  /\ tx \in [Sessions -> Txs]
  /\ \A s \in Sessions : \A k \in Held(s) : GoodRow(tx[s].before[k], k)
  /\ doubt \subseteq Keys

Shapes == \A s \in Sessions : Shape(tx[s])

\* What a session works on is as it found it, and its own.
Owned(s, t) ==
  /\ \A j \in t.jobs : job[j] = IF t.op = "enqueue" THEN "new" ELSE "claimed"
  /\ \A j \in t.rows : job[j] = "blocked"
  /\ \A u \in Sessions \ {s} : /\ t.jobs \cap tx[u].jobs = {}
                               /\ t.rows \cap tx[u].rows = {}
                               /\ Locks(t) \cap Locks(tx[u]) = {}

Exclusive == \A s \in Sessions : Owned(s, tx[s])

-----------------------------------------------------------------------------
(* The argument for SlotsAddUp. *)

\* The states of the jobs once transaction t has committed.
After(t) ==
  [j \in Jobs |-> IF t.to[j] # "same" THEN t.to[j]
                  ELSE IF j \in t.jobs THEN "gone" ELSE job[j]]

Holders(f, k) == {j \in OfKey(Jobs, k) : f[j] \in {"ready", "claimed"}}

Balanced(r, f, k) == r.value + Cardinality(Holders(f, k)) = Limit[k]

Unlocked(k) == \A s \in Sessions : k \notin Held(s)

\* The books of a key balance with what is committed, and with what the
\* transaction that has the lock is about to commit.
Books ==
  /\ \A k \in Keys : Unlocked(k) => Balanced(sem[k], job, k)
  /\ \A s \in Sessions : \A k \in Held(s) :
       Balanced(tx[s].before[k], job, k) /\ Balanced(sem[k], After(tx[s]), k)

-----------------------------------------------------------------------------
(* The argument for NoIdleSlotBesideWaiter. *)

\* A transaction in progress has the waiter and will come to it.
Taken(j) == \E t \in Sessions : j \in tx[t].rows

\* The waiters that transaction t of session s leaves are in other hands; none
\* of its own has blocked.
Passes(s, t, k) ==
  /\ \A j \in Blocked(k) : t.to[j] = "same" =>
       \/ \E u \in Sessions \ {s} : j \in tx[u].rows
       \/ t.op = "promote" /\ j \in Left(t)
  /\ \A j \in t.jobs : Key[j] = k => t.to[j] # "blocked"

\* The slot that a completion has released waits for its second look.
Spare(t) == IF t.at = "second look" THEN 1 ELSE 0

\* A slot that is free, or is about to be, has no waiter that nobody has.
NoneLeft ==
  \A k \in Keys \ doubt :
    /\ Unlocked(k) /\ sem[k].value > 0 => \A j \in Blocked(k) : Taken(j)
    /\ \A s \in Sessions : k \in Held(s) =>
         /\ tx[s].before[k].value > 0 => \A j \in Blocked(k) : Taken(j)
         /\ tx[s].op # "recover" /\ sem[k].value > Spare(tx[s]) => Passes(s, tx[s], k)

IInv == Typed /\ Shapes /\ Exclusive /\ Books /\ NoneLeft

USE SlotHandoffAssumption

-----------------------------------------------------------------------------
(* Sets of jobs.                                                           *)

LEMMA JobsFinite == ASSUME NEW S, S \subseteq Jobs
                    PROVE  IsFiniteSet(S) /\ Cardinality(S) \in Nat
BY FS_Subset, FS_CardinalityType

\* Of the holders H of a key those in G go and those in S come.
LEMMA CardinalityMoved ==
  ASSUME NEW H, H \subseteq Jobs, NEW G, G \subseteq H,
         NEW S, S \subseteq Jobs, S \cap H = {}
  PROVE  /\ Cardinality((H \ G) \cup S) = Cardinality(H) - Cardinality(G) + Cardinality(S)
         /\ Cardinality(G) <= Cardinality(H)
         /\ Cardinality(H) \in Nat /\ Cardinality(G) \in Nat /\ Cardinality(S) \in Nat
<1>1. IsFiniteSet(H) /\ IsFiniteSet(G) /\ IsFiniteSet(S) /\ IsFiniteSet(H \ G)
  BY JobsFinite
<1>2. Cardinality(H) \in Nat /\ Cardinality(G) \in Nat /\ Cardinality(S) \in Nat
  BY JobsFinite
<1>3. Cardinality(H \ G) = Cardinality(H) - Cardinality(G)
  <2>1. H \cap G = G
    OBVIOUS
  <2>2. QED
    BY <1>1, <2>1, FS_Difference
<1>4. Cardinality((H \ G) \cup S) = Cardinality(H \ G) + Cardinality(S) - Cardinality({})
  <2>1. (H \ G) \cap S = {}
    OBVIOUS
  <2>2. QED
    BY <1>1, <2>1, FS_Union
<1>5. Cardinality(G) <= Cardinality(H)
  BY <1>1, FS_Subset
<1>6. QED
  BY <1>2, <1>3, <1>4, <1>5, FS_EmptySet

-----------------------------------------------------------------------------
(* Transactions.                                                           *)

LEMMA NoTxShape ==
  /\ NoTx \in Txs /\ NoTx.op = "none" /\ NoTx.at = "none"
  /\ NoTx.jobs = {} /\ NoTx.rows = {} /\ NoTx.todo = {}
  /\ Locks(NoTx) = {} /\ Untouched(NoTx)
  /\ Shape(NoTx)
<1>1. [k \in {} |-> NoRow] \in [{} -> SemRows]
  OBVIOUS
<1>2. [k \in {} |-> NoRow] \in Befores
  BY <1>1 DEF Befores
<1> DEFINE b == [k \in {} |-> NoRow]
<1>3. DOMAIN b = {} /\ b \in Befores
  BY <1>2
<1>4. NoTx = [op |-> "none", at |-> "none", jobs |-> {}, todo |-> {}, turn |-> "none",
              rows |-> {}, to |-> [j \in Jobs |-> "same"], before |-> b]
  BY DEF NoTx
<1> HIDE DEF b
<1>5. NoTx \in Txs
  BY <1>3, <1>4 DEF Txs, Steps
<1>6. QED
  BY <1>3, <1>4, <1>5 DEF Locks, Untouched, Shape

LEMMA OnwardTx ==
  ASSUME NEW t \in Txs, NEW step \in Steps \ {"commit"}, NEW n \in Onward(t, step)
  PROVE  /\ n \in Txs /\ n.op = t.op /\ n.jobs = t.jobs /\ n.rows = t.rows
         /\ n.to = t.to /\ n.before = t.before
         /\ \/ t.todo = {} /\ n.at = "commit" /\ n.todo = {}
            \/ n.at = step /\ n.turn \in t.todo /\ n.todo = t.todo \ {n.turn}
         /\ Left(n) = t.todo
<1>1. CASE t.todo = {}
  <2>1. n = [t EXCEPT !.at = "commit"]
    BY <1>1 DEF Onward
  <2>2. QED
    BY <1>1, <2>1 DEF Txs, Steps, Left
<1>2. CASE t.todo # {}
  <2>1. PICK x \in t.todo : n = [t EXCEPT !.at = step, !.turn = x, !.todo = @ \ {x}]
    BY <1>2 DEF Onward
  <2>2. x \in Jobs \cup Keys /\ t.todo \ {x} \in SUBSET (Jobs \cup Keys)
    BY DEF Txs
  <2>3. PICK T \in SUBSET (Jobs \cup Keys) : T = t.todo \ {x}
    BY <2>2
  <2>4. n = [t EXCEPT !.at = step, !.turn = x, !.todo = T]
    BY <2>1, <2>3
  <2>5. n \in Txs
    BY <2>2, <2>4 DEF Txs
  <2>6. /\ n.op = t.op /\ n.jobs = t.jobs /\ n.rows = t.rows
        /\ n.to = t.to /\ n.before = t.before
        /\ n.at = step /\ n.turn = x /\ n.todo = T
    BY <2>4 DEF Txs
  <2>7. Left(n) = t.todo
    BY <2>3, <2>6 DEF Left
  <2>8. QED
    BY <2>3, <2>5, <2>6, <2>7
<1>3. QED
  BY <1>1, <1>2

Startable(op, S) ==
  /\ op \in {"enqueue", "complete", "recover", "promote"}
  /\ S \in SUBSET Jobs /\ S # {}
  /\ op = "complete" => \E j \in Jobs : S = {j}

Fresh(n, op, S) ==
  /\ n \in Txs /\ n.op = op /\ Shape(n)
  /\ n.jobs = IF op = "promote" THEN {} ELSE S
  /\ n.rows = IF op = "promote" THEN S ELSE {}
  /\ Locks(n) = {} /\ Untouched(n)

LEMMA StartedTx ==
  ASSUME NEW op, NEW S, Startable(op, S), NEW n \in Started(op, S)
  PROVE  Fresh(n, op, S)
<1>0. /\ op \in {"enqueue", "complete", "recover", "promote"}
      /\ S \in SUBSET Jobs /\ S # {}
      /\ op = "complete" => \E j \in Jobs : S = {j}
  BY DEF Startable
<1> DEFINE todo == IF op = "promote" THEN S ELSE KeysOf(S)
           mine == IF op = "promote" THEN [NoTx EXCEPT !.rows = S]
                   ELSE [NoTx EXCEPT !.jobs = S]
           t == [mine EXCEPT !.op = op, !.todo = todo]
<1>1. todo \in SUBSET (Jobs \cup Keys) /\ todo # {}
  BY <1>0 DEF KeysOf
<1>2. /\ mine \in Txs /\ mine.before = NoTx.before /\ mine.to = NoTx.to
      /\ mine.jobs = IF op = "promote" THEN {} ELSE S
      /\ mine.rows = IF op = "promote" THEN S ELSE {}
  BY <1>0, NoTxShape DEF Txs
<1> HIDE DEF mine
<1>3. n \in Onward(t, FirstStep(op))
  BY DEF Started, mine
<1> HIDE DEF todo
<1>4. /\ t \in Txs /\ t.before = mine.before /\ t.to = mine.to /\ t.op = op
      /\ t.todo = todo /\ t.jobs = mine.jobs /\ t.rows = mine.rows
  BY <1>0, <1>1, <1>2 DEF Txs
<1> HIDE DEF t
<1>5. /\ op = "enqueue" => FirstStep(op) = "acquire group"
      /\ op = "recover" => FirstStep(op) = "pick group"
      /\ op = "promote" => FirstStep(op) = "acquire"
      /\ op = "complete" => FirstStep(op) = "first look"
  BY Zenon DEF FirstStep
<1>6. FirstStep(op) \in Steps \ {"commit"}
  BY <1>0, <1>5 DEF Steps
<1>7. /\ n \in Txs /\ n.op = op /\ n.jobs = mine.jobs /\ n.rows = mine.rows
      /\ n.to = NoTx.to /\ n.before = NoTx.before
      /\ n.at = FirstStep(op) /\ n.turn \in todo /\ n.todo = todo \ {n.turn}
      /\ Left(n) = todo
  BY <1>1, <1>2, <1>3, <1>4, <1>6, OnwardTx
<1>8. Locks(n) = {} /\ Untouched(n)
  BY <1>7, NoTxShape DEF Locks, Untouched
<1>9. Shape(n)
  <2>1. CASE op = "enqueue"
    BY <1>0, <1>2, <1>5, <1>7, <1>8, <2>1 DEF Shape, EnqueueShape, Untouched, todo
  <2>2. CASE op = "recover"
    BY <1>0, <1>2, <1>5, <1>7, <1>8, <2>2 DEF Shape, RecoverShape, Untouched, todo
  <2>3. CASE op = "promote"
    BY <1>0, <1>2, <1>5, <1>7, <1>8, <2>3 DEF Shape, PromoteShape, Untouched, todo
  <2>4. CASE op = "complete"
    BY <1>0, <1>2, <1>5, <1>7, <1>8, <2>4 DEF Shape, CompleteShape, KeysOf, todo
  <2>5. QED
    BY <1>0, <2>1, <2>2, <2>3, <2>4
<1>10. QED
  BY <1>2, <1>7, <1>8, <1>9 DEF Fresh

-----------------------------------------------------------------------------
LEMMA InitIInv == Init => IInv
<1> SUFFICES ASSUME Init PROVE IInv
  OBVIOUS
<1>1. \A k \in Keys : sem[k] = Written(Limit[k], Limit[k])
  BY DEF Init
<1>2. \A k \in Keys : GoodRow(sem[k], k) /\ sem[k].value = Limit[k]
  <2> TAKE k \in Keys
  <2>1. Limit[k] \in Nat /\ Limit[k] - Limit[k] = 0 /\ Limit[k] <= Limit[k]
    OBVIOUS
  <2>2. sem[k] = [value |-> Limit[k], active |-> 0, limit |-> Limit[k]]
    BY <1>1, <2>1 DEF Written
  <2>3. QED
    BY <2>1, <2>2 DEF GoodRow, SemRows
<1>3. \A s \in Sessions : tx[s] = NoTx
  BY DEF Init
<1>4. Typed
  <2>1. sem \in [Keys -> SemRows]
    BY <1>1, <1>2 DEF Init, GoodRow
  <2>2. QED
    BY <1>2, <1>3, <2>1, NoTxShape DEF Init, Typed, States, Held, Locks
<1>5. Shapes /\ Exclusive
  BY <1>3, NoTxShape DEF Shapes, Exclusive, Owned, Locks
<1>6. Books
  <2>1. \A k \in Keys : Holders(job, k) = {}
    BY DEF Init, Holders, OfKey
  <2>2. \A k \in Keys : Balanced(sem[k], job, k)
    <3> TAKE k \in Keys
    <3>1. Limit[k] \in Nat
      OBVIOUS
    <3>2. Cardinality(Holders(job, k)) = 0
      BY <2>1, FS_EmptySet
    <3>3. QED
      BY <1>2, <3>1, <3>2 DEF Balanced
  <2>3. QED
    BY <1>3, <2>2, NoTxShape DEF Books, Held, Locks
<1>7. NoneLeft
  BY <1>3, NoTxShape DEF NoneLeft, Blocked, Init, OfKey, Held, Locks
<1>8. QED
  BY <1>4, <1>5, <1>6, <1>7 DEF IInv

-----------------------------------------------------------------------------
(* Steps of one session.                                                   *)

LEMMA TxOf == ASSUME IInv, NEW s \in Sessions
              PROVE  tx[s] \in Txs /\ Shape(tx[s]) /\ Owned(s, tx[s])
BY DEF IInv, Typed, Shapes, Exclusive

\* The session gets another transaction, for which nobody else is disturbed.
LEMMA OwnedKept ==
  ASSUME IInv, NEW s \in Sessions, NEW n \in Txs, Owned(s, n),
         tx' = [tx EXCEPT ![s] = n], job' = job
  PROVE  Exclusive'
<1>1. \A u \in Sessions : tx'[u] = IF u = s THEN n ELSE tx[u]
  BY DEF IInv, Typed
<1>2. ASSUME NEW u \in Sessions PROVE Owned(u, tx[u])'
  <2>1. CASE u = s
    BY <1>1, <2>1 DEF Owned
  <2>2. CASE u # s
    <3>1. Owned(u, tx[u])
      BY TxOf
    <3>2. \A v \in Sessions \ {u} :
            /\ tx[u].jobs \cap tx'[v].jobs = {} /\ tx[u].rows \cap tx'[v].rows = {}
            /\ Locks(tx[u]) \cap Locks(tx'[v]) = {}
      <4> TAKE v \in Sessions \ {u}
      <4>1. CASE v = s
        <5>1. /\ n.jobs \cap tx[u].jobs = {} /\ n.rows \cap tx[u].rows = {}
              /\ Locks(n) \cap Locks(tx[u]) = {}
          BY <2>2 DEF Owned
        <5>2. QED
          BY <1>1, <4>1, <5>1
      <4>2. CASE v # s
        BY <1>1, <3>1, <4>2 DEF Owned
      <4>3. QED
        BY <4>1, <4>2
    <3>3. tx'[u] = tx[u]
      BY <1>1, <2>2
    <3>4. QED
      BY <3>1, <3>2, <3>3 DEF Owned
  <2>3. QED
    BY <2>1, <2>2
<1>3. QED
  BY <1>2 DEF Exclusive

\* It is rolled back, or there was none, and begins anew.
LEMMA Restarts ==
  ASSUME IInv, NEW s \in Sessions, NEW n \in Txs,
         Shape(n), Owned(s, n), Locks(n) = {}, Untouched(n),
         tx' = [tx EXCEPT ![s] = n], job' = job,
         sem' = [k \in Keys |-> IF k \in Held(s) THEN tx[s].before[k] ELSE sem[k]],
         doubt \subseteq doubt', doubt' \subseteq Keys, KeysOf(tx[s].rows) \subseteq doubt'
  PROVE  IInv'
<1>1. \A u \in Sessions : tx'[u] = IF u = s THEN n ELSE tx[u]
  BY DEF IInv, Typed
<1>2. \A u \in Sessions : Held(u)' = IF u = s THEN {} ELSE Held(u)
  BY <1>1 DEF Held, Locks
<1>3. \A k \in Keys : sem'[k] = IF k \in Held(s) THEN tx[s].before[k] ELSE sem[k]
  OBVIOUS
<1>4. \A u \in Sessions \ {s} : \A k \in Held(u) :
        k \in Keys /\ k \notin Held(s) /\ sem'[k] = sem[k]
  <2> TAKE u \in Sessions \ {s}
  <2>1. Held(u) \subseteq Keys
    BY TxOf DEF Txs, Befores, Held
  <2>2. Held(u) \cap Held(s) = {}
    BY TxOf DEF Owned, Locks, Held
  <2>3. QED
    BY <1>3, <2>1, <2>2
<1>5. Typed'
  <2>1. \A k \in Keys : GoodRow(sem'[k], k)
    BY <1>3 DEF IInv, Typed
  <2>2. sem' \in [Keys -> SemRows]
    BY <2>1 DEF GoodRow
  <2>3. tx' \in [Sessions -> Txs]
    BY DEF IInv, Typed
  <2>4. \A u \in Sessions : \A k \in Held(u)' : GoodRow(tx'[u].before[k], k)
    BY <1>1, <1>2 DEF IInv, Typed
  <2>5. QED
    BY <2>1, <2>2, <2>3, <2>4 DEF Typed, IInv, GoodRow
<1>6. Shapes'
  BY <1>1 DEF IInv, Shapes
<1>7. Exclusive'
  BY OwnedKept
<1>8. \A k \in Keys : Unlocked(k)' <=> Unlocked(k) \/ k \in Held(s)
  <2>1. \A k \in Keys : k \in Held(s) => \A u \in Sessions \ {s} : k \notin Held(u)
    BY <1>4
  <2>2. QED
    BY <1>2, <2>1 DEF Unlocked
<1>9. Books'
  <2>1. ASSUME NEW k \in Keys, Unlocked(k)' PROVE Balanced(sem'[k], job, k)
    <3>1. CASE k \in Held(s)
      BY <1>3, <3>1 DEF IInv, Books
    <3>2. CASE k \notin Held(s)
      BY <1>3, <1>8, <2>1, <3>2 DEF IInv, Books
    <3>3. QED
      BY <3>1, <3>2
  <2>2. \A k \in Keys : Unlocked(k)' => Balanced(sem[k], job, k)'
    BY <2>1 DEF Balanced, Holders, OfKey
  <2>3. ASSUME NEW u \in Sessions, NEW k \in Held(u)'
        PROVE  Balanced(tx[u].before[k], job, k)' /\ Balanced(sem[k], After(tx[u]), k)'
    <3>1. u # s /\ k \in Held(u) /\ tx'[u] = tx[u]
      BY <1>1, <1>2, <2>3
    <3>2. sem'[k] = sem[k]
      BY <1>4, <3>1
    <3>3. After(tx[u])' = After(tx[u])
      BY <3>1 DEF After
    <3>4. Balanced(tx[u].before[k], job, k) /\ Balanced(sem[k], After(tx[u]), k)
      BY <3>1 DEF IInv, Books
    <3>5. QED
      BY <3>1, <3>2, <3>3, <3>4 DEF Balanced, Holders, OfKey
  <2>4. QED
    BY <2>2, <2>3 DEF Books
<1>10. NoneLeft'
  <2>1. \A k \in Keys : Blocked(k)' = Blocked(k) /\ \A j \in Blocked(k) : Key[j] = k /\ j \in Jobs
    BY DEF Blocked, OfKey
  <2>2. ASSUME NEW k \in Keys \ doubt', NEW j \in Blocked(k), NEW u \in Sessions,
               j \in tx[u].rows
        PROVE  u # s /\ j \in tx'[u].rows
    BY <1>1, <2>1, <2>2 DEF KeysOf
  <2>3. \A k \in Keys \ doubt' : \A j \in Blocked(k) : Taken(j) => Taken(j)'
    BY <2>2 DEF Taken
  <2>4. ASSUME NEW k \in Keys \ doubt', Unlocked(k)', sem'[k].value > 0,
               NEW j \in Blocked(k)
        PROVE  Taken(j)'
    <3>1. Taken(j)
      BY <1>3, <1>8, <2>4 DEF IInv, NoneLeft, Unlocked
    <3>2. QED
      BY <2>3, <3>1
  <2>5. ASSUME NEW k \in Keys \ doubt', NEW u \in Sessions, k \in Held(u)'
        PROVE  /\ tx'[u].before[k].value > 0 => \A j \in Blocked(k) : Taken(j)'
               /\ tx'[u].op # "recover" /\ sem'[k].value > Spare(tx'[u])
                    => Passes(u, tx[u], k)'
    <3>1. u # s /\ k \in Held(u) /\ tx'[u] = tx[u] /\ sem'[k] = sem[k]
      BY <1>1, <1>2, <1>4, <2>5
    <3>2. /\ tx[u].before[k].value > 0 => \A j \in Blocked(k) : Taken(j)
          /\ tx[u].op # "recover" /\ sem[k].value > Spare(tx[u]) => Passes(u, tx[u], k)
      BY <3>1 DEF IInv, NoneLeft
    <3>3. Passes(u, tx[u], k) => Passes(u, tx[u], k)'
      BY <2>1, <2>2, <3>1 DEF Passes
    <3>4. QED
      BY <2>3, <3>1, <3>2, <3>3
  <2>6. QED
    BY <2>1, <2>4, <2>5 DEF NoneLeft
<1>11. QED
  BY <1>5, <1>6, <1>7, <1>9, <1>10 DEF IInv

LEMMA HeldKeys == ASSUME IInv, NEW s \in Sessions PROVE Held(s) \subseteq Keys
BY TxOf DEF Txs, Befores, Held

\* Session s goes on with key k, and its transaction is n then: it may lock the
\* semaphore of k and write to it, move jobs of k, and take further waiters.
Working(s, n, k) ==
  /\ n.op = tx[s].op /\ n.jobs = tx[s].jobs /\ tx[s].rows \subseteq n.rows
  /\ tx' = [tx EXCEPT ![s] = n] /\ job' = job /\ doubt' = doubt
  /\ Locks(n) \in {Held(s), Held(s) \cup {k}}
  /\ \A l \in Locks(n) :
       n.before[l] = IF l \in Held(s) THEN tx[s].before[l] ELSE sem[l]
  /\ sem' \in [Keys -> SemRows] /\ GoodRow(sem'[k], k)
  /\ \A l \in Keys : l # k \/ l \notin Locks(n) => sem'[l] = sem[l]
  /\ \A j \in Jobs : Key[j] # k => /\ n.to[j] = tx[s].to[j]
                                   /\ n.op = "promote" /\ j \in Left(tx[s]) => j \in Left(n)
  /\ Held(s) \ {k} # {} => tx[s].at # "second look"

LEMMA Works ==
  ASSUME IInv, NEW s \in Sessions, NEW n \in Txs, NEW k \in Keys,
         Shape(n), Owned(s, n), Working(s, n, k),
         k \in Locks(n) => Balanced(sem'[k], After(n), k),
         k \in Locks(n) \ doubt /\ n.op # "recover" /\ sem'[k].value > Spare(n)
           => Passes(s, n, k)
  PROVE  IInv'
<1>1. \A u \in Sessions : tx'[u] = IF u = s THEN n ELSE tx[u]
  BY DEF IInv, Typed, Working
<1>13. job' = job /\ doubt' = doubt
  BY DEF Working
<1>14. \A l \in Keys : l # k \/ l \notin Locks(n) => sem'[l] = sem[l]
  BY DEF Working
<1>2. \A u \in Sessions : Held(u)' = IF u = s THEN Locks(n) ELSE Held(u)
  BY <1>1 DEF Held, Locks
<1>3. \A u \in Sessions : Held(u) \subseteq Keys
  BY HeldKeys
<1>4. \A u \in Sessions \ {s} : \A l \in Held(u) : l \notin Locks(n) /\ sem'[l] = sem[l]
  BY <1>3, <1>14 DEF Owned, Held, Locks
<1>5. \A l \in Locks(n) \ Held(s) : l = k /\ Unlocked(l)
  BY <1>4 DEF Unlocked, Working
<1>6. Typed'
  <2>1. \A l \in Keys : GoodRow(sem'[l], l)
    BY <1>14 DEF IInv, Typed, Working
  <2>2. tx' \in [Sessions -> Txs]
    BY DEF IInv, Typed, Working
  <2>3. ASSUME NEW u \in Sessions, NEW l \in Held(u)' PROVE GoodRow(tx'[u].before[l], l)
    <3>1. CASE u = s
      <4>1. l \in Locks(n) /\ tx'[u] = n
        BY <1>1, <1>2, <2>3, <3>1
      <4>2. n.before[l] = IF l \in Held(s) THEN tx[s].before[l] ELSE sem[l]
        BY <4>1 DEF Working
      <4>3. l \in Held(s) => GoodRow(tx[s].before[l], l)
        BY DEF IInv, Typed
      <4>4. l \in Keys => GoodRow(sem[l], l)
        BY DEF IInv, Typed
      <4>5. l \in Keys
        BY <1>3, <4>1 DEF Working
      <4>6. QED
        BY <4>1, <4>2, <4>3, <4>4, <4>5
    <3>2. CASE u # s
      BY <1>1, <1>2, <2>3, <3>2 DEF IInv, Typed
    <3>3. QED
      BY <3>1, <3>2
  <2>4. QED
    BY <1>13, <2>1, <2>2, <2>3 DEF Typed, IInv, Working, GoodRow
<1>7. Shapes'
  BY <1>1 DEF IInv, Shapes
<1>8. Exclusive'
  BY OwnedKept DEF Working
<1>9. \A l \in Keys : Unlocked(l)' <=> Unlocked(l) /\ l \notin Locks(n)
  BY <1>2 DEF Unlocked, Working
<1>10. Books'
  <2>1. ASSUME NEW l \in Keys, Unlocked(l)' PROVE Balanced(sem'[l], job, l)
    BY <1>9, <1>14, <2>1 DEF IInv, Books
  <2>2. ASSUME NEW u \in Sessions, NEW l \in Held(u)'
        PROVE  Balanced(tx'[u].before[l], job, l) /\ Balanced(sem'[l], After(tx'[u]), l)
    <3>1. Locks(n) \subseteq Keys
      BY DEF Locks, Txs, Befores
    <3>2. CASE u # s
      <4>1. l \in Held(u) /\ tx'[u] = tx[u] /\ sem'[l] = sem[l]
        BY <1>1, <1>2, <1>4, <2>2, <3>2
      <4>2. QED
        BY <4>1 DEF IInv, Books
    <3>3. CASE u = s
      <4>1. l \in Locks(n) /\ tx'[u] = n /\ l \in Keys
        BY <1>1, <1>2, <1>3, <2>2, <3>3, <3>1
      <4>2. Balanced(n.before[l], job, l)
        <5>1. CASE l \in Held(s)
          BY <4>1, <5>1 DEF IInv, Books, Working
        <5>2. CASE l \notin Held(s)
          BY <1>5, <4>1, <5>2 DEF IInv, Books, Working
        <5>3. QED
          BY <5>1, <5>2
      <4>3. Balanced(sem'[l], After(n), l)
        <5>1. CASE l # k
          <6>1. l \in Held(s) /\ sem'[l] = sem[l]
            BY <1>14, <4>1, <5>1 DEF Working
          <6>2. Holders(After(n), l) = Holders(After(tx[s]), l)
            BY <5>1 DEF Holders, After, OfKey, Working
          <6>3. Balanced(sem[l], After(tx[s]), l)
            BY <6>1 DEF IInv, Books
          <6>4. QED
            BY <6>1, <6>2, <6>3 DEF Balanced
        <5>2. QED
          BY <4>1, <5>1
      <4>4. QED
        BY <4>1, <4>2, <4>3
    <3>4. QED
      BY <3>2, <3>3
  <2>3. \A u \in Sessions : After(tx[u])' = After(tx'[u])
    BY <1>13 DEF After
  <2>4. \A r, f, l : Balanced(r, f, l)' <=> Balanced(r, f, l)
    BY DEF Balanced, Holders, OfKey
  <2>5. QED
    BY <1>13, <2>1, <2>2, <2>3, <2>4 DEF Books
<1>11. NoneLeft'
  <2>1. \A l \in Keys : Blocked(l)' = Blocked(l) /\ \A j \in Blocked(l) : Key[j] = l /\ j \in Jobs
    BY <1>13 DEF Blocked, OfKey
  <2>2. \A u \in Sessions : tx[u].rows \subseteq tx'[u].rows
    BY <1>1 DEF Working
  <2>3. \A j : Taken(j) => Taken(j)'
    BY <2>2 DEF Taken
  <2>4. ASSUME NEW l \in Keys \ doubt, Unlocked(l)', sem'[l].value > 0,
               NEW j \in Blocked(l)
        PROVE  Taken(j)'
    <3>1. Taken(j)
      BY <1>9, <1>14, <2>4 DEF IInv, NoneLeft
    <3>2. QED
      BY <2>3, <3>1
  <2>5. ASSUME NEW l \in Keys \ doubt, NEW u \in Sessions, l \in Held(u)'
        PROVE  /\ tx'[u].before[l].value > 0 => \A j \in Blocked(l) : Taken(j)'
               /\ tx'[u].op # "recover" /\ sem'[l].value > Spare(tx'[u])
                    => Passes(u, tx[u], l)'
    <3>1. CASE u # s
      <4>1. l \in Held(u) /\ tx'[u] = tx[u] /\ sem'[l] = sem[l]
        BY <1>1, <1>2, <1>4, <2>5, <3>1
      <4>2. /\ tx[u].before[l].value > 0 => \A j \in Blocked(l) : Taken(j)
            /\ tx[u].op # "recover" /\ sem[l].value > Spare(tx[u]) => Passes(u, tx[u], l)
        BY <4>1 DEF IInv, NoneLeft
      <4>3. Passes(u, tx[u], l) => Passes(u, tx[u], l)'
        BY <2>1, <2>2, <4>1 DEF Passes
      <4>4. QED
        BY <2>3, <4>1, <4>2, <4>3
    <3>2. CASE u = s
      <4>1. l \in Locks(n) /\ tx'[u] = n
        BY <1>1, <1>2, <2>5, <3>2
      <4>2. n.before[l].value > 0 => \A j \in Blocked(l) : Taken(j)
        <5>1. CASE l \in Held(s)
          BY <4>1, <5>1 DEF IInv, NoneLeft, Working
        <5>2. CASE l \notin Held(s)
          BY <1>5, <4>1, <5>2 DEF IInv, NoneLeft, Working
        <5>3. QED
          BY <5>1, <5>2
      <4>3. Passes(s, n, l) => Passes(s, tx[s], l)'
        BY <1>1, <1>13, <2>1 DEF Passes
      <4>4. n.op # "recover" /\ sem'[l].value > Spare(n) => Passes(s, n, l)
        <5>1. CASE l # k
          <6>0. l \in Held(s)
            BY <4>1, <5>1 DEF Working
          <6>1. l \in Held(s) /\ sem'[l] = sem[l] /\ Spare(tx[s]) = 0
            <7>1. tx[s].at # "second look"
              BY <5>1, <6>0 DEF Working
            <7>2. sem'[l] = sem[l]
              BY <1>14, <5>1
            <7>3. QED
              BY <6>0, <7>1, <7>2 DEF Spare
          <6>2. Spare(n) \in {0, 1} /\ sem[l].value \in Nat
            BY DEF Spare, IInv, Typed, GoodRow, SemRows
          <6>3. n.op = tx[s].op /\ (sem'[l].value > Spare(n) => sem[l].value > Spare(tx[s]))
            <7>1. \A v \in Nat : v > Spare(n) => v > 0
              BY ONLY <6>2
            <7>2. QED
              BY <6>1, <6>2, <7>1 DEF Working
          <6>4. n.op # "recover" /\ sem'[l].value > Spare(n) => Passes(s, tx[s], l)
            BY <6>1, <6>3 DEF IInv, NoneLeft
          <6>5. Passes(s, tx[s], l) => Passes(s, n, l)
            <7>1. \A j \in Blocked(l) : j \in Jobs /\ Key[j] # k
              BY <2>1, <5>1
            <7>2. \A j \in n.jobs : j \in Jobs
              BY DEF Txs
            <7>3. QED
              BY <5>1, <7>1, <7>2 DEF Passes, Working
          <6>6. QED
            BY <6>4, <6>5
        <5>2. QED
          BY <4>1, <5>1
      <4>5. QED
        BY <2>3, <3>2, <4>1, <4>2, <4>3, <4>4
    <3>3. QED
      BY <3>1, <3>2
  <2>6. QED
    BY <1>13, <2>1, <2>4, <2>5 DEF NoneLeft
<1>12. QED
  BY <1>6, <1>7, <1>8, <1>10, <1>11 DEF IInv

-----------------------------------------------------------------------------
(* Transactions begin, are aborted and begin again.                        *)

LEMMA BeginStep ==
  ASSUME IInv, NEW s \in Sessions, NEW S \in SUBSET Jobs,
         NEW op \in {"enqueue", "complete", "recover", "promote"}, Begin(s, op, S),
         op = "complete" => \E j \in Jobs : S = {j},
         \A j \in S : /\ op = "enqueue" => job[j] = "new"
                      /\ op \in {"complete", "recover"} => job[j] = "claimed"
                      /\ op = "promote" => job[j] = "blocked",
         op # "promote" => S \cap InHand = {},
         op = "promote" => S \cap LockedByOthers(s) = {}
  PROVE  IInv'
<1>1. PICK n \in Started(op, S) : tx' = [tx EXCEPT ![s] = n]
  BY DEF Begin
<1>2. S # {} /\ tx[s].op = "none" /\ sem' = sem /\ job' = job /\ doubt' = doubt
  BY DEF Begin
<1>3. Held(s) = {} /\ tx[s].rows = {}
  BY <1>2, TxOf DEF Shape, Locks, Held
<1>4. /\ n \in Txs /\ n.op = op /\ Shape(n)
      /\ n.jobs = IF op = "promote" THEN {} ELSE S
      /\ n.rows = IF op = "promote" THEN S ELSE {}
      /\ Locks(n) = {} /\ Untouched(n)
  <2>1. Startable(op, S)
    BY <1>2 DEF Startable
  <2>2. Fresh(n, op, S)
    BY <2>1, StartedTx
  <2>3. QED
    BY <2>2 DEF Fresh
<1>5. Owned(s, n)
  <2>1. \A u \in Sessions : op # "promote" => S \cap tx[u].jobs = {}
    BY DEF InHand
  <2>2. \A u \in Sessions \ {s} : op = "promote" => S \cap tx[u].rows = {}
    BY DEF LockedByOthers
  <2>3. QED
    BY <1>4, <2>1, <2>2 DEF Owned
<1>6. sem' = [k \in Keys |-> IF k \in Held(s) THEN tx[s].before[k] ELSE sem[k]]
  BY <1>2, <1>3 DEF IInv, Typed
<1>7. doubt \subseteq doubt' /\ doubt' \subseteq Keys /\ KeysOf(tx[s].rows) \subseteq doubt'
  BY <1>2, <1>3 DEF IInv, Typed, KeysOf
<1>8. QED
  BY <1>1, <1>2, <1>4, <1>5, <1>6, <1>7, Restarts

LEMMA BeginActions ==
  ASSUME IInv, NEW s \in Sessions,
         \/ \E S \in SUBSET In("new") : Enqueue(s, S)
         \/ \E S \in SUBSET In("claimed") : Recover(s, S)
         \/ \E S \in SUBSET In("blocked") : Promote(s, S)
         \/ \E j \in In("claimed") : Complete(s, j)
  PROVE  IInv'
<1>1. CASE \E S \in SUBSET In("new") : Enqueue(s, S)
  <2>1. PICK S \in SUBSET In("new") : Enqueue(s, S)
    BY <1>1
  <2>2. QED
    BY <2>1, BeginStep DEF Enqueue, In
<1>2. CASE \E S \in SUBSET In("claimed") : Recover(s, S)
  <2>1. PICK S \in SUBSET In("claimed") : Recover(s, S)
    BY <1>2
  <2>2. QED
    BY <2>1, BeginStep DEF Recover, In
<1>3. CASE \E S \in SUBSET In("blocked") : Promote(s, S)
  <2>1. PICK S \in SUBSET In("blocked") : Promote(s, S)
    BY <1>3
  <2>2. QED
    BY <2>1, BeginStep DEF Promote, In
<1>4. CASE \E j \in In("claimed") : Complete(s, j)
  <2>1. PICK j \in In("claimed") : Complete(s, j)
    BY <1>4
  <2>2. {j} \in SUBSET Jobs /\ \E i \in Jobs : {j} = {i}
    BY DEF In
  <2>3. QED
    BY <2>1, <2>2, BeginStep DEF Complete
<1>5. QED
  BY <1>1, <1>2, <1>3, <1>4

\* A transaction is rolled back; the same jobs, or none, are tried again.
LEMMA RolledBackStep ==
  ASSUME IInv, NEW s \in Sessions, RolledBack(s), NEW n \in Txs,
         tx' = [tx EXCEPT ![s] = n], Shape(n), Locks(n) = {}, Untouched(n),
         n.rows = {}, n.jobs \subseteq tx[s].jobs,
         n.jobs # {} => n.op = tx[s].op
  PROVE  IInv'
<1>1. Owned(s, n)
  BY TxOf DEF Owned
<1>2. KeysOf(tx[s].rows) \subseteq Keys
  BY TxOf DEF KeysOf, Txs
<1>3. QED
  BY <1>1, <1>2, Restarts DEF RolledBack, IInv, Typed

LEMMA CrashStep == ASSUME IInv, NEW s \in Sessions, Crash(s) PROVE IInv'
BY NoTxShape, RolledBackStep DEF Crash

LEMMA DeadlockStep == ASSUME IInv, NEW s \in Sessions, Deadlock(s) PROVE IInv'
<1>1. PICK n \in Restarted(s) : tx' = [tx EXCEPT ![s] = n]
  BY DEF Deadlock
<1>2. CASE n = NoTx
  BY <1>1, <1>2, NoTxShape, RolledBackStep DEF Deadlock
<1>3. CASE n # NoTx
  <2>1. n \in Started(tx[s].op, tx[s].jobs) /\ tx[s].op \notin {"recover", "promote"}
    BY <1>3 DEF Restarted
  <2>2. tx[s].at \notin {"none", "commit"}
    BY DEF Deadlock, InCycle, WaitsFor
  <2>3. tx[s].op \in {"enqueue", "complete"}
    BY <2>1, <2>2, TxOf DEF Shape, Txs
  <2>4. tx[s].jobs \in SUBSET Jobs /\ tx[s].jobs # {}
    <3>1. tx[s].op = "enqueue" => tx[s].turn \in KeysOf(tx[s].jobs)
      BY <2>2, TxOf DEF Shape, EnqueueShape, Left
    <3>2. tx[s].op = "complete" => \E j \in Jobs : tx[s].jobs = {j}
      BY TxOf DEF Shape, CompleteShape
    <3>3. tx[s].jobs \in SUBSET Jobs
      BY TxOf DEF Txs
    <3>4. QED
      BY <2>3, <3>1, <3>2, <3>3 DEF KeysOf
  <2>5. tx[s].op = "complete" => \E j \in Jobs : tx[s].jobs = {j}
    BY TxOf DEF Shape, CompleteShape
  <2>6. /\ n \in Txs /\ n.op = tx[s].op /\ Shape(n) /\ n.jobs = tx[s].jobs
        /\ n.rows = {} /\ Locks(n) = {} /\ Untouched(n)
    <3>1. Startable(tx[s].op, tx[s].jobs)
      BY <2>3, <2>4, <2>5 DEF Startable
    <3>2. Fresh(n, tx[s].op, tx[s].jobs)
      BY <2>1, <3>1, StartedTx
    <3>3. QED
      BY <2>3, <3>2 DEF Fresh
  <2>7. QED
    BY <1>1, <2>6, RolledBackStep DEF Deadlock
<1>4. QED
  BY <1>2, <1>3

-----------------------------------------------------------------------------
LEMMA ClaimStep == ASSUME IInv, NEW j \in Jobs, Claim(j) PROVE IInv'
<1>1. /\ job[j] = "ready" /\ job' = [job EXCEPT ![j] = "claimed"]
      /\ sem' = sem /\ tx' = tx /\ doubt' = doubt
  BY DEF Claim
<1>2. \A i \in Jobs : job'[i] = IF i = j THEN "claimed" ELSE job[i]
  BY <1>1 DEF IInv, Typed
<1>3. \A s \in Sessions : Held(s)' = Held(s)
  BY <1>1 DEF Held
<1>4. Typed'
  BY <1>1, <1>3 DEF IInv, Typed, States, GoodRow
<1>5. Shapes'
  BY <1>1 DEF IInv, Shapes
<1>6. Exclusive'
  <2>1. ASSUME NEW s \in Sessions PROVE Owned(s, tx[s])'
    <3>1. Owned(s, tx[s]) /\ tx[s].jobs \subseteq Jobs /\ tx[s].rows \subseteq Jobs
      BY TxOf DEF Txs
    <3>2. \A i \in tx[s].jobs \cup tx[s].rows : job'[i] = job[i]
      BY <1>1, <1>2, <3>1 DEF Owned
    <3>3. QED
      BY <1>1, <3>1, <3>2 DEF Owned
  <2>2. QED
    BY <2>1 DEF Exclusive
<1>7. Books'
  <2>1. \A k : Holders(job, k)' = Holders(job, k)
    BY <1>1, <1>2 DEF Holders, OfKey
  <2>2. \A s \in Sessions : \A k : Holders(After(tx[s]), k)' = Holders(After(tx[s]), k)
    BY <1>1, <1>2 DEF Holders, OfKey, After
  <2>3. \A k \in Keys : /\ Unlocked(k)' <=> Unlocked(k)
                        /\ Balanced(sem[k], job, k)' <=> Balanced(sem[k], job, k)
    BY <1>1, <1>3, <2>1 DEF Unlocked, Balanced
  <2>4. \A s \in Sessions : \A k :
          /\ Balanced(tx[s].before[k], job, k)' <=> Balanced(tx[s].before[k], job, k)
          /\ Balanced(sem[k], After(tx[s]), k)' <=> Balanced(sem[k], After(tx[s]), k)
    BY <1>1, <2>1, <2>2 DEF Balanced
  <2>5. QED
    BY <1>3, <2>3, <2>4 DEF IInv, Books
<1>8. NoneLeft'
  <2>1. \A k : Blocked(k)' = Blocked(k)
    BY <1>1, <1>2 DEF Blocked, OfKey
  <2>2. \A k : (Unlocked(k)' <=> Unlocked(k)) /\ (Taken(k)' <=> Taken(k))
    BY <1>1, <1>3 DEF Unlocked, Taken
  <2>3. \A s \in Sessions : \A k : Passes(s, tx[s], k)' <=> Passes(s, tx[s], k)
    BY <1>1, <2>1 DEF Passes
  <2>4. QED
    BY <1>1, <1>3, <2>1, <2>2, <2>3 DEF IInv, NoneLeft
<1>9. QED
  BY <1>4, <1>5, <1>6, <1>7, <1>8 DEF IInv

-----------------------------------------------------------------------------
(* The commit.                                                             *)

\* A transaction that commits has locked the semaphore of every job it moves
\* and of every waiter it took, and moves nothing else.
LEMMA Committing ==
  ASSUME IInv, NEW s \in Sessions, tx[s].at = "commit"
  PROVE  /\ \A j \in tx[s].jobs \cup tx[s].rows : Key[j] \in Held(s)
         /\ \A j \in Jobs : tx[s].to[j] # "same" =>
              /\ j \in tx[s].jobs \cup tx[s].rows
              /\ tx[s].to[j] = "ready" \/ j \in tx[s].jobs
<1> PICK t \in Txs : t = tx[s]
  BY TxOf
<1>1. Shape(t) /\ t.at = "commit" /\ t.jobs \subseteq Jobs /\ t.rows \subseteq Jobs
  BY TxOf DEF Txs
<1>2. Left(t) = {}
  BY <1>1 DEF Left
<1>3. t.op \in {"enqueue", "recover", "promote", "complete"}
  BY <1>1 DEF Shape, Txs
<1>4. CASE t.op = "enqueue"
  BY <1>1, <1>2, <1>4 DEF Shape, EnqueueShape, KeysOf, Held, Locks
<1>5. CASE t.op = "recover"
  BY <1>1, <1>2, <1>5 DEF Shape, RecoverShape, KeysOf, Held, Locks
<1>6. CASE t.op = "promote"
  BY <1>1, <1>2, <1>6 DEF Shape, PromoteShape, Held, Locks
<1>7. CASE t.op = "complete"
  <2>1. CompleteShape(t)
    BY <1>1, <1>7 DEF Shape
  <2>2. Held(s) = {t.turn} /\ \A j \in Jobs : t.to[j] # "same" => t.to[j] = "ready" /\ j \in t.rows
    BY <1>1, <2>1 DEF CompleteShape, Held, Locks
  <2>3. \A j \in t.jobs \cup t.rows : Key[j] = t.turn
    BY <2>1 DEF CompleteShape
  <2>4. QED
    BY <2>2, <2>3
<1>8. QED
  BY <1>3, <1>4, <1>5, <1>6, <1>7

LEMMA CommitStep == ASSUME IInv, NEW s \in Sessions, Commit(s) PROVE IInv'
<1>1. /\ tx[s].at = "commit" /\ job' = After(tx[s])
      /\ tx' = [tx EXCEPT ![s] = NoTx] /\ sem' = sem
  BY DEF Commit, Settled, After
<1>2. \A u \in Sessions : tx'[u] = IF u = s THEN NoTx ELSE tx[u]
  BY <1>1 DEF IInv, Typed
<1>3. \A u \in Sessions : Held(u)' = IF u = s THEN {} ELSE Held(u)
  BY <1>2, NoTxShape DEF Held, Locks
<1>4. \A j \in Jobs : job'[j] = IF tx[s].to[j] # "same" THEN tx[s].to[j]
                                ELSE IF j \in tx[s].jobs THEN "gone" ELSE job[j]
  BY <1>1 DEF After
<1>5. \A j \in Jobs : job'[j] # job[j] => j \in tx[s].jobs \cup tx[s].rows
  BY <1>1, <1>4, Committing
<1>6. \A j \in Jobs : Key[j] \notin Held(s) => job'[j] = job[j]
  BY <1>1, <1>5, Committing
<1>7. \A u \in Sessions \ {s} : Held(u) \cap Held(s) = {} /\ Held(u) \subseteq Keys
  BY TxOf, HeldKeys DEF Owned, Locks, Held
<1>8. Typed'
  <2>1. job' \in [Jobs -> States]
    <3>1. \A j \in Jobs : tx[s].to[j] \in {"same", "ready", "blocked"}
      BY TxOf DEF Txs
    <3>2. \A j \in Jobs : job'[j] \in States
      BY <1>4, <3>1 DEF IInv, Typed, States
    <3>3. QED
      BY <1>1, <3>2 DEF After
  <2>2. tx' \in [Sessions -> Txs]
    BY <1>1, NoTxShape DEF IInv, Typed
  <2>3. \A u \in Sessions : \A k \in Held(u)' : GoodRow(tx'[u].before[k], k)
    BY <1>2, <1>3 DEF IInv, Typed
  <2>4. doubt' \subseteq Keys
    BY HeldKeys DEF Commit, IInv, Typed
  <2>5. QED
    BY <1>1, <2>1, <2>2, <2>3, <2>4 DEF Typed, IInv, GoodRow
<1>9. Shapes'
  BY <1>2, NoTxShape DEF IInv, Shapes
<1>10. Exclusive'
  <2>1. ASSUME NEW u \in Sessions PROVE Owned(u, tx[u])'
    <3>1. CASE u = s
      BY <1>2, <3>1, NoTxShape DEF Owned
    <3>2. CASE u # s
      <4>1. Owned(u, tx[u]) /\ Owned(s, tx[s]) /\ tx'[u] = tx[u]
        BY <1>2, <3>2, TxOf
      <4>2. tx[u].jobs \subseteq Jobs /\ tx[u].rows \subseteq Jobs
        BY TxOf DEF Txs
      <4>3. \A j \in tx[u].jobs \cup tx[u].rows : j \notin tx[s].jobs \cup tx[s].rows
        BY <3>2, <4>1 DEF Owned
      <4>4. \A j \in tx[u].jobs \cup tx[u].rows : job'[j] = job[j]
        BY <1>5, <4>2, <4>3
      <4>5. \A v \in Sessions \ {u} :
              /\ tx[u].jobs \cap tx'[v].jobs = {} /\ tx[u].rows \cap tx'[v].rows = {}
              /\ Locks(tx[u]) \cap Locks(tx'[v]) = {}
        BY <1>2, <4>1, NoTxShape DEF Owned
      <4>6. QED
        BY <4>1, <4>4, <4>5 DEF Owned
    <3>3. QED
      BY <3>1, <3>2
  <2>2. QED
    BY <2>1 DEF Exclusive
<1>11. \A k \in Keys \ Held(s) : Unlocked(k)' <=> Unlocked(k)
  BY <1>3 DEF Unlocked
<1>12. Books'
  <2>1. \A k \in Keys \ Held(s) : Holders(job', k) = Holders(job, k)
    BY <1>6 DEF Holders, OfKey
  <2>2. ASSUME NEW k \in Keys, Unlocked(k)' PROVE Balanced(sem[k], job', k)
    <3>1. CASE k \in Held(s)
      BY <1>1, <3>1 DEF IInv, Books
    <3>2. CASE k \notin Held(s)
      BY <1>11, <2>1, <2>2, <3>2 DEF IInv, Books, Balanced
    <3>3. QED
      BY <3>1, <3>2
  <2>3. ASSUME NEW u \in Sessions, NEW k \in Held(u)'
        PROVE  Balanced(tx[u].before[k], job', k) /\ Balanced(sem[k], After(tx[u])', k)
    <3>1. u # s /\ k \in Held(u) /\ k \in Keys \ Held(s) /\ tx'[u] = tx[u]
      BY <1>2, <1>3, <1>7, <2>3
    <3>2. Balanced(tx[u].before[k], job, k) /\ Balanced(sem[k], After(tx[u]), k)
      BY <3>1 DEF IInv, Books
    <3>3. Holders(After(tx[u])', k) = Holders(After(tx[u]), k)
      BY <1>6, <3>1 DEF Holders, OfKey, After
    <3>4. QED
      BY <2>1, <3>1, <3>2, <3>3 DEF Balanced
  <2>4. \A u \in Sessions : \A k \in Held(u)' : tx'[u].before[k] = tx[u].before[k]
    BY <1>2, <1>3
  <2>5. \A r, f, k : Balanced(r, f, k)' <=> Balanced(r, f, k)
    BY DEF Balanced, Holders, OfKey
  <2>6. QED
    BY <1>1, <2>2, <2>3, <2>4, <2>5 DEF Books
<1>13. NoneLeft'
  <2>1. \A k \in Keys \ Held(s) : Blocked(k)' = Blocked(k)
    BY <1>6 DEF Blocked, OfKey
  <2>2. ASSUME NEW j \in Jobs, NEW u \in Sessions, Key[j] \notin Held(s), j \in tx[u].rows
        PROVE  j \in tx'[u].rows
    BY <1>1, <1>2, <2>2, Committing
  <2>3. \A j \in Jobs : Key[j] \notin Held(s) /\ Taken(j) => Taken(j)'
    BY <2>2 DEF Taken
  <2>4. \A k \in Keys : \A j \in Blocked(k) : j \in Jobs /\ Key[j] = k
    BY DEF Blocked, OfKey
  <2>5. ASSUME NEW k \in Held(s), k \notin doubt', sem[k].value > 0, NEW j \in Blocked(k)'
        PROVE  Taken(j)'
    <3>1. k \in Keys /\ Free(s, k)
      BY <1>7, HeldKeys DEF Free
    <3>2. ~(Idle(k)') => FALSE
      BY <1>1, <2>5 DEF Idle
    <3>3. k \notin doubt /\ tx[s].op # "recover"
      BY <2>5, <3>2 DEF Commit
    <3>4. Spare(tx[s]) = 0
      BY <1>1 DEF Spare
    <3>5. Passes(s, tx[s], k)
      BY <2>5, <3>1, <3>3, <3>4 DEF IInv, NoneLeft
    <3>6. j \in Jobs /\ Key[j] = k /\ job'[j] = "blocked"
      BY DEF Blocked, OfKey
    <3>7. tx[s].to[j] = "same" /\ job[j] = "blocked"
      BY <1>1, <1>4, <3>5, <3>6, Committing DEF Passes
    <3>8. PICK u \in Sessions \ {s} : j \in tx[u].rows
      BY <1>1, <3>5, <3>6, <3>7 DEF Passes, Blocked, OfKey, Left
    <3>9. QED
      BY <1>2, <3>8 DEF Taken
  <2>6. ASSUME NEW k \in Keys \ Held(s), k \notin doubt', Unlocked(k)', sem[k].value > 0,
               NEW j \in Blocked(k)'
        PROVE  Taken(j)'
    <3>1. k \in doubt => ~(Idle(k)') /\ Free(s, k)
      BY <2>6 DEF Commit
    <3>2. k \notin doubt
      BY <1>1, <2>6, <3>1 DEF Idle
    <3>3. Taken(j) /\ j \in Jobs /\ Key[j] = k
      BY <1>11, <2>1, <2>4, <2>6, <3>2 DEF IInv, NoneLeft
    <3>4. QED
      BY <2>3, <3>3
  <2>7. ASSUME NEW k \in Keys, k \notin doubt', NEW u \in Sessions, k \in Held(u)'
        PROVE  /\ tx'[u].before[k].value > 0 => \A j \in Blocked(k)' : Taken(j)'
               /\ tx'[u].op # "recover" /\ sem[k].value > Spare(tx'[u])
                    => Passes(u, tx[u], k)'
    <3>1. u # s /\ k \in Held(u) /\ k \notin Held(s) /\ tx'[u] = tx[u]
      BY <1>2, <1>3, <1>7, <2>7
    <3>2. ~Free(s, k)
      BY <3>1 DEF Free
    <3>3. k \notin doubt
      BY <2>7, <3>2 DEF Commit
    <3>4. /\ tx[u].before[k].value > 0 => \A j \in Blocked(k) : Taken(j)
          /\ tx[u].op # "recover" /\ sem[k].value > Spare(tx[u]) => Passes(u, tx[u], k)
      BY <3>1, <3>3 DEF IInv, NoneLeft
    <3>5. Passes(u, tx[u], k) => Passes(u, tx[u], k)'
      <4>1. \A j \in Blocked(k) : \A v \in Sessions : j \in tx[v].rows => j \in tx'[v].rows
        BY <2>2, <2>4, <3>1
      <4>2. QED
        BY <2>1, <3>1, <4>1 DEF Passes
    <3>6. QED
      BY <2>1, <2>3, <2>4, <3>1, <3>4, <3>5
  <2>8. QED
    BY <1>1, <2>5, <2>6, <2>7 DEF NoneLeft
<1>14. QED
  BY <1>8, <1>9, <1>10, <1>12, <1>13 DEF IInv

-----------------------------------------------------------------------------
(* What the statements write, when all jobs of the key bring its limit.    *)

LEMMA RowLimit ==
  ASSUME NEW k \in Keys, NEW r, GoodRow(r, k)
  PROVE  /\ Limit[k] \in Nat /\ Limit[k] > 0 /\ r.limit = Limit[k]
         /\ r.value \in Nat /\ r.value <= Limit[k] /\ r # NoRow
BY DEF GoodRow, SemRows, NoRow

LEMMA WrittenGood ==
  ASSUME NEW k \in Keys, NEW v \in Nat, v <= Limit[k]
  PROVE  GoodRow(Written(v, Limit[k]), k) /\ Written(v, Limit[k]).value = v
<1>1. Limit[k] \in Nat /\ Limit[k] - v \in Int
  OBVIOUS
<1>2. QED
  BY <1>1 DEF Written, GoodRow, SemRows

LEMMA AcquireManyRow ==
  ASSUME NEW k \in Keys, NEW r, GoodRow(r, k), NEW n \in Nat
  PROVE  LET g == AcquireMany(r, n, Limit[k]) IN
         /\ g.got \in Nat /\ g.got <= n /\ g.got <= r.value
         /\ GoodRow(g.row, k) /\ g.row.value = r.value - g.got
         /\ g.row.value > 0 => g.got = n
<1> DEFINE g == AcquireMany(r, n, Limit[k])
           got == Least(n, r.value)
<1>1. Reconciled(r, Limit[k]) = r.value /\ r # NoRow /\ r.value \in Nat
  BY RowLimit DEF Reconciled, Least, Greatest
<1>2. CASE n = 0
  <2>1. g = [got |-> 0, row |-> r]
    BY <1>2 DEF AcquireMany
  <2>2. QED
    BY <1>1, <1>2, <2>1
<1>3. CASE n # 0
  <2>1. g = [got |-> got, row |-> Written(r.value - got, Limit[k])]
    BY <1>1, <1>3 DEF AcquireMany
  <2>2. /\ got \in Nat /\ got <= n /\ got <= r.value /\ r.value - got \in Nat
        /\ r.value - got <= Limit[k] /\ (r.value - got > 0 => got = n)
    BY RowLimit DEF Least
  <2> HIDE DEF got
  <2>3. QED
    BY <2>1, <2>2, WrittenGood
<1>4. QED
  BY <1>2, <1>3

LEMMA AcquireRow ==
  ASSUME NEW k \in Keys, NEW r, GoodRow(r, k)
  PROVE  LET a == Acquire(r, Limit[k]) IN
         /\ a.ok <=> r.value > 0
         /\ GoodRow(a.row, k)
         /\ a.row.value = IF r.value > 0 THEN r.value - 1 ELSE 0
<1> DEFINE a == Acquire(r, Limit[k])
<1>1. Reconciled(r, Limit[k]) = r.value /\ r # NoRow /\ r.value \in Nat
  BY RowLimit DEF Reconciled, Least, Greatest
<1>2. r.value > r.limit - Limit[k] <=> r.value > 0
  BY RowLimit
<1>3. CASE r.value > 0
  <2>1. a = [ok |-> TRUE, row |-> Written(r.value - 1, Limit[k])]
    BY <1>1, <1>2, <1>3 DEF Acquire
  <2>2. r.value - 1 \in Nat /\ r.value - 1 <= Limit[k]
    BY <1>3, RowLimit
  <2>3. QED
    BY <1>3, <2>1, <2>2, WrittenGood
<1>4. CASE ~(r.value > 0)
  <2>1. a = [ok |-> FALSE, row |-> Written(r.value, Limit[k])]
    BY <1>1, <1>2, <1>4 DEF Acquire
  <2>2. r.value = 0 /\ r.value <= Limit[k]
    BY <1>1, <1>4, RowLimit
  <2>3. QED
    BY <1>4, <2>1, <2>2, WrittenGood
<1>5. QED
  BY <1>3, <1>4

\* Given back are slots that were in use.
LEMMA ReleasedRow ==
  ASSUME NEW k \in Keys, NEW r, GoodRow(r, k), NEW n \in Nat, r.value + n <= Limit[k]
  PROVE  Released(r, n, Limit[k]) = r.value + n
BY RowLimit DEF Released, Least, Greatest

LEMMA ReleaseGroupRow ==
  ASSUME NEW k \in Keys, NEW r, GoodRow(r, k), NEW n \in Nat, NEW w \in Nat,
         r.value + n <= Limit[k]
  PROVE  LET g == ReleaseGroup(r, n, Limit[k], w) IN
         /\ g.unblocked \in Nat /\ g.unblocked <= w /\ g.unblocked <= n
         /\ GoodRow(g.row, k) /\ g.row.value = r.value + n - g.unblocked
<1> DEFINE g == ReleaseGroup(r, n, Limit[k], w)
<1>1. r # NoRow /\ r.value \in Nat /\ Limit[k] \in Nat
  BY RowLimit
<1>2. PICK a \in Nat : a = Released(r, n, Limit[k]) /\ a = r.value + n /\ a <= Limit[k]
  BY <1>1, ReleasedRow
<1>3. PICK p \in Nat : /\ p = Least(Least(n, a), w) /\ p <= w /\ p <= n /\ p <= a
  BY DEF Least
<1>4. g = [unblocked |-> p, row |-> Written(a - p, Limit[k])]
  BY <1>1, <1>2, <1>3 DEF ReleaseGroup
<1>5. a - p \in Nat /\ a - p <= Limit[k]
  BY <1>1, <1>2, <1>3
<1>6. PICK v \in Nat : v = a - p /\ v <= Limit[k]
  BY <1>5
<1>7. GoodRow(Written(v, Limit[k]), k) /\ Written(v, Limit[k]).value = v
  BY <1>6, WrittenGood
<1>8. g.unblocked = p /\ g.row = Written(v, Limit[k])
  BY <1>4, <1>6
<1>9. v = r.value + n - p
  BY <1>1, <1>2, <1>6
<1>10. QED
  BY <1>3, <1>7, <1>8, <1>9

LEMMA ReleasedInt ==
  ASSUME NEW r \in SemRows, NEW L \in Nat, NEW n \in Nat PROVE Released(r, n, L) \in Int
BY DEF Released, Least, Greatest, SemRows

LEMMA ReleaseRow ==
  ASSUME NEW k \in Keys, NEW r, GoodRow(r, k), r.value + 1 <= Limit[k]
  PROVE  /\ GoodRow(Release(r, Limit[k]), k) /\ Release(r, Limit[k]).value = r.value + 1
         /\ GoodRow(Handoff(r, Limit[k]), k) /\ Handoff(r, Limit[k]).value = r.value
<1>1. /\ r # NoRow /\ r.value \in Nat /\ Limit[k] \in Nat /\ r \in SemRows
      /\ r.value + 1 \in Nat
  BY RowLimit DEF GoodRow
<1>2. Released(r, 1, Limit[k]) = r.value + 1
  BY ReleasedRow
<1>3. \A v \in Nat : Seen(r, v) \in SemRows
  BY <1>1 DEF Seen, SemRows
<1>4. /\ Limit[k] - Released(Seen(r, r.value + 1), 1, Limit[k]) \in Int
      /\ Limit[k] - Released(Seen(r, r.value), 1, Limit[k]) + 1 \in Int
  BY <1>1, <1>3, ReleasedInt
<1>5. /\ Release(r, Limit[k]) =
           [value |-> r.value + 1, limit |-> Limit[k],
            active |-> Limit[k] - Released(Seen(r, r.value + 1), 1, Limit[k])]
      /\ Handoff(r, Limit[k]) =
           [value |-> r.value, limit |-> Limit[k],
            active |-> Limit[k] - Released(Seen(r, r.value), 1, Limit[k]) + 1]
  <2>1. r.value + 1 - 1 = r.value
    BY <1>1
  <2>2. QED
    BY <1>1, <1>2, <2>1 DEF Release, Handoff
<1>6. QED
  BY <1>1, <1>4, <1>5 DEF GoodRow, SemRows

LEMMA ConsumeRow ==
  ASSUME NEW k \in Keys, NEW r, GoodRow(r, k), r.value > 0
  PROVE  /\ GoodRow(ConsumeReleased(r, Limit[k]), k)
         /\ ConsumeReleased(r, Limit[k]).value = r.value - 1
<1>1. r.value - 1 \in Nat /\ r.value - 1 <= Limit[k] /\ Limit[k] \in Nat /\ r \in SemRows
  BY RowLimit DEF GoodRow
<1>2. Seen(r, r.value - 1).value \in Int
  BY <1>1 DEF Seen, SemRows
<1>3. QED
  BY <1>1, <1>2 DEF ConsumeReleased, GoodRow, SemRows

-----------------------------------------------------------------------------
(* Statements.                                                             *)

\* Where a transaction is tells what it does.
LEMMA GroupTurn ==
  ASSUME IInv, NEW s \in Sessions,
         tx[s].at \in {"acquire group", "pick group", "release group"}
  PROVE  /\ tx[s].op = IF tx[s].at = "acquire group" THEN "enqueue" ELSE "recover"
         /\ Want(s) = tx[s].turn /\ tx[s].turn \in Keys
         /\ tx[s].turn \notin Held(s) /\ tx[s].turn \notin tx[s].todo
<1> PICK t \in Txs : t = tx[s]
  BY TxOf
<1>1. Shape(t) /\ t.jobs \subseteq Jobs
  BY TxOf DEF Txs
<1>2. t.op = IF t.at = "acquire group" THEN "enqueue" ELSE "recover"
  <2>1. t.op # "none" /\ t.op # "promote" /\ t.op # "complete"
    BY <1>1 DEF Shape, PromoteShape, CompleteShape
  <2>2. /\ t.op = "enqueue" => t.at = "acquire group"
        /\ t.op = "recover" => t.at # "acquire group"
    BY <1>1 DEF Shape, EnqueueShape, RecoverShape
  <2>3. QED
    BY <2>1, <2>2 DEF Txs
<1>3. t.turn \in Left(t) /\ t.at # "commit"
  BY DEF Left
<1>4. t.turn \in KeysOf(t.jobs) /\ t.turn \notin Locks(t) /\ t.turn \notin t.todo
  <2>1. CASE t.op = "enqueue"
    BY <1>1, <1>3, <2>1 DEF Shape, EnqueueShape
  <2>2. CASE t.op = "recover"
    BY <1>1, <1>3, <2>2 DEF Shape, RecoverShape
  <2>3. QED
    BY <1>2, <2>1, <2>2
<1>5. QED
  BY <1>1, <1>2, <1>4 DEF KeysOf, Want, Held, Locks

LEMMA PromoteTurn ==
  ASSUME IInv, NEW s \in Sessions, tx[s].at = "acquire"
  PROVE  /\ tx[s].op = "promote" /\ PromoteShape(tx[s]) /\ tx[s].turn \in tx[s].rows
         /\ tx[s].turn \in Jobs /\ tx[s].turn \notin tx[s].todo
         /\ Left(tx[s]) = tx[s].todo \cup {tx[s].turn}
         /\ Want(s) = Key[tx[s].turn] /\ Want(s) \in Keys
<1> PICK t \in Txs : t = tx[s]
  BY TxOf
<1>1. Shape(t) /\ t.rows \subseteq Jobs
  BY TxOf DEF Txs
<1>2. t.op = "promote"
  <2>1. t.op # "none" /\ t.op # "enqueue" /\ t.op # "recover" /\ t.op # "complete"
    BY <1>1 DEF Shape, EnqueueShape, RecoverShape, CompleteShape
  <2>2. QED
    BY <2>1 DEF Txs
<1>3. PromoteShape(t) /\ Left(t) = t.todo \cup {t.turn} /\ t.at # "commit"
  BY <1>1, <1>2 DEF Shape, Left
<1>4. t.turn \in t.rows /\ t.turn \in Jobs /\ t.turn \notin t.todo
  BY <1>1, <1>3 DEF PromoteShape
<1>5. QED
  BY <1>2, <1>3, <1>4 DEF Want

\* The job that a completion j is about, and its key.
Completes(s, j) ==
  /\ tx[s].op = "complete" /\ CompleteShape(tx[s])
  /\ tx[s].jobs = {j} /\ tx[s].turn = Key[j] /\ Want(s) = Key[j]
  /\ job[j] = "claimed"

LEMMA CompleteTurn ==
  ASSUME IInv, NEW s \in Sessions,
         tx[s].at \in {"first look", "hand over", "release", "second look"}
  PROVE  \E j \in Jobs : Completes(s, j)
<1> PICK t \in Txs : t = tx[s]
  BY TxOf
<1>1. Shape(t) /\ Owned(s, t)
  BY TxOf
<1>2. t.op = "complete"
  <2>1. t.op # "none" /\ t.op # "enqueue" /\ t.op # "recover" /\ t.op # "promote"
    BY <1>1 DEF Shape, EnqueueShape, RecoverShape, PromoteShape
  <2>2. QED
    BY <2>1 DEF Txs
<1>3. CompleteShape(t)
  BY <1>1, <1>2 DEF Shape
<1>4. PICK j \in Jobs : t.jobs = {j} /\ t.turn = Key[j]
  BY <1>3 DEF CompleteShape
<1>5. job[j] = "claimed"
  BY <1>1, <1>2, <1>4 DEF Owned
<1>6. QED
  BY <1>2, <1>3, <1>4, <1>5 DEF Completes, Want

LEMMA PicksSet ==
  ASSUME IInv, NEW s \in Sessions, NEW k \in Keys, NEW n \in Nat, NEW S \in Picks(s, k, n)
  PROVE  /\ S \subseteq Jobs /\ Cardinality(S) \in Nat /\ Cardinality(S) <= n
         /\ \A j \in S : /\ job[j] = "blocked" /\ Key[j] = k /\ tx[s].to[j] = "same"
                         /\ j \notin LockedByOthers(s)
         /\ n > 0 /\ S = {} => \A j \in Blocked(k) : tx[s].to[j] = "same" =>
                                 \E u \in Sessions \ {s} : j \in tx[u].rows
<1> DEFINE free == {j \in Blocked(k) : tx[s].to[j] = "same"} \ LockedByOthers(s)
<1>1. free \subseteq Jobs /\ Cardinality(free) \in Nat /\ IsFiniteSet(free)
  <2>1. free \subseteq Jobs
    BY DEF Blocked, OfKey
  <2> HIDE DEF free
  <2>2. QED
    BY <2>1, JobsFinite
<1>2. S \in kSubset(Least(n, Cardinality(free)), free)
  BY DEF Picks
<1>3. \A j \in free : /\ job[j] = "blocked" /\ Key[j] = k /\ tx[s].to[j] = "same"
                      /\ j \notin LockedByOthers(s)
  BY DEF Blocked, OfKey
<1>4. free = {} => \A j \in Blocked(k) : tx[s].to[j] = "same" =>
                     \E u \in Sessions \ {s} : j \in tx[u].rows
  BY DEF LockedByOthers
<1> HIDE DEF free
<1>5. S \subseteq free /\ Cardinality(S) = Least(n, Cardinality(free))
  BY <1>2 DEF kSubset
<1>6. S \subseteq Jobs /\ Cardinality(S) \in Nat /\ Cardinality(S) <= n
  BY <1>1, <1>5 DEF Least
<1>7. n > 0 /\ S = {} => free = {}
  <2> HAVE n > 0 /\ S = {}
  <2>1. Cardinality(S) = 0
    BY FS_EmptySet
  <2>2. Cardinality(free) = 0
    BY <1>1, <1>5, <2>1 DEF Least
  <2>3. QED
    BY <1>1, <2>2, FS_EmptySet
<1>8. QED
  BY <1>3, <1>4, <1>5, <1>6, <1>7

\* The transaction of session s goes on as rec, with key k: it keeps what it
\* has, may take free waiters, and moves jobs of that key only.
Continues(s, k, rec) ==
  /\ rec \in Txs /\ rec.op = tx[s].op /\ rec.jobs = tx[s].jobs
  /\ rec.before = tx[s].before /\ tx[s].rows \subseteq rec.rows
  /\ \A j \in rec.rows :
       j \in tx[s].rows \/ (job[j] = "blocked" /\ j \notin LockedByOthers(s))
  /\ \A j \in Jobs : Key[j] # k => /\ rec.to[j] = tx[s].to[j]
                                   /\ rec.op = "promote" /\ j \in Left(tx[s]) => j \in Left(rec)
  /\ Held(s) \ {k} # {} => tx[s].at # "second look"

\* It does so as n, with the semaphore of k locked and written.
Wrote(s, k, row, rec, n) ==
  /\ n \in Txs /\ n.op = rec.op /\ n.at = rec.at /\ n.jobs = rec.jobs
  /\ n.todo = rec.todo /\ n.turn = rec.turn /\ n.rows = rec.rows /\ n.to = rec.to
  /\ Left(n) = Left(rec) /\ Locks(n) = Held(s) \cup {k}
  /\ Free(s, k) /\ sem'[k] = row
  /\ Working(s, n, k) /\ Owned(s, n)

LEMMA KeepsOwn ==
  ASSUME IInv, NEW s \in Sessions, NEW k, NEW n \in Txs, NEW rec, Continues(s, k, rec),
         n.op = rec.op, n.jobs = rec.jobs, n.rows = rec.rows,
         \A u \in Sessions \ {s} : Locks(n) \cap Held(u) = {}
  PROVE  Owned(s, n)
<1>1. Owned(s, tx[s])
  BY TxOf
<1>2. \A j \in n.rows : job[j] = "blocked" /\ \A u \in Sessions \ {s} : j \notin tx[u].rows
  <2> TAKE j \in n.rows
  <2>1. j \in tx[s].rows \/ (job[j] = "blocked" /\ j \notin LockedByOthers(s))
    BY DEF Continues
  <2>2. CASE j \in tx[s].rows
    BY <1>1, <2>2 DEF Owned
  <2>3. CASE job[j] = "blocked" /\ j \notin LockedByOthers(s)
    BY <2>3 DEF LockedByOthers
  <2>4. QED
    BY <2>1, <2>2, <2>3
<1>3. n.jobs = tx[s].jobs /\ n.op = tx[s].op
  BY DEF Continues
<1>4. QED
  BY <1>1, <1>2, <1>3 DEF Owned, Held, Locks

LEMMA WriteTx ==
  ASSUME IInv, NEW s \in Sessions, NEW k \in Keys, NEW row, GoodRow(row, k),
         NEW rec, Continues(s, k, rec), Write(s, k, row, rec), Rest
  PROVE  \E n : Wrote(s, k, row, rec, n)
<1> DEFINE b == [l \in Held(s) \cup {k} |->
                   IF l \in Held(s) THEN tx[s].before[l] ELSE sem[k]]
           n == [rec EXCEPT !.before = b]
<1>1. rec \in Txs /\ rec.before = tx[s].before /\ Held(s) \subseteq Keys
  BY HeldKeys DEF Continues
<1>2. tx' = [tx EXCEPT ![s] = n] /\ sem' = [sem EXCEPT ![k] = row] /\ Free(s, k)
  BY <1>1 DEF Write, Held
<1>3. /\ DOMAIN b = Held(s) \cup {k}
      /\ \A l \in DOMAIN b : b[l] = IF l \in Held(s) THEN tx[s].before[l] ELSE sem[l]
  OBVIOUS
<1>4. b \in Befores
  <2>1. \A l \in Held(s) \cup {k} : b[l] \in SemRows
    BY <1>3 DEF IInv, Typed, GoodRow
  <2>2. b \in [Held(s) \cup {k} -> SemRows]
    BY <2>1
  <2>3. Held(s) \cup {k} \in SUBSET Keys
    BY <1>1
  <2> HIDE DEF b
  <2>4. QED
    BY <2>2, <2>3 DEF Befores
<1> HIDE DEF b
<1>5. /\ n \in Txs /\ n.op = rec.op /\ n.at = rec.at /\ n.jobs = rec.jobs
      /\ n.todo = rec.todo /\ n.turn = rec.turn /\ n.rows = rec.rows /\ n.to = rec.to
      /\ n.before = b
  BY <1>1, <1>4 DEF Txs
<1> HIDE DEF n
<1>6. Left(n) = Left(rec) /\ Locks(n) = Held(s) \cup {k}
  BY <1>3, <1>5 DEF Left, Locks
<1>7. sem'[k] = row /\ sem' \in [Keys -> SemRows] /\ \A l \in Keys : l # k => sem'[l] = sem[l]
  BY <1>2 DEF IInv, Typed, GoodRow
<1>8. Working(s, n, k)
  <2>1. n.op = tx[s].op /\ n.jobs = tx[s].jobs /\ tx[s].rows \subseteq n.rows
    BY <1>5 DEF Continues
  <2>2. \A j \in Jobs : Key[j] # k => /\ n.to[j] = tx[s].to[j]
                                      /\ n.op = "promote" /\ j \in Left(tx[s]) => j \in Left(n)
    BY <1>5, <1>6 DEF Continues
  <2>3. \A l \in Locks(n) :
          n.before[l] = IF l \in Held(s) THEN tx[s].before[l] ELSE sem[l]
    BY <1>3, <1>5, <1>6
  <2>4. Held(s) \ {k} # {} => tx[s].at # "second look"
    BY DEF Continues
  <2>5. job' = job /\ doubt' = doubt
    BY DEF Rest
  <2>6. \A l \in Keys : l # k \/ l \notin Locks(n) => sem'[l] = sem[l]
    BY <1>6, <1>7
  <2>7. QED
    BY <1>2, <1>6, <1>7, <2>1, <2>2, <2>3, <2>4, <2>5, <2>6 DEF Working
<1>9. Owned(s, n)
  <2>1. \A u \in Sessions \ {s} : Locks(n) \cap Held(u) = {}
    BY <1>2, <1>6, TxOf DEF Free, Owned, Held, Locks
  <2>2. QED
    BY <1>5, <2>1, KeepsOwn
<1>10. QED
  BY <1>2, <1>5, <1>6, <1>7, <1>8, <1>9 DEF Wrote

\* It looks for waiters or goes on, without writing to a semaphore.
LEMMA LookTx ==
  ASSUME IInv, NEW s \in Sessions, NEW k \in Keys, NEW rec, Continues(s, k, rec),
         tx' = [tx EXCEPT ![s] = rec], sem' = sem, Rest
  PROVE  Working(s, rec, k) /\ Owned(s, rec) /\ Locks(rec) = Held(s)
<1>1. rec \in Txs /\ rec.before = tx[s].before /\ Locks(rec) = Held(s)
  BY DEF Continues, Locks, Held
<1>2. Owned(s, rec)
  <2>1. \A u \in Sessions \ {s} : Locks(rec) \cap Held(u) = {}
    BY <1>1, TxOf DEF Owned, Held, Locks
  <2>2. QED
    BY <1>1, <2>1, KeepsOwn
<1>3. Working(s, rec, k)
  BY <1>1 DEF Working, Rest, Continues, IInv, Typed
<1>4. QED
  BY <1>1, <1>2, <1>3

Tos == [Jobs -> {"same", "ready", "blocked"}]

LEMMA MovedTo ==
  ASSUME NEW to \in Tos, NEW S, NEW state \in {"ready", "blocked"}
  PROVE  /\ Moved(to, S, state) \in Tos
         /\ \A j \in Jobs : Moved(to, S, state)[j] = IF j \in S THEN state ELSE to[j]
BY DEF Moved, Tos

\* It has moved jobs and goes on to the next key or job.
GoesOn(t, to, step, rec) ==
  /\ rec \in Txs /\ rec.op = t.op /\ rec.jobs = t.jobs /\ rec.rows = t.rows
  /\ rec.to = to /\ rec.before = t.before /\ Left(rec) = t.todo
  /\ \/ rec.at = "commit"
     \/ rec.at = step /\ rec.turn \notin rec.todo

LEMMA OnwardMoved ==
  ASSUME NEW t \in Txs, NEW to \in Tos, NEW step \in Steps \ {"commit"},
         NEW rec \in Onward([t EXCEPT !.to = to], step)
  PROVE  GoesOn(t, to, step, rec)
<1> DEFINE m == [t EXCEPT !.to = to]
<1>1. /\ m \in Txs /\ m.op = t.op /\ m.jobs = t.jobs /\ m.rows = t.rows /\ m.to = to
      /\ m.before = t.before /\ m.todo = t.todo
  BY DEF Txs, Tos
<1>2. rec \in Onward(m, step)
  OBVIOUS
<1> HIDE DEF m
<1>3. /\ rec \in Txs /\ rec.op = m.op /\ rec.jobs = m.jobs /\ rec.rows = m.rows
      /\ rec.to = m.to /\ rec.before = m.before
      /\ \/ m.todo = {} /\ rec.at = "commit" /\ rec.todo = {}
         \/ rec.at = step /\ rec.turn \in m.todo /\ rec.todo = m.todo \ {rec.turn}
      /\ Left(rec) = m.todo
  BY <1>1, <1>2, OnwardTx
<1>4. QED
  BY <1>1, <1>3 DEF GoesOn

-----------------------------------------------------------------------------
(* Balances.                                                               *)

LEMMA FreeKey ==
  ASSUME IInv, NEW s \in Sessions, NEW k \in Keys, k \notin Held(s), Free(s, k)
  PROVE  /\ Balanced(sem[k], job, k)
         /\ k \notin doubt /\ sem[k].value > 0 => \A j \in Blocked(k) : Taken(j)
<1>1. Unlocked(k)
  BY DEF Free, Unlocked
<1>2. QED
  BY <1>1 DEF IInv, Books, NoneLeft

LEMMA GoodSem == ASSUME IInv, NEW k \in Keys PROVE GoodRow(sem[k], k)
BY DEF IInv, Typed

LEMMA HoldersJobs == ASSUME NEW f, NEW k PROVE Holders(f, k) \subseteq Jobs
BY DEF Holders, OfKey

\* As many slots as there are holders can be given back.
LEMMA Room ==
  ASSUME NEW k \in Keys, NEW r, GoodRow(r, k), NEW f, Balanced(r, f, k),
         NEW G, G \subseteq Holders(f, k)
  PROVE  Cardinality(G) \in Nat /\ r.value + Cardinality(G) <= Limit[k]
<1>1. PICK H \in SUBSET Jobs : H = Holders(f, k)
  BY HoldersJobs
<1>2. Cardinality(G) <= Cardinality(H) /\ Cardinality(H) \in Nat /\ Cardinality(G) \in Nat
  <2>1. {} \subseteq Jobs /\ {} \cap H = {} /\ G \subseteq H
    BY <1>1
  <2>2. QED
    BY <2>1, CardinalityMoved
<1>3. r.value + Cardinality(H) = Limit[k] /\ r.value \in Nat
  BY <1>1, RowLimit DEF Balanced
<1>4. QED
  BY <1>2, <1>3

\* The slots of the holders in G are given back, those in S get one.
LEMMA Rebalanced ==
  ASSUME NEW k \in Keys, NEW r, GoodRow(r, k), NEW f, Balanced(r, f, k),
         NEW G, G \subseteq Holders(f, k),
         NEW S, S \subseteq Jobs, S \cap Holders(f, k) = {},
         NEW g, Holders(g, k) = (Holders(f, k) \ G) \cup S,
         NEW row, row.value = r.value + Cardinality(G) - Cardinality(S)
  PROVE  Balanced(row, g, k)
<1>1. PICK H \in SUBSET Jobs : H = Holders(f, k)
  BY HoldersJobs
<1>2. /\ Cardinality((H \ G) \cup S) = Cardinality(H) - Cardinality(G) + Cardinality(S)
      /\ Cardinality(H) \in Nat /\ Cardinality(G) \in Nat /\ Cardinality(S) \in Nat
  <2>1. G \subseteq H /\ S \cap H = {}
    BY <1>1
  <2>2. QED
    BY <2>1, CardinalityMoved
<1>3. r.value + Cardinality(H) = Limit[k] /\ r.value \in Nat
  BY <1>1, RowLimit DEF Balanced
<1>4. Cardinality(Holders(g, k)) = Cardinality(H) - Cardinality(G) + Cardinality(S)
  BY <1>1, <1>2
<1>5. row.value + Cardinality(Holders(g, k)) = Limit[k]
  BY <1>2, <1>3, <1>4
<1>6. QED
  BY <1>5 DEF Balanced

-----------------------------------------------------------------------------
(* The statements of an enqueue and of a recovery.                         *)

LEMMA AcquireGroupStep ==
  ASSUME IInv, NEW s \in Sessions, AcquireGroup(s) PROVE IInv'
<1> PICK t \in Txs : t = tx[s]
  BY TxOf
<1>0. t.at = "acquire group"
  BY DEF AcquireGroup
<1> PICK k \in Keys : k = t.turn
  BY <1>0, GroupTurn
<1>1. /\ t.op = "enqueue" /\ Want(s) = k /\ k \notin Held(s) /\ k \notin t.todo
      /\ EnqueueShape(t) /\ t.rows = {} /\ Left(t) = t.todo \cup {k}
  BY <1>0, GroupTurn, TxOf DEF Shape, EnqueueShape, Left
<1>2. PICK group \in SUBSET Jobs : group = OfKey(t.jobs, k)
  BY DEF OfKey, Txs
<1>3. Cardinality(group) \in Nat /\ IsFiniteSet(group)
  BY JobsFinite
<1>4. PICK grant : grant = AcquireMany(sem[k], Cardinality(group), Limit[k])
  OBVIOUS
<1>5. /\ grant.got \in Nat /\ sem[k].value \in Nat
      /\ GoodRow(grant.row, k) /\ grant.row.value = sem[k].value - grant.got
      /\ grant.row.value > 0 => grant.got = Cardinality(group)
  <2>1. GoodRow(sem[k], k)
    BY GoodSem
  <2>2. sem[k].value \in Nat
    BY <2>1, RowLimit
  <2>3. QED
    BY <1>3, <1>4, <2>1, <2>2, AcquireManyRow
<1> PICK row : row = grant.row
  OBVIOUS
<1> PICK got \in Nat : got = grant.got
  BY <1>5
<1>6. PICK granted : granted \in kSubset(got, group) /\
        \E rec \in Onward([t EXCEPT !.to =
                              Moved(Moved(@, group, "blocked"), granted, "ready")],
                          "acquire group") :
          Write(s, k, row, rec)
  BY <1>1, <1>2, <1>4 DEF AcquireGroup
<1>7. granted \subseteq group /\ Cardinality(granted) = got
  BY <1>6 DEF kSubset
<1>8. PICK to \in Tos :
        /\ to = Moved(Moved(t.to, group, "blocked"), granted, "ready")
        /\ \A j \in Jobs : to[j] = IF j \in granted THEN "ready"
                                   ELSE IF j \in group THEN "blocked" ELSE t.to[j]
  <2>1. t.to \in Tos
    BY DEF Txs, Tos
  <2>2. PICK f \in Tos : /\ f = Moved(t.to, group, "blocked")
                         /\ \A j \in Jobs : f[j] = IF j \in group THEN "blocked" ELSE t.to[j]
    BY <2>1, MovedTo
  <2>3. /\ Moved(f, granted, "ready") \in Tos
        /\ \A j \in Jobs : Moved(f, granted, "ready")[j] = IF j \in granted THEN "ready" ELSE f[j]
    BY MovedTo
  <2>4. QED
    BY <2>2, <2>3
<1>9. PICK rec : /\ rec \in Onward([t EXCEPT !.to = to], "acquire group")
                 /\ Write(s, k, row, rec)
  BY <1>6, <1>8
<1>10. GoesOn(t, to, "acquire group", rec)
  <2>1. "acquire group" \in Steps \ {"commit"}
    BY DEF Steps
  <2>2. QED
    BY <1>9, <2>1, OnwardMoved
<1>11. /\ rec.op = "enqueue" /\ rec.jobs = t.jobs /\ rec.rows = {} /\ rec.to = to
       /\ Left(rec) = t.todo
       /\ rec.at = "commit" \/ (rec.at = "acquire group" /\ rec.turn \notin rec.todo)
  BY <1>1, <1>10 DEF GoesOn
<1>12. Continues(s, k, rec)
  <2>1. \A j \in Jobs : Key[j] # k => rec.to[j] = t.to[j]
    BY <1>2, <1>7, <1>8, <1>11 DEF OfKey
  <2>2. QED
    BY <1>0, <1>1, <1>10, <1>11, <2>1 DEF Continues, GoesOn
<1>13. PICK n \in Txs : Wrote(s, k, row, rec, n)
  <2>1. Rest
    BY DEF AcquireGroup
  <2>2. \E n : Wrote(s, k, row, rec, n)
    BY <1>5, <1>9, <1>12, <2>1, WriteTx
  <2>3. QED
    BY <2>2 DEF Wrote
<1>14. /\ n.op = "enqueue" /\ n.jobs = t.jobs /\ n.rows = {} /\ n.to = to
       /\ Left(n) = t.todo /\ Locks(n) = Held(s) \cup {k}
       /\ n.at = "commit" \/ (n.at = "acquire group" /\ n.turn \notin n.todo)
       /\ Free(s, k) /\ sem'[k] = row /\ Working(s, n, k) /\ Owned(s, n)
  BY <1>11, <1>13 DEF Wrote
<1>15. \A j \in Jobs : /\ Key[j] = k => t.to[j] = "same"
                       /\ j \in t.jobs => (j \in group <=> Key[j] = k)
                       /\ j \in group => j \in t.jobs /\ job[j] = "new" /\ Key[j] = k
  <2>1. \A j \in t.jobs : job[j] = "new"
    BY <1>1, TxOf DEF Owned
  <2>2. \A j \in Jobs : t.to[j] # "same" => Key[j] \in Held(s)
    BY <1>1 DEF EnqueueShape, Held, Locks
  <2>3. QED
    BY <1>1, <1>2, <2>1, <2>2 DEF OfKey
<1>16. Shape(n)
  <2>1. /\ Left(n) \subseteq KeysOf(n.jobs) /\ Left(n) \cap Locks(n) = {}
        /\ KeysOf(n.jobs) \subseteq Left(n) \cup Locks(n)
    <3>1. /\ Left(t) \subseteq KeysOf(t.jobs) /\ Left(t) \cap Held(s) = {}
          /\ KeysOf(t.jobs) \subseteq Left(t) \cup Held(s)
      BY <1>1 DEF EnqueueShape, Held, Locks
    <3>2. Left(t) = t.todo \cup {k} /\ k \notin t.todo /\ k \notin Held(s)
      BY <1>1
    <3>3. Left(n) = t.todo /\ Locks(n) = Held(s) \cup {k} /\ n.jobs = t.jobs
      BY <1>14
    <3>4. QED
      BY ONLY <3>1, <3>2, <3>3
  <2>2. \A j \in Jobs : n.to[j] # "same" <=> j \in n.jobs /\ Key[j] \in Locks(n)
    <3> TAKE j \in Jobs
    <3>1. t.to[j] # "same" <=> j \in t.jobs /\ Key[j] \in Held(s)
      BY <1>1 DEF EnqueueShape, Held, Locks
    <3>2. n.to[j] # "same" <=> j \in group \/ t.to[j] # "same"
      BY <1>7, <1>8, <1>14
    <3>3. QED
      BY <1>14, <1>15, <3>1, <3>2
  <2>3. EnqueueShape(n)
    BY <1>14, <2>1, <2>2 DEF EnqueueShape
  <2>4. QED
    BY <1>14, <2>3 DEF Shape
<1>17. Balanced(sem'[k], After(n), k)
  <2>1. Balanced(sem[k], job, k) /\ GoodRow(sem[k], k)
    BY <1>1, <1>14, FreeKey, GoodSem
  <2>2. Holders(After(n), k) = (Holders(job, k) \ {}) \cup granted
    <3>1. \A j \in Jobs : Key[j] = k =>
            (After(n)[j] \in {"ready", "claimed"}
               <=> j \in granted \/ job[j] \in {"ready", "claimed"})
      <4> TAKE j \in Jobs
      <4> HAVE Key[j] = k
      <4>1. After(n)[j] = IF to[j] # "same" THEN to[j]
                          ELSE IF j \in t.jobs THEN "gone" ELSE job[j]
        BY <1>14 DEF After
      <4>2. QED
        BY <1>7, <1>8, <1>15, <4>1
    <3>2. \A j \in granted : j \in Jobs /\ Key[j] = k
      BY <1>7, <1>15
    <3>3. QED
      BY <3>1, <3>2 DEF Holders, OfKey
  <2>3. granted \subseteq Jobs /\ granted \cap Holders(job, k) = {}
    BY <1>7, <1>15 DEF Holders
  <2>4. Cardinality({}) = 0
    BY FS_EmptySet
  <2>5. row.value = sem[k].value + Cardinality({}) - Cardinality(granted)
    BY <1>5, <1>7, <2>4
  <2>6. Balanced(row, After(n), k)
    BY <2>1, <2>2, <2>3, <2>5, Rebalanced
  <2>7. QED
    BY <1>14, <2>6
<1>18. k \notin doubt /\ sem'[k].value > Spare(n) => Passes(s, n, k)
  <2> HAVE k \notin doubt /\ sem'[k].value > Spare(n)
  <2>1. row.value > 0
    BY <1>14 DEF Spare
  <2>2. granted = group
    BY <1>3, <1>5, <1>7, <2>1, FS_Subset
  <2>3. sem[k].value > 0
    BY <1>5, <2>1
  <2>4. \A j \in Blocked(k) : \E u \in Sessions \ {s} : j \in tx[u].rows
    <3>1. \A j \in Blocked(k) : Taken(j)
      BY <1>1, <1>14, <2>3, FreeKey
    <3>2. QED
      BY <1>1, <3>1 DEF Taken
  <2>5. \A j \in n.jobs : Key[j] = k => n.to[j] # "blocked"
    BY <1>8, <1>14, <1>15, <2>2 DEF Txs
  <2>6. QED
    BY <2>4, <2>5 DEF Passes
<1>19. QED
  BY <1>14, <1>16, <1>17, <1>18, Works

LEMMA PickGroupStep == ASSUME IInv, NEW s \in Sessions, PickGroup(s) PROVE IInv'
<1> PICK t \in Txs : t = tx[s]
  BY TxOf
<1>0. t.at = "pick group"
  BY DEF PickGroup
<1> PICK k \in Keys : k = t.turn
  BY <1>0, GroupTurn
<1>1. /\ t.op = "recover" /\ Want(s) = k /\ k \notin Held(s) /\ k \notin t.todo
      /\ RecoverShape(t)
  BY <1>0, GroupTurn, TxOf DEF Shape
<1>2. Cardinality(OfKey(t.jobs, k)) \in Nat
  <2>1. OfKey(t.jobs, k) \subseteq Jobs
    BY DEF OfKey, Txs
  <2>2. QED
    BY <2>1, JobsFinite
<1> PICK m \in Nat : m = Cardinality(OfKey(t.jobs, k))
  BY <1>2
<1>3. PICK S : /\ S \in Picks(s, k, m)
               /\ tx' = [tx EXCEPT ![s].at = "release group", ![s].rows = @ \cup S]
  BY <1>1 DEF PickGroup
<1>4. /\ S \subseteq Jobs
      /\ \A j \in S : job[j] = "blocked" /\ Key[j] = k /\ j \notin LockedByOthers(s)
  <2>1. S \in Picks(s, k, m)
    BY <1>3
  <2>2. QED
    BY <2>1, PicksSet
<1>5. PICK R \in SUBSET Jobs : R = t.rows \cup S
  BY <1>4 DEF Txs
<1> DEFINE n == [t EXCEPT !.at = "release group", !.rows = R]
<1>6. tx' = [tx EXCEPT ![s] = n]
  BY <1>3, <1>5 DEF IInv, Typed
<1>7. /\ n \in Txs /\ n.op = "recover" /\ n.at = "release group" /\ n.jobs = t.jobs
      /\ n.todo = t.todo /\ n.turn = k /\ n.rows = R /\ n.to = t.to /\ n.before = t.before
  BY <1>1 DEF Txs, Steps
<1> HIDE DEF n
<1>8. Left(n) = Left(t) /\ Locks(n) = Locks(t)
  BY <1>0, <1>7 DEF Left, Locks
<1>9. Continues(s, k, n)
  BY <1>0, <1>1, <1>4, <1>5, <1>7 DEF Continues
<1>10. Working(s, n, k) /\ Owned(s, n) /\ Locks(n) = Held(s)
  BY <1>6, <1>9, LookTx DEF PickGroup
<1>11. Shape(n)
  <2>1. /\ Left(t) \subseteq KeysOf(t.jobs) /\ Left(t) \cap Locks(t) = {}
        /\ KeysOf(t.jobs) \subseteq Left(t) \cup Locks(t)
    BY <1>1 DEF RecoverShape
  <2>2. \A j \in n.rows : Key[j] \in Locks(n) \/ Key[j] = k
    BY <1>0, <1>1, <1>4, <1>5, <1>7, <1>8 DEF RecoverShape
  <2>3. \A j \in Jobs : n.to[j] # "same" =>
          n.to[j] = "ready" /\ j \in n.rows /\ Key[j] \in Locks(n)
    BY <1>1, <1>5, <1>7, <1>8 DEF RecoverShape
  <2>4. RecoverShape(n)
    BY <1>1, <1>7, <1>8, <2>1, <2>2, <2>3 DEF RecoverShape
  <2>5. QED
    BY <1>7, <2>4 DEF Shape
<1>12. k \notin Locks(n)
  BY <1>1, <1>10
<1>13. QED
  BY <1>7, <1>10, <1>11, <1>12, Works

LEMMA ReleaseGroupStep ==
  ASSUME IInv, NEW s \in Sessions, ReleaseGroupOfKey(s) PROVE IInv'
<1> PICK t \in Txs : t = tx[s]
  BY TxOf
<1>0. t.at = "release group"
  BY DEF ReleaseGroupOfKey
<1> PICK k \in Keys : k = t.turn
  BY <1>0, GroupTurn
<1>1. /\ t.op = "recover" /\ Want(s) = k /\ k \notin Held(s) /\ k \notin t.todo
      /\ RecoverShape(t) /\ Left(t) = t.todo \cup {k}
  BY <1>0, GroupTurn, TxOf DEF Shape, Left
<1>2. PICK group \in SUBSET Jobs : group = OfKey(t.jobs, k)
  BY DEF OfKey, Txs
<1>3. PICK waiters \in SUBSET Jobs : waiters = OfKey(t.rows, k)
  BY DEF OfKey, Txs
<1>4. Cardinality(group) \in Nat /\ Cardinality(waiters) \in Nat
  BY JobsFinite
<1>5. PICK r : r = ReleaseGroup(sem[k], Cardinality(group), Limit[k], Cardinality(waiters))
  OBVIOUS
<1> PICK row : row = r.row
  OBVIOUS
<1>6. PICK S : /\ S \in kSubset(r.unblocked, waiters)
               /\ \E rec \in Onward([t EXCEPT !.to = Moved(@, S, "ready")], "pick group") :
                    Write(s, k, row, rec)
  BY <1>1, <1>2, <1>3, <1>5 DEF ReleaseGroupOfKey
<1>7. S \subseteq waiters /\ Cardinality(S) = r.unblocked
  BY <1>6 DEF kSubset
<1>8. PICK to \in Tos :
        /\ to = Moved(t.to, S, "ready")
        /\ \A j \in Jobs : to[j] = IF j \in S THEN "ready" ELSE t.to[j]
  <2>1. t.to \in Tos
    BY DEF Txs, Tos
  <2>2. QED
    BY <2>1, MovedTo
<1>9. PICK rec : rec \in Onward([t EXCEPT !.to = to], "pick group") /\ Write(s, k, row, rec)
  BY <1>6, <1>8
<1>10. GoesOn(t, to, "pick group", rec)
  <2>1. "pick group" \in Steps \ {"commit"}
    BY DEF Steps
  <2>2. QED
    BY <1>9, <2>1, OnwardMoved
<1>11. /\ rec.op = "recover" /\ rec.jobs = t.jobs /\ rec.rows = t.rows /\ rec.to = to
       /\ Left(rec) = t.todo
       /\ rec.at = "commit" \/ (rec.at = "pick group" /\ rec.turn \notin rec.todo)
  BY <1>1, <1>10 DEF GoesOn
<1>12. Free(s, k)
  BY <1>9 DEF Write
<1>13. /\ \A j \in Jobs : Key[j] = k => t.to[j] = "same"
       /\ \A j \in group : j \in t.jobs /\ job[j] = "claimed" /\ Key[j] = k
       /\ \A j \in waiters : j \in t.rows /\ job[j] = "blocked" /\ Key[j] = k
       /\ \A j \in t.jobs : Key[j] = k => j \in group
  <2>1. /\ \A j \in t.jobs : job[j] = "claimed"
        /\ \A j \in t.rows : job[j] = "blocked"
    BY <1>1, TxOf DEF Owned
  <2>2. \A j \in Jobs : t.to[j] # "same" => Key[j] \in Held(s)
    BY <1>1 DEF RecoverShape, Held, Locks
  <2>3. QED
    BY <1>1, <1>2, <1>3, <2>1, <2>2 DEF OfKey
<1>14. /\ Balanced(sem[k], job, k) /\ GoodRow(sem[k], k) /\ group \subseteq Holders(job, k)
       /\ sem[k].value \in Nat
  <2>1. group \subseteq Holders(job, k)
    BY <1>13 DEF Holders, OfKey
  <2>2. QED
    BY <1>1, <1>12, <2>1, FreeKey, GoodSem, RowLimit
<1>15. /\ r.unblocked \in Nat /\ GoodRow(r.row, k)
       /\ r.row.value = sem[k].value + Cardinality(group) - r.unblocked
  <2>1. sem[k].value + Cardinality(group) <= Limit[k]
    BY <1>14, Room
  <2>2. QED
    BY <1>4, <1>5, <1>14, <2>1, ReleaseGroupRow
<1>16. Continues(s, k, rec)
  <2>1. \A j \in Jobs : Key[j] # k => rec.to[j] = t.to[j]
    <3>1. \A j \in S : Key[j] = k
      BY <1>7, <1>13
    <3>2. rec.to = to
      BY <1>11
    <3>3. QED
      BY <1>8, <3>1, <3>2
  <2>2. QED
    BY <1>0, <1>1, <1>10, <1>11, <2>1 DEF Continues, GoesOn
<1>17. PICK n \in Txs : Wrote(s, k, row, rec, n)
  <2>1. Rest
    BY DEF ReleaseGroupOfKey
  <2>2. \E n : Wrote(s, k, row, rec, n)
    BY <1>9, <1>15, <1>16, <2>1, WriteTx
  <2>3. QED
    BY <2>2 DEF Wrote
<1>18. /\ n.op = "recover" /\ n.jobs = t.jobs /\ n.rows = t.rows /\ n.to = to
       /\ Left(n) = t.todo /\ Locks(n) = Held(s) \cup {k}
       /\ n.at = "commit" \/ (n.at = "pick group" /\ n.turn \notin n.todo)
       /\ sem'[k] = row /\ Working(s, n, k) /\ Owned(s, n)
  BY <1>11, <1>17 DEF Wrote
<1>19. Shape(n)
  <2>1. /\ Left(n) \subseteq KeysOf(n.jobs) /\ Left(n) \cap Locks(n) = {}
        /\ KeysOf(n.jobs) \subseteq Left(n) \cup Locks(n)
    <3>1. /\ Left(t) \subseteq KeysOf(t.jobs) /\ Left(t) \cap Held(s) = {}
          /\ KeysOf(t.jobs) \subseteq Left(t) \cup Held(s)
      BY <1>1 DEF RecoverShape, Held, Locks
    <3>2. Left(t) = t.todo \cup {k} /\ k \notin t.todo /\ k \notin Held(s)
      BY <1>1
    <3>3. Left(n) = t.todo /\ Locks(n) = Held(s) \cup {k} /\ n.jobs = t.jobs
      BY <1>18
    <3>4. QED
      BY ONLY <3>1, <3>2, <3>3
  <2>2. \A j \in n.rows : Key[j] \in Locks(n)
    <3>1. \A j \in t.rows : Key[j] \in Held(s) \/ Key[j] = k
      BY <1>1 DEF RecoverShape, Held, Locks
    <3>2. QED
      BY <1>18, <3>1
  <2>3. \A j \in Jobs : n.to[j] # "same" =>
          n.to[j] = "ready" /\ j \in n.rows /\ Key[j] \in Locks(n)
    <3>1. \A j \in Jobs : t.to[j] # "same" => t.to[j] = "ready" /\ j \in t.rows
      BY <1>1 DEF RecoverShape
    <3>2. n.to = to /\ n.rows = t.rows
      BY <1>18
    <3>3. \A j \in S : j \in t.rows
      BY <1>7, <1>13
    <3>4. QED
      BY <1>8, <2>2, <3>1, <3>2, <3>3
  <2>4. RecoverShape(n)
    BY <1>18, <2>1, <2>2, <2>3 DEF RecoverShape
  <2>5. QED
    BY <1>18, <2>4 DEF Shape
<1>20. Balanced(row, After(n), k)
  <2>1. Holders(After(n), k) = (Holders(job, k) \ group) \cup S
    <3>1. ASSUME NEW j \in Jobs, Key[j] = k
          PROVE  After(n)[j] \in {"ready", "claimed"}
                   <=> j \in S \/ (job[j] \in {"ready", "claimed"} /\ j \notin group)
      <4>1. After(n)[j] = IF to[j] # "same" THEN to[j]
                          ELSE IF j \in t.jobs THEN "gone" ELSE job[j]
        BY <1>18 DEF After
      <4>2. to[j] = IF j \in S THEN "ready" ELSE "same"
        BY <1>8, <1>13, <3>1
      <4>3. j \in t.jobs <=> j \in group
        BY <1>13, <3>1
      <4>4. QED
        BY <4>1, <4>2, <4>3
    <3>2. \A j \in S : j \in Jobs /\ Key[j] = k
      BY <1>7, <1>13
    <3>3. QED
      BY <3>1, <3>2 DEF Holders, OfKey
  <2>2. S \subseteq Jobs /\ S \cap Holders(job, k) = {}
    BY <1>7, <1>13 DEF Holders
  <2>3. row.value = sem[k].value + Cardinality(group) - Cardinality(S)
    BY <1>7, <1>15
  <2>4. QED
    BY <1>14, <2>1, <2>2, <2>3, Rebalanced
<1>21. QED
  BY <1>18, <1>19, <1>20, Works

-----------------------------------------------------------------------------
(* The statements of a promotion and of a completion.                      *)

\* What a promotion has done with a key it may not have come to yet.
LEMMA PromoteKey ==
  ASSUME IInv, NEW s \in Sessions, NEW k \in Keys, tx[s].at = "acquire", Free(s, k)
  PROVE  /\ Balanced(sem[k], After(tx[s]), k)
         /\ k \notin doubt /\ sem[k].value > 0 => Passes(s, tx[s], k)
<1> PICK t \in Txs : t = tx[s]
  BY TxOf
<1>1. t.op = "promote" /\ PromoteShape(t) /\ t.jobs = {} /\ Spare(t) = 0
  BY PromoteTurn DEF PromoteShape, Spare
<1>2. CASE k \in Held(s)
  BY <1>1, <1>2 DEF IInv, Books, NoneLeft
<1>3. CASE k \notin Held(s)
  <2>1. \A j \in Jobs : Key[j] = k => t.to[j] = "same" /\ (j \in t.rows => j \in Left(t))
    BY <1>1, <1>3 DEF PromoteShape, Held, Locks
  <2>2. Holders(After(t), k) = Holders(job, k)
    BY <1>1, <2>1 DEF Holders, OfKey, After
  <2>3. Balanced(sem[k], After(t), k)
    BY <1>3, <2>2, FreeKey DEF Balanced
  <2>4. ASSUME k \notin doubt, sem[k].value > 0 PROVE Passes(s, t, k)
    <3>1. \A j \in Blocked(k) : Taken(j) /\ j \in Jobs /\ Key[j] = k
      BY <1>3, <2>4, FreeKey DEF Blocked, OfKey
    <3>2. ASSUME NEW j \in Blocked(k)
          PROVE  (\E u \in Sessions \ {s} : j \in tx[u].rows) \/ j \in Left(t)
      <4>1. PICK u \in Sessions : j \in tx[u].rows
        BY <3>1 DEF Taken
      <4>2. QED
        BY <2>1, <3>1, <4>1
    <3>3. QED
      BY <1>1, <3>2 DEF Passes
  <2>5. QED
    BY <2>3, <2>4
<1>4. QED
  BY <1>2, <1>3

LEMMA AcquireOneStep == ASSUME IInv, NEW s \in Sessions, AcquireOne(s) PROVE IInv'
<1> PICK t \in Txs : t = tx[s]
  BY TxOf
<1>0. t.at = "acquire"
  BY DEF AcquireOne
<1> PICK x \in Jobs : x = t.turn
  BY <1>0, PromoteTurn
<1> PICK k \in Keys : k = Key[x]
  OBVIOUS
<1>1. /\ t.op = "promote" /\ PromoteShape(t) /\ t.jobs = {} /\ x \in t.rows /\ x \notin t.todo
      /\ Left(t) = t.todo \cup {x} /\ Want(s) = k
  BY <1>0, PromoteTurn DEF PromoteShape
<1>2. PICK a : a = Acquire(sem[k], Limit[k])
  OBVIOUS
<1> PICK row : row = a.row
  OBVIOUS
<1>3. sem[k].value \in Nat /\ GoodRow(sem[k], k)
  BY GoodSem, RowLimit
<1>4. /\ a.ok <=> sem[k].value > 0
      /\ GoodRow(row, k)
      /\ row.value = IF sem[k].value > 0 THEN sem[k].value - 1 ELSE 0
  BY <1>2, <1>3, AcquireRow
<1> PICK got \in SUBSET Jobs : got = IF sem[k].value > 0 THEN {x} ELSE {}
  OBVIOUS
<1>5. \E rec \in Onward([t EXCEPT !.to = Moved(@, got, "ready")], "acquire") :
        Write(s, k, row, rec)
  <2>1. got = IF a.ok THEN {tx[s].turn} ELSE {}
    BY <1>4
  <2>2. \E rec \in Onward([tx[s] EXCEPT !.to =
                               Moved(@, IF a.ok THEN {tx[s].turn} ELSE {}, "ready")], "acquire") :
          Write(s, k, a.row, rec)
    BY ONLY <1>1, <1>2, AcquireOne(s) DEF AcquireOne
  <2>3. QED
    BY <2>1, <2>2, Zenon
<1>6. PICK to \in Tos :
        /\ to = Moved(t.to, got, "ready")
        /\ \A j \in Jobs : to[j] = IF j \in got THEN "ready" ELSE t.to[j]
  <2>1. t.to \in Tos
    BY DEF Txs, Tos
  <2>2. QED
    BY <2>1, MovedTo
<1>7. PICK rec : rec \in Onward([t EXCEPT !.to = to], "acquire") /\ Write(s, k, row, rec)
  BY <1>5, <1>6
<1>8. GoesOn(t, to, "acquire", rec)
  <2>1. "acquire" \in Steps \ {"commit"}
    BY DEF Steps
  <2>2. QED
    BY <1>7, <2>1, OnwardMoved
<1>9. /\ rec.op = "promote" /\ rec.jobs = {} /\ rec.rows = t.rows /\ rec.to = to
      /\ Left(rec) = t.todo
      /\ rec.at = "commit" \/ (rec.at = "acquire" /\ rec.turn \notin rec.todo)
  BY <1>1, <1>8 DEF GoesOn
<1>10. Continues(s, k, rec)
  <2>1. \A j \in Jobs : Key[j] # k => rec.to[j] = t.to[j] /\ (j \in Left(t) => j \in Left(rec))
    <3>1. rec.to = to /\ Left(rec) = t.todo /\ Left(t) = t.todo \cup {x}
      BY <1>1, <1>9
    <3>2. QED
      BY <1>6, <3>1
  <2>2. QED
    BY <1>0, <1>1, <1>8, <1>9, <2>1 DEF Continues, GoesOn
<1>11. PICK n \in Txs : Wrote(s, k, row, rec, n)
  <2>1. Rest
    BY DEF AcquireOne
  <2>2. \E n : Wrote(s, k, row, rec, n)
    BY <1>4, <1>7, <1>10, <2>1, WriteTx
  <2>3. QED
    BY <2>2 DEF Wrote
<1>12. /\ n.op = "promote" /\ n.jobs = {} /\ n.rows = t.rows /\ n.to = to
       /\ Left(n) = t.todo /\ Locks(n) = Held(s) \cup {k}
       /\ n.at = "commit" \/ (n.at = "acquire" /\ n.turn \notin n.todo)
       /\ Free(s, k) /\ sem'[k] = row /\ Working(s, n, k) /\ Owned(s, n)
  BY <1>9, <1>11 DEF Wrote
<1>13. Shape(n)
  <2>1. Left(n) \subseteq n.rows
    BY <1>1, <1>12 DEF PromoteShape
  <2>2. \A j \in n.rows \ Left(n) : Key[j] \in Locks(n)
    BY <1>1, <1>12 DEF PromoteShape, Held, Locks
  <2>3. \A j \in Jobs : n.to[j] # "same" => n.to[j] = "ready" /\ j \in n.rows \ Left(n)
    <3>1. \A j \in Jobs : t.to[j] # "same" => t.to[j] = "ready" /\ j \in t.rows \ Left(t)
      BY <1>1 DEF PromoteShape
    <3>2. n.to = to /\ n.rows = t.rows /\ Left(n) = t.todo
      BY <1>12
    <3>3. Left(t) = t.todo \cup {x} /\ x \in t.rows \ t.todo
      BY <1>1
    <3>4. \A j \in got : j = x
      OBVIOUS
    <3>5. \A j \in Jobs : to[j] = IF j \in got THEN "ready" ELSE t.to[j]
      BY <1>6
    <3>6. QED
      BY ONLY <3>1, <3>2, <3>3, <3>4, <3>5
  <2>4. PromoteShape(n)
    BY <1>12, <2>1, <2>2, <2>3 DEF PromoteShape
  <2>5. QED
    BY <1>12, <2>4 DEF Shape
<1>14. t.to[x] = "same" /\ job[x] = "blocked"
  BY <1>1, TxOf DEF PromoteShape, Owned
<1>15. Balanced(row, After(n), k)
  <2>1. Balanced(sem[k], After(t), k)
    BY <1>0, <1>12, PromoteKey
  <2>2. Holders(After(n), k) = (Holders(After(t), k) \ {}) \cup got
    <3>1. \A j \in Jobs : /\ After(n)[j] = IF to[j] # "same" THEN to[j] ELSE job[j]
                          /\ After(t)[j] = IF t.to[j] # "same" THEN t.to[j] ELSE job[j]
      BY <1>1, <1>12 DEF After
    <3>2. \A j \in got : j = x
      OBVIOUS
    <3>3. ASSUME NEW j \in Jobs
          PROVE  After(n)[j] \in {"ready", "claimed"}
                   <=> After(t)[j] \in {"ready", "claimed"} \/ j \in got
      <4>1. to[j] = IF j \in got THEN "ready" ELSE t.to[j]
        BY <1>6
      <4>2. /\ After(n)[j] = IF to[j] # "same" THEN to[j] ELSE job[j]
            /\ After(t)[j] = IF t.to[j] # "same" THEN t.to[j] ELSE job[j]
        BY <3>1
      <4>3. QED
        BY ONLY <4>1, <4>2
    <3>4. QED
      BY <3>2, <3>3 DEF Holders, OfKey
  <2>3. got \cap Holders(After(t), k) = {}
    <3>1. After(t)[x] = "blocked"
      BY <1>1, <1>14 DEF After
    <3>2. QED
      BY <3>1 DEF Holders
  <2>4. Cardinality({}) = 0 /\ Cardinality({x}) = 1
    BY FS_EmptySet, FS_Singleton
  <2>5. row.value = sem[k].value + Cardinality({}) - Cardinality(got)
    <3>1. Cardinality(got) = IF sem[k].value > 0 THEN 1 ELSE 0
      BY <2>4
    <3>2. PICK v \in Nat : v = sem[k].value
      BY <1>3
    <3>3. row.value = IF v > 0 THEN v - 1 ELSE 0
      BY <1>4, <3>2
    <3>4. QED
      BY ONLY <2>4, <3>1, <3>2, <3>3
  <2>6. PICK S \in SUBSET Jobs : S = {}
    OBVIOUS
  <2>7. /\ S \subseteq Holders(After(t), k) /\ got \subseteq Jobs
        /\ Holders(After(n), k) = (Holders(After(t), k) \ S) \cup got
        /\ row.value = sem[k].value + Cardinality(S) - Cardinality(got)
    BY <2>2, <2>5, <2>6
  <2>8. QED
    BY ONLY k \in Keys, <1>3, <2>1, <2>3, <2>7, Rebalanced
<1>16. k \notin doubt /\ sem'[k].value > Spare(n) => Passes(s, n, k)
  <2> HAVE k \notin doubt /\ sem'[k].value > Spare(n)
  <2>1. row.value > 0
    BY <1>12 DEF Spare
  <2>2. sem[k].value > 0
    BY <1>3, <1>4, <2>1
  <2>3. Passes(s, t, k)
    BY <1>0, <1>12, <2>2, PromoteKey
  <2>4. ASSUME NEW j \in Blocked(k), n.to[j] = "same"
        PROVE  (\E u \in Sessions \ {s} : j \in tx[u].rows) \/ j \in Left(n)
    <3>1. j \in Jobs
      BY DEF Blocked, OfKey
    <3>2. t.to[j] = "same" /\ j # x
      BY <1>6, <1>12, <2>2, <2>4, <3>1
    <3>3. (\E u \in Sessions \ {s} : j \in tx[u].rows) \/ j \in Left(t)
      BY <2>3, <3>2 DEF Passes
    <3>4. QED
      BY <1>1, <1>12, <3>2, <3>3
  <2>5. QED
    BY <1>12, <2>4 DEF Passes
<1>17. QED
  BY <1>12, <1>13, <1>15, <1>16, Works

LEMMA AtMostOne ==
  ASSUME NEW S, S \subseteq Jobs, Cardinality(S) <= 1, S # {}
  PROVE  (\E x \in Jobs : S = {x}) /\ Cardinality(S) = 1
<1>1. IsFiniteSet(S) /\ Cardinality(S) \in Nat
  BY JobsFinite
<1>2. Cardinality(S) # 0
  BY <1>1, FS_EmptySet
<1>3. Cardinality(S) = 1
  BY <1>1, <1>2
<1>4. PICK x : S = {x}
  BY <1>1, <1>3, FS_Singleton
<1>5. QED
  BY <1>3, <1>4

LEMMA FirstLookStep == ASSUME IInv, NEW s \in Sessions, FirstLook(s) PROVE IInv'
<1> PICK t \in Txs : t = tx[s]
  BY TxOf
<1>0. t.at = "first look" /\ sem' = sem /\ Rest
  BY DEF FirstLook
<1>1. PICK c \in Jobs : Completes(s, c)
  BY <1>0, CompleteTurn
<1> PICK k \in Keys : k = Key[c]
  OBVIOUS
<1>2. /\ t.op = "complete" /\ t.jobs = {c} /\ t.turn = k /\ Want(s) = k
      /\ t.rows = {} /\ Locks(t) = {} /\ Untouched(t)
  BY <1>0, <1>1 DEF Completes, CompleteShape
<1>3. PICK S : /\ S \in Picks(s, k, 1)
               /\ tx' = [tx EXCEPT ![s].at = IF S = {} THEN "release" ELSE "hand over",
                                   ![s].rows = S]
  BY <1>2 DEF FirstLook
<1>4. /\ S \in SUBSET Jobs /\ Cardinality(S) <= 1
      /\ \A j \in S : job[j] = "blocked" /\ Key[j] = k /\ j \notin LockedByOthers(s)
  <2>1. S \in Picks(s, k, 1)
    BY <1>3
  <2>2. QED
    BY <2>1, PicksSet
<1>5. S # {} => \E x \in Jobs : S = {x}
  BY <1>4, AtMostOne
<1> DEFINE at == IF S = {} THEN "release" ELSE "hand over"
           n == [t EXCEPT !.at = at, !.rows = S]
<1>6. tx' = [tx EXCEPT ![s] = n]
  BY <1>3 DEF IInv, Typed
<1>7. at \in Steps /\ at # "commit"
  BY DEF Steps
<1> HIDE DEF at
<1>8. /\ n \in Txs /\ n.op = t.op /\ n.at = at /\ n.jobs = t.jobs /\ n.todo = t.todo
      /\ n.turn = t.turn /\ n.rows = S /\ n.to = t.to /\ n.before = t.before
  BY <1>4, <1>7 DEF Txs
<1> HIDE DEF n
<1>9. Continues(s, k, n)
  BY <1>0, <1>2, <1>4, <1>8 DEF Continues
<1>10. Working(s, n, k) /\ Owned(s, n) /\ Locks(n) = Held(s)
  BY <1>0, <1>6, <1>9, LookTx
<1>11. Locks(n) = {} /\ Untouched(n)
  BY <1>2, <1>8, <1>10 DEF Locks, Held, Untouched
<1>12. Shape(n)
  <2>1. CompleteShape(n)
    BY <1>2, <1>4, <1>5, <1>8, <1>11 DEF CompleteShape, at
  <2>2. QED
    BY <1>2, <1>8, <2>1 DEF Shape
<1>13. QED
  BY <1>8, <1>10, <1>11, <1>12, Works

\* The states of the jobs of its key once a completion of c has committed, with
\* the waiters in S dispatched.
LEMMA CompletedHolders ==
  ASSUME IInv, NEW c \in Jobs, job[c] = "claimed", NEW n, n.jobs = {c},
         NEW S \in SUBSET Jobs, \A j \in S : job[j] = "blocked" /\ Key[j] = Key[c],
         \A j \in Jobs : n.to[j] = IF j \in S THEN "ready" ELSE "same"
  PROVE  /\ Holders(After(n), Key[c]) = (Holders(job, Key[c]) \ {c}) \cup S
         /\ {c} \subseteq Holders(job, Key[c]) /\ S \cap Holders(job, Key[c]) = {}
<1>1. \A j \in Jobs : After(n)[j] = IF j \in S THEN "ready"
                                    ELSE IF j = c THEN "gone" ELSE job[j]
  BY DEF After
<1>2. c \notin S
  OBVIOUS
<1>3. QED
  BY <1>1, <1>2 DEF Holders, OfKey

LEMMA HandOverStep == ASSUME IInv, NEW s \in Sessions, HandOver(s) PROVE IInv'
<1> PICK t \in Txs : t = tx[s]
  BY TxOf
<1>0. t.at = "hand over" /\ Rest
  BY DEF HandOver
<1>1. PICK c \in Jobs : Completes(s, c)
  BY <1>0, CompleteTurn
<1> PICK k \in Keys : k = Key[c]
  OBVIOUS
<1>2. /\ t.op = "complete" /\ t.jobs = {c} /\ t.turn = k /\ Want(s) = k
      /\ Locks(t) = {} /\ Untouched(t) /\ job[c] = "claimed"
      /\ \E x \in Jobs : t.rows = {x}
      /\ \A j \in t.rows : Key[j] = k
  BY <1>0, <1>1 DEF Completes, CompleteShape
<1>3. PICK x \in Jobs : t.rows = {x} /\ Key[x] = k /\ job[x] = "blocked"
  <2>1. \A j \in t.rows : job[j] = "blocked"
    BY TxOf DEF Owned
  <2>2. QED
    BY <1>2, <2>1
<1>4. PICK row : row = Handoff(sem[k], Limit[k])
  OBVIOUS
<1>5. PICK to \in Tos : /\ to = Moved(t.to, t.rows, "ready")
                        /\ \A j \in Jobs : to[j] = IF j \in {x} THEN "ready" ELSE "same"
  <2>1. t.to \in Tos /\ \A j \in Jobs : t.to[j] = "same"
    BY <1>2 DEF Txs, Tos, Untouched
  <2>2. QED
    BY <1>3, <2>1, MovedTo
<1> DEFINE rec == [t EXCEPT !.at = "commit", !.to = to]
<1>6. Write(s, k, row, rec)
  BY <1>2, <1>4, <1>5 DEF HandOver
<1>7. /\ rec \in Txs /\ rec.op = t.op /\ rec.at = "commit" /\ rec.jobs = t.jobs
      /\ rec.turn = t.turn /\ rec.rows = t.rows /\ rec.to = to /\ rec.before = t.before
  BY DEF Txs, Steps, Tos
<1> HIDE DEF rec
<1>8. Held(s) = {} /\ Free(s, k)
  BY <1>2, <1>6 DEF Held, Locks, Write
<1>9. /\ Balanced(sem[k], job, k) /\ GoodRow(sem[k], k) /\ sem[k].value \in Nat
      /\ {c} \subseteq Holders(job, k)
  <2>1. {c} \subseteq Holders(job, k)
    BY <1>2 DEF Holders, OfKey
  <2>2. QED
    BY <1>8, <2>1, FreeKey, GoodSem, RowLimit
<1>10. Cardinality({c}) = 1 /\ Cardinality({x}) = 1
  BY FS_Singleton
<1>11. GoodRow(row, k) /\ row.value = sem[k].value
  <2>1. sem[k].value + 1 <= Limit[k]
    BY <1>9, <1>10, Room
  <2>2. QED
    BY <1>4, <1>9, <2>1, ReleaseRow
<1>12. Continues(s, k, rec)
  <2>1. \A j \in Jobs : Key[j] # k => rec.to[j] = t.to[j]
    <3>1. rec.to = to /\ Key[x] = k /\ \A j \in Jobs : t.to[j] = "same"
      BY <1>2, <1>3, <1>7 DEF Untouched
    <3>2. QED
      BY <1>5, <3>1
  <2>2. QED
    BY <1>0, <1>2, <1>7, <2>1 DEF Continues
<1>13. PICK n \in Txs : Wrote(s, k, row, rec, n)
  <2>1. \E n : Wrote(s, k, row, rec, n)
    BY <1>0, <1>6, <1>11, <1>12, WriteTx
  <2>2. QED
    BY <2>1 DEF Wrote
<1>14. /\ n.op = "complete" /\ n.at = "commit" /\ n.jobs = {c} /\ n.turn = k
       /\ n.rows = {x} /\ n.to = to /\ Locks(n) = {k}
       /\ sem'[k] = row /\ Working(s, n, k) /\ Owned(s, n)
  BY <1>2, <1>3, <1>7, <1>8, <1>13 DEF Wrote
<1>15. Shape(n)
  <2>1. CompleteShape(n)
    BY <1>3, <1>5, <1>14 DEF CompleteShape
  <2>2. QED
    BY <1>14, <2>1 DEF Shape
<1>16. Balanced(row, After(n), k)
  <2>1. /\ Holders(After(n), k) = (Holders(job, k) \ {c}) \cup {x}
        /\ {x} \cap Holders(job, k) = {}
    <3>1. PICK S \in SUBSET Jobs : S = {x}
      OBVIOUS
    <3>2. \A j \in S : job[j] = "blocked" /\ Key[j] = Key[c]
      BY <1>3, <3>1
    <3>3. n.jobs = {c} /\ \A j \in Jobs : n.to[j] = IF j \in S THEN "ready" ELSE "same"
      BY <1>5, <1>14, <3>1
    <3>4. /\ Holders(After(n), Key[c]) = (Holders(job, Key[c]) \ {c}) \cup S
          /\ S \cap Holders(job, Key[c]) = {}
      BY <1>2, <3>2, <3>3, CompletedHolders
    <3>5. QED
      BY <3>1, <3>4
  <2>2. row.value = sem[k].value + Cardinality({c}) - Cardinality({x})
    BY <1>9, <1>10, <1>11
  <2>3. QED
    BY <1>9, <2>1, <2>2, Rebalanced
<1>17. k \notin doubt /\ sem'[k].value > Spare(n) => Passes(s, n, k)
  <2> HAVE k \notin doubt /\ sem'[k].value > Spare(n)
  <2>1. sem[k].value > 0
    BY <1>11, <1>14 DEF Spare
  <2>2. \A j \in Blocked(k) : Taken(j) /\ j \in Jobs
    BY <1>8, <2>1, FreeKey DEF Blocked, OfKey
  <2>3. \A j \in Blocked(k) : n.to[j] = "same" => \E u \in Sessions \ {s} : j \in tx[u].rows
    BY <1>3, <1>5, <1>14, <2>2 DEF Taken
  <2>4. \A j \in n.jobs : n.to[j] # "blocked"
    BY <1>5, <1>14
  <2>5. QED
    BY <2>3, <2>4 DEF Passes
<1>18. QED
  BY <1>14, <1>15, <1>16, <1>17, Works

LEMMA ReleaseOneStep == ASSUME IInv, NEW s \in Sessions, ReleaseOne(s) PROVE IInv'
<1> PICK t \in Txs : t = tx[s]
  BY TxOf
<1>0. t.at = "release" /\ Rest
  BY DEF ReleaseOne
<1>1. PICK c \in Jobs : Completes(s, c)
  BY <1>0, CompleteTurn
<1> PICK k \in Keys : k = Key[c]
  OBVIOUS
<1>2. /\ t.op = "complete" /\ t.jobs = {c} /\ t.turn = k /\ Want(s) = k
      /\ t.rows = {} /\ Locks(t) = {} /\ Untouched(t) /\ job[c] = "claimed"
  BY <1>0, <1>1 DEF Completes, CompleteShape
<1>3. PICK row : row = Release(sem[k], Limit[k])
  OBVIOUS
<1> DEFINE rec == [t EXCEPT !.at = "second look"]
<1>4. Write(s, k, row, rec)
  BY <1>2, <1>3 DEF ReleaseOne
<1>5. /\ rec \in Txs /\ rec.op = t.op /\ rec.at = "second look" /\ rec.jobs = t.jobs
      /\ rec.turn = t.turn /\ rec.rows = t.rows /\ rec.to = t.to /\ rec.before = t.before
  BY DEF Txs, Steps
<1> HIDE DEF rec
<1>6. Held(s) = {} /\ Free(s, k)
  BY <1>2, <1>4 DEF Held, Locks, Write
<1>7. /\ Balanced(sem[k], job, k) /\ GoodRow(sem[k], k) /\ sem[k].value \in Nat
      /\ {c} \subseteq Holders(job, k)
  <2>1. {c} \subseteq Holders(job, k)
    BY <1>2 DEF Holders, OfKey
  <2>2. QED
    BY <1>6, <2>1, FreeKey, GoodSem, RowLimit
<1>8. Cardinality({c}) = 1 /\ Cardinality({}) = 0
  BY FS_Singleton, FS_EmptySet
<1>9. GoodRow(row, k) /\ row.value = sem[k].value + 1
  <2>1. sem[k].value + 1 <= Limit[k]
    BY <1>7, <1>8, Room
  <2>2. QED
    BY <1>3, <1>7, <2>1, ReleaseRow
<1>10. Continues(s, k, rec)
  BY <1>0, <1>2, <1>5 DEF Continues
<1>11. PICK n \in Txs : Wrote(s, k, row, rec, n)
  <2>1. \E n : Wrote(s, k, row, rec, n)
    BY <1>0, <1>4, <1>9, <1>10, WriteTx
  <2>2. QED
    BY <2>1 DEF Wrote
<1>12. /\ n.op = "complete" /\ n.at = "second look" /\ n.jobs = {c} /\ n.turn = k
       /\ n.rows = {} /\ n.to = t.to /\ Locks(n) = {k}
       /\ sem'[k] = row /\ Working(s, n, k) /\ Owned(s, n)
  BY <1>2, <1>5, <1>6, <1>11 DEF Wrote
<1>13. \A j \in Jobs : n.to[j] = "same"
  BY <1>2, <1>12 DEF Untouched
<1>14. Shape(n)
  <2>1. CompleteShape(n)
    BY <1>12, <1>13 DEF CompleteShape, Untouched
  <2>2. QED
    BY <1>12, <2>1 DEF Shape
<1>15. Balanced(row, After(n), k)
  <2>1. Holders(After(n), k) = (Holders(job, k) \ {c}) \cup {}
    <3>1. \A j \in Jobs : After(n)[j] = IF j = c THEN "gone" ELSE job[j]
      BY <1>12, <1>13 DEF After
    <3>2. "gone" \notin {"ready", "claimed"}
      OBVIOUS
    <3>3. QED
      BY ONLY <3>1, <3>2 DEF Holders, OfKey
  <2>2. row.value = sem[k].value + Cardinality({c}) - Cardinality({})
    BY <1>7, <1>8, <1>9
  <2>3. {} \subseteq Jobs /\ {} \cap Holders(job, k) = {}
    OBVIOUS
  <2>4. QED
    BY <1>7, <2>1, <2>2, <2>3, Rebalanced
<1>16. k \notin doubt /\ sem'[k].value > Spare(n) => Passes(s, n, k)
  <2> HAVE k \notin doubt /\ sem'[k].value > Spare(n)
  <2>1. row.value > 1
    BY <1>12 DEF Spare
  <2>2. sem[k].value > 0
    BY <1>7, <1>9, <2>1
  <2>3. \A j \in Blocked(k) : Taken(j)
    BY <1>6, <2>2, FreeKey
  <2>4. \A j \in Blocked(k) : \E u \in Sessions \ {s} : j \in tx[u].rows
    BY <1>2, <2>3 DEF Taken
  <2>5. \A j \in n.jobs : n.to[j] # "blocked"
    BY <1>12, <1>13
  <2>6. QED
    BY <2>4, <2>5 DEF Passes
<1>17. QED
  BY <1>12, <1>14, <1>15, <1>16, Works

LEMMA SecondLookStep == ASSUME IInv, NEW s \in Sessions, SecondLook(s) PROVE IInv'
<1> PICK t \in Txs : t = tx[s]
  BY TxOf
<1>0. t.at = "second look" /\ Rest
  BY DEF SecondLook
<1>1. PICK c \in Jobs : Completes(s, c)
  BY <1>0, CompleteTurn
<1> PICK k \in Keys : k = Key[c]
  OBVIOUS
<1>2. /\ t.op = "complete" /\ t.jobs = {c} /\ t.turn = k /\ Want(s) = k
      /\ t.rows = {} /\ Locks(t) = {k} /\ Held(s) = {k} /\ job[c] = "claimed"
      /\ \A j \in Jobs : t.to[j] = "same"
  BY <1>0, <1>1 DEF Completes, CompleteShape, Untouched, Held, Locks
<1>3. PICK S : /\ S \in Picks(s, k, 1)
               /\ IF S # {} /\ ConsumeOK(sem[k])
                  THEN Write(s, k, ConsumeReleased(sem[k], Limit[k]),
                             [t EXCEPT !.at = "commit", !.rows = S, !.to = Moved(@, S, "ready")])
                  ELSE Goto(s, "commit") /\ sem' = sem
  BY <1>2 DEF SecondLook
<1>4. /\ S \in SUBSET Jobs /\ Cardinality(S) <= 1
      /\ \A j \in S : /\ job[j] = "blocked" /\ Key[j] = k /\ t.to[j] = "same"
                      /\ j \notin LockedByOthers(s)
      /\ S = {} => \A j \in Blocked(k) : t.to[j] = "same" =>
                     \E u \in Sessions \ {s} : j \in tx[u].rows
  <2>1. S \in Picks(s, k, 1)
    BY <1>3
  <2>2. QED
    BY <2>1, PicksSet
<1>5. GoodRow(sem[k], k) /\ sem[k].value \in Nat /\ sem[k] # NoRow
  BY GoodSem, RowLimit
<1>6. /\ Balanced(sem[k], After(t), k)
      /\ k \notin doubt /\ sem[k].value > 1 => Passes(s, t, k)
  BY <1>0, <1>2 DEF IInv, Books, NoneLeft, Spare
<1>7. CASE S # {} /\ ConsumeOK(sem[k])
  <2>1. Cardinality(S) = 1
    BY <1>4, <1>7, AtMostOne
  <2>2. PICK row : row = ConsumeReleased(sem[k], Limit[k])
    OBVIOUS
  <2>3. sem[k].value > 0 /\ GoodRow(row, k) /\ row.value = sem[k].value - 1
    BY <1>5, <1>7, <2>2, ConsumeRow DEF ConsumeOK
  <2>4. PICK to \in Tos : /\ to = Moved(t.to, S, "ready")
                          /\ \A j \in Jobs : to[j] = IF j \in S THEN "ready" ELSE "same"
    <3>1. t.to \in Tos
      BY DEF Txs, Tos
    <3>2. QED
      BY <1>2, <3>1, MovedTo
  <2> DEFINE rec == [t EXCEPT !.at = "commit", !.rows = S, !.to = to]
  <2>5. Write(s, k, row, rec)
    BY <1>3, <1>7, <2>2, <2>4
  <2>6. /\ rec \in Txs /\ rec.op = t.op /\ rec.at = "commit" /\ rec.jobs = t.jobs
        /\ rec.turn = t.turn /\ rec.rows = S /\ rec.to = to /\ rec.before = t.before
    BY <1>4 DEF Txs, Steps, Tos
  <2> HIDE DEF rec
  <2>7. Continues(s, k, rec)
    <3>1. \A j \in Jobs : Key[j] # k => rec.to[j] = t.to[j]
      <4>1. rec.to = to /\ \A j \in S : Key[j] = k
        BY <1>4, <2>6
      <4>2. QED
        BY <1>2, <2>4, <4>1
    <3>2. QED
      BY <1>2, <1>4, <2>6, <3>1 DEF Continues
  <2>8. PICK n \in Txs : Wrote(s, k, row, rec, n)
    <3>1. \E n : Wrote(s, k, row, rec, n)
      BY <1>0, <2>3, <2>5, <2>7, WriteTx
    <3>2. QED
      BY <3>1 DEF Wrote
  <2>9. /\ n.op = "complete" /\ n.at = "commit" /\ n.jobs = {c} /\ n.turn = k
        /\ n.rows = S /\ n.to = to /\ Locks(n) = {k}
        /\ sem'[k] = row /\ Working(s, n, k) /\ Owned(s, n)
    BY <1>2, <2>6, <2>8 DEF Wrote
  <2>10. Shape(n)
    <3>1. CompleteShape(n)
      BY <1>4, <2>4, <2>9 DEF CompleteShape
    <3>2. QED
      BY <2>9, <3>1 DEF Shape
  <2>11. Balanced(row, After(n), k)
    <3>1. /\ Holders(After(n), k) = (Holders(After(t), k) \ {}) \cup S
          /\ S \cap Holders(After(t), k) = {}
      <4>1. \A j \in Jobs : /\ After(n)[j] = IF j \in S THEN "ready"
                                             ELSE IF j = c THEN "gone" ELSE job[j]
                            /\ After(t)[j] = IF j = c THEN "gone" ELSE job[j]
        BY <1>2, <2>4, <2>9 DEF After
      <4>2. \A j \in S : j \in Jobs /\ job[j] = "blocked" /\ Key[j] = k
        BY <1>4
      <4>3. QED
        BY <4>1, <4>2 DEF Holders, OfKey
    <3>2. Cardinality({}) = 0
      BY FS_EmptySet
    <3>3. row.value = sem[k].value + Cardinality({}) - Cardinality(S)
      BY <1>5, <2>1, <2>3, <3>2
    <3>4. {} \subseteq Holders(After(t), k) /\ S \subseteq Jobs
      BY <1>4
    <3>5. QED
      BY <1>5, <1>6, <3>1, <3>3, <3>4, Rebalanced
  <2>12. k \notin doubt /\ sem'[k].value > Spare(n) => Passes(s, n, k)
    <3> HAVE k \notin doubt /\ sem'[k].value > Spare(n)
    <3>1. row.value > 0
      BY <2>9 DEF Spare
    <3>2. sem[k].value > 1
      BY <1>5, <2>3, <3>1
    <3>3. Passes(s, t, k)
      BY <1>6, <3>2
    <3>4. \A j \in Blocked(k) : \E u \in Sessions \ {s} : j \in tx[u].rows
      BY <1>2, <3>3 DEF Passes, Blocked, OfKey
    <3>5. \A j \in n.jobs : n.to[j] # "blocked"
      BY <2>4, <2>9
    <3>6. QED
      BY <3>4, <3>5 DEF Passes
  <2>13. QED
    BY <2>9, <2>10, <2>11, <2>12, Works
<1>8. CASE ~(S # {} /\ ConsumeOK(sem[k]))
  <2> DEFINE n == [t EXCEPT !.at = "commit"]
  <2>1. tx' = [tx EXCEPT ![s] = n] /\ sem' = sem
    BY <1>3, <1>8 DEF Goto, IInv, Typed
  <2>2. /\ n \in Txs /\ n.op = t.op /\ n.at = "commit" /\ n.jobs = t.jobs
        /\ n.turn = t.turn /\ n.rows = t.rows /\ n.to = t.to /\ n.before = t.before
    BY DEF Txs, Steps
  <2> HIDE DEF n
  <2>3. Continues(s, k, n)
    BY <1>2, <2>2 DEF Continues
  <2>4. Working(s, n, k) /\ Owned(s, n) /\ Locks(n) = {k}
    <3>1. Rest /\ Held(s) = {k}
      BY <1>0, <1>2
    <3>2. Working(s, n, k) /\ Owned(s, n) /\ Locks(n) = Held(s)
      BY <2>1, <2>3, <3>1, LookTx
    <3>3. QED
      BY <3>1, <3>2
  <2>5. Shape(n)
    <3>1. CompleteShape(n)
      BY <1>2, <2>2, <2>4 DEF CompleteShape
    <3>2. QED
      BY <1>2, <2>2, <3>1 DEF Shape
  <2>6. Balanced(sem'[k], After(n), k)
    <3>1. After(n) = After(t)
      BY <2>2 DEF After
    <3>2. QED
      BY <1>6, <2>1, <3>1
  <2>7. sem'[k].value > Spare(n) => Passes(s, n, k)
    <3> HAVE sem'[k].value > Spare(n)
    <3>1. sem[k].value > 0
      BY <2>1, <2>2 DEF Spare
    <3>2. S = {}
      BY <1>5, <1>8, <3>1 DEF ConsumeOK
    <3>3. \A j \in Blocked(k) : \E u \in Sessions \ {s} : j \in tx[u].rows
      BY <1>2, <1>4, <3>2 DEF Blocked, OfKey
    <3>4. \A j \in n.jobs : n.to[j] # "blocked"
      BY <1>2, <2>2
    <3>5. QED
      BY <3>3, <3>4 DEF Passes
  <2>8. QED
    BY <2>2, <2>4, <2>5, <2>6, <2>7, Works
<1>9. QED
  BY <1>7, <1>8

-----------------------------------------------------------------------------
LEMMA NextIInv == IInv /\ [Next]_vars => IInv'
<1> SUFFICES ASSUME IInv, [Next]_vars PROVE IInv'
  OBVIOUS
<1>1. ASSUME NEW s \in Sessions, Statement(s) PROVE IInv'
  BY <1>1, AcquireGroupStep, PickGroupStep, ReleaseGroupStep, AcquireOneStep,
     FirstLookStep, HandOverStep, ReleaseOneStep, SecondLookStep, CommitStep
     DEF Statement
<1>2. ASSUME NEW s \in Sessions,
             \/ \E S \in SUBSET In("new") : Enqueue(s, S)
             \/ \E S \in SUBSET In("claimed") : Recover(s, S)
             \/ \E S \in SUBSET In("blocked") : Promote(s, S)
             \/ \E j \in In("claimed") : Complete(s, j)
      PROVE  IInv'
  BY <1>2, BeginActions
<1>3. ASSUME NEW s \in Sessions, Deadlock(s) \/ Crash(s) PROVE IInv'
  BY <1>3, DeadlockStep, CrashStep
<1>4. ASSUME NEW j \in Jobs, Claim(j) PROVE IInv'
  BY <1>4, ClaimStep
<1>5. CASE UNCHANGED vars
  <2>1. job' = job /\ sem' = sem /\ tx' = tx /\ doubt' = doubt
    BY <1>5 DEF vars
  <2>2. Typed' /\ Shapes' /\ Exclusive'
    BY <2>1 DEF IInv, Typed, GoodRow, Held, Shapes, Exclusive, Owned
  <2>3. Books'
    <3>1. \A s \in Sessions : Held(s)' = Held(s) /\ After(tx[s])' = After(tx[s])
      BY <2>1 DEF Held, After
    <3>2. \A k : Unlocked(k)' <=> Unlocked(k)
      BY <3>1 DEF Unlocked
    <3>3. \A r, f, k : Balanced(r, f, k)' <=> Balanced(r, f, k)
      BY DEF Balanced, Holders, OfKey
    <3>4. QED
      BY <2>1, <3>1, <3>2, <3>3 DEF IInv, Books
  <2>4. NoneLeft'
    BY <2>1 DEF IInv, NoneLeft, Unlocked, Held, Blocked, OfKey, Taken, Passes
  <2>5. QED
    BY <2>2, <2>3, <2>4 DEF IInv
<1>6. QED
  BY <1>1, <1>2, <1>3, <1>4, <1>5 DEF Next

\* What holds of the transactions in progress, of the books of every key and of
\* its waiters.
THEOREM InductiveInvariant == Spec => []IInv
<1>1. QED
  BY InitIInv, NextIInv, PTL DEF Spec

\* Between transactions every slot is free or held by exactly one job, however
\* the statements of enqueues, completions, recoveries and promotions interleave
\* and whichever of them are aborted, retried or lost.
THEOREM SlotsAddUpAlways == Spec => []SlotsAddUp
<1>1. IInv => SlotsAddUp
  <2> SUFFICES ASSUME IInv, AtRest, NEW k \in Keys
               PROVE  sem[k].value + Cardinality({j \in OfKey(Jobs, k) :
                                       job[j] \in {"ready", "claimed"}}) = Limit[k]
    BY DEF SlotsAddUp
  <2>1. Unlocked(k)
    BY TxOf DEF Unlocked, AtRest, Shape, Held, Locks
  <2>2. QED
    BY <2>1 DEF IInv, Books, Balanced, Holders
<1>2. QED
  BY <1>1, InductiveInvariant, PTL

\* A free slot never stays beside a waiter of its key, unless a recovery or an
\* aborted transaction left it there.
THEOREM NoIdleSlotBesideWaiterAlways == Spec => []NoIdleSlotBesideWaiter
<1>1. IInv => NoIdleSlotBesideWaiter
  <2> SUFFICES ASSUME IInv, AtRest, NEW k \in Keys \ doubt, Idle(k) PROVE FALSE
    BY DEF NoIdleSlotBesideWaiter
  <2>1. \A s \in Sessions : k \notin Held(s) /\ tx[s].rows = {}
    BY TxOf DEF AtRest, Shape, Held, Locks
  <2>2. \A j \in Blocked(k) : Taken(j)
    BY <2>1 DEF IInv, NoneLeft, Unlocked, Idle
  <2>3. QED
    BY <2>1, <2>2 DEF Taken, Idle
<1>2. QED
  BY <1>1, InductiveInvariant, PTL

\* With SKIP LOCKED a completion waits only for the semaphore of its key, and
\* has locked nothing then that another waits for: no cycle goes through it.
THEOREM CompletionNeverInCycleAlways ==
  ASSUME SkipsLocked
  PROVE  Spec => []CompletionNeverInCycle
<1>1. IInv => CompletionNeverInCycle
  <2> SUFFICES ASSUME IInv, NEW s \in Sessions, tx[s].op = "complete", InCycle(s)
               PROVE  FALSE
    BY DEF CompletionNeverInCycle
  <2>1. CompleteShape(tx[s])
    BY TxOf DEF Shape
  <2>2. tx[s].at \in {"hand over", "release"}
    <3>1. tx[s].at \in {"first look", "release", "hand over", "second look", "commit"}
      BY <2>1 DEF CompleteShape
    <3>2. PICK t \in WaitsFor(s) : TRUE
      BY DEF InCycle
    <3>3. QED
      BY <3>1, <3>2 DEF WaitsFor
  <2>3. Held(s) = {}
    BY <2>1, <2>2 DEF CompleteShape, Held, Locks
  <2>4. \A t \in Sessions : s \notin WaitsFor(t)
    BY <2>3 DEF WaitsFor
  <2>5. PICK R \in SUBSET Sessions : R = Sessions \ {s}
    OBVIOUS
  <2>6. \A t \in R \cup {s} : WaitsFor(t) \subseteq R
    BY <2>4, <2>5 DEF WaitsFor
  <2>7. s \in R
    BY <2>6 DEF InCycle
  <2>8. QED
    BY <2>5, <2>7
<1>2. QED
  BY <1>1, InductiveInvariant, PTL

============================================================================
