------------------------- MODULE QueueControlProofs -------------------------
(***************************************************************************)
(* Proofs about QueueControl, for any rows, queues, workers and callers,   *)
(* and for as long as the clock runs: a pause that has returned lets no    *)
(* claim through, and pauses do not count as latency.                      *)
(*                                                                         *)
(* Which rows a query selects plays no part in it, only that they are rows *)
(* it was given.                                                           *)
(***************************************************************************)
EXTENDS QueueControl, TLAPS

Claims ==
  [pc : {"idle", "selecting", "locked", "checked"},
   rows : SUBSET Rows, paused : SUBSET Queues, limit : Nat]

Calls ==
  [pc : {"idle", "pausing", "draining", "resuming"},
   queue : Queues \cup {NoQueue}, rows : SUBSET Rows, at : Nat]

\* The states the variables range over.
Typed ==
  /\ clock \in Nat
  /\ queued \subseteq Rows /\ ready \subseteq queued
  /\ started \in [Rows -> Int]
  /\ waited \in [Rows -> Nat \cup {Unknown}]
  /\ pausedAt \in [Queues -> Nat \cup {NotPaused}]
  /\ worker \in [Workers -> Claims]
  /\ operator \in [Operators -> Calls]
  /\ \A o \in Operators : operator[o].pc # "idle" => operator[o].queue \in Queues
  /\ lasting \subseteq Operators
  /\ closed \subseteq Queues

-----------------------------------------------------------------------------
(* The argument for PausedMeansPaused. *)

\* A row is locked by one claim, and is ready while it is.
LocksReadyRows ==
  \A w \in Workers, x \in Rows : HoldsRow(w, x) =>
    /\ x \in ready
    /\ \A v \in Workers : HoldsRow(v, x) => v = w

\* A pause that was not resumed is there, returned or not.
PausesLast ==
  /\ \A q \in closed : Paused(q)
  /\ \A o \in lasting : /\ operator[o].pc \in {"pausing", "draining"}
                        /\ Paused(operator[o].queue)

\* What a claim is about to take of a queue whose pause has not returned, that
\* pause waits for.
WaitedFor ==
  \A w \in Workers, x \in Rows :
    worker[w].pc = "checked" /\ x \in worker[w].rows =>
      /\ Queue[x] \notin closed
      /\ \A o \in lasting :
           operator[o].pc = "draining" /\ operator[o].queue = Queue[x]
             => x \in operator[o].rows

ClaimInv == LocksReadyRows /\ PausesLast /\ WaitedFor

-----------------------------------------------------------------------------
(* The argument for LatencyExcludesPauses. *)

\* A resume has the pause row to itself.
ResumesAlone ==
  \A o \in Operators : operator[o].pc = "resuming" =>
    /\ Paused(operator[o].queue)
    /\ \A p \in Operators :
         operator[p].pc = "resuming" /\ operator[p].queue = operator[o].queue
           => p = o

\* Nothing recorded is later than now.
InThePast ==
  /\ \A x \in ready : started[x] <= clock
  /\ \A q \in Queues : pausedAt[q] <= clock
  /\ \A o \in Operators : operator[o].at <= clock

\* While the queue of a row is paused, the row has waited until the pause
\* began, or not at all.
WaitedUntilPause ==
  \A x \in ready : Paused(Queue[x]) /\ waited[x] # Unknown =>
    waited[x] = IF started[x] < pausedAt[Queue[x]]
                THEN pausedAt[Queue[x]] - started[x] ELSE 0

LatencyInv ==
  ResumesAlone /\ InThePast /\ WaitedUntilPause /\ LatencyExcludesPauses

IInv == Typed /\ ClaimInv /\ LatencyInv

USE QueueSelectionAssumption, QueueControlAssumption

-----------------------------------------------------------------------------
LEMMA InitIInv == Init => IInv
<1> SUFFICES ASSUME Init PROVE IInv
  OBVIOUS
<1>1. IdleWorker \in Claims /\ IdleOperator \in Calls
  BY DEF IdleWorker, IdleOperator, Claims, Calls
<1>2. Typed
  BY <1>1 DEF Init, Typed, IdleOperator
<1>3. ClaimInv
  BY DEF Init, ClaimInv, LocksReadyRows, PausesLast, WaitedFor, HoldsRow, IdleWorker
<1>4. LatencyInv
  BY DEF Init, LatencyInv, ResumesAlone, InThePast, WaitedUntilPause, IdleOperator,
         LatencyExcludesPauses, NotPaused
<1>5. QED
  BY <1>2, <1>3, <1>4 DEF IInv

-----------------------------------------------------------------------------
(* Claims.                                                                 *)

\* A claim goes on, without writing to the tables: it may hold ready rows that
\* nobody else holds, and after its second look none of a paused queue.
LEMMA ClaimGoesOn ==
  ASSUME IInv, NEW w \in Workers, NEW c \in Claims,
         worker' = [worker EXCEPT ![w] = c],
         UNCHANGED <<clock, queued, ready, claimed, started, pausedAt, operator,
                     lasting, closed, waited>>,
         c.pc \in {"locked", "checked"} =>
           c.rows \subseteq ready
             /\ \A v \in Workers \ {w}, x \in c.rows : ~HoldsRow(v, x),
         c.pc = "checked" => \A x \in c.rows : ~Paused(Queue[x])
  PROVE  IInv'
<1>1. Typed'
  BY DEF IInv, Typed
<1>2. \A v \in Workers : worker'[v] = IF v = w THEN c ELSE worker[v]
  BY DEF IInv, Typed
<1>3. LocksReadyRows'
  <2>1. ASSUME NEW v \in Workers, NEW x \in Rows, HoldsRow(v, x)'
        PROVE  /\ v = w => x \in c.rows /\ c.pc \in {"locked", "checked"}
               /\ v # w => HoldsRow(v, x)
    BY <1>2, <2>1 DEF HoldsRow
  <2>2. QED
    BY <2>1 DEF IInv, ClaimInv, LocksReadyRows
<1>4. PausesLast'
  BY DEF IInv, ClaimInv, PausesLast, Paused
<1>5. WaitedFor'
  <2>1. ASSUME NEW v \in Workers, NEW x \in Rows,
               worker'[v].pc = "checked", x \in worker'[v].rows
        PROVE  /\ Queue[x] \notin closed
               /\ \A o \in lasting :
                    operator[o].pc = "draining" /\ operator[o].queue = Queue[x]
                      => x \in operator[o].rows
    BY <1>2, <2>1 DEF IInv, ClaimInv, WaitedFor, PausesLast
  <2>2. QED
    BY <2>1 DEF WaitedFor
<1>6. LatencyInv'
  BY DEF IInv, LatencyInv, ResumesAlone, InThePast, WaitedUntilPause,
         LatencyExcludesPauses, Paused
<1>7. QED
  BY <1>1, <1>3, <1>4, <1>5, <1>6 DEF IInv, ClaimInv

LEMMA ClaimEnds == IdleWorker \in Claims /\ IdleWorker.pc = "idle"
BY DEF IdleWorker, Claims

LEMMA StartClaimStep ==
  ASSUME IInv, NEW w \in Workers, NEW limit \in Limits, StartClaim(w, limit)
  PROVE  IInv'
<1> DEFINE c == [pc |-> "selecting", limit |-> limit, paused |-> {},
                 rows |-> {x \in ready : ~Paused(Queue[x])}]
<1>1. c \in Claims /\ c.pc = "selecting"
  BY DEF Claims, IInv, Typed
<1>2. worker' = [worker EXCEPT ![w] = c]
  BY DEF StartClaim
<1> HIDE DEF c
<1>3. QED
  BY <1>1, <1>2, ClaimGoesOn DEF StartClaim

LEMMA LockRowsStep == ASSUME IInv, NEW w \in Workers, LockRows(w) PROVE IInv'
<1> DEFINE free == {x \in worker[w].rows \cap ready : ~RowLocked(x)}
           rows == free \cap
             Range(SelectReady(free, Selectors[w], worker[w].limit, Postgres))
           c == [worker[w] EXCEPT !.pc = "locked", !.rows = rows]
<1>1. worker[w] \in Claims /\ rows \in SUBSET Rows
  BY DEF IInv, Typed
<1>2. /\ rows \subseteq ready
      /\ \A v \in Workers, x \in rows : ~HoldsRow(v, x)
  BY DEF RowLocked
<1>3. worker' = [worker EXCEPT ![w] = IF rows = {} THEN IdleWorker ELSE c]
  BY DEF LockRows
<1> HIDE DEF rows
<1>4. c \in Claims /\ c.rows = rows /\ c.pc = "locked"
  BY <1>1 DEF Claims
<1> HIDE DEF c
<1>5. CASE rows = {}
  BY <1>3, <1>5, ClaimEnds, ClaimGoesOn DEF LockRows
<1>6. CASE rows # {}
  <2>1. worker' = [worker EXCEPT ![w] = c]
    BY <1>3, <1>6
  <2>2. QED
    BY <1>2, <1>4, <2>1, ClaimGoesOn DEF LockRows
<1>7. QED
  BY <1>5, <1>6

LEMMA CheckPausesStep == ASSUME IInv, NEW w \in Workers, CheckPauses(w) PROVE IInv'
<1> DEFINE paused == {q \in {Queue[x] : x \in worker[w].rows} : Paused(q)}
           kept == {x \in worker[w].rows : Queue[x] \notin paused}
           c == [worker[w] EXCEPT !.pc = "checked", !.rows = kept, !.paused = paused]
<1>1. worker[w] \in Claims /\ kept \in SUBSET Rows /\ paused \in SUBSET Queues
  BY DEF IInv, Typed, Claims
<1>2. /\ \A x \in kept : ~Paused(Queue[x]) /\ HoldsRow(w, x)
  BY DEF CheckPauses, HoldsRow
<1>3. worker' = [worker EXCEPT ![w] = IF kept = {} THEN IdleWorker ELSE c]
  BY DEF CheckPauses
<1> HIDE DEF kept, paused
<1>4. c \in Claims /\ c.rows = kept /\ c.pc = "checked"
  BY <1>1 DEF Claims
<1> HIDE DEF c
<1>5. CASE kept = {}
  BY <1>3, <1>5, ClaimEnds, ClaimGoesOn DEF CheckPauses
<1>6. CASE kept # {}
  <2>1. worker' = [worker EXCEPT ![w] = c]
    BY <1>3, <1>6
  <2>2. kept \subseteq ready /\ \A v \in Workers \ {w}, x \in kept : ~HoldsRow(v, x)
    BY <1>1, <1>2 DEF IInv, ClaimInv, LocksReadyRows
  <2>3. QED
    BY <1>2, <1>4, <2>1, <2>2, ClaimGoesOn DEF CheckPauses
<1>7. QED
  BY <1>5, <1>6

LEMMA AbortClaimStep == ASSUME IInv, NEW w \in Workers, AbortClaim(w) PROVE IInv'
BY ClaimEnds, ClaimGoesOn DEF AbortClaim

LEMMA CommitClaimStep == ASSUME IInv, NEW w \in Workers, CommitClaim(w) PROVE IInv'
<1>1. Typed'
  BY ClaimEnds DEF IInv, Typed, CommitClaim
<1>2. \A v \in Workers : worker'[v] = IF v = w THEN IdleWorker ELSE worker[v]
  BY DEF IInv, Typed, CommitClaim
<1>3. LocksReadyRows'
  <2>1. ASSUME NEW v \in Workers, NEW x \in Rows, HoldsRow(v, x)'
        PROVE  v # w /\ HoldsRow(v, x)
    BY <1>2, <2>1, ClaimEnds DEF HoldsRow
  <2>2. \A x \in worker[w].rows : HoldsRow(w, x)
    BY DEF HoldsRow, CommitClaim
  <2>3. QED
    BY <2>1, <2>2 DEF IInv, ClaimInv, LocksReadyRows, CommitClaim
<1>4. PausesLast'
  BY DEF IInv, ClaimInv, PausesLast, Paused, CommitClaim
<1>5. WaitedFor'
  BY <1>2, ClaimEnds DEF IInv, ClaimInv, WaitedFor, CommitClaim
<1>6. LatencyInv'
  BY DEF IInv, LatencyInv, ResumesAlone, InThePast, WaitedUntilPause,
         LatencyExcludesPauses, Paused, CommitClaim
<1>7. QED
  BY <1>1, <1>3, <1>4, <1>5, <1>6 DEF IInv, ClaimInv

-----------------------------------------------------------------------------
(* pause_queue and resume_queue.                                           *)

LEMMA CallEnds ==
  IdleOperator \in Calls /\ IdleOperator.pc = "idle" /\ IdleOperator.at = 0
BY DEF IdleOperator, Calls

\* A pause sees every row of its queue that a claim may still take.
LEMMA StartDrainStep ==
  ASSUME IInv, NEW o \in Operators, StartDrain(o) PROVE IInv'
<1> DEFINE c == [operator[o] EXCEPT !.pc = "draining",
                                    !.rows = OfQueue(ready, operator[o].queue)]
<1>1. operator[o] \in Calls /\ OfQueue(ready, operator[o].queue) \in SUBSET Rows
  BY DEF IInv, Typed, OfQueue
<1>2. /\ c \in Calls /\ c.pc = "draining" /\ c.queue = operator[o].queue
      /\ c.at = operator[o].at /\ c.rows = OfQueue(ready, operator[o].queue)
  BY <1>1 DEF Calls
<1>3. operator' = [operator EXCEPT ![o] = c] /\ operator[o].pc = "pausing"
  BY DEF StartDrain
<1> HIDE DEF c
<1>4. \A p \in Operators : operator'[p] = IF p = o THEN c ELSE operator[p]
  BY <1>3 DEF IInv, Typed
<1>5. Typed'
  BY <1>2, <1>3, <1>4 DEF IInv, Typed, StartDrain
<1>6. LocksReadyRows'
  BY DEF IInv, ClaimInv, LocksReadyRows, HoldsRow, StartDrain
<1>7. PausesLast'
  BY <1>2, <1>4 DEF IInv, Typed, ClaimInv, PausesLast, Paused, StartDrain
<1>8. WaitedFor'
  <2>1. \A w \in Workers, x \in Rows :
          worker[w].pc = "checked" /\ x \in worker[w].rows => x \in ready
    BY DEF IInv, ClaimInv, LocksReadyRows, HoldsRow
  <2>2. \A p \in lasting : p \in Operators
    BY DEF IInv, Typed
  <2> SUFFICES ASSUME NEW w \in Workers, NEW x \in Rows,
                      worker[w].pc = "checked", x \in worker[w].rows
               PROVE  /\ Queue[x] \notin closed
                      /\ \A p \in lasting :
                           operator'[p].pc = "draining" /\ operator'[p].queue = Queue[x]
                             => x \in operator'[p].rows
    BY DEF WaitedFor, StartDrain
  <2>3. operator[o].queue = Queue[x] => x \in c.rows
    BY <1>2, <2>1 DEF OfQueue
  <2>4. QED
    BY <1>2, <1>4, <2>2, <2>3 DEF IInv, ClaimInv, WaitedFor
<1>9. LatencyInv'
  <2>1. ResumesAlone'
    <3>1. \A p \in Operators : operator'[p].pc = "resuming" => operator'[p] = operator[p]
      BY <1>2, <1>4
    <3>2. \A q : Paused(q)' <=> Paused(q)
      BY DEF Paused, StartDrain
    <3>3. QED
      BY <3>1, <3>2 DEF IInv, LatencyInv, ResumesAlone
  <2>2. InThePast'
    BY <1>2, <1>4 DEF IInv, LatencyInv, InThePast, StartDrain
  <2>3. WaitedUntilPause' /\ LatencyExcludesPauses'
    BY DEF IInv, LatencyInv, WaitedUntilPause, LatencyExcludesPauses, Paused, StartDrain
  <2>4. QED
    BY <2>1, <2>2, <2>3 DEF LatencyInv
<1>10. QED
  BY <1>5, <1>6, <1>7, <1>8, <1>9 DEF IInv, ClaimInv

LEMMA CreatePauseStep ==
  ASSUME IInv, NEW o \in Operators, NEW q \in Queues, CreatePause(o, q) PROVE IInv'
<1> DEFINE c == [pc |-> "pausing", queue |-> q, rows |-> {}, at |-> clock]
<1>1. c \in Calls /\ c.pc = "pausing" /\ c.queue = q /\ c.at = clock
  BY DEF Calls, IInv, Typed
<1>2. operator' = [operator EXCEPT ![o] = c] /\ operator[o].pc = "idle"
  BY DEF CreatePause
<1> HIDE DEF c
<1>3. \A p \in Operators : operator'[p] = IF p = o THEN c ELSE operator[p]
  BY <1>2 DEF IInv, Typed
<1>4. \A r \in Queues : pausedAt'[r] = IF r = q /\ ~Paused(q) THEN clock ELSE pausedAt[r]
  BY DEF IInv, Typed, CreatePause
<1>5. \A r \in Queues : Paused(r)' <=> Paused(r) \/ r = q
  BY <1>4 DEF Paused, NotPaused, IInv, Typed
<1>6. Typed'
  BY <1>1, <1>2, <1>3 DEF IInv, Typed, CreatePause
<1>7. LocksReadyRows'
  BY DEF IInv, ClaimInv, LocksReadyRows, HoldsRow, CreatePause
<1>8. PausesLast'
  BY <1>1, <1>3, <1>5 DEF IInv, Typed, ClaimInv, PausesLast, CreatePause
<1>9. WaitedFor'
  BY <1>1, <1>3 DEF IInv, Typed, ClaimInv, WaitedFor, CreatePause
<1>10. ResumesAlone'
  BY <1>1, <1>3, <1>5 DEF IInv, Typed, LatencyInv, ResumesAlone
<1>11. InThePast'
  BY <1>1, <1>3, <1>4 DEF IInv, Typed, LatencyInv, InThePast, CreatePause
<1>12. WaitedUntilPause' /\ LatencyExcludesPauses'
  <2> SUFFICES ASSUME NEW x \in ready, waited[x] # Unknown
               PROVE  IF Paused(Queue[x])'
                      THEN waited[x] = IF started[x] < pausedAt'[Queue[x]]
                                       THEN pausedAt'[Queue[x]] - started[x] ELSE 0
                      ELSE clock - started[x] = waited[x]
    BY DEF WaitedUntilPause, LatencyExcludesPauses, CreatePause
  <2>1. /\ Queue[x] \in Queues /\ started[x] \in Int /\ clock \in Nat
        /\ started[x] <= clock
    BY DEF IInv, Typed, LatencyInv, InThePast
  <2>2. CASE Queue[x] = q /\ ~Paused(q)
    BY <1>4, <1>5, <2>1, <2>2 DEF IInv, LatencyInv, LatencyExcludesPauses
  <2>3. CASE ~(Queue[x] = q /\ ~Paused(q))
    BY <1>4, <1>5, <2>1, <2>3
       DEF IInv, LatencyInv, LatencyExcludesPauses, WaitedUntilPause
  <2>4. QED
    BY <2>2, <2>3
<1>13. QED
  BY <1>6, <1>7, <1>8, <1>9, <1>10, <1>11, <1>12 DEF IInv, ClaimInv, LatencyInv

LEMMA DrainedStep == ASSUME IInv, NEW o \in Operators, Drained(o) PROVE IInv'
<1>1. operator' = [operator EXCEPT ![o] = IdleOperator] /\ operator[o].pc = "draining"
  BY DEF Drained
<1>2. \A p \in Operators : operator'[p] = IF p = o THEN IdleOperator ELSE operator[p]
  BY <1>1 DEF IInv, Typed
<1>3. /\ lasting' = lasting \ {o}
      /\ \A q \in closed' : q \in closed \/ (o \in lasting /\ q = operator[o].queue)
  BY DEF Drained
<1>4. Typed'
  BY <1>1, <1>2, <1>3, CallEnds DEF IInv, Typed, Drained
<1>5. LocksReadyRows'
  BY DEF IInv, ClaimInv, LocksReadyRows, HoldsRow, Drained
<1>6. PausesLast'
  BY <1>2, <1>3 DEF IInv, Typed, ClaimInv, PausesLast, Paused, Drained
<1>7. WaitedFor'
  <2> SUFFICES ASSUME NEW w \in Workers, NEW x \in Rows,
                      worker[w].pc = "checked", x \in worker[w].rows
               PROVE  /\ Queue[x] \notin closed'
                      /\ \A p \in lasting' :
                           operator'[p].pc = "draining" /\ operator'[p].queue = Queue[x]
                             => x \in operator'[p].rows
    BY DEF WaitedFor, Drained
  <2>1. o \in lasting => Queue[x] # operator[o].queue
    BY <1>1 DEF IInv, ClaimInv, WaitedFor, RowLocked, HoldsRow, Drained
  <2>2. QED
    BY <1>2, <1>3, <2>1 DEF IInv, Typed, ClaimInv, WaitedFor
<1>8. LatencyInv'
  BY <1>2, CallEnds DEF IInv, Typed, LatencyInv, ResumesAlone, InThePast,
         WaitedUntilPause, LatencyExcludesPauses, Paused, Drained
<1>9. QED
  BY <1>4, <1>5, <1>6, <1>7, <1>8 DEF IInv, ClaimInv

LEMMA StartResumeStep ==
  ASSUME IInv, NEW o \in Operators, NEW q \in Queues, StartResume(o, q) PROVE IInv'
<1> DEFINE c == [pc |-> "resuming", queue |-> q, rows |-> {}, at |-> clock]
<1>1. c \in Calls /\ c.pc = "resuming" /\ c.queue = q /\ c.at = clock
  BY DEF Calls, IInv, Typed
<1>2. operator' = [operator EXCEPT ![o] = c] /\ operator[o].pc = "idle" /\ Paused(q)
  BY DEF StartResume
<1> HIDE DEF c
<1>3. \A p \in Operators : operator'[p] = IF p = o THEN c ELSE operator[p]
  BY <1>2 DEF IInv, Typed
<1>4. o \notin lasting
  BY <1>2 DEF IInv, ClaimInv, PausesLast
<1>5. Typed'
  BY <1>1, <1>2, <1>3 DEF IInv, Typed, StartResume
<1>6. ClaimInv'
  BY <1>3, <1>4 DEF IInv, Typed, ClaimInv, LocksReadyRows, PausesLast, WaitedFor,
         HoldsRow, Paused, StartResume
<1>7. ResumesAlone'
  BY <1>1, <1>2, <1>3 DEF IInv, LatencyInv, ResumesAlone, Paused, PauseLocked, StartResume
<1>8. InThePast' /\ WaitedUntilPause' /\ LatencyExcludesPauses'
  BY <1>1, <1>3 DEF IInv, Typed, LatencyInv, InThePast, WaitedUntilPause,
         LatencyExcludesPauses, Paused, StartResume
<1>9. QED
  BY <1>5, <1>6, <1>7, <1>8 DEF IInv, LatencyInv

\* A resume that is given up leaves everything as it was.
LEMMA ResumeGivenUp ==
  ASSUME IInv, NEW o \in Operators, operator[o].pc = "resuming",
         operator' = [operator EXCEPT ![o] = IdleOperator],
         UNCHANGED <<clock, queued, ready, claimed, started, pausedAt, worker,
                     lasting, closed, waited>>
  PROVE  IInv'
<1>1. \A p \in Operators : operator'[p] = IF p = o THEN IdleOperator ELSE operator[p]
  BY DEF IInv, Typed
<1>2. o \notin lasting
  BY DEF IInv, ClaimInv, PausesLast
<1>3. Typed'
  BY <1>1, CallEnds DEF IInv, Typed
<1>4. ClaimInv'
  BY <1>1, <1>2 DEF IInv, Typed, ClaimInv, LocksReadyRows, PausesLast, WaitedFor,
         HoldsRow, Paused
<1>5. LatencyInv'
  BY <1>1, CallEnds DEF IInv, Typed, LatencyInv, ResumesAlone, InThePast,
         WaitedUntilPause, LatencyExcludesPauses, Paused
<1>6. QED
  BY <1>3, <1>4, <1>5 DEF IInv

LEMMA BreakDeadlockStep ==
  ASSUME IInv, NEW w \in Workers, NEW o \in Operators, BreakDeadlock(w, o)
  PROVE  IInv'
<1>1. CASE worker' = [worker EXCEPT ![w] = IdleWorker] /\ UNCHANGED operator
  BY <1>1, ClaimEnds, ClaimGoesOn DEF BreakDeadlock
<1>2. CASE operator' = [operator EXCEPT ![o] = IdleOperator] /\ UNCHANGED worker
  BY <1>2, ResumeGivenUp DEF BreakDeadlock
<1>3. QED
  BY <1>1, <1>2 DEF BreakDeadlock

\* The resume takes the pause out of the latency of the rows, exactly.
LEMMA CommitResumeStep ==
  ASSUME IInv, NEW o \in Operators, CommitResume(o) PROVE IInv'
<1>1. PICK q \in Queues, at \in Nat, since \in Nat :
        q = operator[o].queue /\ at = operator[o].at /\ since = pausedAt[q]
  BY DEF CommitResume, IInv, Typed, Calls, LatencyInv, ResumesAlone, Paused
<1>2. /\ operator[o].pc = "resuming"
      /\ started' = [x \in Rows |-> IF x \in OfQueue(ready, q)
                                    THEN Shifted(x, since, at) ELSE started[x]]
      /\ waited' = [x \in Rows |->
                     IF x \in OfQueue(ready, q) /\ waited[x] # Unknown
                     THEN waited[x] + (clock - at) ELSE waited[x]]
      /\ pausedAt' = [pausedAt EXCEPT ![q] = NotPaused]
      /\ operator' = [operator EXCEPT ![o] = IdleOperator]
      /\ closed' = closed \ {q}
      /\ lasting' = {p \in lasting : operator[p].queue # q}
      /\ UNCHANGED <<clock, queued, ready, claimed, worker>>
  BY <1>1 DEF CommitResume
<1>3. /\ clock \in Nat /\ at <= clock /\ since <= clock /\ Paused(q)
      /\ \A x \in Rows : started[x] \in Int /\ waited[x] \in Nat \cup {Unknown}
  BY <1>1, <1>2 DEF IInv, Typed, LatencyInv, InThePast, ResumesAlone
<1>4. \A x \in Rows : Shifted(x, since, at) \in Int
  BY <1>3 DEF Shifted
<1>5. \A p \in Operators : operator'[p] = IF p = o THEN IdleOperator ELSE operator[p]
  BY <1>2 DEF IInv, Typed
<1>6. /\ \A r \in Queues : pausedAt'[r] = IF r = q THEN NotPaused ELSE pausedAt[r]
      /\ \A r \in Queues : Paused(r)' <=> Paused(r) /\ r # q
  BY <1>2 DEF IInv, Typed, Paused
<1>7. Typed'
  <2>1. started' \in [Rows -> Int]
    BY <1>2, <1>3, <1>4
  <2>2. waited' \in [Rows -> Nat \cup {Unknown}]
    BY <1>2, <1>3
  <2>3. QED
    BY <1>2, <1>5, <2>1, <2>2, CallEnds DEF IInv, Typed
<1>8. LocksReadyRows'
  BY <1>2 DEF IInv, ClaimInv, LocksReadyRows, HoldsRow
<1>9. PausesLast'
  BY <1>2, <1>5, <1>6 DEF IInv, Typed, ClaimInv, PausesLast
<1>10. WaitedFor'
  BY <1>2, <1>5, CallEnds DEF IInv, Typed, ClaimInv, WaitedFor
<1>11. ResumesAlone'
  BY <1>1, <1>2, <1>5, <1>6, CallEnds DEF IInv, Typed, LatencyInv, ResumesAlone
<1>12. InThePast'
  <2>1. \A x \in ready' : started'[x] <= clock
    BY <1>2, <1>3 DEF Shifted, IInv, Typed, LatencyInv, InThePast
  <2>2. \A r \in Queues : pausedAt'[r] <= clock
    BY <1>3, <1>6 DEF IInv, LatencyInv, InThePast, NotPaused
  <2>3. \A p \in Operators : operator'[p].at <= clock
    BY <1>3, <1>5, CallEnds DEF IInv, LatencyInv, InThePast
  <2>4. QED
    BY <1>2, <2>1, <2>2, <2>3 DEF InThePast
<1>13. WaitedUntilPause' /\ LatencyExcludesPauses'
  <2> SUFFICES ASSUME NEW x \in ready, waited'[x] # Unknown
               PROVE  IF Paused(Queue[x])'
                      THEN waited'[x] = IF started'[x] < pausedAt'[Queue[x]]
                                        THEN pausedAt'[Queue[x]] - started'[x] ELSE 0
                      ELSE clock - started'[x] = waited'[x]
    BY <1>2 DEF WaitedUntilPause, LatencyExcludesPauses
  <2>1. x \in Rows /\ Queue[x] \in Queues /\ waited[x] # Unknown
    BY <1>2 DEF IInv, Typed
  <2>2. CASE Queue[x] # q
    <3>1. started'[x] = started[x] /\ waited'[x] = waited[x]
      BY <1>2, <2>1, <2>2 DEF OfQueue
    <3>2. QED
      BY <1>6, <2>1, <2>2, <3>1
         DEF IInv, LatencyInv, LatencyExcludesPauses, WaitedUntilPause
  <2>3. CASE Queue[x] = q
    <3>1. started'[x] = Shifted(x, since, at) /\ waited'[x] = waited[x] + (clock - at)
      BY <1>2, <2>1, <2>3 DEF OfQueue
    <3>2. waited[x] = IF started[x] < since THEN since - started[x] ELSE 0
      BY <1>1, <1>3, <2>1, <2>3 DEF IInv, LatencyInv, WaitedUntilPause
    <3>3. QED
      BY <1>3, <1>6, <2>1, <2>3, <3>1, <3>2 DEF Shifted
  <2>4. QED
    BY <2>2, <2>3
<1>14. QED
  BY <1>7, <1>8, <1>9, <1>10, <1>11, <1>12, <1>13 DEF IInv, ClaimInv, LatencyInv

-----------------------------------------------------------------------------
(* The clock and new rows.                                                 *)

LEMMA DispatchStep == ASSUME IInv, NEW x \in Rows, Dispatch(x) PROVE IInv'
<1>1. PICK n \in Nat \cup {Unknown} :
        waited' = [waited EXCEPT ![x] = n] /\ n \in {0, Unknown}
  BY DEF Dispatch
<1>2. /\ started' = [started EXCEPT ![x] = clock] /\ x \notin ready
      /\ ready' = ready \cup {x} /\ clock \in Nat
      /\ UNCHANGED <<clock, pausedAt, worker, operator, lasting, closed>>
  BY DEF Dispatch, IInv, Typed
<1>3. Typed'
  BY <1>1, <1>2 DEF IInv, Typed, Dispatch
<1>4. ClaimInv'
  BY <1>2 DEF IInv, Typed, ClaimInv, LocksReadyRows, PausesLast, WaitedFor, HoldsRow, Paused
<1>5. /\ started'[x] = clock /\ waited'[x] = n
      /\ \A y \in ready : y # x /\ started'[y] = started[y] /\ waited'[y] = waited[y]
  BY <1>1, <1>2 DEF IInv, Typed
<1>6. ResumesAlone' /\ InThePast'
  BY <1>2, <1>5 DEF IInv, Typed, LatencyInv, ResumesAlone, InThePast, Paused
<1>7. WaitedUntilPause' /\ LatencyExcludesPauses'
  <2> SUFFICES ASSUME NEW y \in ready \cup {x}, waited'[y] # Unknown
               PROVE  IF Paused(Queue[y])
                      THEN waited'[y] = IF started'[y] < pausedAt[Queue[y]]
                                        THEN pausedAt[Queue[y]] - started'[y] ELSE 0
                      ELSE clock - started'[y] = waited'[y]
    BY <1>2 DEF WaitedUntilPause, LatencyExcludesPauses, Paused
  <2>1. CASE y = x
    <3>1. Queue[x] \in Queues
      OBVIOUS
    <3>2. pausedAt[Queue[x]] <= clock /\ pausedAt[Queue[x]] \in Int
      BY <3>1 DEF IInv, Typed, LatencyInv, InThePast, NotPaused
    <3>3. QED
      BY <1>1, <1>2, <1>5, <2>1, <3>2
  <2>2. CASE y \in ready
    BY <1>5, <2>2 DEF IInv, LatencyInv, WaitedUntilPause, LatencyExcludesPauses
  <2>3. QED
    BY <2>1, <2>2
<1>8. QED
  BY <1>3, <1>4, <1>6, <1>7 DEF IInv, LatencyInv

LEMMA TickStep == ASSUME IInv, Tick PROVE IInv'
<1>1. /\ clock \in Nat /\ clock' = clock + 1
      /\ \A x \in Rows : /\ started[x] \in Int /\ waited[x] \in Nat \cup {Unknown}
                         /\ waited'[x] = IF x \in ready /\ ~Paused(Queue[x])
                                              /\ waited[x] # Unknown
                                         THEN waited[x] + 1 ELSE waited[x]
      /\ UNCHANGED <<queued, ready, claimed, started, pausedAt, worker, operator,
                     lasting, closed>>
  BY DEF IInv, Typed, Tick
<1>2. Typed'
  <2>1. waited' \in [Rows -> Nat \cup {Unknown}]
    BY DEF IInv, Typed, Tick
  <2>2. QED
    BY <1>1, <2>1 DEF IInv, Typed
<1>3. ClaimInv'
  BY <1>1 DEF IInv, Typed, ClaimInv, LocksReadyRows, PausesLast, WaitedFor, HoldsRow, Paused
<1>4. ResumesAlone'
  BY <1>1 DEF IInv, LatencyInv, ResumesAlone, Paused
<1>5. InThePast'
  <2>1. /\ \A q \in Queues : pausedAt[q] \in Int
        /\ \A o \in Operators : operator[o].at \in Nat
        /\ ready \subseteq Rows
    BY DEF IInv, Typed, Calls, NotPaused
  <2>2. QED
    BY <1>1, <2>1 DEF IInv, LatencyInv, InThePast
<1>6. WaitedUntilPause' /\ LatencyExcludesPauses'
  <2>1. ready \subseteq Rows
    BY DEF IInv, Typed
  <2>2. QED
    BY <1>1, <2>1 DEF IInv, LatencyInv, WaitedUntilPause, LatencyExcludesPauses, Paused,
           Unknown
<1>7. QED
  BY <1>2, <1>3, <1>4, <1>5, <1>6 DEF IInv, LatencyInv

-----------------------------------------------------------------------------
LEMMA NextIInv == IInv /\ [Next]_vars => IInv'
<1> SUFFICES ASSUME IInv, [Next]_vars PROVE IInv'
  OBVIOUS
<1>1. ASSUME NEW w \in Workers, ClaimStep(w) \/ AbortClaim(w) PROVE IInv'
  BY <1>1, StartClaimStep, LockRowsStep, CheckPausesStep, CommitClaimStep,
     AbortClaimStep DEF ClaimStep
<1>2. ASSUME NEW o \in Operators,
             \/ OperatorStep(o) \/ AbortResume(o)
             \/ \E q \in Queues : CreatePause(o, q) \/ StartResume(o, q)
      PROVE  IInv'
  <2>1. CASE AbortResume(o)
    BY <2>1, ResumeGivenUp DEF AbortResume
  <2>2. QED
    BY <1>2, <2>1, StartDrainStep, DrainedStep, CommitResumeStep, CreatePauseStep,
       StartResumeStep DEF OperatorStep
<1>3. CASE UNCHANGED vars
  BY <1>3 DEF vars, IInv, Typed, ClaimInv, LocksReadyRows, PausesLast, WaitedFor,
         HoldsRow, Paused, LatencyInv, ResumesAlone, InThePast, WaitedUntilPause,
         LatencyExcludesPauses
<1>4. QED
  BY <1>1, <1>2, <1>3, BreakDeadlockStep, DispatchStep, TickStep DEF Next

LEMMA InductiveInvariant == Spec => []IInv
BY InitIInv, NextIInv, PTL DEF Spec

-----------------------------------------------------------------------------
(***************************************************************************)
(* Once pause_queue has returned, no claim takes a job of the queue until  *)
(* it is resumed, for any number of workers, callers and pauses, whenever  *)
(* the claim's query took its snapshot.                                    *)
(***************************************************************************)
THEOREM PausedMeansPausedAlways == Spec => PausedMeansPaused
<1>1. ASSUME IInv, [Next]_vars
      PROVE  [\A x \in Rows : x \in claimed' \ claimed => Queue[x] \notin closed]_vars
  <2>1. CASE \E w \in Workers : CommitClaim(w)
    BY <1>1, <2>1 DEF CommitClaim, IInv, ClaimInv, WaitedFor
  <2>2. CASE ~\E w \in Workers : CommitClaim(w)
    <3>1. claimed' = claimed
      BY <1>1, <2>2 DEF Next, vars, ClaimStep, OperatorStep, StartClaim, LockRows,
             CheckPauses, AbortClaim, CreatePause, StartDrain, Drained, StartResume,
             CommitResume, AbortResume, BreakDeadlock, Dispatch, Tick
    <3>2. QED
      BY <3>1
  <2>3. QED
    BY <2>1, <2>2
<1>2. QED
  BY <1>1, InductiveInvariant, PTL DEF Spec, PausedMeansPaused

(***************************************************************************)
(* Through any number of pauses and resumes, given up or not, the latency  *)
(* that queue statistics report of a waiting row is the time the row was   *)
(* ready while its queue was not paused.                                   *)
(***************************************************************************)
THEOREM LatencyExcludesPausesAlways == Spec => []LatencyExcludesPauses
<1>1. IInv => LatencyExcludesPauses
  BY DEF IInv, LatencyInv
<1>2. QED
  BY <1>1, InductiveInvariant, PTL

=============================================================================
