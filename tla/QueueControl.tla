---------------------------- MODULE QueueControl ----------------------------
(***************************************************************************)
(* Pausing and resuming a queue while workers claim from it.  The          *)
(* operations are split where another transaction can come between two     *)
(* statements: a claim takes the snapshot of its query, locks the rows it  *)
(* selects, looks for pauses again, and commits; pause_queue commits the   *)
(* pause row and then waits for the rows that claims in flight hold;       *)
(* resume_queue locks the pause row, then the ready rows.  The database    *)
(* breaks a circular wait by aborting one of the transactions.             *)
(*                                                                         *)
(* Statements read what is committed when they start (READ COMMITTED);     *)
(* locks are held to the end of the transaction.                           *)
(***************************************************************************)
EXTENDS QueueSelection, Integers

CONSTANTS
  Workers,
  Selectors,     \* the queue selectors of each worker
  Shapes,        \* further lists of selectors to compare the queries on
  Limits,        \* how many rows a worker may ask for: its idle threads
  Postgres,      \* the database has the single query over exact queues
  Operators,     \* callers of pause_queue and resume_queue
  MaxTime        \* bound of the clock

ASSUME QueueControlAssumption ==
  /\ \A selectors \in Shapes \cup {Selectors[w] : w \in Workers} :
       \A i \in DOMAIN selectors : selectors[i].queues \subseteq Queues
  /\ Limits \subseteq Nat \ {0}
  /\ Postgres \in BOOLEAN
  /\ MaxTime \in Nat

NoQueue == [none |-> TRUE]
NotPaused == -1
Unknown == -1

VARIABLES
  clock,
  queued,     \* rows inserted so far
  ready,      \* rows of the ready table
  claimed,    \* rows moved to the claimed table
  started,    \* COALESCE(latency_started_at, created_at) of each row
  pausedAt,   \* created_at of the pause row of each queue
  worker,     \* transaction of each worker
  operator,   \* call in progress of each operator
  lasting,    \* history: callers of pause_queue whose pause was not resumed
  closed,     \* history: queues paused since a pause_queue that returned
  waited      \* history: time each row was ready with its queue not paused

vars == <<clock, queued, ready, claimed, started, pausedAt, worker, operator,
          lasting, closed, waited>>

Paused(q) == pausedAt[q] # NotPaused

IdleWorker == [pc |-> "idle", rows |-> {}, paused |-> {}, limit |-> 0]
IdleOperator == [pc |-> "idle", queue |-> NoQueue, rows |-> {}, at |-> 0]

-----------------------------------------------------------------------------
HoldsRow(w, x) ==
  worker[w].pc \in {"locked", "checked"} /\ x \in worker[w].rows

RowLocked(x) == \E w \in Workers : HoldsRow(w, x)

\* A claim that looked for pauses holds the pause rows it found.
PauseLocked(q) ==
  \/ \E o \in Operators : operator[o].pc = "resuming" /\ operator[o].queue = q
  \/ \E w \in Workers : worker[w].pc = "checked" /\ q \in worker[w].paused

OfQueue(S, q) == {x \in S : Queue[x] = q}

-----------------------------------------------------------------------------
(* Claiming. *)

\* The row query starts: it will see the ready rows and the pauses committed
\* now.
StartClaim(w, limit) ==
  /\ worker[w].pc = "idle"
  /\ worker' = [worker EXCEPT ![w] =
       [pc |-> "selecting", limit |-> limit, paused |-> {},
        rows |-> {x \in ready : ~Paused(Queue[x])}]]
  /\ UNCHANGED <<clock, queued, ready, claimed, started, pausedAt, operator,
                 lasting, closed, waited>>

\* The query locks the rows it selects, FOR UPDATE SKIP LOCKED.
LockRows(w) ==
  LET free == {x \in worker[w].rows \cap ready : ~RowLocked(x)}
      selected == SelectReady(free, Selectors[w], worker[w].limit, Postgres)
      rows == free \cap Range(selected)
  IN
  /\ worker[w].pc = "selecting"
  /\ worker' = [worker EXCEPT ![w] =
       IF rows = {} THEN IdleWorker
       ELSE [@ EXCEPT !.pc = "locked", !.rows = rows]]
  /\ UNCHANGED <<clock, queued, ready, claimed, started, pausedAt, operator,
                 lasting, closed, waited>>

\* Mutant: the claim does not look for pauses a second time.
CheckNoPauses(w) ==
  /\ worker[w].pc = "locked"
  /\ worker' = [worker EXCEPT ![w].pc = "checked"]
  /\ UNCHANGED <<clock, queued, ready, claimed, started, pausedAt, operator,
                 lasting, closed, waited>>

\* Mutant: a claim with nothing left to take keeps its transaction open.
CheckPausesKeepsLocks(w) ==
  LET queues == {Queue[x] : x \in worker[w].rows}
      paused == {q \in queues : Paused(q)}
      kept == {x \in worker[w].rows : Queue[x] \notin paused}
  IN
  /\ worker[w].pc = "locked"
  /\ \A q \in queues : ~PauseLocked(q)
  /\ kept # {}
  /\ worker' = [worker EXCEPT ![w].pc = "checked", ![w].rows = kept,
                              ![w].paused = paused]
  /\ UNCHANGED <<clock, queued, ready, claimed, started, pausedAt, operator,
                 lasting, closed, waited>>

\* _lock_active_pauses: a second look, that waits for a resume in progress,
\* drops the rows of queues paused meanwhile.
CheckPauses(w) ==
  LET queues == {Queue[x] : x \in worker[w].rows}
      paused == {q \in queues : Paused(q)}
      kept == {x \in worker[w].rows : Queue[x] \notin paused}
  IN
  /\ worker[w].pc = "locked"
  /\ \A q \in queues : ~PauseLocked(q)
  /\ worker' = [worker EXCEPT ![w] =
       IF kept = {} THEN IdleWorker
       ELSE [@ EXCEPT !.pc = "checked", !.rows = kept, !.paused = paused]]
  /\ UNCHANGED <<clock, queued, ready, claimed, started, pausedAt, operator,
                 lasting, closed, waited>>

\* The rows move to the claimed table and the transaction commits.
CommitClaim(w) ==
  /\ worker[w].pc = "checked"
  /\ ready' = ready \ worker[w].rows
  /\ claimed' = claimed \cup worker[w].rows
  /\ worker' = [worker EXCEPT ![w] = IdleWorker]
  /\ UNCHANGED <<clock, queued, started, pausedAt, operator,
                 lasting, closed, waited>>

\* The worker dies or loses its connection: the transaction is rolled back.
AbortClaim(w) ==
  /\ worker[w].pc # "idle"
  /\ worker' = [worker EXCEPT ![w] = IdleWorker]
  /\ UNCHANGED <<clock, queued, ready, claimed, started, pausedAt, operator,
                 lasting, closed, waited>>

-----------------------------------------------------------------------------
(* pause_queue and resume_queue. *)

\* The first transaction of pause_queue.
CreatePause(o, q) ==
  /\ operator[o].pc = "idle"
  /\ pausedAt' = [pausedAt EXCEPT ![q] = IF Paused(q) THEN @ ELSE clock]
  /\ operator' = [operator EXCEPT ![o] = [pc |-> "pausing", queue |-> q,
                                          rows |-> {}, at |-> clock]]
  /\ lasting' = lasting \cup {o}
  /\ UNCHANGED <<clock, queued, ready, claimed, started, worker, closed,
                 waited>>

\* The second one starts: it will lock the ready rows of the queue.
StartDrain(o) ==
  /\ operator[o].pc = "pausing"
  /\ operator' = [operator EXCEPT
       ![o].pc = "draining", ![o].rows = OfQueue(ready, operator[o].queue)]
  /\ UNCHANGED <<clock, queued, ready, claimed, started, pausedAt, worker,
                 lasting, closed, waited>>

\* No claim holds one of these rows any more: pause_queue returns.
Drained(o) ==
  /\ operator[o].pc = "draining"
  /\ \A x \in operator[o].rows : ~RowLocked(x)
  /\ operator' = [operator EXCEPT ![o] = IdleOperator]
  /\ closed' = closed \cup {operator[p].queue : p \in lasting \cap {o}}
  /\ lasting' = lasting \ {o}
  /\ UNCHANGED <<clock, queued, ready, claimed, started, pausedAt, worker,
                 waited>>

\* resume_queue locks the pause row and reads the clock.
StartResume(o, q) ==
  /\ operator[o].pc = "idle"
  /\ Paused(q)
  /\ ~PauseLocked(q)
  /\ operator' = [operator EXCEPT ![o] = [pc |-> "resuming", queue |-> q,
                                          rows |-> {}, at |-> clock]]
  /\ UNCHANGED <<clock, queued, ready, claimed, started, pausedAt, worker,
                 lasting, closed, waited>>

\* Mutant: the pause is added to rows that were not there when it began.
ShiftAll(x, since, until) == started[x] + (until - since)

\* The new start of the latency of a row: the time of the pause is taken out,
\* and a row that arrived during the pause starts now.
Shifted(x, since, until) ==
  IF started[x] < since THEN started[x] + (until - since) ELSE until

\* It updates the ready rows of the queue, once no claim holds one, and
\* deletes the pause row.
CommitResume(o) ==
  LET q == operator[o].queue
      rows == OfQueue(ready, q)
      at == operator[o].at
  IN
  /\ operator[o].pc = "resuming"
  /\ \A x \in rows : ~RowLocked(x)
  /\ started' = [x \in Rows |-> IF x \in rows THEN Shifted(x, pausedAt[q], at)
                                ELSE started[x]]
  /\ pausedAt' = [pausedAt EXCEPT ![q] = NotPaused]
  /\ operator' = [operator EXCEPT ![o] = IdleOperator]
  /\ closed' = closed \ {q}
  /\ lasting' = {p \in lasting : operator[p].queue # q}
  /\ waited' = [x \in Rows |-> IF x \in rows /\ waited[x] # Unknown
                               THEN waited[x] + (clock - at) ELSE waited[x]]
  /\ UNCHANGED <<clock, queued, ready, claimed, worker>>

\* The caller dies or loses its connection: the transaction is rolled back.
AbortResume(o) ==
  /\ operator[o].pc = "resuming"
  /\ operator' = [operator EXCEPT ![o] = IdleOperator]
  /\ UNCHANGED <<clock, queued, ready, claimed, started, pausedAt, worker,
                 lasting, closed, waited>>

\* A claim that holds ready rows waits for the pause row of a resume that waits
\* for those rows: the database aborts one of the two.  The claim is tried
\* again; the resume raises.
BreakDeadlock(w, o) ==
  /\ worker[w].pc = "locked"
  /\ operator[o].pc = "resuming"
  /\ OfQueue(worker[w].rows, operator[o].queue) # {}
  /\ \/ worker' = [worker EXCEPT ![w] = IdleWorker] /\ UNCHANGED operator
     \/ operator' = [operator EXCEPT ![o] = IdleOperator] /\ UNCHANGED worker
  /\ UNCHANGED <<clock, queued, ready, claimed, started, pausedAt,
                 lasting, closed, waited>>

-----------------------------------------------------------------------------
\* A job is dispatched to the ready table; rows are numbered as they come.
Dispatch(x) ==
  /\ x \in Rows \ queued
  /\ \A y \in Rows : y < x => y \in queued
  /\ queued' = queued \cup {x}
  /\ ready' = ready \cup {x}
  /\ started' = [started EXCEPT ![x] = clock]
  /\ waited' = [waited EXCEPT ![x] =
       IF \E o \in Operators : /\ operator[o].pc = "resuming"
                               /\ operator[o].queue = Queue[x]
       THEN Unknown ELSE 0]
  /\ UNCHANGED <<clock, claimed, pausedAt, worker, operator, lasting,
                 closed>>

Tick ==
  /\ clock < MaxTime
  /\ clock' = clock + 1
  /\ waited' = [x \in Rows |->
       IF x \in ready /\ ~Paused(Queue[x]) /\ waited[x] # Unknown
       THEN waited[x] + 1 ELSE waited[x]]
  /\ UNCHANGED <<queued, ready, claimed, started, pausedAt, worker, operator,
                 lasting, closed>>

Init ==
  /\ clock = 0
  /\ queued = {} /\ ready = {} /\ claimed = {} /\ closed = {} /\ lasting = {}
  /\ started = [x \in Rows |-> 0]
  /\ waited = [x \in Rows |-> 0]
  /\ pausedAt = [q \in Queues |-> NotPaused]
  /\ worker = [w \in Workers |-> IdleWorker]
  /\ operator = [o \in Operators |-> IdleOperator]

ClaimStep(w) ==
  \/ \E limit \in Limits : StartClaim(w, limit)
  \/ LockRows(w)
  \/ CheckPauses(w)
  \/ CommitClaim(w)

OperatorStep(o) == StartDrain(o) \/ Drained(o) \/ CommitResume(o)

Next ==
  \/ \E w \in Workers : ClaimStep(w) \/ AbortClaim(w)
  \/ \E o \in Operators :
       \/ OperatorStep(o)
       \/ AbortResume(o)
       \/ \E q \in Queues : CreatePause(o, q) \/ StartResume(o, q)
  \/ \E w \in Workers, o \in Operators : BreakDeadlock(w, o)
  \/ \E x \in Rows : Dispatch(x)
  \/ Tick

Spec == Init /\ [][Next]_vars

\* Every transaction goes on while it can, a statement that waits for row
\* locks is served in the end (the database queues the waiters), and circular
\* waits are broken.
FairSpec ==
  /\ Spec
  /\ \A w \in Workers : WF_vars(ClaimStep(w)) /\ SF_vars(CheckPauses(w))
  /\ \A o \in Operators :
       /\ SF_vars(OperatorStep(o))
       /\ \A w \in Workers : WF_vars(BreakDeadlock(w, o))

-----------------------------------------------------------------------------
\* Once pause_queue has returned, no claim takes a job of the queue until
\* it is resumed.  Claims that selected their rows before the pause was
\* committed are either waited for or see it on their second look.
PausedMeansPaused ==
  [][\A x \in Rows : x \in claimed' \ claimed => Queue[x] \notin closed]_vars

\* The latency of a waiting row, as queue statistics report it, is the time
\* it was ready while its queue was not paused, through any number of pauses.
\* (A row that arrives while a resume waits for locks is measured from the
\* resume.)
LatencyExcludesPauses ==
  \A x \in ready : ~Paused(Queue[x]) /\ waited[x] # Unknown
                     => clock - started[x] = waited[x]

\* pause_queue and resume_queue return (or raise), although each waits for
\* locks of claims that may wait for them.
CallsReturn ==
  \A o \in Operators : operator[o].pc # "idle" ~> operator[o].pc = "idle"

\* Whatever the shape of its selectors and the database, a worker takes rows
\* in the order of its selectors, then of priority, then of age.
SelectsInOrder ==
  \A selectors \in Shapes \cup {Selectors[w] : w \in Workers},
     limit \in 1 .. Cardinality(Rows), postgres \in BOOLEAN :
    SelectReady(ready, selectors, limit, postgres)
      = InOrder(ready, selectors, limit)
=============================================================================
