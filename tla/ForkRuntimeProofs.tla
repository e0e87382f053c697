-------------------------- MODULE ForkRuntimeProofs --------------------------
(***************************************************************************)
(* Proofs about ForkRuntime, for every set of jobs, supervisors and        *)
(* workers, any pids, and any number of supervisors and faults.            *)
(***************************************************************************)
EXTENDS ForkRuntime, TLAPS

Lives == {"unborn", "booting", "running", "stopping", "dead"}
Recoveries == [op : {"idle", "children", "prune", "reap", "delete"},
               procs : SUBSET Procs, jobs : SUBSET Jobs]

Typed ==
  /\ life \in [Procs -> Lives]
  /\ rows \subseteq Procs
  /\ link \in [Wrks -> Sups \cup {NoProc}]
  /\ parent \in [Wrks -> Sups \cup {NoProc}]
  /\ stopReq \subseteq Procs
  /\ running \in [Wrks -> SUBSET Jobs]
  /\ cleanup \in [Wrks -> SUBSET Jobs]
  /\ job \in [Jobs -> {"ready", "claimed", "finished", "failed"}]
  /\ owner \in [Jobs -> Wrks \cup {NoProc}]
  /\ recovery \in [Sups -> Recoveries]

-----------------------------------------------------------------------------
(* The parts of the inductive invariant.                                   *)

\* A row belongs to a process that was born, and refers to rows only.
Registered ==
  /\ \A s \in rows \cap Sups : life[s] # "unborn"
  /\ \A w \in rows \cap Wrks : life[w] \notin {"unborn", "booting"}
  /\ \A w \in Wrks : link[w] # NoProc => w \in rows /\ link[w] \in rows

\* A claim refers to a row, and a worker that goes on has the job in its pool.
Attended ==
  \A j \in Jobs : owner[j] # NoProc =>
    /\ job[j] = "claimed" /\ owner[j] \in rows
    /\ life[owner[j]] = "running" => j \in running[owner[j]]

\* A supervisor has one worker at most, and none before it runs.
OneChild ==
  /\ \A w \in Wrks : life[w] = "booting" => parent[w] # NoProc
  /\ \A w \in Wrks : life[w] = "unborn" => parent[w] = NoProc
  /\ \A w \in Wrks : parent[w] # NoProc => life[parent[w]] \notin {"unborn", "booting"}
  /\ \A v, w \in Wrks : parent[v] # NoProc /\ parent[v] = parent[w] => v = w

\* Supervisor s will not fork again, or not before it has deleted the row of v.
ForksNoMore(s, v) ==
  \/ recovery[s].op \in {"reap", "delete"} /\ v \in recovery[s].procs
  \/ s \in stopReq
  \/ life[s] \in {"stopping", "dead"}

\* A row that names s as its supervisor is that of its worker, or s has no
\* worker and gets no other while the row is there.
RowOfChild ==
  \A v \in Wrks, s \in Sups : link[v] = s =>
    /\ life[s] # "booting"
    /\ parent[v] = s \/ (Children(s) = {} /\ ForksNoMore(s, v))

\* The recovery of s has read all the claims of the rows it will delete.
RecoveryOf(s) ==
  \A p \in recovery[s].procs :
    /\ recovery[s].op \in {"prune", "reap", "delete"}
    /\ recovery[s].op = "prune" => \A j \in Jobs : owner[j] = p => j \in recovery[s].jobs
    /\ recovery[s].op \in {"reap", "delete"} => p \in Wrks /\ life[p] = "dead"
    /\ recovery[s].op = "reap" => \A j \in Jobs : owner[j] = p => j \in recovery[s].jobs
    /\ recovery[s].op = "delete" => \A j \in Jobs : owner[j] # p

Recovering == \A s \in Sups : RecoveryOf(s)

IInv == Typed /\ Registered /\ Attended /\ OneChild /\ RowOfChild /\ Recovering

USE ForkRuntimeAssumption DEF Procs

-----------------------------------------------------------------------------
(* Steps that start nothing: processes end, rows and claims go.            *)

Winds ==
  \A p \in Procs :
    \/ life'[p] = life[p]
    \/ life[p] # "dead" /\ life'[p] \in {"stopping", "dead"}

RowsGo ==
  /\ rows' \subseteq rows
  /\ \A w \in Wrks : link'[w] # NoProc =>
       link'[w] = link[w] /\ {w, link[w]} \cap rows \subseteq rows'

ClaimsGo ==
  \A j \in Jobs : owner'[j] # NoProc =>
    /\ owner'[j] = owner[j] /\ job'[j] = job[j]
    /\ owner[j] \in rows => owner[j] \in rows'
    /\ life'[owner[j]] = "running" /\ j \in running[owner[j]] => j \in running'[owner[j]]

\* A recovery goes on, or has deleted the rows it is about, or is the last.
RecoveriesEnd ==
  \A s \in Sups :
    \/ recovery'[s] = recovery[s]
    \/ /\ recovery'[s].procs = {}
       /\ recovery[s].op \in {"reap", "delete"} =>
            \/ s \in stopReq'
            \/ life'[s] \in {"stopping", "dead"}
            \/ \A v \in recovery[s].procs \cap Wrks : link'[v] = NoProc

LEMMA RegisteredKept ==
  ASSUME Typed, Registered, Winds, RowsGo
  PROVE  Registered'
<1>1. ASSUME NEW p \in Procs, life'[p] \in {"unborn", "booting"}
      PROVE  life'[p] = life[p]
  BY <1>1 DEF Winds
<1>2. \A s \in rows' \cap Sups : life'[s] # "unborn"
  BY <1>1 DEF Registered, RowsGo
<1>3. \A w \in rows' \cap Wrks : life'[w] \notin {"unborn", "booting"}
  BY <1>1 DEF Registered, RowsGo
<1>4. \A w \in Wrks : link'[w] # NoProc => w \in rows' /\ link'[w] \in rows'
  BY DEF Registered, RowsGo
<1>5. QED
  BY <1>2, <1>3, <1>4 DEF Registered

LEMMA AttendedKept ==
  ASSUME Typed, Attended, Winds, ClaimsGo
  PROVE  Attended'
<1>1. ASSUME NEW j \in Jobs, owner'[j] # NoProc
      PROVE  /\ job'[j] = "claimed" /\ owner'[j] \in rows'
             /\ life'[owner'[j]] = "running" => j \in running'[owner'[j]]
  <2>1. /\ owner'[j] = owner[j] /\ job'[j] = job[j]
        /\ owner[j] \in rows => owner[j] \in rows'
        /\ life'[owner[j]] = "running" /\ j \in running[owner[j]] => j \in running'[owner[j]]
    BY <1>1 DEF ClaimsGo
  <2>2. PICK w \in Wrks : w = owner[j]
    BY <1>1, <2>1 DEF Typed
  <2>3. /\ job[j] = "claimed" /\ w \in rows
        /\ life[w] = "running" => j \in running[w]
    BY <1>1, <2>1, <2>2 DEF Attended
  <2>4. life'[w] = "running" => life[w] = "running"
    BY DEF Winds
  <2>5. QED
    BY <2>1, <2>2, <2>3, <2>4
<1>2. QED
  BY <1>1 DEF Attended

LEMMA OneChildKept ==
  ASSUME Typed, OneChild, Winds, parent' = parent
  PROVE  OneChild'
<1>1. ASSUME NEW p \in Procs, life'[p] \in {"unborn", "booting"}
      PROVE  life'[p] = life[p]
  BY <1>1 DEF Winds
<1>2. \A w \in Wrks : parent[w] # NoProc => parent[w] \in Procs
  BY DEF Typed
<1>3. \A w \in Wrks : parent[w] # NoProc => life'[parent[w]] \notin {"unborn", "booting"}
  BY <1>1, <1>2 DEF OneChild
<1>4. QED
  BY <1>1, <1>3 DEF OneChild

LEMMA RowOfChildKept ==
  ASSUME Typed, Recovering, RowOfChild, Winds, parent' = parent, stopReq \subseteq stopReq',
         RowsGo, RecoveriesEnd
  PROVE  RowOfChild'
<1>1. ASSUME NEW v \in Wrks, NEW s \in Sups, link'[v] = s
      PROVE  /\ life'[s] # "booting"
             /\ parent'[v] = s \/ (Children(s)' = {} /\ ForksNoMore(s, v)')
  <2>1. link[v] = s /\ link'[v] # NoProc
    BY <1>1 DEF RowsGo
  <2>2. /\ life[s] # "booting"
        /\ parent[v] = s \/ (Children(s) = {} /\ ForksNoMore(s, v))
    BY <2>1 DEF RowOfChild
  <2>3. life'[s] # "booting"
    BY <2>2 DEF Winds
  <2>4. Children(s)' = Children(s)
    BY DEF Children
  <2>5. ASSUME ForksNoMore(s, v) PROVE ForksNoMore(s, v)'
    <3>1. CASE s \in stopReq
      BY <3>1 DEF ForksNoMore
    <3>2. CASE life[s] \in {"stopping", "dead"}
      BY <3>2 DEF ForksNoMore, Winds
    <3>3. CASE recovery[s].op \in {"reap", "delete"} /\ v \in recovery[s].procs
      <4>1. CASE recovery'[s] = recovery[s]
        BY <3>3, <4>1 DEF ForksNoMore
      <4>2. CASE recovery'[s] # recovery[s]
        <5>1. s \in stopReq' \/ life'[s] \in {"stopping", "dead"}
          BY <2>1, <3>3, <4>2 DEF RecoveriesEnd
        <5>2. QED
          BY <5>1 DEF ForksNoMore
      <4>3. QED
        BY <4>1, <4>2
    <3>4. QED
      BY <2>5, <3>1, <3>2, <3>3 DEF ForksNoMore
  <2>6. QED
    BY <2>2, <2>3, <2>4, <2>5, Zenon
<1>2. QED
  BY <1>1 DEF RowOfChild

\* What a recovery has read stays all there is of its rows.
Undisturbed(s) ==
  \A p \in recovery[s].procs :
    /\ p \in Wrks /\ life[p] = "dead" => life'[p] = "dead"
    /\ \A j \in Jobs : owner'[j] = p => owner[j] = p

LEMMA RecoveryKept ==
  ASSUME NEW s \in Sups, RecoveryOf(s), Undisturbed(s),
         recovery'[s] = recovery[s] \/ recovery'[s].procs = {}
  PROVE  RecoveryOf(s)'
<1>1. ASSUME NEW p \in recovery'[s].procs
      PROVE  /\ recovery'[s].op \in {"prune", "reap", "delete"}
             /\ recovery'[s].op = "prune" =>
                  \A j \in Jobs : owner'[j] = p => j \in recovery'[s].jobs
             /\ recovery'[s].op \in {"reap", "delete"} => p \in Wrks /\ life'[p] = "dead"
             /\ recovery'[s].op = "reap" =>
                  \A j \in Jobs : owner'[j] = p => j \in recovery'[s].jobs
             /\ recovery'[s].op = "delete" => \A j \in Jobs : owner'[j] # p
  <2>1. PICK r : r = recovery[s]
    OBVIOUS
  <2>2. recovery'[s] = r /\ p \in r.procs
    BY <1>1, <2>1
  <2>3. /\ r.op \in {"prune", "reap", "delete"}
        /\ r.op = "prune" => \A j \in Jobs : owner[j] = p => j \in r.jobs
        /\ r.op \in {"reap", "delete"} => p \in Wrks /\ life[p] = "dead"
        /\ r.op = "reap" => \A j \in Jobs : owner[j] = p => j \in r.jobs
        /\ r.op = "delete" => \A j \in Jobs : owner[j] # p
    BY <2>1, <2>2 DEF RecoveryOf
  <2>4. /\ \A j \in Jobs : owner'[j] = p => owner[j] = p
        /\ p \in Wrks /\ life[p] = "dead" => life'[p] = "dead"
    BY <2>1, <2>2 DEF Undisturbed
  <2>5. QED
    BY <2>2, <2>3, <2>4
<1>2. QED
  BY <1>1 DEF RecoveryOf

LEMMA UndisturbedByLoss ==
  ASSUME Typed, NEW s \in Sups, \A p \in Procs : life[p] = "dead" => life'[p] = "dead",
         \A j \in Jobs : owner'[j] \in {owner[j], NoProc}
  PROVE  Undisturbed(s)
<1>1. recovery[s].procs \subseteq Procs
  BY DEF Typed, Recoveries
<1>2. QED
  BY <1>1 DEF Undisturbed

LEMMA Frame ==
  ASSUME IInv, Typed', Winds, RowsGo, ClaimsGo, RecoveriesEnd,
         parent' = parent, stopReq \subseteq stopReq'
  PROVE  IInv'
<1>1. Typed /\ Registered /\ Attended /\ OneChild /\ RowOfChild /\ Recovering
  BY DEF IInv
<1>2. Registered' /\ Attended' /\ OneChild' /\ RowOfChild'
  BY <1>1, RegisteredKept, AttendedKept, OneChildKept, RowOfChildKept
<1>3. Recovering'
  <2>1. \A p \in Procs : life[p] = "dead" => life'[p] = "dead"
    BY DEF Winds
  <2>2. \A j \in Jobs : owner'[j] \in {owner[j], NoProc}
    BY DEF ClaimsGo
  <2>3. \A s \in Sups : recovery'[s] = recovery[s] \/ recovery'[s].procs = {}
    BY DEF RecoveriesEnd
  <2>4. QED
    BY <1>1, <2>1, <2>2, <2>3, UndisturbedByLoss, RecoveryKept DEF Recovering
<1>4. QED
  BY <1>2, <1>3 DEF IInv

\* The pools of the workers that go on keep their jobs.
PoolsStay == \A w \in Wrks : life'[w] = "running" => running[w] \subseteq running'[w]

LEMMA RowsUnchanged ==
  ASSUME rows' = rows, link' = link
  PROVE  RowsGo
BY DEF RowsGo

LEMMA ClaimsUnchanged ==
  ASSUME Typed, rows' = rows, owner' = owner, job' = job, PoolsStay
  PROVE  ClaimsGo
<1>1. ASSUME NEW j \in Jobs, owner[j] # NoProc PROVE owner[j] \in Wrks
  BY <1>1 DEF Typed
<1>2. QED
  BY <1>1 DEF ClaimsGo, PoolsStay

LEMMA FailedClaims ==
  ASSUME Typed, NEW J, Fail(J), rows' = rows, PoolsStay
  PROVE  /\ ClaimsGo
         /\ job' \in [Jobs -> {"ready", "claimed", "finished", "failed"}]
         /\ owner' \in [Jobs -> Wrks \cup {NoProc}]
<1>1. ASSUME NEW j \in Jobs, owner[j] # NoProc PROVE owner[j] \in Wrks
  BY <1>1 DEF Typed
<1>2. \A j \in Jobs : owner'[j] # NoProc => owner'[j] = owner[j] /\ job'[j] = job[j]
  BY DEF Fail
<1>3. ClaimsGo
  BY <1>1, <1>2 DEF ClaimsGo, PoolsStay
<1>4. QED
  BY <1>3 DEF Fail, Typed

LEMMA DeletedRows ==
  ASSUME Typed, NEW P, NEW J, DeleteRows(P, J), PoolsStay
  PROVE  /\ RowsGo /\ ClaimsGo
         /\ rows' \subseteq Procs
         /\ link' \in [Wrks -> Sups \cup {NoProc}]
         /\ job' \in [Jobs -> {"ready", "claimed", "finished", "failed"}]
         /\ owner' \in [Jobs -> Wrks \cup {NoProc}]
         /\ \A w \in Wrks \cap P : link'[w] = NoProc
<1>1. ASSUME NEW j \in Jobs, owner[j] # NoProc PROVE owner[j] \in Wrks
  BY <1>1 DEF Typed
<1>2. \A j \in Jobs : owner'[j] # NoProc =>
        owner'[j] = owner[j] /\ job'[j] = job[j] /\ owner[j] \notin P
  BY DEF DeleteRows
<1>3. rows' = rows \ P
  BY DEF DeleteRows
<1>4. ClaimsGo
  BY <1>1, <1>2, <1>3 DEF ClaimsGo, PoolsStay
<1>5. \A w \in Wrks : link'[w] # NoProc => link'[w] = link[w] /\ w \notin P /\ link[w] \notin P
  BY DEF DeleteRows
<1>6. RowsGo
  BY <1>3, <1>5 DEF RowsGo
<1>7. link' \in [Wrks -> Sups \cup {NoProc}]
  BY DEF DeleteRows, Typed
<1>8. job' \in [Jobs -> {"ready", "claimed", "finished", "failed"}]
  BY DEF DeleteRows, Typed
<1>9. owner' \in [Jobs -> Wrks \cup {NoProc}]
  BY DEF DeleteRows, Typed
<1>10. QED
  BY <1>3, <1>4, <1>5, <1>6, <1>7, <1>8, <1>9 DEF Typed

LEMMA IdleTyped == Idle \in Recoveries /\ Idle.procs = {}
BY DEF Idle, Recoveries

-----------------------------------------------------------------------------
(* The steps that start nothing, one by one.                               *)

LEMMA Unchanged ==
  ASSUME IInv, UNCHANGED vars
  PROVE  IInv'
BY DEF IInv, Typed, Registered, Attended, OneChild, RowOfChild, Recovering, RecoveryOf,
       Children, ForksNoMore, vars

\* Nothing but heartbeats, stop requests and the budget change.
LEMMA Signalled ==
  ASSUME IInv, stopReq \subseteq stopReq', stopReq' \subseteq Procs,
         UNCHANGED <<life, rows, link, parent, running, cleanup, job, owner, recovery>>
  PROVE  IInv'
<1>1. Typed
  BY DEF IInv
<1>2. Typed'
  BY <1>1 DEF Typed
<1>3. Winds /\ RecoveriesEnd /\ PoolsStay
  BY DEF Winds, RecoveriesEnd, PoolsStay
<1>4. RowsGo /\ ClaimsGo
  BY <1>1, <1>3, RowsUnchanged, ClaimsUnchanged
<1>5. QED
  BY <1>2, <1>3, <1>4, Frame

LEMMA StallInv ==
  ASSUME IInv, NEW p \in Procs, Stall(p)
  PROVE  IInv'
<1>1. Typed
  BY DEF IInv
<1>2. QED
  BY <1>1, Signalled DEF Stall, Typed

LEMMA BeatInv ==
  ASSUME IInv, NEW p \in Procs, Beat(p)
  PROVE  IInv'
<1>1. Typed
  BY DEF IInv
<1>2. stopReq' \in {stopReq, stopReq \cup {p}}
  BY DEF Beat
<1>3. stopReq \subseteq stopReq' /\ stopReq' \subseteq Procs
  BY <1>1, <1>2 DEF Typed
<1>4. QED
  BY <1>3, Signalled DEF Beat

LEMMA TerminateInv ==
  ASSUME IInv, NEW s \in Sups, Terminate(s)
  PROVE  IInv'
<1>1. Typed
  BY DEF IInv
<1>2. stopReq \subseteq stopReq' /\ stopReq' \subseteq Procs
  BY <1>1 DEF Terminate, Typed
<1>3. QED
  BY <1>2, Signalled DEF Terminate

\* Some of the living leave their loop or end, and take their threads along.
LEMMA Leave ==
  ASSUME IInv, Winds, life' \in [Procs -> Lives],
         stopReq \subseteq stopReq', stopReq' \subseteq Procs,
         running' \in [Wrks -> SUBSET Jobs], cleanup' \in [Wrks -> SUBSET Jobs], PoolsStay,
         recovery' \in [Sups -> Recoveries], RecoveriesEnd,
         UNCHANGED <<rows, link, parent, job, owner>>
  PROVE  IInv'
<1>1. Typed
  BY DEF IInv
<1>2. Typed'
  BY <1>1 DEF Typed
<1>3. RowsGo /\ ClaimsGo
  BY <1>1, RowsUnchanged, ClaimsUnchanged
<1>4. QED
  BY <1>2, <1>3, Frame

LEMMA RecoveriesUnchanged ==
  ASSUME recovery' = recovery
  PROVE  RecoveriesEnd
BY DEF RecoveriesEnd

LEMMA LeaveLoopInv ==
  ASSUME IInv, NEW p \in Procs, LeaveLoop(p)
  PROVE  IInv'
<1>1. Typed
  BY DEF IInv
<1>2. life' = [life EXCEPT ![p] = "stopping"] /\ life[p] = "running"
  BY DEF LeaveLoop
<1>3. Winds /\ life' \in [Procs -> Lives]
  BY <1>1, <1>2 DEF Winds, Typed, Lives
<1>4. stopReq \subseteq stopReq' /\ stopReq' \subseteq Procs
  BY <1>1 DEF LeaveLoop, Typed
<1>5. UNCHANGED <<rows, link, parent, running, cleanup, job, owner, recovery>>
  BY DEF LeaveLoop
<1>6. PoolsStay
  BY <1>5 DEF PoolsStay
<1>7. QED
  BY <1>1, <1>3, <1>4, <1>5, <1>6, RecoveriesUnchanged, Leave DEF Typed

LEMMA ClaimRefusedInv ==
  ASSUME IInv, NEW w \in Wrks, ClaimRefused(w)
  PROVE  IInv'
<1>1. Typed
  BY DEF IInv
<1>2. life' = [life EXCEPT ![w] = "stopping"] /\ life[w] = "running"
  BY DEF ClaimRefused
<1>3. Winds /\ life' \in [Procs -> Lives]
  BY <1>1, <1>2 DEF Winds, Typed, Lives
<1>5. UNCHANGED <<rows, link, parent, stopReq, running, cleanup, job, owner, recovery>>
  BY DEF ClaimRefused
<1>6. PoolsStay
  BY <1>5 DEF PoolsStay
<1>7. QED
  BY <1>1, <1>3, <1>5, <1>6, RecoveriesUnchanged, Leave DEF Typed

\* Processes of P die with their threads.
LEMMA Dies ==
  ASSUME Typed, NEW P \in SUBSET Procs,
         life' = [p \in Procs |-> IF p \in P THEN "dead" ELSE life[p]],
         \A p \in P : life[p] \in {"booting", "running", "stopping"},
         EndThreads(P)
  PROVE  /\ Winds /\ PoolsStay
         /\ life' \in [Procs -> Lives]
         /\ running' \in [Wrks -> SUBSET Jobs] /\ cleanup' \in [Wrks -> SUBSET Jobs]
<1>1. Winds
  BY DEF Winds
<1>2. life' \in [Procs -> Lives]
  BY DEF Typed, Lives
<1>3. \A w \in Wrks : life'[w] = "running" => w \notin P
  OBVIOUS
<1>4. \A w \in Wrks : w \notin P => running'[w] = running[w]
  BY DEF EndThreads
<1>5. PoolsStay
  BY <1>3, <1>4 DEF PoolsStay
<1>6. running' \in [Wrks -> SUBSET Jobs] /\ cleanup' \in [Wrks -> SUBSET Jobs]
  BY DEF EndThreads, Typed
<1>7. QED
  BY <1>1, <1>2, <1>5, <1>6

LEMMA TimeoutExitInv ==
  ASSUME IInv, NEW w \in Wrks, TimeoutExit(w)
  PROVE  IInv'
<1>1. Typed
  BY DEF IInv
<1>2. /\ life' = [p \in Procs |-> IF p \in {w} THEN "dead" ELSE life[p]]
      /\ \A p \in {w} : life[p] \in {"booting", "running", "stopping"}
  BY <1>1 DEF TimeoutExit, Die, Typed
<1>3. /\ EndThreads({w})
      /\ UNCHANGED <<rows, link, parent, stopReq, job, owner, recovery>>
  BY DEF TimeoutExit
<1>4. /\ Winds /\ PoolsStay
      /\ life' \in [Procs -> Lives]
      /\ running' \in [Wrks -> SUBSET Jobs] /\ cleanup' \in [Wrks -> SUBSET Jobs]
  BY <1>1, <1>2, <1>3, Dies
<1>5. QED
  BY <1>1, <1>3, <1>4, RecoveriesUnchanged, Leave DEF Typed

LEMMA KillChildInv ==
  ASSUME IInv, NEW s \in Sups, NEW w \in Wrks, KillChild(s, w)
  PROVE  IInv'
<1>1. Typed /\ OneChild
  BY DEF IInv
<1>2. life[w] # "unborn"
  BY <1>1 DEF KillChild, OneChild
<1>3. /\ life' = [p \in Procs |-> IF p \in {w} THEN "dead" ELSE life[p]]
      /\ \A p \in {w} : life[p] \in {"booting", "running", "stopping"}
  BY <1>1, <1>2 DEF KillChild, Die, Typed, Lives
<1>4. /\ EndThreads({w})
      /\ UNCHANGED <<rows, link, parent, stopReq, job, owner, recovery>>
  BY DEF KillChild
<1>5. /\ Winds /\ PoolsStay
      /\ life' \in [Procs -> Lives]
      /\ running' \in [Wrks -> SUBSET Jobs] /\ cleanup' \in [Wrks -> SUBSET Jobs]
  BY <1>1, <1>3, <1>4, Dies
<1>6. QED
  BY <1>1, <1>4, <1>5, RecoveriesUnchanged, Leave DEF Typed

LEMMA KillInv ==
  ASSUME IInv, NEW p \in Procs, Kill(p)
  PROVE  IInv'
<1>1. Typed
  BY DEF IInv
<1>2. /\ life' = [q \in Procs |-> IF q \in {p} THEN "dead" ELSE life[q]]
      /\ \A q \in {p} : life[q] \in {"booting", "running", "stopping"}
  BY <1>1 DEF Kill, Die, Typed
<1>3. /\ EndThreads({p})
      /\ UNCHANGED <<rows, link, parent, stopReq, job, owner>>
      /\ recovery' = [s \in Sups |-> IF s = p THEN Idle ELSE recovery[s]]
  BY DEF Kill
<1>4. /\ Winds /\ PoolsStay
      /\ life' \in [Procs -> Lives]
      /\ running' \in [Wrks -> SUBSET Jobs] /\ cleanup' \in [Wrks -> SUBSET Jobs]
  BY <1>1, <1>2, <1>3, Dies
<1>5. life'[p] = "dead"
  BY <1>2
<1>6. recovery' \in [Sups -> Recoveries] /\ RecoveriesEnd
  BY <1>1, <1>3, <1>5, IdleTyped DEF RecoveriesEnd, Typed
<1>7. QED
  BY <1>1, <1>3, <1>4, <1>6, Leave DEF Typed

LEMMA KillHostInv ==
  ASSUME IInv, NEW s \in Sups, NEW w \in Wrks, KillHost(s, w)
  PROVE  IInv'
<1>1. Typed
  BY DEF IInv
<1>2. /\ life' = [q \in Procs |-> IF q \in {s, w} THEN "dead" ELSE life[q]]
      /\ \A q \in {s, w} : life[q] \in {"booting", "running", "stopping"}
  BY <1>1 DEF KillHost, Typed
<1>3. /\ EndThreads({w})
      /\ UNCHANGED <<rows, link, parent, stopReq, job, owner>>
      /\ recovery' = [recovery EXCEPT ![s] = Idle]
  BY DEF KillHost
<1>4. EndThreads({s, w})
  BY <1>3 DEF EndThreads
<1>5. /\ Winds /\ PoolsStay
      /\ life' \in [Procs -> Lives]
      /\ running' \in [Wrks -> SUBSET Jobs] /\ cleanup' \in [Wrks -> SUBSET Jobs]
  BY <1>1, <1>2, <1>4, Dies
<1>6. life'[s] = "dead"
  BY <1>2
<1>7. recovery' \in [Sups -> Recoveries] /\ RecoveriesEnd
  BY <1>1, <1>3, <1>6, IdleTyped DEF RecoveriesEnd, Typed
<1>8. QED
  BY <1>1, <1>3, <1>5, <1>7, Leave DEF Typed

LEMMA NothingToReapInv ==
  ASSUME IInv, NEW s \in Sups, NothingToReap(s)
  PROVE  IInv'
<1>1. Typed
  BY DEF IInv
<1>2. /\ recovery' = [recovery EXCEPT ![s] = Idle] /\ recovery[s].op = "children"
      /\ UNCHANGED <<life, rows, link, parent, stopReq, running, cleanup, job, owner>>
  BY DEF NothingToReap
<1>3. recovery' \in [Sups -> Recoveries] /\ RecoveriesEnd
  BY <1>1, <1>2, IdleTyped DEF RecoveriesEnd, Typed
<1>4. Winds /\ PoolsStay
  BY <1>2 DEF Winds, PoolsStay
<1>5. QED
  BY <1>1, <1>2, <1>3, <1>4, Leave DEF Typed

\* A claim that names a process is a claim: its job can be settled.
LEMMA OwnedIsClaimed ==
  ASSUME IInv, NEW j \in Jobs, owner[j] # NoProc
  PROVE  job[j] = "claimed" /\ owner[j] \in Wrks
BY DEF IInv, Attended, Typed

LEMMA EndTaskInv ==
  ASSUME IInv, NEW w \in Wrks, NEW j \in Jobs, NEW outcome \in {"finished", "failed"},
         EndTask(w, j, outcome)
  PROVE  IInv'
<1>1. Typed
  BY DEF IInv
<1>2. /\ running' = [running EXCEPT ![w] = @ \ {j}]
      /\ UNCHANGED <<life, rows, link, parent, stopReq, recovery>>
  BY DEF EndTask
<1>3. /\ job' \in [Jobs -> {"ready", "claimed", "finished", "failed"}]
      /\ owner' \in [Jobs -> Wrks \cup {NoProc}]
      /\ cleanup' \in [Wrks -> SUBSET Jobs]
  BY <1>1 DEF EndTask, Typed
<1>4. running' \in [Wrks -> SUBSET Jobs]
  BY <1>1, <1>2 DEF Typed
<1>5. Typed'
  BY <1>1, <1>2, <1>3, <1>4 DEF Typed
<1>6. owner'[j] = NoProc
  BY <1>1, OwnedIsClaimed DEF EndTask, Typed
<1>7. \A i \in Jobs \ {j} : owner'[i] = owner[i] /\ job'[i] = job[i]
  BY <1>1 DEF EndTask, Typed
<1>8. \A i \in Jobs \ {j}, v \in Wrks : i \in running[v] => i \in running'[v]
  BY <1>1, <1>2 DEF Typed
<1>9. ClaimsGo
  BY <1>2, <1>6, <1>7, <1>8, OwnedIsClaimed DEF ClaimsGo
<1>10. Winds /\ RecoveriesEnd /\ RowsGo
  BY <1>2, RecoveriesUnchanged, RowsUnchanged DEF Winds
<1>11. QED
  BY <1>2, <1>5, <1>9, <1>10, Frame

LEMMA CleanUpInv ==
  ASSUME IInv, NEW w \in Wrks, NEW j \in Jobs, CleanUp(w, j)
  PROVE  IInv'
<1>1. Typed
  BY DEF IInv
<1>2. /\ cleanup' = [cleanup EXCEPT ![w] = @ \ {j}]
      /\ stopReq' = stopReq \cup {w}
      /\ UNCHANGED <<life, rows, link, parent, running, recovery>>
  BY DEF CleanUp
<1>3. PICK J : Fail(J)
  BY DEF CleanUp
<1>4. PoolsStay
  BY <1>2 DEF PoolsStay
<1>5. /\ ClaimsGo
      /\ job' \in [Jobs -> {"ready", "claimed", "finished", "failed"}]
      /\ owner' \in [Jobs -> Wrks \cup {NoProc}]
  BY <1>1, <1>2, <1>3, <1>4, FailedClaims
<1>6. cleanup' \in [Wrks -> SUBSET Jobs] /\ stopReq' \subseteq Procs
  BY <1>1, <1>2 DEF Typed
<1>7. Typed'
  BY <1>1, <1>2, <1>5, <1>6 DEF Typed
<1>8. Winds /\ RecoveriesEnd /\ RowsGo
  BY <1>2, RecoveriesUnchanged, RowsUnchanged DEF Winds
<1>9. QED
  BY <1>2, <1>5, <1>7, <1>8, Frame

LEMMA DrainedExitInv ==
  ASSUME IInv, NEW w \in Wrks, DrainedExit(w)
  PROVE  IInv'
<1>1. Typed
  BY DEF IInv
<1>2. /\ DeleteRows({w}, {})
      /\ life' = [life EXCEPT ![w] = "dead"] /\ life[w] = "stopping"
      /\ UNCHANGED <<parent, stopReq, running, cleanup, recovery>>
  BY DEF DrainedExit, Die
<1>3. Winds /\ life' \in [Procs -> Lives]
  BY <1>1, <1>2 DEF Winds, Typed, Lives
<1>4. PoolsStay
  BY <1>2 DEF PoolsStay
<1>5. /\ RowsGo /\ ClaimsGo
      /\ rows' \subseteq Procs
      /\ link' \in [Wrks -> Sups \cup {NoProc}]
      /\ job' \in [Jobs -> {"ready", "claimed", "finished", "failed"}]
      /\ owner' \in [Jobs -> Wrks \cup {NoProc}]
  BY <1>1, <1>2, <1>4, DeletedRows
<1>6. Typed'
  BY <1>1, <1>2, <1>3, <1>5 DEF Typed
<1>7. QED
  BY <1>2, <1>3, <1>5, <1>6, RecoveriesUnchanged, Frame

LEMMA PruneCommitInv ==
  ASSUME IInv, NEW s \in Sups, PruneCommit(s)
  PROVE  IInv'
<1>1. Typed
  BY DEF IInv
<1>2. /\ recovery' = [recovery EXCEPT ![s] = [Idle EXCEPT !.op = "children"]]
      /\ recovery[s].op = "prune"
      /\ UNCHANGED <<life, parent, stopReq, running, cleanup>>
  BY DEF PruneCommit
<1>3. Winds /\ PoolsStay
  BY <1>2 DEF Winds, PoolsStay
<1>4. [Idle EXCEPT !.op = "children"] \in Recoveries /\ [Idle EXCEPT !.op = "children"].procs = {}
  BY DEF Idle, Recoveries
<1>5. recovery' \in [Sups -> Recoveries] /\ RecoveriesEnd
  BY <1>1, <1>2, <1>4 DEF RecoveriesEnd, Typed
<1>6. CASE UNCHANGED <<rows, link, owner, job>>
  BY <1>1, <1>2, <1>3, <1>5, <1>6, Leave DEF Typed
<1>7. CASE DeleteRows(recovery[s].procs, recovery[s].jobs)
  <2>1. /\ RowsGo /\ ClaimsGo
        /\ rows' \subseteq Procs
        /\ link' \in [Wrks -> Sups \cup {NoProc}]
        /\ job' \in [Jobs -> {"ready", "claimed", "finished", "failed"}]
        /\ owner' \in [Jobs -> Wrks \cup {NoProc}]
    BY <1>1, <1>3, <1>7, DeletedRows
  <2>2. Typed'
    BY <1>1, <1>2, <1>5, <2>1 DEF Typed
  <2>3. QED
    BY <1>2, <1>3, <1>5, <2>1, <2>2, Frame
<1>8. QED
  BY <1>6, <1>7 DEF PruneCommit

LEMMA ReapDeleteInv ==
  ASSUME IInv, NEW s \in Sups, ReapDelete(s)
  PROVE  IInv'
<1>1. Typed
  BY DEF IInv
<1>2. /\ recovery' = [recovery EXCEPT ![s] = Idle]
      /\ DeleteRows(recovery[s].procs, {})
      /\ UNCHANGED <<life, parent, stopReq, running, cleanup>>
  BY DEF ReapDelete
<1>3. Winds /\ PoolsStay
  BY <1>2 DEF Winds, PoolsStay
<1>4. /\ RowsGo /\ ClaimsGo
      /\ rows' \subseteq Procs
      /\ link' \in [Wrks -> Sups \cup {NoProc}]
      /\ job' \in [Jobs -> {"ready", "claimed", "finished", "failed"}]
      /\ owner' \in [Jobs -> Wrks \cup {NoProc}]
      /\ \A v \in Wrks \cap recovery[s].procs : link'[v] = NoProc
  BY <1>1, <1>2, <1>3, DeletedRows
<1>5. recovery' \in [Sups -> Recoveries]
  BY <1>1, <1>2, IdleTyped DEF Typed
<1>6. RecoveriesEnd
  BY <1>1, <1>2, <1>4, IdleTyped DEF RecoveriesEnd, Typed
<1>7. Typed'
  BY <1>1, <1>2, <1>4, <1>5 DEF Typed
<1>8. QED
  BY <1>2, <1>3, <1>4, <1>6, <1>7, Frame

LEMMA FinishStopInv ==
  ASSUME IInv, NEW s \in Sups, FinishStop(s)
  PROVE  IInv'
<1>1. Typed
  BY DEF IInv
<1>2. /\ recovery' = [recovery EXCEPT ![s] = Idle]
      /\ life' = [life EXCEPT ![s] = "dead"] /\ life[s] = "stopping"
      /\ UNCHANGED <<parent, stopReq, running, cleanup>>
  BY DEF FinishStop, Die
<1>3. Winds /\ life' \in [Procs -> Lives] /\ life'[s] = "dead"
  BY <1>1, <1>2 DEF Winds, Typed, Lives
<1>4. PoolsStay
  BY <1>2 DEF PoolsStay
<1>5. recovery' \in [Sups -> Recoveries] /\ RecoveriesEnd
  BY <1>1, <1>2, <1>3, IdleTyped DEF RecoveriesEnd, Typed
<1>6. CASE UNCHANGED <<rows, link, owner, job>>
  BY <1>1, <1>2, <1>3, <1>4, <1>5, <1>6, Leave DEF Typed
<1>7. CASE DeleteRows({s}, {})
  <2>1. /\ RowsGo /\ ClaimsGo
        /\ rows' \subseteq Procs
        /\ link' \in [Wrks -> Sups \cup {NoProc}]
        /\ job' \in [Jobs -> {"ready", "claimed", "finished", "failed"}]
        /\ owner' \in [Jobs -> Wrks \cup {NoProc}]
    BY <1>1, <1>4, <1>7, DeletedRows
  <2>2. Typed'
    BY <1>1, <1>2, <1>3, <1>5, <2>1 DEF Typed
  <2>3. QED
    BY <1>2, <1>3, <1>5, <2>1, <2>2, Frame
<1>8. QED
  BY <1>6, <1>7 DEF FinishStop

LEMMA RetryInv ==
  ASSUME IInv, NEW j \in Jobs, Retry(j)
  PROVE  IInv'
<1>1. Typed
  BY DEF IInv
<1>2. /\ job[j] = "failed" /\ job' = [job EXCEPT ![j] = "ready"]
      /\ UNCHANGED <<life, rows, link, parent, stopReq, running, cleanup, owner, recovery>>
  BY DEF Retry
<1>3. Typed'
  BY <1>1, <1>2 DEF Typed
<1>4. owner[j] = NoProc
  BY <1>2, OwnedIsClaimed
<1>5. \A i \in Jobs : owner'[i] # NoProc => job'[i] = job[i]
  BY <1>1, <1>2, <1>4 DEF Typed
<1>6. ClaimsGo
  BY <1>2, <1>5 DEF ClaimsGo
<1>7. Winds /\ RecoveriesEnd /\ RowsGo
  BY <1>2, RecoveriesUnchanged, RowsUnchanged DEF Winds
<1>8. QED
  BY <1>2, <1>3, <1>6, <1>7, Frame

\* The claims of the dead worker have failed: none refers to its row now.
LEMMA ReapFailInv ==
  ASSUME IInv, NEW s \in Sups, ReapFail(s)
  PROVE  IInv'
<1>1. Typed /\ Registered /\ Attended /\ OneChild /\ RowOfChild /\ Recovering
  BY DEF IInv
<1>2. /\ recovery[s].op = "reap" /\ life[s] \in {"running", "stopping"}
      /\ UNCHANGED <<rows, link, parent, running, cleanup>>
  BY DEF ReapFail
<1>3. PoolsStay /\ RowsGo
  BY <1>2, RowsUnchanged DEF PoolsStay
<1>4. CASE /\ recovery' = [recovery EXCEPT ![s] = Idle]
           /\ UNCHANGED <<job, owner>>
           /\ \/ stopReq' = stopReq \cup {s} /\ life' = life
              \/ Die(s) /\ stopReq' = stopReq
  <2>1. Winds /\ life' \in [Procs -> Lives] /\ (s \in stopReq' \/ life'[s] = "dead")
    BY <1>1, <1>2, <1>4 DEF Winds, Typed, Die, Lives
  <2>2. stopReq \subseteq stopReq' /\ stopReq' \subseteq Procs
    BY <1>1, <1>4 DEF Typed
  <2>3. recovery' \in [Sups -> Recoveries] /\ RecoveriesEnd
    BY <1>1, <1>4, <2>1, IdleTyped DEF RecoveriesEnd, Typed
  <2>4. QED
    BY <1>1, <1>2, <1>3, <1>4, <2>1, <2>2, <2>3, Leave DEF Typed
<1>5. CASE /\ Fail(recovery[s].jobs)
           /\ recovery' = [recovery EXCEPT ![s].op = "delete"]
           /\ UNCHANGED <<life, stopReq>>
  <2>1. /\ ClaimsGo
        /\ job' \in [Jobs -> {"ready", "claimed", "finished", "failed"}]
        /\ owner' \in [Jobs -> Wrks \cup {NoProc}]
    BY <1>1, <1>2, <1>3, <1>5, FailedClaims
  <2>2. /\ recovery'[s].op = "delete" /\ recovery'[s].procs = recovery[s].procs
        /\ \A t \in Sups \ {s} : recovery'[t] = recovery[t]
        /\ recovery' \in [Sups -> Recoveries]
    BY <1>1, <1>5 DEF Typed, Recoveries
  <2>3. Typed'
    BY <1>1, <1>2, <1>5, <2>1, <2>2 DEF Typed
  <2>4. Winds
    BY <1>5 DEF Winds
  <2>5. Registered' /\ Attended' /\ OneChild'
    BY <1>1, <1>2, <1>3, <2>1, <2>4, RegisteredKept, AttendedKept, OneChildKept
  <2>6. \A t \in Sups, v \in Wrks : ForksNoMore(t, v) => ForksNoMore(t, v)'
    BY <1>5, <2>2 DEF ForksNoMore
  <2>7. RowOfChild'
    BY <1>1, <1>2, <1>5, <2>6 DEF RowOfChild, Children
  <2>8. \A j \in Jobs : owner'[j] \in {owner[j], NoProc}
    BY <2>1 DEF ClaimsGo
  <2>9. ASSUME NEW p \in recovery'[s].procs
        PROVE  p \in Wrks /\ life'[p] = "dead" /\ \A j \in Jobs : owner'[j] # p
    <3>1. p \in Wrks /\ life[p] = "dead" /\ \A j \in Jobs : owner[j] = p => j \in recovery[s].jobs
      BY <1>1, <1>2, <2>2 DEF Recovering, RecoveryOf
    <3>2. \A j \in recovery[s].jobs \cap Jobs : owner'[j] = NoProc
      BY <1>5 DEF Fail
    <3>3. QED
      BY <1>5, <2>8, <3>1, <3>2
  <2>10. RecoveryOf(s)'
    BY <2>2, <2>9 DEF RecoveryOf
  <2>11. \A t \in Sups \ {s} : RecoveryOf(t)'
    BY <1>1, <1>5, <2>2, <2>8, UndisturbedByLoss, RecoveryKept DEF Recovering
  <2>12. QED
    BY <2>3, <2>5, <2>7, <2>10, <2>11 DEF IInv, Recovering
<1>6. QED
  BY <1>4, <1>5 DEF ReapFail

-----------------------------------------------------------------------------
(* The steps that start something: claims, rows, processes, recoveries.    *)

\* A worker that may claim is not the business of any recovery: a prune would
\* have its row locked, and a reap its process dead.
LEMMA ClaimantNotRecovered ==
  ASSUME IInv, NEW w \in Wrks, NEW J, MayClaim(w, J), NEW s \in Sups
  PROVE  w \notin recovery[s].procs
<1>1. RecoveryOf(s)
  BY DEF IInv, Recovering
<1>2. life[w] = "running" /\ ~(recovery[s].op = "prune" /\ w \in recovery[s].procs)
  BY DEF MayClaim, Locked
<1>3. QED
  BY <1>1, <1>2 DEF RecoveryOf

LEMMA ClaimedInv ==
  ASSUME IInv, NEW w \in Wrks, NEW J \in SUBSET Jobs, MayClaim(w, J), CreateClaims(w, J),
         \/ Submit(w, J) /\ life' = life
         \/ running' = running /\ life' = [life EXCEPT ![w] = "stopping"],
         UNCHANGED <<rows, link, parent, stopReq, cleanup, recovery>>
  PROVE  IInv'
<1>1. Typed /\ Registered /\ Attended /\ OneChild /\ RowOfChild /\ Recovering
  BY DEF IInv
<1>2. life[w] = "running" /\ w \in rows /\ \A j \in J : job[j] = "ready"
  BY DEF MayClaim
<1>3. /\ job' \in [Jobs -> {"ready", "claimed", "finished", "failed"}]
      /\ owner' \in [Jobs -> Wrks \cup {NoProc}]
  BY <1>1 DEF CreateClaims, Typed
<1>4. running' \in [Wrks -> SUBSET Jobs] /\ life' \in [Procs -> Lives]
  BY <1>1 DEF Submit, Typed, Lives
<1>5. Typed'
  BY <1>1, <1>3, <1>4 DEF Typed
<1>6. Winds
  BY <1>1, <1>2 DEF Winds, Typed
<1>7. Registered' /\ OneChild' /\ RowOfChild'
  BY <1>1, <1>6, RowsUnchanged, RecoveriesUnchanged, RegisteredKept, OneChildKept, RowOfChildKept
<1>8. ASSUME NEW j \in Jobs, owner'[j] # NoProc
      PROVE  /\ job'[j] = "claimed" /\ owner'[j] \in rows'
             /\ life'[owner'[j]] = "running" => j \in running'[owner'[j]]
  <2>1. CASE j \in J
    <3>1. job'[j] = "claimed" /\ owner'[j] = w
      BY <2>1 DEF CreateClaims
    <3>2. life'[w] = "running" => j \in running'[w]
      BY <1>1, <2>1 DEF Submit, Typed
    <3>3. QED
      BY <1>2, <3>1, <3>2
  <2>2. CASE j \notin J
    <3>1. job'[j] = job[j] /\ owner'[j] = owner[j]
      BY <2>2 DEF CreateClaims
    <3>2. PICK v \in Wrks : v = owner[j]
      BY <1>8, <3>1, OwnedIsClaimed
    <3>3. /\ job[j] = "claimed" /\ v \in rows
          /\ life[v] = "running" => j \in running[v]
      BY <1>1, <1>8, <3>1, <3>2 DEF Attended
    <3>4. life'[v] = "running" => life[v] = "running"
      BY <1>6 DEF Winds
    <3>5. running[v] \subseteq running'[v]
      BY <1>1 DEF Submit, Typed
    <3>6. QED
      BY <3>1, <3>2, <3>3, <3>4, <3>5
  <2>3. QED
    BY <2>1, <2>2
<1>9. Attended'
  BY <1>8 DEF Attended
<1>10. ASSUME NEW s \in Sups PROVE RecoveryOf(s)'
  <2>1. w \notin recovery[s].procs
    BY ClaimantNotRecovered
  <2>2. \A j \in Jobs : owner'[j] \in {owner[j], w}
    BY DEF CreateClaims
  <2>3. \A p \in Procs : life[p] = "dead" => life'[p] = "dead"
    BY <1>6 DEF Winds
  <2>4. Undisturbed(s)
    BY <2>1, <2>2, <2>3 DEF Undisturbed
  <2>5. QED
    BY <1>1, <2>4, RecoveryKept DEF Recovering
<1>11. QED
  BY <1>5, <1>7, <1>9, <1>10 DEF IInv, Recovering

LEMMA ClaimInv ==
  ASSUME IInv, NEW w \in Wrks, NEW J \in SUBSET Jobs, Claim(w, J)
  PROVE  IInv'
<1>1. /\ MayClaim(w, J) /\ CreateClaims(w, J) /\ Submit(w, J) /\ life' = life
      /\ UNCHANGED <<rows, link, parent, stopReq, cleanup, recovery>>
  BY DEF Claim
<1>2. QED
  BY <1>1, ClaimedInv

LEMMA LoseAnswerInv ==
  ASSUME IInv, NEW w \in Wrks, NEW J \in SUBSET Jobs, LoseAnswer(w, J)
  PROVE  IInv'
<1>1. /\ MayClaim(w, J) /\ CreateClaims(w, J) /\ running' = running
      /\ life' = [life EXCEPT ![w] = "stopping"]
      /\ UNCHANGED <<rows, link, parent, stopReq, cleanup, recovery>>
  BY DEF LoseAnswer
<1>2. QED
  BY <1>1, ClaimedInv

LEMMA BootInv ==
  ASSUME IInv, NEW w \in Wrks, Boot(w)
  PROVE  IInv'
<1>1. Typed /\ Registered /\ Attended /\ OneChild /\ RowOfChild /\ Recovering
  BY DEF IInv
<1>2. /\ life[w] = "booting"
      /\ UNCHANGED <<parent, stopReq, running, cleanup, job, owner, recovery>>
  BY DEF Boot
<1>3. CASE life' = [life EXCEPT ![w] = "dead"] /\ UNCHANGED <<rows, link>>
  <2>1. Winds /\ life' \in [Procs -> Lives] /\ PoolsStay
    BY <1>1, <1>2, <1>3 DEF Winds, Typed, Lives, PoolsStay
  <2>2. QED
    BY <1>1, <1>2, <1>3, <2>1, RecoveriesUnchanged, Leave DEF Typed
<1>4. CASE /\ parent[w] \in rows
           /\ life' = [life EXCEPT ![w] = "running"]
           /\ rows' = rows \cup {w}
           /\ link' = [link EXCEPT ![w] = parent[w]]
  <2>1. PICK s \in Sups : s = parent[w]
    BY <1>1, <1>2 DEF OneChild, Typed
  <2>2. w \notin rows /\ life[s] \notin {"unborn", "booting"}
    BY <1>1, <1>2, <2>1 DEF Registered, OneChild
  <2>3. life' \in [Procs -> Lives] /\ link' \in [Wrks -> Sups \cup {NoProc}] /\ rows' \subseteq Procs
    BY <1>1, <1>4, <2>1 DEF Typed, Lives
  <2>4. Typed'
    BY <1>1, <1>2, <2>3 DEF Typed
  <2>5. /\ life'[w] = "running" /\ \A p \in Procs \ {w} : life'[p] = life[p]
        /\ link'[w] = s /\ \A v \in Wrks \ {w} : link'[v] = link[v]
    BY <1>1, <1>4, <2>1 DEF Typed
  <2>6. Registered'
    BY <1>1, <1>4, <2>1, <2>5 DEF Registered
  <2>7. \A j \in Jobs : owner[j] # NoProc => owner[j] \in Procs \ {w}
    BY <1>1, <2>2 DEF Attended, Typed
  <2>8. Attended'
    BY <1>1, <1>2, <1>4, <2>5, <2>7 DEF Attended
  <2>9. \A v \in Wrks : parent[v] # NoProc => parent[v] \in Procs \ {w}
    BY <1>1 DEF Typed
  <2>10. OneChild'
    BY <1>1, <1>2, <2>5, <2>9 DEF OneChild
  <2>11. ASSUME NEW v \in Wrks, NEW t \in Sups, link'[v] = t
         PROVE  /\ life'[t] # "booting"
                /\ parent'[v] = t \/ (Children(t)' = {} /\ ForksNoMore(t, v)')
    <3>1. CASE v = w
      BY <1>2, <2>1, <2>2, <2>5, <2>11, <3>1
    <3>2. CASE v # w
      <4>1. /\ life[t] # "booting"
            /\ parent[v] = t \/ (Children(t) = {} /\ ForksNoMore(t, v))
        BY <1>1, <2>5, <2>11, <3>2 DEF RowOfChild
      <4>2. life'[t] = life[t]
        BY <2>5
      <4>3. Children(t)' = Children(t) /\ (ForksNoMore(t, v) => ForksNoMore(t, v)')
        BY <1>2, <4>2 DEF Children, ForksNoMore
      <4>4. QED
        BY <1>2, <4>1, <4>2, <4>3
    <3>3. QED
      BY <3>1, <3>2
  <2>12. RowOfChild'
    BY <2>11 DEF RowOfChild
  <2>13. \A p \in Procs : life[p] = "dead" => life'[p] = "dead"
    BY <1>2, <2>5
  <2>14. Recovering'
    BY <1>1, <1>2, <2>13, UndisturbedByLoss, RecoveryKept DEF Recovering
  <2>15. QED
    BY <2>4, <2>6, <2>8, <2>10, <2>12, <2>14 DEF IInv
<1>5. QED
  BY <1>3, <1>4 DEF Boot, Die

LEMMA StartSupervisorInv ==
  ASSUME IInv, NEW s \in Sups, StartSupervisor(s)
  PROVE  IInv'
<1>1. Typed /\ Registered /\ Attended /\ OneChild /\ RowOfChild /\ Recovering
  BY DEF IInv
<1>2. /\ life[s] = "unborn"
      /\ UNCHANGED <<link, parent, stopReq, running, cleanup, job, owner, recovery>>
  BY DEF StartSupervisor
<1>3. CASE life' = [life EXCEPT ![s] = "dead"] /\ UNCHANGED rows
  <2>1. Winds /\ life' \in [Procs -> Lives] /\ PoolsStay
    BY <1>1, <1>2, <1>3 DEF Winds, Typed, Lives, PoolsStay
  <2>2. QED
    BY <1>1, <1>2, <1>3, <2>1, RecoveriesUnchanged, Leave DEF Typed
<1>4. CASE life' = [life EXCEPT ![s] = "booting"] /\ rows' = rows \cup {s}
  <2>1. life' \in [Procs -> Lives] /\ rows' \subseteq Procs
    BY <1>1, <1>4 DEF Typed, Lives
  <2>2. Typed'
    BY <1>1, <1>2, <2>1 DEF Typed
  <2>3. life'[s] = "booting" /\ \A p \in Procs \ {s} : life'[p] = life[p]
    BY <1>1, <1>4 DEF Typed
  <2>4. Registered'
    BY <1>1, <1>2, <1>4, <2>3 DEF Registered
  <2>5. \A j \in Jobs : owner[j] # NoProc => owner[j] \in Procs \ {s}
    BY <1>1 DEF Typed
  <2>6. Attended'
    BY <1>1, <1>2, <1>4, <2>3, <2>5 DEF Attended
  <2>7. \A v \in Wrks : parent[v] # NoProc => parent[v] \in Procs \ {s}
    BY <1>1, <1>2 DEF Typed, OneChild
  <2>8. OneChild'
    BY <1>1, <1>2, <2>3, <2>7 DEF OneChild
  <2>9. ASSUME NEW v \in Wrks, NEW t \in Sups, link'[v] = t
        PROVE  /\ life'[t] # "booting"
               /\ parent'[v] = t \/ (Children(t)' = {} /\ ForksNoMore(t, v)')
    <3>1. /\ life[t] # "booting"
          /\ parent[v] = t \/ (Children(t) = {} /\ ForksNoMore(t, v))
      BY <1>1, <1>2, <2>9 DEF RowOfChild
    <3>2. t # s
      BY <1>1, <1>2, <2>9 DEF Registered
    <3>3. life'[t] = life[t]
      BY <2>3, <3>2
    <3>4. Children(t)' = Children(t) /\ (ForksNoMore(t, v) => ForksNoMore(t, v)')
      BY <1>2, <3>3 DEF Children, ForksNoMore
    <3>5. QED
      BY <1>2, <3>1, <3>3, <3>4
  <2>10. RowOfChild'
    BY <2>9 DEF RowOfChild
  <2>11. \A p \in Procs : life[p] = "dead" => life'[p] = "dead"
    BY <1>2, <2>3
  <2>12. Recovering'
    BY <1>1, <1>2, <2>11, UndisturbedByLoss, RecoveryKept DEF Recovering
  <2>13. QED
    BY <2>2, <2>4, <2>6, <2>8, <2>10, <2>12 DEF IInv
<1>5. QED
  BY <1>3, <1>4 DEF StartSupervisor, Die

\* A supervisor with no worker, and no row of one, forks the workers W: one,
\* or none when no incarnation is left.
LEMMA ForkedInv ==
  ASSUME IInv, NEW s \in Sups, NEW W \in SUBSET Wrks, \A v, w \in W : v = w,
         \A w \in W : life[w] = "unborn",
         life[s] \in {"booting", "running"}, Children(s) = {}, \A v \in Wrks : link[v] # s,
         life' = [p \in Procs |-> IF p = s THEN "running"
                                  ELSE IF p \in W THEN "booting" ELSE life[p]],
         parent' = [v \in Wrks |-> IF v \in W THEN s ELSE parent[v]],
         job' \in [Jobs -> {"ready", "claimed", "finished", "failed"}],
         owner' \in [Jobs -> Wrks \cup {NoProc}],
         \A j \in Jobs : owner'[j] # NoProc => owner'[j] = owner[j] /\ job'[j] = job[j],
         recovery' \in [Sups -> Recoveries],
         recovery'[s] = recovery[s] \/ recovery'[s].procs = {},
         \A t \in Sups \ {s} : recovery'[t] = recovery[t],
         UNCHANGED <<rows, link, stopReq, running, cleanup>>
  PROVE  IInv'
<1>1. Typed /\ Registered /\ Attended /\ OneChild /\ RowOfChild /\ Recovering
  BY DEF IInv
<1>2. life' \in [Procs -> Lives] /\ parent' \in [Wrks -> Sups \cup {NoProc}]
  BY <1>1 DEF Typed, Lives
<1>3. Typed'
  BY <1>1, <1>2 DEF Typed
<1>4. /\ life'[s] = "running" /\ \A w \in W : life'[w] = "booting" /\ parent'[w] = s
      /\ \A p \in Procs : p # s /\ p \notin W => life'[p] = life[p]
      /\ \A v \in Wrks \ W : parent'[v] = parent[v]
  OBVIOUS
<1>5. \A w \in W : w \notin rows /\ link[w] = NoProc /\ parent[w] = NoProc
  BY <1>1 DEF Registered, OneChild
<1>6. Registered'
  <2>1. \A t \in rows \cap Sups : life'[t] # "unborn"
    BY <1>1, <1>4, <1>5 DEF Registered
  <2>2. \A w \in rows \cap Wrks : life'[w] \notin {"unborn", "booting"}
    BY <1>1, <1>4, <1>5 DEF Registered
  <2>3. QED
    BY <1>1, <2>1, <2>2 DEF Registered
<1>7. ASSUME NEW j \in Jobs, owner'[j] # NoProc
      PROVE  /\ job'[j] = "claimed" /\ owner'[j] \in rows'
             /\ life'[owner'[j]] = "running" => j \in running'[owner'[j]]
  <2>1. PICK v \in Wrks : v = owner[j] /\ v = owner'[j]
    BY <1>7, OwnedIsClaimed
  <2>2. /\ job[j] = "claimed" /\ v \in rows
        /\ life[v] = "running" => j \in running[v]
    BY <1>1, <1>7, <2>1 DEF Attended
  <2>3. life'[v] = life[v]
    BY <1>4, <1>5, <2>2
  <2>4. QED
    BY <1>7, <2>1, <2>2, <2>3
<1>8. Attended'
  BY <1>7 DEF Attended
<1>9. \A v \in Wrks : parent[v] # s
  BY DEF Children
<1>10. ASSUME NEW v \in Wrks, parent[v] # NoProc
       PROVE  life'[parent[v]] \notin {"unborn", "booting"}
  <2>1. PICK t \in Sups : t = parent[v]
    BY <1>1, <1>10 DEF Typed
  <2>2. life'[t] = life[t]
    BY <1>4, <1>9, <2>1
  <2>3. QED
    BY <1>1, <1>10, <2>1, <2>2 DEF OneChild
<1>11. OneChild'
  <2>1. \A w \in Wrks : life'[w] = "booting" => parent'[w] # NoProc
    BY <1>1, <1>4 DEF OneChild
  <2>2. \A w \in Wrks : life'[w] = "unborn" => parent'[w] = NoProc
    BY <1>1, <1>4 DEF OneChild
  <2>3. \A w \in Wrks : parent'[w] # NoProc => life'[parent'[w]] \notin {"unborn", "booting"}
    BY <1>4, <1>10
  <2>4. \A v, w \in Wrks : parent'[v] # NoProc /\ parent'[v] = parent'[w] => v = w
    BY <1>1, <1>4, <1>9 DEF OneChild
  <2>5. QED
    BY <2>1, <2>2, <2>3, <2>4 DEF OneChild
<1>12. ASSUME NEW v \in Wrks, NEW t \in Sups, link'[v] = t
       PROVE  /\ life'[t] # "booting"
              /\ parent'[v] = t \/ (Children(t)' = {} /\ ForksNoMore(t, v)')
  <2>1. /\ life[t] # "booting"
        /\ parent[v] = t \/ (Children(t) = {} /\ ForksNoMore(t, v))
    BY <1>1, <1>12 DEF RowOfChild
  <2>2. t # s /\ v \notin W
    BY <1>5, <1>12
  <2>3. life'[t] = life[t] /\ recovery'[t] = recovery[t] /\ parent'[v] = parent[v]
    BY <1>4, <2>2
  <2>4. ForksNoMore(t, v) => ForksNoMore(t, v)'
    BY <2>3 DEF ForksNoMore
  <2>5. Children(t)' \subseteq Children(t)
    BY <1>4, <2>2 DEF Children
  <2>6. QED
    BY <2>1, <2>3, <2>4, <2>5
<1>13. RowOfChild'
  BY <1>12 DEF RowOfChild
<1>14. \A p \in Procs : life[p] = "dead" => life'[p] = "dead"
  BY <1>4
<1>15. \A j \in Jobs : owner'[j] \in {owner[j], NoProc}
  OBVIOUS
<1>16. \A t \in Sups : recovery'[t] = recovery[t] \/ recovery'[t].procs = {}
  OBVIOUS
<1>17. Recovering'
  BY <1>1, <1>14, <1>15, <1>16, UndisturbedByLoss, RecoveryKept DEF Recovering
<1>18. QED
  BY <1>3, <1>6, <1>8, <1>11, <1>13, <1>17 DEF IInv

\* What Fork does, in the form of ForkedInv.
LEMMA ForkForks ==
  ASSUME Typed, NEW s \in Sups, life[s] # "unborn", Fork(s)
  PROVE  \E W \in SUBSET Wrks :
           /\ \A v, w \in W : v = w
           /\ \A w \in W : life[w] = "unborn"
           /\ life' = [p \in Procs |-> IF p = s THEN "running"
                                       ELSE IF p \in W THEN "booting" ELSE life[p]]
           /\ parent' = [v \in Wrks |-> IF v \in W THEN s ELSE parent[v]]
<1>1. PICK w \in Wrks : /\ life[w] = "unborn"
                        /\ life' = [life EXCEPT ![s] = "running", ![w] = "booting"]
                        /\ parent' = [parent EXCEPT ![w] = s]
  BY DEF Fork
<1>2. life' = [p \in Procs |-> IF p = s THEN "running"
                               ELSE IF p \in {w} THEN "booting" ELSE life[p]]
  BY <1>1 DEF Typed
<1>3. parent' = [v \in Wrks |-> IF v \in {w} THEN s ELSE parent[v]]
  BY <1>1 DEF Typed
<1>4. WITNESS {w} \in SUBSET Wrks
<1>5. QED
  BY <1>1, <1>2, <1>3

LEMMA FinishStartInv ==
  ASSUME IInv, NEW s \in Sups, FinishStart(s)
  PROVE  IInv'
<1>1. Typed /\ OneChild /\ RowOfChild
  BY DEF IInv
<1>2. /\ life[s] = "booting" /\ Fail(Orphans)
      /\ UNCHANGED <<rows, link, stopReq, running, cleanup, recovery>>
  BY DEF FinishStart
<1>3. PICK W \in SUBSET Wrks :
           /\ \A v, w \in W : v = w
           /\ \A w \in W : life[w] = "unborn"
           /\ life' = [p \in Procs |-> IF p = s THEN "running"
                                       ELSE IF p \in W THEN "booting" ELSE life[p]]
           /\ parent' = [v \in Wrks |-> IF v \in W THEN s ELSE parent[v]]
  <2>1. CASE Fork(s)
    BY <1>1, <1>2, <2>1, ForkForks
  <2>2. CASE life' = [life EXCEPT ![s] = "running"] /\ UNCHANGED parent
    <3>1. life' = [p \in Procs |-> IF p = s THEN "running"
                                   ELSE IF p \in {} THEN "booting" ELSE life[p]]
      BY <1>1, <2>2 DEF Typed
    <3>2. parent' = [v \in Wrks |-> IF v \in {} THEN s ELSE parent[v]]
      BY <1>1, <2>2 DEF Typed
    <3>3. WITNESS {} \in SUBSET Wrks
    <3>4. QED
      BY <3>1, <3>2
  <2>3. QED
    BY <2>1, <2>2 DEF FinishStart
<1>4. Children(s) = {} /\ \A v \in Wrks : link[v] # s
  BY <1>1, <1>2 DEF OneChild, Children, RowOfChild
<1>5. /\ job' \in [Jobs -> {"ready", "claimed", "finished", "failed"}]
      /\ owner' \in [Jobs -> Wrks \cup {NoProc}]
      /\ \A j \in Jobs : owner'[j] # NoProc => owner'[j] = owner[j] /\ job'[j] = job[j]
  BY <1>1, <1>2 DEF Fail, Typed
<1>6. recovery' \in [Sups -> Recoveries]
  BY <1>1, <1>2 DEF Typed
<1>7. QED
  BY <1>2, <1>3, <1>4, <1>5, <1>6, ForkedInv

LEMMA ReplaceInv ==
  ASSUME IInv, NEW s \in Sups, Replace(s)
  PROVE  IInv'
<1>1. Typed /\ OneChild /\ RowOfChild
  BY DEF IInv
<1>2. /\ life[s] = "running" /\ s \notin stopReq /\ Children(s) = {}
      /\ recovery[s].op \in {"idle", "children"} /\ Fork(s)
      /\ recovery' = [recovery EXCEPT ![s] = Idle]
      /\ UNCHANGED <<rows, link, stopReq, running, cleanup, job, owner>>
  BY DEF Replace, Checking
<1>3. PICK W \in SUBSET Wrks :
           /\ \A v, w \in W : v = w
           /\ \A w \in W : life[w] = "unborn"
           /\ life' = [p \in Procs |-> IF p = s THEN "running"
                                       ELSE IF p \in W THEN "booting" ELSE life[p]]
           /\ parent' = [v \in Wrks |-> IF v \in W THEN s ELSE parent[v]]
  BY <1>1, <1>2, ForkForks
<1>4. \A v \in Wrks : ~ForksNoMore(s, v) /\ parent[v] # s
  BY <1>2 DEF ForksNoMore, Children
<1>5. \A v \in Wrks : link[v] # s
  BY <1>1, <1>4 DEF RowOfChild
<1>6. /\ recovery' \in [Sups -> Recoveries] /\ recovery'[s].procs = {}
      /\ \A t \in Sups \ {s} : recovery'[t] = recovery[t]
  BY <1>1, <1>2, IdleTyped DEF Typed
<1>7. /\ job' \in [Jobs -> {"ready", "claimed", "finished", "failed"}]
      /\ owner' \in [Jobs -> Wrks \cup {NoProc}]
  BY <1>1, <1>2 DEF Typed
<1>8. QED
  BY <1>2, <1>3, <1>5, <1>6, <1>7, ForkedInv

\* A new recovery of s, which was in the middle of none.
LEMMA HousekeepingInv ==
  ASSUME IInv, NEW s \in Sups, NEW n, Housekeeping(s, n)
  PROVE  IInv'
<1>1. Typed /\ Registered /\ Attended /\ OneChild /\ RowOfChild /\ Recovering
  BY DEF IInv
<1>2. PICK P : /\ P \subseteq rows
               /\ recovery' = [recovery EXCEPT ![s] =
                    [op |-> IF P = {} THEN "children" ELSE "prune",
                     procs |-> P, jobs |-> UNION {ClaimsOf(p) : p \in P}]]
  BY DEF Housekeeping
<1>3. /\ recovery[s].op = "idle" /\ Fail(Orphans)
      /\ UNCHANGED <<life, rows, link, parent, stopReq, running, cleanup>>
  BY DEF Housekeeping
<1>4. PICK r : r = [op |-> IF P = {} THEN "children" ELSE "prune",
                    procs |-> P, jobs |-> UNION {ClaimsOf(p) : p \in P}]
  OBVIOUS
<1>5. r \in Recoveries
  <2>1. P \subseteq Procs
    BY <1>1, <1>2 DEF Typed
  <2>2. UNION {ClaimsOf(p) : p \in P} \subseteq Jobs
    BY DEF ClaimsOf
  <2>3. QED
    BY <1>4, <2>1, <2>2 DEF Recoveries
<1>6. /\ recovery' \in [Sups -> Recoveries] /\ recovery'[s] = r
      /\ \A t \in Sups \ {s} : recovery'[t] = recovery[t]
  BY <1>1, <1>2, <1>4, <1>5 DEF Typed
<1>7. Winds /\ PoolsStay
  BY <1>3 DEF Winds, PoolsStay
<1>8. /\ ClaimsGo
      /\ job' \in [Jobs -> {"ready", "claimed", "finished", "failed"}]
      /\ owner' \in [Jobs -> Wrks \cup {NoProc}]
  BY <1>1, <1>3, <1>7, FailedClaims
<1>9. Typed'
  BY <1>1, <1>3, <1>6, <1>8 DEF Typed
<1>10. Registered' /\ Attended' /\ OneChild'
  BY <1>1, <1>3, <1>7, <1>8, RowsUnchanged, RegisteredKept, AttendedKept, OneChildKept
<1>11. \A t \in Sups, v \in Wrks : ForksNoMore(t, v) => ForksNoMore(t, v)'
  BY <1>3, <1>6 DEF ForksNoMore
<1>12. RowOfChild'
  BY <1>1, <1>3, <1>11 DEF RowOfChild, Children
<1>13. \A j \in Jobs : owner'[j] \in {owner[j], NoProc}
  BY <1>8 DEF ClaimsGo
<1>14. RecoveryOf(s)'
  <2>1. ASSUME NEW p \in P
        PROVE  r.op = "prune" /\ \A j \in Jobs : owner'[j] = p => j \in r.jobs
    <3>1. p \in Procs
      BY <1>1, <1>2 DEF Typed
    <3>2. \A j \in Jobs : owner'[j] = p => j \in ClaimsOf(p)
      BY <1>13, <3>1 DEF ClaimsOf
    <3>3. QED
      BY <1>4, <3>2
  <2>2. r.procs = P
    BY <1>4
  <2>3. QED
    BY <1>6, <2>1, <2>2 DEF RecoveryOf
<1>15. \A t \in Sups \ {s} : RecoveryOf(t)'
  BY <1>1, <1>3, <1>6, <1>13, UndisturbedByLoss, RecoveryKept DEF Recovering
<1>16. QED
  BY <1>9, <1>10, <1>12, <1>14, <1>15 DEF IInv, Recovering

LEMMA ReapReadInv ==
  ASSUME IInv, NEW s \in Sups, NEW w \in Wrks, ReapRead(s, w)
  PROVE  IInv'
<1>1. Typed /\ Registered /\ Attended /\ OneChild /\ RowOfChild /\ Recovering
  BY DEF IInv
<1>2. /\ life[w] = "dead" /\ parent[w] = s /\ recovery[s].op \in {"idle", "children"}
      /\ parent' = [parent EXCEPT ![w] = NoProc]
      /\ UNCHANGED <<life, rows, link, stopReq, running, cleanup, job, owner>>
  BY DEF ReapRead, Checking
<1>3. PICK r : /\ r = (IF w \in rows /\ link[w] = s
                       THEN [op |-> "reap", procs |-> {w}, jobs |-> ClaimsOf(w)] ELSE Idle)
               /\ recovery' = [recovery EXCEPT ![s] = r]
  BY DEF ReapRead
<1>4. r \in Recoveries
  BY <1>3, IdleTyped DEF Recoveries, ClaimsOf
<1>5. /\ recovery' \in [Sups -> Recoveries] /\ recovery'[s] = r
      /\ \A t \in Sups \ {s} : recovery'[t] = recovery[t]
  BY <1>1, <1>3, <1>4 DEF Typed
<1>6. /\ parent' \in [Wrks -> Sups \cup {NoProc}]
      /\ parent'[w] = NoProc /\ \A v \in Wrks \ {w} : parent'[v] = parent[v]
  BY <1>1, <1>2 DEF Typed
<1>7. Typed'
  BY <1>1, <1>2, <1>5, <1>6 DEF Typed
<1>8. Registered' /\ Attended'
  BY <1>1, <1>2 DEF Registered, Attended
<1>9. OneChild'
  BY <1>1, <1>2, <1>6 DEF OneChild
<1>10. Children(s)' = {}
  BY <1>1, <1>2, <1>6 DEF OneChild, Children
<1>11. ASSUME NEW v \in Wrks, NEW t \in Sups, link'[v] = t
       PROVE  /\ life'[t] # "booting"
              /\ parent'[v] = t \/ (Children(t)' = {} /\ ForksNoMore(t, v)')
  <2>1. /\ life[t] # "booting"
        /\ parent[v] = t \/ (Children(t) = {} /\ ForksNoMore(t, v))
    BY <1>1, <1>2, <1>11 DEF RowOfChild
  <2>2. CASE t = s
    <3>1. w \in Children(s)
      BY <1>2 DEF Children
    <3>2. v = w
      BY <1>1, <1>2, <2>1, <2>2, <3>1 DEF OneChild
    <3>3. r.op = "reap" /\ w \in r.procs
      BY <1>1, <1>2, <1>3, <1>11, <2>2, <3>2 DEF Registered
    <3>4. ForksNoMore(s, w)'
      BY <1>5, <3>3 DEF ForksNoMore
    <3>5. QED
      BY <1>2, <1>10, <2>1, <2>2, <3>2, <3>4
  <2>3. CASE t # s
    <3>1. parent[v] = t => parent'[v] = t
      BY <1>2, <1>6, <2>3
    <3>2. Children(t)' \subseteq Children(t)
      BY <1>6 DEF Children
    <3>3. ForksNoMore(t, v) => ForksNoMore(t, v)'
      BY <1>2, <1>5, <2>3 DEF ForksNoMore
    <3>4. QED
      BY <1>2, <2>1, <3>1, <3>2, <3>3
  <2>4. QED
    BY <2>2, <2>3
<1>12. RowOfChild'
  BY <1>11 DEF RowOfChild
<1>13. RecoveryOf(s)'
  <2>1. ASSUME NEW p \in r.procs
        PROVE  /\ r.op = "reap" /\ p \in Wrks /\ life'[p] = "dead"
               /\ \A j \in Jobs : owner'[j] = p => j \in r.jobs
    BY <1>2, <1>3, IdleTyped DEF ClaimsOf
  <2>2. QED
    BY <1>5, <2>1 DEF RecoveryOf
<1>14. \A t \in Sups \ {s} : RecoveryOf(t)'
  BY <1>1, <1>2, <1>5, UndisturbedByLoss, RecoveryKept DEF Recovering
<1>15. QED
  BY <1>7, <1>8, <1>9, <1>12, <1>13, <1>14 DEF IInv, Recovering

LEMMA ForgetInv ==
  ASSUME IInv, NEW p \in Procs, Forget(p)
  PROVE  IInv'
<1>1. Typed /\ Registered /\ Attended /\ OneChild /\ RowOfChild /\ Recovering
  BY DEF IInv
<1>2. /\ life[p] = "dead" /\ p \notin rows
      /\ \A w \in Wrks : parent[w] = p => life[w] = "dead"
      /\ \A s \in Sups : p \notin recovery[s].procs
      /\ life' = [life EXCEPT ![p] = "unborn"]
      /\ stopReq' = stopReq \ {p}
      /\ parent' = [w \in Wrks |-> IF p \in {w, parent[w]} THEN NoProc ELSE parent[w]]
      /\ UNCHANGED <<rows, link, running, cleanup, job, owner, recovery>>
  BY DEF Forget
<1>3. /\ life' \in [Procs -> Lives] /\ stopReq' \subseteq Procs
      /\ parent' \in [Wrks -> Sups \cup {NoProc}]
  BY <1>1, <1>2 DEF Typed, Lives
<1>4. Typed'
  BY <1>1, <1>2, <1>3 DEF Typed
<1>5. life'[p] = "unborn" /\ \A q \in Procs \ {p} : life'[q] = life[q]
  BY <1>1, <1>2 DEF Typed
<1>6. /\ \A w \in Wrks : p \in {w, parent[w]} => parent'[w] = NoProc
      /\ \A w \in Wrks : p \notin {w, parent[w]} => parent'[w] = parent[w]
  BY <1>2
<1>7. Registered'
  BY <1>1, <1>2, <1>5 DEF Registered
<1>8. \A j \in Jobs : owner[j] # NoProc => owner[j] \in Procs \ {p}
  BY <1>1, <1>2 DEF Attended, Typed
<1>9. Attended'
  BY <1>1, <1>2, <1>5, <1>8 DEF Attended
<1>10. OneChild'
  <2>1. \A w \in Wrks : life'[w] = "booting" => parent'[w] # NoProc
    BY <1>1, <1>2, <1>5, <1>6 DEF OneChild
  <2>2. \A w \in Wrks : life'[w] = "unborn" => parent'[w] = NoProc
    BY <1>1, <1>5, <1>6 DEF OneChild
  <2>3. \A w \in Wrks : parent'[w] # NoProc =>
          parent'[w] = parent[w] /\ parent[w] \in Procs \ {p}
    BY <1>1, <1>6 DEF Typed
  <2>4. \A w \in Wrks : parent'[w] # NoProc => life'[parent'[w]] \notin {"unborn", "booting"}
    BY <1>1, <1>5, <2>3 DEF OneChild
  <2>5. \A v, w \in Wrks : parent'[v] # NoProc /\ parent'[v] = parent'[w] => v = w
    BY <1>1, <2>3 DEF OneChild
  <2>6. QED
    BY <2>1, <2>2, <2>4, <2>5 DEF OneChild
<1>11. ASSUME NEW v \in Wrks, NEW t \in Sups, link'[v] = t
       PROVE  /\ life'[t] # "booting"
              /\ parent'[v] = t \/ (Children(t)' = {} /\ ForksNoMore(t, v)')
  <2>1. /\ life[t] # "booting"
        /\ parent[v] = t \/ (Children(t) = {} /\ ForksNoMore(t, v))
    BY <1>1, <1>2, <1>11 DEF RowOfChild
  <2>2. t # p /\ v # p
    BY <1>1, <1>2, <1>11 DEF Registered
  <2>3. life'[t] = life[t] /\ (parent[v] = t => parent'[v] = t)
    BY <1>5, <1>6, <2>2
  <2>4. Children(t)' \subseteq Children(t)
    BY <1>6 DEF Children
  <2>5. ForksNoMore(t, v) => ForksNoMore(t, v)'
    BY <1>2, <2>2, <2>3 DEF ForksNoMore
  <2>6. QED
    BY <2>1, <2>3, <2>4, <2>5
<1>12. RowOfChild'
  BY <1>11 DEF RowOfChild
<1>13. ASSUME NEW s \in Sups PROVE RecoveryOf(s)'
  <2>1. Undisturbed(s)
    BY <1>2, <1>5 DEF Undisturbed
  <2>2. QED
    BY <1>1, <1>2, <2>1, RecoveryKept DEF Recovering
<1>14. QED
  BY <1>4, <1>7, <1>9, <1>10, <1>12, <1>13 DEF IInv, Recovering

-----------------------------------------------------------------------------
LEMMA NextInv ==
  ASSUME IInv, [Next]_vars
  PROVE  IInv'
<1>1. CASE \E p \in Procs : Beat(p) \/ Stall(p) \/ LeaveLoop(p) \/ Kill(p) \/ Forget(p)
  BY <1>1, BeatInv, StallInv, LeaveLoopInv, KillInv, ForgetInv
<1>2. CASE \E w \in Wrks :
             \/ Boot(w) \/ ClaimRefused(w) \/ DrainedExit(w) \/ TimeoutExit(w)
             \/ \E J \in SUBSET Jobs : Claim(w, J) \/ LoseAnswer(w, J)
             \/ \E j \in Jobs, outcome \in {"finished", "failed"} : EndTask(w, j, outcome)
             \/ \E j \in Jobs : CleanUp(w, j)
  <2>1. PICK w \in Wrks :
             \/ Boot(w) \/ ClaimRefused(w) \/ DrainedExit(w) \/ TimeoutExit(w)
             \/ \E J \in SUBSET Jobs : Claim(w, J) \/ LoseAnswer(w, J)
             \/ \E j \in Jobs, outcome \in {"finished", "failed"} : EndTask(w, j, outcome)
             \/ \E j \in Jobs : CleanUp(w, j)
    BY <1>2
  <2>2. CASE Boot(w) \/ ClaimRefused(w) \/ DrainedExit(w) \/ TimeoutExit(w)
    BY <2>2, BootInv, ClaimRefusedInv, DrainedExitInv, TimeoutExitInv
  <2>3. CASE \E J \in SUBSET Jobs : Claim(w, J) \/ LoseAnswer(w, J)
    BY <2>3, ClaimInv, LoseAnswerInv
  <2>4. CASE \E j \in Jobs, outcome \in {"finished", "failed"} : EndTask(w, j, outcome)
    BY <2>4, EndTaskInv
  <2>5. CASE \E j \in Jobs : CleanUp(w, j)
    BY <2>5, CleanUpInv
  <2>6. QED
    BY <2>1, <2>2, <2>3, <2>4, <2>5
<1>3. CASE \E s \in Sups :
             \/ StartSupervisor(s) \/ FinishStart(s)
             \/ \E n \in 0 .. Len(silent) : Housekeeping(s, n)
             \/ PruneCommit(s) \/ ReapFail(s) \/ ReapDelete(s) \/ Replace(s)
             \/ NothingToReap(s) \/ Terminate(s) \/ FinishStop(s)
             \/ \E w \in Wrks : ReapRead(s, w) \/ KillChild(s, w) \/ KillHost(s, w)
  <2>1. PICK s \in Sups :
             \/ StartSupervisor(s) \/ FinishStart(s)
             \/ \E n \in 0 .. Len(silent) : Housekeeping(s, n)
             \/ PruneCommit(s) \/ ReapFail(s) \/ ReapDelete(s) \/ Replace(s)
             \/ NothingToReap(s) \/ Terminate(s) \/ FinishStop(s)
             \/ \E w \in Wrks : ReapRead(s, w) \/ KillChild(s, w) \/ KillHost(s, w)
    BY <1>3
  <2>2. CASE StartSupervisor(s) \/ FinishStart(s) \/ PruneCommit(s) \/ ReapFail(s) \/ ReapDelete(s)
    BY <2>2, StartSupervisorInv, FinishStartInv, PruneCommitInv, ReapFailInv, ReapDeleteInv
  <2>3. CASE Replace(s) \/ NothingToReap(s) \/ Terminate(s) \/ FinishStop(s)
    BY <2>3, ReplaceInv, NothingToReapInv, TerminateInv, FinishStopInv
  <2>4. CASE \E n \in 0 .. Len(silent) : Housekeeping(s, n)
    BY <2>4, HousekeepingInv
  <2>5. CASE \E w \in Wrks : ReapRead(s, w) \/ KillChild(s, w) \/ KillHost(s, w)
    BY <2>5, ReapReadInv, KillChildInv, KillHostInv
  <2>6. QED
    BY <2>1, <2>2, <2>3, <2>4, <2>5
<1>4. CASE \E j \in Jobs : Retry(j)
  BY <1>4, RetryInv
<1>5. CASE UNCHANGED vars
  BY <1>5, Unchanged
<1>6. QED
  BY <1>1, <1>2, <1>3, <1>4, <1>5 DEF Next

LEMMA InitInv == Init => IInv
<1> SUFFICES ASSUME Init PROVE IInv
  OBVIOUS
<1>2. Typed
  BY IdleTyped DEF Init, Typed, Lives
<1>3. Registered /\ Attended /\ OneChild /\ RowOfChild
  BY DEF Init, Registered, Attended, OneChild, RowOfChild
<1>4. Recovering
  BY IdleTyped DEF Init, Recovering, RecoveryOf
<1>5. QED
  BY <1>2, <1>3, <1>4 DEF IInv

LEMMA IInvAlways == Spec => []IInv
<1>1. IInv /\ [Next]_vars => IInv'
  BY NextInv
<1>2. QED
  BY InitInv, <1>1, PTL DEF Spec

-----------------------------------------------------------------------------
\* A claim that names a process names a registered one, and is in its pool
\* while it goes on, for any number of supervisors and workers: claims wait
\* for the prune that has locked their row, and a poll that loses the answer
\* to its claim ends the loop.
THEOREM ClaimsAttendedAlways == Spec => []ClaimsAttended
<1>1. IInv => ClaimsAttended
  BY DEF IInv, Attended, ClaimsAttended
<1>2. QED
  BY <1>1, IInvAlways, PTL

\* A worker that boots finds no row of the worker before it, for any number
\* of supervisors that start, stop, prune and reap around it.
THEOREM ReplacementBootsAlways == Spec => []ReplacementBoots
<1>1. ASSUME IInv, NEW w \in Wrks, life[w] = "booting", NEW v \in rows \cap Wrks
      PROVE  link[v] # parent[w]
  <2>1. Typed /\ Registered /\ OneChild /\ RowOfChild
    BY <1>1 DEF IInv
  <2>2. PICK s \in Sups : s = parent[w]
    BY <1>1, <2>1 DEF OneChild, Typed
  <2>3. SUFFICES ASSUME link[v] = s PROVE FALSE
    BY <2>2
  <2>4. Children(s) # {}
    BY <2>2 DEF Children
  <2>5. parent[v] = s
    BY <2>1, <2>3, <2>4 DEF RowOfChild
  <2>6. v = w
    BY <2>1, <2>2, <2>5 DEF OneChild
  <2>7. QED
    BY <1>1, <2>1, <2>6 DEF Registered
<1>2. IInv => ReplacementBoots
  BY <1>1 DEF ReplacementBoots
<1>3. QED
  BY <1>2, IInvAlways, PTL

-----------------------------------------------------------------------------
(* Claims that lose their process.                                         *)

LEMMA NoneLost ==
  ASSUME owner' = owner, job' = job
  PROVE  Orphans' \subseteq Orphans
BY DEF Orphans

LEMMA FailLosesNone ==
  ASSUME NEW J, Fail(J)
  PROVE  Orphans' \subseteq Orphans
BY DEF Orphans, Fail

LEMMA DeleteLosesNone ==
  ASSUME NEW P, NEW J, DeleteRows(P, J), \A j \in Jobs : owner[j] \in P => j \in J
  PROVE  Orphans' \subseteq Orphans
BY DEF Orphans, DeleteRows

LEMMA ClaimLosesNone ==
  ASSUME NEW w \in Wrks, NEW J, CreateClaims(w, J)
  PROVE  Orphans' \subseteq Orphans
BY DEF Orphans, CreateClaims

LEMMA EndTaskLosesNone ==
  ASSUME IInv, NEW w \in Wrks, NEW j \in Jobs, NEW outcome \in {"finished", "failed"},
         EndTask(w, j, outcome)
  PROVE  Orphans' \subseteq Orphans
<1>1. Typed
  BY DEF IInv
<1>2. CASE job[j] = "claimed"
  <2>1. job' = [job EXCEPT ![j] = outcome] /\ owner' = [owner EXCEPT ![j] = NoProc]
    BY <1>2 DEF EndTask
  <2>2. job'[j] # "claimed" /\ \A i \in Jobs \ {j} : job'[i] = job[i] /\ owner'[i] = owner[i]
    BY <1>1, <2>1 DEF Typed
  <2>3. QED
    BY <2>2 DEF Orphans
<1>3. CASE job[j] # "claimed"
  BY <1>3, NoneLost DEF EndTask
<1>4. QED
  BY <1>2, <1>3

LEMMA RetryLosesNone ==
  ASSUME IInv, NEW j \in Jobs, Retry(j)
  PROVE  Orphans' \subseteq Orphans
<1>1. Typed
  BY DEF IInv
<1>2. job'[j] = "ready" /\ owner' = owner /\ \A i \in Jobs \ {j} : job'[i] = job[i]
  BY <1>1 DEF Retry, Typed
<1>3. QED
  BY <1>2 DEF Orphans

\* The prune fails every claim of the rows it deletes: none was added while
\* it held their locks.
LEMMA PruneCommitLosesNone ==
  ASSUME IInv, NEW s \in Sups, PruneCommit(s)
  PROVE  Orphans' \subseteq Orphans
<1>1. RecoveryOf(s) /\ recovery[s].op = "prune"
  BY DEF IInv, Recovering, PruneCommit
<1>2. \A j \in Jobs : owner[j] \in recovery[s].procs => j \in recovery[s].jobs
  BY <1>1 DEF RecoveryOf
<1>3. CASE DeleteRows(recovery[s].procs, recovery[s].jobs)
  BY <1>2, <1>3, DeleteLosesNone
<1>4. CASE UNCHANGED <<owner, job>>
  BY <1>4, NoneLost
<1>5. QED
  BY <1>3, <1>4 DEF PruneCommit

\* No claim is left when the row of a reaped worker is deleted.
LEMMA ReapDeleteLosesNone ==
  ASSUME IInv, NEW s \in Sups, ReapDelete(s)
  PROVE  Orphans' \subseteq Orphans
<1>1. RecoveryOf(s) /\ recovery[s].op = "delete" /\ DeleteRows(recovery[s].procs, {})
  BY DEF IInv, Recovering, ReapDelete
<1>2. \A j \in Jobs : owner[j] \notin recovery[s].procs
  BY <1>1 DEF RecoveryOf
<1>3. QED
  BY <1>1, <1>2, DeleteLosesNone

LEMMA FinishStopLosesNone ==
  ASSUME IInv, NEW s \in Sups, FinishStop(s)
  PROVE  Orphans' \subseteq Orphans
<1>1. \A j \in Jobs : owner[j] # s
  BY DEF IInv, Typed
<1>2. CASE DeleteRows({s}, {})
  BY <1>1, <1>2, DeleteLosesNone
<1>3. CASE UNCHANGED <<owner, job>>
  BY <1>3, NoneLost
<1>4. QED
  BY <1>2, <1>3 DEF FinishStop

\* The exit of a worker that has drained: the claims it leaves are its own.
LEMMA DrainedExitLosesOwn ==
  ASSUME IInv, NEW w \in Wrks, DrainedExit(w)
  PROVE  \A j \in Orphans' \ Orphans :
           /\ owner[j] \in Wrks /\ running[owner[j]] = {}
           /\ life[owner[j]] = "stopping" /\ life'[owner[j]] = "dead"
<1>1. Typed
  BY DEF IInv
<1>2. life[w] = "stopping" /\ life'[w] = "dead" /\ running[w] = {} /\ DeleteRows({w}, {})
  BY <1>1 DEF DrainedExit, Die, Typed
<1>3. \A j \in Orphans' \ Orphans : owner[j] = w
  BY <1>2 DEF Orphans, DeleteRows
<1>4. QED
  BY <1>2, <1>3

LEMMA StepLosesOwn ==
  ASSUME IInv, [Next]_vars
  PROVE  \/ Orphans' \subseteq Orphans
         \/ \E w \in Wrks : DrainedExit(w)
<1>1. CASE \E p \in Procs : Beat(p) \/ Stall(p) \/ LeaveLoop(p) \/ Kill(p) \/ Forget(p)
  BY <1>1, NoneLost DEF Beat, Stall, LeaveLoop, Kill, Forget
<1>2. CASE \E w \in Wrks :
             \/ Boot(w) \/ ClaimRefused(w) \/ DrainedExit(w) \/ TimeoutExit(w)
             \/ \E J \in SUBSET Jobs : Claim(w, J) \/ LoseAnswer(w, J)
             \/ \E j \in Jobs, outcome \in {"finished", "failed"} : EndTask(w, j, outcome)
             \/ \E j \in Jobs : CleanUp(w, j)
  <2>1. PICK w \in Wrks :
             \/ Boot(w) \/ ClaimRefused(w) \/ DrainedExit(w) \/ TimeoutExit(w)
             \/ \E J \in SUBSET Jobs : Claim(w, J) \/ LoseAnswer(w, J)
             \/ \E j \in Jobs, outcome \in {"finished", "failed"} : EndTask(w, j, outcome)
             \/ \E j \in Jobs : CleanUp(w, j)
    BY <1>2
  <2>2. CASE Boot(w) \/ ClaimRefused(w) \/ TimeoutExit(w)
    BY <2>2, NoneLost DEF Boot, ClaimRefused, TimeoutExit
  <2>3. CASE \E J \in SUBSET Jobs : Claim(w, J) \/ LoseAnswer(w, J)
    BY <2>3, ClaimLosesNone DEF Claim, LoseAnswer
  <2>4. CASE \E j \in Jobs, outcome \in {"finished", "failed"} : EndTask(w, j, outcome)
    BY <2>4, EndTaskLosesNone
  <2>5. CASE \E j \in Jobs : CleanUp(w, j)
    BY <2>5, FailLosesNone DEF CleanUp
  <2>6. QED
    BY <2>1, <2>2, <2>3, <2>4, <2>5
<1>3. CASE \E s \in Sups :
             \/ StartSupervisor(s) \/ FinishStart(s)
             \/ \E n \in 0 .. Len(silent) : Housekeeping(s, n)
             \/ PruneCommit(s) \/ ReapFail(s) \/ ReapDelete(s) \/ Replace(s)
             \/ NothingToReap(s) \/ Terminate(s) \/ FinishStop(s)
             \/ \E w \in Wrks : ReapRead(s, w) \/ KillChild(s, w) \/ KillHost(s, w)
  <2>1. PICK s \in Sups :
             \/ StartSupervisor(s) \/ FinishStart(s)
             \/ \E n \in 0 .. Len(silent) : Housekeeping(s, n)
             \/ PruneCommit(s) \/ ReapFail(s) \/ ReapDelete(s) \/ Replace(s)
             \/ NothingToReap(s) \/ Terminate(s) \/ FinishStop(s)
             \/ \E w \in Wrks : ReapRead(s, w) \/ KillChild(s, w) \/ KillHost(s, w)
    BY <1>3
  <2>2. CASE StartSupervisor(s) \/ Replace(s) \/ NothingToReap(s) \/ Terminate(s)
    BY <2>2, NoneLost DEF StartSupervisor, Replace, NothingToReap, Terminate
  <2>3. CASE FinishStart(s) \/ ReapFail(s)
    BY <2>3, NoneLost, FailLosesNone DEF FinishStart, ReapFail
  <2>4. CASE PruneCommit(s) \/ ReapDelete(s) \/ FinishStop(s)
    BY <2>4, PruneCommitLosesNone, ReapDeleteLosesNone, FinishStopLosesNone
  <2>5. CASE \E n \in 0 .. Len(silent) : Housekeeping(s, n)
    <3>1. Fail(Orphans)
      BY <2>5 DEF Housekeeping
    <3>2. QED
      BY <3>1, FailLosesNone
  <2>6. CASE \E w \in Wrks : ReapRead(s, w) \/ KillChild(s, w) \/ KillHost(s, w)
    BY <2>6, NoneLost DEF ReapRead, KillChild, KillHost
  <2>7. QED
    BY <2>1, <2>2, <2>3, <2>4, <2>5, <2>6
<1>4. CASE \E j \in Jobs : Retry(j)
  BY <1>4, RetryLosesNone
<1>5. CASE UNCHANGED vars
  BY <1>5, NoneLost DEF vars
<1>6. QED
  BY <1>1, <1>2, <1>3, <1>4, <1>5 DEF Next

\* Prunes and reaps strand no claim, however they overlap with each other,
\* with claims and with exits: a claim loses its process only when a worker
\* with an empty pool deletes its own row.
THEOREM OrphansByExitAlways == Spec => OrphansByExit
<1>1. ASSUME IInv, [Next]_vars
      PROVE  [\A j \in Orphans' \ Orphans :
                /\ owner[j] \in Wrks /\ running[owner[j]] = {}
                /\ life[owner[j]] = "stopping" /\ life'[owner[j]] = "dead"]_vars
  <2>1. CASE Orphans' \subseteq Orphans
    BY <2>1
  <2>2. CASE \E w \in Wrks : DrainedExit(w)
    BY <1>1, <2>2, DrainedExitLosesOwn
  <2>3. QED
    BY <1>1, <2>1, <2>2, StepLosesOwn
<1>2. QED
  BY <1>1, IInvAlways, PTL DEF Spec, OrphansByExit
=============================================================================
