----------------------------- MODULE MCJobStore -----------------------------
(***************************************************************************)
(* Model-checking instances of JobStore.                                   *)
(***************************************************************************)
EXTENDS JobStoreKeys

CONSTANTS j1, j2, j3, j4, p1, p2, k1, b1, b2

\* Every job of key k1.
OneKey == [j \in Jobs |-> k1]

\* j4 needs no slot.
FreeJob == [j \in Jobs |-> IF j = j4 THEN NoKey ELSE k1]

LimitTwo == [j \in Jobs |-> 2]

\* j1 was submitted before the limit was raised from 1 to 2.
RaisedLimit == [j \in Jobs |-> IF j = j1 THEN 1 ELSE 2]

OneAlias == [x \in Jobs \cup Procs |-> b1]

\* j3 and p2 are of a second backend that shares the database.
TwoAliases == [x \in Jobs \cup Procs |-> IF x \in {j3, p2} THEN b2 ELSE b1]
=============================================================================
