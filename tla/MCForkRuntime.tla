--------------------------- MODULE MCForkRuntime ---------------------------
(***************************************************************************)
(* Model-checking instances of ForkRuntime.                                *)
(***************************************************************************)
EXTENDS ForkRuntime

CONSTANTS j1, s1, s2, w1, w2

\* Supervisors whose pids differ.
OwnPid == [s \in Sups |-> IF s = s1 THEN 1 ELSE 2]

\* Supervisors that are the first process of their container.
SamePid == [s \in Sups |-> 1]

\* Two supervisors and one fault, or one supervisor and two faults.
OneOrTwoFaults ==
  {[supervisors |-> 2, faults |-> 1], [supervisors |-> 1, faults |-> 2]}

Alone == {[supervisors |-> 1, faults |-> 1]}
=============================================================================
