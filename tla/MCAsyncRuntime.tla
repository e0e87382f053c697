--------------------------- MODULE MCAsyncRuntime ---------------------------
(***************************************************************************)
(* Model-checking instances of AsyncRuntime.                               *)
(***************************************************************************)
EXTENDS AsyncRuntime

CONSTANTS j1, j2
=============================================================================
