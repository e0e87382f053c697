--------------------------- MODULE MCSemaphoreKey ---------------------------
(***************************************************************************)
(* Model-checking instance of SemaphoreKey.                                *)
(***************************************************************************)
EXTENDS SemaphoreKey
=============================================================================
