----------------------------- MODULE MCRecurring -----------------------------
(***************************************************************************)
(* Model-checking instances of Recurring.                                  *)
(***************************************************************************)
EXTENDS Recurring, TLC

CONSTANTS s1, s2

\* The schedulers of a node are interchangeable.
Interchangeable == Permutations(Schedulers)

EveryTick == {0, 1, 2}

Sparse == {0, 2}

BothSchedules == {EveryTick, Sparse}

\* Nothing is configured statically.
NoStatic == {<<>>}

\* Releases that make key 1 static, on either schedule, or drop it.
Releases == {<<>>, <<EveryTick>>, <<Sparse>>}

\* The same over a clock of two values.
ShortSchedules == {{0, 1}, {0}}
=============================================================================
