--------------------------- MODULE MCQueueControl ---------------------------
(***************************************************************************)
(* Model-checking instances of QueueControl.                               *)
(***************************************************************************)
EXTENDS QueueControl

CONSTANTS w1, w2, o1, o2, a, b

\* Rows alternate between two queues; row 3 outranks the others.
Alternate == [x \in Rows |-> IF x % 2 = 1 THEN a ELSE b]

Ranked == [x \in Rows |-> IF x = 3 THEN 1 ELSE 0]

Together == [x \in Rows |-> a]

\* Exact queues with a repetition, alone and before everything; prefixes that
\* overlap each other and an exact queue, with and without "*".
AllShapes ==
  {<<Exact(b), Exact(a), Exact(b)>>,
   <<Exact(b), Star, Exact(a)>>,
   <<Prefix({b}), Exact(a), Prefix({a, b})>>,
   <<Prefix({b}), Star>>}

Everything == [w \in Workers |-> <<Star>>]

\* Operators are interchangeable, and workers with the same selectors.
Interchangeable == Permutations(Operators) \cup Permutations(Workers)
=============================================================================
