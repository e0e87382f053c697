--------------------------- MODULE QueueSelection ---------------------------
(***************************************************************************)
(* The order in which a worker takes ready rows: by its queue selectors,   *)
(* first come first served, then by priority, then by age.  The code picks *)
(* one of four queries by the shape of the selectors; here each is an      *)
(* operator from a set of candidate rows to the sequence it selects.       *)
(*                                                                         *)
(* A row is a number, smaller is older.  A selector is the set of queues   *)
(* it matches, with the two shapes the code tells apart.                   *)
(***************************************************************************)
EXTENDS Naturals, FiniteSets, FiniteSetsExt, SequencesExt

CONSTANTS
  Rows,          \* ids of ready rows
  Queues,
  Queue,         \* the queue of each row
  Priority       \* the priority of each row

ASSUME QueueSelectionAssumption ==
  /\ Rows \subseteq Nat /\ IsFiniteSet(Rows)
  /\ Queue \in [Rows -> Queues]
  /\ Priority \in [Rows -> Nat]

Exact(q) == [shape |-> "exact", queues |-> {q}]
Prefix(Q) == [shape |-> "prefix", queues |-> Q]
Star == [shape |-> "star", queues |-> Queues]

\* order_by("-priority", "id")
Ahead(a, b) ==
  \/ Priority[a] > Priority[b]
  \/ Priority[a] = Priority[b] /\ a < b

Best(S, n) == {x \in S : Cardinality({y \in S : Ahead(y, x)}) < n}

Matching(S, selector) == {x \in S : Queue[x] \in selector.queues}

\* The rows of the first n, in order: what locked_queryset(ordered)[:n] reads.
Fetch(S, n) == SetToSortSeq(Best(S, n), Ahead)

-----------------------------------------------------------------------------
(* The portable loop over exact queues: one query per selector for what is *)
(* left of the limit, without the rows already selected.                   *)

SelectExactPortable(S, selectors, limit) ==
  LET upTo[i \in 0 .. Len(selectors)] ==
        IF i = 0 THEN <<>>
        ELSE LET got == upTo[i - 1] IN
             got \o Fetch(Matching(S \ Range(got), selectors[i]),
                          limit - Len(got))
  IN upTo[Len(selectors)]

\* dict.fromkeys(selectors): the first occurrence of each selector.
Distinct(selectors) ==
  LET firsts == {i \in DOMAIN selectors :
                   \A h \in 1 .. i - 1 : selectors[h] # selectors[i]}
      at == SetToSortSeq(firsts, <)
  IN [n \in DOMAIN at |-> selectors[at[n]]]

\* The PostgreSQL query over exact queues: one common table expression per
\* selector, each limited by what the earlier ones counted.
SelectExactPostgres(S, selectors, limit) ==
  LET distinct == Distinct(selectors)
      part[i \in 1 .. Len(distinct)] ==
        LET before == SumFunction([h \in 1 .. i - 1 |-> Len(part[h])])
        IN Fetch(Matching(S, distinct[i]),
                 IF before < limit THEN limit - before ELSE 0)
  IN FlattenSeq(part)

\* Mutant: rows are ranked by the last selector that matches.
RankByLast(x, selectors) ==
  CHOOSE i \in DOMAIN selectors :
    /\ Queue[x] \in selectors[i].queues
    /\ \A h \in DOMAIN selectors : h > i => Queue[x] \notin selectors[h].queues

\* CASE WHEN ... THEN index: the first selector that matches.
Rank(x, selectors) ==
  CHOOSE i \in DOMAIN selectors :
    /\ Queue[x] \in selectors[i].queues
    /\ \A h \in 1 .. i - 1 : Queue[x] \notin selectors[h].queues

RankedAhead(a, b, selectors) ==
  \/ Rank(a, selectors) < Rank(b, selectors)
  \/ Rank(a, selectors) = Rank(b, selectors) /\ Ahead(a, b)

\* One query that ranks the rows by selector.
SelectRanked(S, selectors, limit) ==
  LET matching == {x \in S : \E i \in DOMAIN selectors :
                               Queue[x] \in selectors[i].queues}
      Before(a, b) == RankedAhead(a, b, selectors)
      first == {x \in matching :
                  Cardinality({y \in matching : Before(y, x)}) < limit}
  IN SetToSortSeq(first, Before)

\* The selectors before the first "*".
BeforeStar(selectors) ==
  SubSeq(selectors, 1,
         Min({i - 1 : i \in {n \in DOMAIN selectors : selectors[n] = Star}}
             \cup {Len(selectors)}))

AllExact(selectors) == \A i \in DOMAIN selectors : selectors[i].shape = "exact"

\* _select_ready_rows
SelectReady(S, selectors, limit, postgres) ==
  LET ordered == BeforeStar(selectors)
      star == Len(ordered) < Len(selectors)
      selected == IF ordered = <<>> THEN <<>>
                  ELSE IF ~AllExact(ordered) THEN SelectRanked(S, ordered, limit)
                  ELSE IF postgres THEN SelectExactPostgres(S, ordered, limit)
                  ELSE SelectExactPortable(S, ordered, limit)
  IN IF star /\ Len(selected) < limit
     THEN selected \o Fetch(S \ Range(selected), limit - Len(selected))
     ELSE selected

-----------------------------------------------------------------------------
\* What a worker promises, whatever the query: of the rows its selectors
\* match it takes the first in the order of its selectors, then of priority,
\* then of age.
InOrder(S, selectors, limit) ==
  LET matching == {x \in S : \E i \in DOMAIN selectors :
                               Queue[x] \in selectors[i].queues}
      First(x) == Min({i \in DOMAIN selectors : Queue[x] \in selectors[i].queues})
      Before(a, b) == \/ First(a) < First(b)
                      \/ First(a) = First(b) /\ Ahead(a, b)
      first == {x \in matching :
                  Cardinality({y \in matching : Before(y, x)}) < limit}
  IN SetToSortSeq(first, Before)
=============================================================================
