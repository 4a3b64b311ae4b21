----------------------------- MODULE QueryPlans -----------------------------
(***************************************************************************)
(* The queries of Execution for TLC: each makes a case of its own happen.  *)
(***************************************************************************)
EXTENDS Windows

Join(rows, kind, left, op, right) ==
    [rows |-> rows, kind |-> kind, left |-> left, op |-> op, right |-> right, derived |-> 0,
     width |-> Len(rows[1])]
Lateral(rows, kind, outer) == [Join(rows, kind, 1, "", 1) EXCEPT !.derived = outer]
Asc(col)  == [col |-> col, ascending |-> TRUE, nulls |-> "default"]
Desc(col) == [Asc(col) EXCEPT !.ascending = FALSE]
When(col, op, literal) == [col |-> col, op |-> op, literal |-> literal]
Agg(function, arg) == [function |-> function, arg |-> arg, distinct |-> FALSE, filter |-> Always, narrow |-> FALSE]
Distinct(spec) == [spec EXCEPT !.distinct = TRUE]
Subquery(kind, rows, left, outer) ==
    [kind |-> kind, rows |-> rows, left |-> left, outer |-> outer, negated |-> FALSE, op |-> "=", quantifier |-> "any"]
Window(function, args, partition_by, order_by) ==
    [function |-> function, args |-> args, partition_by |-> partition_by, order_by |-> order_by,
     frame |-> NoFrame, filter |-> Always, distinct |-> FALSE, narrow |-> FALSE,
     arg |-> IF args = <<>> THEN 0 ELSE args[1].col]
Framed(window, units, start, end) == [window EXCEPT !.frame = [units |-> units, start |-> start, end |-> end]]
Col(col) == [col |-> col, literal |-> Null]
Lit(value) == [col |-> 0, literal |-> value]
Preceding(offset) == Bound("preceding", offset)
Following(offset) == Bound("following", offset)

\* 5 and 15, and 2 and 12, are equal and written differently.
Four == <<<<1, 5>>, <<2, 6>>, <<Null, 7>>, <<1, 15>>>>
Five == <<<<3, 1>>, <<Null, 2>>, <<5, 3>>, <<3, 4>>, <<4, Null>>>>
Select == [base |-> Four, joins |-> <<>>, applies |-> <<>>, filter |-> Always, group_by |-> <<>>, specs |-> <<>>,
           aggregate |-> FALSE, having |-> Always, windows |-> <<>>, order_by |-> <<>>, projection |-> <<1, 2>>,
           distinct |-> FALSE, offset |-> 0, limit |-> Null]
Grouped == [Select EXCEPT !.aggregate = TRUE]

Sorted == {
    [Select EXCEPT !.base = Five, !.order_by = <<Desc(1), Asc(2)>>, !.offset = 1, !.limit = 3],
    [Select EXCEPT !.base = Five, !.order_by = <<[Asc(1) EXCEPT !.nulls = "first"]>>],
    [Select EXCEPT !.projection = <<1>>, !.distinct = TRUE, !.offset = 1, !.limit = 1],
    [Select EXCEPT !.order_by = <<Asc(2)>>, !.distinct = TRUE, !.projection = <<1>>],
    [Select EXCEPT !.filter = When(2, ">", 5)],
    [Select EXCEPT !.limit = 0]}

Right == <<<<2, 3>>, <<1, 4>>, <<1, 8>>, <<Null, 9>>>>
Third == <<<<4, 1>>, <<3, 2>>, <<8, 3>>, <<4, 4>>>>
InnerJoin == Join(Right, "inner", 1, "=", 1)
LeftJoin  == Join(Right, "left", 1, "=", 1)
Joined == {
    [Select EXCEPT !.joins = <<InnerJoin>>, !.projection = <<1, 2, 4>>, !.order_by = <<Asc(4)>>],
    [Select EXCEPT !.joins = <<LeftJoin>>, !.projection = <<1, 2, 4>>, !.limit = 4],
    [Select EXCEPT !.joins = <<Join(SubSeq(Right, 1, 2), "left", 1, "=", 1),
                               Join(SubSeq(Third, 1, 2), "left", 4, "<", 1)>>, !.projection = <<1, 2, 4, 6>>],
    [Select EXCEPT !.joins = <<Lateral(Right, "left", 1)>>, !.projection = <<2, 4>>]}
Flipped == [i \in DOMAIN Right |-> Reverse(Right[i])]
Narrow  == <<<<1>>, <<2>>, <<3>>, <<1>>>>
\* The second table is keyed by its first column, by its second, and has no second.
TwoHashJoins == {
    [Select EXCEPT !.joins = <<LeftJoin, Join(Third, "inner", 4, "=", 1)>>, !.projection = <<2, 4, 6>>],
    [Select EXCEPT !.joins = <<InnerJoin, Join(Third, "left", 1, "=", 2)>>, !.projection = <<2, 4, 5>>],
    [Select EXCEPT !.joins = <<Join(Flipped, "inner", 1, "=", 2), Join(Narrow, "inner", 1, "=", 1)>>,
                   !.projection = <<2, 3, 5>>]}

Nested == <<<<1, 5>>, <<1, 6>>, <<2, Null>>>>
Subqueries == {
    [Select EXCEPT !.applies = <<Subquery("exists", Nested, <<1>>, 1)>>, !.filter = When(3, "=", 1)],
    [Select EXCEPT !.applies = <<Subquery("scalar", Nested, <<1>>, 1)>>, !.projection = <<2, 3>>],
    [Select EXCEPT !.applies = <<Subquery("scalar", Nested, <<1>>, 0)>>, !.projection = <<2, 3>>],
    [Select EXCEPT !.applies = <<[Subquery("quantified", Nested, <<2>>, 0) EXCEPT !.negated = TRUE]>>,
                   !.projection = <<2, 3>>],
    [Select EXCEPT !.applies = <<[Subquery("quantified", Nested, <<2>>, 1) EXCEPT !.op = ">", !.quantifier = "all"]>>,
                   !.projection = <<2, 3>>],
    [Select EXCEPT !.applies = <<Subquery("row_scalar", <<<<0, 1, 5>>>>, <<1, 2>>, 0)>>, !.projection = <<2, 3>>]}

Aggregates == {
    [Grouped EXCEPT !.specs = <<Agg("count", 0), Agg("sum", 2), Agg("min", 1), Distinct(Agg("count", 1))>>,
                    !.base = <<>>],
    [Grouped EXCEPT !.specs = <<Agg("count", 1), Agg("sum", 2), Agg("min", 2)>>],
    [Grouped EXCEPT !.base = Append(@, <<1, 3>>), !.group_by = <<1>>, !.order_by = <<Desc(3)>>,
                    !.specs = <<Agg("count", 0), [Agg("sum", 2) EXCEPT !.narrow = TRUE], Distinct(Agg("sum", 2))>>],
    [Grouped EXCEPT !.group_by = <<1>>, !.having = When(3, "<", 7), !.limit = 1, !.joins = <<InnerJoin>>,
                    !.specs = <<Agg("count", 0), [Agg("sum", 2) EXCEPT !.filter = When(2, "<", 7)], Agg("min", 2)>>]}

Sum2 == Window("sum", <<Col(2)>>, <<>>, <<Asc(1)>>)
Viewed == [Select EXCEPT !.base = Five, !.projection = <<1, 2, 3, 4>>]
Windowed == {
    [Viewed EXCEPT !.windows = <<Window("row_number", <<>>, <<1>>, <<Desc(2)>>), Window("rank", <<>>, <<>>, <<Asc(1)>>)>>,
                   !.order_by = <<Asc(4), Asc(3)>>],
    [Viewed EXCEPT !.windows = <<Window("dense_rank", <<>>, <<>>, <<Desc(1)>>), Sum2>>],
    [Viewed EXCEPT !.windows = <<Framed(Sum2, "rows", Preceding(1), Following(1)),
                                 Framed([Sum2 EXCEPT !.order_by = <<Desc(1)>>], "range", Preceding(1), CurrentRow)>>],
    [Viewed EXCEPT !.windows = <<Framed(Sum2, "range", Following(1), UnboundedFollowing),
                                 Framed([Sum2 EXCEPT !.function = "min"], "rows", UnboundedPreceding, CurrentRow)>>],
    [Viewed EXCEPT !.windows = <<Window("lag", <<Col(2)>>, <<>>, <<Asc(1)>>),
                                 Window("lead", <<Col(2), Lit(2), Col(1)>>, <<>>, <<Asc(1)>>)>>],
    [Viewed EXCEPT !.windows = <<Framed(Window("nth_value", <<Col(2), Lit(2)>>, <<>>, <<Asc(2)>>),
                                        "rows", Preceding(2), Preceding(1)),
                                 Window("last_value", <<Col(2)>>, <<>>, <<Asc(1)>>)>>],
    [Viewed EXCEPT !.windows = <<Window("nth_value", <<Col(2), Col(1)>>, <<>>, <<Asc(1)>>)>>],
    [Viewed EXCEPT !.windows = <<Framed(Sum2, "rows", Preceding(1), Preceding(2))>>],
    [Viewed EXCEPT !.windows = <<Framed(Sum2, "rows", Preceding(Null), CurrentRow)>>],
    [Viewed EXCEPT !.base = <<>>, !.windows = <<Framed(Sum2, "rows", Preceding(1), Preceding(2))>>],
    [Grouped EXCEPT !.group_by = <<1>>, !.specs = <<Agg("sum", 2)>>, !.windows = <<Window("rank", <<>>, <<>>, <<Asc(2)>>)>>,
                    !.projection = <<3, 1, 2>>, !.order_by = <<Desc(1)>>]}

AllQueries == Sorted \union Joined \union TwoHashJoins \union Subqueries \union Aggregates \union Windowed

=============================================================================
