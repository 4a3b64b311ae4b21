---------------------------- MODULE RowOperators ----------------------------
(***************************************************************************)
(* Values, sorting and aggregates of ordadb-execution.  Whether a          *)
(* structure still fits below the soft limit of the query's memory is      *)
(* chosen freely wherever the code looks; what does not fit goes to spill  *)
(* files.                                                                  *)
(***************************************************************************)
EXTENDS Integers, FiniteSets, SequencesExt

CONSTANTS MAX_SPILL_MERGE_FAN_IN, HASH_PARTITIONS

\* A value is Null or a number, a truth value 0 or 1.  Numbers that are equal modulo 10 are
\* equal and written differently, like the decimals 1.0 and 1.00.
Null == -1
Class(v) == IF v = Null THEN Null ELSE v % 10
Nulls(n) == [i \in 1 .. n |-> Null]
Truth(b) == IF b THEN 1 ELSE 0
Not(t)   == IF t = Null THEN Null ELSE 1 - t

evaluate_binary(left, op, right) ==
    IF left = Null \/ right = Null THEN Null
    ELSE Truth(CASE op = "="  -> Class(left) = Class(right)
                 [] op = "<>" -> Class(left) # Class(right)
                 [] op = "<"  -> Class(left) < Class(right)
                 [] op = ">"  -> Class(left) > Class(right))

\* JoinHashKey and encode_hash_value keep how a value is written.
encode_hash_value(v) == v
stable_partition(key) == key % HASH_PARTITIONS
distinct_key(row) == [i \in DOMAIN row |-> Class(row[i])]

\* A condition is TRUE, or compares a column with a literal.
Always == [col |-> 0, op |-> "", literal |-> 0]
Holds(cond, row) == IF cond = Always THEN TRUE ELSE evaluate_binary(row[cond.col], cond.op, cond.literal) = 1

Columns(row, cols) == [i \in DOMAIN cols |-> row[cols[i]]]

-----------------------------------------------------------------------------
(***************************************************************************)
(* Sorting: in memory, or as sorted runs that are merged.                  *)
(***************************************************************************)
NullsFirst(order) == IF order.nulls = "default" THEN ~order.ascending ELSE order.nulls = "first"

\* Whether left comes strictly before right in one column.
Before(left, right, order) ==
    IF left = Null \/ right = Null
    THEN left # right /\ (left = Null) = NullsFirst(order)
    ELSE evaluate_binary(left, IF order.ascending THEN "<" ELSE ">", right) = 1

compare_rows(left, right, order_by) ==
    \E k \in DOMAIN order_by :
        /\ Before(left[order_by[k].col], right[order_by[k].col], order_by[k])
        /\ \A i \in 1 .. k - 1 : /\ ~Before(left[order_by[i].col], right[order_by[i].col], order_by[i])
                                 /\ ~Before(right[order_by[i].col], left[order_by[i].col], order_by[i])

\* Rust's sort_by is stable.
sort_rows(rows, order_by) ==
    LET Rank(i) == Cardinality({j \in DOMAIN rows :
                       \/ compare_rows(rows[j], rows[i], order_by)
                       \/ j <= i /\ ~compare_rows(rows[i], rows[j], order_by)})
    IN [k \in DOMAIN rows |-> rows[CHOOSE i \in DOMAIN rows : Rank(i) = k]]

\* SpillMergeCursor: a binary heap of the runs that still have a row, by their first rows.
spill_run_precedes(runs, left, right, order_by) ==
    \/ compare_rows(Head(runs[left]), Head(runs[right]), order_by)
    \/ left < right /\ ~compare_rows(Head(runs[right]), Head(runs[left]), order_by)

Swap(heap, i, j) == [heap EXCEPT ![i] = heap[j], ![j] = heap[i]]

RECURSIVE SiftUp(_, _, _, _)
SiftUp(heap, child, runs, order_by) ==
    LET parent == child \div 2
    IN IF child = 1 THEN heap
       ELSE IF spill_run_precedes(runs, heap[child], heap[parent], order_by)
            THEN SiftUp(Swap(heap, child, parent), parent, runs, order_by) ELSE heap
spill_heap_push(heap, runs, index, order_by) == SiftUp(Append(heap, index), Len(heap) + 1, runs, order_by)

RECURSIVE SiftDown(_, _, _, _)
SiftDown(heap, parent, runs, order_by) ==
    LET left  == 2 * parent
        child == IF left < Len(heap) /\ spill_run_precedes(runs, heap[left + 1], heap[left], order_by)
                 THEN left + 1 ELSE left
    IN IF left > Len(heap) THEN heap
       ELSE IF spill_run_precedes(runs, heap[child], heap[parent], order_by)
            THEN SiftDown(Swap(heap, parent, child), child, runs, order_by) ELSE heap
\* What is left when the root is taken.
spill_heap_pop(heap, runs, order_by) ==
    IF Len(heap) = 1 THEN <<>> ELSE SiftDown(<<Last(heap)>> \o Tail(Front(heap)), 1, runs, order_by)

OpenMerge(runs, order_by) ==
    LET Push(heap, i) == IF runs[i] = <<>> THEN heap ELSE spill_heap_push(heap, runs, i, order_by)
    IN [runs |-> runs, heap |-> FoldLeft(Push, <<>>, [i \in DOMAIN runs |-> i])]
MergeEnded(merge) == merge.heap = <<>>
NextOfMerge(merge) == Head(merge.runs[Head(merge.heap)])
PopNext(merge, order_by) ==
    LET index == Head(merge.heap)
        runs  == [merge.runs EXCEPT ![index] = Tail(@)]
        heap  == spill_heap_pop(merge.heap, merge.runs, order_by)
    IN [runs |-> runs, heap |-> IF runs[index] = <<>> THEN heap ELSE spill_heap_push(heap, runs, index, order_by)]

RECURSIVE MergedRows(_, _)
MergedRows(merge, order_by) ==
    IF MergeEnded(merge) THEN <<>> ELSE <<NextOfMerge(merge)>> \o MergedRows(PopNext(merge, order_by), order_by)
merge_sorted_group(runs, order_by) == MergedRows(OpenMerge(runs, order_by), order_by)

RECURSIVE compact_sorted_runs(_, _)
compact_sorted_runs(runs, order_by) ==
    IF Len(runs) <= MAX_SPILL_MERGE_FAN_IN THEN runs
    ELSE LET chunks == (Len(runs) + MAX_SPILL_MERGE_FAN_IN - 1) \div MAX_SPILL_MERGE_FAN_IN
             First(g) == (g - 1) * MAX_SPILL_MERGE_FAN_IN + 1
             Last1(g) == IF g = chunks THEN Len(runs) ELSE g * MAX_SPILL_MERGE_FAN_IN
         IN compact_sorted_runs(
                [g \in 1 .. chunks |-> merge_sorted_group(SubSeq(runs, First(g), Last1(g)), order_by)],
                order_by)

\* RowsOutputBuilder: crosses says whether the soft limit would be crossed.
EmptyBuilder == [rows |-> <<>>, runs |-> <<>>]
write_sorted_run(b, order_by) == [rows |-> <<>>, runs |-> Append(b.runs, sort_rows(b.rows, order_by))]
PushRow(b, row, crosses, order_by) ==
    LET room == IF b.rows # <<>> /\ crosses THEN write_sorted_run(b, order_by) ELSE b
    IN [room EXCEPT !.rows = Append(@, row)]
NoMerge == [runs |-> <<>>, heap |-> <<>>]
InMemory(rows) == [rows |-> rows, merge |-> NoMerge]
FinishBuilder(b, order_by) ==
    IF b.runs = <<>> THEN InMemory(sort_rows(b.rows, order_by))
    ELSE LET all == IF b.rows = <<>> THEN b.runs ELSE write_sorted_run(b, order_by).runs
         IN [rows |-> <<>>, merge |-> OpenMerge(compact_sorted_runs(all, order_by), order_by)]

-----------------------------------------------------------------------------
(***************************************************************************)
(* Aggregates.  A SUM keeps the narrow type of its argument until a second *)
(* value is added (Int32 and Int64 of add_values).                         *)
(***************************************************************************)
Sum(n, wide) == [n |-> n, wide |-> wide]
NoSum == Sum(Null, FALSE)
Mixed == Sum(-2, FALSE)   \* 42804: SUM values have mixed types

add_values(left, right, spec) ==
    IF left = NoSum THEN right
    ELSE IF left = Mixed \/ right = Mixed \/ (spec.narrow /\ ~left.wide /\ right.wide) THEN Mixed
    ELSE Sum(left.n + right.n, TRUE)

NewState(spec) ==
    IF spec.distinct THEN {} ELSE CASE spec.function = "count" -> 0
                                    [] spec.function = "sum"   -> NoSum
                                    [] OTHER                   -> Null

\* The smaller of two, the first of equals; Null gives way.
select_value(selected, value) ==
    IF value = Null \/ (selected # Null /\ Class(selected) <= Class(value)) THEN selected ELSE value

UpdateState(state, spec, row) ==
    LET value == IF spec.arg = 0 THEN 0 ELSE row[spec.arg]
    IN IF ~Holds(spec.filter, row) \/ value = Null THEN state
       ELSE IF spec.distinct
            THEN IF \E v \in state : Class(v) = Class(value) THEN state ELSE state \union {value}
       ELSE CASE spec.function = "count" -> state + 1
              [] spec.function = "sum"   -> add_values(state, Sum(Class(value), FALSE), spec)
              [] spec.function = "min"   -> select_value(state, value)

MergeState(left, right, spec) ==
    IF spec.distinct
    THEN left \union {v \in right : \A w \in left : Class(v) # Class(w)}
    ELSE CASE spec.function = "count" -> left + right
           [] spec.function = "sum"   -> IF right = NoSum THEN left ELSE add_values(left, right, spec)
           [] spec.function = "min"   -> select_value(left, right)

StateValue(state, spec) ==
    CASE spec.distinct /\ spec.function = "count" -> Cardinality(state)
      [] spec.distinct /\ spec.function = "sum"   ->
             IF state = {} THEN Null ELSE FoldSet(LAMBDA v, n : Class(v) + n, 0, state)
      [] ~spec.distinct /\ spec.function = "sum"  -> state.n
      [] OTHER                                    -> state

\* All rows pushed to a builder: before the rows at cuts the soft limit would be crossed.
BuildOutput(rows, cuts, order_by) ==
    LET Push(b, i) == PushRow(b, rows[i], i \in cuts, order_by)
    IN FinishBuilder(FoldLeft(Push, EmptyBuilder, [i \in DOMAIN rows |-> i]), order_by)
Cuts(rows) == SUBSET (2 .. Len(rows))
OutputRows(out, order_by) == out.rows \o MergedRows(out.merge, order_by)

\* An aggregate of a sequence of rows.
AggregateMeaning(spec, rows) ==
    LET Taken == {i \in DOMAIN rows : /\ Holds(spec.filter, rows[i])
                                      /\ spec.arg # 0 => rows[i][spec.arg] # Null}
        Number(i) == IF spec.arg = 0 THEN 0 ELSE Class(rows[i][spec.arg])
        Counted == IF spec.distinct
                   THEN {i \in Taken : \A j \in Taken : Number(j) = Number(i) => i <= j} ELSE Taken
    IN CASE spec.function = "count" -> Cardinality(Counted)
         [] spec.function = "sum"   -> IF Taken = {} THEN Null ELSE FoldSet(LAMBDA i, n : Number(i) + n, 0, Counted)
         [] spec.function = "min"   ->
                IF Taken = {} THEN Null
                ELSE rows[Min({i \in Taken : \A j \in Taken : Number(i) <= Number(j)})][spec.arg]
=============================================================================
