------------------------------ MODULE Windows ------------------------------
(***************************************************************************)
(* Window functions of ordadb-execution (WindowProgram::apply): the rows   *)
(* are sorted by partition, order and position, each partition is walked,  *)
(* and each row gets the value of the function over its frame.             *)
(***************************************************************************)
EXTENDS RowOperators

\* A window: function, filter, the columns partition_by, the orders order_by, a frame, and the
\* arguments.  An argument is a column or a literal.
Argument(arg, row) == IF arg.col = 0 THEN arg.literal ELSE row[arg.col]

\* EvaluatedWindowFrame.
Bound(kind, offset) == [kind |-> kind, offset |-> offset]
UnboundedPreceding == Bound("unbounded_preceding", 0)
UnboundedFollowing == Bound("unbounded_following", 0)
CurrentRow         == Bound("current_row", 0)
NoFrame == [units |-> "none", start |-> CurrentRow, end |-> CurrentRow]
default_for_order(order_by) ==
    [units |-> "range", start |-> UnboundedPreceding,
     end |-> IF order_by = <<>> THEN UnboundedFollowing ELSE CurrentRow]
FrameOf(window) == IF window.frame = NoFrame THEN default_for_order(window.order_by) ELSE window.frame

\* 22013 or 42P20: an offset is NULL or negative, or the start follows the end.
OffsetIsInvalid(bound) == bound.kind \in {"preceding", "following"} /\ bound.offset < 0
FrameIsInvalid(frame) ==
    \/ \E b \in {frame.start, frame.end} : OffsetIsInvalid(b)
    \/ frame.start.kind = "preceding" /\ frame.end.kind = "preceding" /\ frame.start.offset < frame.end.offset
    \/ frame.start.kind = "following" /\ frame.end.kind = "following" /\ frame.start.offset > frame.end.offset

\* The keys of the rows: partition, order, position.
SortKey(row, position, window) ==
    Columns(row, window.partition_by)
        \o [k \in DOMAIN window.order_by |-> row[window.order_by[k].col]] \o <<position>>
SortOrders(window) ==
    LET parts == Len(window.partition_by)
        orders == Len(window.order_by)
        Order(col, ascending, nulls) == [col |-> col, ascending |-> ascending, nulls |-> nulls]
    IN [k \in 1 .. parts |-> Order(k, TRUE, "first")]
         \o [k \in 1 .. orders |-> [window.order_by[k] EXCEPT !.col = parts + k]]
         \o <<Order(parts + orders + 1, TRUE, "last")>>
PartitionKey(key, window) == SubSeq(key, 1, Len(window.partition_by))
OrderKey(key, window)     == SubSeq(key, Len(window.partition_by) + 1, Len(key) - 1)
window_key_slices_equal(left, right) == distinct_key(left) = distinct_key(right)

\* The index of the end of a run of rows from start whose slices are equal to the first one's.
EndOfRun(slices, start, last) ==
    LET Differ == {i \in start + 1 .. last : ~window_key_slices_equal(slices[start], slices[i])}
    IN IF Differ = {} THEN last ELSE Min(Differ) - 1

\* A bound that lies outside the partition.
NoIndex == 0

\* The rows among first .. last that are peers of index, looking back or ahead from it.
peer_boundary(index, first, last, peers, is_start) ==
    LET Equal(i) == window_key_slices_equal(peers[i], peers[index])
    IN IF is_start THEN Min({c \in first .. index : \A i \in c .. index : Equal(i)})
       ELSE Max({c \in index .. last : \A i \in index .. c : Equal(i)})

range_threshold_boundary(threshold, order, first, last, peers, is_start) ==
    LET column == [order EXCEPT !.col = 1]
        Found == {i \in first .. last :
                     IF is_start THEN ~compare_rows(peers[i], <<threshold>>, <<column>>)
                     ELSE ~compare_rows(<<threshold>>, peers[i], <<column>>)}
    IN IF Found = {} THEN NoIndex ELSE IF is_start THEN Min(Found) ELSE Max(Found)

window_frame_bound_index(bound, is_start, units, index, first, last, order_by, peers) ==
    IF units = "rows"
    THEN LET position == CASE bound.kind = "unbounded_preceding" -> first
                           [] bound.kind = "preceding"           -> index - bound.offset
                           [] bound.kind = "current_row"         -> index
                           [] bound.kind = "following"           -> index + bound.offset
                           [] bound.kind = "unbounded_following" -> last
         IN IF is_start THEN IF position > last THEN NoIndex ELSE Max({position, first})
            ELSE IF position < first THEN NoIndex ELSE Min({position, last})
    ELSE CASE bound.kind = "unbounded_preceding" -> first
           [] bound.kind = "unbounded_following" -> last
           [] \/ bound.kind = "current_row"
              \/ bound.kind \in {"preceding", "following"} /\ peers[index][1] = Null ->
                  peer_boundary(index, first, last, peers, is_start)
           [] OTHER ->
                  LET order    == order_by[1]
                      subtract == (bound.kind = "preceding") = order.ascending
                      current  == peers[index][1]
                  IN range_threshold_boundary(
                        IF subtract THEN current - bound.offset ELSE current + bound.offset,
                        order, first, last, peers, is_start)


Between(start, end) == IF start = NoIndex \/ end = NoIndex THEN {} ELSE start .. end
window_frame_range(frame, index, first, last, order_by, peers) ==
    Between(window_frame_bound_index(frame.start, TRUE, frame.units, index, first, last, order_by, peers),
            window_frame_bound_index(frame.end, FALSE, frame.units, index, first, last, order_by, peers))

\* 22013: the place asked of NTH_VALUE is NULL or not positive.
BadPlace == -4

SourceRow(keys, rows, index) == rows[Last(keys[index])]
Aggregated(window, keys, rows, indexes) ==
    LET Update(state, index) ==
            IF index \in indexes THEN UpdateState(state, window, SourceRow(keys, rows, index)) ELSE state
    IN StateValue(FoldLeft(Update, NewState(window), [i \in DOMAIN keys |-> i]), window)

\* The starts of the runs of peers from first to index; the last is the start of index's own.
RunStarts(slices, first, index) ==
    {s \in first .. index : s = first \/ ~window_key_slices_equal(slices[s - 1], slices[s])}

\* aggregate_window_mode and apply_optimized_aggregate: the state runs on from the start of
\* the partition to the end of all of it, the row or its peers.
RunsOn(frame) ==
    /\ frame.start.kind = "unbounded_preceding"
    /\ frame.end.kind \in {"unbounded_following", "current_row"}
apply_optimized_aggregate(frame, index, first, last, peers) ==
    first .. CASE frame.end.kind = "unbounded_following" -> last
               [] frame.units = "rows"                   -> index
               [] OTHER -> EndOfRun(peers, Max(RunStarts(peers, first, index)), last)

evaluate_offset_value(window, index, first, last, keys, rows) ==
    LET current == SourceRow(keys, rows, index)
        offset  == IF Len(window.args) < 2 THEN 1 ELSE Argument(window.args[2], current)
        target  == IF window.function = "lag" THEN index - offset ELSE index + offset
    IN IF offset = Null THEN Null
       ELSE IF target \in first .. last THEN Argument(window.args[1], SourceRow(keys, rows, target))
       ELSE IF Len(window.args) < 3 THEN Null ELSE Argument(window.args[3], current)

evaluate_frame_value(window, frame, index, keys, rows) ==
    LET place  == Argument(window.args[2], SourceRow(keys, rows, index))
        target == CASE window.function = "first_value" -> Min(frame)
                    [] window.function = "last_value"  -> Max(frame)
                    [] window.function = "nth_value"   -> Min(frame) + place - 1
    IN IF frame = {} THEN Null
       ELSE IF window.function = "nth_value" /\ place <= 0 THEN BadPlace
       ELSE IF target \in frame THEN Argument(window.args[1], SourceRow(keys, rows, target)) ELSE Null

evaluate_result(window, frame, index, first, last, keys, peers, rows) ==
    CASE window.function = "row_number" -> index - first + 1
      [] window.function = "rank"       -> Max(RunStarts(peers, first, index)) - first + 1
      [] window.function = "dense_rank" -> Cardinality(RunStarts(peers, first, index))
      [] window.function \in {"lag", "lead"} -> evaluate_offset_value(window, index, first, last, keys, rows)
      [] window.function \in {"first_value", "last_value", "nth_value"} ->
             evaluate_frame_value(window,
                 window_frame_range(frame, index, first, last, window.order_by, peers), index, keys, rows)
      [] OTHER ->
             Aggregated(window, keys, rows,
                 IF RunsOn(frame) THEN apply_optimized_aggregate(frame, index, first, last, peers)
                 ELSE window_frame_range(frame, index, first, last, window.order_by, peers))

\* The value of the row at index, in the partition of that row.
ResultAt(index, first, window, keys, parts, rows) ==
    evaluate_result(window, FrameOf(window), index, first, EndOfRun(parts, first, Len(keys)), keys,
                    [i \in DOMAIN keys |-> OrderKey(keys[i], window)], rows)

\* append_window_result: each value goes to the position its key names.
WithResults(rows, window, keys, parts) ==
    [p \in DOMAIN rows |->
        LET index == CHOOSE k \in DOMAIN keys : Last(keys[k]) = p
        IN Append(rows[p], ResultAt(index, Max(RunStarts(parts, 1, index)), window, keys, parts, rows))]
WithKeys(rows, window, keys) ==
    WithResults(rows, window, keys, [i \in DOMAIN keys |-> PartitionKey(keys[i], window)])
SortedKeys(keys, cuts, orders) == OutputRows(BuildOutput(keys, cuts, orders), orders)

apply_window(rows, window, cuts) ==
    WithKeys(rows, window, SortedKeys([i \in DOMAIN rows |-> SortKey(rows[i], i, window)], cuts, SortOrders(window)))

-----------------------------------------------------------------------------
(***************************************************************************)
(* What a window means: a row's partition, its place in it and its frame   *)
(* as sets of rows, with no sort.                                          *)
(***************************************************************************)
SamePartition(rows, window, i, j) ==
    window_key_slices_equal(Columns(rows[i], window.partition_by), Columns(rows[j], window.partition_by))
Precedes(rows, window, i, j) ==
    SamePartition(rows, window, i, j) /\ compare_rows(rows[i], rows[j], window.order_by)

\* before: the pairs of rows of one partition of which one precedes the other in the order.
PlaceOf(before, part, i) ==
    Cardinality({j \in part : <<j, i>> \in before \/ (j <= i /\ <<i, j>> \notin before)})

Sign(bound) == CASE bound.kind = "preceding" -> -1 [] bound.kind = "following" -> 1 [] OTHER -> 0
AtOrPast(limit, value, order, is_start) ==
    IF is_start THEN ~Before(value, limit, order) ELSE ~Before(limit, value, order)

\* The rows of a partition on the inner side of one bound of the frame of row i.
InsideOf(bound, units, is_start, rows, order_by, before, place, part, i) ==
    IF bound.kind \in {"unbounded_preceding", "unbounded_following"} THEN part
    ELSE IF units = "rows"
         THEN {j \in part : IF is_start THEN place[j] >= place[i] + Sign(bound) * bound.offset
                            ELSE place[j] <= place[i] + Sign(bound) * bound.offset}
    ELSE IF bound.kind = "current_row" \/ rows[i][order_by[1].col] = Null
         THEN {j \in part : (IF is_start THEN <<j, i>> ELSE <<i, j>>) \notin before}
    ELSE {j \in part : AtOrPast(rows[i][order_by[1].col]
                                    + Sign(bound) * (IF order_by[1].ascending THEN 1 ELSE -1) * bound.offset,
                                rows[j][order_by[1].col], order_by[1], is_start)}
FrameMeaning(frame, rows, order_by, before, place, part, i) ==
    InsideOf(frame.start, frame.units, TRUE, rows, order_by, before, place, part, i)
        \intersect InsideOf(frame.end, frame.units, FALSE, rows, order_by, before, place, part, i)

\* The argument of the n-th of some rows in their order.
NthOf(window, rows, ordered, n) == IF n \in DOMAIN ordered THEN Argument(window.args[1], rows[ordered[n]]) ELSE Null
Second(window, row) == IF Len(window.args) < 2 THEN 1 ELSE Argument(window.args[2], row)

OffsetMeaning(window, rows, ordered, i, offset, away) ==
    IF offset = Null THEN Null
    ELSE IF away \in DOMAIN ordered \/ Len(window.args) < 3 THEN NthOf(window, rows, ordered, away)
    ELSE Argument(window.args[3], rows[i])

\* frame, a set of rows, is a sequence in the order of their places.
FrameValueMeaning(window, rows, frame, nth) ==
    CASE window.function = "first_value" -> NthOf(window, rows, frame, 1)
      [] window.function = "last_value"  -> NthOf(window, rows, frame, Len(frame))
      [] window.function = "nth_value"   ->
             IF frame # <<>> /\ nth <= 0 THEN BadPlace ELSE NthOf(window, rows, frame, nth)
      [] OTHER -> AggregateMeaning(window, [k \in DOMAIN frame |-> rows[frame[k]]])

InPlace(S, place) == SetToSortSeq(S, LAMBDA i, j : place[i] < place[j])

ValueMeaning(window, rows, before, place, part, i) ==
    CASE window.function = "row_number" -> place[i]
      [] window.function = "rank"       -> 1 + Cardinality({j \in part : <<j, i>> \in before})
      [] window.function = "dense_rank" ->
             Cardinality({{k \in part : <<k, j>> \notin before /\ <<j, k>> \notin before} :
                              j \in {q \in part : <<i, q>> \notin before}})
      [] window.function \in {"lag", "lead"} ->
             OffsetMeaning(window, rows, InPlace(part, place), i, Second(window, rows[i]),
                 IF window.function = "lag" THEN place[i] - Second(window, rows[i])
                 ELSE place[i] + Second(window, rows[i]))
      [] OTHER ->
             FrameValueMeaning(window, rows,
                 InPlace(FrameMeaning(FrameOf(window), rows, window.order_by, before, place, part, i), place),
                 Second(window, rows[i]))

PlacedMeaning(rows, window, before, parts, place) ==
    [i \in DOMAIN rows |-> Append(rows[i], ValueMeaning(window, rows, before, place, parts[i], i))]
OrderedMeaning(rows, window, before, parts) ==
    PlacedMeaning(rows, window, before, parts, [i \in DOMAIN rows |-> PlaceOf(before, parts[i], i)])
WindowMeaning(rows, window) ==
    OrderedMeaning(rows, window,
        {pair \in (DOMAIN rows) \X (DOMAIN rows) : Precedes(rows, window, pair[1], pair[2])},
        [i \in DOMAIN rows |-> {j \in DOMAIN rows : SamePartition(rows, window, i, j)}])
=============================================================================
