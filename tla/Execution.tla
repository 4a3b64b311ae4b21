------------------------------ MODULE Execution ------------------------------
(***************************************************************************)
(* The execution of one query by ordadb-execution: AdvancedExecutionCursor *)
(* with joins, subqueries, filter, aggregates, windows, sort, DISTINCT,    *)
(* OFFSET and LIMIT.  Whether a structure still fits below the soft limit *)
(* of the memory of the query is chosen freely wherever the code looks;    *)
(* what does not fit goes to spill files.  The rows are compared with what *)
(* the query means.                                                        *)
(***************************************************************************)
EXTENDS Windows

CONSTANTS
    Plans   \* AdvancedExecutionPlans, with the rows of their tables

VARIABLES
    plan,       \* AdvancedExecutionPlan
    source,     \* JoinedSource
    groups,     \* GroupAccumulators in memory, and the spilled partials by partition
    builder,    \* RowsOutputBuilder
    output,     \* RowsOutput
    cursor      \* the rest of AdvancedExecutionCursor

execution == <<plan, source, groups, builder, output, cursor>>

\* GroupAccumulator.
NewGroup(key, row, ordinal) ==
    [key |-> key, representative |-> row, first_ordinal |-> ordinal,
     states |-> [s \in DOMAIN plan.specs |-> UpdateState(NewState(plan.specs[s]), plan.specs[s], row)]]
EmptyGroup ==
    [key |-> <<>>, representative |-> <<>>, first_ordinal |-> 0,
     states |-> [s \in DOMAIN plan.specs |-> NewState(plan.specs[s])]]
UpdateGroup(group, row) ==
    [group EXCEPT !.states = [s \in DOMAIN @ |-> UpdateState(@[s], plan.specs[s], row)]]
MergeGroup(group, other) ==
    LET first == IF other.first_ordinal < group.first_ordinal THEN other ELSE group
    IN [first EXCEPT !.key = group.key,
                     !.states = [s \in DOMAIN @ |-> MergeState(group.states[s], other.states[s], plan.specs[s])]]

SameKey(k, l) == distinct_key(k) = distinct_key(l)
Position(list, key) == {g \in DOMAIN list : SameKey(list[g].key, key)}

\* The key of a spilled partial is hashed as it is written.
partition_of(key) == IF key = <<>> THEN 0 ELSE stable_partition(encode_hash_value(key[1]))
write_group_partials(g) ==
    [g EXCEPT !.memory = <<>>,
              !.spilled = [p \in DOMAIN @ |->
                  @[p] \o SelectSeq(g.memory, LAMBDA group : partition_of(group.key) = p)],
              !.any = TRUE]
\* Mutant: the partials of a group that was spilled twice stay two groups.
read_and_merge_groups_unmerged(partials) == partials
read_and_merge_groups(partials) ==
    LET Take(list, incoming) ==
            IF Position(list, incoming.key) = {} THEN Append(list, incoming)
            ELSE [list EXCEPT ![Min(Position(list, incoming.key))] = MergeGroup(@, incoming)]
        merged == FoldLeft(Take, <<>>, partials)
    IN SetToSortSeq(Range(merged), LAMBDA g, h : g.first_ordinal < h.first_ordinal)

project_group(group) ==
    LET values == [s \in DOMAIN plan.specs |-> StateValue(group.states[s], plan.specs[s])]
        row == Columns(group.representative, plan.group_by) \o values
    IN IF Holds(plan.having, row) THEN <<row>> ELSE <<>>

NoGroups == [memory |-> <<>>, spilled |-> [p \in 0 .. HASH_PARTITIONS - 1 |-> <<>>], any |-> FALSE, ordinal |-> 0]

-----------------------------------------------------------------------------
(***************************************************************************)
(* Subqueries in expressions: the rows of the nested cursor are collected, *)
(* once, or for every outer row when it is correlated.                     *)
(***************************************************************************)
evaluate_row_comparison(left, op, right) ==
    LET parts == {evaluate_binary(left[i], "=", right[i]) : i \in DOMAIN left}
    IN IF 0 \in parts THEN Truth(op = "<>")
       ELSE IF Null \in parts THEN Null ELSE Truth(op = "=")

CompareRow(left, op, right) ==
    IF Len(left) = 1 THEN evaluate_binary(left[1], op, right[1]) ELSE evaluate_row_comparison(left, op, right)

evaluate_quantified_subquery(left, op, quantifier, candidates) ==
    LET verdicts == {CompareRow(left, op, candidate) : candidate \in Range(candidates)}
    IN IF quantifier = "any" /\ 1 \in verdicts THEN 1
       ELSE IF quantifier = "all" /\ 0 \in verdicts THEN 0
       ELSE IF Null \in verdicts THEN Null ELSE Truth(quantifier = "all")

\* The first column of a correlated subquery's table is compared with an outer column.
NestedRows(apply, row) ==
    SelectSeq(apply.rows, LAMBDA r : apply.outer = 0 \/ evaluate_binary(r[1], "=", row[apply.outer]) = 1)
collect_apply_rows(apply, row) ==
    LET rows == NestedRows(apply, row)
    IN [i \in DOMAIN rows |-> SubSeq(rows[i], 2, Len(apply.left) + 1)]

\* The value of an Apply, or TooMany (21000) when a scalar subquery returns more than one row.
TooMany == -3
evaluate_apply(apply, row) ==
    LET rows == collect_apply_rows(apply, row)
        left == Columns(row, apply.left)
        Negate(t) == IF apply.negated THEN Not(t) ELSE t
    IN CASE apply.kind = "exists" -> Truth((rows # <<>>) # apply.negated)
         [] apply.kind = "scalar" -> IF Len(rows) > 1 THEN TooMany
                                     ELSE IF rows = <<>> THEN Null ELSE rows[1][1]
         [] apply.kind = "row_scalar" -> IF Len(rows) > 1 THEN TooMany
                                         ELSE IF rows = <<>> THEN Null
                                         ELSE evaluate_row_comparison(left, apply.op, rows[1])
         [] apply.kind = "quantified" ->
                Negate(evaluate_quantified_subquery(left, apply.op, apply.quantifier, rows))

ApplyValues(row) == [a \in DOMAIN plan.applies |-> evaluate_apply(plan.applies[a], row)]
FailsToApply(row) == \E a \in DOMAIN plan.applies : ApplyValues(row)[a] = TooMany
Applied(row) == row \o ApplyValues(row)

-----------------------------------------------------------------------------
(***************************************************************************)
(* JoinedSource: nested loops over the joins, one turn of the loop of      *)
(* next_row at a time.                                                     *)
(***************************************************************************)
Pulling == cursor.phase = "pull"
Base    == plan.base
Joins   == plan.joins
depth   == Len(source.prefixes)       \* 1 for the first join
Frame   == source.frames[depth]
Fresh   == [candidates |-> <<>>, initialized |-> FALSE, matched |-> FALSE, null_emitted |-> FALSE]
install(candidates) == [Fresh EXCEPT !.candidates = candidates, !.initialized = TRUE]

choose_join_strategy(left, right, equi) ==
    equi /\ 3 * (left + right) < 2 * Max({left, 1}) * Max({right, 1})
Hashed(j) == /\ Joins[j].derived = 0
             /\ choose_join_strategy(Len(Base), Len(Joins[j].rows), Joins[j].op = "=")

\* One set of files for all joins of a query.
write_partitioned_rows(rows, right) ==
    [p \in 0 .. HASH_PARTITIONS - 1 |->
        SelectSeq(rows, LAMBDA r : r[right] # Null /\ stable_partition(encode_hash_value(r[right])) = p)]

\* spills: the table of join j does not fit below the soft limit.
MaySpill(j) == IF Hashed(j) /\ source.lookups[j] = "uninitialized" /\ Joins[j].rows # <<>> THEN BOOLEAN ELSE {FALSE}
ensure_hash_lookup(j, spills) ==
    IF ~Hashed(j) \/ source.lookups[j] # "uninitialized" THEN source
    ELSE IF spills THEN [source EXCEPT !.lookups[j] = "spilled",
                                       !.files = write_partitioned_rows(Joins[j].rows, Joins[j].right)]
    ELSE [source EXCEPT !.lookups[j] = "memory"]

Bucket(s, j, prefix) ==
    IF s.lookups[j] = "memory" THEN Joins[j].rows
    ELSE s.files[stable_partition(encode_hash_value(prefix[Joins[j].left]))]

\* A derived table is LATERAL: its first column is compared with an outer one.
candidates(s, j, prefix) ==
    LET join == Joins[j]
        key  == prefix[join.left]
    IN CASE join.derived # 0 ->
                SelectSeq(join.rows, LAMBDA r : evaluate_binary(r[1], "=", prefix[join.derived]) = 1)
         [] ~Hashed(j) -> join.rows
         [] Hashed(j) /\ key = Null -> <<>>
         [] OTHER -> SelectSeq(Bucket(s, j, prefix),
                        LAMBDA r : encode_hash_value(r[join.right]) = encode_hash_value(key))

\* A record of the spill file that has no such column.
KeyIsMissing(s, j, prefix) ==
    /\ Hashed(j) /\ s.lookups[j] = "spilled" /\ prefix[Joins[j].left] # Null
    /\ \E r \in Range(Bucket(s, j, prefix)) : Len(r) < Joins[j].right

Matches(j, prefix, right) ==
    Joins[j].op = "" \/ evaluate_binary(prefix[Joins[j].left], Joins[j].op, right[Joins[j].right]) = 1

HandOver(row)  == cursor' = [cursor EXCEPT !.phase = "row", !.row = row]
SourceIsEmpty  == cursor' = [cursor EXCEPT !.phase = "finish"]
FailWith(code) == cursor' = [cursor EXCEPT !.phase = "failed", !.error = code]
SourceOnly     == UNCHANGED <<plan, groups, builder, output>>

\* initialize_aggregate takes the rows of a lone table at once.
TakesUnjoined ==
    /\ plan.aggregate /\ Joins = <<>> /\ plan.applies = <<>> /\ plan.filter = Always
    /\ plan.group_by = <<>> /\ \A s \in DOMAIN plan.specs : ~plan.specs[s].distinct

NextBaseRow ==
    /\ Pulling /\ Joins = <<>> /\ ~TakesUnjoined /\ SourceOnly
    /\ IF source.base_offset < Len(Base)
       THEN /\ HandOver(Base[source.base_offset + 1])
            /\ source' = [source EXCEPT !.base_offset = @ + 1]
       ELSE SourceIsEmpty /\ UNCHANGED source

OnlyHash == Len(Joins) = 1 /\ Hashed(1)

next_single_hash_row ==
    /\ Pulling /\ OnlyHash /\ source.prefixes = <<>> /\ SourceOnly
    /\ IF source.base_offset = Len(Base) THEN SourceIsEmpty /\ UNCHANGED source
       ELSE \E spills \in MaySpill(1) :
            LET base  == Base[source.base_offset + 1]
                ready == [ensure_hash_lookup(1, spills) EXCEPT !.base_offset = @ + 1]
                found == candidates(ready, 1, base)
            IN IF base[Joins[1].left] # Null /\ (ready.lookups[1] = "spilled" \/ Len(found) > 1)
               THEN /\ source' = [ready EXCEPT !.prefixes = <<base>>, !.frames[1] = install(found)]
                    /\ UNCHANGED cursor
               ELSE /\ source' = ready
                    /\ IF found # <<>> THEN HandOver(base \o found[1])
                       ELSE IF Joins[1].kind = "left" THEN HandOver(base \o Nulls(Joins[1].width))
                       ELSE UNCHANGED cursor

Looping == Pulling /\ Joins # <<>>

NextPrefix ==
    /\ Looping /\ ~OnlyHash /\ source.prefixes = <<>> /\ SourceOnly
    /\ IF source.base_offset = Len(Base) THEN SourceIsEmpty /\ UNCHANGED source
       ELSE /\ source' = [source EXCEPT !.base_offset = @ + 1, !.prefixes = <<Base[source.base_offset + 1]>>]
            /\ UNCHANGED cursor

\* All joins have a row: the last prefix is the joined row.
EmitJoined ==
    /\ Looping /\ depth = Len(Joins) + 1 /\ SourceOnly
    /\ HandOver(Last(source.prefixes))
    /\ source' = [source EXCEPT !.prefixes = Front(@)]

InitCandidates ==
    /\ Looping /\ depth \in DOMAIN Joins /\ ~Frame.initialized /\ SourceOnly
    /\ \E spills \in MaySpill(depth) :
          LET ready  == ensure_hash_lookup(depth, spills)
              prefix == Last(source.prefixes)
          IN IF KeyIsMissing(ready, depth, prefix) THEN source' = ready /\ FailWith("XX001")
             ELSE /\ source' = [ready EXCEPT !.frames[depth] = install(candidates(ready, depth, prefix))]
                  /\ UNCHANGED cursor

\* The next prefix, with a fresh frame for the join after it.
Descend(frame, row) ==
    source' = [source EXCEPT !.prefixes = Append(@, row),
                             !.frames = [j \in DOMAIN @ |-> IF j = depth THEN frame
                                                            ELSE IF j = depth + 1 THEN Fresh ELSE @[j]]]

TryCandidate ==
    /\ Looping /\ depth \in DOMAIN Joins /\ Frame.initialized /\ Frame.candidates # <<>>
    /\ SourceOnly /\ UNCHANGED cursor
    /\ LET right == Head(Frame.candidates)
           next  == [Frame EXCEPT !.candidates = Tail(@)]
       IN IF Hashed(depth) \/ Matches(depth, Last(source.prefixes), right)
          THEN Descend([next EXCEPT !.matched = TRUE], Last(source.prefixes) \o right)
          ELSE source' = [source EXCEPT !.frames[depth] = next]

Tried == Looping /\ depth \in DOMAIN Joins /\ Frame.initialized /\ Frame.candidates = <<>>
OwesNulls == Joins[depth].kind = "left" /\ ~Frame.matched /\ ~Frame.null_emitted

EmitNulls ==
    /\ Tried /\ OwesNulls /\ SourceOnly /\ UNCHANGED cursor
    /\ Descend([Frame EXCEPT !.null_emitted = TRUE], Last(source.prefixes) \o Nulls(Joins[depth].width))

Backtrack ==
    /\ Tried /\ ~OwesNulls /\ SourceOnly /\ UNCHANGED cursor
    /\ source' = [source EXCEPT !.frames[depth] = Fresh, !.prefixes = Front(@)]

-----------------------------------------------------------------------------
(***************************************************************************)
(* What becomes of a row: initialize_aggregate, initialize_sorted_source,  *)
(* or straight to the output.                                              *)
(***************************************************************************)
RowArrived == cursor.phase = "row" /\ UNCHANGED <<plan, source, output>>
Row        == Applied(cursor.row)
Pull       == cursor' = [cursor EXCEPT !.phase = "pull"]

LimitReached(c) == plan.limit # Null /\ Len(c.result) >= plan.limit

\* keep_distinct_row, and OFFSET in next_batch.
Deliver(c, row) ==
    LET key  == distinct_key(row)
        kept == IF plan.distinct THEN [c EXCEPT !.distinct_rows = @ \union {key}] ELSE c
    IN IF plan.distinct /\ key \in c.distinct_rows THEN c
       ELSE IF c.offset_remaining > 0 THEN [kept EXCEPT !.offset_remaining = @ - 1]
       ELSE [kept EXCEPT !.result = Append(@, row)]

SetPhase(c, more) == [c EXCEPT !.phase = IF LimitReached(c) THEN "done" ELSE more]

ApplyFails == RowArrived /\ FailsToApply(cursor.row) /\ FailWith("21000") /\ UNCHANGED <<groups, builder>>

Rejected ==
    /\ RowArrived /\ ~FailsToApply(cursor.row) /\ ~Holds(plan.filter, Row)
    /\ Pull /\ UNCHANGED <<groups, builder>>

Accepted == RowArrived /\ ~FailsToApply(cursor.row) /\ Holds(plan.filter, Row)
Streams  == ~plan.aggregate /\ plan.order_by = <<>> /\ plan.windows = <<>>
Sorts    == ~plan.aggregate /\ ~Streams /\ plan.windows = <<>>

StreamRow ==
    /\ Accepted /\ Streams /\ UNCHANGED <<groups, builder>>
    /\ cursor' = SetPhase(Deliver(cursor, Columns(Row, plan.projection)), "pull")

SortRow ==
    /\ Accepted /\ Sorts /\ Pull /\ UNCHANGED groups
    /\ \E crosses \in BOOLEAN : builder' = PushRow(builder, Row, crosses, plan.order_by)

\* initialize_windowed_source: a store of rows, in memory or in files, read by index.
StoreRow ==
    /\ Accepted /\ ~plan.aggregate /\ plan.windows # <<>> /\ UNCHANGED <<groups, builder>>
    /\ cursor' = [cursor EXCEPT !.phase = "pull", !.window_rows = Append(@, Row)]

\* crosses: there is no room for another group; over: the soft limit is passed afterwards.
Accumulate(g, row, crosses, over) ==
    LET key   == Columns(row, plan.group_by)
        found == Position(g.memory, key)
        room  == IF g.memory # <<>> /\ crosses THEN write_group_partials(g) ELSE g
        kept  == IF found # {} THEN [g EXCEPT !.memory[Min(found)] = UpdateGroup(@, row)]
                 ELSE [room EXCEPT !.memory = Append(@, NewGroup(key, row, g.ordinal))]
    IN [IF over THEN write_group_partials(kept) ELSE kept EXCEPT !.ordinal = @ + 1]

GroupRow ==
    /\ Accepted /\ plan.aggregate /\ Pull /\ UNCHANGED builder
    /\ \E crosses, over \in BOOLEAN : groups' = Accumulate(groups, Row, crosses, over)

take_unjoined_rows ==
    /\ Pulling /\ TakesUnjoined /\ source.base_offset = 0 /\ SourceIsEmpty
    /\ source' = [source EXCEPT !.base_offset = Len(Base)]
    /\ groups' = IF Base = <<>> THEN groups
                 ELSE [groups EXCEPT !.memory =
                          <<FoldLeft(UpdateGroup, NewGroup(<<>>, Head(Base), 0), Tail(Base))>>]
    /\ UNCHANGED <<plan, builder, output>>

-----------------------------------------------------------------------------
(***************************************************************************)
(* The end of the source, and the output.                                  *)
(***************************************************************************)
Finishing == cursor.phase = "finish" /\ UNCHANGED <<plan, source>>

FinishStream == Finishing /\ Streams /\ cursor' = [cursor EXCEPT !.phase = "done"] /\ UNCHANGED <<groups, builder, output>>

FinishSort ==
    /\ Finishing /\ Sorts /\ UNCHANGED groups
    /\ output' = FinishBuilder(builder, plan.order_by) /\ builder' = EmptyBuilder
    /\ cursor' = SetPhase(cursor, "emit")

\* The groups with the one of an empty input, all spilled if some are.
FinishedGroups ==
    LET full == IF plan.group_by = <<>> /\ groups.memory = <<>> THEN [groups EXCEPT !.memory = <<EmptyGroup>>]
                ELSE groups
    IN IF full.any /\ full.memory # <<>> THEN write_group_partials(full) ELSE full
AllGroups(g) ==
    IF g.any THEN FlattenSeq([p \in 1 .. HASH_PARTITIONS |-> read_and_merge_groups(g.spilled[p - 1])]) ELSE g.memory

MixedSum(group) == \E s \in DOMAIN plan.specs :
    plan.specs[s].function = "sum" /\ ~plan.specs[s].distinct /\ group.states[s] = Mixed

FinishGroups ==
    /\ Finishing /\ plan.aggregate /\ UNCHANGED builder
    /\ LET all  == AllGroups(FinishedGroups)
           rows == FlattenSeq([g \in DOMAIN all |-> project_group(all[g])])
       IN IF \E g \in DOMAIN all : MixedSum(all[g])
          THEN FailWith("42804") /\ UNCHANGED <<groups, output>>
          ELSE /\ groups' = NoGroups
               /\ IF plan.windows = <<>>
                  THEN /\ cursor' = SetPhase(cursor, "emit")
                       /\ \E cuts \in Cuts(rows) : output' = BuildOutput(rows, cuts, plan.order_by)
                  ELSE /\ UNCHANGED output
                       /\ \E cuts \in Cuts(rows) :
                             cursor' = [cursor EXCEPT !.phase = "window",
                                            !.window_rows = OutputRows(BuildOutput(rows, cuts, <<>>), <<>>)]

-----------------------------------------------------------------------------
(***************************************************************************)
(* Windows, one after the other over all rows (initialize_windowed_source, *)
(* initialize_aggregate_windowed_source).                                  *)
(***************************************************************************)
FinishStore ==
    /\ Finishing /\ ~plan.aggregate /\ plan.windows # <<>>
    /\ cursor' = [cursor EXCEPT !.phase = "window"] /\ UNCHANGED <<groups, builder, output>>

Windowing   == cursor.phase = "window" /\ UNCHANGED <<plan, source, groups, builder>>
windows     == SubSeq(plan.windows, cursor.applied + 1, Len(plan.windows))
FrameCode(frame) == IF \E b \in {frame.start, frame.end} : OffsetIsInvalid(b) THEN "22013" ELSE "42P20"

\* The frame of a window is only evaluated when there are rows.
ApplyWindow ==
    /\ Windowing /\ windows # <<>> /\ UNCHANGED output
    /\ LET window == Head(windows)
           frame  == FrameOf(window)
           rows   == cursor.window_rows
       IN IF rows # <<>> /\ FrameIsInvalid(frame) THEN FailWith(FrameCode(frame))
          ELSE \E cuts \in Cuts(rows) :
               LET next == apply_window(rows, window, cuts)
               IN IF \E row \in Range(next) : Last(row) = BadPlace THEN FailWith("22013")
                  ELSE cursor' = [cursor EXCEPT !.window_rows = next, !.applied = @ + 1]

\* The columns of groups with windows are put in the order of the query.
WindowOutput(rows) ==
    IF plan.aggregate THEN [i \in DOMAIN rows |-> Columns(rows[i], plan.projection)] ELSE rows

install_window_output ==
    /\ Windowing /\ windows = <<>>
    /\ cursor' = SetPhase([cursor EXCEPT !.window_rows = <<>>], "emit")
    /\ LET rows == WindowOutput(cursor.window_rows)
       IN \E cuts \in Cuts(rows) : output' = BuildOutput(rows, cuts, plan.order_by)

\* RowsOutput::next_row.
Ended     == output.rows = <<>> /\ MergeEnded(output.merge)
NextRow   == IF output.rows # <<>> THEN Head(output.rows) ELSE NextOfMerge(output.merge)
RowsAfter == IF output.rows # <<>> THEN [output EXCEPT !.rows = Tail(@)]
             ELSE [output EXCEPT !.merge = PopNext(@, plan.order_by)]

next_output_row ==
    /\ cursor.phase = "emit" /\ UNCHANGED <<plan, source, groups, builder>>
    /\ IF Ended THEN cursor' = [cursor EXCEPT !.phase = "done"] /\ output' = InMemory(<<>>)
       ELSE /\ output' = RowsAfter
            /\ cursor' = SetPhase(Deliver(cursor, IF plan.aggregate THEN NextRow
                                                  ELSE Columns(NextRow, plan.projection)), "emit")

-----------------------------------------------------------------------------
\* ApplyRuntime::new collects the rows of an uncorrelated subquery at once.
FailsToStart ==
    \E a \in DOMAIN plan.applies :
        /\ plan.applies[a].outer = 0 /\ plan.applies[a].kind \in {"scalar", "row_scalar"}
        /\ Len(plan.applies[a].rows) > 1

ExecutionInit ==
    /\ plan \in Plans
    /\ source = [base_offset |-> 0, prefixes |-> <<>>, frames |-> [j \in DOMAIN plan.joins |-> Fresh],
                 lookups |-> [j \in DOMAIN plan.joins |-> "uninitialized"],
                 files |-> [p \in 0 .. HASH_PARTITIONS - 1 |-> <<>>]]
    /\ groups = NoGroups /\ builder = EmptyBuilder /\ output = InMemory(<<>>)
    /\ cursor = [phase |-> IF FailsToStart THEN "failed" ELSE IF Streams /\ plan.limit = 0 THEN "done" ELSE "pull",
                 error |-> IF FailsToStart THEN "21000" ELSE "", row |-> <<>>,
                 offset_remaining |-> plan.offset, distinct_rows |-> {}, result |-> <<>>,
                 window_rows |-> <<>>, applied |-> 0]

ExecutionNext ==
    \/ NextBaseRow \/ next_single_hash_row \/ NextPrefix \/ EmitJoined \/ InitCandidates
    \/ TryCandidate \/ EmitNulls \/ Backtrack
    \/ ApplyFails \/ Rejected \/ StreamRow \/ SortRow \/ StoreRow \/ GroupRow \/ take_unjoined_rows
    \/ FinishStream \/ FinishSort \/ FinishGroups \/ FinishStore
    \/ ApplyWindow \/ install_window_output \/ next_output_row

-----------------------------------------------------------------------------
(***************************************************************************)
(* What the query means.                                                   *)
(***************************************************************************)
JoinedWith(rows, join) ==
    LET Partners(row) ==
            SelectSeq(join.rows, LAMBDA r :
                IF join.derived # 0 THEN evaluate_binary(r[1], "=", row[join.derived]) = 1
                ELSE join.op = "" \/ evaluate_binary(row[join.left], join.op, r[join.right]) = 1)
        Extend(row) ==
            IF Partners(row) = <<>> /\ join.kind = "left" THEN <<row \o Nulls(join.width)>>
            ELSE [k \in DOMAIN Partners(row) |-> row \o Partners(row)[k]]
    IN FlattenSeq([i \in DOMAIN rows |-> Extend(rows[i])])

JoinMeaning   == FoldLeft(JoinedWith, Base, Joins)
SourceOf(joined) == SelectSeq([i \in DOMAIN joined |-> Applied(joined[i])], LAMBDA row : Holds(plan.filter, row))

GroupMeaning(rows, key) ==
    LET Mine(row) == SameKey(Columns(row, plan.group_by), key)
    IN key \o [s \in DOMAIN plan.specs |-> AggregateMeaning(plan.specs[s], SelectSeq(rows, Mine))]
\* keys: one of each group, in the order of their first rows.
GroupKeys(rows) ==
    LET Add(keys, row) == IF \E k \in Range(keys) : SameKey(k, Columns(row, plan.group_by)) THEN keys
                          ELSE Append(keys, Columns(row, plan.group_by))
    IN IF plan.group_by = <<>> THEN <<<<>>>> ELSE FoldLeft(Add, <<>>, rows)
GroupsMeaning(rows, keys) ==
    SelectSeq([k \in DOMAIN keys |-> GroupMeaning(rows, keys[k])], LAMBDA row : Holds(plan.having, row))

InputOf(rows)   == IF plan.aggregate THEN GroupsMeaning(rows, GroupKeys(rows)) ELSE rows
InputMeaning    == InputOf(SourceOf(JoinMeaning))
ViewedMeaning(rows) ==
    IF plan.windows = <<>> THEN rows ELSE WindowOutput(FoldLeft(WindowMeaning, rows, plan.windows))
Projected(rows) == IF plan.aggregate THEN rows ELSE [i \in DOMAIN rows |-> Columns(rows[i], plan.projection)]
KeptOf(rows) ==
    LET Keep(kept, row) == IF plan.distinct /\ \E r \in Range(kept) : SameKey(r, row) THEN kept ELSE Append(kept, row)
    IN FoldLeft(Keep, <<>>, rows)

\* All rows of the result in order, before OFFSET and LIMIT.
RowsMeaning == KeptOf(Projected(sort_rows(ViewedMeaning(InputMeaning), plan.order_by)))

Limited(rows) ==
    SubSeq(rows, plan.offset + 1,
           IF plan.limit = Null THEN Len(rows) ELSE Min({Len(rows), plan.offset + plan.limit}))

Count(rows, row) == Cardinality({i \in DOMAIN rows : rows[i] = row})

\* The same rows, up to the order of rows that order_by does not tell apart.
SameUpToTies(rows, all, meant) ==
    /\ Len(rows) = Len(meant)
    /\ \A i \in DOMAIN rows : /\ ~compare_rows(rows[i], meant[i], plan.order_by)
                              /\ ~compare_rows(meant[i], rows[i], plan.order_by)
    /\ \A row \in Range(rows) : Count(rows, row) <= Count(all, row)

\* Equal keys of a hash join or a group are written the same.
WrittenOneWay(values) == \A v, w \in values : Class(v) = Class(w) => v = w
JoinKeys(rows) ==
    LET Keys(j) == IF ~Hashed(j) THEN {}
                   ELSE {row[Joins[j].left] : row \in rows} \union {row[Joins[j].right] : row \in Range(Joins[j].rows)}
    IN UNION {Keys(j) : j \in DOMAIN Joins}
KeysAreWrittenOneWay ==
    /\ WrittenOneWay(JoinKeys(Range(JoinMeaning)))
    /\ WrittenOneWay({row[col] : row \in Range(SourceOf(JoinMeaning)), col \in Range(plan.group_by)})

SpilledJoins == {j \in DOMAIN Joins : source.lookups[j] = "spilled"}

ResultIs(rows) == IF plan.aggregate THEN SameUpToTies(cursor.result, rows, Limited(rows))
                  ELSE cursor.result = Limited(rows)
Exact == cursor.phase = "done" => ResultIs(RowsMeaning)

\* An error of a subquery, of a sum or of a window is the only way to fail.
WindowIsInvalid(rows, window) ==
    rows # <<>> /\ \/ FrameIsInvalid(FrameOf(window))
                   \/ BadPlace \in {Last(row) : row \in Range(WindowMeaning(rows, window))}
ErrorIsDue ==
    cursor.phase = "failed" =>
        \/ /\ cursor.error = "21000"
           /\ FailsToStart \/ \E row \in Range(JoinMeaning) : FailsToApply(row)
        \/ /\ cursor.error = "42804" /\ groups.any
           /\ \E s \in DOMAIN plan.specs : plan.specs[s].narrow
        \/ /\ cursor.error \in {"22013", "42P20"}
           /\ \E w \in DOMAIN plan.windows : WindowIsInvalid(InputMeaning, plan.windows[w])

\* A query has the rows it means, in their order, however its joins, groups, windows
\* and sorts are divided between memory and spill files, and fails only when an
\* error is due (next_batch).
QueriesAreExact == KeysAreWrittenOneWay /\ Cardinality(SpilledJoins) <= 1 => Exact /\ ErrorIsDue

\* The query has ended.
Settled == cursor.phase \in {"done", "failed"}

\* The same when several hash joins of the query are in spill files.
SpilledJoinsAreExact == KeysAreWrittenOneWay => Exact
=============================================================================
