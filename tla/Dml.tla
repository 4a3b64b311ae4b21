--------------------------------- MODULE Dml ---------------------------------
(***************************************************************************)
(* INSERT, UPDATE, DELETE and MERGE of ordadb-engine on the candidate of a *)
(* transaction: one row after the other, with the row and statement        *)
(* triggers, the referential actions on the rows that refer to a changed   *)
(* row, the constraints and the indexes checked and rebuilt after every    *)
(* row, and at the end the tuple versions that the change of the rows      *)
(* stands for.  The body of a trigger is one statement on a table that has *)
(* neither triggers nor referring tables.                                  *)
(***************************************************************************)
EXTENDS Integers, SequencesExt

CONSTANTS
    Setups,                  \* a schema, the rows of its tables and the statements of a transaction
    MAX_REFERENTIAL_ACTIONS

VARIABLES
    schema,      \* DatabaseState.catalog: the definition of every table, and the foreign keys
    script,      \* the statements the transaction still has to execute
    db,          \* DatabaseState: rows, the rows its indexes were built from, an error
    versions,    \* DatabaseState.versions and visible_versions of every table
    run,         \* the statement being executed
    start        \* rows and versions at its start

dml == <<schema, script, db, versions, run, start>>

NULL == 0
Tables == DOMAIN schema.tables
Definition(t) == schema.tables[t]

-----------------------------------------------------------------------------
(***************************************************************************)
(* Expressions and predicates over a row, and over two rows side by side.  *)
(***************************************************************************)
evaluate_scalar(e, row) ==
    CASE e.op = "const" -> e.value
      [] e.op = "col" -> row[e.col]
      [] e.op = "next" -> IF row[e.col] = NULL THEN NULL ELSE row[e.col] + 1

\* The value of a predicate is TRUE, FALSE or unknown: it holds, and it fails.
Operands(p, row) == <<row[p.left], IF p.right = 0 THEN p.value ELSE row[p.right]>>
Known(p, row) == NULL \notin Range(Operands(p, row))
predicate_matches(p, row) ==
    CASE p.op = "true" -> TRUE
      [] p.op = "null" -> row[p.left] = NULL
      [] p.op = "="    -> Known(p, row) /\ Operands(p, row)[1] = Operands(p, row)[2]
      [] p.op = "<>"   -> Known(p, row) /\ Operands(p, row)[1] # Operands(p, row)[2]
IsFalse(p, row) == Known(p, row) /\ ~predicate_matches(p, row)

Assigned(row, assignments, input) ==
    [c \in DOMAIN row |-> IF c \in DOMAIN assignments THEN evaluate_scalar(assignments[c], input) ELSE row[c]]
Nulls(t) == [c \in DOMAIN Definition(t).defaults |-> NULL]

-----------------------------------------------------------------------------
(***************************************************************************)
(* Constraints and what is derived from the rows.                          *)
(***************************************************************************)
HasNull(row, columns) == \E c \in Range(columns) : row[c] = NULL
SameKey(row, columns, other, others) == \A n \in DOMAIN columns : row[columns[n]] = other[others[n]]

validate_rows(t, rows) ==
    LET table == Definition(t)
        Duplicates(columns) == \E i, j \in DOMAIN rows :
            i < j /\ ~HasNull(rows[i], columns) /\ SameKey(rows[i], columns, rows[j], columns)
    IN CASE \E row \in Range(rows) : \E c \in table.not_null : row[c] = NULL -> "23502"
         [] \E d \in table.domains : \E row \in Range(rows) : row[d.col] = NULL /\ d.not_null -> "23502"
         [] \E d \in table.domains : \E row \in Range(rows) : row[d.col] # NULL /\ row[d.col] \notin d.values -> "23514"
         [] \E k \in table.keys : k.primary /\ \E row \in Range(rows) : HasNull(row, k.columns) -> "23502"
         [] \E k \in table.keys : Duplicates(k.columns) -> "23505"
         [] \E p \in table.checks : \E row \in Range(rows) : IsFalse(p, row) -> "23514"
         [] OTHER -> ""

Dangling(fk, rows) == \E row \in Range(rows[fk.child]) :
    /\ ~HasNull(row, fk.columns)
    /\ \A other \in Range(rows[fk.parent]) : ~SameKey(row, fk.columns, other, fk.referenced)

Failed(d, code) == [d EXCEPT !.error = IF @ = "" THEN code ELSE @]
validate_database_rows(d) ==
    LET codes == {validate_rows(t, d.rows[t]) : t \in Tables} \ {""}
    IN IF codes # {} THEN Failed(d, CHOOSE code \in codes : TRUE)
       ELSE IF \E fk \in Range(schema.foreign_keys) : Dangling(fk, d.rows) THEN Failed(d, "23503")
       ELSE d

\* The B-trees, the search indexes and the statistics of a table.
rebuild_table_derived(d, t) == [d EXCEPT !.derived[t] = d.rows[t]]
Checked(d, t) == rebuild_table_derived(validate_database_rows(d), t)

conflicting_row_position(d, t, candidate, target) ==
    LET Hit(k) == {i \in DOMAIN d.derived[t] :
            ~HasNull(candidate, k.columns) /\ SameKey(d.derived[t][i], k.columns, candidate, k.columns)}
        hits == UNION {Hit(k) : k \in {k \in Definition(t).keys : target = {} \/ Range(k.columns) = target}}
    IN IF hits = {} THEN 0 ELSE CHOOSE i \in hits : \A j \in hits : i <= j

-----------------------------------------------------------------------------
(***************************************************************************)
(* Triggers, by name.  What the function of a trigger does, and returns:   *)
(*   keep, suppress   RETURN the row, RETURN NULL                          *)
(*   amend            changes a column of NEW                              *)
(*   insert, delete   a statement on trigger.on, of the row; RETURN it     *)
(*   raise            an error                                             *)
(***************************************************************************)
nested_insert(d, t, row) ==
    LET inserted == [d EXCEPT !.rows[t] = Append(@, row)]
    IN Checked(Failed(inserted, validate_rows(t, <<row>>)), t)
nested_delete(d, t, row) ==
    Checked([d EXCEPT !.rows[t] = SelectSeq(@, LAMBDA other : other # row)], t)

execute_trigger(d, trigger, row) ==
    CASE trigger.does = "insert" -> nested_insert(d, trigger.on, row)
      [] trigger.does = "delete" -> nested_delete(d, trigger.on, IF trigger.row = <<>> THEN row ELSE trigger.row)
      [] trigger.does = "raise"  -> Failed(d, "P0001")
      [] OTHER -> d
Returned(trigger, row) ==
    IF trigger.does = "amend" THEN [row EXCEPT ![trigger.col] = trigger.value] ELSE row

\* The triggers of a table, or of a view.
Triggers(relation, level, timing, event) ==
    SelectSeq(schema.triggers[relation], LAMBDA trigger :
        trigger.level = level /\ trigger.timing = timing /\ event \in trigger.events)

Nothing == <<>>
\* The database after the triggers and the row they return; Nothing when one of them suppresses it.
fire_row_triggers(d, relation, timing, event, row) ==
    LET Fire(outcome, trigger) ==
            IF outcome.row = Nothing \/ outcome.db.error # "" THEN outcome
            ELSE [db |-> execute_trigger(outcome.db, trigger, outcome.row),
                  row |-> CASE timing = "after" -> row
                            [] trigger.does = "suppress" -> Nothing
                            [] OTHER -> Returned(trigger, outcome.row)]
    IN FoldLeft(Fire, [db |-> d, row |-> row], Triggers(relation, "row", timing, event))

StatementRow(t) == [c \in DOMAIN Definition(t).defaults |-> 1]
TriggersOfEvents(t, timing, events) ==
    FlattenSeq([e \in DOMAIN events |-> Triggers(t, "statement", timing, events[e])])
fire_statement_triggers(d, t, timing, events) ==
    FoldLeft(LAMBDA other, trigger :
                 IF other.error # "" THEN other ELSE execute_trigger(other, trigger, StatementRow(t)),
             d, TriggersOfEvents(t, timing, events))

-----------------------------------------------------------------------------
(***************************************************************************)
(* The start of a statement: its triggers, and the rows it will go         *)
(* through.                                                                *)
(***************************************************************************)
OnTable(s) == s.relation = s.table
ActionKinds(s) == {s.clauses[c].does : c \in DOMAIN s.clauses}
Events(s) ==
    CASE ~OnTable(s) -> <<>>
      [] s.kind = "insert" -> IF s.conflict.does = "update" THEN <<"insert", "update">> ELSE <<"insert">>
      [] s.kind = "merge"  -> SelectSeq(<<"insert", "update", "delete">>, LAMBDA e : e \in ActionKinds(s))
      [] OTHER -> <<s.kind>>

StatementTriggers(s) ==
    TriggersOfEvents(s.table, "before", Events(s)) \o TriggersOfEvents(s.table, "after", Events(s))

first_matching_merge_clause(s, kind, input) ==
    LET fit == {c \in DOMAIN s.clauses :
                   s.clauses[c].kind = kind /\ predicate_matches(s.clauses[c].where, input)}
    IN IF fit = {} THEN 0 ELSE CHOOSE c \in fit : \A other \in fit : c <= other
\* PlannedMergeActions: a matched pair, a source row without target, a target row without source.
Planned(s, clause, target, source) ==
    IF clause = 0 \/ (clause # 0 /\ s.clauses[clause].does = "nothing") THEN <<>>
    ELSE <<[clause |-> clause, target |-> target, source |-> source]>>
MergeInput(s, targets, sources, target, source) ==
    (IF target = 0 THEN Nulls(s.table) ELSE targets[target])
        \o (IF source = 0 THEN Nulls(s.using) ELSE sources[source])
plan_merge(s, targets, sources) ==
    LET Input(target, source) == MergeInput(s, targets, sources, target, source)
        Pairs(source) == SelectSeq([i \in DOMAIN targets |-> i], LAMBDA i : predicate_matches(s.on, Input(i, source)))
        Alone == SelectSeq([i \in DOMAIN targets |-> i],
                           LAMBDA i : \A j \in DOMAIN sources : ~predicate_matches(s.on, Input(i, j)))
        OfPair(i, j) == Planned(s, first_matching_merge_clause(s, "matched", Input(i, j)), i, j)
        OfSource(j) ==
            IF Pairs(j) = <<>>
            THEN Planned(s, first_matching_merge_clause(s, "not matched by target", Input(0, j)), 0, j)
            ELSE FlattenSeq([n \in DOMAIN Pairs(j) |-> OfPair(Pairs(j)[n], j)])
        OfTarget(i) == Planned(s, first_matching_merge_clause(s, "not matched by source", Input(i, 0)), i, 0)
    IN FlattenSeq([j \in DOMAIN sources |-> OfSource(j)])
           \o FlattenSeq([n \in DOMAIN Alone |-> OfTarget(Alone[n])])
Repeats(plan) == \E i, j \in DOMAIN plan : i < j /\ plan[i].target # 0 /\ plan[i].target = plan[j].target

Source(d, s) ==
    CASE s.kind = "insert" -> s.rows
      [] s.kind = "merge"  -> plan_merge(s, d.rows[s.table], d.rows[s.using])
      [] OTHER -> d.rows[s.table]

NewRun(s, source) ==
    [phase |-> "row", statement |-> s, source |-> source, targets |-> <<>>, sources |-> <<>>, queue |-> <<>>,
     applied |-> 0, old |-> Nothing, new |-> Nothing, touched |-> {},
     affected |-> 0, command |-> run.command + 1]

StartRun(s, d, source) ==
    /\ db' = IF s.kind = "merge" /\ Repeats(source) THEN Failed(d, "21000") ELSE d
    /\ run' = [NewRun(s, source) EXCEPT
                   !.targets = d.rows[s.table],
                   !.sources = IF s.kind = "merge" THEN d.rows[s.using] ELSE <<>>]
StartOn(s, d) == StartRun(s, d, Source(d, s))

Begin ==
    /\ run.phase \in {"idle", "done"} /\ script # <<>>
    /\ StartOn(Head(script), fire_statement_triggers(db, Head(script).table, "before", Events(Head(script))))
    /\ script' = Tail(script)
    /\ start' = [db |-> db, versions |-> versions]
    /\ UNCHANGED <<schema, versions>>

-----------------------------------------------------------------------------
(***************************************************************************)
(* One row of a statement.                                                 *)
(***************************************************************************)
Raise(d) == db' = d /\ UNCHANGED run
\* The row stays as it is.
Skip(d, touched) == db' = d /\ run' = [run EXCEPT !.source = Tail(@), !.touched = touched]
\* The row at position is now new; the rows that refer to old are next.
Put(d, old, new, touched) ==
    /\ db' = d
    /\ run' = [run EXCEPT
          !.phase = "actions", !.source = Tail(@), !.old = old, !.new = new, !.touched = touched, !.applied = 0,
          !.queue = IF old \in {Nothing, new} THEN <<>>
                    ELSE <<[table |-> run.statement.table, old |-> old, new |-> new]>>]

push_row(d, t, row) ==
    Put([d EXCEPT !.rows[t] = Append(@, row)], Nothing, row, run.touched \union {Len(d.rows[t]) + 1})

\* UPDATE or DELETE of one row: the BEFORE triggers come first, and may change where it is.
PutFired(fired, t, event, old, position, suppressed, touched) ==
    IF fired.db.error # "" THEN Raise(fired.db)
    ELSE IF fired.row = Nothing THEN Skip(fired.db, suppressed)
    ELSE IF position = 0 THEN Raise(Failed(fired.db, "55000"))
    ELSE IF event = "delete" THEN Put([fired.db EXCEPT !.rows[t] = RemoveAt(@, position)], old, Nothing, touched)
    ELSE Put([fired.db EXCEPT !.rows[t][position] = fired.row], old, fired.row, touched)
ChangeFired(fired, t, event, old, Place(_), suppressed, touched) ==
    PutFired(fired, t, event, old, Place(fired.db.rows[t]), suppressed, touched)
ChangeRow(d, t, event, old, proposed, Place(_), suppressed, touched) ==
    ChangeFired(fire_row_triggers(d, t, "before", event, IF event = "delete" THEN old ELSE proposed),
                t, event, old, Place, suppressed, touched)

\* The first row that equals old.
PlaceOf(old, rows) == IF old \in Range(rows) THEN SelectInSeq(rows, LAMBDA row : row = old) ELSE 0

\* INSERT of one row: the BEFORE triggers, then the constraints on the row alone.
Validated(t, fired) ==
    IF fired.row = Nothing THEN fired ELSE [fired EXCEPT !.db = Failed(@, validate_rows(t, <<fired.row>>))]
Proposed(t, assignments, input) ==
    Validated(t, fire_row_triggers(db, t, "before", "insert", Assigned(Definition(t).defaults, assignments, input)))

Executing(kind) ==
    /\ run.phase = "row" /\ db.error = "" /\ run.source # <<>>
    /\ run.statement.kind = kind /\ OnTable(run.statement)
Unchanged == UNCHANGED <<schema, script, versions, start>>

\* Mutant: a row of the table is updated again for a second proposed row.
UpdateConflicting_again(s, d, position, old, input, touched) ==
    LET Place(rows) == PlaceOf(old, rows)
    IN IF ~predicate_matches(s.conflict.where, input) THEN Skip(d, touched)
       ELSE ChangeRow(d, s.table, "update", old, Assigned(old, s.conflict.set, input), Place, touched, touched)
\* ON CONFLICT DO UPDATE: once for a row of the table.
UpdateConflicting(s, d, position, old, input, touched) ==
    LET Place(rows) == PlaceOf(old, rows)
    IN IF position \in run.touched THEN Raise(Failed(d, "21000"))
       ELSE IF ~predicate_matches(s.conflict.where, input) THEN Skip(d, touched)
       ELSE ChangeRow(d, s.table, "update", old, Assigned(old, s.conflict.set, input), Place, touched, touched)
execute_conflict_update(s, d, position, excluded) ==
    UpdateConflicting(s, d, position, d.rows[s.table][position], d.rows[s.table][position] \o excluded,
                      run.touched \union {position})

InsertFired(s, fired, position) ==
    IF fired.db.error # "" THEN Raise(fired.db)
    ELSE IF fired.row = Nothing THEN Skip(fired.db, run.touched)
    ELSE IF position = 0 THEN push_row(fired.db, s.table, fired.row)
    ELSE IF s.conflict.does = "nothing" THEN Skip(fired.db, run.touched)
    ELSE execute_conflict_update(s, fired.db, position, fired.row)
InsertProposed(s, fired) ==
    InsertFired(s, fired, IF fired.row = Nothing \/ s.conflict.does = "error" THEN 0
                          ELSE conflicting_row_position(fired.db, s.table, fired.row, s.conflict.target))

execute_insert ==
    /\ Executing("insert")
    /\ InsertProposed(run.statement, Proposed(run.statement.table, Head(run.source), <<>>))
    /\ Unchanged

execute_update ==
    /\ Executing("update")
    /\ LET s == run.statement
           old == Head(run.source)
           Place(rows) == PlaceOf(old, rows)
       IN IF predicate_matches(s.where, old)
          THEN ChangeRow(db, s.table, "update", old, Assigned(old, s.set, old), Place, run.touched, run.touched)
          ELSE Skip(db, run.touched)
    /\ Unchanged

execute_delete ==
    /\ Executing("delete")
    /\ LET s == run.statement
           old == Head(run.source)
           Place(rows) == PlaceOf(old, rows)
       IN IF predicate_matches(s.where, old)
          THEN ChangeRow(db, s.table, "delete", old, old, Place, run.touched, run.touched)
          ELSE Skip(db, run.touched)
    /\ Unchanged

\* Where a target of MERGE is: the targets already deleted are what moved it.
current_merge_target_position(position, deleted) == position - Cardinality({d \in deleted : d < position})

MergeRow(s, action, clause, input, old) ==
    LET Place(rows) ==
            LET position == current_merge_target_position(action.target, run.touched)
            IN IF position \in DOMAIN rows /\ rows[position] = old THEN position ELSE 0
        deleted == IF clause.does = "delete" THEN run.touched \union {action.target} ELSE run.touched
    IN ChangeRow(db, s.table, clause.does, old, Assigned(old, clause.set, input), Place, run.touched, deleted)
MergeInsert(t, fired) ==
    IF fired.db.error # "" THEN Raise(fired.db)
    ELSE IF fired.row = Nothing THEN Skip(fired.db, run.touched)
    ELSE Put([fired.db EXCEPT !.rows[t] = Append(@, fired.row)], Nothing, fired.row, run.touched)
Merge(s, action, clause, input) ==
    IF clause.does = "insert" THEN MergeInsert(s.table, Proposed(s.table, clause.set, input))
    ELSE MergeRow(s, action, clause, input, run.targets[action.target])
MergeAction(s, action) ==
    Merge(s, action, s.clauses[action.clause],
          MergeInput(s, run.targets, run.sources, action.target, action.source))

execute_merge ==
    /\ Executing("merge")
    /\ MergeAction(run.statement, Head(run.source))
    /\ Unchanged

\* A statement on a view: its INSTEAD OF triggers do all that is done.
ViewFired(fired) ==
    /\ db' = fired.db
    /\ run' = [run EXCEPT !.source = Tail(@), !.affected = IF fired.row = Nothing THEN @ ELSE @ + 1]
ViewRow(s, old) ==
    IF s.kind # "insert" /\ ~predicate_matches(s.where, old) THEN Skip(db, run.touched)
    ELSE ViewFired(fire_row_triggers(db, s.relation, "instead of", s.kind,
                       CASE s.kind = "insert" -> Assigned(Nulls(s.table), old, <<>>)
                         [] s.kind = "update" -> Assigned(old, s.set, old)
                         [] s.kind = "delete" -> old))

execute_view_statement ==
    /\ run.phase = "row" /\ db.error = "" /\ run.source # <<>> /\ ~OnTable(run.statement)
    /\ ViewRow(run.statement, Head(run.source))
    /\ Unchanged

-----------------------------------------------------------------------------
(***************************************************************************)
(* apply_referential_actions: a work queue of changed rows.  The actions   *)
(* fire no triggers.                                                       *)
(***************************************************************************)
apply_foreign_key(change, outcome, fk) ==
    LET \* NULL equals NULL here.
        Matches(row) == SameKey(row, fk.columns, change.old, fk.referenced)
        rows   == outcome.db.rows[fk.child]
        action == IF change.new = Nothing THEN fk.on_delete ELSE fk.on_update
        Value(c) ==
            LET n == CHOOSE n \in DOMAIN fk.columns : fk.columns[n] = c
            IN CASE action = "cascade" -> change.new[fk.referenced[n]]
                 [] action = "set null" -> NULL
                 [] action = "set default" -> Definition(fk.child).defaults[c]
        New(row) == [c \in DOMAIN row |-> IF c \in Range(fk.columns) THEN Value(c) ELSE row[c]]
        hit == SelectSeq(rows, Matches)
        With(others, queue) ==
            [db |-> rebuild_table_derived([outcome.db EXCEPT !.rows[fk.child] = others], fk.child),
             queue |-> outcome.queue \o queue]
        Change(row, new) == [table |-> fk.child, old |-> row, new |-> new]
    IN IF \/ outcome.db.error # "" \/ fk.parent # change.table
          \/ change.new # Nothing /\ SameKey(change.old, fk.referenced, change.new, fk.referenced)
       THEN outcome
       ELSE IF action = "restrict"
       THEN IF hit # <<>> THEN [outcome EXCEPT !.db = Failed(@, "23503")] ELSE With(rows, <<>>)
       ELSE IF action = "cascade" /\ change.new = Nothing
       THEN With(SelectSeq(rows, LAMBDA row : ~Matches(row)), [n \in DOMAIN hit |-> Change(hit[n], Nothing)])
       ELSE With([i \in DOMAIN rows |-> IF Matches(rows[i]) THEN New(rows[i]) ELSE rows[i]],
                 [n \in DOMAIN hit |-> Change(hit[n], New(hit[n]))])

ApplyAction(outcome) ==
    /\ db' = outcome.db
    /\ run' = [run EXCEPT !.queue = outcome.queue, !.applied = @ + 1]
apply_referential_action ==
    /\ run.phase = "actions" /\ db.error = "" /\ run.queue # <<>>
    /\ IF run.applied = MAX_REFERENTIAL_ACTIONS THEN Raise(Failed(db, "54001"))
       ELSE ApplyAction(FoldLeft(LAMBDA o, fk : apply_foreign_key(Head(run.queue), o, fk),
                                 [db |-> db, queue |-> Tail(run.queue)], schema.foreign_keys))
    /\ Unchanged

\* The row is done: constraints, indexes, AFTER triggers, and once more.
AfterRow(t, event, d) ==
    IF d.error # "" THEN d
    ELSE Checked(fire_row_triggers(d, t, "after", event, IF run.new = Nothing THEN run.old ELSE run.new).db, t)
Changed == CASE run.old = Nothing -> "insert" [] run.new = Nothing -> "delete" [] OTHER -> "update"

finish_row ==
    /\ run.phase = "actions" /\ db.error = "" /\ run.queue = <<>>
    /\ db' = AfterRow(run.statement.table, Changed, Checked(db, run.statement.table))
    /\ run' = [run EXCEPT !.phase = "row", !.affected = @ + 1]
    /\ Unchanged

-----------------------------------------------------------------------------
(***************************************************************************)
(* The end of a statement: which tuple versions its rows are.              *)
(***************************************************************************)
\* For each row of hay, which row of needle it is when both are gone through in order; 0 for none.
in_order(needle, hay) ==
    FoldLeft(LAMBDA list, row :
                 LET n == 1 + Cardinality({m \in Range(list) : m # 0})
                 IN Append(list, IF n <= Len(needle) /\ needle[n] = row THEN n ELSE 0),
             <<>>, hay)

\* For each row that is there after the statement, which of those before it comes from.
Order(before, after, forth, back) ==
    CASE Len(before) # Len(after) /\ DOMAIN before \subseteq Range(forth) -> forth
      [] Len(before) # Len(after) /\ DOMAIN after \subseteq Range(back) ->
             [i \in DOMAIN after |-> CHOOSE j \in DOMAIN back : back[j] = i]
      [] OTHER -> [i \in DOMAIN after |-> IF i <= Len(before) THEN i ELSE 0]
Origins(before, after) == Order(before, after, in_order(before, after), in_order(after, before))

delete_version(tuples, id, command) == [tuples EXCEPT ![id].xmax = command]
append_version(tuples, row, previous, command) ==
    Append(tuples, [row |-> row, xmin |-> command, xmax |-> 0, previous |-> previous])

Reconciled(v, before, after, origins, command) ==
    LET Add(acc, i) ==
            LET id == IF origins[i] = 0 THEN 0 ELSE v.visible[origins[i]]
                ended == IF id = 0 THEN acc.tuples ELSE delete_version(acc.tuples, id, command)
            IN IF id # 0 /\ before[origins[i]] = after[i]
               THEN [acc EXCEPT !.visible = Append(@, id)]
               ELSE [tuples |-> append_version(ended, after[i], id, command),
                     visible |-> Append(acc.visible, Len(acc.tuples) + 1)]
        gone == DOMAIN before \ Range(origins)
        emptied == FoldSet(LAMBDA i, tuples : delete_version(tuples, v.visible[i], command), v.tuples, gone)
    IN FoldLeft(Add, [tuples |-> emptied, visible |-> <<>>], [i \in DOMAIN after |-> i])
reconcile_table_version_changes(v, before, after, command) ==
    Reconciled(v, before, after, Origins(before, after), command)

reconcile_version_changes(d) ==
    [t \in Tables |->
        reconcile_table_version_changes(versions[t], start.db.rows[t], d.rows[t], run.command)]

EndStatement(d, dirty) ==
    IF d.error # "" THEN Raise(d) /\ UNCHANGED versions
    ELSE /\ run' = [run EXCEPT !.phase = "done"]
         /\ db' = IF dirty THEN d ELSE start.db
         /\ versions' = IF dirty THEN reconcile_version_changes(d) ELSE versions
\* A MERGE that affected no row and fired no statement trigger changed nothing.
IsDirty(s) == s.kind # "merge" \/ run.affected > 0 \/ StatementTriggers(s) # <<>>
AfterStatement(s) ==
    fire_statement_triggers(db, s.table, "after", IF s.kind = "insert" THEN Reverse(Events(s)) ELSE Events(s))

finish_statement ==
    /\ run.phase = "row" /\ db.error = "" /\ run.source = <<>>
    /\ EndStatement(validate_database_rows(AfterStatement(run.statement)), IsDirty(run.statement))
    /\ UNCHANGED <<schema, script, start>>

\* An error: the candidate is dropped, and with it what the statement did so far.
fail_statement ==
    /\ db.error # "" /\ run.phase # "failed"
    /\ db' = start.db /\ versions' = start.versions
    /\ run' = [run EXCEPT !.phase = "failed"]
    /\ script' = <<>>
    /\ UNCHANGED <<schema, start>>

DmlInit ==
    \E setup \in Setups :
        /\ schema = setup.schema /\ script = setup.script
        /\ db = [rows |-> setup.rows, derived |-> setup.rows, error |-> ""]
        /\ versions = [t \in DOMAIN setup.rows |->
              [tuples |-> [i \in DOMAIN setup.rows[t] |->
                              [row |-> setup.rows[t][i], xmin |-> 0, xmax |-> 0, previous |-> 0]],
               visible |-> [i \in DOMAIN setup.rows[t] |-> i]]]
        /\ run = [phase |-> "idle", command |-> 0]
        /\ start = [db |-> db, versions |-> versions]

Settled == run.phase = "failed" \/ (run.phase \in {"idle", "done"} /\ script = <<>>)

DmlNext ==
    \/ Begin
    \/ execute_insert \/ execute_update \/ execute_delete \/ execute_merge \/ execute_view_statement
    \/ apply_referential_action \/ finish_row
    \/ finish_statement \/ fail_statement

-----------------------------------------------------------------------------
(***************************************************************************)
(* What a statement means, in terms of the rows there were at its start    *)
(* and of all its changes at once.  An item is a row of a table then.      *)
(***************************************************************************)
Before(t) == start.db.rows[t]
Items == UNION {{<<t, i>> : i \in DOMAIN Before(t)} : t \in Tables}
RowOf(x) == Before(x[1])[x[2]]

\* The row that its triggers accept; Nothing when one of them suppresses it.
Accepted(s, event, row) ==
    FoldLeft(LAMBDA accepted, trigger :
                 IF accepted = Nothing \/ trigger.does = "suppress" THEN Nothing ELSE Returned(trigger, accepted),
             row, Triggers(s.relation, "row", IF OnTable(s) THEN "before" ELSE "instead of", event))
Selected(s) == {i \in DOMAIN Before(s.table) : predicate_matches(s.where, Before(s.table)[i])}

\* The rows a statement deletes, replaces and adds itself, given what it proposes.
NoChange == [gone |-> {}, changed |-> <<>>, added |-> <<>>]
Kept(accepted) == [i \in {i \in DOMAIN accepted : accepted[i] # Nothing} |-> accepted[i]]
Replacing(s, new) == Kept([i \in DOMAIN new |-> Accepted(s, "update", new[i])])
Deleting(s, chosen) == {i \in chosen : Accepted(s, "delete", Before(s.table)[i]) # Nothing}
Adding(s, rows) ==
    SelectSeq([n \in DOMAIN rows |-> Accepted(s, "insert", rows[n])], LAMBDA row : row # Nothing)

\* What two rows collide in, and with it what becomes of a proposed row.
Collide(s, row, other) == \E k \in Definition(s.table).keys :
    /\ s.conflict.target \in {{}, Range(k.columns)}
    /\ ~HasNull(row, k.columns) /\ SameKey(row, k.columns, other, k.columns)
Free(s, all) == FlattenSeq([n \in DOMAIN all |->
    IF \E other \in Range(Before(s.table)) \union {all[m] : m \in 1 .. n - 1} : Collide(s, all[n], other)
    THEN <<>> ELSE <<all[n]>>])
Overwritten(s, rows) ==
    LET Input(i) == Before(s.table)[i] \o CHOOSE row \in rows : Collide(s, row, Before(s.table)[i])
        hit == {i \in DOMAIN Before(s.table) :
                   \E row \in rows : Collide(s, row, Before(s.table)[i])}
    IN [i \in {i \in hit : predicate_matches(s.conflict.where, Input(i))} |->
            Assigned(Before(s.table)[i], s.conflict.set, Input(i))]
InsertMeans(s, all) ==
    CASE s.conflict.does = "error"   -> [NoChange EXCEPT !.added = all]
      [] s.conflict.does = "nothing" -> [NoChange EXCEPT !.added = Free(s, all)]
      [] s.conflict.does = "update"  ->
             [NoChange EXCEPT !.added = Free(s, all), !.changed = Replacing(s, Overwritten(s, Range(all)))]
Proposing(s) ==
    LET base == IF OnTable(s) THEN Definition(s.table).defaults ELSE Nulls(s.table)
    IN Adding(s, [n \in DOMAIN s.rows |-> Assigned(base, s.rows[n], <<>>)])

\* What MERGE does with target i (0: none) and source j (0: none), and with all of them.
ClauseActs(s, c, base, input) ==
    IF c = 0 THEN [does |-> "nothing"]
    ELSE [does |-> s.clauses[c].does, row |-> Assigned(base, s.clauses[c].set, input)]
Acts(s, kind, base, input) == ClauseActs(s, first_matching_merge_clause(s, kind, input), base, input)
InputOf(s, i, j) == MergeInput(s, Before(s.table), Before(s.using), i, j)
Partners(s, i) == {j \in DOMAIN Before(s.using) : predicate_matches(s.on, InputOf(s, i, j))}
ActsOn(s, i) ==
    LET acts == {Acts(s, IF j = 0 THEN "not matched by source" ELSE "matched", Before(s.table)[i], InputOf(s, i, j)) :
                     j \in IF Partners(s, i) = {} THEN {0} ELSE Partners(s, i)}
    IN CHOOSE act \in acts : act.does = "nothing" => \A other \in acts : other = act
ActsAlone(s, j) ==
    IF \E i \in DOMAIN Before(s.table) : j \in Partners(s, i) THEN [does |-> "nothing"]
    ELSE Acts(s, "not matched by target", Definition(s.table).defaults, InputOf(s, 0, j))
MergeMeans(s, acts, alone) ==
    LET Doing(what) == {i \in DOMAIN acts : acts[i].does = what}
        added == SelectSeq(alone, LAMBDA act : act.does = "insert")
    IN [gone |-> Deleting(s, Doing("delete")),
        changed |-> Replacing(s, [i \in Doing("update") |-> acts[i].row]),
        added |-> Adding(s, [n \in DOMAIN added |-> added[n].row])]

Means(s) ==
    CASE s.kind = "insert" -> InsertMeans(s, Proposing(s))
      [] s.kind = "update" /\ ~OnTable(s) -> NoChange
      [] s.kind = "update" /\ OnTable(s) ->
             [NoChange EXCEPT !.changed =
                 Replacing(s, [i \in Selected(s) |-> Assigned(Before(s.table)[i], s.set, Before(s.table)[i])])]
      [] s.kind = "delete" -> [NoChange EXCEPT !.gone = Deleting(s, Selected(s))]
      [] s.kind = "merge"  -> MergeMeans(s, [i \in DOMAIN Before(s.table) |-> ActsOn(s, i)],
                                            [j \in DOMAIN Before(s.using) |-> ActsAlone(s, j)])

\* The rows with the changes of the statement itself, and the item y that a row of t refers to.
Own(s, means) ==
    [x \in Items |-> IF x[1] = s.table /\ x[2] \in DOMAIN means.changed THEN means.changed[x[2]] ELSE RowOf(x)]
Refers(t, row, fk, y) ==
    /\ t = fk.child /\ y[1] = fk.parent
    /\ ~HasNull(row, fk.columns) /\ SameKey(row, fk.columns, RowOf(y), fk.referenced)

Follows(t, row, gone) == \E fk \in Range(schema.foreign_keys) :
    fk.on_delete = "cascade" /\ \E y \in gone : Refers(t, row, fk, y)
Gone(s, means, own) ==
    FoldSet(LAMBDA x, gone : gone \union {z \in Items : Follows(z[1], own[z], gone)},
            {<<s.table, i>> : i \in means.gone}, Items)

\* The rows afterwards: what the statement sets, and what the action of a foreign key makes of a
\* change of the row it refers to.
FinalRows(own, gone) ==
    LET Made(x, c, fk, y, row) ==
            LET action == IF y \in gone THEN fk.on_delete ELSE fk.on_update
            IN CASE action = "set null" -> NULL
                 [] action = "set default" -> Definition(x[1]).defaults[c]
                 [] action = "restrict" -> -1
                 [] action = "cascade" -> row[fk.referenced[CHOOSE n \in DOMAIN fk.columns : fk.columns[n] = c]]
        Value(x, c, rows) ==
            LET upset == {<<fk, y>> \in Range(schema.foreign_keys) \X Items :
                    /\ c \in Range(fk.columns) /\ Refers(x[1], own[x], fk, y)
                    /\ y \in gone \/ \E d \in Range(fk.referenced) : rows[y][d] # RowOf(y)[d]}
            IN IF upset = {} THEN own[x][c]
               ELSE LET tie == CHOOSE tie \in upset : TRUE IN Made(x, c, tie[1], tie[2], rows[tie[2]])
    IN FoldSet(LAMBDA t, rows : [x \in Items |-> [c \in DOMAIN own[x] |-> Value(x, c, rows)]], own, Tables)

SameBag(left, right) ==
    \A row \in Range(left) \union Range(right) :
        Cardinality({i \in DOMAIN left : left[i] = row}) = Cardinality({i \in DOMAIN right : right[i] = row})

\* How often a statement calls a trigger.
Calls(s, means, trigger) ==
    LET Of(event) == CASE event = "insert" -> Len(means.added)
                       [] event = "update" -> Cardinality(DOMAIN means.changed)
                       [] event = "delete" -> Cardinality(means.gone)
    IN IF trigger.level = "statement" THEN Cardinality(Range(Events(s)) \intersect trigger.events)
       ELSE MapThenSumSet(Of, trigger.events)
Writers(s, t) == {trigger \in Range(schema.triggers[s.relation]) : trigger.on = t /\ OnTable(s)}
NoneDeletes(t) == \A trigger \in Range(schema.triggers[t]) : trigger.does # "delete"
Left(t, gone) == SetToSeq({x \in Items \ gone : x[1] = t})
RowsAreMeant(s, means, gone, final, left) ==
    \A t \in Tables :
        IF Writers(s, t) # {}
        THEN Len(db.rows[t]) = Len(Before(t)) + MapThenSumSet(LAMBDA w : Calls(s, means, w), Writers(s, t))
        ELSE SameBag(db.rows[t],
                     [n \in DOMAIN left[t] |-> final[left[t][n]]]
                     \o SelectSeq(means.added, LAMBDA row : t = s.table /\ ~Follows(t, row, gone)))

MeantRows(s, means, gone, own) ==
    RowsAreMeant(s, means, gone, FinalRows(own, gone), [t \in Tables |-> Left(t, gone)])
MeantGone(s, means, own) == MeantRows(s, means, Gone(s, means, own), own)
Meant(s, means) == MeantGone(s, means, Own(s, means))

\* Constraints, said of all rows at once.
Sound(t) ==
    LET rows == db.rows[t]
    IN /\ \A i \in DOMAIN rows : \A c \in Definition(t).not_null : rows[i][c] # NULL
       /\ \A k \in Definition(t).keys : \A i, j \in DOMAIN rows :
             i # j /\ (\A c \in Range(k.columns) : rows[i][c] = rows[j][c])
                 => ~k.primary /\ \E c \in Range(k.columns) : rows[i][c] = NULL
Referred ==
    \A fk \in Range(schema.foreign_keys) : \A row \in Range(db.rows[fk.child]) :
        \/ \E c \in Range(fk.columns) : row[c] = NULL
        \/ [n \in DOMAIN fk.columns |-> row[fk.columns[n]]]
              \in {[n \in DOMAIN fk.columns |-> other[fk.referenced[n]]] : other \in Range(db.rows[fk.parent])}

\* A statement that succeeds leaves the rows SQL says: its own changes and all that follows from
\* the foreign keys, whatever the order in which its rows were gone through; every trigger was
\* called once for each of them.  The constraints then hold, and the indexes are of these rows,
\* as they are before every row of the statement.  One that fails leaves nothing.
StatementsAreExact ==
    /\ run.phase \in {"row", "done"} /\ db.error = "" =>
          db.derived = db.rows /\ Referred /\ \A t \in Tables : Sound(t)
    /\ run.phase = "failed" => db = start.db
    /\ run.phase = "done" /\ NoneDeletes(run.statement.table) =>
          Meant(run.statement, Means(run.statement))

\* The tuple versions after a statement are the rows it left: one live version for each, in their
\* order, and no version ended twice or come back.
VersionsAreTheRows ==
    run.phase = "done" => \A t \in Tables :
        LET v == versions[t]
            old == start.versions[t].tuples
        IN /\ [i \in DOMAIN v.visible |-> v.tuples[v.visible[i]].row] = db.rows[t]
           /\ {id \in DOMAIN v.tuples : v.tuples[id].xmax = 0} = Range(v.visible)
           /\ IsInjective(v.visible)
           /\ \A id \in DOMAIN v.tuples :
                 IF id \in DOMAIN old
                 THEN \/ v.tuples[id] = old[id]
                      \/ old[id].xmax = 0 /\ v.tuples[id] = [old[id] EXCEPT !.xmax = run.command]
                 ELSE LET previous == v.tuples[id].previous
                      IN previous # 0 => previous < id /\ v.tuples[previous].xmax = run.command
=============================================================================
