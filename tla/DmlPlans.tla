------------------------------ MODULE DmlPlans ------------------------------
(***************************************************************************)
(* The schemas, rows and statements of Dml for TLC: each makes a case of   *)
(* its own happen.                                                         *)
(***************************************************************************)
EXTENDS Integers, Sequences, TLC

Const(value) == [op |-> "const", value |-> value]
Col(col)  == [op |-> "col", col |-> col]
Next1(col) == [op |-> "next", col |-> col]
Set(col, e) == col :> e
Always == [op |-> "true", left |-> 1, right |-> 0, value |-> 0]
Test(op, left, value) == [op |-> op, left |-> left, right |-> 0, value |-> value]
Columns(left, right) == [op |-> "=", left |-> left, right |-> right, value |-> 0]
IsNull(col) == [op |-> "null", left |-> col, right |-> 0, value |-> 0]

Row(k, v) == (1 :> Const(k)) @@ (2 :> Const(v))
Error == [does |-> "error", target |-> {}, set |-> <<>>, where |-> Always]
OrNothing(target) == [Error EXCEPT !.does = "nothing", !.target = target]
OrUpdate(target, set, where) == [does |-> "update", target |-> target, set |-> set, where |-> where]

Insert(t, rows) == [kind |-> "insert", relation |-> t, table |-> t, rows |-> rows, conflict |-> Error]
Upsert(t, rows, conflict) == [Insert(t, rows) EXCEPT !.conflict = conflict]
Update(t, set, where) == [kind |-> "update", relation |-> t, table |-> t, set |-> set, where |-> where]
Delete(t, where) == [kind |-> "delete", relation |-> t, table |-> t, where |-> where]
Merge(t, using, on, clauses) ==
    [kind |-> "merge", relation |-> t, table |-> t, using |-> using, on |-> on, clauses |-> clauses]
Clause(kind, where, does, set) == [kind |-> kind, where |-> where, does |-> does, set |-> set]
OnView(s) == [s EXCEPT !.relation = "view"]

\* p(k, v) and c(k, f).
Key(column, primary) == [columns |-> <<column>>, primary |-> primary]
Table(keys) == [defaults |-> <<0, 1>>, not_null |-> {}, domains |-> {}, checks |-> {}, keys |-> keys]
P == Table({Key(1, TRUE)})
Log == [Table({}) EXCEPT !.defaults = <<0, 0>>]
Fk(child, column, parent, referenced, on_delete, on_update) ==
    [child |-> child, columns |-> <<column>>, parent |-> parent, referenced |-> <<referenced>>,
     on_delete |-> on_delete, on_update |-> on_update]
Tables(p, c) == ("p" :> p) @@ ("c" :> c) @@ ("log" :> Log)
NoTriggers == [t \in {"p", "c", "log", "view"} |-> <<>>]
Schema(p, c, fks) == [tables |-> Tables(p, c), foreign_keys |-> fks, triggers |-> NoTriggers]
Rows(p, c) == ("p" :> p) @@ ("c" :> c) @@ ("log" :> <<>>)

Actions == {"restrict", "cascade", "set null", "set default"}
Kin == {<<Fk("c", 2, "p", 1, d, u)>> : d \in Actions, u \in Actions}
\* A tree in p, a chain from p through the key of c to c, and two keys on one table.
Trees == {<<Fk("p", 2, "p", 1, d, u)>> : d \in Actions, u \in {"cascade", "set null"}}
Chains == {<<Fk("c", 1, "p", 1, d, u), Fk("c", 2, "c", 1, e, u)>> :
               d \in {"cascade"}, e \in {"cascade", "set null", "restrict"}, u \in {"cascade", "set null"}}
Both == {<<Fk("p", 2, "p", 1, "set null", "cascade"), Fk("c", 2, "p", 1, d, "cascade")>> : d \in {"cascade", "restrict"}}

Wheres == {Always, Test("=", 1, 1), Test("<>", 1, 1), Test("=", 2, 2), IsNull(2)}
KeyUpdates == {Update("p", Set(1, Next1(1)), w) : w \in Wheres} \union {Update("p", Set(1, Const(4)), Test("=", 1, 2))}
Deletes(t) == {Delete(t, w) : w \in Wheres}
Families == [schema : {Schema(P, P, fks) : fks \in Kin},
             rows : {Rows(<<<<3, 1>>, <<2, 2>>, <<1, 2>>>>, <<<<1, 1>>, <<2, 1>>, <<3, 0>>, <<4, 2>>>>)},
             script : {<<s>> : s \in KeyUpdates \union Deletes("p")}]
Forests == [schema : {Schema(P, P, fks) : fks \in Trees \union Both},
            rows : {Rows(<<<<1, 0>>, <<2, 1>>, <<3, 2>>>>, <<<<1, 2>>, <<2, 3>>>>),
                    Rows(<<<<3, 2>>, <<2, 1>>, <<1, 1>>>>, <<>>)},
            script : {<<s>> : s \in KeyUpdates \union Deletes("p")}]
Lines == [schema : {Schema(P, P, fks) : fks \in Chains},
          rows : {Rows(<<<<3, 0>>, <<2, 0>>, <<1, 0>>>>, <<<<2, 2>>, <<1, 2>>, <<3, 1>>>>)},
          script : {<<s>> : s \in KeyUpdates \union Deletes("p") \union Deletes("c")}]

\* Rows without a key that become equal to one another, and two statements after one another.
Bag == Schema(Table({}), Table({}), <<>>)
Changes == {Update("p", Set(2, Next1(2)), w) : w \in {Always, Test("=", 2, 1)}}
    \union {Delete("p", Test("=", 2, 2)), Delete("p", Test("=", 1, 1)),
            Insert("p", <<Row(1, 2), 1 :> Const(2)>>)}
Bags == [schema : {Bag}, rows : {Rows(<<<<1, 1>>, <<1, 2>>, <<1, 2>>>>, <<>>), Rows(<<<<1, 2>>, <<2, 1>>, <<1, 1>>>>, <<>>)},
         script : {<<s, t>> : s \in Changes, t \in Changes}]

\* Constraints, and ON CONFLICT.
Strict == [Table({Key(1, FALSE), Key(2, FALSE)}) EXCEPT
              !.not_null = {1}, !.domains = {[col |-> 2, not_null |-> FALSE, values |-> {1, 2, 3}]},
              !.checks = {Test("<>", 1, 4)}]
Pairs == {<<k, v>> : k \in {0, 1, 2, 4}, v \in {0, 1, 2, 4}}
Proposals == {<<Row(p[1], p[2])>> : p \in Pairs} \union {<<Row(2, 3), Row(p[1], p[2])>> : p \in Pairs}
Conflicts == {Error, OrNothing({}), OrNothing({2}), OrUpdate({1}, Set(2, Col(4)), Always),
              OrUpdate({1}, Set(2, Next1(2)), Test("<>", 4, 1))}
Upserts == [schema : {Schema(Strict, P, <<>>)}, rows : {Rows(<<<<1, 1>>, <<3, 0>>>>, <<>>)},
            script : {<<Upsert("p", rows, conflict)>> : rows \in Proposals, conflict \in Conflicts}]

\* MERGE INTO p USING c, on the key of p and the second column of c.
Matched(does, set, where) == Clause("matched", where, does, set)
NotInTarget(does, where) == Clause("not matched by target", where, does, (1 :> Col(4)) @@ (2 :> Col(3)))
NotInSource(does, where) == Clause("not matched by source", where, does, Set(2, Const(3)))
MergeClauses == {
    <<a, b, c>> : a \in {Matched("delete", <<>>, Always), Matched("update", Set(2, Next1(3)), Test("<>", 3, 1)),
                         Matched("nothing", <<>>, Always)},
                  b \in {NotInTarget("insert", Always), NotInTarget("insert", Test("<>", 3, 2))},
                  c \in {NotInSource("delete", Always), NotInSource("update", Always), NotInSource("delete", Test("=", 2, 2))}}
MergeRows == {Rows(<<<<1, 1>>, <<2, 2>>, <<3, 2>>>>, c) :
                  c \in {<<<<1, 1>>, <<2, 4>>>>, <<<<1, 2>>, <<2, 2>>, <<3, 5>>>>, <<<<1, 3>>, <<2, 2>>, <<3, 0>>>>}}
Merges == [schema : {Schema(P, P, <<>>), Schema(P, P, <<Fk("p", 2, "p", 1, "cascade", "cascade")>>)},
           rows : MergeRows, script : {<<Merge("p", "c", Columns(1, 4), clauses)>> : clauses \in MergeClauses}]

\* Triggers.
Trigger(level, timing, events, does) ==
    [level |-> level, timing |-> timing, events |-> events, does |-> does, on |-> "", row |-> <<>>, col |-> 2, value |-> 3]
Logs(trigger) == [trigger EXCEPT !.does = "insert", !.on = "log"]
AllEvents == {"insert", "update", "delete"}
Deleting(t, row) == [Trigger("row", "before", {"update", "delete"}, "delete") EXCEPT !.on = t, !.row = row]
TriggerLists == {
    <<Logs(Trigger("row", "after", AllEvents, "keep"))>>,
    <<Logs(Trigger("statement", "before", {"update", "insert"}, "keep")), Logs(Trigger("statement", "after", AllEvents, "keep"))>>,
    <<Trigger("row", "before", {"insert", "update"}, "amend"), Logs(Trigger("row", "after", {"update", "delete"}, "keep"))>>,
    <<Trigger("row", "before", {"delete"}, "suppress"), Trigger("row", "before", {"update"}, "suppress")>>,
    <<Trigger("row", "after", {"delete"}, "raise"), Trigger("statement", "before", {"insert"}, "raise")>>,
    <<Deleting("p", <<2, 2>>)>>,
    <<[Deleting("p", <<3, 2>>) EXCEPT !.timing = "after"]>>}
Triggered == {[Schema(P, Table({}), <<>>) EXCEPT !.triggers["p"] = list] : list \in TriggerLists}
TriggerScripts == {<<s>> : s \in
    {Delete("p", Always), Delete("p", Test("=", 1, 2)), Update("p", Set(2, Next1(2)), Test("<>", 1, 3)),
     Insert("p", <<Row(4, 1), Row(5, 1)>>),
     Upsert("p", <<Row(1, 3), Row(4, 3)>>, OrUpdate({1}, Set(2, Col(4)), Always)),
     Merge("p", "c", Columns(1, 4), <<Matched("update", Set(2, Next1(3)), Test("=", 3, 1)), Matched("delete", <<>>, Always),
                                      NotInTarget("insert", Always)>>)}}
Firing == [schema : Triggered, rows : {Rows(<<<<1, 1>>, <<2, 2>>, <<3, 2>>>>, <<<<1, 1>>, <<2, 2>>, <<3, 5>>>>)},
           script : TriggerScripts]

\* A view of p.
Instead(events, does) == [Trigger("row", "instead of", events, does) EXCEPT !.on = IF does = "keep" THEN "" ELSE "p"]
ViewTriggers == <<Instead({"insert"}, "insert"), Instead({"delete"}, "delete"), Instead({"update"}, "keep")>>
Views == [schema : {[Schema(P, P, <<>>) EXCEPT !.triggers["view"] = ViewTriggers]},
          rows : {Rows(<<<<1, 1>>, <<2, 2>>>>, <<>>)},
          script : {<<OnView(s)>> : s \in {Insert("p", <<Row(3, 3), Row(4, 4)>>), Insert("p", <<Row(1, 3)>>),
                                           Delete("p", Test("=", 1, 1)), Update("p", Set(2, Const(3)), Always)}}]

AllSetups == Families \union Forests \union Lines \union Bags \union Upserts \union Merges \union Firing \union Views
=============================================================================
