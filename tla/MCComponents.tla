----------------------------- MODULE MCComponents -----------------------------
(***************************************************************************)
(* Parts of the system that share no state: the writers of SQL sessions,   *)
(* the catalog they change, an index that is rebuilt, the buffer pool over *)
(* the data file, the data root all of them are opened on, a PL/pgSQL      *)
(* routine, the connector helpers that are installed, and a run of the     *)
(* assistant.                                                              *)
(* A behaviour is one of the part its initial state chooses; the others    *)
(* keep their initial state.                                               *)
(***************************************************************************)
EXTENDS SqlWriters, BufferPool, AiRuns, PluginManager, Migration, TLC

CONSTANTS a, b, Limits, MaxStatements, IndexNames, ConstraintNames,
    Keys, order, MaxEntries

VARIABLES
    part,
    live, deps, oids, next_id, statements, max_id, forgotten,
    nodes, root, unique, rows,
    body, program, vm, host, brackets, visits, expected

C == INSTANCE Catalog
B == INSTANCE BTree
\* The tool calls of the one run.
ToolCalls == Runs \X (1..3)

Seqs == INSTANCE SequencesExt

\* Routine bodies: lines that do something within up to three structures, and the bodies of
\* one structure with a line missing.
Some(op, arg) == <<[op |-> op, arg |-> arg, cond |-> FALSE]>>
One(op) == Some(op, "")
Block(p, handlers) == One("begin") \o p \o One("exception") \o handlers \o One("end")
Body(p) == One("begin") \o p \o One("end")
Jumps == {One("exit"), One("continue"), Some("exit", "l"), Some("continue", "l"), Some("raise", "a")}
Leaves == Jumps \union {
    One("sql"), One("return"), One("reraise"), One("commit"),
    <<[op |-> "exit", arg |-> "", cond |-> TRUE]>>,
    Some("open", "c") \o Some("fetch", "c") \o One("commit") \o Some("close", "c")}
Looped(p) == {
    One("while") \o p \o One("end_loop"),
    Some("label", "l") \o One("loop") \o p \o One("sql") \o Some("end_loop", "l"),
    One("query_for") \o p \o One("end_loop")}
Protected(p) == {
    Block(p, Some("when", "others") \o One("reraise")),
    Some("label", "l") \o Block(One("sql") \o p, Some("when", "b") \o One("sql")),
    Block(One("sql"), Some("when", "a") \o p \o Some("when", "others") \o One("notice"))}
Branched(p) == {
    One("if") \o p \o One("elsif") \o One("sql") \o One("else") \o One("notice") \o One("end_if"),
    One("case") \o One("when") \o One("sql") \o One("when") \o p
        \o One("else") \o One("sql") \o One("end_case")}
Within(bs) == UNION {Looped(p) \union Protected(p) \union Branched(p) : p \in bs}
Bodies ==
    LET inner == Within({p \o One("sql") : p \in Leaves})
        jumps == UNION {Protected(p) : p \in Jumps}
        deep  == UNION {UNION {Protected(q) : q \in Looped(p)} \union
                        UNION {Looped(q) : q \in Protected(p)} : p \in jumps}
    IN {Body(p) : p \in inner \union Within(inner) \union deep}
           \union UNION {{Seqs!RemoveAt(Body(p), i) : i \in 1..(Len(p) + 2)} : p \in inner}

V == INSTANCE Plpgsql WITH
         Programs <- Bodies, SqlStates <- {"a", "b"}, max_nesting <- 3, max_instructions <- 30,
         max_open_cursors <- 1, max_steps <- 9

catalog == <<live, deps, oids, next_id, statements, max_id, forgotten>>
index == <<nodes, root, unique, rows>>
routine == <<body, program, vm, host, brackets, visits, expected>>

Perms == Permutations({a, b})

\* How many objects of each kind a behaviour may create: four themes.
ObjectKinds == {"table", "column", "index", "constraint", "sequence", "view", "routine", "trigger",
                "type"}
Counts(counts) == counts @@ ("schema" :> 1) @@ [kind \in ObjectKinds |-> 0]
Themes == {
    Counts([table |-> 2, column |-> 2, index |-> 2, constraint |-> 2, sequence |-> 1]),
    Counts([type |-> 2, table |-> 1, column |-> 2, constraint |-> 1, routine |-> 1]),
    Counts([table |-> 2, column |-> 2, view |-> 2, routine |-> 1, trigger |-> 1]),
    Counts([schema |-> 2, table |-> 2, column |-> 2, view |-> 1, sequence |-> 1,
            trigger |-> 1, routine |-> 1])}

MCInit ==
    /\ part \in {"writers", "catalog", "index", "pool", "data_root", "plugins", "assistant",
                "routine"}
    /\ Init /\ C!Init /\ RootInit /\ B!EmptyTree /\ PoolInit /\ PluginInit /\ AiInit
    /\ part # "catalog" => max_id = CHOOSE m \in Limits : TRUE
    /\ part # "index" => ~unique
    /\ part # "data_root" => legacy = NoFile
    /\ V!PlpgsqlInit
    /\ part # "routine" => body = CHOOSE p \in Bodies : TRUE

\* Every part but the writers may come to an end.
MCNext ==
    /\ UNCHANGED part
    /\ \/ /\ part = "writers" /\ Next
          /\ UNCHANGED <<catalog, index, poolVars, rootVars, pluginVars, aiVars, routine>>
       \/ /\ part = "catalog" /\ (C!Next \/ UNCHANGED catalog)
          /\ UNCHANGED <<vars, index, poolVars, rootVars, pluginVars, aiVars, routine>>
       \/ /\ part = "index" /\ (B!Next \/ UNCHANGED index)
          /\ UNCHANGED <<vars, catalog, poolVars, rootVars, pluginVars, aiVars, routine>>
       \/ /\ part = "pool" /\ PoolNext
          /\ UNCHANGED <<vars, catalog, index, rootVars, pluginVars, aiVars, routine>>
       \/ /\ part = "data_root" /\ (RootNext \/ UNCHANGED rootVars)
          /\ UNCHANGED <<vars, catalog, index, poolVars, pluginVars, aiVars, routine>>
       \/ /\ part = "plugins" /\ (PluginNext \/ UNCHANGED pluginVars)
          /\ UNCHANGED <<vars, catalog, index, poolVars, rootVars, aiVars, routine>>
       \/ /\ part = "assistant" /\ (AiNext \/ UNCHANGED aiVars)
          /\ UNCHANGED <<vars, catalog, index, poolVars, rootVars, pluginVars, routine>>
       \/ /\ part = "routine" /\ (V!PlpgsqlNext \/ UNCHANGED routine)
          /\ UNCHANGED <<vars, catalog, index, poolVars, rootVars, pluginVars, aiVars>>

MCSpec ==
    /\ MCInit
    /\ [][MCNext]_<<part, vars, catalog, index, poolVars, rootVars, pluginVars, aiVars, routine>>

\* The properties of the instances in the behaviours that are theirs.
CatalogIsSound      == part = "catalog" => C!NoDanglingReference /\ C!OidsAreLive
RunsAsWritten       == part = "routine" => V!RunsAsWritten
RangesAreExact      == part = "index" => B!RangesAreExact
=============================================================================
