-------------------------------- MODULE Catalog --------------------------------
(***************************************************************************)
(* The definitions of ordadb-catalog: schemas, tables, columns, indexes,   *)
(* constraints, sequences, views, routines, triggers and types, the graph  *)
(* of their dependencies, and the registry of their PostgreSQL OIDs.  The  *)
(* three are separate structures that every CREATE, ALTER, CREATE OR       *)
(* REPLACE and DROP ... RESTRICT or CASCADE has to keep in step.           *)
(*                                                                         *)
(* One writer changes the catalog at a time, on a copy that an error       *)
(* discards, so an operation is one step and a refused one is none.  A     *)
(* definition keeps the fields that name other objects.  Names matter      *)
(* where the code finds one object by the name of another, which is how a  *)
(* constraint finds its index.                                             *)
(***************************************************************************)
EXTENDS Naturals, FiniteSets, TLC

CONSTANTS
    Limits,           \* bound: how many objects of each kind are ever created;
                      \* each behaviour has one of these functions
    MaxStatements,    \* bound: statements that change the catalog
    IndexNames,       \* names a user may give an index
    ConstraintNames   \* names a user may give a constraint

VARIABLES
    live,       \* the definitions, by object
    deps,       \* DependencyGraph: pairs <<dependent, referenced>>
    oids,       \* postgres_oid_registry: the objects that have an OID
    next_id,    \* next_table_id, next_column_id, ...
    statements, \* bound
    max_id,     \* bound: the member of Limits
    forgotten   \* ghost: references whose edge a later statement removed

vars == <<live, deps, oids, next_id, statements, max_id, forgotten>>

Kinds == {"schema", "table", "column", "index", "constraint", "sequence",
          "view", "routine", "trigger", "type"}

Nothing == <<"none", 0>>

\* The name that CREATE TABLE makes up for the index of a UNIQUE column.
OwnName == "table_column_key"

Of(kind) == {o \in DOMAIN live : o[1] = kind}
Public   == <<"schema", 1>>

Init ==
    /\ live = (Public :> [kind |-> "schema"])
    /\ deps = {}
    /\ oids = {Public}
    /\ next_id = [kind \in Kinds |-> IF kind = "schema" THEN 2 ELSE 1]
    /\ statements = 0
    /\ max_id \in Limits
    /\ forgotten = {}

(***************************************************************************)
(* What a definition names, and what the code enters in the graph for it.  *)
(***************************************************************************)
Some(o) == {o} \ {Nothing}

Refers(o) ==
    LET d == live[o] IN
    CASE o[1] \in {"schema"}  -> {}
      [] o[1] = "table"       -> {d.schema}
      [] o[1] = "column"      -> {d.table} \union Some(d.type)
      [] o[1] = "index"       -> {d.table} \union d.keys
      [] o[1] = "constraint"  -> {d.table} \union d.columns \union d.target
      [] o[1] = "sequence"    -> {d.schema} \union Some(d.owner)
      [] o[1] = "view"        -> {d.schema} \union d.reads \union Some(d.backing)
      [] o[1] = "routine"     -> {d.schema} \union d.types
      [] o[1] = "trigger"     -> {d.target, d.routine}
      [] o[1] = "type"        -> {d.schema} \union Some(d.base)

Columns(t) == {c \in Of("column") : live[c].table = t}
Indexes(t) == {i \in Of("index") : live[i].table = t}
OwnerOf(c) == IF c = Nothing THEN {} ELSE {c, live[c].table}

\* CHECK constraints of domains take OIDs of the constraint kind.
OidObjects == DOMAIN live \union UNION {live[y].checks : y \in Of("type")}

-----------------------------------------------------------------------------
(***************************************************************************)
(* DependencyGraph.                                                        *)
(***************************************************************************)
Dependents(o) == {e[1] : e \in {e \in deps : e[2] = o}}

\* reaches: what o depends on, directly or not, through the edges.
Reached(edges, from) ==
    LET step(found) == found \union {e[2] : e \in {e \in edges : e[1] \in found}}
        reach[found \in SUBSET (from \union {e[2] : e \in edges})] ==
            IF step(found) = found THEN found ELSE reach[step(found)]
    IN reach[from]

\* add: an edge that would close a cycle is refused.
CanAdd(edges, object, references) ==
    \A r \in references : object \notin Reached(edges, {r})

\* Mutant: only the direct dependents.
Closure_direct(from) == from \union UNION {Dependents(o) : o \in from}

\* drop_order with CASCADE: the roots and all their dependents.
Closure(from) ==
    LET step(found) == found \union UNION {Dependents(o) : o \in found}
        close[found \in SUBSET (from \union {e[1] : e \in deps})] ==
            IF step(found) = found THEN found ELSE close[step(found)]
    IN close[from]

\* remove_references drops an object's own edges; remove also those of the
\* objects that depend on it.
OwnEdges(o)  == {e \in deps : e[1] = o}
AllEdges(o)  == {e \in deps : o \in {e[1], e[2]}}

-----------------------------------------------------------------------------
(***************************************************************************)
(* Creating.                                                               *)
(***************************************************************************)
\* Enters new definitions: their edges, their OIDs, their ids.
Create(defs, edges) ==
    /\ \A kind \in Kinds :
          next_id[kind] + Cardinality({o \in DOMAIN defs : o[1] = kind}) <= max_id[kind] + 1
    /\ live' = defs @@ live
    /\ deps' = deps \union edges
    /\ oids' = oids \union DOMAIN defs
    /\ next_id' = [kind \in Kinds |->
                     next_id[kind] + Cardinality({o \in DOMAIN defs : o[1] = kind})]
    /\ UNCHANGED forgotten

New(kind)           == <<kind, next_id[kind]>>
Edges(o, referenced) == {<<o, r>> : r \in referenced}

create_schema == Create(New("schema") :> [kind |-> "schema"], {})

\* The columns of CREATE TABLE: their declared types, the first one UNIQUE or
\* not.
NewTable(s, types, unique) ==
    LET t == New("table")
        n == next_id["column"]
        columns == {<<"column", n + i - 1>> : i \in DOMAIN types}
        keyed == IF unique THEN {New("index")} ELSE {}
    IN [o \in {t} \union columns \union keyed |->
          CASE o[1] = "table"  -> [schema |-> s]
            [] o[1] = "column" -> [table |-> t, type |-> types[o[2] - n + 1]]
            [] o[1] = "index"  -> [table |-> t, keys |-> {<<"column", n>>},
                                   unique |-> TRUE, name |-> OwnName]]

DeclaredTypes(defs) ==
    UNION {Edges(c, Some(defs[c].type)) : c \in {o \in DOMAIN defs : o[1] = "column"}}

create_table(s, types, unique) ==
    LET defs == NewTable(s, types, unique) IN Create(defs, DeclaredTypes(defs))

add_column(t, type) ==
    LET defs == New("column") :> [table |-> t, type |-> type]
    IN Create(defs, DeclaredTypes(defs))

Unused(name) == \A i \in Of("index") : live[i].name # name

create_index(t, keys, unique, name) ==
    /\ Unused(name)
    /\ Create(New("index") :> [table |-> t, keys |-> keys, unique |-> unique, name |-> name], {})

NewConstraint(t, columns, name, target) ==
    New("constraint") :> [table |-> t, columns |-> columns, name |-> name, target |-> target]

UnusedInTable(t, name) ==
    \A k \in Of("constraint") : live[k].table = t => live[k].name # name

\* A UNIQUE constraint comes with an index of its own name and depends on it.
create_unique(t, columns, name) ==
    LET k == New("constraint")  i == New("index") IN
    /\ UnusedInTable(t, name) /\ Unused(name)
    /\ Create(NewConstraint(t, columns, name, {}) @@
              i :> [table |-> t, keys |-> columns, unique |-> TRUE, name |-> name],
              Edges(k, {t, i} \union columns))

\* A foreign key depends on the table and the columns it references, which must
\* have a unique index.
create_foreign_key(t, c, name, rc) ==
    LET target == {live[rc].table, rc} IN
    /\ UnusedInTable(t, name)
    /\ \E i \in Indexes(live[rc].table) : live[i].unique /\ live[i].keys = {rc}
    /\ Create(NewConstraint(t, {c}, name, target),
              Edges(New("constraint"), {t, c} \union target))

create_sequence(s, owner) ==
    Create(New("sequence") :> [schema |-> s, owner |-> owner],
           Edges(New("sequence"), OwnerOf(owner)))

\* A materialized view is created with the table that stores its rows.
create_view(s, reads, materialized) ==
    LET v == New("view")
        backing == IF materialized THEN New("table") ELSE Nothing
        rows == IF materialized THEN NewTable(s, <<Nothing>>, FALSE) ELSE <<>>
    IN Create((v :> [schema |-> s, reads |-> reads, backing |-> backing]) @@ rows,
              Edges(v, reads \union Some(backing)))

create_routine(s, types) ==
    Create(New("routine") :> [schema |-> s, types |-> types], Edges(New("routine"), types))

create_trigger(target, r) ==
    /\ target[1] = "view" => live[target].backing = Nothing
    /\ Create(New("trigger") :> [target |-> target, routine |-> r],
              Edges(New("trigger"), {target, r}))

\* An enum, or a domain over a scalar or an enum with n CHECK constraints, whose
\* ids come from the counter of the constraints.
Checks(n) == {<<"constraint", next_id["constraint"] + i - 1>> : i \in 1..n}

create_type(s, domain, base, n) ==
    LET y == New("type") IN
    /\ ~domain => base = Nothing /\ n = 0
    /\ base # Nothing => ~live[base].domain
    /\ next_id["constraint"] + n <= max_id["constraint"] + 1
    /\ next_id["type"] <= max_id["type"]
    /\ live' = (y :> [schema |-> s, domain |-> domain, base |-> base, checks |-> Checks(n)]) @@ live
    /\ deps' = deps \union Edges(y, Some(base))
    /\ oids' = oids \union {y} \union Checks(n)
    /\ next_id' = [next_id EXCEPT !["type"] = @ + 1, !["constraint"] = @ + n]
    /\ UNCHANGED forgotten

-----------------------------------------------------------------------------
(***************************************************************************)
(* Altering.                                                               *)
(***************************************************************************)
add_domain_constraint(y) ==
    /\ live[y].domain
    /\ next_id["constraint"] <= max_id["constraint"]
    /\ live' = [live EXCEPT ![y].checks = @ \union {New("constraint")}]
    /\ oids' = oids \union {New("constraint")}
    /\ next_id' = [next_id EXCEPT !["constraint"] = @ + 1]
    /\ UNCHANGED <<deps, forgotten>>

drop_domain_constraint(y, k) ==
    /\ live' = [live EXCEPT ![y].checks = @ \ {k}]
    /\ oids' = oids \ {k}
    /\ UNCHANGED <<deps, next_id, forgotten>>

\* Replaces the edges of an object by those of its new references.
Redefine(o, definition, references, removed) ==
    /\ CanAdd(deps \ removed, o, references)
    /\ live' = [live EXCEPT ![o] = definition]
    /\ deps' = (deps \ removed) \union Edges(o, references)
    /\ forgotten' = forgotten \union {e \in removed : e[1] # o}
    /\ UNCHANGED <<oids, next_id>>

alter_column(c, type) ==
    Redefine(c, [live[c] EXCEPT !.type = type], Some(type), OwnEdges(c))

replace_view(v, reads) ==
    Redefine(v, [live[v] EXCEPT !.reads = reads], reads \union Some(live[v].backing), OwnEdges(v))

\* These two remove the edges of their dependents as well.
create_or_replace_routine(r, types) ==
    Redefine(r, [live[r] EXCEPT !.types = types], types, AllEdges(r))

alter_sequence(q, owner) ==
    Redefine(q, [live[q] EXCEPT !.owner = owner], OwnerOf(owner), AllEdges(q))

rename_index(i, name) ==
    /\ Unused(name)
    /\ live' = [live EXCEPT ![i].name = name]
    /\ UNCHANGED <<deps, oids, next_id, forgotten>>

-----------------------------------------------------------------------------
(***************************************************************************)
(* Dropping.                                                               *)
(***************************************************************************)
\* What disappears with an object because its definition is inside the other's.
Triggers(o)  == {g \in Of("trigger") : live[g].target = o}
InTable(t)   == Columns(t) \union Indexes(t) \union Triggers(t) \union
                {k \in Of("constraint") : live[k].table = t}
OnColumn(c)  == {i \in Of("index") : c \in live[i].keys} \union
                {k \in Of("constraint") : c \in live[k].columns}
OwnIndex(k)  == {i \in Indexes(live[k].table) : live[i].name = live[k].name}

Inside(o) ==
    CASE o[1] = "table"      -> InTable(o)
      [] o[1] = "column"     -> OnColumn(o)
      [] o[1] = "constraint" -> OwnIndex(o)
      [] o[1] = "view"       -> Triggers(o)
      [] OTHER               -> {}

\* remove_catalog_object of each: the edges go of the objects named and of what
\* is in the tables; the OIDs also of what goes with a column or a constraint.
InsideTables(objects) == UNION {InTable(t) : t \in objects \intersect Of("table")}
ChecksOf(objects)     == UNION {live[y].checks : y \in objects \intersect Of("type")}
Registered(objects)   == UNION {Inside(o) : o \in objects \ Of("view")}

remove_catalog_objects(objects) ==
    LET gone == objects \union UNION {Inside(o) : o \in objects} IN
    /\ live' = [o \in DOMAIN live \ gone |-> live[o]]
    /\ deps' = deps \ UNION {AllEdges(o) : o \in objects \union InsideTables(objects)}
    /\ oids' = oids \ (objects \union Registered(objects) \union ChecksOf(objects))
    /\ UNCHANGED <<next_id, forgotten>>

\* drop_catalog_object with CASCADE, and the statements that then drop the
\* tables of the materialized views among the objects dropped.
Backing(objects) == {live[v].backing : v \in objects \intersect Of("view")} \ {Nothing}
WithBacking(objects) == objects \union Closure(Backing(objects) \ objects)

Restricted(o, own) == Dependents(o) \subseteq own

drop_object(o, own, cascade) ==
    /\ cascade \/ Restricted(o, own)
    /\ remove_catalog_objects(WithBacking(Closure({o})))

drop_table(t, cascade)    == drop_object(t, InTable(t), cascade)
drop_view(v, cascade)     == drop_object(v, Triggers(v), cascade)
drop_index(i, cascade)    == drop_object(i, {}, cascade)
drop_sequence(q, cascade) == drop_object(q, {}, cascade)
drop_type(y, cascade)     == drop_object(y, {}, cascade)

\* DROP SCHEMA takes its tables, sequences, views, routines and types as roots.
InSchema(s) ==
    {o \in DOMAIN live :
        o[1] \in {"table", "sequence", "view", "routine", "type"} /\ live[o].schema = s}

drop_schema(s, cascade) ==
    /\ cascade \/ InSchema(s) = {}
    /\ remove_catalog_objects(WithBacking(Closure(InSchema(s))) \union {s})

\* Statements that leave the tables of materialized views alone.
drop_alone(o, cascade) ==
    /\ cascade \/ Restricted(o, {})
    /\ remove_catalog_objects(Closure({o}))

drop_column(c, cascade)     == Columns(live[c].table) # {c} /\ drop_alone(c, cascade)
drop_constraint(k, cascade) == drop_alone(k, cascade)
drop_routine(r, cascade)    == drop_alone(r, cascade)
drop_trigger(g, cascade)    == drop_alone(g, cascade)

-----------------------------------------------------------------------------
\* Tables a statement can name: all but those of materialized views.
UserTables == Of("table") \ {live[v].backing : v \in Of("view")}
Types      == Of("type") \union {Nothing}
Readable   == UserTables \union Of("view") \union Of("routine")
UserColumns == {c \in Of("column") : live[c].table \in UserTables}
Owners      == UserColumns \union {Nothing}

Creating ==
    \/ create_schema
    \/ \E s \in Of("schema") :
          \/ \E types \in {<<y>> : y \in Types} \union {<<Nothing, y>> : y \in Types} :
                \E unique \in BOOLEAN : create_table(s, types, unique)
          \/ \E owner \in Owners : create_sequence(s, owner)
          \/ \E reads \in SUBSET Readable, materialized \in BOOLEAN :
                Cardinality(reads) <= 1 /\ create_view(s, reads, materialized)
          \/ \E types \in SUBSET Of("type") : create_routine(s, types)
          \/ \E domain \in BOOLEAN, base \in Types, n \in 0..1 : create_type(s, domain, base, n)
    \/ \E t \in UserTables :
          \/ \E type \in Types : add_column(t, type)
          \/ \E c \in Columns(t), unique \in BOOLEAN, name \in IndexNames :
                create_index(t, {c}, unique, name)
          \/ \E c \in Columns(t), name \in ConstraintNames : create_unique(t, {c}, name)
          \/ \E c \in Columns(t), rc \in UserColumns, name \in ConstraintNames :
                create_foreign_key(t, c, name, rc)
    \/ \E target \in UserTables \union Of("view"), r \in Of("routine") : create_trigger(target, r)

Altering ==
    \/ \E y \in Of("type") :
          \/ add_domain_constraint(y)
          \/ \E k \in live[y].checks : drop_domain_constraint(y, k)
    \/ \E c \in UserColumns, type \in Types : alter_column(c, type)
    \/ \E v \in Of("view"), reads \in SUBSET Readable : Cardinality(reads) <= 1 /\ replace_view(v, reads)
    \/ \E r \in Of("routine"), types \in SUBSET Of("type") : create_or_replace_routine(r, types)
    \/ \E q \in Of("sequence"), owner \in Owners : alter_sequence(q, owner)
    \/ \E i \in Of("index"), name \in IndexNames : rename_index(i, name)

Dropping ==
    \E cascade \in BOOLEAN :
       \/ \E s \in Of("schema") : drop_schema(s, cascade)
       \/ \E t \in UserTables : drop_table(t, cascade)
       \/ \E c \in UserColumns : drop_column(c, cascade)
       \/ \E i \in Of("index") : drop_index(i, cascade)
       \/ \E k \in Of("constraint") : drop_constraint(k, cascade)
       \/ \E q \in Of("sequence") : drop_sequence(q, cascade)
       \/ \E v \in Of("view") : drop_view(v, cascade)
       \/ \E r \in Of("routine") : drop_routine(r, cascade)
       \/ \E g \in Of("trigger") : drop_trigger(g, cascade)
       \/ \E y \in Of("type") : drop_type(y, cascade)

Next ==
    /\ statements < MaxStatements
    /\ statements' = statements + 1
    /\ UNCHANGED max_id
    /\ Creating \/ Altering \/ Dropping

Spec == Init /\ [][Next]_vars

-----------------------------------------------------------------------------
(***************************************************************************)
(* Nothing names an object that is gone, after any sequence of CREATE,     *)
(* ALTER, REPLACE and DROP: what RESTRICT lets through had no dependents   *)
(* and CASCADE took them all.  The exception is a reference whose edge a   *)
(* CREATE OR REPLACE FUNCTION or an ALTER SEQUENCE removed together with   *)
(* the replaced object's own (DependencyGraph::remove).                    *)
(***************************************************************************)
NoDanglingReference ==
    \A o \in DOMAIN live : \A r \in Refers(o) : r \in DOMAIN live \/ <<o, r>> \in forgotten

(***************************************************************************)
(* The OID registry has exactly the live objects, so the check of it with  *)
(* which every operation ends (validate_postgres_oid_registry) never fails *)
(* a DROP halfway: an object can go with a table, a column, a constraint   *)
(* or a view it belongs to, as well as by name.                            *)
(***************************************************************************)
OidsAreLive == oids = OidObjects
=============================================================================
