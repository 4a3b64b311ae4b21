------------------------------ MODULE MCSessions ------------------------------
(***************************************************************************)
(* The database engine, for Sessions.cfg: three sessions that share one    *)
(* database, and what a session does with a statement on its own copy of   *)
(* the state: execute a query, or change rows.  A behaviour is one of the  *)
(* part its initial state chooses.                                         *)
(***************************************************************************)
EXTENDS Sessions

CONSTANTS MAX_SPILL_MERGE_FAN_IN, HASH_PARTITIONS, MAX_REFERENTIAL_ACTIONS

VARIABLES
    part,
    plan, source, groups, builder, output, cursor,
    schema, script, db, versions, run, start

Q == INSTANCE QueryPlans
X == INSTANCE Execution WITH Plans <- Q!AllQueries

S == INSTANCE DmlPlans
D == INSTANCE Dml WITH Setups <- S!AllSetups

execution == <<plan, source, groups, builder, output, cursor>>
dml == <<schema, script, db, versions, run, start>>
engine == <<part, vars, execution, dml>>

None == "none"
MCThreads == Clients \X {"statement", "stream"}

\* A query or a change that is not run has no state.
NoQuery  == plan = None /\ source = None /\ groups = None /\ builder = None /\ output = None /\ cursor = None
NoChange == schema = None /\ script = None /\ db = None /\ versions = None /\ run = None /\ start = None

MCInit ==
    /\ part \in {"sessions", "execution", "dml"} /\ Init
    /\ IF part = "execution" THEN X!ExecutionInit ELSE NoQuery
    /\ IF part = "dml" THEN D!DmlInit ELSE NoChange

Served   == part = "sessions" /\ UNCHANGED <<part, execution, dml>>
Executed == part = "execution" /\ UNCHANGED <<part, vars, dml>>
Changed  == part = "dml" /\ UNCHANGED <<part, vars, execution>>

\* A query and a script end.
MCNext ==
    \/ Served /\ Next
    \/ Executed /\ (X!ExecutionNext \/ (X!Settled /\ UNCHANGED execution))
    \/ Changed /\ (D!DmlNext \/ (D!Settled /\ UNCHANGED dml))

\* The fairness of Sessions.
MCSpec ==
    /\ MCInit /\ [][MCNext]_engine
    /\ \A s \in Clients : WF_vars(Served /\ Run(s)) /\ WF_vars(Served /\ close_stream(s))

\* The properties of a query and of a change in the behaviours that are their own.
QueriesAreExact == part = "execution" => X!QueriesAreExact
ChangesAreExact == part = "dml" => D!StatementsAreExact /\ D!VersionsAreTheRows
=============================================================================
