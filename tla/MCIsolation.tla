---------------------------- MODULE MCIsolation ----------------------------
(* Values of the constants of Isolation for TLC.                           *)
EXTENDS Isolation

\* One row in each of two tables, or two rows in one table.
TwoTables == [r \in Rows |-> r]
OneTable == [r \in Rows |-> CHOOSE x \in Rows : TRUE]

\* The level each transaction may ask for.
PairBelowSerializable == [t \in Txns |-> IF t = N THEN {} ELSE {"ReadCommitted", "RepeatableRead"}]
AllSerializable == [t \in Txns |-> {"Serializable"}]
OneDeferrable == [t \in Txns |-> IF t = N THEN {"Deferrable"} ELSE {"Serializable"}]

\* Two transactions below Serializable with row locks and savepoints, BEGINs
\* overlapping COMMITs.
Snapshotting ==
    [table_of |-> OneTable, levels |-> PairBelowSerializable, statements |-> 2,
     savepoints |-> TRUE, overlap |-> {"commit"}, maximum_transactions |-> 4]

\* Three serializable transactions of one statement with savepoints and an SSI
\* table that is full.
Tracking ==
    [table_of |-> TwoTables, levels |-> AllSerializable, statements |-> 1,
     savepoints |-> TRUE, overlap |-> {}, maximum_transactions |-> 2]

\* Two serializable writers and a deferrable reader.
Deferring ==
    [table_of |-> TwoTables, levels |-> OneDeferrable, statements |-> 2,
     savepoints |-> FALSE, overlap |-> {}, maximum_transactions |-> 3]

\* Three serializable transactions.
Pivoting == [Deferring EXCEPT !.levels = AllSerializable, !.maximum_transactions = 4]

All    == {Snapshotting, Tracking, Deferring}
Pivots == {Pivoting}
=============================================================================
