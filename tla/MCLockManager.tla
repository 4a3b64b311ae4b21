--------------------------- MODULE MCLockManager ---------------------------
(* Small instances of LockManager for TLC.                                 *)
EXTENDS LockManager

\* Every mode on two keys, as the LockManager interface allows.
AllRequests == [key : {"a", "b"}, mode : Modes]

\* Row and unique-key locks of acquire_dml_locks: always exclusive.
RowRequests == [key : {"row1", "row2"}, mode : {"Exclusive"}]
=============================================================================
