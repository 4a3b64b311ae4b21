--------------------------- MODULE MCSqlWriters ---------------------------
(* SqlWriters with two interchangeable sessions. *)
EXTENDS SqlWriters, TLC

CONSTANTS a, b

Perms == Permutations({a, b})
=============================================================================
