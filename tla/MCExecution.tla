---------------------------- MODULE MCExecution ----------------------------
(* Execution alone, until its query ends.                                  *)
EXTENDS Execution, QueryPlans

QueryEnded == Settled /\ UNCHANGED execution
MCSpec == ExecutionInit /\ [][ExecutionNext \/ QueryEnded]_execution
=============================================================================
