---------------------------- MODULE MCDurability ----------------------------
(***************************************************************************)
(* Instances of Durability for TLC.  One run explores several of them:     *)
(* setup names the one a behaviour belongs to and never changes, so the    *)
(* states of the instances are added, not multiplied.                      *)
(***************************************************************************)
EXTENDS DurabilityRefinement

VARIABLE setup

\* Power losses only: a file that grows and shrinks with one loss, and two
\* losses, the second of which may fall into recovery, after a Begin record
\* that could not be flushed.
Resizing   == INSTANCE Durability WITH PageCounts <- {1, 2}, MaxCrashes <- 1, MaxFaults <- 0, MaxCheckpoints <- 0, Failures <- {"power"}
Restarting == INSTANCE Durability WITH MaxCrashes <- 2, MaxFaults <- 1, MaxCheckpoints <- 0, Failures <- {"power", "begin_flush"}

\* Checkpoints of other sessions with a power loss, and failing calls with a
\* crash of the process.
Checkpointing == INSTANCE Durability WITH MaxCrashes <- 1, MaxFaults <- 0, MaxCheckpoints <- 1, Failures <- {"power"}
Failing == INSTANCE Durability WITH MaxCrashes <- 1, MaxFaults <- 2, MaxCheckpoints <- 0,
    Failures <- {"process", "begin", "active", "abort", "committed"}

CrashInit == \/ setup = "resizing" /\ Resizing!Init
             \/ setup = "restarting" /\ Restarting!Init
CrashNext == \/ setup = "resizing" /\ Resizing!Next /\ UNCHANGED setup
             \/ setup = "restarting" /\ Restarting!Next /\ UNCHANGED setup
CrashSpec == CrashInit /\ [][CrashNext]_<<vars, setup>> /\ WF_<<vars, setup>>(Recovery /\ UNCHANGED setup)

FaultInit == \/ setup = "checkpointing" /\ Checkpointing!Init
             \/ setup = "failing" /\ Failing!Init
FaultNext == \/ setup = "checkpointing" /\ Checkpointing!Next /\ UNCHANGED setup
             \/ setup = "failing" /\ Failing!Next /\ UNCHANGED setup
FaultSpec == FaultInit /\ [][FaultNext]_<<vars, setup>>
=============================================================================
