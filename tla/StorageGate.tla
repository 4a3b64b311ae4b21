----------------------------- MODULE StorageGate -----------------------------
(***************************************************************************)
(* StorageAccessGate (ordadb-engine, contracts_and_engine.rs): a readers-  *)
(* writer gate in front of the data file, one mutex and one condition      *)
(* variable.  A read stream holds a read lease while it is open, a commit  *)
(* a write lease while it changes pages; a waiting writer keeps new        *)
(* readers out.                                                            *)
(*                                                                         *)
(* The mutex is held from the test of a condition to the wait or to the    *)
(* update, so each such stretch is one step.  A thread that waits is       *)
(* asleep until notify_all wakes it, and then tests its condition again:   *)
(* a wakeup that is never sent is a behaviour of this model.               *)
(***************************************************************************)
EXTENDS Naturals, FiniteSets

CONSTANT Threads

ASSUME GateAssumption == IsFiniteSet(Threads)

VARIABLES
    active_readers,   \* StorageAccessState.active_readers
    waiting_writers,  \* StorageAccessState.waiting_writers
    writer_active,    \* StorageAccessState.writer_active
    at,               \* where a thread stands: one of Places
    asleep            \* the threads blocked in Condvar::wait

gateVars == <<active_readers, waiting_writers, writer_active, at, asleep>>

Places == {"out", "wait_read", "reading", "wait_write", "writing"}

GateTypeOK ==
    /\ active_readers \in Nat
    /\ waiting_writers \in Nat
    /\ writer_active \in BOOLEAN
    /\ at \in [Threads -> Places]
    /\ asleep \subseteq Threads

GateInit ==
    /\ active_readers = 0
    /\ waiting_writers = 0
    /\ writer_active = FALSE
    /\ at = [t \in Threads |-> "out"]
    /\ asleep = {}

At(place) == {t \in Threads : at[t] = place}

\* The two loop conditions of the waits.
ReadBlocked == writer_active \/ waiting_writers > 0

WriteBlocked == writer_active \/ active_readers > 0

(***************************************************************************)
(* acquire_read.                                                           *)
(***************************************************************************)
read_granted(t) ==
    /\ active_readers' = active_readers + 1
    /\ at' = [at EXCEPT ![t] = "reading"]
    /\ UNCHANGED <<waiting_writers, writer_active, asleep>>

acquire_read(t) ==
    /\ at[t] = "out"
    /\ IF ReadBlocked
       THEN /\ at' = [at EXCEPT ![t] = "wait_read"]
            /\ asleep' = asleep \union {t}
            /\ UNCHANGED <<active_readers, waiting_writers, writer_active>>
       ELSE read_granted(t)

\* A woken reader tests its condition again.
read_woken(t) ==
    /\ at[t] = "wait_read"
    /\ t \notin asleep
    /\ IF ReadBlocked
       THEN /\ asleep' = asleep \union {t}
            /\ UNCHANGED <<active_readers, waiting_writers, writer_active, at>>
       ELSE read_granted(t)

(***************************************************************************)
(* acquire_write: the writer is counted as waiting before it waits, which  *)
(* is what stops new readers.                                              *)
(***************************************************************************)
write_granted(t, waiting) ==
    /\ waiting_writers' = waiting - 1
    /\ writer_active' = TRUE
    /\ at' = [at EXCEPT ![t] = "writing"]
    /\ UNCHANGED <<active_readers, asleep>>

acquire_write(t) ==
    /\ at[t] = "out"
    /\ IF WriteBlocked
       THEN /\ waiting_writers' = waiting_writers + 1
            /\ at' = [at EXCEPT ![t] = "wait_write"]
            /\ asleep' = asleep \union {t}
            /\ UNCHANGED <<active_readers, writer_active>>
       ELSE write_granted(t, waiting_writers + 1)

write_woken(t) ==
    /\ at[t] = "wait_write"
    /\ t \notin asleep
    /\ IF WriteBlocked
       THEN /\ asleep' = asleep \union {t}
            /\ UNCHANGED <<active_readers, waiting_writers, writer_active, at>>
       ELSE write_granted(t, waiting_writers)

(***************************************************************************)
(* Drop of the leases: both notify everyone.                               *)
(***************************************************************************)
\* A lease whose drop forgets to notify.
drop_read_silent(t) ==
    /\ at[t] = "reading"
    /\ active_readers' = IF active_readers > 0 THEN active_readers - 1 ELSE 0
    /\ at' = [at EXCEPT ![t] = "out"]
    /\ UNCHANGED <<waiting_writers, writer_active, asleep>>

drop_read(t) ==
    /\ at[t] = "reading"
    /\ active_readers' = IF active_readers > 0 THEN active_readers - 1 ELSE 0
    /\ at' = [at EXCEPT ![t] = "out"]
    /\ asleep' = {}
    /\ UNCHANGED <<waiting_writers, writer_active>>

drop_write(t) ==
    /\ at[t] = "writing"
    /\ writer_active' = FALSE
    /\ at' = [at EXCEPT ![t] = "out"]
    /\ asleep' = {}
    /\ UNCHANGED <<active_readers, waiting_writers>>

GateNext ==
    \E t \in Threads :
        \/ acquire_read(t) \/ read_woken(t) \/ drop_read(t)
        \/ acquire_write(t) \/ write_woken(t) \/ drop_write(t)

GateSpec == GateInit /\ [][GateNext]_gateVars

(***************************************************************************)
(* Properties.                                                             *)
(***************************************************************************)
\* The counters are exactly the leases and waits that exist: no lease is
\* counted twice or forgotten by acquire_read, acquire_write and the drops.
LeasesAreCounted ==
    /\ active_readers = Cardinality(At("reading"))
    /\ waiting_writers = Cardinality(At("wait_write"))
    /\ writer_active <=> At("writing") # {}

\* The pages a stream reads never change under it: while a write lease exists
\* it is the only lease (StorageAccessGate is used for nothing else).
WriterIsAlone ==
    \A w \in At("writing") : At("reading") \union At("writing") = {w}

\* No lost wakeup: a thread that sleeps in Condvar::wait has a reason to. Only
\* a drop of a lease notifies, so every change that makes a loop condition
\* false must be one.
SleepersAreBlocked ==
    /\ asleep \subseteq At("wait_read") \union At("wait_write")
    /\ asleep \intersect At("wait_read") # {} => ReadBlocked
    /\ asleep \intersect At("wait_write") # {} => WriteBlocked
=============================================================================
