------------------------------- MODULE Migration -------------------------------
(***************************************************************************)
(* The data root of a server and the tools that change which database in   *)
(* it is the authoritative one: the first start on an empty root, the      *)
(* migration of a legacy v1 database to a v2 cluster, by the command line  *)
(* or with a receipt of the installer, and the rollback (ordadb-cluster,   *)
(* ordadb-backup).  Authority is not stored in one place: inspect_root and *)
(* classify_installer_storage derive it from the files that are there.     *)
(*                                                                         *)
(* A tool and the server never run together (the migration is offline,     *)
(* src/README.md:234, nothing locks the root), but either can die between  *)
(* two changes of the files, and the old v1 program may still write until  *)
(* the migration has retained a copy of its file.  A database is the set   *)
(* of the writes it holds; checksums and sizes compare contents.           *)
(***************************************************************************)
EXTENDS Naturals, Sequences, FiniteSets

CONSTANTS
    MaxPlans,   \* bound: clusters ever planned or initialized
    MaxWrites,  \* bound: writes to any of the databases
    MaxCrashes  \* bound: deaths of a tool or of the server

VARIABLES
    legacy,     \* the v1 database at the root, or NoFile
    clusters,   \* the v2 clusters that have been built, by id
    pointer,    \* active pointer: a cluster id or NoId
    journal,    \* migration journal: [id, phase] or NoJournal
    backups,    \* logical archives, by the id of the plan
    rollbacks,  \* retained copies of the v1 files, by the id of the plan
    dirs,       \* which of "clusters" and "migration" exist in the root
    tool,       \* the tool that runs, or NoTool
    server,     \* the server runs
    receipt,    \* the receipt of the installer's preflight, or NoReceipt
    next_plan, crashes, acked  \* two bounds; ghost: writes that were acknowledged

rootVars == <<legacy, clusters, pointer, journal, backups, rollbacks, dirs, tool, server,
              receipt, next_plan, crashes, acked>>
files == <<legacy, clusters, pointer, journal, backups, rollbacks, dirs>>

NoId      == 0    \* no id
NoFile    == {}   \* a v1 file holds at least its first write
NoJournal == [id |-> NoId, phase |-> "none"]
NoReceipt == [id |-> NoId]
NoTool      == [op |-> "idle"]

\* MigrationPhaseV2::ordered.
Phases == <<"Inspected", "LogicalBackupWritten", "CandidateBuilt", "CandidateValidated",
            "CandidateReopened", "RollbackRetained", "CandidatePublished",
            "PointerSwitched", "Completed">>

RootInit ==
    /\ legacy \in {NoFile, {0}}
    /\ acked = legacy
    /\ clusters = <<>> /\ pointer = NoId /\ journal = NoJournal
    /\ backups = {} /\ rollbacks = {} /\ dirs = {}
    /\ tool = NoTool /\ server = FALSE /\ receipt = NoReceipt
    /\ next_plan = 1 /\ crashes = 0

-----------------------------------------------------------------------------
Published(id) == id \in DOMAIN clusters /\ clusters[id].place = "published"

inspect_root ==
    CASE pointer # NoId /\ Published(pointer)  -> "V2"
      [] pointer # NoId /\ ~Published(pointer) -> "error"
      [] pointer = NoId /\ legacy # NoFile       -> "LegacyV1"
      [] OTHER -> IF dirs = {} THEN "Empty" ELSE "error"

\* What a server that opens the root serves, or the old program.
Served ==
    CASE inspect_root = "V2"       -> clusters[pointer].writes
      [] inspect_root = "LegacyV1" -> legacy
      [] OTHER                     -> {}

\* The installer's view of the same files.
JournalCompleted == journal # NoJournal /\ journal.phase = "Completed"

\* Mutant: the files of the v1 database are looked at before the pointer.
classify_legacy_first ==
    CASE legacy # NoFile -> IF journal # NoJournal /\ ~JournalCompleted THEN "IncompleteMigration"
                          ELSE "LegacyV1"
      [] OTHER -> IF pointer # NoId THEN "ActiveV2" ELSE "Empty"

classify_installer_storage ==
    CASE pointer # NoId ->
           IF ~Published(pointer) THEN (IF legacy # NoFile THEN "Mixed" ELSE "Corrupt")
           ELSE IF legacy # NoFile /\ clusters[pointer].activation = NoId THEN "Mixed"
           ELSE "ActiveV2"
      [] pointer = NoId /\ journal # NoJournal /\ ~JournalCompleted -> "IncompleteMigration"
      [] pointer = NoId /\ legacy # NoFile /\ (journal = NoJournal \/ JournalCompleted) ->
           IF "clusters" \in dirs /\ ~JournalCompleted THEN "Mixed" ELSE "LegacyV1"
      [] OTHER -> IF dirs = {} THEN "Empty" ELSE "IncompleteMigration"

Safe == {"Empty", "ActiveV2", "LegacyV1"}

\* fingerprint_from_classification: the markers and the content.
Fingerprint == [disposition |-> classify_installer_storage, legacy |-> legacy # NoFile,
                pointer |-> pointer, dirs |-> dirs, journal |-> journal # NoJournal,
                content |-> Served]

-----------------------------------------------------------------------------
(***************************************************************************)
(* Planning and the installer's receipt.                                   *)
(***************************************************************************)
Planned(id, source) ==
    [op |-> "migrate", id |-> id, phase |-> 0, done |-> FALSE, source |-> source, read |-> {}]

Offline == tool = NoTool /\ ~server

plan_v1_to_v2 ==
    /\ Offline /\ inspect_root = "LegacyV1" /\ next_plan <= MaxPlans
    /\ tool' = Planned(next_plan, legacy)
    /\ next_plan' = next_plan + 1
    /\ UNCHANGED <<files, server, receipt, crashes, acked>>

\* Only receipts that are safe to apply are of interest.
installer_storage_preflight ==
    /\ Offline /\ classify_installer_storage \in Safe
    /\ next_plan <= MaxPlans
    /\ receipt' = [id |-> next_plan, source |-> Served, fingerprint |-> Fingerprint]
    /\ next_plan' = next_plan + 1
    /\ UNCHANGED <<files, tool, server, crashes, acked>>

\* A receipt can be applied more than once.
apply_installer_storage_receipt ==
    /\ Offline /\ receipt # NoReceipt
    /\ receipt.fingerprint = Fingerprint
    /\ Fingerprint.disposition = "LegacyV1"
    /\ tool' = Planned(receipt.id, receipt.source)
    /\ UNCHANGED <<files, server, receipt, next_plan, crashes, acked>>

-----------------------------------------------------------------------------
(***************************************************************************)
(* apply_migration_plan_v2: the work before each phase is one step, the    *)
(* journal entry after it another.  A check that fails ends the tool.      *)
(***************************************************************************)
Working(op, phase) == tool.op = op /\ tool.phase = phase /\ ~tool.done
Done == tool' = [tool EXCEPT !.done = TRUE]
Rest == UNCHANGED <<server, receipt, next_plan, crashes, acked>>

\* The checks of the plan's digest and of the free space, which come before
\* anything is written, are left out.
Refuse ==
    /\ tool.op = "migrate" /\ ~tool.done
    /\ CASE tool.phase = 0 -> inspect_root # "LegacyV1" \/ legacy # tool.source
         [] tool.phase = 1 -> tool.id \in backups
         [] tool.phase = 2 -> tool.id \in DOMAIN clusters
         [] tool.phase = 6 -> Published(tool.id)
         [] OTHER          -> FALSE
    /\ tool' = NoTool
    /\ UNCHANGED files /\ Rest

validate_source_unchanged ==
    /\ Working("migrate", 0) /\ inspect_root = "LegacyV1" /\ legacy = tool.source
    /\ tool' = [tool EXCEPT !.done = TRUE, !.read = legacy]
    /\ UNCHANGED files /\ Rest

write_snapshot_archive ==
    /\ Working("migrate", 1) /\ tool.id \notin backups
    /\ backups' = backups \union {tool.id}
    /\ Done
    /\ UNCHANGED <<legacy, clusters, pointer, journal, rollbacks, dirs>> /\ Rest

Built(writes, activation, place) ==
    [writes |-> writes, generation |-> 1, activation |-> activation, place |-> place]

With(id, cluster) ==
    [i \in DOMAIN clusters \union {id} |-> IF i = id THEN cluster ELSE clusters[i]]

\* From what was read at the start; it records the generation it is built with.
prepare_candidate ==
    /\ Working("migrate", 2) /\ tool.id \notin DOMAIN clusters
    /\ clusters' = With(tool.id, Built(tool.read, 1, "candidate"))
    /\ Done
    /\ UNCHANGED <<legacy, pointer, journal, backups, rollbacks, dirs>> /\ Rest

\* CandidateValidated, CandidateReopened: reads only.  So is the check of the
\* active cluster before PointerSwitched is entered, and nothing is left to do
\* for Completed.
check_candidate ==
    /\ \E phase \in {3, 4, 8} : Working("migrate", phase)
    /\ Done
    /\ UNCHANGED files /\ Rest

\* The directory is made, then the copy compared with the inventory of the plan.
\* Mutant: the copy is not compared.
retain_rollback_blind ==
    /\ Working("migrate", 5)
    /\ rollbacks' = rollbacks \union {tool.id}
    /\ IF tool.id \in rollbacks THEN tool' = NoTool ELSE Done
    /\ UNCHANGED <<legacy, clusters, pointer, journal, backups, dirs>> /\ Rest

retain_rollback ==
    /\ Working("migrate", 5)
    /\ rollbacks' = rollbacks \union {tool.id}
    /\ IF tool.id \in rollbacks \/ legacy # tool.source THEN tool' = NoTool ELSE Done
    /\ UNCHANGED <<legacy, clusters, pointer, journal, backups, dirs>> /\ Rest

PublishDirectory == clusters' = [clusters EXCEPT ![tool.id].place = "published"]

publish_cluster_directory ==
    /\ Working("migrate", 6) /\ ~Published(tool.id)
    /\ PublishDirectory
    /\ dirs' = dirs \union {"clusters"}
    /\ Done
    /\ UNCHANGED <<legacy, pointer, journal, backups, rollbacks>> /\ Rest

activate_published_cluster ==
    /\ Working("migrate", 7)
    /\ pointer' = tool.id
    /\ Done
    /\ UNCHANGED <<legacy, clusters, journal, backups, rollbacks, dirs>> /\ Rest

persist_phase ==
    /\ tool.op = "migrate" /\ tool.done
    /\ journal' = [id |-> tool.id, phase |-> Phases[tool.phase + 1]]
    /\ dirs' = dirs \union {"migration"}
    /\ tool' = IF tool.phase + 1 = Len(Phases) THEN NoTool
               ELSE [tool EXCEPT !.phase = @ + 1, !.done = FALSE]
    /\ UNCHANGED <<legacy, clusters, pointer, backups, rollbacks>> /\ Rest

-----------------------------------------------------------------------------
(***************************************************************************)
(* The server: on an empty root it initializes a cluster first.            *)
(***************************************************************************)
Starting(phase) == Working("initialize", phase)
Continue == tool' = [tool EXCEPT !.phase = @ + 1]

initialize_empty_v2 ==
    /\ Offline /\ inspect_root = "Empty" /\ next_plan <= MaxPlans
    /\ tool' = [op |-> "initialize", id |-> next_plan, phase |-> 0, done |-> FALSE]
    /\ clusters' = With(next_plan, Built({}, NoId, "initializing"))
    /\ dirs' = dirs \union {"clusters"}
    /\ next_plan' = next_plan + 1
    /\ UNCHANGED <<legacy, pointer, journal, backups, rollbacks, server, receipt, crashes, acked>>

initialized_published ==
    /\ Starting(0)
    /\ PublishDirectory
    /\ Continue
    /\ UNCHANGED <<legacy, pointer, journal, backups, rollbacks, dirs>> /\ Rest

initialized_activated ==
    /\ Starting(1)
    /\ pointer' = tool.id
    /\ tool' = NoTool /\ server' = TRUE
    /\ UNCHANGED <<legacy, clusters, journal, backups, rollbacks, dirs>>
    /\ UNCHANGED <<receipt, next_plan, crashes, acked>>

\* A v1 root is refused with a hint to migrate it.
start_server ==
    /\ Offline /\ inspect_root = "V2"
    /\ server' = TRUE
    /\ UNCHANGED <<files, tool, receipt, next_plan, crashes, acked>>

stop_server ==
    /\ server
    /\ server' = FALSE
    /\ UNCHANGED <<files, tool, receipt, next_plan, crashes, acked>>

Writes == Cardinality(acked \ {0})

commit ==
    /\ server /\ Writes < MaxWrites
    /\ clusters' = [clusters EXCEPT ![pointer].writes = @ \union {Writes + 1},
                                    ![pointer].generation = @ + 1]
    /\ acked' = acked \union {Writes + 1}
    /\ UNCHANGED <<legacy, pointer, journal, backups, rollbacks, dirs>>
    /\ UNCHANGED <<tool, server, receipt, next_plan, crashes>>

\* External: the program that wrote the v1 file, until it is told to stop.
legacy_write ==
    /\ inspect_root = "LegacyV1" /\ Writes < MaxWrites
    /\ tool # NoTool => tool.phase < 5 \/ (tool.phase = 5 /\ ~tool.done)
    /\ legacy' = legacy \union {Writes + 1}
    /\ acked' = acked \union {Writes + 1}
    /\ UNCHANGED <<clusters, pointer, journal, backups, rollbacks, dirs>>
    /\ UNCHANGED <<tool, server, receipt, next_plan, crashes>>

CanRollBack(id) ==
    /\ clusters[id].activation # NoId
    /\ clusters[id].generation = clusters[id].activation
    /\ id \in rollbacks

\* Takes the pointer away; the journal keeps its phase.
rollback_v2_to_v1 ==
    /\ Offline /\ inspect_root = "V2" /\ CanRollBack(pointer)
    /\ pointer' = NoId
    /\ UNCHANGED <<legacy, clusters, journal, backups, rollbacks, dirs>>
    /\ UNCHANGED <<tool, server, receipt, next_plan, crashes, acked>>

\* Also while the journal is replaced: outside Windows the old one is removed
\* before the new one gets its name.
Crash ==
    /\ ~Offline /\ crashes < MaxCrashes
    /\ crashes' = crashes + 1
    /\ tool' = NoTool /\ server' = FALSE
    /\ journal' \in {journal} \union (IF tool # NoTool /\ tool.done THEN {NoJournal} ELSE {})
    /\ UNCHANGED <<legacy, clusters, pointer, backups, rollbacks, dirs, receipt, next_plan, acked>>

RootNext ==
    \/ plan_v1_to_v2 \/ installer_storage_preflight \/ apply_installer_storage_receipt
    \/ Refuse \/ validate_source_unchanged \/ write_snapshot_archive \/ prepare_candidate
    \/ check_candidate \/ retain_rollback \/ publish_cluster_directory
    \/ activate_published_cluster \/ persist_phase
    \/ initialize_empty_v2 \/ initialized_published \/ initialized_activated
    \/ start_server \/ stop_server \/ commit \/ legacy_write \/ rollback_v2_to_v1 \/ Crash

RootSpec == RootInit /\ [][RootNext]_rootVars

-----------------------------------------------------------------------------
(***************************************************************************)
(* Whatever was acknowledged by the old program or by the server is in the *)
(* database that the root's authority serves, at every point of every      *)
(* migration, crash, rerun, receipt and rollback.  In particular there is  *)
(* such a database as soon as there was one.                               *)
(***************************************************************************)
NoWriteLost == acked \subseteq Served /\ (acked # {} => inspect_root \in {"LegacyV1", "V2"})

(***************************************************************************)
(* The installer goes on only where it sees the database that a server     *)
(* would open: its classification and inspect_root, which look at the same *)
(* files in two different orders, agree in every state a crash can leave.  *)
(***************************************************************************)
ClassifiedAsOpened ==
    classify_installer_storage \in Safe =>
        inspect_root = (IF classify_installer_storage = "ActiveV2" THEN "V2"
                        ELSE classify_installer_storage)

DataRootIsKept == NoWriteLost /\ ClassifiedAsOpened
==============================================================================
