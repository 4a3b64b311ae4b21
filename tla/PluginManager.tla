---------------------------- MODULE PluginManager ----------------------------
(***************************************************************************)
(* PluginManager (ordadb-connectors, manager_parts): the versions of every *)
(* connector helper under the plugin root, the state document that says    *)
(* which of them is active, and its copy in memory.  Operations run as     *)
(* tasks of their own, at most one per plugin; a rollback is a call of the *)
(* desktop's main thread.  Each copies the state, stores the copy in the   *)
(* file and puts it in place in three steps.  A version stands for its     *)
(* signed manifest and executable.                                         *)
(***************************************************************************)
EXTENDS Naturals, FiniteSets

CONSTANTS
    Plugins,
    MaxVersion, MaxOperations, MaxRestarts   \* bounds

VARIABLES
    artifacts,   \* the version directories of each plugin
    staging,     \* the plugins of the operation directories under staging
    file,        \* the state document
    state,       \* PluginManager.state, or Closed
    operations,  \* what the task of a plugin's operation is doing, or NoOperation
    rollback,    \* what a call of rollback is doing, or NoOperation
    activation,  \* the plugins whose bundled version open has yet to activate
    registry,    \* the version the Registry offers
    bundled,     \* the version that comes with the program
    started, restarts,   \* bounds
    raced,       \* ghost: two copies of the state were under way at once
    promised     \* ghost: the version whose activation was reported last

pluginVars == <<artifacts, staging, file, state, operations, rollback, activation, registry,
                bundled, started, restarts, raced, promised>>

Version == 1..MaxVersion
NoVersion == 0
NoOperation == [pc |-> "none"]
Closed == << >>

\* InstalledPluginV1; a plugin that is not installed has no versions.
Installed(active, previous, versions) ==
    [active_version |-> active, previous_version |-> previous, versions |-> versions]
NotInstalled == Installed(NoVersion, NoVersion, {})

PluginInit ==
    /\ artifacts = [p \in Plugins |-> {}]
    /\ staging = {}
    /\ file = [p \in Plugins |-> NotInstalled]
    /\ state = Closed
    /\ operations = [p \in Plugins |-> NoOperation]
    /\ rollback = NoOperation
    /\ activation = {}
    /\ registry = [p \in Plugins |-> 1]
    /\ bundled = [p \in Plugins |-> 1]
    /\ started = 0 /\ restarts = 0 /\ raced = FALSE
    /\ promised = [p \in Plugins |-> NoVersion]

Open == state # Closed
IsInstalled(s, p) == s[p].versions # {}

\* verify_installed_version
Verified(p, v) == v \in artifacts[p]

\* A copy of the state that was made and is not yet in place.
Copies == {p \in Plugins : operations[p].pc \in {"persist", "replace"}}
Racing(p) == Copies \ {p} # {} \/ rollback # NoOperation

-----------------------------------------------------------------------------
(***************************************************************************)
(* open: clean the staging directory, load and check the state, activate   *)
(* the bundled connectors with one change of the state document.           *)
(***************************************************************************)
\* validate_persisted_state and verify_persisted_artifacts
Usable(s) ==
    \A p \in Plugins :
        IsInstalled(s, p) =>
            /\ s[p].active_version \in s[p].versions
            /\ s[p].previous_version \in s[p].versions \union {NoVersion}
            /\ \A v \in s[p].versions : Verified(p, v)

\* stage_and_activate_bundled: what it makes of a plugin.
WithBundled(plugin, v) ==
    IF plugin = NotInstalled THEN Installed(v, NoVersion, {v})
    ELSE IF v > plugin.active_version
         THEN Installed(v, plugin.active_version, plugin.versions \union {v})
         ELSE [plugin EXCEPT !.versions = @ \union {v}]

open ==
    /\ ~Open /\ activation = {}
    /\ Usable(file)
    /\ staging' = {}
    /\ activation' = Plugins
    /\ UNCHANGED <<artifacts, file, state, operations, rollback, registry, bundled, started,
                   restarts, raced, promised>>

\* One version directory is renamed into place, or the one that is there passes.
stage_and_activate_bundled(p) ==
    /\ p \in activation
    /\ Cardinality(activation) > 1
    /\ artifacts' = [artifacts EXCEPT ![p] = @ \union {bundled[p]}]
    /\ activation' = activation \ {p}
    /\ UNCHANGED <<staging, file, state, operations, rollback, registry, bundled, started,
                   restarts, raced, promised>>

\* The last one, and then the state document.
activate_bundled_connectors(p) ==
    /\ activation = {p}
    /\ artifacts' = [artifacts EXCEPT ![p] = @ \union {bundled[p]}]
    /\ file' = [q \in Plugins |-> WithBundled(file[q], bundled[q])]
    /\ state' = file'
    /\ promised' = [q \in Plugins |-> file'[q].active_version]
    /\ activation' = {}
    /\ UNCHANGED <<staging, operations, rollback, registry, bundled, started, restarts, raced>>

-----------------------------------------------------------------------------
(***************************************************************************)
(* The task of one operation.                                              *)
(***************************************************************************)
Task(p, pc) == operations' = [operations EXCEPT ![p].pc = pc]

\* The end of an operation: its directory is gone, it is deregistered.
Ended(p) ==
    /\ operations' = [operations EXCEPT ![p] = NoOperation]
    /\ staging' = staging \ {p}

start_operation(p, kind) ==
    /\ Open /\ started < MaxOperations
    /\ operations[p] = NoOperation
    /\ operations' = [operations EXCEPT ![p] = [pc |-> "resolve", kind |-> kind, version |-> 0,
                                                copy |-> NotInstalled, cancelled |-> FALSE]]
    /\ started' = started + 1
    /\ UNCHANGED <<artifacts, staging, file, state, rollback, activation, registry, bundled,
                   restarts, raced, promised>>

cancel(p) ==
    /\ operations[p].pc \in {"resolve", "download"} /\ ~operations[p].cancelled
    /\ operations' = [operations EXCEPT ![p].cancelled = TRUE]
    /\ UNCHANGED <<artifacts, staging, file, state, rollback, activation, registry, bundled,
                   started, restarts, raced, promised>>

\* validate_operation
Allowed(kind, p, v) ==
    IF kind = "Update" THEN IsInstalled(state, p) /\ v > state[p].active_version
    ELSE state[p].active_version # v

\* The catalog may also be an answer that is older than the Registry is now.
resolve(p) ==
    /\ operations[p].pc = "resolve" /\ ~operations[p].cancelled
    /\ \E v \in 1..registry[p] :
           /\ Allowed(operations[p].kind, p, v)
           /\ operations' = [operations EXCEPT ![p].pc = "download", ![p].version = v]
    /\ staging' = staging \union {p}
    /\ UNCHANGED <<artifacts, file, state, rollback, activation, registry, bundled, started,
                   restarts, raced, promised>>

\* The download arrives, has its size and its hash, and nobody has cancelled.
download(p) ==
    /\ operations[p].pc = "download" /\ ~operations[p].cancelled
    /\ Task(p, "install")
    /\ UNCHANGED <<artifacts, staging, file, state, rollback, activation, registry, bundled,
                   started, restarts, raced, promised>>

\* The directory is renamed into place, or removed because the version is there.
install_version(p) ==
    /\ operations[p].pc = "install"
    /\ artifacts' = [artifacts EXCEPT ![p] = @ \union {operations[p].version}]
    /\ staging' = staging \ {p}
    /\ Task(p, "copy")
    /\ UNCHANGED <<file, state, rollback, activation, registry, bundled, started, restarts, raced,
                   promised>>

\* Mutant: the version that was active is not kept.
WithActive_forgets(plugin, v) ==
    Installed(v, plugin.active_version, {v})

WithActive(plugin, v) ==
    Installed(v,
              IF plugin.active_version = v THEN plugin.previous_version
              ELSE plugin.active_version,
              plugin.versions \union {v})

copy(p) ==
    /\ operations[p].pc = "copy"
    /\ operations' = [operations EXCEPT
                          ![p].pc = "persist",
                          ![p].copy = [state EXCEPT ![p] = WithActive(@, operations[p].version)]]
    /\ raced' = (raced \/ Racing(p))
    /\ UNCHANGED <<artifacts, staging, file, state, rollback, activation, registry, bundled,
                   started, restarts, promised>>

persist(p) ==
    /\ operations[p].pc = "persist"
    /\ file' = operations[p].copy
    /\ Task(p, "replace")
    /\ UNCHANGED <<artifacts, staging, state, rollback, activation, registry, bundled, started,
                   restarts, raced, promised>>

\* The state in memory is replaced, and the operation is Complete.
replace(p) ==
    /\ operations[p].pc = "replace"
    /\ state' = operations[p].copy
    /\ promised' = [promised EXCEPT ![p] = operations[p].version]
    /\ Ended(p)
    /\ UNCHANGED <<artifacts, file, rollback, activation, registry, bundled, started, restarts,
                   raced>>

\* Cancelled or Failed: no answer, nothing to do, a download that is cut short or
\* does not match its manifest, a file that cannot be written.
fail(p) ==
    /\ operations[p].pc \in {"resolve", "download", "install", "copy", "persist"}
    /\ Ended(p)
    /\ UNCHANGED <<artifacts, file, state, rollback, activation, registry, bundled, started,
                   restarts, raced, promised>>

-----------------------------------------------------------------------------
(***************************************************************************)
(* rollback, which is no operation and excludes none.                      *)
(***************************************************************************)
rollback_copy(p) ==
    /\ Open /\ rollback = NoOperation /\ started < MaxOperations
    /\ IsInstalled(state, p)
    /\ state[p].previous_version # NoVersion
    /\ Verified(p, state[p].previous_version)
    /\ rollback' = [pc |-> "persist", plugin |-> p,
                    copy |-> [state EXCEPT ![p].active_version = state[p].previous_version,
                                           ![p].previous_version = state[p].active_version]]
    /\ started' = started + 1
    /\ raced' = (raced \/ Copies # {})
    /\ UNCHANGED <<artifacts, staging, file, state, operations, activation, registry, bundled,
                   restarts, promised>>

\* Or the file cannot be replaced, and rollback returns the error.
rollback_persist ==
    /\ rollback.pc = "persist"
    /\ \/ file' = rollback.copy /\ rollback' = [rollback EXCEPT !.pc = "replace"]
       \/ rollback' = NoOperation /\ UNCHANGED file
    /\ UNCHANGED <<artifacts, staging, state, operations, activation, registry, bundled, started,
                   restarts, raced, promised>>

rollback_replace ==
    /\ rollback.pc = "replace"
    /\ state' = rollback.copy
    /\ promised' = [promised EXCEPT ![rollback.plugin] =
                        rollback.copy[rollback.plugin].active_version]
    /\ rollback' = NoOperation
    /\ UNCHANGED <<artifacts, staging, file, operations, activation, registry, bundled, started,
                   restarts, raced>>

-----------------------------------------------------------------------------
\* The program ends, at any point; the next one may come with newer helpers.
restart ==
    /\ Open \/ activation # {}
    /\ restarts < MaxRestarts
    /\ restarts' = restarts + 1
    /\ state' = Closed
    /\ operations' = [p \in Plugins |-> NoOperation]
    /\ rollback' = NoOperation
    /\ activation' = {}
    /\ raced' = FALSE
    /\ promised' = [p \in Plugins |->
                        IF raced \/ p \in Copies \/ (rollback # NoOperation /\ rollback.plugin = p)
                        THEN file[p].active_version ELSE promised[p]]
    /\ \E p \in Plugins : bundled' = [bundled EXCEPT ![p] = IF @ < MaxVersion THEN @ + 1 ELSE @]
    /\ UNCHANGED <<artifacts, staging, file, registry, started>>

publish(p) ==
    /\ registry[p] < MaxVersion
    /\ registry' = [registry EXCEPT ![p] = @ + 1]
    /\ UNCHANGED <<artifacts, staging, file, state, operations, rollback, activation, bundled,
                   started, restarts, raced, promised>>

PluginNext ==
    \/ open
    \/ restart
    \/ rollback_persist \/ rollback_replace
    \/ \E p \in Plugins :
           \/ stage_and_activate_bundled(p) \/ activate_bundled_connectors(p)
           \/ \E kind \in {"Install", "Update"} : start_operation(p, kind)
           \/ cancel(p) \/ resolve(p) \/ download(p) \/ install_version(p) \/ copy(p) \/ persist(p)
           \/ replace(p) \/ fail(p) \/ rollback_copy(p) \/ publish(p)

PluginSpec == PluginInit /\ [][PluginNext]_pluginVars

-----------------------------------------------------------------------------
\* Whatever was interrupted, the state document names only versions that are
\* complete on disk, so that the next start accepts it.
StartsAgain == Usable(file)

\* What was reported active is active, in memory and after a restart, until
\* another call for the same plugin changes it, unless two copies of the state
\* were under way at once.  A call that was interrupted has happened or has not.
ReportedIsActive ==
    ~raced =>
        \A p \in Plugins :
            /\ Open => state[p].active_version = promised[p]
            /\ \/ file[p].active_version = promised[p]
               \/ operations[p].pc = "replace"
               \/ rollback.pc = "replace" /\ rollback.plugin = p

HelpersAreKept == StartsAgain /\ ReportedIsActive
=============================================================================
