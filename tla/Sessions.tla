------------------------------- MODULE Sessions -------------------------------
(***************************************************************************)
(* How sessions of one database share it (ordadb-engine): the RwLock of    *)
(* the published state, the storage access gate (StorageGate) and the      *)
(* notification broker (Notifications).                                    *)
(*                                                                         *)
(* An autocommit SELECT of a table copies the published state, takes a     *)
(* read lease, opens a cursor on the generation it copied, and gives the   *)
(* client a stream that keeps the lease until it is exhausted, fails or is *)
(* dropped.  A commit takes the write lock of the published state and,     *)
(* holding it, the write lease; it rewrites pages, publishes the next      *)
(* generation, releases both, may take a checkpoint (which reads the       *)
(* published state), and only then hands its notifications to the broker.  *)
(*                                                                         *)
(* A gate thread is a session's statement, <<s, "statement">>, or the      *)
(* stream it has given to its client, <<s, "stream">>.                     *)
(***************************************************************************)
EXTENDS StorageGate, Notifications

CONSTANTS
    Talkers,     \* the clients that use LISTEN and NOTIFY, and reconnect
    MaxRequests, \* bound: statements the clients send in a behaviour
    MaxFailures, \* bound: commits, checkpoints and connections that fail
    OpenStreams  \* TRUE: a client may run a statement while its stream is open
                 \* (a suspended portal); FALSE: it drains the stream first

ASSUME SessionsAssumption ==
    /\ Threads = Clients \X {"statement", "stream"}
    /\ Talkers \subseteq Clients /\ MaxRequests \in Nat /\ MaxFailures \in Nat /\ OpenStreams \in BOOLEAN

VARIABLES
    pc,         \* what a session's thread is doing
    state_lock, \* the session that holds state.write(), or Nobody
    generation, \* DatabaseState.generation, which is also the data file's
    snapshot,   \* the generation a SELECT copied, while it opens and streams
    committed,  \* ghost: the transactions a session has committed
    failures,
    requests

sessionVars == <<pc, state_lock, generation, snapshot, committed, failures, requests>>
vars == <<sessionVars, gateVars, brokerVars>>

CONSTANT Nobody

Statement(s) == <<s, "statement">>
Stream(s)    == <<s, "stream">>

Init ==
    /\ GateInit
    /\ BrokerInit
    /\ pc = [s \in Clients |-> "idle"]
    /\ state_lock = Nobody
    /\ generation = 0
    /\ snapshot = [s \in Clients |-> 0]
    /\ committed = [s \in Clients |-> 0]
    /\ failures = 0 /\ requests = 0

Become(s, phase) == pc' = [pc EXCEPT ![s] = phase]

\* The session's thread is free for the next statement of its client.
Ready(s) ==
    /\ pc[s] = "idle"
    /\ broker[s].registered
    /\ OpenStreams \/ at[Stream(s)] = "out"

\* The client sends another statement.
Send(s) == Ready(s) /\ requests < MaxRequests /\ requests' = requests + 1

Fail == failures < MaxFailures /\ failures' = failures + 1

(***************************************************************************)
(* An autocommit SELECT.                                                   *)
(***************************************************************************)
\* committed_snapshot: state.read(), which waits while a commit holds the lock.
select(s) ==
    /\ Send(s) /\ at[Stream(s)] = "out"
    /\ state_lock = Nobody
    /\ snapshot' = [snapshot EXCEPT ![s] = generation]
    /\ Become(s, "opening")
    /\ UNCHANGED <<gateVars, brokerVars, state_lock, generation, committed, failures>>

take_read_lease(s) ==
    /\ pc[s] = "opening"
    /\ acquire_read(Stream(s)) \/ read_woken(Stream(s))
    /\ UNCHANGED <<sessionVars, brokerVars>>

\* A provider that does not compare the generations.
open_cursor_unchecked(s) ==
    /\ pc[s] = "opening" /\ at[Stream(s)] = "reading"
    /\ Become(s, "idle")
    /\ UNCHANGED <<gateVars, brokerVars, state_lock, generation, snapshot, committed, failures, requests>>

\* open_table_cursor_v2: a cursor on a generation that is no longer the file's is
\* refused, and the lease goes back.
open_cursor(s) ==
    /\ pc[s] = "opening" /\ at[Stream(s)] = "reading"
    /\ Become(s, "idle")
    /\ IF snapshot[s] = generation THEN UNCHANGED gateVars
                                   ELSE drop_read(Stream(s))
    /\ UNCHANGED <<brokerVars, state_lock, generation, snapshot, committed, failures, requests>>

\* The stream is exhausted, fails or is dropped.
close_stream(s) ==
    /\ pc[s] # "opening"
    /\ pc[s] = "idle" \* a thread that waits for its own lease reads no further
    /\ drop_read(Stream(s))
    /\ UNCHANGED <<sessionVars, brokerVars>>

(***************************************************************************)
(* A transaction that wrote something commits: autocommit or COMMIT.       *)
(***************************************************************************)
\* LISTEN, UNLISTEN and NOTIFY before the commit.
collect(s) ==
    /\ s \in Talkers /\ Send(s)
    /\ \/ \E kind \in {"listen", "unlisten"}, channel \in Channels :
             pending' = [pending EXCEPT ![s] = Listening(@, [kind |-> kind, channel |-> channel])]
       \/ \E channel \in Channels, payload \in Payloads :
             pending' = [pending EXCEPT ![s] = notify(@, channel, payload)]
    /\ UNCHANGED <<gateVars, pc, state_lock, generation, snapshot, committed, failures,
                   broker, owed, received>>

\* ROLLBACK of the transaction, or of a savepoint set before it collected anything.
rollback(s) ==
    /\ Send(s) /\ pending[s] # NoPending
    /\ pending' = [pending EXCEPT ![s] = NoPending]
    /\ UNCHANGED <<gateVars, pc, state_lock, generation, snapshot, committed, failures,
                   broker, owed, received>>

commit_begins(s) ==
    /\ Send(s)
    /\ Become(s, "commit_state")
    /\ UNCHANGED <<gateVars, brokerVars, state_lock, generation, snapshot, committed, failures>>

\* A transaction that wrote no row: commit_empty, and straight to the broker.
commit_empty(s) ==
    /\ Send(s) /\ pending[s] # NoPending
    /\ committed' = [committed EXCEPT ![s] = @ + 1]
    /\ Become(s, "notify")
    /\ UNCHANGED <<gateVars, brokerVars, state_lock, generation, snapshot, failures>>

\* self.state.write().
lock_state(s) ==
    /\ pc[s] = "commit_state" /\ state_lock = Nobody
    /\ state_lock' = s
    /\ Become(s, "commit_gate")
    /\ UNCHANGED <<gateVars, brokerVars, generation, snapshot, committed, failures, requests>>

take_write_lease(s) ==
    /\ pc[s] = "commit_gate"
    /\ acquire_write(Statement(s)) \/ write_woken(Statement(s))
    /\ UNCHANGED <<sessionVars, brokerVars>>

\* persist_candidate with the lease: it publishes the next generation, or fails
\* before it did; the lease is dropped at its end, the state lock after it.
persist_candidate(s) ==
    /\ pc[s] = "commit_gate" /\ at[Statement(s)] = "writing"
    /\ drop_write(Statement(s))
    /\ \/ /\ generation' = generation + 1
          /\ committed' = [committed EXCEPT ![s] = @ + 1]
          /\ Become(s, "persisted")
          /\ UNCHANGED <<brokerVars, state_lock, failures>>
       \/ /\ Fail
          /\ Become(s, "idle")
          /\ state_lock' = Nobody
          /\ pending' = [pending EXCEPT ![s] = NoPending]
          /\ UNCHANGED <<generation, committed, broker, owed, received>>
    /\ UNCHANGED <<snapshot, requests>>

\* drop(state), locks.clear(), drop(lease); the checkpoint is due or not.
unlock_state(s) ==
    /\ pc[s] = "persisted"
    /\ state_lock' = Nobody
    /\ Become(s, "checkpoint") \/ Become(s, "notify")
    /\ UNCHANGED <<gateVars, brokerVars, generation, snapshot, committed, failures, requests>>

\* record_commit_and_maybe_checkpoint: checkpoint_shared reads the published
\* state; an error returns from COMMIT before the broker is called.
checkpoint(s) ==
    /\ pc[s] = "checkpoint" /\ state_lock = Nobody
    /\ \/ Become(s, "notify") /\ UNCHANGED <<pending, failures>>
       \/ Fail /\ Become(s, "idle") /\ pending' = [pending EXCEPT ![s] = NoPending]
    /\ UNCHANGED <<gateVars, broker, owed, received, state_lock, generation, snapshot, committed, requests>>

hand_over(s) ==
    /\ pc[s] = "notify"
    /\ commit_notifications(s, pending[s], committed[s])
    /\ pending' = [pending EXCEPT ![s] = NoPending]
    /\ Become(s, "idle")
    /\ UNCHANGED <<gateVars, state_lock, generation, snapshot, committed, failures, requests>>

(***************************************************************************)
(* Between statements: the server drains the queue for the client, and a   *)
(* connection may end and another one begin.                               *)
(***************************************************************************)
deliver(s) ==
    /\ pc[s] = "idle"
    /\ broker[s].queue # << >> \/ broker[s].overflowed
    /\ drain(s)
    /\ UNCHANGED <<gateVars, sessionVars>>

\* Dropping the connection drops its streams and its Session.
disconnect(s) ==
    /\ s \in Talkers /\ pc[s] = "idle" /\ at[Stream(s)] = "out"
    /\ Fail
    /\ unregister(s)
    /\ UNCHANGED <<gateVars, pc, state_lock, generation, snapshot, committed, requests>>

connect(s) ==
    /\ pc[s] = "idle"
    /\ register(s)
    /\ UNCHANGED <<gateVars, sessionVars>>

\* A step of the session's own thread, which the operating system runs.
Run(s) ==
    \/ take_read_lease(s) \/ open_cursor(s)
    \/ lock_state(s) \/ take_write_lease(s) \/ persist_candidate(s)
    \/ unlock_state(s) \/ checkpoint(s) \/ hand_over(s)

\* A request of its client.
Request(s) ==
    \/ select(s) \/ close_stream(s)
    \/ collect(s) \/ rollback(s) \/ commit_begins(s) \/ commit_empty(s)
    \/ deliver(s) \/ disconnect(s) \/ connect(s)

\* Every request has been made and answered.
Finished ==
    /\ \A s \in Clients : pc[s] = "idle"
    /\ UNCHANGED vars

Next == (\E s \in Clients : Run(s) \/ Request(s)) \/ Finished

\* Threads run, and a client that has asked for rows reads or drops them.
Fairness == \A s \in Clients : WF_vars(Run(s)) /\ WF_vars(close_stream(s))

Spec == Init /\ [][Next]_vars /\ Fairness

(***************************************************************************)
(* Properties.                                                             *)
(***************************************************************************)
\* While a client reads a stream, the data file is the generation the stream
\* was opened on: neither a commit that was waiting nor one that came between the
\* copy of the state and the lease has rewritten its pages (open_cursor, the
\* gate and the order of the two in persist_candidate).
StreamsAreStable ==
    \A s \in Clients :
        (at[Stream(s)] = "reading" /\ pc[s] # "opening") => snapshot[s] = generation

\* A notification is only ever sent by a transaction that committed, once: the
\* messages a session is owed from one sender carry the numbers of commits of that
\* sender, in order, and a message is not repeated within a commit.
NotificationsOfCommits ==
    \A c \in Clients :
        /\ \A i \in DOMAIN owed[c] : owed[c][i].commit \in 1..committed[owed[c][i].from]
        /\ \A i, j \in DOMAIN owed[c] :
               i < j /\ owed[c][i].from = owed[c][j].from =>
                   /\ owed[c][i].commit <= owed[c][j].commit
                   /\ owed[c][i] # owed[c][j]

\* What sessions are sent is what was committed, all of it or a warning.
NotificationsArrive == NotificationsOfCommits /\ NoSilentLoss

\* Every commit that starts ends: it gets the state lock and the write lease,
\* past readers and other writers.
CommitsEnd == \A s \in Clients : pc[s] # "idle" ~> pc[s] = "idle"
=============================================================================
