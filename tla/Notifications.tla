---------------------------- MODULE Notifications ----------------------------
(***************************************************************************)
(* NotificationBroker and NotificationTransactionState (ordadb-engine,     *)
(* contracts_and_engine.rs): LISTEN, UNLISTEN and NOTIFY are collected in  *)
(* the transaction and handed to the broker when it has committed; the     *)
(* broker copies each notification into the queue of every session that    *)
(* listens, and a session drains its queue when it wants to.  A queue has  *)
(* a limit (QueueLimit stands for both the entry and the byte limit); a    *)
(* session that passes it is told so by every later drain.                 *)
(*                                                                         *)
(* Each broker call holds the broker's mutex and is one step; the module   *)
(* has no Next of its own, Sessions calls its operations.                  *)
(***************************************************************************)
EXTENDS Naturals, Sequences, SequencesExt

CONSTANTS Clients, Channels, Payloads, QueueLimit

VARIABLES
    broker,     \* the registered sessions: [channels, queue, overflowed]
    pending,    \* NotificationTransactionState of a session's transaction
    owed,       \* ghost: what was sent on the channels a session listened to
    received    \* ghost: what drain has returned to it

brokerVars == <<broker, pending, owed, received>>

Unregistered == [channels |-> {}, queue |-> << >>, overflowed |-> FALSE, registered |-> FALSE]

NoPending == [listener_actions |-> << >>, notifications |-> << >>]

BrokerInit ==
    /\ broker = [c \in Clients |-> [Unregistered EXCEPT !.registered = TRUE]]
    /\ pending = [c \in Clients |-> NoPending]
    /\ owed = [c \in Clients |-> << >>]
    /\ received = [c \in Clients |-> << >>]

(***************************************************************************)
(* NotificationTransactionState: a repeated (channel, payload) of one      *)
(* transaction is sent once, where it was first asked for.                 *)
(***************************************************************************)
Listening(state, action) == [state EXCEPT !.listener_actions = Append(@, action)]

notify(state, channel, payload) ==
    IF Contains(state.notifications, <<channel, payload>>)
    THEN state
    ELSE [state EXCEPT !.notifications = Append(@, <<channel, payload>>)]

(***************************************************************************)
(* NotificationBroker::commit: first the listener actions of the sender,   *)
(* then every notification into every listening queue.                     *)
(***************************************************************************)
ApplyListen(channels, action) ==
    CASE action.kind = "listen"   -> channels \union {action.channel}
      [] action.kind = "unlisten" -> channels \ {action.channel}
      [] OTHER                    -> {}

Listens(state, client) ==
    FoldLeft(ApplyListen, broker[client].channels, state.listener_actions)

\* A broker that drops what does not fit without remembering it.
Enqueue_dropping(session, message) ==
    CASE message.channel \notin session.channels \/ session.overflowed -> session
      [] Len(session.queue) >= QueueLimit -> session
      [] OTHER -> [session EXCEPT !.queue = Append(@, message)]

\* push_back, or the overflow flag when the queue is full.
Enqueue(session, message) ==
    CASE message.channel \notin session.channels \/ session.overflowed -> session
      [] Len(session.queue) >= QueueLimit -> [session EXCEPT !.overflowed = TRUE]
      [] OTHER -> [session EXCEPT !.queue = Append(@, message)]

Messages(sender, state, commit) ==
    [i \in 1..Len(state.notifications) |->
        [from |-> sender, channel |-> state.notifications[i][1],
         payload |-> state.notifications[i][2], commit |-> commit]]

commit_notifications(sender, state, commit) ==
    LET messages == Messages(sender, state, commit)
        before(c) == IF c = sender /\ broker[c].registered
                     THEN [broker[c] EXCEPT !.channels = Listens(state, c)]
                     ELSE broker[c]
        heard(c)  == SelectSeq(messages, LAMBDA m : m.channel \in before(c).channels)
    IN /\ broker' = [c \in Clients |-> FoldLeft(Enqueue, before(c), messages)]
       /\ owed' = [c \in Clients |-> owed[c] \o heard(c)]
       /\ UNCHANGED received

(***************************************************************************)
(* NotificationBroker::drain: all that is queued, or the error of an       *)
(* overflowed session, which also empties the queue.                       *)
(***************************************************************************)
drain(c) ==
    /\ broker[c].registered
    /\ broker' = [broker EXCEPT ![c].queue = << >>]
    /\ received' = IF broker[c].overflowed
                   THEN received
                   ELSE [received EXCEPT ![c] = @ \o broker[c].queue]
    /\ UNCHANGED <<pending, owed>>

(***************************************************************************)
(* NotificationBroker::unregister, when the Session is dropped, and        *)
(* register for the connection that takes its place.                       *)
(***************************************************************************)
unregister(c) ==
    /\ broker[c].registered
    /\ broker' = [broker EXCEPT ![c] = Unregistered]
    /\ pending' = [pending EXCEPT ![c] = NoPending]
    /\ owed' = [owed EXCEPT ![c] = << >>]
    /\ received' = [received EXCEPT ![c] = << >>]

register(c) ==
    /\ ~broker[c].registered
    /\ broker' = [broker EXCEPT ![c].registered = TRUE]
    /\ UNCHANGED <<pending, owed, received>>

(***************************************************************************)
(* Properties.                                                             *)
(***************************************************************************)
\* What a session that has not overflowed has been given and will be given is
\* exactly what was sent on the channels it listened to, in that order, once
\* each; one that has overflowed was given a prefix and every drain tells it so
\* (broker commit and drain).
NoSilentLoss ==
    \A c \in Clients :
        LET given == received[c] \o broker[c].queue
        IN IF broker[c].overflowed THEN IsPrefix(received[c], owed[c])
                                   ELSE given = owed[c]
=============================================================================
