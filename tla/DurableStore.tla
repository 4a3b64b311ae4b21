---------------------------- MODULE DurableStore ----------------------------
(***************************************************************************)
(* What a client of one OrdaDB database may rely on, with no log, no pages *)
(* and no status document: committed transactions form a history, each     *)
(* with the whole database it produced; a client is told of a commit after *)
(* it entered the history; a crash may cut off the commits no client was   *)
(* told of, and nothing else; a restart serves the end of the history.     *)
(***************************************************************************)
EXTENDS Sequences, Integers

CONSTANTS
    Txns,      \* the transactions that change the database
    Databases, \* the databases there can be
    Down       \* what the service shows while it is down

VARIABLES
    history,   \* sequence of [txn, db]; the first entry is the initial database
    view,      \* the database the service shows, or Down
    told       \* transactions whose client got an answer

vars == <<history, view, told>>

Entry == [txn : Txns \cup {0}, db : Databases]

Committed(h) == {h[i].txn : i \in 1 .. Len(h)}
Last(h) == h[Len(h)]

Init ==
    /\ \E d \in Databases : history = <<[txn |-> 0, db |-> d]>> /\ view = d
    /\ told = {}

\* A transaction enters the history at one point; whoever reads still sees
\* the database before it.
Commit(t) ==
    /\ view # Down /\ view = Last(history).db
    /\ t \notin Committed(history)
    /\ \E d \in Databases : history' = Append(history, [txn |-> t, db |-> d])
    /\ UNCHANGED <<view, told>>

\* The commit becomes visible and its client is answered.
Answer(t) ==
    /\ view # Down /\ Last(history).txn = t /\ t \notin told
    /\ view' = Last(history).db
    /\ told' = told \cup {t}
    /\ UNCHANGED history

\* A crash keeps every commit a client was told of.
Crash ==
    /\ view' = Down
    /\ \E n \in 1 .. Len(history) :
          /\ history' = SubSeq(history, 1, n)
          /\ told \subseteq Committed(history')
    /\ UNCHANGED told

Restart ==
    /\ view = Down
    /\ view' = Last(history).db
    /\ UNCHANGED <<history, told>>

Next ==
    \/ \E t \in Txns : Commit(t) \/ Answer(t)
    \/ Crash \/ Restart

Spec == Init /\ [][Next]_vars
=============================================================================
