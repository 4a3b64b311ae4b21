------------------------ MODULE DurabilityRefinement ------------------------
(***************************************************************************)
(* What a client sees of Durability: the refinement mapping to             *)
(* DurableStore.  The history is read off the Commit records of the log,   *)
(* the view is the published DatabaseState.                                *)
(***************************************************************************)
EXTENDS Durability

\* The Commit records of the transactions that logged changes.
CommitLsns(w) == {i \in Lsns(w) : w[i].kind = "Commit" /\ Has(w, w[i].txn, "PageUpdate")}

\* The n-th smallest number of a set.
Nth(S, n) == CHOOSE i \in S : Cardinality({j \in S : j < i}) = n - 1

\* Their transactions in the order of these records, after the initial database.
HistoryOf(c, w) ==
    LET Owner(n) == IF n = 1 THEN 0 ELSE w[Nth(CommitLsns(w), n - 1)].txn
    IN  [n \in 1 .. Cardinality(CommitLsns(w)) + 1 |-> [txn |-> Owner(n), db |-> c[Owner(n)]]]

CommitHistory == HistoryOf(cands, wal)

NoDatabase == [cnt |-> 0, val |-> <<>>]

\* Readers are served the published state while the engine is up.
View == IF mode = "up" THEN mem ELSE NoDatabase

\* Transactions with changes are told from empty ones by their candidate: its
\* metadata page holds their own id.
Told == {t \in acked : cands[t].val[1] = t}

Store == INSTANCE DurableStore WITH
    Databases <- Db,
    Down      <- NoDatabase,
    history   <- CommitHistory,
    view      <- View,
    told      <- Told

\* The write-ahead log, the status document and the data file together are
\* one atomic, durable store: commits take effect one at a time and whole, a
\* crash takes back only commits no client was told of, and every restart
\* serves exactly what is left.
ImplementsDurableStore == Store!Spec
=============================================================================
