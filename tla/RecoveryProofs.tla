--------------------------- MODULE RecoveryProofs ---------------------------
(***************************************************************************)
(* Proofs that recovery is right: whatever crashed before and whichever    *)
(* checkpoints ran, a restart succeeds and serves the database of the last *)
(* committed transaction.                                                  *)
(*                                                                         *)
(* The argument reads the log as a function of its prefixes.  At(w, p, m)  *)
(* is the image of page p that redoing the first m records leaves, Author  *)
(* the last winner among them, and Sane(c, w, m) says what undoing what is *)
(* open would give.  A power loss leaves a prefix, so nothing of this has  *)
(* to be shown again for it.  The data file then only has to be related to *)
(* the log: every version a crash may leave is an image of the log, and    *)
(* redo starts early enough to replace it (Kept, Covered).                 *)
(***************************************************************************)
EXTENDS DurabilityProofs, DurabilityRefinement

(***************************************************************************)
(* What a prefix of the log says.                                          *)
(***************************************************************************)
\* The page count of every database: growing files are left to the model checker.
Size == CHOOSE n \in PageCounts : TRUE

\* A page that no record has changed.
Blank(p) == IF p <= Size THEN [lsn |-> 0, val |-> 0] ELSE NoPage

\* The records that change a page, the last of them, and the image it leaves
\* (redo_record).
Recs(w, p, m) == {i \in 1 .. m : IsPageRecord(w[i]) /\ w[i].page = p}
LastRec(w, p, m) == Max({0} \cup Recs(w, p, m))
Img(r) == IF r.kind = "PageUpdate" THEN r.after ELSE r.undo
At(w, p, m) == IF LastRec(w, p, m) = 0 THEN Blank(p) ELSE Img(w[LastRec(w, p, m)])

\* What the first m records say of a transaction (analyze).
Updates(w, m, t) == {i \in 1 .. m : w[i].kind = "PageUpdate" /\ w[i].txn = t}
Ended(w, m, t) == \E i \in 1 .. m : IsTerminal(w[i]) /\ w[i].txn = t
Open(w, m, t) == Updates(w, m, t) # {} /\ ~Ended(w, m, t)
Winners(w, m) == {i \in 1 .. m : w[i].kind = "Commit" /\ Updates(w, i, w[i].txn) # {}}
LastWinner(w, m) == Max({0} \cup Winners(w, m))
Author(w, m) == IF LastWinner(w, m) = 0 THEN 0 ELSE w[LastWinner(w, m)].txn

\* Every page that t has changed after q has been put back.
Undone(w, t, q, m) ==
    \A i \in Updates(w, m, t) : i > q =>
        \E k \in i + 1 .. m : w[k].kind = "Compensation" /\ w[k].page = w[i].page

\* The last of a set of positions, 0 when there is none.
LEMMA LastFacts ==
    ASSUME NEW m \in Nat, NEW S, S \subseteq 1 .. m
    PROVE  /\ Max({0} \cup S) \in 0 .. m
           /\ Max({0} \cup S) # 0 => Max({0} \cup S) \in S
           /\ \A i \in S : i <= Max({0} \cup S)
           /\ S # {} => Max({0} \cup S) # 0
<1>. DEFINE T == {0} \cup S
<1>1. T \subseteq 0 .. m /\ T # {}
  OBVIOUS
<1>2. Max(T) \in T /\ \A y \in T : Max(T) >= y
  BY <1>1, MaxFacts
<1>. DEFINE x == Max(T)
<1>3. x \in T /\ \A y \in T : x >= y
  BY <1>2
<1>. HIDE DEF x
<1>4. x \in 0 .. m /\ (x # 0 => x \in S)
  BY <1>1, <1>3
<1>5. \A i \in S : i \in 1 .. m /\ i <= x
  BY <1>3
<1>6. S # {} => x # 0
  <2>1. \A i \in S : x # 0
    BY <1>4, <1>5
  <2>. QED
    BY <2>1
<1>. QED
  BY <1>4, <1>5, <1>6 DEF x

\* The largest element of a bounded set of lsns.
LEMMA LastIs ==
    ASSUME NEW m \in Nat, NEW S, S \subseteq 1 .. m, NEW k, k \in S, \A i \in S : i <= k
    PROVE  Max({0} \cup S) = k
<1>1. /\ Max({0} \cup S) \in 0 .. m
      /\ Max({0} \cup S) # 0 => Max({0} \cup S) \in S
      /\ \A i \in S : i <= Max({0} \cup S)
  BY LastFacts
<1>. QED
  BY <1>1

\* The record that decides what redo leaves of a page.
LEMMA LastRecFacts ==
    ASSUME NEW w, NEW p, NEW m \in Nat
    PROVE  /\ LastRec(w, p, m) \in 0 .. m
           /\ LastRec(w, p, m) # 0 => LastRec(w, p, m) \in Recs(w, p, m)
           /\ \A i \in Recs(w, p, m) : i <= LastRec(w, p, m)
           /\ Recs(w, p, m) # {} => LastRec(w, p, m) # 0
<1>1. Recs(w, p, m) \subseteq 1 .. m
  BY DEF Recs
<1>. QED
  BY <1>1, LastFacts DEF LastRec

\* The last record of a page is the one no other record of it follows.
LEMMA LastRecIs ==
    ASSUME NEW w, NEW p, NEW m \in Nat, NEW k \in Recs(w, p, m), \A i \in Recs(w, p, m) : i <= k
    PROVE  LastRec(w, p, m) = k
<1>1. Recs(w, p, m) \subseteq 1 .. m
  BY DEF Recs
<1>. QED
  BY <1>1, LastIs DEF LastRec

\* A longer prefix has the same last record of a page, or a later one.
LEMMA LastRecGrows ==
    ASSUME NEW w, NEW p, NEW m \in Nat, NEW n \in Nat, m <= n
    PROVE  /\ LastRec(w, p, m) <= LastRec(w, p, n)
           /\ LastRec(w, p, n) <= m => LastRec(w, p, n) = LastRec(w, p, m)
           /\ \A k \in Nat : LastRec(w, p, n) <= k /\ k <= n => LastRec(w, p, k) = LastRec(w, p, n)
<1>1. ASSUME NEW a \in Nat, NEW b \in Nat, a <= b
      PROVE  LastRec(w, p, a) <= LastRec(w, p, b)
             /\ (LastRec(w, p, b) <= a => LastRec(w, p, b) = LastRec(w, p, a))
  <2>1. Recs(w, p, a) \subseteq Recs(w, p, b)
    BY <1>1 DEF Recs
  <2>2. /\ LastRec(w, p, a) \in 0 .. a
        /\ LastRec(w, p, a) # 0 => LastRec(w, p, a) \in Recs(w, p, a)
        /\ \A i \in Recs(w, p, a) : i <= LastRec(w, p, a)
    BY LastRecFacts
  <2>3. /\ LastRec(w, p, b) \in 0 .. b
        /\ LastRec(w, p, b) # 0 => LastRec(w, p, b) \in Recs(w, p, b)
        /\ \A i \in Recs(w, p, b) : i <= LastRec(w, p, b)
    BY LastRecFacts
  <2>4. LastRec(w, p, a) <= LastRec(w, p, b)
    BY <2>1, <2>2, <2>3
  <2>5. ASSUME LastRec(w, p, b) <= a, LastRec(w, p, b) # 0
        PROVE  LastRec(w, p, b) \in Recs(w, p, a)
    BY <1>1, <2>3, <2>5 DEF Recs
  <2>. QED
    BY <2>2, <2>3, <2>4, <2>5
<1>2. \A k \in Nat : LastRec(w, p, n) <= k /\ k <= n => LastRec(w, p, k) = LastRec(w, p, n)
  BY <1>1
<1>. QED
  BY <1>1, <1>2

\* What is read off the first m records depends on them only.
LEMMA SamePrefix ==
    ASSUME NEW w, NEW u, NEW m \in Nat, \A i \in 1 .. m : u[i] = w[i]
    PROVE  /\ \A p : Recs(u, p, m) = Recs(w, p, m) /\ LastRec(u, p, m) = LastRec(w, p, m)
                     /\ At(u, p, m) = At(w, p, m)
           /\ \A t : Updates(u, m, t) = Updates(w, m, t) /\ (Ended(u, m, t) <=> Ended(w, m, t))
                     /\ (Open(u, m, t) <=> Open(w, m, t))
           /\ LastWinner(u, m) = LastWinner(w, m) /\ Author(u, m) = Author(w, m)
           /\ \A t, q : Undone(u, t, q, m) <=> Undone(w, t, q, m)
<1>1. ASSUME NEW p
      PROVE  Recs(u, p, m) = Recs(w, p, m) /\ LastRec(u, p, m) = LastRec(w, p, m)
             /\ At(u, p, m) = At(w, p, m)
  <2>1. Recs(u, p, m) = Recs(w, p, m)
    BY DEF Recs
  <2>2. LastRec(u, p, m) = LastRec(w, p, m)
    BY <2>1 DEF LastRec
  <2>3. LastRec(w, p, m) # 0 => LastRec(w, p, m) \in 1 .. m
    BY LastRecFacts DEF Recs
  <2>. QED
    BY <2>1, <2>2, <2>3 DEF At
<1>2. ASSUME NEW t
      PROVE  Updates(u, m, t) = Updates(w, m, t) /\ (Ended(u, m, t) <=> Ended(w, m, t))
             /\ (Open(u, m, t) <=> Open(w, m, t))
  <2>1. Updates(u, m, t) = Updates(w, m, t)
    BY DEF Updates
  <2>2. Ended(u, m, t) <=> Ended(w, m, t)
    BY DEF Ended
  <2>. QED
    BY <2>1, <2>2 DEF Open
<1>3. Winners(u, m) = Winners(w, m)
  <2>1. \A i \in 1 .. m : \A t : Updates(u, i, t) = Updates(w, i, t)
    BY DEF Updates
  <2>. QED
    BY <2>1 DEF Winners
<1>4. LastWinner(u, m) = LastWinner(w, m)
  BY <1>3 DEF LastWinner
<1>5. LastWinner(w, m) # 0 => LastWinner(w, m) \in 1 .. m
  <2>1. Winners(w, m) \subseteq 1 .. m
    BY DEF Winners
  <2>. QED
    BY <2>1, LastFacts DEF LastWinner
<1>6. Author(u, m) = Author(w, m)
  BY <1>4, <1>5 DEF Author
<1>7. ASSUME NEW t, NEW q
      PROVE  Undone(u, t, q, m) <=> Undone(w, t, q, m)
  <2>1. \A i \in Updates(w, m, t) : i \in 1 .. m
    BY DEF Updates
  <2>2. \A i \in 1 .. m : \A k \in i + 1 .. m : k \in 1 .. m
    OBVIOUS
  <2>. QED
    BY <1>2, <2>1, <2>2 DEF Undone
<1>. QED
  BY <1>1, <1>2, <1>4, <1>6, <1>7

(***************************************************************************)
(* One more record.                                                        *)
(***************************************************************************)
\* A record is the last of its page, and says nothing of the other pages.
LEMMA AppendReads ==
    ASSUME NEW w \in Seq(Records), NEW r \in Records
    PROVE  /\ \A p : IsPageRecord(r) /\ r.page = p =>
                 /\ LastRec(Append(w, r), p, Len(w) + 1) = Len(w) + 1
                 /\ At(Append(w, r), p, Len(w) + 1) = Img(r)
           /\ \A p : ~(IsPageRecord(r) /\ r.page = p) =>
                 /\ LastRec(Append(w, r), p, Len(w) + 1) = LastRec(w, p, Len(w))
                 /\ At(Append(w, r), p, Len(w) + 1) = At(w, p, Len(w))
           /\ \A t : r.kind = "PageUpdate" /\ r.txn = t =>
                        Updates(Append(w, r), Len(w) + 1, t) = Updates(w, Len(w), t) \cup {Len(w) + 1}
           /\ \A t : ~(r.kind = "PageUpdate" /\ r.txn = t) =>
                        Updates(Append(w, r), Len(w) + 1, t) = Updates(w, Len(w), t)
           /\ \A t : Ended(Append(w, r), Len(w) + 1, t)
                        <=> Ended(w, Len(w), t) \/ (IsTerminal(r) /\ r.txn = t)
           /\ r.kind = "Commit" /\ Updates(w, Len(w), r.txn) # {}
                  => Author(Append(w, r), Len(w) + 1) = r.txn
           /\ ~(r.kind = "Commit" /\ Updates(w, Len(w), r.txn) # {})
                  => Author(Append(w, r), Len(w) + 1) = Author(w, Len(w))
<1>. DEFINE u == Append(w, r)
            n == Len(w)
<1>1. n \in Nat /\ u[n + 1] = r /\ \A i \in 1 .. n : u[i] = w[i]
  BY AppendFacts DEF Lsns
<1>. HIDE DEF u, n
<1>2. 1 .. n + 1 = (1 .. n) \cup {n + 1} /\ n + 1 \notin 1 .. n
  BY <1>1
<1>3. ASSUME NEW p
      PROVE  /\ LastRec(u, p, n + 1) = IF IsPageRecord(r) /\ r.page = p THEN n + 1
                                       ELSE LastRec(w, p, n)
             /\ At(u, p, n + 1) = IF IsPageRecord(r) /\ r.page = p THEN Img(r) ELSE At(w, p, n)
  <2>1. CASE IsPageRecord(r) /\ r.page = p
    <3>1. n + 1 \in Recs(u, p, n + 1)
      BY <1>1, <1>2, <2>1 DEF Recs, IsPageRecord
    <3>2. \A i \in Recs(u, p, n + 1) : i <= n + 1
      BY <1>1 DEF Recs
    <3>3. LastRec(u, p, n + 1) = n + 1
      BY <1>1, <3>1, <3>2, LastRecIs
    <3>4. u[LastRec(u, p, n + 1)] = r
      BY <1>1, <3>3, Zenon
    <3>5. LastRec(u, p, n + 1) # 0
      BY <1>1, <3>3
    <3>. QED
      BY <2>1, <3>3, <3>4, <3>5 DEF At
  <2>2. CASE ~(IsPageRecord(r) /\ r.page = p)
    <3>1. Recs(u, p, n + 1) = Recs(w, p, n)
      BY <1>1, <1>2, <2>2 DEF Recs
    <3>2. LastRec(u, p, n + 1) = LastRec(w, p, n)
      BY <3>1 DEF LastRec
    <3>3. LastRec(w, p, n) # 0 => LastRec(w, p, n) \in 1 .. n
      BY <1>1, LastRecFacts DEF Recs
    <3>. QED
      BY <1>1, <2>2, <3>2, <3>3 DEF At
  <2>. QED
    BY <2>1, <2>2
<1>4. ASSUME NEW t
      PROVE  /\ Updates(u, n + 1, t) = Updates(w, n, t) \cup
                   (IF r.kind = "PageUpdate" /\ r.txn = t THEN {n + 1} ELSE {})
             /\ Ended(u, n + 1, t) <=> Ended(w, n, t) \/ (IsTerminal(r) /\ r.txn = t)
  <2>1. Updates(u, n + 1, t) = Updates(w, n, t) \cup
                   (IF r.kind = "PageUpdate" /\ r.txn = t THEN {n + 1} ELSE {})
    BY <1>1, <1>2 DEF Updates
  <2>2. Ended(u, n + 1, t) <=> Ended(w, n, t) \/ (IsTerminal(r) /\ r.txn = t)
    BY <1>1, <1>2 DEF Ended
  <2>. QED
    BY <2>1, <2>2
<1>5. Author(u, n + 1) = IF r.kind = "Commit" /\ Updates(w, n, r.txn) # {} THEN r.txn
                         ELSE Author(w, n)
  <2>1. ASSUME NEW i \in 1 .. n, NEW t
        PROVE  Updates(u, i, t) = Updates(w, i, t)
    <3>1. 1 .. i \subseteq 1 .. n
      BY <1>1
    <3>. QED
      BY <1>1, <3>1 DEF Updates
  <2>2. r.kind = "Commit" => Updates(u, n + 1, r.txn) = Updates(w, n, r.txn)
    BY <1>4
  <2>3. CASE r.kind = "Commit" /\ Updates(w, n, r.txn) # {}
    <3>1. n + 1 \in Winners(u, n + 1)
      BY <1>1, <1>2, <2>2, <2>3 DEF Winners
    <3>2. Winners(u, n + 1) \subseteq 1 .. n + 1 /\ \A i \in Winners(u, n + 1) : i <= n + 1
      BY <1>1 DEF Winners
    <3>3. LastWinner(u, n + 1) = n + 1
      BY <1>1, <3>1, <3>2, LastIs DEF LastWinner
    <3>4. u[LastWinner(u, n + 1)] = r
      BY <1>1, <3>3, Zenon
    <3>5. LastWinner(u, n + 1) # 0
      BY <1>1, <3>3
    <3>. QED
      BY <2>3, <3>4, <3>5 DEF Author
  <2>4. CASE ~(r.kind = "Commit" /\ Updates(w, n, r.txn) # {})
    <3>1. n + 1 \notin Winners(u, n + 1)
      BY <1>1, <2>2, <2>4 DEF Winners
    <3>2. \A i \in 1 .. n : i \in Winners(u, n + 1) <=> i \in Winners(w, n)
      BY <1>1, <1>2, <2>1 DEF Winners
    <3>3. Winners(u, n + 1) = Winners(w, n)
      BY <1>2, <3>1, <3>2 DEF Winners
    <3>4. LastWinner(u, n + 1) = LastWinner(w, n)
      BY <3>3 DEF LastWinner
    <3>5. Winners(w, n) \subseteq 1 .. n
      BY DEF Winners
    <3>6. LastWinner(w, n) # 0 => LastWinner(w, n) \in 1 .. n
      BY <1>1, <3>5, LastFacts DEF LastWinner
    <3>. QED
      BY <1>1, <2>4, <3>4, <3>6 DEF Author
  <2>. QED
    BY <2>3, <2>4
<1>6. \A p : IsPageRecord(r) /\ r.page = p =>
               LastRec(u, p, n + 1) = n + 1 /\ At(u, p, n + 1) = Img(r)
  BY <1>3
<1>7. \A p : ~(IsPageRecord(r) /\ r.page = p) =>
               LastRec(u, p, n + 1) = LastRec(w, p, n) /\ At(u, p, n + 1) = At(w, p, n)
  BY <1>3
<1>8. \A t : r.kind = "PageUpdate" /\ r.txn = t =>
               Updates(u, n + 1, t) = Updates(w, n, t) \cup {n + 1}
  BY <1>4
<1>9. \A t : ~(r.kind = "PageUpdate" /\ r.txn = t) => Updates(u, n + 1, t) = Updates(w, n, t)
  BY <1>4
<1>10. \A t : Ended(u, n + 1, t) <=> Ended(w, n, t) \/ (IsTerminal(r) /\ r.txn = t)
  BY <1>4, Zenon
<1>11. /\ r.kind = "Commit" /\ Updates(w, n, r.txn) # {} => Author(u, n + 1) = r.txn
       /\ ~(r.kind = "Commit" /\ Updates(w, n, r.txn) # {}) => Author(u, n + 1) = Author(w, n)
  BY <1>5
<1>. QED
  BY <1>6, <1>7, <1>8, <1>9, <1>10, <1>11, Zenon DEF u, n

\* Whoever is served has a Commit record, and a change.
LEMMA AuthorFacts ==
    ASSUME NEW w \in Seq(Records), NEW m \in 0 .. Len(w)
    PROVE  /\ Author(w, m) \in 0 .. MaxTxn
           /\ Author(w, m) # 0 =>
                 Ended(w, m, Author(w, m)) /\ \E i \in 1 .. m : w[i].kind = "Commit" /\ w[i].txn = Author(w, m)
<1>1. m \in Nat /\ Winners(w, m) \subseteq 1 .. m /\ Len(w) \in Nat /\ 0 \in 0 .. MaxTxn
  BY LsnsAre, DurabilityAssumption DEF Winners
<1>2. LastWinner(w, m) # 0 => LastWinner(w, m) \in Winners(w, m)
  BY <1>1, LastFacts DEF LastWinner
<1>3. CASE LastWinner(w, m) # 0
  <2>. DEFINE i == LastWinner(w, m)
  <2>1. i \in 1 .. m /\ w[i].kind = "Commit" /\ Author(w, m) = w[i].txn
    BY <1>2, <1>3 DEF Winners, Author
  <2>2. i \in Lsns(w)
    BY <1>1, <2>1 DEF Lsns
  <2>. HIDE DEF i
  <2>3. w[i].txn \in 0 .. MaxTxn
    BY <2>2, LsnsAre, RecordKinds
  <2>. QED
    BY <2>1, <2>3 DEF Ended, IsTerminal
<1>4. CASE LastWinner(w, m) = 0
  BY <1>1, <1>4 DEF Author
<1>. QED
  BY <1>3, <1>4

(***************************************************************************)
(* The invariant of the log.  It speaks of every prefix, so a power loss   *)
(* keeps it, and an append has to show it for the whole log only.          *)
(***************************************************************************)
\* log_prepared: the after image carries the LSN of its record, and prev is the record of the
\* transaction before this one.
ChangeFits(w, i) ==
    LET r == w[i]
    IN  /\ r.page <= Size /\ r.before \in Image /\ r.after \in Image /\ r.after.lsn = i
        /\ r.prev \in 1 .. i - 1 /\ w[r.prev].txn = r.txn
        /\ \A j \in r.prev + 1 .. i - 1 : w[j].txn # r.txn

\* append_compensation: the image it puts back carries the LSN of its record, and what of the
\* transaction lies behind undo_next_lsn has been put back.
UndoFits(w, i) ==
    LET r == w[i]
    IN  /\ r.page \in Pages /\ r.page <= Size /\ r.undo \in Image /\ r.undo.lsn = i
        /\ r.resulting_page_count = Size
        /\ r.undo_next_lsn \in 1 .. i - 1 /\ w[r.undo_next_lsn].txn = r.txn
        /\ Undone(w, r.txn, r.undo_next_lsn, i)

\* A record was written by an append of the engine: it fits what stands before it.
WellFormed(w, i) ==
    /\ w[i].kind # "Resize"
    /\ w[i].kind = "PageUpdate" => ChangeFits(w, i)
    /\ w[i].kind = "Compensation" => UndoFits(w, i)
    /\ w[i].kind = "CheckpointBegin" => \A p \in Pages : w[i].dirty_pages[p] <= LastRec(w, p, i)
    /\ w[i].txn # 0 => ~Ended(w, i - 1, w[i].txn)
    /\ w[i].kind = "Begin" => \A j \in 1 .. i - 1 : w[j].txn # w[i].txn

\* The first m records: one transaction at a time changes pages and is neither committed nor
\* aborted; what it would put back is what is served; and what redo leaves of a page is what is
\* served, unless that transaction changed it last.
OneOpen(w, m) == \A t, u \in Txns : Open(w, m, t) /\ Open(w, m, u) => t = u

\* The undo images of who is still open are the database served.
BeforeIsServed(c, w, m) ==
    \A t \in Txns : Open(w, m, t) =>
        \A i \in Updates(w, m, t) : w[i].before.val = c[Author(w, m)].val[w[i].page]

\* A page is the one of the database served, or changed by who is still open.
PageIsServed(c, w, m) ==
    \A p \in Pages :
        \/ At(w, p, m).val = c[Author(w, m)].val[p]
        \/ /\ LastRec(w, p, m) # 0 /\ w[LastRec(w, p, m)].kind = "PageUpdate"
           /\ Open(w, m, w[LastRec(w, p, m)].txn)

Sane(c, w, m) == OneOpen(w, m) /\ BeforeIsServed(c, w, m) /\ PageIsServed(c, w, m)

History(c, w) ==
    /\ \A i \in Lsns(w) : WellFormed(w, i)
    /\ \A m \in 0 .. Len(w) : Sane(c, w, m)

\* What a prefix says does not depend on what follows: a power loss keeps it
\* (scan_file cuts the tail).
LEMMA SamePrefixes ==
    ASSUME NEW w, NEW u, NEW n \in Nat, \A i \in 1 .. n : u[i] = w[i]
    PROVE  /\ \A i \in 1 .. n : WellFormed(w, i) => WellFormed(u, i)
           /\ \A c : \A m \in 0 .. n : Sane(c, w, m) => Sane(c, u, m)
<1>1. ASSUME NEW i \in 1 .. n, WellFormed(w, i)
      PROVE  WellFormed(u, i)
  <2>1. i \in Nat /\ i - 1 \in Nat /\ (\A j \in 1 .. i : u[j] = w[j]) /\ 1 .. i - 1 \subseteq 1 .. i
    OBVIOUS
  <2>2. /\ u[i] = w[i] /\ \A p : LastRec(u, p, i) = LastRec(w, p, i)
        /\ \A t, q : Undone(u, t, q, i) <=> Undone(w, t, q, i)
    <3>1. u[i] = w[i]
      BY <2>1
    <3>2. \A p : LastRec(u, p, i) = LastRec(w, p, i)
      BY <2>1, SamePrefix
    <3>3. \A t, q : Undone(u, t, q, i) <=> Undone(w, t, q, i)
      BY <2>1, SamePrefix, Zenon
    <3>. QED
      BY <3>1, <3>2, <3>3
  <2>3. \A t : Ended(u, i - 1, t) <=> Ended(w, i - 1, t)
    <3>1. \A j \in 1 .. i - 1 : u[j] = w[j]
      BY <2>1
    <3>. QED
      BY <2>1, <3>1, SamePrefix
  <2>4. ChangeFits(w, i) => ChangeFits(u, i)
    <3>1. ASSUME ChangeFits(w, i)
          PROVE  \A j \in w[i].prev + 1 .. i - 1 : u[j] = w[j]
      BY <2>1, <3>1 DEF ChangeFits
    <3>. QED
      BY <2>1, <2>2, <3>1 DEF ChangeFits
  <2>5. UndoFits(w, i) => UndoFits(u, i)
    BY <2>1, <2>2 DEF UndoFits
  <2>. QED
    BY <1>1, <2>1, <2>2, <2>3, <2>4, <2>5 DEF WellFormed
<1>2. ASSUME NEW c, NEW m \in 0 .. n, Sane(c, w, m)
      PROVE  Sane(c, u, m)
  <2>1. m \in Nat /\ \A j \in 1 .. m : u[j] = w[j]
    OBVIOUS
  <2>2. /\ \A p : LastRec(u, p, m) = LastRec(w, p, m) /\ At(u, p, m) = At(w, p, m)
        /\ \A t : Updates(u, m, t) = Updates(w, m, t) /\ (Open(u, m, t) <=> Open(w, m, t))
        /\ Author(u, m) = Author(w, m)
    <3>1. \A p : LastRec(u, p, m) = LastRec(w, p, m) /\ At(u, p, m) = At(w, p, m)
      BY <2>1, SamePrefix
    <3>2. \A t : Updates(u, m, t) = Updates(w, m, t) /\ (Open(u, m, t) <=> Open(w, m, t))
      <4>1. \A t : Updates(u, m, t) = Updates(w, m, t)
        BY <2>1, SamePrefix
      <4>2. \A t : Ended(u, m, t) <=> Ended(w, m, t)
        BY <2>1 DEF Ended
      <4>. QED
        BY <4>1, <4>2 DEF Open
    <3>3. Author(u, m) = Author(w, m)
      BY <2>1, SamePrefix
    <3>. QED
      BY <3>1, <3>2, <3>3
  <2>3. \A p : LastRec(w, p, m) # 0 => LastRec(w, p, m) \in 1 .. m
    BY <2>1, LastRecFacts DEF Recs
  <2>4. OneOpen(u, m)
    BY <1>2, <2>2 DEF Sane, OneOpen
  <2>5. BeforeIsServed(c, u, m)
    <3>1. \A t : \A i \in Updates(w, m, t) : u[i] = w[i]
      BY <2>1 DEF Updates
    <3>. QED
      BY <1>2, <2>2, <3>1 DEF Sane, BeforeIsServed
  <2>6. PageIsServed(c, u, m)
    BY <1>2, <2>1, <2>2, <2>3 DEF Sane, PageIsServed
  <2>. QED
    BY <2>4, <2>5, <2>6 DEF Sane
<1>. QED
  BY <1>1, <1>2

\* A power loss leaves a prefix.
LEMMA HistoryCut ==
    ASSUME NEW c, NEW w \in Seq(Records), NEW u \in Seq(Records), History(c, w),
           Len(u) <= Len(w), \A i \in 1 .. Len(u) : u[i] = w[i]
    PROVE  History(c, u)
<1>1. Len(u) \in Nat /\ Len(w) \in Nat /\ Lsns(u) \subseteq Lsns(w) /\ Lsns(u) = 1 .. Len(u)
      /\ 0 .. Len(u) \subseteq 0 .. Len(w)
  BY LenProperties DEF Lsns
<1>. QED
  BY <1>1, SamePrefixes DEF History

\* An append.
LEMMA HistoryGrows ==
    ASSUME NEW c, NEW w \in Seq(Records), NEW r \in Records, NEW u, u = Append(w, r), History(c, w),
           WellFormed(u, Len(w) + 1), Sane(c, u, Len(w) + 1)
    PROVE  History(c, u)
<1>. DEFINE n == Len(w)
<1>1. /\ n \in Nat /\ Len(u) = n + 1 /\ \A i \in 1 .. n : u[i] = w[i]
      /\ Lsns(u) = Lsns(w) \cup {n + 1} /\ Lsns(w) = 1 .. n
  BY AppendFacts DEF Lsns
<1>2. WellFormed(u, n + 1) /\ Sane(c, u, n + 1)
  OBVIOUS
<1>3. (\A i \in 1 .. n : WellFormed(w, i)) /\ \A m \in 0 .. n : Sane(c, w, m)
  BY <1>1 DEF History
<1>. HIDE DEF n
<1>4. 0 .. Len(u) = (0 .. n) \cup {n + 1}
  BY <1>1
<1>5. (\A i \in 1 .. n : WellFormed(u, i)) /\ \A m \in 0 .. n : Sane(c, u, m)
  BY <1>1, <1>3, SamePrefixes
<1>. QED
  BY <1>1, <1>2, <1>4, <1>5 DEF History

\* The candidate of a transaction that has not ended is not served.
LEMMA HistoryPrepares ==
    ASSUME NEW c, NEW w \in Seq(Records), History(c, w), NEW t \in Txns, ~Ended(w, Len(w), t),
           NEW d, DOMAIN c = 0 .. MaxTxn
    PROVE  History([c EXCEPT ![t] = d], w) /\ [c EXCEPT ![t] = d][Author(w, Len(w))] = c[Author(w, Len(w))]
<1>. DEFINE e == [c EXCEPT ![t] = d]
<1>1. Len(w) \in Nat /\ 0 \notin Txns
  BY LenProperties, PagesAreNumbers
<1>2. ASSUME NEW m \in 0 .. Len(w)
      PROVE  e[Author(w, m)] = c[Author(w, m)]
  <2>1. Author(w, m) # t
    <3>1. Ended(w, m, t) => Ended(w, Len(w), t)
      BY <1>1 DEF Ended
    <3>. QED
      BY <1>1, <3>1, AuthorFacts
  <2>2. Author(w, m) \in 0 .. MaxTxn
    BY AuthorFacts
  <2>. QED
    BY <2>1, <2>2
<1>. HIDE DEF e
<1>3. \A m \in 0 .. Len(w) : Sane(e, w, m)
  BY <1>2 DEF History, Sane, BeforeIsServed, PageIsServed
<1>4. Len(w) \in 0 .. Len(w)
  BY <1>1
<1>. QED
  BY <1>2, <1>3, <1>4 DEF History, e

(***************************************************************************)
(* The data file beside the log.                                           *)
(***************************************************************************)
\* A database of the one size: a page has content just when it is one of the database.
Proper == {d \in Db : d.cnt = Size /\ \A p \in Pages : d.val[p] # -1 <=> p <= Size}

\* What a crash leaves of the log.  A crash of the process alone leaves all of it.
Certain == IF "power" \in Failures THEN synced ELSE Len(wal)

\* A version of page p that the disk may hold: the image some record of the certain log left,
\* or a torn page that such a record wrote.
Version(w, l, p, v) ==
    \/ v = NoPage /\ LastRec(w, p, l) # 0
    \/ v.lsn <= l /\ LastRec(w, p, v.lsn) = v.lsn /\ v = At(w, p, v.lsn)

\* Every version a crash may leave in the file is an image of the log that
\* is certain to be in the log then (the write-ahead rule, flush_page).
Kept ==
    /\ file.cnt = Size /\ file.maybe_cnt = {Size}
    /\ \A p \in Pages : file.page[p] \in file.maybe[p]
    /\ \A p \in Pages : \A v \in file.maybe[p] : Version(wal, Certain, p, v)

\* A page that a checkpoint at c does not list needs no redo from before c.
CoveredAt(w, l, f, c, p) == LastRec(w, p, l) > c \/ \A v \in f.maybe[p] : v = At(w, p, c)

\* Every checkpoint of the log: pages outside its table need no earlier record.
Covered ==
    \A c \in Lsns(wal) : wal[c].kind = "CheckpointBegin" =>
        \A p \in Pages : wal[c].dirty_pages[p] = 0 => CoveredAt(wal, Certain, file, c, p)

\* WalState: a recLSN is a record of its page, and the pages of a transaction are those it logged.
Tables ==
    /\ \A p \in Pages : dirty_pages[p] <= LastRec(wal, p, Len(wal))
    /\ checkpoint.step = "sampled" => \A p \in Pages : checkpoint.dirty[p] <= LastRec(wal, p, Len(wal))
    /\ \A d \in transaction_dirty_pages : \E i \in Recs(wal, d[2], Len(wal)) : wal[i].txn = d[1]

\* The disk holds of p what redo of the whole log leaves.
Current(p) == \A v \in file.maybe[p] : v = At(wal, p, Len(wal))
Latest(p) == At(wal, p, Len(wal))
Served == cands[Author(wal, Len(wal))]
StillOpen(t) == Open(wal, Len(wal), t)
HasEnded(t) == Ended(wal, Len(wal), t)

(***************************************************************************)
(* The sessions and the running commit beside both.                        *)
(***************************************************************************)
NoPages(t) == \A i \in Lsns(wal) : wal[i].txn = t => ~IsPageRecord(wal[i])

\* Who has not started to commit has logged no page; a transaction that failed
\* with logged pages is excluded by the hypotheses.
Quiet ==
    \A t \in Txns :
        /\ phase[t] \notin {"failed", "orphan"}
        /\ phase[t] \in {"begun", "active", "empty", "aborting", "lost"} => NoPages(t)
        /\ phase[t] \in {"begun", "active", "empty"} => ~HasEnded(t)

Unwritten == Early \cup {"apply"}

\* The running commit changed page p last.
Mine(p) ==
    LET k == LastRec(wal, p, Len(wal))
    IN  k # 0 /\ wal[k].kind = "PageUpdate" /\ wal[k].txn = job.txn /\ Latest(p).val = job.db.val[p]

\* While log_page runs: what is on the list is still as it was, what is off
\* it has its record.
Logging ==
    /\ job.todo \subseteq Deltas(file, job.db)
    /\ \A p \in Deltas(file, job.db) \ job.todo : Mine(p)
    /\ \A p \in Pages : p \notin Deltas(file, job.db) \/ p \in job.todo => Current(p)
    /\ \A p \in job.todo : Latest(p).val = Served.val[p]

\* While apply_page runs: what is on the list differs, what is off it is written.
Applying ==
    \A p \in Pages :
        IF p \in job.todo THEN Mine(p) /\ file.page[p].val # job.db.val[p]
        ELSE file.page[p] = Latest(p) /\ file.page[p].val = job.db.val[p]

Committing ==
    /\ job # Idle => /\ job.db \in Proper /\ job.before = Size /\ cands[job.txn] = job.db
                     /\ job.step # "resized"
    /\ job.step \in Unwritten \cup {"commit"} => ~HasEnded(job.txn)
    /\ job.step \in Early => Logging
    /\ job.step = "apply" => Applying
    /\ job.step = "commit" => \A p \in Pages : Latest(p).val = job.db.val[p]
    /\ job.step \in {"commit_flush", "publish"} => Served = job.db

Serving ==
    mode = "up" =>
        /\ \A t \in Txns : StillOpen(t) => job.step \in Unwritten \cup {"commit"} /\ job.txn = t
        /\ \A p \in Pages : dirty_pages[p] = 0 \/ job.step \notin Unwritten => Current(p)
        /\ job = Idle => mem = Served

(***************************************************************************)
(* Recovery beside the log: what redo has still to write lies ahead of it, *)
(* and what undo has still to put back lies behind its pointer.            *)
(***************************************************************************)
\* redo has still to pass the last record of every page it has not brought up
\* to date.
Redoing ==
    /\ rec.pos <= rec.last => rec.last = Len(wal)
    /\ \A p \in Pages : file.page[p] = Latest(p) \/ rec.pos <= LastRec(wal, p, rec.last)

\* A loser is undone from its last record down to its pointer (undo_losers).
Undoing ==
    \A t \in Txns :
        /\ rec.undo[t] # 0 => ~HasEnded(t) /\ wal[rec.undo[t]].txn = t
        /\ StillOpen(t) => rec.undo[t] # 0 /\ Undone(wal, t, rec.undo[t], Len(wal))

Restarting ==
    rec # Idle =>
        /\ rec.cnt = Size /\ rec.target = Size
        /\ rec.step = "redo" => Redoing /\ Undoing
        /\ rec.step # "redo" => /\ \A p \in Pages : Current(p)
                                /\ \A t \in Txns : ~StillOpen(t)

RecoveryInv ==
    /\ cands \in [0 .. MaxTxn -> Proper]
    /\ History(cands, wal) /\ Kept /\ Covered /\ Tables
    /\ Quiet /\ Committing /\ Serving /\ Restarting
    /\ mode # "failed"

\* The commits that fail after they have logged a page are left to the model checker: after one
\* the next restart undoes too much or too little.
Calm == budget.faults = 0 \/ Failures \cap {"active", "committed"} = {}

\* One page count, and crashes either of the process or of the machine.
OneSize == PageCounts = {Size}
OneKindOfCrash == ~({"power", "process"} \subseteq Failures)
Trust == "process" \notin Failures => Trusted

(***************************************************************************)
(* The certain part of the log.                                            *)
(***************************************************************************)
\* A restart believes that what it reads is on the disk: for the one kind of crash it is.
LEMMA CertainIs ==
    ASSUME Core, Trust, OneKindOfCrash
    PROVE  /\ wal \in Seq(Records) /\ Len(wal) \in Nat /\ Certain \in 0 .. Len(wal)
           /\ mode = "down" => Certain = Len(wal)
           /\ rec # Idle => rec.last <= Certain
           /\ "power" \in Failures => durable_lsn <= Certain
<1>1. wal \in Seq(Records) /\ Len(wal) \in Nat /\ synced \in 0 .. Len(wal)
  BY LenProperties DEF Core, Types, LogTypes
<1>2. "power" \in Failures => Trusted
  BY DEF Trust, OneKindOfCrash
<1>3. rec # Idle => rec.last <= Len(wal)
  BY DEF Core, Pointers
<1>. QED
  BY <1>1, <1>2, <1>3 DEF Certain, Trusted

\* Outside of a crash it never shrinks.
LEMMA CertainMoves ==
    ASSUME Core, Trust, OneKindOfCrash, LogMoves, Core'
    PROVE  /\ Certain <= Certain' /\ Certain' \in 0 .. Len(wal') /\ Len(wal') \in Nat
           /\ wal' \in Seq(Records) /\ Len(wal) <= Len(wal')
<1>1. wal' \in Seq(Records) /\ Len(wal') \in Nat /\ synced' \in 0 .. Len(wal')
  BY LenProperties DEF Core, Types, LogTypes
<1>2. "power" \in Failures => Trusted
  BY DEF Trust, OneKindOfCrash
<1>3. Len(wal) <= Len(wal')
  BY DEF LogMoves, Grows
<1>4. "power" \in Failures => synced <= synced'
  BY <1>2, SyncedMoves
<1>. QED
  BY <1>1, <1>3, <1>4 DEF Certain

\* sync_locked: what was asked for is certain.
LEMMA FlushedIsCertain ==
    ASSUME Core, Trust, OneKindOfCrash, NEW l \in 0 .. Len(wal), sync(l, Len(wal)), wal' = wal
    PROVE  l <= Certain'
<1>1. Len(wal) \in Nat /\ durable_lsn \in 0 .. Len(wal) /\ Certain \in 0 .. Len(wal)
      /\ ("power" \in Failures => durable_lsn <= Certain)
  BY CertainIs DEF Core, Types, LogTypes
<1>2. CASE durable_lsn >= l
  <2>1. synced' = synced
    BY <1>2 DEF sync
  <2>2. Certain' = Certain
    BY <2>1 DEF Certain
  <2>. QED
    BY <1>1, <1>2, <2>2 DEF Certain
<1>3. CASE ~(durable_lsn >= l)
  <2>1. synced' = Len(wal)
    BY <1>3 DEF sync
  <2>. QED
    BY <1>1, <2>1 DEF Certain
<1>. QED
  BY <1>2, <1>3

(***************************************************************************)
(* A longer log and the same data file.                                    *)
(***************************************************************************)
\* A version that a crash may leave stays one while the log grows.
LEMMA VersionGrows ==
    ASSUME NEW w, NEW u, NEW n \in Nat, \A i \in 1 .. n : u[i] = w[i],
           NEW k \in 0 .. n, NEW l \in Nat, k <= l, NEW p, NEW v \in Versions, Version(w, k, p, v)
    PROVE  Version(u, l, p, v)
<1>1. k \in Nat /\ v.lsn \in Nat
  BY DEF Versions
<1>2. CASE v = NoPage /\ LastRec(w, p, k) # 0
  <2>1. \A i \in 1 .. k : u[i] = w[i]
    OBVIOUS
  <2>2. LastRec(u, p, k) = LastRec(w, p, k)
    BY <1>1, <2>1, SamePrefix
  <2>3. LastRec(u, p, k) <= LastRec(u, p, l) /\ LastRec(u, p, k) \in 0 .. k
        /\ LastRec(u, p, l) \in 0 .. l
    BY <1>1, LastRecGrows, LastRecFacts
  <2>4. LastRec(u, p, l) # 0
    BY <1>2, <2>2, <2>3
  <2>. QED
    BY <1>2, <2>4 DEF Version
<1>3. CASE v.lsn <= k /\ LastRec(w, p, v.lsn) = v.lsn /\ v = At(w, p, v.lsn)
  <2>1. \A i \in 1 .. v.lsn : u[i] = w[i]
    BY <1>1, <1>3
  <2>2. LastRec(u, p, v.lsn) = LastRec(w, p, v.lsn) /\ At(u, p, v.lsn) = At(w, p, v.lsn)
    BY <1>1, <2>1, SamePrefix
  <2>3. v.lsn <= l
    BY <1>1, <1>3
  <2>. QED
    BY <1>3, <2>2, <2>3 DEF Version
<1>. QED
  BY <1>2, <1>3 DEF Version

\* Records that follow do not take a covered page from a checkpoint.
LEMMA CoveredGrows ==
    ASSUME NEW w, NEW u, NEW n \in Nat, \A i \in 1 .. n : u[i] = w[i],
           NEW k \in 0 .. n, NEW l \in Nat, k <= l, NEW p, NEW c \in 0 .. n, NEW f,
           CoveredAt(w, k, f, c, p)
    PROVE  CoveredAt(u, l, f, c, p)
<1>1. k \in Nat /\ c \in Nat /\ (\A i \in 1 .. k : u[i] = w[i]) /\ \A i \in 1 .. c : u[i] = w[i]
  OBVIOUS
<1>2. LastRec(u, p, k) = LastRec(w, p, k) /\ At(u, p, c) = At(w, p, c)
  <2>1. LastRec(u, p, k) = LastRec(w, p, k)
    BY <1>1, SamePrefix
  <2>2. At(u, p, c) = At(w, p, c)
    <3>1. c \in Nat /\ \A i \in 1 .. c : u[i] = w[i]
      BY <1>1
    <3>2. \A q : At(u, q, c) = At(w, q, c)
      BY <3>1, SamePrefix
    <3>. QED
      BY <3>2
  <2>. QED
    BY <2>1, <2>2
<1>3. LastRec(u, p, k) <= LastRec(u, p, l) /\ LastRec(u, p, k) \in 0 .. k
      /\ LastRec(u, p, l) \in 0 .. l
  BY <1>1, LastRecGrows, LastRecFacts
<1>. QED
  BY <1>1, <1>2, <1>3 DEF CoveredAt

\* The versions of a page are versions.
LEMMA FileIs ==
    ASSUME Core, NEW p \in Pages
    PROVE  file.page[p] \in Versions /\ \A v \in file.maybe[p] : v \in Versions
BY DEF Core, Types, Files

\* A step that only appends or flushes keeps what the file may hold.
LEMMA KeptStays ==
    ASSUME Core, Core', Trust, OneKindOfCrash, LogMoves, Kept, file' = file
    PROVE  Kept'
<1>1. /\ Certain <= Certain' /\ Certain' \in Nat /\ Certain \in 0 .. Len(wal) /\ Len(wal) \in Nat
      /\ \A i \in 1 .. Len(wal) : wal'[i] = wal[i]
  BY CertainMoves, CertainIs DEF LogMoves, Grows, Lsns
<1>2. ASSUME NEW p \in Pages, NEW v \in file.maybe[p]
      PROVE  Version(wal', Certain', p, v)
  <2>1. Version(wal, Certain, p, v) /\ v \in Versions
    BY <1>2, FileIs DEF Kept
  <2>. QED
    BY <1>1, <2>1, VersionGrows
<1>. QED
  BY <1>2 DEF Kept

\* A step that only appends or flushes keeps an earlier checkpoint covered.
LEMMA CoveredStays ==
    ASSUME Core, Core', Trust, OneKindOfCrash, LogMoves, Covered, file' = file,
           NEW c \in Lsns(wal), wal[c].kind = "CheckpointBegin", NEW p \in Pages,
           wal[c].dirty_pages[p] = 0
    PROVE  CoveredAt(wal', Certain', file', c, p)
<1>1. /\ Certain <= Certain' /\ Certain' \in Nat /\ Certain \in 0 .. Len(wal) /\ Len(wal) \in Nat
      /\ (\A i \in 1 .. Len(wal) : wal'[i] = wal[i]) /\ c \in 0 .. Len(wal)
  BY CertainMoves, CertainIs DEF LogMoves, Grows, Lsns
<1>2. CoveredAt(wal, Certain, file, c, p)
  BY DEF Covered
<1>. QED
  BY <1>1, <1>2, CoveredGrows

(***************************************************************************)
(* A record that changes no page, and ends no transaction that did.        *)
(***************************************************************************)
SameReads ==
    /\ \A p : LastRec(wal', p, Len(wal')) = LastRec(wal, p, Len(wal))
    /\ \A p : At(wal', p, Len(wal')) = At(wal, p, Len(wal))
    /\ Author(wal', Len(wal')) = Author(wal, Len(wal))
    /\ \A t : Open(wal', Len(wal'), t) <=> Open(wal, Len(wal), t)

\* A record that changes no page: the pages read as before, and a Commit record
\* of a transaction with changes makes it the author (append of Begin, Commit,
\* Abort and the checkpoint records).
LEMMA PlainReads ==
    ASSUME NEW w \in Seq(Records), NEW r \in Records, ~IsPageRecord(r)
    PROVE  /\ \A p : LastRec(Append(w, r), p, Len(w) + 1) = LastRec(w, p, Len(w))
           /\ \A p : At(Append(w, r), p, Len(w) + 1) = At(w, p, Len(w))
           /\ \A t : Updates(Append(w, r), Len(w) + 1, t) = Updates(w, Len(w), t)
           /\ r.kind = "Commit" /\ Updates(w, Len(w), r.txn) # {}
                  => Author(Append(w, r), Len(w) + 1) = r.txn
           /\ ~(r.kind = "Commit" /\ Updates(w, Len(w), r.txn) # {})
                  => Author(Append(w, r), Len(w) + 1) = Author(w, Len(w))
BY AppendReads, Zenon DEF IsPageRecord

\* Begin, Commit, Abort and checkpoint records.
LEMMA PlainWellFormed ==
    ASSUME NEW w \in Seq(Records), NEW r \in Records, NEW u, u = Append(w, r),
           ~IsPageRecord(r), r.kind # "Resize",
           r.txn # 0 => ~Ended(w, Len(w), r.txn),
           r.kind = "Begin" => \A j \in 1 .. Len(w) : w[j].txn # r.txn,
           r.kind = "CheckpointBegin" => \A p \in Pages : r.dirty_pages[p] <= LastRec(w, p, Len(w))
    PROVE  WellFormed(u, Len(w) + 1)
<1>. DEFINE n == Len(w)
<1>1. n \in Nat /\ u[n + 1] = r /\ \A i \in 1 .. n : u[i] = w[i]
  BY AppendFacts DEF Lsns
<1>2. \A p : LastRec(u, p, n + 1) = LastRec(w, p, n)
  BY PlainReads
<1>3. n + 1 - 1 = n
  BY <1>1
<1>4. r.txn # 0 => ~Ended(u, n, r.txn)
  BY <1>1 DEF Ended
<1>5. r.kind = "CheckpointBegin" => \A p \in Pages : r.dirty_pages[p] <= LastRec(u, p, n + 1)
  BY <1>2
<1>6. r.kind = "Begin" => \A j \in 1 .. n : u[j].txn # r.txn
  BY <1>1
<1>. HIDE DEF n
<1>. QED
  BY <1>1, <1>3, <1>4, <1>5, <1>6 DEF WellFormed, IsPageRecord, n

\* A record that changes no page and ends nobody with changes is neutral.
LEMMA NeutralAppend ==
    ASSUME wal \in Seq(Records), History(cands, wal), NEW r \in Records, wal' = Append(wal, r),
           ~IsPageRecord(r), IsTerminal(r) => Updates(wal, Len(wal), r.txn) = {},
           WellFormed(wal', Len(wal) + 1)
    PROVE  /\ History(cands, wal') /\ SameReads
           /\ \A t : Ended(wal', Len(wal'), t) <=> HasEnded(t) \/ (IsTerminal(r) /\ r.txn = t)
<1>. DEFINE n == Len(wal)
            u == wal'
<1>1. n \in Nat /\ Len(u) = n + 1 /\ u[n + 1] = r /\ \A i \in 1 .. n : u[i] = wal[i]
  BY AppendFacts DEF Lsns
<1>2. \A p : LastRec(u, p, n + 1) = LastRec(wal, p, n)
  BY PlainReads
<1>3. \A p : At(u, p, n + 1) = At(wal, p, n)
  BY PlainReads
<1>4. Author(u, n + 1) = Author(wal, n)
  BY PlainReads DEF IsTerminal
<1>5. \A t : Updates(u, n + 1, t) = Updates(wal, n, t)
  BY PlainReads
<1>6. \A t : Ended(u, n + 1, t) <=> Ended(wal, n, t) \/ (IsTerminal(r) /\ r.txn = t)
  BY <1>1, <1>1 DEF Ended
<1>7. \A t : Open(u, n + 1, t) <=> Open(wal, n, t)
  BY <1>5, <1>6 DEF Open
<1>8. Sane(cands, wal, n)
  BY <1>1 DEF History
<1>. HIDE DEF n
<1>9. OneOpen(u, n + 1)
  BY <1>7, <1>8 DEF OneOpen, Sane
<1>10. BeforeIsServed(cands, u, n + 1)
  <2>1. \A t : \A i \in Updates(wal, n, t) : u[i] = wal[i]
    BY <1>1 DEF Updates
  <2>2. ASSUME NEW t \in Txns, Open(u, n + 1, t), NEW i \in Updates(u, n + 1, t)
        PROVE  u[i].before.val = cands[Author(u, n + 1)].val[u[i].page]
    <3>1. i \in Updates(wal, n, t) /\ Open(wal, n, t)
      BY <1>5, <1>7, <2>2
    <3>. QED
      BY <1>4, <1>8, <2>1, <3>1 DEF BeforeIsServed, Sane
  <2>. QED
    BY <2>2 DEF BeforeIsServed
<1>11. PageIsServed(cands, u, n + 1)
  <2>1. \A p : LastRec(wal, p, n) # 0 => u[LastRec(wal, p, n)] = wal[LastRec(wal, p, n)]
    <3>1. \A p : LastRec(wal, p, n) # 0 => LastRec(wal, p, n) \in 1 .. n
      BY <1>1, LastRecFacts DEF Recs
    <3>. QED
      BY <1>1, <3>1
  <2>. QED
    BY <1>2, <1>3, <1>4, <1>7, <1>8, <2>1 DEF PageIsServed, Sane
<1>12. History(cands, wal')
  <2>1. Sane(cands, wal', Len(wal) + 1)
    BY <1>9, <1>10, <1>11 DEF Sane, n
  <2>. QED
    BY <2>1, HistoryGrows
<1>13. SameReads
  BY <1>1, <1>2, <1>3, <1>4, <1>7 DEF SameReads, n
<1>14. \A t : Ended(wal', Len(wal'), t) <=> HasEnded(t) \/ (IsTerminal(r) /\ r.txn = t)
  BY <1>1, <1>6 DEF HasEnded, n
<1>. QED
  BY <1>12, <1>13, <1>14

\* A step that writes nothing to the log.
LEMMA SameLogReads ==
    ASSUME wal' = wal
    PROVE  SameReads /\ \A t : Ended(wal', Len(wal'), t) <=> HasEnded(t)
BY DEF SameReads, HasEnded

(***************************************************************************)
(* What follows when the log reads the same and the file is the same.      *)
(***************************************************************************)
\* Then every page, every open transaction and the database served are as they were.
LEMMA ReadsStay ==
    ASSUME SameReads, file' = file
    PROVE  /\ \A p : Latest(p)' = Latest(p)
           /\ \A p : Current(p)' <=> Current(p)
           /\ \A t : StillOpen(t)' <=> StillOpen(t)
           /\ cands' = cands => Served' = Served
<1>1. \A p : Latest(p)' = Latest(p)
  BY DEF SameReads, Latest
<1>2. \A p : Current(p)' <=> Current(p)
  BY DEF SameReads, Current
<1>3. \A t : StillOpen(t)' <=> StillOpen(t)
  BY DEF SameReads, StillOpen
<1>4. cands' = cands => Served' = Served
  BY DEF SameReads, Served
<1>. QED
  BY <1>1, <1>2, <1>3, <1>4

\* The records of the running commit stay where they are.
LEMMA MineStays ==
    ASSUME wal \in Seq(Records), SameReads, Grows, job'.txn = job.txn, job'.db = job.db, NEW p, Mine(p)
    PROVE  Mine(p)'
<1>1. Len(wal) \in Nat
  BY LenProperties
<1>2. LastRec(wal, p, Len(wal)) # 0 => LastRec(wal, p, Len(wal)) \in Lsns(wal)
  BY <1>1, LastRecFacts DEF Recs, Lsns
<1>3. LastRec(wal, p, Len(wal)) # 0 => wal'[LastRec(wal, p, Len(wal))] = wal[LastRec(wal, p, Len(wal))]
  BY <1>2 DEF Grows
<1>. QED
  BY <1>3 DEF Mine, SameReads, Latest

\* The running commit, when the log reads the same.
LEMMA CommittingStays ==
    ASSUME wal \in Seq(Records), SameReads, Grows, Committing, UNCHANGED <<file, cands, job>>,
           job # Idle => (Ended(wal', Len(wal'), job.txn) <=> HasEnded(job.txn))
    PROVE  Committing'
<1>1. /\ \A p : Latest(p)' = Latest(p)
      /\ \A p : Current(p)' <=> Current(p)
      /\ Served' = Served
  BY ReadsStay
<1>2. \A p : Mine(p) => Mine(p)'
  BY MineStays
<1>3. job' # Idle => /\ job'.db \in Proper /\ job'.before = Size /\ cands'[job'.txn] = job'.db
                     /\ job'.step # "resized"
  BY DEF Committing
<1>4. job'.step \in Unwritten \cup {"commit"} => ~Ended(wal', Len(wal'), job'.txn)
  <2>1. job.step \in Unwritten \cup {"commit"} => job # Idle
    BY IdleIs DEF Unwritten, Early
  <2>. QED
    BY <2>1 DEF Committing, HasEnded
<1>5. Logging => Logging'
  BY <1>1, <1>2 DEF Logging, Deltas
<1>6. Applying => Applying'
  BY <1>1, <1>2 DEF Applying
<1>. QED
  BY <1>1, <1>3, <1>4, <1>5, <1>6 DEF Committing, HasEnded

\* Who is quiet stays so: whoever appends a record is the session that moves.
LEMMA QuietStays ==
    ASSUME wal \in Seq(Records), Quiet, NEW r \in Records, wal' = wal \/ wal' = Append(wal, r),
           \A t \in Txns :
              \/ phase'[t] = phase[t] /\ (wal' = wal \/ r.txn # t)
              \/ phase'[t] \in {"none", "persist", "done", "gone"}
              \/ /\ phase'[t] \notin {"failed", "orphan"}
                 /\ NoPages(t) /\ (wal' = wal \/ ~IsPageRecord(r))
                 /\ phase'[t] \in {"begun", "active", "empty"}
                       => ~HasEnded(t) /\ (wal' = wal \/ ~IsTerminal(r))
    PROVE  Quiet'
<1>1. ASSUME NEW t \in Txns
      PROVE  /\ NoPages(t) /\ (wal' = wal \/ r.txn # t \/ ~IsPageRecord(r)) => NoPages(t)'
             /\ ~HasEnded(t) /\ (wal' = wal \/ r.txn # t \/ ~IsTerminal(r)) => ~HasEnded(t)'
  <2>1. CASE wal' = wal
    BY <2>1 DEF NoPages, HasEnded
  <2>2. CASE wal' = Append(wal, r)
    <3>1. /\ Len(wal) \in Nat /\ Len(wal') = Len(wal) + 1 /\ wal'[Len(wal) + 1] = r
          /\ Lsns(wal') = Lsns(wal) \cup {Len(wal) + 1} /\ \A i \in Lsns(wal) : wal'[i] = wal[i]
      <4>. DEFINE u == Append(wal, r)
      <4>1. /\ Len(wal) \in Nat /\ Len(u) = Len(wal) + 1 /\ u[Len(wal) + 1] = r
            /\ Lsns(u) = Lsns(wal) \cup {Len(wal) + 1} /\ \A i \in Lsns(wal) : u[i] = wal[i]
        BY AppendFacts
      <4>2. wal' = u
        BY <2>2
      <4>. HIDE DEF u
      <4>. QED
        BY <4>1, <4>2
    <3>2. HasEnded(t)' <=> HasEnded(t) \/ (IsTerminal(r) /\ r.txn = t)
      <4>1. Ended(wal', Len(wal) + 1, t) <=> Ended(wal, Len(wal), t) \/ (IsTerminal(r) /\ r.txn = t)
        BY <2>2, AppendReads, Zenon
      <4>. QED
        BY <3>1, <4>1 DEF HasEnded
    <3>3. NoPages(t)' <=> NoPages(t) /\ (r.txn = t => ~IsPageRecord(r))
      BY <3>1 DEF NoPages
    <3>4. NoPages(t) /\ (r.txn # t \/ ~IsPageRecord(r)) => NoPages(t)'
      BY <3>3
    <3>5. wal' # wal
      BY <3>1
    <3>. QED
      BY <3>2, <3>4, <3>5
  <2>. QED
    BY <2>1, <2>2
<1>. SUFFICES ASSUME NEW t \in Txns
              PROVE  /\ phase'[t] \notin {"failed", "orphan"}
                     /\ phase'[t] \in {"begun", "active", "empty", "aborting", "lost"} => NoPages(t)'
                     /\ phase'[t] \in {"begun", "active", "empty"} => ~HasEnded(t)'
  BY DEF Quiet
<1>2. CASE phase'[t] = phase[t] /\ (wal' = wal \/ r.txn # t)
  BY <1>1, <1>2 DEF Quiet
<1>3. CASE phase'[t] \in {"none", "persist", "done", "gone"}
  BY <1>3
<1>4. CASE /\ phase'[t] \notin {"failed", "orphan"}
           /\ NoPages(t) /\ (wal' = wal \/ ~IsPageRecord(r))
           /\ phase'[t] \in {"begun", "active", "empty"} => ~HasEnded(t) /\ (wal' = wal \/ ~IsTerminal(r))
  BY <1>1, <1>4
<1>. QED
  BY <1>2, <1>3, <1>4

\* The dirty tables stay lower bounds while no page record is appended.
LEMMA TablesStay ==
    ASSUME wal \in Seq(Records), Len(wal') \in Nat, SameReads, Grows, Tables, dirty_pages' = dirty_pages,
           transaction_dirty_pages' \subseteq transaction_dirty_pages,
           checkpoint'.step = "sampled" =>
              \A p \in Pages : checkpoint'.dirty[p] <= LastRec(wal, p, Len(wal))
    PROVE  Tables'
<1>1. \A p : LastRec(wal', p, Len(wal')) = LastRec(wal, p, Len(wal))
  BY DEF SameReads
<1>2. \A p \in Pages : dirty_pages'[p] <= LastRec(wal', p, Len(wal'))
  BY <1>1 DEF Tables
<1>3. checkpoint'.step = "sampled" =>
         \A p \in Pages : checkpoint'.dirty[p] <= LastRec(wal', p, Len(wal'))
  BY <1>1
<1>4. ASSUME NEW d \in transaction_dirty_pages
      PROVE  \E i \in Recs(wal', d[2], Len(wal')) : wal'[i].txn = d[1]
  <2>1. PICK i \in Recs(wal, d[2], Len(wal)) : wal[i].txn = d[1]
    BY <1>4 DEF Tables
  <2>2. i \in Lsns(wal) /\ Len(wal) \in Nat /\ Len(wal) <= Len(wal')
    BY <2>1, LenProperties DEF Recs, Lsns, Grows
  <2>3. i \in 1 .. Len(wal') /\ wal'[i] = wal[i]
    BY <2>2 DEF Grows, Lsns
  <2>4. i \in Recs(wal', d[2], Len(wal'))
    BY <2>1, <2>3 DEF Recs
  <2>. QED
    BY <2>1, <2>3, <2>4
<1>. QED
  BY <1>2, <1>3, <1>4 DEF Tables

\* mark_transaction_clean forgets nothing of a transaction without pages.
LEMMA CleanedChangesNothing ==
    ASSUME Core, Tables, NEW t \in Txns, NoPages(t), cleaned(t)
    PROVE  dirty_pages' = dirty_pages /\ transaction_dirty_pages' \subseteq transaction_dirty_pages
<1>1. ASSUME NEW p, <<t, p>> \in transaction_dirty_pages
      PROVE  FALSE
  <2>1. <<t, p>>[1] = t /\ <<t, p>>[2] = p
    OBVIOUS
  <2>2. PICK i \in Recs(wal, p, Len(wal)) : wal[i].txn = t
    BY <1>1, <2>1 DEF Tables
  <2>. QED
    BY <2>2 DEF Recs, NoPages, Lsns
<1>2. dirty_pages \in [Pages -> Nat]
  BY DEF Core, Types, LogTypes, Positions
<1>. QED
  BY <1>1, <1>2 DEF cleaned

\* Covered, when the only new checkpoint is one whose table was right.
LEMMA CoveredGoesOn ==
    ASSUME Core, Core', Trust, OneKindOfCrash, LogMoves, Covered, file' = file,
           \A c \in Lsns(wal') \ Lsns(wal) : wal'[c].kind = "CheckpointBegin" =>
              \A p \in Pages : wal'[c].dirty_pages[p] = 0 => CoveredAt(wal', Certain', file', c, p)
    PROVE  Covered'
<1>1. ASSUME NEW c \in Lsns(wal'), wal'[c].kind = "CheckpointBegin", NEW p \in Pages,
             wal'[c].dirty_pages[p] = 0
      PROVE  CoveredAt(wal', Certain', file', c, p)
  <2>1. CASE c \in Lsns(wal)
    <3>1. wal'[c] = wal[c]
      BY <2>1 DEF LogMoves, Grows
    <3>. QED
      BY <1>1, <2>1, <3>1, CoveredStays
  <2>. QED
    BY <1>1, <2>1
<1>. QED
  BY <1>1 DEF Covered

\* A step that changes neither what the log says of pages, nor the data file, nor the commit.
LEMMA SessionFrame ==
    ASSUME Core, Core', Trust, OneKindOfCrash, RecoveryInv, LogMoves, SameReads, Quiet',
           History(cands, wal'), mode = "up",
           UNCHANGED <<file, cands, mode, mem, job, rec, dirty_pages>>,
           transaction_dirty_pages' \subseteq transaction_dirty_pages,
           job # Idle => (Ended(wal', Len(wal'), job.txn) <=> HasEnded(job.txn)),
           checkpoint'.step = "sampled" =>
              \A p \in Pages : checkpoint'.dirty[p] <= LastRec(wal, p, Len(wal)),
           \A c \in Lsns(wal') \ Lsns(wal) : wal'[c].kind = "CheckpointBegin" =>
              \A p \in Pages : wal'[c].dirty_pages[p] = 0 => CoveredAt(wal', Certain', file', c, p)
    PROVE  RecoveryInv'
<1>1. wal \in Seq(Records) /\ Grows /\ Len(wal') \in Nat /\ rec = Idle
  BY CertainMoves DEF Core, Types, LogTypes, LogMoves, Owners
<1>2. Kept' /\ Covered'
  BY KeptStays, CoveredGoesOn DEF RecoveryInv
<1>3. Tables'
  BY <1>1, TablesStay DEF RecoveryInv
<1>4. Committing'
  BY <1>1, CommittingStays DEF RecoveryInv
<1>5. Serving'
  BY ReadsStay DEF RecoveryInv, Serving
<1>6. Restarting'
  BY <1>1 DEF Restarting
<1>. QED
  BY <1>2, <1>3, <1>4, <1>5, <1>6 DEF RecoveryInv

\* Phases change (begin, commit without changes, rollback), the log does not.
LEMMA QuietSame ==
    ASSUME Quiet, wal' = wal,
           \A t \in Txns :
              \/ phase'[t] = phase[t]
              \/ phase'[t] \in {"none", "persist", "done", "gone"}
              \/ /\ phase'[t] \notin {"failed", "orphan"} /\ NoPages(t)
                 /\ phase'[t] \in {"begun", "active", "empty"} => ~HasEnded(t)
    PROVE  Quiet'
<1>1. \A t : (NoPages(t)' <=> NoPages(t)) /\ (HasEnded(t)' <=> HasEnded(t))
  BY DEF NoPages, HasEnded
<1>. QED
  BY <1>1 DEF Quiet

\* A step of a session that only changes phases, statuses or the sampled table.
LEMMA SessionStands ==
    ASSUME Core, Core', Trust, OneKindOfCrash, RecoveryInv, mode = "up", Quiet',
           UNCHANGED <<walVars, file, cands, mode, mem, job, rec>>,
           checkpoint'.step = "sampled" =>
              \A p \in Pages : checkpoint'.dirty[p] <= LastRec(wal, p, Len(wal))
    PROVE  RecoveryInv'
<1>1. wal' = wal /\ UNCHANGED <<synced, durable_lsn, dirty_pages, transaction_dirty_pages>>
  BY DEF walVars
<1>2. LogMoves
  BY <1>1, FlushMoves DEF Core, Types
<1>3. SameReads /\ \A t : Ended(wal', Len(wal'), t) <=> HasEnded(t)
  BY <1>1, SameLogReads
<1>4. History(cands, wal')
  BY <1>1 DEF RecoveryInv
<1>. QED
  BY <1>1, <1>2, <1>3, <1>4, SessionFrame

\* A step of a session that appends one record that changes no page.
LEMMA SessionAppends ==
    ASSUME Core, Core', Trust, OneKindOfCrash, RecoveryInv, LogMoves, mode = "up",
           NEW r \in Records, wal' = Append(wal, r), ~IsPageRecord(r), r.kind # "Resize",
           r.txn # 0 => ~HasEnded(r.txn),
           r.kind = "Begin" => \A i \in Lsns(wal) : wal[i].txn # r.txn,
           r.kind = "CheckpointBegin" =>
              \A p \in Pages : /\ r.dirty_pages[p] <= LastRec(wal, p, Len(wal))
                               /\ r.dirty_pages[p] = 0 => Current(p),
           IsTerminal(r) => NoPages(r.txn) /\ (job # Idle => r.txn # job.txn),
           UNCHANGED <<file, cands, mode, mem, job, rec, dirty_pages>>,
           transaction_dirty_pages' \subseteq transaction_dirty_pages,
           checkpoint'.step = "sampled" =>
              \A p \in Pages : checkpoint'.dirty[p] <= LastRec(wal, p, Len(wal)),
           \A t \in Txns :
              \/ phase'[t] = phase[t] /\ r.txn # t
              \/ phase'[t] \in {"none", "persist", "done", "gone"}
              \/ /\ phase'[t] \notin {"failed", "orphan"} /\ NoPages(t)
                 /\ phase'[t] \in {"begun", "active", "empty"} => ~HasEnded(t) /\ ~IsTerminal(r)
    PROVE  RecoveryInv'
<1>1. /\ wal \in Seq(Records) /\ Len(wal) \in Nat /\ Len(wal') = Len(wal) + 1
      /\ wal'[Len(wal) + 1] = r /\ Lsns(wal') = Lsns(wal) \cup {Len(wal) + 1}
      /\ Lsns(wal) = 1 .. Len(wal)
  BY AppendFacts DEF Core, Types, LogTypes, Lsns
<1>2. WellFormed(wal', Len(wal) + 1)
  BY <1>1, PlainWellFormed DEF HasEnded
<1>3. IsTerminal(r) => Updates(wal, Len(wal), r.txn) = {}
  BY <1>1 DEF NoPages, Updates, IsPageRecord
<1>4. /\ History(cands, wal') /\ SameReads
      /\ \A t : Ended(wal', Len(wal'), t) <=> HasEnded(t) \/ (IsTerminal(r) /\ r.txn = t)
  BY <1>1, <1>2, <1>3, NeutralAppend DEF RecoveryInv
<1>5. Quiet'
  BY <1>1, QuietStays DEF RecoveryInv
<1>6. \A c \in Lsns(wal') \ Lsns(wal) : wal'[c].kind = "CheckpointBegin" =>
              \A p \in Pages : wal'[c].dirty_pages[p] = 0 => CoveredAt(wal', Certain', file', c, p)
  <2>. SUFFICES ASSUME r.kind = "CheckpointBegin", NEW p \in Pages, r.dirty_pages[p] = 0
                PROVE  CoveredAt(wal', Certain', file', Len(wal) + 1, p)
    BY <1>1
  <2>1. Current(p)
    OBVIOUS
  <2>2. At(wal', p, Len(wal) + 1) = At(wal, p, Len(wal))
    BY <1>1, <1>4 DEF SameReads
  <2>. QED
    BY <2>1, <2>2 DEF CoveredAt, Current
<1>7. job # Idle => (Ended(wal', Len(wal'), job.txn) <=> HasEnded(job.txn))
  BY <1>4
<1>. QED
  BY <1>4, <1>5, <1>6, <1>7, SessionFrame

(***************************************************************************)
(* The sessions and the checkpoints.                                       *)
(***************************************************************************)
\* What only moves a session or the status document.
LEMMA RecoverySessionStands ==
    ASSUME Core, Core', Trust, OneKindOfCrash, RecoveryInv, NEW t \in Txns,
           \/ begin_durable(t) \/ commit_empty_status(t) \/ abort_status(t) \/ begin_fails_status(t)
           \/ abort_fails(t) /\ wal' = wal
    PROVE  RecoveryInv'
<1>1. phase[t] \in {"begun", "active", "failed", "aborting"}
  BY DEF begin_durable, commit_empty_status, abort_status, begin_fails_status, abort_fails,
         allocate_transaction
<1>2. mode = "up"
  BY <1>1, BusyIsUp
<1>3. phase \in [Txns -> Phases] /\ phase[t] # "failed" /\ NoPages(t)
      /\ (phase[t] \in {"begun", "active"} => ~HasEnded(t))
  BY <1>1 DEF Core, Types, SessionTypes, RecoveryInv, Quiet
<1>4. UNCHANGED <<walVars, file, cands, mode, mem, job, rec, checkpoint>>
  BY DEF begin_durable, commit_empty_status, abort_status, begin_fails_status, abort_fails, walVars
<1>5. PICK v \in {"active", "empty", "done", "lost"} :
         SetPhase(t, v) /\ (v \in {"active", "empty"} => phase[t] \in {"begun", "active"})
  BY DEF begin_durable, commit_empty_status, abort_status, begin_fails_status, abort_fails,
         allocate_transaction
<1>6. phase'[t] = v /\ \A u \in Txns \ {t} : phase'[u] = phase[u]
  BY <1>3, <1>5 DEF SetPhase
<1>7. Quiet'
  <2>1. wal' = wal
    BY <1>4 DEF walVars
  <2>2. \A u \in Txns :
              \/ phase'[u] = phase[u]
              \/ phase'[u] \in {"none", "persist", "done", "gone"}
              \/ /\ phase'[u] \notin {"failed", "orphan"} /\ NoPages(u)
                 /\ phase'[u] \in {"begun", "active", "empty"} => ~HasEnded(u)
    BY <1>3, <1>5, <1>6
  <2>. QED
    BY <2>1, <2>2, QuietSame DEF RecoveryInv
<1>8. checkpoint'.step = "sampled" =>
              \A p \in Pages : checkpoint'.dirty[p] <= LastRec(wal, p, Len(wal))
  BY <1>4 DEF RecoveryInv, Tables
<1>. QED
  BY <1>2, <1>4, <1>7, <1>8, SessionStands

\* compact_before drops statuses, which recovery does not read.
LEMMA RecoveryCompacts ==
    ASSUME Core, Core', Trust, OneKindOfCrash, RecoveryInv, NEW h \in 1 .. MaxTxn + 1, compact_before(h)
    PROVE  RecoveryInv'
<1>1. mode = "up" /\ UNCHANGED <<walVars, file, cands, mode, mem, job, rec, checkpoint, phase>>
  BY DEF compact_before
<1>2. Quiet'
  BY <1>1, QuietSame DEF RecoveryInv, walVars
<1>3. checkpoint'.step = "sampled" =>
              \A p \in Pages : checkpoint'.dirty[p] <= LastRec(wal, p, Len(wal))
  BY <1>1 DEF RecoveryInv, Tables
<1>. QED
  BY <1>1, <1>2, <1>3, SessionStands

\* The table a checkpoint samples is at most the last record of each page
\* (checkpoint reads dirty_pages before it appends).
LEMMA RecoverySamples ==
    ASSUME Core, Core', Trust, OneKindOfCrash, RecoveryInv, checkpoint_sample
    PROVE  RecoveryInv'
<1>1. mode = "up" /\ UNCHANGED <<walVars, file, cands, mode, mem, job, rec, phase>>
      /\ checkpoint' = [step |-> "sampled", dirty |-> dirty_pages]
  BY DEF checkpoint_sample
<1>2. Quiet'
  BY <1>1, QuietSame DEF RecoveryInv, walVars
<1>3. checkpoint'.step = "sampled" =>
              \A p \in Pages : checkpoint'.dirty[p] <= LastRec(wal, p, Len(wal))
  BY <1>1 DEF RecoveryInv, Tables
<1>. QED
  BY <1>1, <1>2, <1>3, SessionStands

\* A plain record leaves the dirty page table alone.
LEMMA PlainAppend ==
    ASSUME NEW r, append(r), ~IsPageRecord(r)
    PROVE  wal' = Append(wal, r) /\ UNCHANGED <<dirty_pages, transaction_dirty_pages>>
BY DEF append

\* begin appends a Begin record of an id that the log has not seen.
LEMMA RecoveryBegins ==
    ASSUME Core, Core', Trust, OneKindOfCrash, RecoveryInv, NEW t \in Txns,
           begin_transaction(t) \/ begin_fails_flush(t)
    PROVE  RecoveryInv'
<1>. DEFINE r == Begin(t)
<1>1. /\ CanBegin(t) /\ append(r) /\ UNCHANGED <<file, cands, mode, mem, job, rec, checkpoint>>
      /\ SetPhase(t, "begun") \/ phase' = phase
  BY DEF begin_transaction, begin_fails_flush, append_and_flush
<1>2. mode = "up" /\ phase[t] \in {"none", "gone"}
  BY <1>1, CanBeginIsIdle
<1>3. /\ r \in Records /\ r.kind = "Begin" /\ r.txn = t /\ ~IsPageRecord(r) /\ ~IsTerminal(r)
  BY RecordsAre, RecordFields DEF IsPageRecord, IsTerminal
<1>4. \A i \in Lsns(wal) : wal[i].txn # t
  <2>1. t \in Nat
    BY PagesAreNumbers
  <2>. QED
    BY <1>1, <2>1 DEF CanBegin
<1>5. NoPages(t) /\ ~HasEnded(t)
  BY <1>4 DEF NoPages, HasEnded, Ended, Lsns
<1>. HIDE DEF r
<1>6. wal' = Append(wal, r) /\ UNCHANGED <<dirty_pages, transaction_dirty_pages>>
  BY <1>1, <1>3, PlainAppend
<1>7. LogMoves
  BY <1>6, AppendMoves DEF begin_transaction, begin_fails_flush, append_and_flush, Core, Types, r
<1>8. \A u \in Txns :
              \/ phase'[u] = phase[u] /\ r.txn # u
              \/ phase'[u] \in {"none", "persist", "done", "gone"}
              \/ /\ phase'[u] \notin {"failed", "orphan"} /\ NoPages(u)
                 /\ phase'[u] \in {"begun", "active", "empty"} => ~HasEnded(u) /\ ~IsTerminal(r)
  <2>1. phase \in [Txns -> Phases]
    BY DEF Core, Types, SessionTypes
  <2>2. phase'[t] \in {"begun", "none", "gone"} /\ \A u \in Txns \ {t} : phase'[u] = phase[u]
    BY <1>1, <1>2, <2>1 DEF SetPhase
  <2>. QED
    BY <1>3, <1>5, <2>2
<1>9. checkpoint'.step = "sampled" =>
              \A p \in Pages : checkpoint'.dirty[p] <= LastRec(wal, p, Len(wal))
  BY <1>1 DEF RecoveryInv, Tables
<1>. QED
  BY <1>1, <1>2, <1>3, <1>4, <1>5, <1>6, <1>7, <1>8, <1>9, SessionAppends

\* Who ends without having changed a page.
LEMMA RecoveryEnds ==
    ASSUME Core, Core', Trust, OneKindOfCrash, RecoveryInv, NEW t \in Txns,
           \/ commit_empty_wal(t) \/ abort_wal(t)
           \/ abort_fails(t) /\ wal' # wal
    PROVE  RecoveryInv'
<1>1. /\ phase[t] \in {"empty", "active", "failed"}
      /\ UNCHANGED <<file, cands, mode, mem, job, rec, checkpoint>>
  BY DEF commit_empty_wal, abort_wal, abort_fails
<1>2. mode = "up"
  BY <1>1, BusyIsUp
<1>3. /\ phase \in [Txns -> Phases] /\ phase[t] \in {"empty", "active"}
      /\ NoPages(t) /\ ~HasEnded(t) /\ wal \in Seq(Records)
  BY <1>1 DEF Core, Types, SessionTypes, LogTypes, RecoveryInv, Quiet
<1>4. PICK r \in {Commit(t, last_lsn(wal, t)), Abort(t, last_lsn(wal, t))} :
         /\ wal' = Append(wal, r)
         /\ \/ sync(Len(wal) + 1, Len(wal) + 1) /\ cleaned(t)
            \/ UNCHANGED <<synced, durable_lsn, dirty_pages, transaction_dirty_pages>>
  BY RecordFields DEF commit_empty_wal, abort_wal, abort_fails, terminate
<1>5. r \in Records /\ r.kind \in {"Commit", "Abort"} /\ r.txn = t /\ ~IsPageRecord(r)
  <2>1. last_lsn(wal, t) \in Nat
    BY <1>3, LastLsnFacts, LenProperties
  <2>. QED
    BY <2>1, RecordsAre, RecordFields DEF IsPageRecord
<1>6. dirty_pages' = dirty_pages /\ transaction_dirty_pages' \subseteq transaction_dirty_pages
  BY <1>3, <1>4, CleanedChangesNothing DEF RecoveryInv
<1>7. LogMoves
  BY <1>4, AppendMoves DEF Core, Types
<1>8. job # Idle => r.txn # job.txn
  BY <1>3, <1>5 DEF Core, Owners
<1>9. PICK v \in {"done", "aborting", "lost"} : SetPhase(t, v)
  BY DEF commit_empty_wal, abort_wal, abort_fails
<1>10. \A u \in Txns :
              \/ phase'[u] = phase[u] /\ r.txn # u
              \/ phase'[u] \in {"none", "persist", "done", "gone"}
              \/ /\ phase'[u] \notin {"failed", "orphan"} /\ NoPages(u)
                 /\ phase'[u] \in {"begun", "active", "empty"} => ~HasEnded(u) /\ ~IsTerminal(r)
  <2>1. phase'[t] = v /\ \A u \in Txns \ {t} : phase'[u] = phase[u]
    BY <1>3, <1>9 DEF SetPhase
  <2>. QED
    BY <1>3, <1>5, <2>1
<1>11. checkpoint'.step = "sampled" =>
              \A p \in Pages : checkpoint'.dirty[p] <= LastRec(wal, p, Len(wal))
  BY <1>1 DEF RecoveryInv, Tables
<1>. QED
  BY <1>1, <1>2, <1>3, <1>4, <1>5, <1>6, <1>7, <1>8, <1>10, <1>11, SessionAppends

\* A checkpoint lists every page whose last change is not certain to be in the file.
LEMMA RecoveryCheckpoints ==
    ASSUME Core, Core', Trust, OneKindOfCrash, RecoveryInv, checkpoint_begin \/ checkpoint_end
    PROVE  RecoveryInv'
<1>. DEFINE listed == [p \in Pages |-> Earlier(dirty_pages[p], checkpoint.dirty[p])]
<1>1. UNCHANGED <<file, cands, mode, mem, job, rec, phase>> /\ checkpoint'.step # "sampled"
  BY DEF checkpoint_begin, checkpoint_end, Idle
<1>2. mode = "up"
  BY CheckpointKinds DEF checkpoint_begin, checkpoint_end, Core, Owners, Idle
<1>3. dirty_pages \in Positions
  BY DEF Core, Types, LogTypes
<1>4. PICK r \in Records :
         /\ append_and_flush(r) /\ r.txn = 0 /\ r.kind \in {"CheckpointBegin", "CheckpointEnd"}
         /\ r.kind = "CheckpointBegin" =>
              \A p \in Pages : /\ r.dirty_pages[p] <= LastRec(wal, p, Len(wal))
                               /\ r.dirty_pages[p] = 0 => Current(p)
  <2>1. CASE checkpoint_begin
    <3>1. checkpoint.dirty \in Positions /\ checkpoint.step = "sampled"
      BY <2>1, CheckpointKinds DEF checkpoint_begin, Core, Types, SessionTypes
    <3>2. listed \in Positions
      BY <1>3, <3>1 DEF Positions, Earlier
    <3>3. CheckpointBegin(listed) \in Records
      BY <3>2, CheckpointRecords DEF Core, Pointers
    <3>4. ASSUME NEW p \in Pages
          PROVE  /\ listed[p] <= LastRec(wal, p, Len(wal))
                 /\ listed[p] = 0 => Current(p)
      <4>1. /\ dirty_pages[p] \in Nat /\ checkpoint.dirty[p] \in Nat
            /\ listed[p] = Earlier(dirty_pages[p], checkpoint.dirty[p])
        BY <1>3, <3>1 DEF Positions
      <4>2. dirty_pages[p] <= LastRec(wal, p, Len(wal)) /\ checkpoint.dirty[p] <= LastRec(wal, p, Len(wal))
        BY <3>1 DEF RecoveryInv, Tables
      <4>3. listed[p] = 0 => dirty_pages[p] = 0
        BY <4>1 DEF Earlier
      <4>4. listed[p] = dirty_pages[p] \/ listed[p] = checkpoint.dirty[p]
        BY <4>1 DEF Earlier
      <4>5. dirty_pages[p] = 0 => Current(p)
        BY <1>2 DEF RecoveryInv, Serving
      <4>. QED
        BY <4>2, <4>3, <4>4, <4>5
    <3>5. append_and_flush(CheckpointBegin(listed))
      BY <2>1 DEF checkpoint_begin
    <3>6. CheckpointBegin(listed).dirty_pages = listed
      BY DEF CheckpointBegin
    <3>. HIDE DEF listed
    <3>. QED
      BY <3>3, <3>4, <3>5, <3>6, RecordFields
  <2>2. CASE checkpoint_end
    <3>1. CheckpointEnd(checkpoint.lsn) \in Records
      BY <2>2, CheckpointRecords DEF checkpoint_end, Core, Pointers
    <3>. QED
      BY <2>2, <3>1, RecordFields DEF checkpoint_end
  <2>. QED
    BY <2>1, <2>2
<1>5. ~IsPageRecord(r) /\ ~IsTerminal(r)
  BY <1>4 DEF IsPageRecord, IsTerminal
<1>6. wal' = Append(wal, r) /\ UNCHANGED <<dirty_pages, transaction_dirty_pages>>
  BY <1>4, <1>5, PlainAppend DEF append_and_flush
<1>7. LogMoves
  BY <1>4, <1>6, AppendMoves DEF append_and_flush, Core, Types
<1>8. \A u \in Txns : phase'[u] = phase[u] /\ r.txn # u
  BY <1>1, <1>4, PagesAreNumbers
<1>. QED
  BY <1>1, <1>2, <1>4, <1>5, <1>6, <1>7, <1>8, SessionAppends

(***************************************************************************)
(* persist_candidate.  First what the invariant of the log says of pages.  *)
(***************************************************************************)
\* A page of the database can always be read off the log, and no other page is in it.
LEMMA PagesOfTheLog ==
    ASSUME NEW c, NEW w \in Seq(Records), History(c, w), NEW m \in 0 .. Len(w), NEW p \in Pages,
           Size \in Pages
    PROVE  /\ p <= Size => At(w, p, m) \in Image
           /\ p > Size => LastRec(w, p, m) = 0 /\ At(w, p, m) = NoPage
           /\ LastRec(w, p, m) # 0 =>
                 /\ p <= Size /\ At(w, p, m).lsn = LastRec(w, p, m)
                 /\ At(w, p, m) = Img(w[LastRec(w, p, m)])
                 /\ w[LastRec(w, p, m)].txn \in Txns
<1>1. Len(w) \in Nat /\ m \in Nat /\ p \in Nat /\ Size \in Nat
  BY LenProperties, PagesAreNumbers
<1>2. CASE LastRec(w, p, m) # 0
  <2>. DEFINE k == LastRec(w, p, m)
  <2>1. k \in 1 .. m /\ k \in Lsns(w) /\ IsPageRecord(w[k]) /\ w[k].page = p
    <3>1. k \in Recs(w, p, m)
      BY <1>1, <1>2, LastRecFacts
    <3>. QED
      BY <1>1, <3>1 DEF Recs, Lsns
  <2>2. At(w, p, m) = Img(w[k])
    BY <1>2 DEF At
  <2>. HIDE DEF k
  <2>3. WellFormed(w, k) /\ w[k] \in Records
    BY <2>1, LsnsAre DEF History
  <2>4. p <= Size /\ Img(w[k]) \in Image /\ Img(w[k]).lsn = k
    BY <2>1, <2>3 DEF WellFormed, ChangeFits, UndoFits, Img, IsPageRecord
  <2>5. w[k].txn \in Txns
    BY <2>1, <2>3, RecordKinds DEF IsPageRecord, PageUpdates, Compensations
  <2>. QED
    BY <1>1, <1>2, <2>2, <2>4, <2>5 DEF k
<1>3. CASE LastRec(w, p, m) = 0
  <2>1. At(w, p, m) = Blank(p) /\ 0 \in 0 .. MaxTxn
    BY <1>3, DurabilityAssumption DEF At
  <2>. QED
    BY <1>1, <1>3, <2>1 DEF Blank, Image
<1>. QED
  BY <1>2, <1>3

\* Without an open transaction, redo leaves what is served.
LEMMA NothingOpen ==
    ASSUME NEW c, NEW w \in Seq(Records), History(c, w), \A t \in Txns : ~Open(w, Len(w), t),
           NEW p \in Pages, Size \in Pages
    PROVE  At(w, p, Len(w)).val = c[Author(w, Len(w))].val[p]
<1>1. Len(w) \in 0 .. Len(w)
  BY LenProperties
<1>2. Sane(c, w, Len(w))
  BY <1>1 DEF History
<1>3. LastRec(w, p, Len(w)) # 0 => w[LastRec(w, p, Len(w))].txn \in Txns
  BY <1>1, PagesOfTheLog
<1>. QED
  BY <1>2, <1>3 DEF Sane, PageIsServed

\* A step of the running commit that leaves the log and the file alone.
LEMMA JobStands ==
    ASSUME Core, Core', Trust, OneKindOfCrash, RecoveryInv, LogMoves, mode = "up",
           wal' = wal, UNCHANGED <<file, cands, mode, rec, checkpoint>>,
           \A p \in Pages : dirty_pages'[p] = dirty_pages[p] \/ dirty_pages'[p] = 0,
           transaction_dirty_pages' \subseteq transaction_dirty_pages,
           Quiet', Committing', Serving'
    PROVE  RecoveryInv'
<1>1. rec = Idle /\ Lsns(wal') = Lsns(wal) /\ wal \in Seq(Records) /\ Len(wal) \in Nat
  BY LenProperties DEF Core, Owners, Types, LogTypes
<1>2. Kept' /\ Covered'
  BY <1>1, KeptStays, CoveredGoesOn DEF RecoveryInv
<1>3. Tables'
  <2>1. \A p \in Pages : LastRec(wal, p, Len(wal)) \in Nat
    BY <1>1, LastRecFacts
  <2>2. \A p \in Pages : dirty_pages'[p] <= LastRec(wal, p, Len(wal))
    BY <2>1 DEF RecoveryInv, Tables
  <2>. QED
    BY <2>2 DEF RecoveryInv, Tables
<1>4. History(cands, wal)'
  BY DEF RecoveryInv
<1>5. Restarting'
  BY <1>1 DEF Restarting
<1>. QED
  BY <1>2, <1>3, <1>4, <1>5 DEF RecoveryInv

\* The database of the one size.
LEMMA OneSizeIs ==
    ASSUME OneSize
    PROVE  Size \in Pages /\ Size \in Nat \ {0}
<1>1. Size \in PageCounts
  BY DEF OneSize
<1>. QED
  BY <1>1, DurabilityAssumption, PagesAreNumbers DEF Pages

\* The flush of the page records of a commit moves synced only.
LEMMA RecoveryFlushes ==
    ASSUME Core, Core', Trust, OneKindOfCrash, RecoveryInv, log_flush
    PROVE  RecoveryInv'
<1>1. /\ job.step \in {"log", "logged"} /\ job.todo = {} /\ job' = [job EXCEPT !.step = "status"]
      /\ wal' = wal /\ sync(last_lsn(wal, job.txn), Len(wal))
      /\ UNCHANGED <<dirty_pages, transaction_dirty_pages, file, mode, phase, mem, rec, cands, checkpoint>>
  BY DEF log_flush, Core, PagesLogged, Early
<1>2. mode = "up" /\ job \in Jobs /\ job # Idle
  BY <1>1, JobIs DEF Core
<1>3. /\ job'.step = "status" /\ job'.txn = job.txn /\ job'.db = job.db /\ job'.before = job.before
      /\ job'.todo = {} /\ job' # Idle
  BY <1>1, <1>2 DEF Jobs, Idle
<1>4. LogMoves
  BY <1>1, FlushMoves DEF Core, Types
<1>5. Quiet'
  BY <1>1, QuietSame DEF RecoveryInv
<1>6. SameReads
  BY <1>1, SameLogReads
<1>7. /\ \A p : Latest(p)' = Latest(p)
      /\ \A p : Current(p)' <=> Current(p)
      /\ Served' = Served
  BY <1>1, <1>6, ReadsStay
<1>8. \A p : Mine(p)' <=> Mine(p)
  BY <1>1, <1>3, <1>7 DEF Mine
<1>9. Logging'
  <2>1. Logging
    BY <1>1 DEF RecoveryInv, Committing, Early
  <2>. QED
    BY <2>1, <1>1, <1>3, <1>7, <1>8 DEF Logging, Deltas
<1>10. Committing'
  BY <1>1, <1>2, <1>3, <1>9 DEF RecoveryInv, Committing, Unwritten, Early, HasEnded
<1>11. Serving'
  BY <1>1, <1>2, <1>3, <1>6, <1>7, ReadsStay DEF RecoveryInv, Serving, Unwritten, Early
<1>. QED
  BY <1>1, <1>2, <1>4, <1>5, <1>10, <1>11, JobStands

\* Every page that has to be written is logged, and every other one is as it was logged last.
LEMMA RecoveryMarks ==
    ASSUME Core, Core', Trust, OneKindOfCrash, OneSize, RecoveryInv, mark_status_committed
    PROVE  RecoveryInv'
<1>. DEFINE todo == Deltas(file, job.db) \cap 1 .. job.db.cnt
<1>1. /\ job.step = "status" /\ job.todo = {}
      /\ job' = [job EXCEPT !.step = "apply", !.todo = todo]
      /\ UNCHANGED <<walVars, file, mode, phase, mem, rec, cands, checkpoint>>
  BY DEF mark_status_committed, Core, PagesLogged
<1>2. mode = "up" /\ job \in Jobs /\ job # Idle
  BY <1>1, JobIs DEF Core
<1>3. /\ job'.step = "apply" /\ job'.txn = job.txn /\ job'.db = job.db /\ job'.before = job.before
      /\ job'.todo = todo /\ job' # Idle
  BY <1>1, <1>2 DEF Jobs, Idle
<1>4. /\ wal' = wal
      /\ UNCHANGED <<synced, durable_lsn, dirty_pages, transaction_dirty_pages>>
  BY <1>1 DEF walVars
<1>5. LogMoves
  BY <1>4, FlushMoves DEF Core, Types
<1>6. Quiet'
  BY <1>1, <1>4, QuietSame DEF RecoveryInv
<1>7. SameReads
  BY <1>4, SameLogReads
<1>8. /\ \A p : Latest(p)' = Latest(p)
      /\ \A p : Current(p)' <=> Current(p)
      /\ Served' = Served
  BY <1>1, <1>7, ReadsStay
<1>9. \A p : Mine(p)' <=> Mine(p)
  BY <1>3, <1>4, <1>8 DEF Mine
<1>10. ASSUME NEW p \in Pages
       PROVE  IF p \in todo THEN Mine(p) /\ file.page[p].val # job.db.val[p]
              ELSE file.page[p] = Latest(p) /\ file.page[p].val = job.db.val[p]
  <2>1. Logging /\ job.db \in Proper
    BY <1>1, <1>2 DEF RecoveryInv, Committing, Early
  <2>2. CASE p \in Deltas(file, job.db)
    <3>1. Mine(p)
      BY <1>1, <2>1, <2>2 DEF Logging
    <3>2. p <= Size
      <4>1. History(cands, wal) /\ Len(wal) \in 0 .. Len(wal) /\ wal \in Seq(Records)
        BY LenProperties DEF RecoveryInv, Core, Types, LogTypes
      <4>. QED
        BY <3>1, <4>1, PagesOfTheLog, OneSizeIs DEF Mine
    <3>3. p \in 1 .. job.db.cnt
      BY <2>1, <3>2, OneSizeIs, PagesAreNumbers DEF Proper
    <3>. QED
      BY <2>2, <3>1, <3>3 DEF Deltas
  <2>3. CASE p \notin Deltas(file, job.db)
    <3>1. Current(p) /\ file.page[p].val = job.db.val[p]
      BY <2>1, <2>3 DEF Logging, Deltas
    <3>2. file.page[p] = Latest(p)
      BY <3>1 DEF Current, Latest, RecoveryInv, Kept
    <3>. QED
      BY <2>3, <3>1, <3>2
  <2>. QED
    BY <2>2, <2>3
<1>. HIDE DEF todo
<1>11. Applying'
  BY <1>1, <1>3, <1>8, <1>9, <1>10 DEF Applying
<1>12. Committing'
  <2>1. ~Ended(wal', Len(wal'), job'.txn)
    BY <1>1, <1>3, <1>4 DEF RecoveryInv, Committing, Unwritten, Early, HasEnded
  <2>. QED
    BY <1>1, <1>2, <1>3, <1>11, <2>1 DEF RecoveryInv, Committing, Unwritten, Early, HasEnded
<1>13. Serving'
  BY <1>1, <1>2, <1>3, <1>4, <1>7, <1>8, ReadsStay DEF RecoveryInv, Serving, Unwritten, Early
<1>. QED
  BY <1>1, <1>2, <1>4, <1>5, <1>6, <1>12, <1>13, JobStands

\* The flush of the Commit record leaves what is served to the publication.
LEMMA RecoveryCommitFlushes ==
    ASSUME Core, Core', Trust, OneKindOfCrash, RecoveryInv, commit_flush
    PROVE  RecoveryInv'
<1>1. /\ job.step = "commit_flush" /\ job' = [job EXCEPT !.step = "publish"]
      /\ wal' = wal /\ sync(last_lsn(wal, job.txn), Len(wal)) /\ cleaned(job.txn)
      /\ UNCHANGED <<file, mode, phase, mem, rec, cands, checkpoint>>
  BY DEF commit_flush
<1>2. mode = "up" /\ job \in Jobs /\ job # Idle
  BY <1>1, JobIs DEF Core
<1>3. /\ job'.step = "publish" /\ job'.txn = job.txn /\ job'.db = job.db /\ job'.before = job.before
      /\ job' # Idle
  BY <1>1, <1>2 DEF Jobs, Idle
<1>4. /\ \A p \in Pages : dirty_pages'[p] = dirty_pages[p] \/ dirty_pages'[p] = 0
      /\ transaction_dirty_pages' \subseteq transaction_dirty_pages
  BY <1>1 DEF cleaned
<1>5. LogMoves
  BY <1>1, FlushMoves DEF Core, Types
<1>6. Quiet'
  BY <1>1, QuietSame DEF RecoveryInv
<1>7. SameReads
  BY <1>1, SameLogReads
<1>8. /\ \A p : Current(p)' <=> Current(p)
      /\ \A t : StillOpen(t)' <=> StillOpen(t)
      /\ Served' = Served
  BY <1>1, <1>7, ReadsStay
<1>9. Committing'
  BY <1>1, <1>2, <1>3, <1>8 DEF RecoveryInv, Committing, Unwritten, Early
<1>10. Serving'
  BY <1>1, <1>2, <1>3, <1>8 DEF RecoveryInv, Serving, Unwritten, Early
<1>. QED
  BY <1>1, <1>2, <1>4, <1>5, <1>6, <1>9, <1>10, JobStands

\* publish_prepared serves the database whose Commit record is the last winner.
LEMMA RecoveryPublishes ==
    ASSUME Core, Core', Trust, OneKindOfCrash, RecoveryInv, publish_prepared
    PROVE  RecoveryInv'
<1>1. /\ job.step = "publish" /\ job' = Idle /\ mem' = job.db /\ SetPhase(job.txn, "done")
      /\ UNCHANGED <<walVars, file, mode, rec, cands, checkpoint>>
  BY DEF publish_prepared
<1>2. mode = "up" /\ job \in Jobs /\ job # Idle /\ Idle.step = "idle"
  BY <1>1, JobIs, IdleIs DEF Core
<1>3. /\ wal' = wal
      /\ UNCHANGED <<synced, durable_lsn, dirty_pages, transaction_dirty_pages>>
  BY <1>1 DEF walVars
<1>4. LogMoves
  BY <1>3, FlushMoves DEF Core, Types
<1>5. Quiet'
  BY <1>1, <1>3, QuietSame DEF RecoveryInv, SetPhase, Core, Types, SessionTypes
<1>6. SameReads
  BY <1>3, SameLogReads
<1>7. /\ \A p : Current(p)' <=> Current(p)
      /\ \A t : StillOpen(t)' <=> StillOpen(t)
      /\ Served' = Served
  BY <1>1, <1>6, ReadsStay
<1>8. Committing'
  BY <1>1, <1>2 DEF Committing, Unwritten, Early
<1>9. Serving'
  <2>1. Served = job.db /\ \A t \in Txns : ~StillOpen(t)
    BY <1>1, <1>2 DEF RecoveryInv, Committing, Serving, Unwritten, Early
  <2>. QED
    BY <1>1, <1>2, <1>7, <2>1 DEF RecoveryInv, Serving, Unwritten, Early
<1>. QED
  BY <1>1, <1>2, <1>3, <1>4, <1>5, <1>8, <1>9, JobStands

\* build_snapshot: the candidate has the one size too.
LEMMA CandidatesAreProper ==
    ASSUME OneSize, NEW t \in Txns, NEW d \in Proper, NEW e \in Candidates(t, d)
    PROVE  e \in Proper
<1>1. PICK n \in PageCounts, W \in {S \in SUBSET Pages : 1 \in S} :
         e = [cnt |-> n, val |-> [p \in Pages |-> CASE p > n -> -1
                                                   [] p <= n /\ (p \in W \/ p > d.cnt) -> t
                                                   [] OTHER -> d.val[p]]]
  BY DEF Candidates
<1>2. n = Size /\ Size \in Pages /\ d \in Db /\ d.cnt = Size /\ Pages \subseteq Nat
  BY OneSizeIs, PagesAreNumbers DEF OneSize, Proper
<1>3. t \in Nat \ {0} /\ t <= MaxTxn /\ MaxTxn \in Nat
  BY DurabilityAssumption DEF Txns
<1>4. ASSUME NEW p \in Pages
      PROVE  e.val[p] \in -1 .. MaxTxn /\ (e.val[p] # -1 <=> p <= Size)
  <2>1. d.val[p] \in -1 .. MaxTxn /\ (d.val[p] # -1 <=> p <= Size)
    BY <1>2 DEF Proper, Db
  <2>2. p \in Nat /\ n \in Nat /\ d.cnt \in Nat
    BY <1>2
  <2>3. e.val[p] = CASE p > n -> -1
                     [] p <= n /\ (p \in W \/ p > d.cnt) -> t
                     [] OTHER -> d.val[p]
    BY <1>1
  <2>4. CASE p > n
    BY <1>2, <1>3, <2>1, <2>2, <2>3, <2>4
  <2>5. CASE ~(p > n) /\ (p \in W \/ p > d.cnt)
    <3>1. e.val[p] = t
      BY <2>2, <2>3, <2>5
    <3>. QED
      BY <1>2, <1>3, <2>2, <2>5, <3>1
  <2>6. CASE ~(p > n) /\ ~(p \in W \/ p > d.cnt)
    <3>1. e.val[p] = d.val[p]
      BY <2>2, <2>3, <2>6
    <3>. QED
      BY <2>1, <3>1
  <2>. QED
    BY <2>4, <2>5, <2>6
<1>5. e.cnt = Size /\ e = [cnt |-> e.cnt, val |-> e.val] /\ e.val = [p \in Pages |-> e.val[p]]
  BY <1>1, <1>2
<1>6. e \in Db
  BY <1>2, <1>4, <1>5 DEF Db
<1>. QED
  BY <1>4, <1>5, <1>6 DEF Proper

\* prepare_commit starts a job: its pages are those in which the candidate
\* differs from the file.
LEMMA RecoveryPrepares ==
    ASSUME Core, Core', Trust, OneKindOfCrash, OneSize, RecoveryInv, NEW t \in Txns, prepare_commit(t)
    PROVE  RecoveryInv'
<1>1. /\ phase[t] = "active" /\ job = Idle /\ SetPhase(t, "persist")
      /\ UNCHANGED <<walVars, file, mode, mem, rec, checkpoint>>
  BY DEF prepare_commit
<1>2. PICK d \in Candidates(t, mem) :
         /\ job' = [step |-> "log", txn |-> t, db |-> d, before |-> file.cnt, todo |-> Deltas(file, d)]
         /\ cands' = [cands EXCEPT ![t] = d]
  BY DEF prepare_commit
<1>3. /\ wal' = wal
      /\ UNCHANGED <<synced, durable_lsn, dirty_pages, transaction_dirty_pages>>
  BY <1>1 DEF walVars
<1>4. mode = "up" /\ rec = Idle
  BY <1>1, BusyIsUp
<1>5. /\ cands \in [0 .. MaxTxn -> Proper] /\ History(cands, wal) /\ Served = mem /\ ~HasEnded(t)
      /\ \A u \in Txns : ~StillOpen(u)
      /\ \A p \in Pages : Current(p)
      /\ file.cnt = Size /\ \A p \in Pages : file.page[p] \in file.maybe[p]
  BY <1>1, <1>4, IdleIs DEF RecoveryInv, Quiet, Serving, Kept, Unwritten, Early
<1>6. wal \in Seq(Records) /\ Len(wal) \in Nat /\ Len(wal) \in 0 .. Len(wal)
      /\ t \in 0 .. MaxTxn /\ Txns \subseteq 0 .. MaxTxn
  BY LenProperties, DurabilityAssumption DEF Core, Types, LogTypes, Txns
<1>7. d \in Proper
  <2>1. Served \in Proper
    BY <1>5, <1>6, AuthorFacts DEF Served
  <2>. QED
    BY <1>2, <1>5, <2>1, CandidatesAreProper
<1>8. cands' \in [0 .. MaxTxn -> Proper] /\ cands'[t] = d
  BY <1>2, <1>5, <1>6, <1>7
<1>9. History(cands', wal) /\ cands'[Author(wal, Len(wal))] = cands[Author(wal, Len(wal))]
  BY <1>2, <1>5, <1>6, HistoryPrepares DEF HasEnded
<1>10. LogMoves /\ SameReads
  BY <1>3, FlushMoves, SameLogReads DEF Core, Types
<1>11. Served' = Served /\ (\A p : Latest(p)' = Latest(p)) /\ \A p : Current(p)' <=> Current(p)
  <2>1. Served' = Served
    BY <1>3, <1>9 DEF Served
  <2>2. (\A p : Latest(p)' = Latest(p)) /\ \A p : Current(p)' <=> Current(p)
    BY <1>1, <1>10, ReadsStay
  <2>. QED
    BY <2>1, <2>2
<1>12. Kept' /\ Covered'
  BY <1>1, <1>3, <1>10, KeptStays, CoveredGoesOn DEF RecoveryInv
<1>13. Tables'
  BY <1>1, <1>3 DEF RecoveryInv, Tables
<1>14. Quiet'
  BY <1>1, <1>3, QuietSame DEF RecoveryInv, SetPhase, Core, Types, SessionTypes
<1>15. /\ job'.step = "log" /\ job'.txn = t /\ job'.db = d /\ job'.before = Size
       /\ job'.todo = Deltas(file, d)
  BY <1>2, <1>5
<1>16. Logging'
  <2>1. Deltas(file', job'.db) = job'.todo
    BY <1>1, <1>15
  <2>2. \A p \in Pages : Latest(p).val = Served.val[p]
    BY <1>5, <1>6, NothingOpen, OneSizeIs DEF Latest, Served, StillOpen
  <2>3. job'.todo \subseteq Pages
    BY <1>15 DEF Deltas
  <2>. QED
    BY <1>5, <1>11, <2>1, <2>2, <2>3 DEF Logging
<1>17. Committing'
  <2>1. ~Ended(wal', Len(wal'), job'.txn)
    BY <1>3, <1>5, <1>15 DEF HasEnded
  <2>. QED
    BY <1>7, <1>8, <1>15, <1>16, <2>1 DEF Committing, Unwritten, Early, HasEnded
<1>18. Serving'
  <2>1. \A u \in Txns : ~StillOpen(u)'
    BY <1>1, <1>5, <1>10, ReadsStay
  <2>2. job' # Idle
    BY <1>15 DEF Idle
  <2>. QED
    BY <1>5, <1>11, <2>1, <2>2 DEF Serving
<1>19. Restarting' /\ mode' # "failed"
  BY <1>1, <1>4 DEF Restarting
<1>. QED
  BY <1>3, <1>8, <1>9, <1>12, <1>13, <1>14, <1>17, <1>18, <1>19 DEF RecoveryInv

\* Another change by the one transaction that may change pages.
LEMMA ChangeAppend ==
    ASSUME NEW c, NEW w \in Seq(Records), NEW r \in Records, History(c, w),
           r.kind = "PageUpdate", r.txn \in Txns, r.page \in Pages, r.page <= Size,
           r.before \in Image, r.after \in Image, r.after.lsn = Len(w) + 1,
           r.prev = last_lsn(w, r.txn), r.prev # 0, ~Ended(w, Len(w), r.txn),
           \A t \in Txns : Open(w, Len(w), t) => t = r.txn,
           r.before.val = c[Author(w, Len(w))].val[r.page]
    PROVE  History(c, Append(w, r))
<1>. DEFINE n == Len(w)
            u == Append(w, r)
<1>1. /\ n \in Nat /\ Len(u) = n + 1 /\ u[n + 1] = r /\ (\A i \in 1 .. n : u[i] = w[i])
      /\ Lsns(w) = 1 .. n
  BY AppendFacts DEF Lsns
<1>2. IsPageRecord(r) /\ ~IsTerminal(r) /\ r.kind # "Commit"
  BY DEF IsPageRecord, IsTerminal
<1>3. LastRec(u, r.page, n + 1) = n + 1
  BY <1>2, AppendReads
<1>4. \A q : q # r.page => LastRec(u, q, n + 1) = LastRec(w, q, n) /\ At(u, q, n + 1) = At(w, q, n)
  BY AppendReads, Zenon
<1>5. Updates(u, n + 1, r.txn) = Updates(w, n, r.txn) \cup {n + 1}
  BY AppendReads
<1>6. \A t : t # r.txn => Updates(u, n + 1, t) = Updates(w, n, t)
  BY AppendReads, Zenon
<1>7. \A t : Ended(u, n + 1, t) <=> Ended(w, n, t)
  BY <1>2, AppendReads, Zenon
<1>8. Author(u, n + 1) = Author(w, n)
  BY <1>2, AppendReads
<1>9. Sane(c, w, n) /\ \A i \in 1 .. n : WellFormed(w, i)
  BY <1>1 DEF History
<1>10. WellFormed(u, n + 1)
  <2>1. r.prev \in 1 .. n /\ w[r.prev].txn = r.txn /\ \A j \in Lsns(w) : w[j].txn = r.txn => j <= r.prev
    BY <1>1, LastLsnFacts
  <2>2. u[r.prev].txn = r.txn /\ \A j \in r.prev + 1 .. n : u[j].txn # r.txn
    BY <1>1, <2>1
  <2>3. n + 1 - 1 = n
    BY <1>1
  <2>4. ChangeFits(u, n + 1)
    BY <1>1, <2>1, <2>2, <2>3 DEF ChangeFits
  <2>5. ~Ended(u, n, r.txn)
    BY <1>1 DEF Ended
  <2>. HIDE DEF n, u
  <2>. QED
    BY <1>1, <2>3, <2>4, <2>5 DEF WellFormed
<1>. HIDE DEF n, u
<1>11. \A t \in Txns : Open(u, n + 1, t) => t = r.txn
  <2>1. \A t \in Txns : Open(w, n, t) => t = r.txn
    BY DEF n
  <2>. QED
    BY <1>6, <1>7, <2>1 DEF Open
<1>12. OneOpen(u, n + 1)
  BY <1>11 DEF OneOpen
<1>13. BeforeIsServed(c, u, n + 1)
  <2>1. ASSUME NEW i \in Updates(u, n + 1, r.txn)
        PROVE  u[i].before.val = c[Author(u, n + 1)].val[u[i].page]
    <3>1. CASE i = n + 1
      BY <1>1, <1>8, <3>1 DEF n
    <3>2. CASE i \in Updates(w, n, r.txn)
      <4>1. Open(w, n, r.txn) /\ u[i] = w[i]
        BY <1>1, <3>2 DEF Open, Updates, n
      <4>. QED
        BY <1>8, <1>9, <3>2, <4>1 DEF Sane, BeforeIsServed
    <3>. QED
      BY <1>5, <3>1, <3>2
  <2>. QED
    BY <1>11, <2>1 DEF BeforeIsServed
<1>14. PageIsServed(c, u, n + 1)
  <2>. SUFFICES ASSUME NEW q \in Pages
                PROVE  \/ At(u, q, n + 1).val = c[Author(u, n + 1)].val[q]
                       \/ /\ LastRec(u, q, n + 1) # 0 /\ u[LastRec(u, q, n + 1)].kind = "PageUpdate"
                          /\ Open(u, n + 1, u[LastRec(u, q, n + 1)].txn)
    BY DEF PageIsServed
  <2>1. Open(u, n + 1, r.txn)
    BY <1>5, <1>7 DEF Open, n
  <2>2. CASE q = r.page
    <3>1. u[LastRec(u, q, n + 1)] = r /\ LastRec(u, q, n + 1) # 0
      BY <1>1, <1>3, <2>2
    <3>. QED
      BY <2>1, <3>1
  <2>3. CASE q # r.page
    <3>1. LastRec(u, q, n + 1) = LastRec(w, q, n) /\ At(u, q, n + 1) = At(w, q, n)
      BY <1>4, <2>3
    <3>2. LastRec(w, q, n) # 0 => LastRec(w, q, n) \in 1 .. n
      BY <1>1, LastRecFacts DEF Recs
    <3>3. LastRec(w, q, n) # 0 => u[LastRec(w, q, n)] = w[LastRec(w, q, n)]
      BY <1>1, <3>2
    <3>4. \A t : Open(w, n, t) => Open(u, n + 1, t)
      BY <1>5, <1>6, <1>7 DEF Open
    <3>. QED
      BY <1>8, <1>9, <3>1, <3>3, <3>4 DEF Sane, PageIsServed
  <2>. QED
    BY <2>2, <2>3
<1>15. Sane(c, u, n + 1)
  BY <1>12, <1>13, <1>14 DEF Sane
<1>. QED
  BY <1>10, <1>15, HistoryGrows DEF n, u

\* apply_record_state: the entry of the page is this record, or an earlier one of the page.
LEMMA TablesPage ==
    ASSUME Core, Tables, NEW r \in Records, append(r), IsPageRecord(r), checkpoint' = checkpoint
    PROVE  /\ Tables'
           /\ \A q \in Pages : dirty_pages'[q] = 0 => dirty_pages[q] = 0 /\ q # r.page
<1>1. /\ wal \in Seq(Records) /\ Len(wal) \in Nat /\ wal' = Append(wal, r) /\ Len(wal') = Len(wal) + 1
      /\ wal'[Len(wal) + 1] = r /\ \A i \in 1 .. Len(wal) : wal'[i] = wal[i]
  BY AppendFacts DEF append, Core, Types, LogTypes, Lsns
<1>2. /\ dirty_pages' = [dirty_pages EXCEPT ![r.page] = IF @ = 0 THEN Len(wal) + 1 ELSE @]
      /\ transaction_dirty_pages' = transaction_dirty_pages \cup {<<r.txn, r.page>>}
      /\ dirty_pages \in [Pages -> Nat]
  BY DEF append, Core, Types, LogTypes, Positions
<1>3. \A q : LastRec(wal', q, Len(wal')) = IF q = r.page THEN Len(wal) + 1 ELSE LastRec(wal, q, Len(wal))
  <2>1. LastRec(wal', r.page, Len(wal) + 1) = Len(wal) + 1
    BY <1>1, AppendReads
  <2>2. \A q : q # r.page => LastRec(wal', q, Len(wal) + 1) = LastRec(wal, q, Len(wal))
    BY <1>1, AppendReads, Zenon
  <2>. QED
    BY <1>1, <2>1, <2>2
<1>4. \A q : LastRec(wal, q, Len(wal)) \in 0 .. Len(wal)
  BY <1>1, LastRecFacts
<1>5. ASSUME NEW q \in Pages
      PROVE  /\ dirty_pages'[q] <= LastRec(wal', q, Len(wal'))
             /\ dirty_pages'[q] = 0 => dirty_pages[q] = 0 /\ q # r.page
  <2>1. dirty_pages[q] \in Nat /\ dirty_pages[q] <= LastRec(wal, q, Len(wal))
        /\ LastRec(wal, q, Len(wal)) \in 0 .. Len(wal)
    BY <1>2, <1>4 DEF Tables
  <2>2. CASE q = r.page
    BY <1>1, <1>2, <1>3, <2>1, <2>2
  <2>3. CASE q # r.page
    BY <1>2, <1>3, <2>1, <2>3
  <2>. QED
    BY <2>2, <2>3
<1>6. ASSUME checkpoint'.step = "sampled", NEW q \in Pages
      PROVE  checkpoint'.dirty[q] <= LastRec(wal', q, Len(wal'))
  <2>1. checkpoint.dirty \in Positions
    BY <1>6, CheckpointKinds DEF Core, Types, SessionTypes
  <2>2. checkpoint.dirty[q] \in Nat /\ checkpoint.dirty[q] <= LastRec(wal, q, Len(wal))
    BY <1>6, <2>1 DEF Tables, Positions
  <2>. QED
    BY <1>1, <1>3, <1>4, <2>2
<1>7. ASSUME NEW d \in transaction_dirty_pages'
      PROVE  \E i \in Recs(wal', d[2], Len(wal')) : wal'[i].txn = d[1]
  <2>1. CASE d = <<r.txn, r.page>>
    <3>1. Len(wal) + 1 \in Recs(wal', r.page, Len(wal'))
      BY <1>1 DEF Recs
    <3>. QED
      BY <1>1, <2>1, <3>1
  <2>2. CASE d \in transaction_dirty_pages
    <3>1. PICK i \in Recs(wal, d[2], Len(wal)) : wal[i].txn = d[1]
      BY <2>2 DEF Tables
    <3>2. i \in Recs(wal', d[2], Len(wal')) /\ wal'[i].txn = d[1]
      BY <1>1, <3>1 DEF Recs
    <3>. QED
      BY <3>2
  <2>. QED
    BY <1>2, <1>7, <2>1, <2>2
<1>8. Tables'
  BY <1>5, <1>6, <1>7 DEF Tables
<1>. QED
  BY <1>5, <1>8

\* log_prepared, one page: what it would put back is what is served.
LEMMA RecoveryLogsPage ==
    ASSUME Core, Core', Trust, OneKindOfCrash, OneSize, RecoveryInv, log_page
    PROVE  RecoveryInv'
<1>0. PICK p : p = Min(job.todo)
  OBVIOUS
<1>. DEFINE t == job.txn
            n == Len(wal) + 1
            r == PageUpdate(t, last_lsn(wal, t), p, file.page[p], After(p, n))
<1>1. job.step = "log" /\ job.todo # {}
  BY DEF log_page
<1>2. /\ job \in Jobs /\ job # Idle /\ t \in Txns /\ job.todo \subseteq Pages /\ phase[t] = "persist"
      /\ mode = "up" /\ rec = Idle
  BY <1>1, JobIs DEF Core
<1>3. p \in job.todo /\ p \in Pages
  BY <1>0, <1>1, <1>2, PagesAreNumbers, MinFacts
<1>4. wal \in Seq(Records) /\ Len(wal) \in Nat /\ Len(wal) \in 0 .. Len(wal)
  BY LenProperties DEF Core, Types, LogTypes
<1>5. /\ append(r) /\ job' = [job EXCEPT !.todo = @ \ {p}]
      /\ UNCHANGED <<synced, durable_lsn, file, mode, phase, mem, checkpoint, rec, cands>>
  BY <1>0 DEF log_page
<1>6. /\ r.kind = "PageUpdate" /\ r.txn = t /\ r.page = p /\ r.prev = last_lsn(wal, t)
      /\ r.before = file.page[p] /\ r.after = After(p, n) /\ IsPageRecord(r) /\ ~IsTerminal(r)
  BY DEF PageUpdate, IsPageRecord, IsTerminal
<1>. HIDE DEF t
<1>7. /\ Logging /\ ~HasEnded(t) /\ job.db \in Proper /\ History(cands, wal)
      /\ Committing /\ Serving /\ Kept
  BY <1>1, <1>2 DEF RecoveryInv, Committing, Early, Unwritten, t
<1>8. /\ p \in Deltas(file, job.db) /\ Current(p) /\ Latest(p).val = Served.val[p]
  BY <1>3, <1>7 DEF Logging
<1>9. file.page[p] = Latest(p)
  BY <1>3, <1>7, <1>8 DEF Kept, Current, Latest
<1>10. p <= Size
  <2>1. p > Size => Latest(p) = NoPage
    BY <1>3, <1>4, <1>7, PagesOfTheLog, OneSizeIs DEF Latest
  <2>2. p > Size => job.db.val[p] = -1
    BY <1>3, <1>7, OneSizeIs, PagesAreNumbers DEF Proper
  <2>. QED
    BY <1>3, <1>8, <1>9, <2>1, <2>2, OneSizeIs, PagesAreNumbers DEF Deltas, NoPage
<1>11. /\ r.before \in Image /\ r.after \in Image /\ r.after.lsn = n
       /\ r.after.val = job.db.val[p]
  <2>1. Latest(p) \in Image
    BY <1>3, <1>4, <1>7, <1>10, PagesOfTheLog, OneSizeIs DEF Latest
  <2>2. After(p, n) = [lsn |-> n, val |-> job.db.val[p]]
    BY <1>7, <1>10 DEF After, Proper
  <2>3. job.db.val[p] \in -1 .. MaxTxn /\ job.db.val[p] # -1 /\ MaxTxn \in Nat
    BY <1>3, <1>7, <1>10, DurabilityAssumption DEF Proper, Db
  <2>4. [lsn |-> n, val |-> job.db.val[p]] \in Image
    BY <1>4, <2>3 DEF Image
  <2>. QED
    BY <1>6, <1>9, <2>1, <2>2, <2>4
<1>12. last_lsn(wal, t) # 0 /\ last_lsn(wal, t) \in Nat
  <2>1. PICK i \in Lsns(wal) : wal[i].txn = t
    BY <1>2 DEF Core, Begun
  <2>2. i <= last_lsn(wal, t) /\ i \in Nat \ {0} /\ last_lsn(wal, t) \in Nat
    BY <1>4, <2>1, LastLsnFacts, LsnsAre
  <2>. QED
    BY <2>2
<1>13. r \in Records
  <2>1. r.before \in Versions /\ r.after \in Versions
    BY <1>11, DurabilityAssumption DEF Image, Versions
  <2>2. r \in PageUpdates
    BY <1>2, <1>3, <1>6, <1>12, <2>1, RecordsAre
  <2>. QED
    BY <2>2 DEF Records
<1>14. \A u \in Txns : StillOpen(u) => u = t
  BY <1>2, <1>7 DEF Serving, t
<1>. HIDE DEF r, n
<1>15. wal' = Append(wal, r)
  BY <1>5 DEF append
<1>16. History(cands, wal')
  <2>1. r.before.val = cands[Author(wal, Len(wal))].val[r.page]
    BY <1>6, <1>8, <1>9 DEF Served
  <2>. QED
    BY <1>2, <1>3, <1>4, <1>6, <1>7, <1>10, <1>11, <1>12, <1>13, <1>14, <1>15, <2>1, ChangeAppend
       DEF StillOpen, HasEnded, n
<1>17. LogMoves
  BY <1>5, <1>15, AppendMoves DEF Core, Types
<1>18. /\ Len(wal') = n /\ wal'[n] = r /\ Lsns(wal') = Lsns(wal) \cup {n} /\ n # 0
       /\ (\A i \in Lsns(wal) : wal'[i] = wal[i]) /\ Lsns(wal) = 1 .. Len(wal)
  BY <1>4, <1>13, <1>15, AppendFacts DEF Lsns, n
<1>19. Kept' /\ Covered'
  <2>1. \A c \in Lsns(wal') \ Lsns(wal) : wal'[c].kind # "CheckpointBegin"
    BY <1>6, <1>18
  <2>. QED
    BY <1>5, <1>17, <2>1, KeptStays, CoveredGoesOn DEF RecoveryInv
<1>20. Tables' /\ \A q \in Pages : dirty_pages'[q] = 0 => dirty_pages[q] = 0 /\ q # p
  BY <1>5, <1>6, <1>13, TablesPage DEF RecoveryInv
<1>21. /\ LastRec(wal', p, Len(wal')) = n /\ Latest(p)' = r.after
       /\ \A q : q # p => LastRec(wal', q, Len(wal')) = LastRec(wal, q, Len(wal)) /\ Latest(q)' = Latest(q)
  <2>1. LastRec(wal', p, n) = n /\ At(wal', p, n) = Img(r)
    BY <1>4, <1>6, <1>13, <1>15, AppendReads DEF n
  <2>2. \A q : q # p => LastRec(wal', q, n) = LastRec(wal, q, Len(wal)) /\ At(wal', q, n) = At(wal, q, Len(wal))
    BY <1>4, <1>6, <1>13, <1>15, AppendReads, Zenon DEF n
  <2>3. Img(r) = r.after
    BY <1>6 DEF Img
  <2>. QED
    BY <1>18, <2>1, <2>2, <2>3 DEF Latest
<1>22. Served' = Served /\ \A u : Ended(wal', Len(wal'), u) <=> HasEnded(u)
  <2>1. Author(wal', n) = Author(wal, Len(wal))
    BY <1>4, <1>6, <1>13, <1>15, AppendReads DEF n
  <2>2. \A u : Ended(wal', n, u) <=> Ended(wal, Len(wal), u)
    BY <1>4, <1>6, <1>13, <1>15, AppendReads, Zenon DEF n
  <2>. QED
    BY <1>5, <1>18, <2>1, <2>2 DEF Served, HasEnded
<1>23. \A q : q # p => (Current(q)' <=> Current(q))
  BY <1>5, <1>21 DEF Current, Latest
<1>24. /\ job'.step = "log" /\ job'.txn = t /\ job'.db = job.db /\ job'.before = job.before
       /\ job'.todo = job.todo \ {p} /\ job' # Idle
  BY <1>1, <1>2, <1>5 DEF Jobs, Idle, t
<1>25. \A q : q # p /\ Mine(q) => Mine(q)'
  <2>1. \A q : LastRec(wal, q, Len(wal)) # 0 => LastRec(wal, q, Len(wal)) \in Lsns(wal)
    BY <1>4, <1>18, LastRecFacts DEF Recs
  <2>2. \A q : LastRec(wal, q, Len(wal)) # 0 => wal'[LastRec(wal, q, Len(wal))] = wal[LastRec(wal, q, Len(wal))]
    BY <1>18, <2>1
  <2>. QED
    BY <1>21, <1>24, <2>2 DEF Mine, t
<1>26. Mine(p)'
  <2>1. wal'[LastRec(wal', p, Len(wal'))] = r /\ LastRec(wal', p, Len(wal')) # 0
    BY <1>18, <1>21
  <2>2. Latest(p)'.val = job'.db.val[p]
    BY <1>11, <1>21, <1>24
  <2>. QED
    BY <1>6, <1>24, <2>1, <2>2 DEF Mine
<1>27. Logging'
  <2>1. Deltas(file', job'.db) = Deltas(file, job.db)
    BY <1>5, <1>24
  <2>2. job'.todo \subseteq Deltas(file', job'.db)
    BY <1>7, <1>24, <2>1 DEF Logging
  <2>3. \A q \in Deltas(file', job'.db) \ job'.todo : Mine(q)'
    <3>1. \A q \in Deltas(file, job.db) \ job.todo : Mine(q)
      BY <1>7 DEF Logging
    <3>. QED
      BY <1>24, <1>25, <1>26, <2>1, <3>1
  <2>4. \A q \in Pages : q \notin Deltas(file', job'.db) \/ q \in job'.todo => Current(q)'
    BY <1>7, <1>8, <1>23, <1>24, <2>1 DEF Logging
  <2>5. \A q \in job'.todo : Latest(q)'.val = Served'.val[q]
    BY <1>7, <1>21, <1>22, <1>24 DEF Logging
  <2>. QED
    BY <2>2, <2>3, <2>4, <2>5 DEF Logging
<1>28. Committing'
  <2>1. ~Ended(wal', Len(wal'), job'.txn)
    BY <1>7, <1>22, <1>24
  <2>. QED
    BY <1>2, <1>5, <1>7, <1>24, <1>27, <2>1 DEF Committing, Unwritten, Early, HasEnded, t
<1>29. Serving'
  <2>1. ASSUME NEW u \in Txns, StillOpen(u)'
        PROVE  u = t
    <3>1. CASE u # t
      <4>1. Updates(wal', n, u) = Updates(wal, Len(wal), u)
        <5>1. ~(r.kind = "PageUpdate" /\ r.txn = u)
          BY <1>6, <3>1
        <5>. QED
          BY <1>4, <1>13, <1>15, <5>1, AppendReads DEF n
      <4>2. StillOpen(u)
        BY <1>18, <1>22, <2>1, <4>1 DEF StillOpen, Open, HasEnded
      <4>. QED
        BY <1>14, <4>2
    <3>. QED
      BY <3>1
  <2>2. \A q \in Pages : dirty_pages'[q] = 0 => Current(q)'
    BY <1>2, <1>7, <1>20, <1>23 DEF Serving
  <2>. QED
    BY <1>24, <2>1, <2>2 DEF Serving, Unwritten, Early
<1>30. Quiet'
  <2>1. \A u \in Txns : (phase'[u] = phase[u] /\ r.txn # u) \/ phase'[u] \in {"none", "persist", "done", "gone"}
    BY <1>2, <1>5, <1>6
  <2>. QED
    BY <1>4, <1>13, <1>15, <2>1, QuietStays DEF RecoveryInv
<1>31. Restarting' /\ mode' # "failed" /\ cands' \in [0 .. MaxTxn -> Proper]
  BY <1>2, <1>5 DEF RecoveryInv, Restarting
<1>. QED
  BY <1>5, <1>16, <1>19, <1>20, <1>28, <1>29, <1>30, <1>31 DEF RecoveryInv

(***************************************************************************)
(* Writing an image of the log to the data file.                           *)
(***************************************************************************)
\* What Kept says of a file f beside a log w of which l records are certain.
KeptBy(w, l, f) ==
    /\ f.cnt = Size /\ f.maybe_cnt = {Size}
    /\ \A p \in Pages : f.page[p] \in f.maybe[p]
    /\ \A p \in Pages : \A v \in f.maybe[p] : Version(w, l, p, v)

\* What WritePage does to a file of the right size.
LEMMA WriteFacts ==
    ASSUME NEW f \in Files, f.cnt = Size, f.maybe_cnt = {Size}, NEW p \in Pages, p <= Size, Size \in Nat,
           NEW v
    PROVE  /\ WritePage(f, p, v).cnt = Size /\ WritePage(f, p, v).maybe_cnt = {Size}
           /\ WritePage(f, p, v).page[p] = v
           /\ WritePage(f, p, v).maybe[p] = f.maybe[p] \cup {v, NoPage}
           /\ \A q \in Pages : q # p => /\ WritePage(f, p, v).page[q] = f.page[q]
                                        /\ WritePage(f, p, v).maybe[q] = f.maybe[q]
<1>1. p \in Nat /\ ~(p > f.cnt)
  BY PagesAreNumbers
<1>2. f.page \in [Pages -> Versions] /\ f.maybe \in [Pages -> SUBSET Versions]
  BY DEF Files
<1>. QED
  BY <1>1, <1>2 DEF WritePage

\* Writing an image of the log keeps the file one of images of the log.
LEMMA WriteIsKept ==
    ASSUME NEW w, NEW l \in Nat, NEW f \in Files, KeptBy(w, l, f), Size \in Nat,
           NEW p \in Pages, p <= Size, NEW k \in Recs(w, p, l), NEW v, v = At(w, p, k), v.lsn = k
    PROVE  KeptBy(w, l, WritePage(f, p, v))
<1>. DEFINE g == WritePage(f, p, v)
<1>1. /\ g.cnt = Size /\ g.maybe_cnt = {Size} /\ g.page[p] = v
      /\ g.maybe[p] = f.maybe[p] \cup {v, NoPage}
      /\ \A q \in Pages : q # p => g.page[q] = f.page[q] /\ g.maybe[q] = f.maybe[q]
  BY WriteFacts DEF KeptBy
<1>. HIDE DEF g
<1>2. k \in 1 .. l /\ k \in Nat /\ k \in Recs(w, p, k) /\ \A i \in Recs(w, p, k) : i <= k
  BY DEF Recs
<1>3. LastRec(w, p, k) = k
  BY <1>2, LastRecIs
<1>4. LastRec(w, p, l) # 0
  BY LastRecFacts
<1>5. Version(w, l, p, v) /\ Version(w, l, p, NoPage)
  BY <1>2, <1>3, <1>4 DEF Version
<1>6. ASSUME NEW q \in Pages
      PROVE  g.page[q] \in g.maybe[q] /\ \A x \in g.maybe[q] : Version(w, l, q, x)
  <2>1. CASE q = p
    BY <1>1, <1>5, <2>1 DEF KeptBy
  <2>2. CASE q # p
    BY <1>1, <2>2 DEF KeptBy
  <2>. QED
    BY <2>1, <2>2
<1>. QED
  BY <1>1, <1>6 DEF KeptBy, g

\* A step of the running commit that writes to the file alone.
LEMMA JobWrites ==
    ASSUME Core, Core', Trust, OneKindOfCrash, RecoveryInv, mode = "up", wal' = wal,
           UNCHANGED <<cands, mode, rec, checkpoint, phase, dirty_pages, transaction_dirty_pages>>,
           Kept', Covered', Committing', Serving'
    PROVE  RecoveryInv'
<1>1. rec = Idle
  BY DEF Core, Owners
<1>2. Tables' /\ Quiet' /\ History(cands, wal)'
  BY QuietSame DEF RecoveryInv, Tables
<1>3. Restarting'
  BY <1>1 DEF Restarting
<1>. QED
  BY <1>2, <1>3 DEF RecoveryInv

\* apply_prepared, one page: the image that was logged, after the barrier.
LEMMA RecoveryAppliesPage ==
    ASSUME Core, Core', Trust, OneKindOfCrash, OneSize, RecoveryInv, apply_page
    PROVE  RecoveryInv'
<1>0. PICK p : p = Min(job.todo)
  OBVIOUS
<1>1. job.step = "apply" /\ job.todo # {}
  BY DEF apply_page
<1>2. /\ job \in Jobs /\ job # Idle /\ job.txn \in Txns /\ job.todo \subseteq Pages
      /\ mode = "up" /\ rec = Idle
  BY <1>1, JobIs DEF Core
<1>3. p \in job.todo /\ p \in Pages
  BY <1>0, <1>1, <1>2, PagesAreNumbers, MinFacts
<1>4. /\ wal \in Seq(Records) /\ Len(wal) \in Nat /\ Len(wal) \in 0 .. Len(wal)
      /\ Lsns(wal) = 1 .. Len(wal) /\ file \in Files
  BY LenProperties DEF Core, Types, LogTypes, Lsns
<1>5. PICK l : l = LoggedLsn(job.txn, p)
  OBVIOUS
<1>6. /\ sync(l, Len(wal)) /\ file' = WritePage(file, p, After(p, l))
      /\ job' = [job EXCEPT !.todo = @ \ {p}] /\ wal' = wal
      /\ UNCHANGED <<dirty_pages, transaction_dirty_pages, mode, phase, mem, checkpoint, rec, cands>>
  BY <1>0, <1>5 DEF apply_page
<1>7. /\ Applying /\ ~HasEnded(job.txn) /\ job.db \in Proper /\ History(cands, wal)
      /\ Committing /\ Serving /\ Kept /\ Covered
  BY <1>1, <1>2 DEF RecoveryInv, Committing, Early, Unwritten
<1>8. Mine(p) /\ file.page[p].val # job.db.val[p]
  BY <1>3, <1>7 DEF Applying
<1>9. l = LastRec(wal, p, Len(wal)) /\ l \in Recs(wal, p, Len(wal)) /\ wal[l].kind = "PageUpdate"
      /\ wal[l].txn = job.txn /\ l \in 1 .. Len(wal)
  <2>. DEFINE k == LastRec(wal, p, Len(wal))
              S == {i \in Lsns(wal) : wal[i].kind = "PageUpdate" /\ wal[i].txn = job.txn /\ wal[i].page = p}
  <2>1. k # 0 /\ wal[k].kind = "PageUpdate" /\ wal[k].txn = job.txn
    BY <1>8 DEF Mine
  <2>2. k \in Recs(wal, p, Len(wal)) /\ \A i \in Recs(wal, p, Len(wal)) : i <= k
    BY <1>4, <2>1, LastRecFacts
  <2>3. k \in S /\ S \subseteq Recs(wal, p, Len(wal)) /\ S \subseteq Nat
    BY <1>4, <2>1, <2>2 DEF Recs, IsPageRecord
  <2>4. l = Max(S)
    BY <1>5 DEF LoggedLsn
  <2>. HIDE DEF S, k
  <2>5. \A i \in S : i <= k
    BY <2>2, <2>3
  <2>7. Max(S) \in S /\ \A i \in S : Max(S) >= i
    <3>1. S \subseteq 0 .. Len(wal) /\ S # {}
      BY <1>4, <2>3 DEF Recs
    <3>. QED
      BY <1>4, <3>1, MaxFacts
  <2>8. l = k
    <3>1. l \in S /\ l >= k
      BY <2>3, <2>4, <2>7
    <3>2. l <= k /\ l \in Nat /\ k \in Nat
      BY <2>3, <2>5, <3>1
    <3>. QED
      BY <3>1, <3>2
  <2>. QED
    BY <2>1, <2>2, <2>8 DEF k, Recs
<1>10. p <= Size /\ Latest(p).lsn = l /\ Latest(p) = wal[l].after /\ Latest(p) \in Image
  BY <1>3, <1>4, <1>7, <1>9, PagesOfTheLog, OneSizeIs DEF Latest, Img
<1>11. After(p, l) = Latest(p)
  <2>1. Latest(p).val = job.db.val[p]
    BY <1>8 DEF Mine
  <2>2. After(p, l) = [lsn |-> l, val |-> job.db.val[p]]
    BY <1>7, <1>10 DEF After, Proper
  <2>. QED
    BY <1>10, <2>1, <2>2 DEF Image
<1>12. l <= Certain' /\ Certain' \in 0 .. Len(wal) /\ LogMoves
  <2>1. LogMoves
    BY <1>6, FlushMoves DEF Core, Types
  <2>2. Certain' \in 0 .. Len(wal)
    BY <1>6, <2>1, CertainMoves
  <2>3. l \in 0 .. Len(wal)
    BY <1>9
  <2>4. l <= Certain'
    BY <1>6, <2>3, FlushedIsCertain
  <2>. QED
    BY <2>1, <2>2, <2>4
<1>13. Certain \in 0 .. Len(wal) /\ Certain <= Certain'
  BY <1>12, CertainIs, CertainMoves
<1>14. /\ file'.cnt = Size /\ file'.maybe_cnt = {Size} /\ file'.page[p] = Latest(p)
       /\ file'.maybe[p] = file.maybe[p] \cup {Latest(p), NoPage}
       /\ \A q \in Pages : q # p => file'.page[q] = file.page[q] /\ file'.maybe[q] = file.maybe[q]
  BY <1>3, <1>4, <1>6, <1>7, <1>10, <1>11, WriteFacts, OneSizeIs DEF Kept
<1>15. At(wal, p, l) = Latest(p)
  <2>1. LastRec(wal, p, l) = l
    BY <1>4, <1>9, LastRecGrows
  <2>. QED
    BY <1>9, <2>1 DEF At, Latest
<1>16. LastRec(wal, p, Certain') = l
  BY <1>4, <1>9, <1>12, LastRecGrows
<1>17. Kept'
  <2>1. KeptBy(wal, Certain', file)
    <3>1. ASSUME NEW q \in Pages, NEW v \in file.maybe[q]
          PROVE  Version(wal, Certain', q, v)
      <4>1. Version(wal, Certain, q, v) /\ v \in Versions
        BY <1>7, <3>1, FileIs DEF Kept
      <4>2. \A i \in 1 .. Len(wal) : wal'[i] = wal[i]
        BY <1>6
      <4>3. Certain' \in Nat
        BY <1>4, <1>12
      <4>4. Version(wal', Certain', q, v)
        BY <1>4, <1>13, <4>1, <4>2, <4>3, VersionGrows
      <4>. QED
        BY <1>6, <4>4
    <3>. QED
      BY <1>7, <3>1 DEF Kept, KeptBy
  <2>2. l \in Recs(wal, p, Certain')
    BY <1>9, <1>12 DEF Recs
  <2>3. KeptBy(wal, Certain', file')
    BY <1>3, <1>4, <1>6, <1>10, <1>11, <1>12, <1>15, <2>1, <2>2, WriteIsKept, OneSizeIs
  <2>. QED
    BY <1>6, <2>3 DEF KeptBy, Kept
<1>18. Covered'
  <2>1. ASSUME NEW c \in Lsns(wal), wal[c].kind = "CheckpointBegin", NEW q \in Pages,
               wal[c].dirty_pages[q] = 0
        PROVE  CoveredAt(wal, Certain', file', c, q)
    <3>1. CoveredAt(wal, Certain, file, c, q)
      BY <1>7, <2>1 DEF Covered
    <3>2. LastRec(wal, q, Certain) <= LastRec(wal, q, Certain') /\ LastRec(wal, q, Certain) \in Nat
          /\ LastRec(wal, q, Certain') \in Nat /\ c \in Nat
      BY <1>4, <1>12, <1>13, <2>1, LastRecGrows, LastRecFacts
    <3>3. CASE q # p
      BY <1>14, <3>1, <3>2, <3>3 DEF CoveredAt
    <3>4. CASE q = p /\ ~(l > c)
      <4>1. c \in 0 .. Len(wal) /\ l <= c
        BY <1>4, <1>9, <2>1, <3>4
      <4>2. LastRec(wal, p, c) = l
        BY <1>4, <1>9, <4>1, LastRecGrows
      <4>3. At(wal, p, c) = Latest(p)
        BY <1>9, <4>2 DEF At, Latest
      <4>4. ~(LastRec(wal, q, Certain) > c)
        BY <1>9, <1>16, <3>2, <3>4, <4>1
      <4>5. file.page[p] = Latest(p)
        BY <1>3, <1>7, <3>1, <3>4, <4>3, <4>4 DEF CoveredAt, Kept
      <4>. QED
        BY <1>8, <4>5 DEF Mine
    <3>5. CASE q = p /\ l > c
      BY <1>16, <3>5 DEF CoveredAt
    <3>. QED
      BY <3>3, <3>4, <3>5
  <2>. QED
    BY <1>6, <2>1 DEF Covered
<1>19. SameReads /\ \A u : Ended(wal', Len(wal'), u) <=> HasEnded(u)
  BY <1>6, SameLogReads
<1>20. (\A q : Latest(q)' = Latest(q)) /\ (\A u : StillOpen(u)' <=> StillOpen(u))
  <2>1. \A q : Latest(q)' = Latest(q)
    BY <1>6 DEF Latest
  <2>2. \A u : StillOpen(u)' <=> StillOpen(u)
    BY <1>6 DEF StillOpen
  <2>. QED
    BY <2>1, <2>2
<1>21. /\ job'.step = "apply" /\ job'.txn = job.txn /\ job'.db = job.db /\ job'.before = job.before
       /\ job'.todo = job.todo \ {p} /\ job' # Idle
  BY <1>1, <1>2, <1>6 DEF Jobs, Idle
<1>22. \A q : Mine(q)' <=> Mine(q)
  BY <1>6, <1>20, <1>21 DEF Mine
<1>23. Applying'
  <2>1. ASSUME NEW q \in Pages
        PROVE  IF q \in job'.todo THEN Mine(q)' /\ file'.page[q].val # job'.db.val[q]
               ELSE file'.page[q] = Latest(q)' /\ file'.page[q].val = job'.db.val[q]
    <3>1. CASE q = p
      <4>1. Latest(p).val = job.db.val[p]
        BY <1>8 DEF Mine
      <4>. QED
        BY <1>14, <1>20, <1>21, <3>1, <4>1
    <3>2. CASE q # p
      BY <1>7, <1>14, <1>20, <1>21, <1>22, <3>2 DEF Applying
    <3>. QED
      BY <3>1, <3>2
  <2>. QED
    BY <2>1 DEF Applying
<1>24. Committing'
  <2>1. ~Ended(wal', Len(wal'), job'.txn)
    BY <1>7, <1>19, <1>21
  <2>. QED
    BY <1>2, <1>6, <1>7, <1>21, <1>23, <2>1 DEF Committing, Unwritten, Early, HasEnded
<1>25. Serving'
  <2>1. ASSUME NEW q \in Pages, dirty_pages'[q] = 0
        PROVE  Current(q)'
    <3>1. Current(q)
      BY <1>2, <1>6, <1>7, <2>1 DEF Serving
    <3>2. q # p
      BY <1>3, <1>7, <1>8, <3>1 DEF Current, Latest, Kept, Mine
    <3>. QED
      BY <1>6, <1>14, <3>1, <3>2 DEF Current
  <2>. QED
    BY <1>1, <1>2, <1>7, <1>20, <1>21, <2>1 DEF Serving, Unwritten, Early
<1>. QED
  BY <1>2, <1>6, <1>17, <1>18, <1>24, <1>25, JobWrites

\* Synchronising the file leaves one version of every page.
LEMMA SyncIsKept ==
    ASSUME NEW f \in Files, NEW w, NEW l, KeptBy(w, l, f)
    PROVE  /\ KeptBy(w, l, SyncFile(f)) /\ SyncFile(f).page = f.page
           /\ \A p \in Pages : SyncFile(f).maybe[p] = {f.page[p]}
           /\ \A c, p : p \in Pages /\ CoveredAt(w, l, f, c, p) => CoveredAt(w, l, SyncFile(f), c, p)
<1>. DEFINE g == SyncFile(f)
<1>1. g.page = f.page /\ g.cnt = f.cnt /\ g.maybe_cnt = {f.cnt}
      /\ \A p \in Pages : g.maybe[p] = {f.page[p]}
  BY DEF SyncFile, Files
<1>. HIDE DEF g
<1>2. KeptBy(w, l, g)
  BY <1>1 DEF KeptBy
<1>3. ASSUME NEW c, NEW p \in Pages, CoveredAt(w, l, f, c, p)
      PROVE  CoveredAt(w, l, g, c, p)
  BY <1>1, <1>3 DEF CoveredAt, KeptBy
<1>. QED
  BY <1>1, <1>2, <1>3 DEF g

\* apply_prepared ends: the file is the database of the transaction, and nothing else.
LEMMA RecoverySyncs ==
    ASSUME Core, Core', Trust, OneKindOfCrash, OneSize, RecoveryInv, apply_sync
    PROVE  RecoveryInv'
<1>1. /\ job.step = "apply" /\ job.todo = {} /\ file' = SyncFile(file)
      /\ job' = [job EXCEPT !.step = "commit"] /\ wal' = wal
      /\ UNCHANGED <<synced, dirty_pages, transaction_dirty_pages, mode, phase, mem, checkpoint, rec, cands>>
  BY IdleIs DEF apply_sync, walVars, RecoveryInv, Committing
<1>2. job \in Jobs /\ job # Idle /\ mode = "up"
  BY <1>1, JobIs DEF Core
<1>3. /\ Applying /\ ~HasEnded(job.txn) /\ Committing /\ Serving /\ Kept /\ Covered
  BY <1>1, <1>2 DEF RecoveryInv, Committing, Early, Unwritten
<1>4. /\ job'.step = "commit" /\ job'.txn = job.txn /\ job'.db = job.db /\ job'.before = job.before
      /\ job' # Idle
  BY <1>1, <1>2 DEF Jobs, Idle
<1>5. Certain' = Certain /\ file \in Files
  BY <1>1 DEF Certain, Core, Types
<1>6. KeptBy(wal, Certain, file)
  BY <1>3 DEF Kept, KeptBy
<1>7. /\ KeptBy(wal, Certain, file') /\ file'.page = file.page
      /\ \A p \in Pages : file'.maybe[p] = {file.page[p]}
      /\ \A c, p : p \in Pages /\ CoveredAt(wal, Certain, file, c, p) => CoveredAt(wal, Certain, file', c, p)
  BY <1>1, <1>5, <1>6, SyncIsKept
<1>8. Kept'
  BY <1>1, <1>5, <1>7 DEF Kept, KeptBy
<1>9. Covered'
  BY <1>1, <1>3, <1>5, <1>7 DEF Covered
<1>10. /\ \A p : Latest(p)' = Latest(p)
       /\ \A u : StillOpen(u)' <=> StillOpen(u)
  BY <1>1 DEF Latest, StillOpen
<1>11. \A p \in Pages : Latest(p).val = job.db.val[p] /\ file.page[p] = Latest(p)
  BY <1>1, <1>3 DEF Applying
<1>12. Committing'
  <2>1. ~Ended(wal', Len(wal'), job'.txn)
    BY <1>1, <1>3, <1>4 DEF HasEnded
  <2>. QED
    BY <1>1, <1>2, <1>3, <1>4, <1>10, <1>11, <2>1 DEF Committing, Unwritten, Early, HasEnded
<1>13. Serving'
  <2>1. \A p \in Pages : Current(p)'
    BY <1>1, <1>7, <1>11 DEF Current, Latest
  <2>. QED
    BY <1>1, <1>2, <1>3, <1>4, <1>10, <2>1 DEF Serving, Unwritten, Early
<1>. QED
  BY <1>1, <1>2, <1>8, <1>9, <1>12, <1>13, JobWrites

\* Two databases of the one size with the same pages are the same.
LEMMA SameDb ==
    ASSUME NEW d \in Proper, NEW e \in Proper, \A p \in Pages : d.val[p] = e.val[p]
    PROVE  d = e
<1>1. d.val \in [Pages -> -1 .. MaxTxn] /\ e.val \in [Pages -> -1 .. MaxTxn] /\ d.cnt = e.cnt
      /\ d = [cnt |-> d.cnt, val |-> d.val] /\ e = [cnt |-> e.cnt, val |-> e.val]
  BY DEF Proper, Db
<1>2. d.val = e.val
  BY <1>1
<1>. QED
  BY <1>1, <1>2

\* commit_transaction_at: the Commit record of a transaction whose pages are in the log makes its
\* database the served one; one without pages has it already.
LEMMA RecoveryCommits ==
    ASSUME Core, Core', Trust, OneKindOfCrash, OneSize, RecoveryInv, commit_append
    PROVE  RecoveryInv'
<1>. DEFINE t == job.txn
            r == Commit(t, last_lsn(wal, t))
            n == Len(wal)
<1>1. /\ job.step = "commit" /\ append(r) /\ job' = [job EXCEPT !.step = "commit_flush"]
      /\ UNCHANGED <<synced, durable_lsn, file, mode, phase, mem, checkpoint, rec, cands>>
  BY DEF commit_append
<1>2. /\ job \in Jobs /\ job # Idle /\ mode = "up" /\ rec = Idle /\ t \in Txns /\ phase[t] = "persist"
  BY <1>1, JobIs DEF Core
<1>3. /\ \A p \in Pages : Latest(p).val = job.db.val[p]
      /\ ~HasEnded(t) /\ Committing /\ Serving /\ Kept /\ Covered /\ Tables /\ History(cands, wal)
      /\ job.db \in Proper /\ cands[t] = job.db /\ cands \in [0 .. MaxTxn -> Proper]
  BY <1>1, <1>2 DEF RecoveryInv, Committing, Early, Unwritten
<1>4. wal \in Seq(Records) /\ n \in Nat /\ n \in 0 .. n /\ Size \in Pages /\ t # 0
  BY <1>2, LenProperties, OneSizeIs, PagesAreNumbers DEF Core, Types, LogTypes
<1>5. r \in Records /\ r.kind = "Commit" /\ r.txn = t /\ ~IsPageRecord(r) /\ IsTerminal(r)
  <2>1. last_lsn(wal, t) \in Nat
    BY <1>4, LastLsnFacts
  <2>. QED
    BY <1>2, <2>1, RecordsAre, RecordFields DEF IsPageRecord, IsTerminal
<1>. HIDE DEF r, t
<1>6. wal' = Append(wal, r) /\ UNCHANGED <<dirty_pages, transaction_dirty_pages>>
  BY <1>1, <1>5, PlainAppend
<1>7. /\ Len(wal') = n + 1 /\ wal'[n + 1] = r /\ Lsns(wal') = Lsns(wal) \cup {n + 1}
      /\ Lsns(wal) = 1 .. n
  BY <1>4, <1>5, <1>6, AppendFacts DEF Lsns
<1>8. LogMoves
  BY <1>1, <1>6, AppendMoves DEF Core, Types
<1>9. \A p : LastRec(wal', p, n + 1) = LastRec(wal, p, n)
  BY <1>4, <1>5, <1>6, PlainReads
<1>10. \A p : At(wal', p, n + 1) = At(wal, p, n)
  BY <1>4, <1>5, <1>6, PlainReads
<1>11. \A u : Updates(wal', n + 1, u) = Updates(wal, n, u)
  BY <1>4, <1>5, <1>6, PlainReads
<1>12. \A u : Ended(wal', n + 1, u) <=> HasEnded(u) \/ u = t
  <2>1. \A u : Ended(wal', n + 1, u) <=> Ended(wal, n, u) \/ (IsTerminal(r) /\ r.txn = u)
    BY <1>4, <1>5, <1>6, AppendReads, Zenon
  <2>. QED
    BY <1>5, <2>1 DEF HasEnded
<1>13. \A u \in Txns : ~Open(wal', n + 1, u)
  <2>1. \A u \in Txns : Open(wal, n, u) => u = t
    BY <1>2, <1>3 DEF Serving, StillOpen, t
  <2>. QED
    BY <1>11, <1>12, <2>1 DEF Open, HasEnded
<1>14. cands[Author(wal', n + 1)] = job.db
  <2>1. CASE Updates(wal, n, t) # {}
    <3>1. Author(wal', n + 1) = t
      BY <1>4, <1>5, <1>6, <2>1, PlainReads
    <3>. QED
      BY <1>3, <3>1
  <2>2. CASE Updates(wal, n, t) = {}
    <3>1. Author(wal', n + 1) = Author(wal, n)
      BY <1>4, <1>5, <1>6, <2>2, PlainReads
    <3>2. \A u \in Txns : ~Open(wal, n, u)
      BY <1>2, <1>3, <2>2 DEF Serving, StillOpen, Open, t
    <3>3. \A p \in Pages : At(wal, p, n).val = cands[Author(wal, n)].val[p]
      BY <1>3, <1>4, <3>2, NothingOpen
    <3>4. cands[Author(wal, n)] \in Proper
      BY <1>3, <1>4, AuthorFacts
    <3>5. cands[Author(wal, n)] = job.db
      BY <1>3, <3>3, <3>4, SameDb DEF Latest
    <3>. QED
      BY <3>1, <3>5
  <2>. QED
    BY <2>1, <2>2
<1>15. History(cands, wal')
  <2>1. WellFormed(wal', n + 1)
    BY <1>3, <1>4, <1>5, <1>6, PlainWellFormed DEF HasEnded
  <2>2. Sane(cands, wal', n + 1)
    BY <1>3, <1>10, <1>13, <1>14 DEF Sane, OneOpen, BeforeIsServed, PageIsServed, Latest
  <2>. QED
    BY <1>3, <1>4, <1>5, <1>6, <2>1, <2>2, HistoryGrows
<1>16. Kept' /\ Covered'
  <2>1. \A c \in Lsns(wal') \ Lsns(wal) : wal'[c].kind # "CheckpointBegin"
    BY <1>5, <1>7
  <2>. QED
    BY <1>1, <1>3, <1>8, <2>1, KeptStays, CoveredGoesOn
<1>17. Tables'
  <2>1. \A p \in Pages : dirty_pages'[p] <= LastRec(wal', p, Len(wal'))
    BY <1>3, <1>6, <1>7, <1>9 DEF Tables
  <2>2. checkpoint'.step = "sampled" => \A p \in Pages : checkpoint'.dirty[p] <= LastRec(wal', p, Len(wal'))
    BY <1>1, <1>3, <1>7, <1>9 DEF Tables
  <2>3. ASSUME NEW d \in transaction_dirty_pages'
        PROVE  \E i \in Recs(wal', d[2], Len(wal')) : wal'[i].txn = d[1]
    <3>1. PICK i \in Recs(wal, d[2], Len(wal)) : wal[i].txn = d[1]
      BY <1>3, <1>6, <2>3 DEF Tables
    <3>2. i \in Lsns(wal) /\ i \in 1 .. Len(wal') /\ wal'[i] = wal[i]
      BY <1>4, <1>7, <1>8, <3>1 DEF Recs, LogMoves, Grows
    <3>3. i \in Recs(wal', d[2], Len(wal'))
      BY <3>1, <3>2 DEF Recs
    <3>. QED
      BY <3>1, <3>2, <3>3
  <2>. QED
    BY <2>1, <2>2, <2>3 DEF Tables
<1>18. /\ job'.step = "commit_flush" /\ job'.txn = t /\ job'.db = job.db /\ job'.before = job.before
       /\ job' # Idle
  BY <1>1, <1>2 DEF Jobs, Idle, t
<1>19. Committing'
  <2>1. Served' = job.db
    BY <1>1, <1>7, <1>14 DEF Served
  <2>. QED
    BY <1>1, <1>2, <1>3, <1>18, <2>1 DEF Committing, Unwritten, Early, t
<1>20. Serving'
  <2>1. \A u \in Txns : ~StillOpen(u)'
    BY <1>7, <1>13 DEF StillOpen
  <2>2. \A p \in Pages : Current(p)'
    <3>1. \A p \in Pages : Current(p)
      BY <1>1, <1>2, <1>3 DEF Serving, Unwritten, Early
    <3>. QED
      BY <1>1, <1>7, <1>10, <3>1 DEF Current
  <2>. QED
    BY <1>18, <2>1, <2>2 DEF Serving
<1>21. Quiet'
  <2>1. \A u \in Txns : (phase'[u] = phase[u] /\ r.txn # u) \/ phase'[u] \in {"none", "persist", "done", "gone"}
    BY <1>1, <1>2, <1>5
  <2>. QED
    BY <1>4, <1>5, <1>6, <2>1, QuietStays DEF RecoveryInv
<1>22. Restarting' /\ mode' # "failed" /\ cands' \in [0 .. MaxTxn -> Proper]
  BY <1>1, <1>2, <1>3 DEF Restarting
<1>. QED
  BY <1>1, <1>15, <1>16, <1>17, <1>19, <1>20, <1>21, <1>22 DEF RecoveryInv

\* No commit changes the size of the file.
LEMMA NothingIsResized ==
    ASSUME Core, RecoveryInv
    PROVE  ~log_resize /\ ~apply_resize
<1>1. job # Idle => job.before = job.db.cnt
  BY DEF RecoveryInv, Committing, Proper
<1>2. job.step \in {"log", "apply"} => job # Idle
  BY IdleIs
<1>. QED
  BY <1>1, <1>2 DEF log_resize, apply_resize

(***************************************************************************)
(* Crashes.                                                                *)
(***************************************************************************)
\* Nothing the process held in memory is needed after a crash.
LEMMA MemoryLost ==
    ASSUME Core, RecoveryInv, NEW kind, LoseMemory(kind), Len(wal') \in Nat
    PROVE  /\ Tables' /\ Quiet' /\ Committing' /\ Serving' /\ Restarting' /\ mode' # "failed"
           /\ cands' = cands
<1>1. /\ phase' = [t \in Txns |-> IF phase[t] = "none" THEN "none" ELSE "gone"]
      /\ job' = Idle /\ checkpoint' = Idle /\ rec' = Idle /\ mode' = "down" /\ cands' = cands
      /\ dirty_pages' = [p \in Pages |-> 0] /\ transaction_dirty_pages' = {}
  BY DEF LoseMemory
<1>2. Idle.step = "idle"
  BY IdleIs
<1>3. Tables'
  <2>1. \A p : LastRec(wal', p, Len(wal')) >= 0
    BY LastRecFacts
  <2>. QED
    BY <1>1, <1>2, <2>1 DEF Tables
<1>4. Quiet'
  BY <1>1 DEF Quiet
<1>. QED
  BY <1>1, <1>2, <1>3, <1>4 DEF Committing, Serving, Restarting, Unwritten, Early

\* After a crash of the process the whole log and the file stay.
LEMMA RecoveryProcessCrash ==
    ASSUME Core, Core', OneKindOfCrash, RecoveryInv, process_crash
    PROVE  RecoveryInv'
<1>1. LoseMemory("process") /\ UNCHANGED <<wal, synced, file>>
  BY DEF process_crash
<1>2. "power" \notin Failures
  BY <1>1 DEF LoseMemory, OneKindOfCrash
<1>3. Certain' = Certain
  BY <1>1, <1>2 DEF Certain
<1>4. /\ Tables' /\ Quiet' /\ Committing' /\ Serving' /\ Restarting' /\ mode' # "failed"
      /\ cands' = cands
  <2>1. Len(wal') \in Nat
    BY <1>1, LenProperties DEF Core, Types, LogTypes
  <2>. QED
    BY <1>1, <2>1, MemoryLost
<1>5. Kept' /\ Covered'
  BY <1>1, <1>3 DEF RecoveryInv, Kept, Covered
<1>. QED
  BY <1>1, <1>4, <1>5 DEF RecoveryInv

\* A power loss leaves a prefix of the log with all that is certain, and of each page a version
\* that some record of that prefix wrote, or a torn one.
LEMMA RecoveryPowerLoss ==
    ASSUME Core, Core', OneSize, RecoveryInv, power_loss
    PROVE  RecoveryInv'
<1>1. LoseMemory("power") /\ file' \in AfterPowerLoss(file) /\ "power" \in Failures
  BY DEF power_loss, LoseMemory
<1>2. PICK n \in synced .. Len(wal) : wal' = SubSeq(wal, 1, n) /\ synced' = n
  BY DEF power_loss
<1>3. /\ synced \in Nat /\ wal \in Seq(Records) /\ Linked(wal) /\ n \in Nat /\ n \in 0 .. Len(wal)
      /\ Len(wal) \in Nat /\ synced <= n /\ Size \in Pages /\ Size \in Nat /\ file \in Files
  BY <1>2, LenProperties, OneSizeIs DEF Core, Types, LogTypes, Pointers
<1>4. /\ wal' \in Seq(Records) /\ Len(wal') = n /\ Lsns(wal') \subseteq Lsns(wal)
      /\ \A i \in 1 .. n : wal'[i] = wal[i]
  BY <1>2, <1>3, PrefixFacts
<1>5. Certain = synced /\ Certain' = n
  BY <1>1, <1>2 DEF Certain
<1>6. /\ Tables' /\ Quiet' /\ Committing' /\ Serving' /\ Restarting' /\ mode' # "failed"
      /\ cands' = cands
  BY <1>1, <1>3, <1>4, MemoryLost
<1>7. Kept /\ Covered /\ History(cands, wal) /\ cands \in [0 .. MaxTxn -> Proper]
  BY DEF RecoveryInv
<1>8. History(cands, wal')
  BY <1>3, <1>4, <1>7, HistoryCut
<1>9. /\ file'.cnt = Size /\ file'.maybe_cnt = {Size}
      /\ \A p \in Pages : /\ file'.maybe[p] = {file'.page[p]}
                          /\ p <= Size => file'.page[p] \in file.maybe[p]
                          /\ p > Size => file'.page[p] = NoPage
  <2>. DEFINE All == UNION {file.maybe[p] : p \in Pages}
              Cut(h, m) == [p \in Pages |-> IF p <= m THEN h[p] ELSE NoPage]
              Left(pg, m) == [page |-> pg, cnt |-> m, maybe |-> [p \in Pages |-> {pg[p]}],
                              maybe_cnt |-> {m}]
  <2>1. PICK m \in file.maybe_cnt, h \in [Pages -> All] :
            /\ \A p \in Pages : h[p] \in file.maybe[p]
            /\ file' = Left(Cut(h, m), m)
    BY <1>1 DEF AfterPowerLoss
  <2>2. m = Size
    BY <1>7, <2>1 DEF Kept
  <2>3. /\ file'.page = Cut(h, m) /\ file'.maybe = [p \in Pages |-> {Cut(h, m)[p]}]
        /\ file'.cnt = m /\ file'.maybe_cnt = {m}
    BY <2>1
  <2>4. \A p \in Pages : Cut(h, m)[p] = IF p <= m THEN h[p] ELSE NoPage
    OBVIOUS
  <2>. HIDE DEF Cut, Left, All
  <2>5. Pages \subseteq Nat
    BY PagesAreNumbers
  <2>6. \A p \in Pages : file'.maybe[p] = {file'.page[p]} /\ file'.page[p] = Cut(h, m)[p]
    BY <2>3
  <2>7. ASSUME NEW p \in Pages
        PROVE  /\ p <= Size => file'.page[p] \in file.maybe[p]
               /\ p > Size => file'.page[p] = NoPage
    BY <1>3, <2>1, <2>2, <2>4, <2>5, <2>6
  <2>. QED
    BY <2>2, <2>3, <2>6, <2>7
<1>10. Kept'
  <2>1. ASSUME NEW p \in Pages
        PROVE  Version(wal', n, p, file'.page[p])
    <3>1. CASE p <= Size
      <4>1. file'.page[p] \in file.maybe[p]
        BY <1>9, <3>1
      <4>2. Version(wal, synced, p, file'.page[p]) /\ file'.page[p] \in Versions
        BY <1>5, <1>7, <4>1, FileIs DEF Kept
      <4>3. synced \in 0 .. n
        BY <1>3
      <4>. QED
        BY <1>3, <1>4, <4>2, <4>3, VersionGrows
    <3>2. CASE p > Size
      <4>1. file'.page[p] = NoPage /\ NoPage.lsn = 0
        BY <1>9, <3>2, NoPageIsOld
      <4>2. LastRec(wal', p, 0) = 0
        BY LastRecFacts
      <4>3. At(wal', p, 0) = NoPage
        BY <1>3, <3>2, <4>2, PagesAreNumbers DEF At, Blank
      <4>. QED
        BY <1>3, <4>1, <4>2, <4>3 DEF Version
    <3>. QED
      BY <1>3, <3>1, <3>2, PagesAreNumbers
  <2>. QED
    BY <1>5, <1>9, <2>1 DEF Kept
<1>11. Covered'
  <2>1. ASSUME NEW c \in Lsns(wal'), wal'[c].kind = "CheckpointBegin", NEW p \in Pages,
               wal'[c].dirty_pages[p] = 0
        PROVE  CoveredAt(wal', n, file', c, p)
    <3>1. c \in 0 .. n /\ c \in Lsns(wal) /\ wal'[c] = wal[c]
      BY <1>3, <1>4 DEF Lsns
    <3>2. CoveredAt(wal, synced, file, c, p)
      BY <1>5, <1>7, <2>1, <3>1 DEF Covered
    <3>3. CoveredAt(wal', n, file, c, p)
      <4>1. synced \in 0 .. n
        BY <1>3
      <4>. QED
        BY <1>3, <1>4, <3>1, <3>2, <4>1, CoveredGrows
    <3>4. CASE p <= Size
      BY <1>9, <3>3, <3>4 DEF CoveredAt
    <3>5. CASE p > Size
      <4>1. At(wal', p, c) = NoPage
        BY <1>3, <1>4, <1>8, <3>1, <3>5, PagesOfTheLog
      <4>. QED
        BY <1>9, <3>5, <4>1 DEF CoveredAt
    <3>. QED
      BY <1>3, <3>4, <3>5, PagesAreNumbers
  <2>. QED
    BY <1>5, <2>1 DEF Covered
<1>. QED
  BY <1>6, <1>7, <1>8, <1>10, <1>11 DEF RecoveryInv

(***************************************************************************)
(* The beginning of a restart.                                             *)
(***************************************************************************)
\* A transaction that has not ended has its Begin record before every other, and no other Begin.
LEMMA BeginIsFirst ==
    ASSUME NEW c, NEW w \in Seq(Records), History(c, w), NEW t \in Txns, ~Ended(w, Len(w), t),
           NEW j \in Lsns(w), w[j].txn = t
    PROVE  /\ Has(w, t, "Begin")
           /\ w[j].kind = "Begin" => \A i \in Lsns(w) : w[i].txn = t => i >= j
<1>. DEFINE S == {i \in Lsns(w) : w[i].txn = t}
<1>1. S \subseteq Nat /\ Lsns(w) = 1 .. Len(w) /\ Len(w) \in Nat
  BY LsnsAre DEF Lsns
<1>2. S # {}
  OBVIOUS
<1>3. Min(S) \in S /\ \A y \in S : Min(S) <= y
  BY <1>1, <1>2, MinFacts
<1>4. PICK k : k = Min(S)
  OBVIOUS
<1>5. k \in Lsns(w) /\ w[k].txn = t /\ \A i \in Lsns(w) : w[i].txn = t => k <= i
  BY <1>3, <1>4
<1>6. WellFormed(w, k) /\ w[k] \in Records /\ t # 0 /\ k \in Nat
  BY <1>1, <1>5, LsnsAre, PagesAreNumbers DEF History
<1>7. ~IsTerminal(w[k])
  BY <1>1, <1>5 DEF Ended
<1>8. \A i \in 1 .. k - 1 : i \in Lsns(w) /\ ~(k <= i)
  BY <1>1, <1>5, <1>6
<1>9. w[k].kind # "PageUpdate" /\ w[k].kind # "Compensation"
  <2>1. w[k].kind = "PageUpdate" => w[k].prev \in 1 .. k - 1 /\ w[w[k].prev].txn = t
    BY <1>5, <1>6 DEF WellFormed, ChangeFits
  <2>2. w[k].kind = "Compensation" => w[k].undo_next_lsn \in 1 .. k - 1 /\ w[w[k].undo_next_lsn].txn = t
    BY <1>5, <1>6 DEF WellFormed, UndoFits
  <2>. QED
    BY <1>5, <1>8, <2>1, <2>2
<1>10. w[k].kind = "Begin"
  <2>1. w[k].kind # "Resize"
    BY <1>6 DEF WellFormed
  <2>2. w[k] \notin CheckpointBegins \cup CheckpointEnds
    BY <1>5, <1>6, RecordKinds
  <2>3. w[k].kind \in {"Begin", "Commit", "Abort"}
    BY <1>6, <1>9, <2>1, <2>2 DEF Records, PageUpdates, Resizes, Compensations, Others
  <2>. QED
    BY <1>7, <2>3 DEF IsTerminal
<1>11. ASSUME w[j].kind = "Begin", NEW i \in Lsns(w), w[i].txn = t
       PROVE  i >= j
  <2>1. WellFormed(w, j)
    BY DEF History
  <2>2. \A x \in 1 .. j - 1 : w[x].txn # t
    BY <1>11, <2>1 DEF WellFormed
  <2>. QED
    BY <1>1, <1>11, <2>2
<1>. QED
  BY <1>5, <1>10, <1>11 DEF Has

\* analyze: redo begins at or before the last record of every page that is not as it left it.
LEMMA RedoStartsEarly ==
    ASSUME NEW c, NEW w \in Seq(Records), Linked(w), History(c, w), NEW f \in Files,
           KeptBy(w, Len(w), f),
           \A b \in Lsns(w) : w[b].kind = "CheckpointBegin" =>
              \A q \in Pages : w[b].dirty_pages[q] = 0 => CoveredAt(w, Len(w), f, b, q),
           NEW p \in Pages
    PROVE  f.page[p] = At(w, p, Len(w)) \/ redo_start(w) <= LastRec(w, p, Len(w))
<1>. DEFINE b == find_last_complete_checkpoint(w)
            Later(q) == {i \in b + 1 .. Len(w) : IsPageRecord(w[i]) /\ w[i].page = q}
            AtCheckpoint(q) == IF b = 0 THEN 0 ELSE w[b].dirty_pages[q]
            Entry(q) == IF AtCheckpoint(q) # 0 THEN AtCheckpoint(q)
                        ELSE IF Later(q) # {} THEN Min(Later(q)) ELSE 0
            k == LastRec(w, p, Len(w))
            v == f.page[p]
<1>1. b \in Nat /\ (b # 0 => CheckpointAt(w, b)) /\ Len(w) \in Nat /\ Lsns(w) = 1 .. Len(w)
  BY LastCheckpointIs, LsnsAre DEF Lsns
<1>2. analyzed_dirty(w) = [q \in Pages |-> Entry(q)]
  BY DEF analyzed_dirty
<1>3. k \in 0 .. Len(w) /\ (k # 0 => k \in Recs(w, p, Len(w))) /\ \A i \in Recs(w, p, Len(w)) : i <= k
  BY <1>1, LastRecFacts
<1>. HIDE DEF b, k
<1>4. b # 0 => w[b] \in CheckpointBegins /\ w[b].dirty_pages \in [Pages -> Nat] /\ WellFormed(w, b)
               /\ b \in Lsns(w) /\ w[b].kind = "CheckpointBegin"
  <2>1. b # 0 => w[b] \in CheckpointBegins
    BY <1>1, LsnsAre, RecordKinds DEF CheckpointAt
  <2>. QED
    BY <1>1, <2>1 DEF CheckpointAt, CheckpointBegins, Positions, History
<1>5. \A q \in Pages : AtCheckpoint(q) \in Nat
  BY <1>4
<1>6. \A q \in Pages : Later(q) \subseteq Nat
  BY <1>1
<1>7. \A q \in Pages : Later(q) # {} => Min(Later(q)) \in Later(q)
  <2>. HIDE DEF Later
  <2>. QED
    BY <1>6, MinFacts
<1>8. \A q \in Pages : Entry(q) \in Nat
  <2>1. \A q \in Pages : Later(q) # {} => Min(Later(q)) \in Nat
    BY <1>6, <1>7
  <2>. HIDE DEF Later, AtCheckpoint
  <2>. QED
    BY <1>5, <2>1
<1>9. CASE Entry(p) # 0
  <2>1. Entry(p) <= k
    <3>1. CASE AtCheckpoint(p) # 0
      <4>1. b # 0 /\ Entry(p) = w[b].dirty_pages[p]
        BY <3>1
      <4>2. w[b].dirty_pages[p] <= LastRec(w, p, b)
        BY <1>4, <4>1 DEF WellFormed
      <4>3. b \in Nat /\ b <= Len(w)
        BY <1>1, <1>4, <4>1
      <4>4. LastRec(w, p, b) <= k /\ LastRec(w, p, b) \in Nat
        BY <1>1, <4>3, LastRecGrows, LastRecFacts DEF k
      <4>. HIDE DEF Entry
      <4>. QED
        BY <1>3, <1>8, <4>1, <4>2, <4>4
    <3>2. CASE AtCheckpoint(p) = 0
      <4>1. Later(p) # {} /\ Entry(p) = Min(Later(p))
        BY <1>9, <3>2
      <4>2. Entry(p) \in Later(p)
        BY <1>7, <4>1
      <4>. HIDE DEF Entry
      <4>3. Entry(p) \in Recs(w, p, Len(w))
        BY <1>1, <4>2 DEF Recs
      <4>. QED
        BY <1>3, <4>3
    <3>. QED
      BY <3>1, <3>2
  <2>2. redo_start(w) <= Entry(p) /\ redo_start(w) \in Nat
    <3>. HIDE DEF Entry
    <3>. DEFINE starts == {analyzed_dirty(w)[q] : q \in Pages} \ {0}
    <3>1. starts \subseteq Nat /\ Entry(p) \in starts
      BY <1>2, <1>8, <1>9
    <3>2. redo_start(w) = IF starts = {} THEN Len(w) + 1 ELSE Min(starts)
      BY DEF redo_start
    <3>. HIDE DEF starts
    <3>3. Min(starts) \in starts /\ \A y \in starts : Min(starts) <= y
      BY <3>1, MinFacts
    <3>. QED
      BY <3>1, <3>2, <3>3
  <2>. HIDE DEF Entry
  <2>. QED
    BY <1>3, <1>8, <2>1, <2>2 DEF k
<1>10. CASE Entry(p) = 0
  <2>1. AtCheckpoint(p) = 0 /\ Later(p) = {}
    <3>1. Later(p) # {} => Min(Later(p)) # 0
      BY <1>1, <1>7
    <3>. HIDE DEF Later, AtCheckpoint
    <3>. QED
      BY <1>10, <3>1
  <2>2. k <= b
    <3>1. \A i \in Recs(w, p, Len(w)) : i \in 1 .. Len(w) /\ ~(i \in b + 1 .. Len(w))
      BY <2>1 DEF Recs
    <3>. QED
      BY <1>1, <1>3, <3>1
  <2>3. Version(w, Len(w), p, v) /\ v \in f.maybe[p] /\ v \in Versions
    BY DEF KeptBy, Files
  <2>4. CASE b = 0
    <3>1. k = 0
      BY <1>3, <2>2, <2>4
    <3>2. v.lsn <= Len(w) /\ LastRec(w, p, v.lsn) = v.lsn /\ v = At(w, p, v.lsn) /\ v.lsn \in Nat
      BY <2>3, <3>1 DEF Version, Versions, k
    <3>3. LastRec(w, p, v.lsn) <= LastRec(w, p, Len(w))
      BY <1>1, <3>2, LastRecGrows
    <3>4. v.lsn = 0
      BY <3>1, <3>2, <3>3 DEF k
    <3>5. At(w, p, v.lsn) = Blank(p)
      BY <3>2, <3>4 DEF At
    <3>6. At(w, p, Len(w)) = Blank(p)
      BY <3>1 DEF At, k
    <3>. QED
      BY <3>2, <3>5, <3>6
  <2>5. CASE b # 0
    <3>1. w[b].dirty_pages[p] = 0
      BY <2>1, <2>5
    <3>2. CoveredAt(w, Len(w), f, b, p)
      BY <1>4, <2>5, <3>1
    <3>3. ~(k > b)
      BY <1>1, <1>3, <2>2
    <3>4. v = At(w, p, b)
      BY <2>3, <3>2, <3>3 DEF CoveredAt, k
    <3>5. b \in Nat /\ b <= Len(w)
      BY <1>1, <1>4, <2>5
    <3>6. LastRec(w, p, b) = LastRec(w, p, Len(w))
      BY <1>1, <2>2, <3>5, LastRecGrows DEF k
    <3>7. At(w, p, b) = At(w, p, Len(w))
      BY <3>6 DEF At
    <3>. QED
      BY <3>4, <3>7
  <2>. QED
    BY <2>4, <2>5
<1>. QED
  BY <1>9, <1>10

\* WalManager::open rebuilds tables that refer to records of the log.
LEMMA ReplayedTables ==
    ASSUME NEW w \in Seq(Records)
    PROVE  /\ \A p \in Pages : replayed_dirty(w)[p] <= LastRec(w, p, Len(w))
           /\ \A d \in replayed_transaction_dirty(w) : \E i \in Recs(w, d[2], Len(w)) : w[i].txn = d[1]
<1>. DEFINE Touched(t, p, j) == \E k \in 1 .. j : IsPageRecord(w[k]) /\ w[k].page = p /\ w[k].txn = t
            Cleared(p) == Max({0} \cup {j \in Lsns(w) : IsTerminal(w[j]) /\ Touched(w[j].txn, p, j)})
            Entries(p) == {i \in Lsns(w) : IsPageRecord(w[i]) /\ w[i].page = p /\ i > Cleared(p)}
            Entry(p) == IF Entries(p) = {} THEN 0 ELSE Min(Entries(p))
<1>1. ASSUME NEW p \in Pages
      PROVE  Entry(p) <= LastRec(w, p, Len(w))
  <2>1. Entries(p) \subseteq Nat /\ Entries(p) \subseteq Recs(w, p, Len(w))
    BY LsnsAre DEF Recs
  <2>. HIDE DEF Entries
  <2>2. Entries(p) # {} => Min(Entries(p)) \in Entries(p)
    BY <2>1, MinFacts
  <2>3. LastRec(w, p, Len(w)) \in Nat /\ \A i \in Recs(w, p, Len(w)) : i <= LastRec(w, p, Len(w))
    BY LsnsAre, LastRecFacts
  <2>. QED
    BY <2>1, <2>2, <2>3
<1>2. replayed_dirty(w) = [p \in Pages |-> Entry(p)]
  BY DEF replayed_dirty
<1>. HIDE DEF Entry
<1>3. \A d \in replayed_transaction_dirty(w) : \E i \in Recs(w, d[2], Len(w)) : w[i].txn = d[1]
  BY DEF replayed_transaction_dirty, Recs, Lsns
<1>. QED
  BY <1>1, <1>2, <1>3

\* WalManager::open and analyze: what redo has to write lies ahead of it, and what undo has to put
\* back lies behind the last record of each loser.
LEMMA RecoveryRecovers ==
    ASSUME Core, Core', Trust, OneKindOfCrash, OneSize, RecoveryInv, recover
    PROVE  RecoveryInv'
<1>. DEFINE undo == [t \in Txns |-> IF t \in losers(wal) THEN last_lsn(wal, t) ELSE 0]
            step == IF wal = <<>> THEN "reconcile" ELSE "redo"
<1>1. /\ mode = "down" /\ mode' = "recovering"
      /\ dirty_pages' = replayed_dirty(wal)
      /\ transaction_dirty_pages' = replayed_transaction_dirty(wal)
      /\ UNCHANGED <<wal, synced, file, phase, mem, job, checkpoint, cands>>
      /\ rec' = [step |-> step, pos |-> redo_start(wal), last |-> Len(wal), cnt |-> file.cnt,
                 target |-> final_page_count(wal, file.cnt), undo |-> undo]
  BY DEF recover
<1>2. /\ wal \in Seq(Records) /\ Linked(wal) /\ Len(wal) \in Nat /\ Len(wal) \in 0 .. Len(wal)
      /\ file \in Files /\ Lsns(wal) = 1 .. Len(wal)
  BY LenProperties DEF Core, Types, LogTypes, Pointers, Lsns
<1>3. Certain = Len(wal) /\ Certain' = Certain
  BY <1>1, CertainIs DEF Certain
<1>4. job = Idle /\ checkpoint = Idle /\ Idle.step = "idle"
  BY <1>1, IdleIs DEF Core, Owners
<1>5. Kept /\ Covered /\ History(cands, wal) /\ Quiet /\ Committing
  BY DEF RecoveryInv
<1>6. Kept' /\ Covered' /\ History(cands, wal)' /\ Quiet' /\ cands' \in [0 .. MaxTxn -> Proper]
  <2>1. Kept' /\ Covered'
    BY <1>1, <1>3, <1>5 DEF Kept, Covered
  <2>2. Quiet'
    BY <1>1, <1>5, QuietSame
  <2>. QED
    BY <1>1, <1>5, <2>1, <2>2 DEF RecoveryInv
<1>7. Tables'
  BY <1>1, <1>2, <1>4, ReplayedTables DEF Tables
<1>8. Committing'
  BY <1>1, <1>4 DEF Committing, Unwritten, Early
<1>9. Serving' /\ mode' # "failed"
  BY <1>1 DEF Serving
<1>10. file.cnt = Size /\ final_page_count(wal, file.cnt) = Size
  <2>1. file.cnt = Size
    BY <1>5 DEF Kept
  <2>2. \A i \in Lsns(wal) : wal[i].kind # "Resize"
    BY <1>5 DEF History, WellFormed
  <2>. QED
    BY <2>1, <2>2 DEF final_page_count
<1>. HIDE DEF undo, step
<1>11. /\ rec'.step = step /\ rec'.pos = redo_start(wal) /\ rec'.last = Len(wal) /\ rec'.undo = undo
       /\ rec'.cnt = Size /\ rec'.target = Size
  BY <1>1, <1>10
<1>12. KeptBy(wal, Len(wal), file)
  BY <1>3, <1>5 DEF Kept, KeptBy
<1>13. \A p \in Pages : file.page[p] = At(wal, p, Len(wal)) \/ redo_start(wal) <= LastRec(wal, p, Len(wal))
  <2>1. \A b \in Lsns(wal) : wal[b].kind = "CheckpointBegin" =>
           \A q \in Pages : wal[b].dirty_pages[q] = 0 => CoveredAt(wal, Len(wal), file, b, q)
    BY <1>3, <1>5 DEF Covered
  <2>. QED
    BY <1>2, <1>5, <1>12, <2>1, RedoStartsEarly
<1>14. Redoing'
  BY <1>1, <1>11, <1>13 DEF Redoing, Latest
<1>15. Undoing'
  <2>1. ASSUME NEW t \in Txns, undo[t] # 0
        PROVE  ~HasEnded(t) /\ wal[undo[t]].txn = t
    <3>1. t \in losers(wal) /\ undo[t] = last_lsn(wal, t)
      BY <2>1 DEF undo
    <3>2. wal[undo[t]].txn = t
      BY <1>2, <2>1, <3>1, LastLsnFacts
    <3>3. wal_outcome(wal, t) = "InProgress"
      BY <3>1 DEF losers
    <3>4. ~Has(wal, t, "Commit") /\ ~Has(wal, t, "Abort")
      BY <3>3 DEF wal_outcome
    <3>. QED
      BY <1>2, <3>2, <3>4 DEF Has, HasEnded, Ended, IsTerminal
  <2>2. ASSUME NEW t \in Txns, StillOpen(t)
        PROVE  undo[t] # 0 /\ Undone(wal, t, undo[t], Len(wal))
    <3>1. ~Ended(wal, Len(wal), t) /\ Updates(wal, Len(wal), t) # {}
      BY <2>2 DEF StillOpen, Open
    <3>2. PICK i \in Lsns(wal) : wal[i].txn = t
      BY <1>2, <3>1 DEF Updates
    <3>3. Has(wal, t, "Begin")
      BY <1>2, <1>5, <3>1, <3>2, BeginIsFirst
    <3>4. ~Has(wal, t, "Commit") /\ ~Has(wal, t, "Abort")
      BY <1>2, <3>1 DEF Has, Ended, IsTerminal
    <3>5. t \in losers(wal)
      BY <3>3, <3>4 DEF losers, wal_outcome
    <3>6. undo[t] = last_lsn(wal, t)
      BY <3>5 DEF undo
    <3>7. \A j \in Lsns(wal) : wal[j].txn = t => j <= undo[t]
      BY <1>2, <3>6, LastLsnFacts
    <3>8. undo[t] # 0 /\ undo[t] \in Nat
      <4>1. i <= undo[t] /\ i \in Nat \ {0}
        BY <1>2, <3>2, <3>7
      <4>2. undo[t] \in Nat
        BY <1>2, <3>6, LastLsnFacts
      <4>. QED
        BY <4>1, <4>2
    <3>9. Undone(wal, t, undo[t], Len(wal))
      BY <1>2, <3>7, <3>8 DEF Undone, Updates
    <3>. QED
      BY <3>8, <3>9
  <2>3. \A t \in Txns : (HasEnded(t)' <=> HasEnded(t)) /\ (StillOpen(t)' <=> StillOpen(t))
    BY <1>1 DEF HasEnded, StillOpen
  <2>. QED
    BY <1>1, <1>11, <2>1, <2>2, <2>3 DEF Undoing
<1>16. ASSUME wal = <<>>
       PROVE  (\A p \in Pages : Current(p)') /\ \A t \in Txns : ~StillOpen(t)'
  <2>1. Len(wal) = 0
    BY <1>16, EmptySeq
  <2>2. ASSUME NEW p \in Pages, NEW v \in file.maybe[p]
        PROVE  v = At(wal, p, Len(wal))
    <3>1. Version(wal, 0, p, v) /\ v.lsn \in Nat
      BY <1>12, <2>1, <2>2, FileIs DEF KeptBy, Versions
    <3>2. LastRec(wal, p, 0) = 0
      BY LastRecFacts
    <3>. QED
      BY <2>1, <3>1, <3>2 DEF Version
  <2>3. \A t \in Txns : Updates(wal, Len(wal), t) = {}
    BY <2>1 DEF Updates
  <2>. QED
    BY <1>1, <2>2, <2>3 DEF Current, StillOpen, Open
<1>17. Restarting'
  BY <1>11, <1>14, <1>15, <1>16 DEF Restarting, step
<1>. QED
  BY <1>6, <1>7, <1>8, <1>9, <1>17 DEF RecoveryInv

(***************************************************************************)
(* Redo.                                                                   *)
(***************************************************************************)
\* Writing a newer image of the log to page p uncovers nothing that a checkpoint left out.
LEMMA WriteIsCovered ==
    ASSUME NEW h, NEW w \in Seq(Records), History(h, w), Size \in Pages, NEW l \in 0 .. Len(w),
           NEW f \in Files, KeptBy(w, l, f), NEW p \in Pages, p <= Size, NEW k \in Recs(w, p, l),
           f.page[p].lsn < k, NEW v, NEW b \in Lsns(w), NEW q \in Pages, CoveredAt(w, l, f, b, q)
    PROVE  CoveredAt(w, l, WritePage(f, p, v), b, q)
<1>. DEFINE g == WritePage(f, p, v)
<1>1. Size \in Nat /\ Len(w) \in Nat /\ Lsns(w) = 1 .. Len(w) /\ l \in Nat
  BY LsnsAre, PagesAreNumbers DEF Lsns
<1>2. \A x \in Pages : x # p => g.maybe[x] = f.maybe[x]
  <2>1. f.maybe \in [Pages -> SUBSET Versions]
    BY DEF Files
  <2>2. g.maybe = [f.maybe EXCEPT ![p] = @ \cup {v, NoPage}]
    BY DEF WritePage
  <2>. HIDE DEF g
  <2>. QED
    BY <2>1, <2>2
<1>. HIDE DEF g
<1>3. CASE q # p
  BY <1>2, <1>3 DEF CoveredAt, g
<1>4. CASE q = p
  <2>1. LastRec(w, p, l) \in Nat /\ k <= LastRec(w, p, l) /\ k \in Nat \ {0}
    BY <1>1, LastRecFacts DEF Recs
  <2>2. ASSUME ~(LastRec(w, p, l) > b)
        PROVE  FALSE
    <3>1. b \in 0 .. Len(w) /\ b \in Nat /\ k <= b
      BY <1>1, <2>1, <2>2
    <3>2. k \in Recs(w, p, b)
      BY <1>1, <3>1 DEF Recs
    <3>3. LastRec(w, p, b) >= k /\ LastRec(w, p, b) \in Nat
      BY <3>1, <3>2, LastRecFacts
    <3>4. At(w, p, b).lsn >= k
      BY <2>1, <3>1, <3>3, PagesOfTheLog
    <3>5. f.page[p] = At(w, p, b)
      BY <1>4, <2>2 DEF CoveredAt, KeptBy
    <3>6. f.page[p].lsn \in Nat
      BY DEF Files, Versions
    <3>. QED
      BY <2>1, <3>4, <3>5, <3>6
  <2>. QED
    BY <1>4, <2>2 DEF CoveredAt
<1>. QED
  BY <1>3, <1>4

\* redo_record of a record of the log: a page record whose page is older is written, and nothing
\* else happens.
LEMMA RedoIs ==
    ASSUME NEW w, NEW l \in Nat \ {0}, WellFormed(w, l), w[l] \in Records, NEW f \in Files, f.cnt = Size,
           Size \in Pages
    PROVE  LET next == redo_record(f, Size, w[l], l)
               write == IsPageRecord(w[l]) /\ f.page[w[l].page].lsn < l
           IN  /\ next.ok /\ next.cnt = Size
               /\ write => w[l].page \in Pages /\ w[l].page <= Size /\ Img(w[l]).lsn = l
                           /\ next.file = WritePage(f, w[l].page, Img(w[l]))
               /\ ~write => next.file = f
<1>. DEFINE r == w[l]
            p == r.page
<1>1. Size \in Nat
  BY PagesAreNumbers
<1>2. CASE r.kind = "PageUpdate"
  <2>1. /\ p <= Size /\ r.after \in Image /\ r.after.lsn = l /\ r.after # NoPage /\ Img(r) = r.after
        /\ p \in Pages /\ IsPageRecord(r)
    <3>1. p <= Size /\ r.after \in Image /\ r.after.lsn = l
      BY <1>2 DEF WellFormed, ChangeFits
    <3>2. r.after.val # -1
      BY <3>1, DurabilityAssumption DEF Image
    <3>3. r.after # NoPage
      BY <3>2 DEF NoPage
    <3>4. p \in Pages
      BY <1>2, RecordKinds DEF PageUpdates
    <3>. QED
      BY <1>2, <3>1, <3>3, <3>4 DEF Img, IsPageRecord
  <2>2. p \in Nat /\ ~Sparse(f, p) /\ Larger(Size, p) = Size
    BY <1>1, <2>1, PagesAreNumbers DEF Sparse, Larger
  <2>. HIDE DEF p
  <2>3. CASE f.page[p].lsn < l
    BY <1>2, <2>1, <2>2, <2>3 DEF redo_record, page_needs_redo, p
  <2>4. CASE ~(f.page[p].lsn < l)
    BY <1>2, <2>1, <2>2, <2>4 DEF redo_record, page_needs_redo, p
  <2>. QED
    BY <2>1, <2>3, <2>4 DEF p
<1>3. CASE r.kind = "Compensation"
  <2>1. /\ p <= Size /\ r.undo \in Image /\ r.undo.lsn = l /\ r.undo # NoPage /\ Img(r) = r.undo
        /\ p \in Pages /\ IsPageRecord(r) /\ r.resulting_page_count = Size
    <3>1. p <= Size /\ r.undo \in Image /\ r.undo.lsn = l /\ p \in Pages /\ r.resulting_page_count = Size
      BY <1>3 DEF WellFormed, UndoFits
    <3>2. r.undo.val # -1
      BY <3>1, DurabilityAssumption DEF Image
    <3>3. r.undo # NoPage
      BY <3>2 DEF NoPage
    <3>. QED
      BY <1>3, <3>1, <3>3 DEF Img, IsPageRecord
  <2>3. redo_record(f, Size, r, l) = apply_compensation(f, Size, r, l)
    BY <1>3 DEF redo_record
  <2>4. ~(Size > Size) /\ ~(Size < Size) /\ Larger(Size, Size) = Size
    BY <1>1 DEF Larger
  <2>2. p \in Nat /\ ~Sparse(f, p) /\ Larger(Size, p) = Size
    <3>1. p \in Pages /\ p <= Size
      BY <2>1
    <3>. HIDE DEF p
    <3>. QED
      BY <1>1, <3>1, PagesAreNumbers DEF Sparse, Larger
  <2>. HIDE DEF r
  <2>6. IsPageRecord(r) /\ Img(r) = r.undo /\ r.undo.lsn = l /\ r.page \in Pages /\ r.page <= Size
    BY <2>1
  <2>10. ~Sparse(f, r.page) /\ Larger(Size, r.page) = Size
    BY <2>2
  <2>. HIDE DEF p
  <2>. DEFINE next == apply_compensation(f, Size, r, l)
  <2>7. CASE page_needs_redo(f, r.page, l)
    <3>1. next.file = WritePage(f, r.page, r.undo)
      BY <2>1, <2>10, <2>4, <2>7 DEF apply_compensation
    <3>2. next.cnt = Size
      BY <2>1 DEF apply_compensation
    <3>3. next.ok
      BY <2>1, <2>4, <2>10 DEF apply_compensation
    <3>. QED
      BY <2>3, <2>6, <2>7, <3>1, <3>2, <3>3 DEF page_needs_redo, r
  <2>8. CASE ~page_needs_redo(f, r.page, l)
    <3>1. next.file = f
      BY <2>1, <2>4, <2>8 DEF apply_compensation
    <3>2. next.cnt = Size
      BY <2>1 DEF apply_compensation
    <3>3. next.ok
      BY <2>1, <2>4, <2>8 DEF apply_compensation
    <3>. QED
      BY <2>3, <2>8, <3>1, <3>2, <3>3 DEF page_needs_redo, r
  <2>. QED
    BY <2>7, <2>8
<1>4. CASE r.kind \notin {"PageUpdate", "Compensation"}
  <2>1. r.kind # "Resize"
    BY DEF WellFormed
  <2>2. redo_record(f, Size, r, l) = [file |-> f, cnt |-> Size, ok |-> TRUE]
    BY <1>4, <2>1 DEF redo_record
  <2>. QED
    BY <1>4, <2>2 DEF IsPageRecord
<1>. QED
  BY <1>2, <1>3, <1>4

\* A step of a restart moves no session and no commit.
LEMMA RestartFrame ==
    ASSUME Core, RecoveryInv, mode = "recovering", mode' = mode, UNCHANGED <<phase, job, checkpoint, cands>>,
           History(cands, wal'), Kept', Covered', Tables', Restarting'
    PROVE  RecoveryInv'
<1>1. job = Idle /\ Idle.step = "idle" /\ \A t \in Txns : phase[t] \in {"none", "gone"}
  BY IdleIs DEF Core, Owners
<1>2. Quiet' /\ Committing' /\ Serving'
  BY <1>1 DEF Quiet, Committing, Serving, Unwritten, Early
<1>. QED
  BY <1>2 DEF RecoveryInv

\* One record of redo: the image is written when the page is older, and a page that is not older
\* needs nothing from here on.
LEMMA RecoveryRedoes ==
    ASSUME Core, Core', Trust, OneKindOfCrash, OneSize, RecoveryInv, redo
    PROVE  RecoveryInv'
<1>0. PICK l : l = rec.pos
  OBVIOUS
<1>1. /\ Recovering("redo") /\ l <= rec.last
      /\ UNCHANGED <<walVars, phase, job, checkpoint, cands>>
  BY <1>0 DEF redo
<1>2. /\ mode = "recovering" /\ rec.step = "redo" /\ rec # Idle /\ rec \in Recoveries
      /\ l \in Nat /\ l >= 1 /\ rec.last \in Nat /\ rec.last <= Len(wal)
      /\ Len(wal) \in Nat /\ wal \in Seq(Records) /\ file \in Files
  BY <1>0, <1>1, RecoveryIs DEF RecoverySteps
<1>3. /\ History(cands, wal) /\ Kept /\ Covered /\ Tables /\ rec.cnt = Size /\ rec.target = Size
      /\ Redoing /\ Undoing
  BY <1>2 DEF RecoveryInv, Restarting
<1>4. rec.last = Len(wal) /\ l \in 1 .. Len(wal) /\ l \in Lsns(wal) /\ Lsns(wal) = 1 .. Len(wal)
      /\ l \in Nat \ {0}
  BY <1>0, <1>1, <1>2, <1>3 DEF Redoing, Lsns
<1>5. /\ wal[l] \in Records /\ WellFormed(wal, l) /\ file.cnt = Size /\ Size \in Pages /\ Size \in Nat
  BY <1>2, <1>3, <1>4, LsnsAre, OneSizeIs DEF History, Kept
<1>. DEFINE write == IsPageRecord(wal[l]) /\ file.page[wal[l].page].lsn < l
<1>6. /\ mode' = mode /\ rec' = [rec EXCEPT !.pos = l + 1, !.cnt = Size]
      /\ write => /\ wal[l].page \in Pages /\ wal[l].page <= Size /\ Img(wal[l]).lsn = l
                  /\ file' = WritePage(file, wal[l].page, Img(wal[l]))
      /\ ~write => file' = file
  <2>. DEFINE next == redo_record(file, Size, wal[l], l)
  <2>1. /\ next.ok /\ next.cnt = Size
        /\ write => wal[l].page \in Pages /\ wal[l].page <= Size /\ Img(wal[l]).lsn = l
                    /\ next.file = WritePage(file, wal[l].page, Img(wal[l]))
        /\ ~write => next.file = file
    BY <1>2, <1>4, <1>5, RedoIs
  <2>2. /\ file' = IF next.ok THEN next.file ELSE file
        /\ mode' = IF next.ok THEN mode ELSE "failed"
        /\ rec' = [rec EXCEPT !.pos = @ + 1, !.cnt = next.cnt]
    BY <1>0, <1>3 DEF redo
  <2>. HIDE DEF next, write
  <2>3. rec' = [rec EXCEPT !.pos = l + 1, !.cnt = Size]
    BY <1>0, <2>1, <2>2
  <2>. QED
    BY <2>1, <2>2, <2>3
<1>. HIDE DEF write
<1>7. rec'.pos = l + 1 /\ rec'.cnt = Size /\ rec'.last = rec.last /\ rec'.target = Size
      /\ rec'.undo = rec.undo /\ rec'.step = "redo"
  BY <1>2, <1>3, <1>6 DEF Recoveries
<1>8. Certain' = Certain /\ Certain = Len(wal) /\ wal' = wal
  BY <1>1, <1>2, <1>4, CertainIs DEF Certain, walVars
<1>9. KeptBy(wal, Len(wal), file)
  BY <1>3, <1>8 DEF Kept, KeptBy
<1>10. ASSUME write, NEW p, p = wal[l].page
       PROVE  /\ p \in Pages /\ p <= Size /\ l \in Recs(wal, p, Len(wal)) /\ file.page[p].lsn < l
              /\ Img(wal[l]) = At(wal, p, l) /\ LastRec(wal, p, l) = l
  <2>1. p \in Pages /\ p <= Size /\ file.page[p].lsn < l /\ IsPageRecord(wal[l])
    BY <1>6, <1>10 DEF write
  <2>2. l \in Recs(wal, p, Len(wal)) /\ l \in Recs(wal, p, l) /\ \A i \in Recs(wal, p, l) : i <= l
    BY <1>4, <1>10, <2>1 DEF Recs
  <2>3. LastRec(wal, p, l) = l
    BY <1>2, <2>2, LastRecIs
  <2>4. wal[LastRec(wal, p, l)] = wal[l] /\ LastRec(wal, p, l) # 0
    BY <1>4, <2>3
  <2>. QED
    BY <2>1, <2>2, <2>3, <2>4 DEF At
<1>11. KeptBy(wal, Len(wal), file')
  <2>1. CASE write
    <3>1. PICK p : p = wal[l].page
      OBVIOUS
    <3>2. /\ p \in Pages /\ p <= Size /\ l \in Recs(wal, p, Len(wal))
          /\ Img(wal[l]) = At(wal, p, l) /\ Img(wal[l]).lsn = l
          /\ file' = WritePage(file, p, Img(wal[l]))
      BY <1>6, <1>10, <2>1, <3>1
    <3>. QED
      BY <1>2, <1>5, <1>9, <3>2, WriteIsKept
  <2>2. CASE ~write
    BY <1>6, <1>9, <2>2
  <2>. QED
    BY <2>1, <2>2
<1>12. Kept'
  BY <1>8, <1>11 DEF Kept, KeptBy
<1>13. Covered'
  <2>1. ASSUME NEW c \in Lsns(wal), NEW q \in Pages, CoveredAt(wal, Len(wal), file, c, q)
        PROVE  CoveredAt(wal, Len(wal), file', c, q)
    <3>1. CASE write
      <4>1. PICK p : p = wal[l].page
        OBVIOUS
      <4>2. /\ p \in Pages /\ p <= Size /\ l \in Recs(wal, p, Len(wal)) /\ file.page[p].lsn < l
            /\ file' = WritePage(file, p, Img(wal[l]))
        BY <1>6, <1>10, <3>1, <4>1
      <4>3. Len(wal) \in 0 .. Len(wal)
        BY <1>2
      <4>. QED
        BY <1>2, <1>3, <1>5, <1>9, <2>1, <4>2, <4>3, WriteIsCovered
    <3>2. CASE ~write
      BY <1>6, <2>1, <3>2
    <3>. QED
      BY <3>1, <3>2
  <2>. QED
    BY <1>3, <1>8, <2>1 DEF Covered
<1>14. \A q : Latest(q)' = Latest(q)
  BY <1>8 DEF Latest
<1>15. Redoing'
  <2>1. ASSUME NEW q \in Pages
        PROVE  file'.page[q] = Latest(q) \/ l + 1 <= LastRec(wal, q, Len(wal))
    <3>1. file.page[q] = Latest(q) \/ l <= LastRec(wal, q, Len(wal))
      BY <1>0, <1>3, <1>4 DEF Redoing
    <3>2. LastRec(wal, q, Len(wal)) \in Nat
      BY <1>2, LastRecFacts
    <3>3. CASE write /\ wal[l].page = q
      <4>1. /\ q \in Pages /\ q <= Size /\ l \in Recs(wal, q, Len(wal))
            /\ Img(wal[l]) = At(wal, q, l) /\ file' = WritePage(file, q, Img(wal[l]))
        BY <1>6, <1>10, <3>3
      <4>2. file'.page[q] = At(wal, q, l)
        BY <1>2, <1>5, <1>9, <4>1, WriteFacts DEF KeptBy
      <4>3. l <= LastRec(wal, q, Len(wal))
        BY <1>2, <4>1, LastRecFacts
      <4>4. CASE l = LastRec(wal, q, Len(wal))
        <5>1. LastRec(wal, q, l) = LastRec(wal, q, Len(wal))
          BY <1>2, <1>4, <4>4, LastRecGrows
        <5>2. At(wal, q, l) = At(wal, q, Len(wal))
          BY <5>1 DEF At
        <5>. QED
          BY <4>2, <5>2 DEF Latest
      <4>. QED
        BY <1>2, <3>2, <4>3, <4>4
    <3>4. CASE ~(write /\ wal[l].page = q)
      <4>1. file'.page[q] = file.page[q]
        <5>1. CASE write
          <6>1. PICK p : p = wal[l].page
            OBVIOUS
          <6>2. p \in Pages /\ p <= Size /\ file' = WritePage(file, p, Img(wal[l])) /\ q # p
            BY <1>6, <3>4, <5>1, <6>1
          <6>. QED
            BY <1>2, <1>5, <1>9, <6>2, WriteFacts DEF KeptBy
        <5>2. CASE ~write
          BY <1>6, <5>2
        <5>. QED
          BY <5>1, <5>2
      <4>2. CASE l = LastRec(wal, q, Len(wal))
        <5>1. l \in Recs(wal, q, Len(wal))
          BY <1>2, <1>4, <4>2, LastRecFacts
        <5>2. IsPageRecord(wal[l]) /\ wal[l].page = q
          BY <5>1 DEF Recs
        <5>3. ~(file.page[q].lsn < l)
          BY <3>4, <5>2 DEF write
        <5>4. Version(wal, Len(wal), q, file.page[q]) /\ file.page[q].lsn \in Nat
          BY <1>9, FileIs DEF KeptBy, Versions
        <5>5. file.page[q] # NoPage
          BY <1>2, <5>3, <1>4 DEF NoPage
        <5>6. /\ file.page[q].lsn <= Len(wal) /\ file.page[q] = At(wal, q, file.page[q].lsn)
          BY <5>4, <5>5 DEF Version
        <5>7. LastRec(wal, q, file.page[q].lsn) = LastRec(wal, q, Len(wal))
          <6>1. PICK n : n = file.page[q].lsn
            OBVIOUS
          <6>2. n \in Nat /\ n <= Len(wal) /\ LastRec(wal, q, Len(wal)) <= n
            BY <1>2, <4>2, <5>3, <5>4, <5>6, <6>1
          <6>. QED
            BY <1>2, <6>1, <6>2, LastRecGrows
        <5>8. At(wal, q, file.page[q].lsn) = At(wal, q, Len(wal))
          BY <5>7 DEF At
        <5>. QED
          BY <4>1, <5>6, <5>8 DEF Latest
      <4>3. CASE l # LastRec(wal, q, Len(wal))
        BY <1>2, <3>1, <3>2, <4>1, <4>3
      <4>. QED
        BY <4>2, <4>3
    <3>. QED
      BY <3>3, <3>4
  <2>. QED
    BY <1>4, <1>7, <1>8, <1>14, <2>1 DEF Redoing
<1>16. Undoing'
  BY <1>3, <1>7, <1>8 DEF Undoing, HasEnded, StillOpen
<1>17. Tables'
  BY <1>1, <1>3 DEF Tables, walVars
<1>18. Restarting'
  BY <1>7, <1>15, <1>16 DEF Restarting
<1>. QED
  BY <1>1, <1>2, <1>3, <1>6, <1>8, <1>12, <1>13, <1>17, <1>18, RestartFrame

(***************************************************************************)
(* Undo.                                                                   *)
(***************************************************************************)
\* What has been put back stays put back while its transaction changes no other page.
LEMMA UndoneGrows ==
    ASSUME NEW w, NEW u, NEW n \in Nat, NEW m \in Nat, n <= m, \A i \in 1 .. n : u[i] = w[i],
           NEW t, Updates(u, m, t) = Updates(w, n, t), NEW q, Undone(w, t, q, n)
    PROVE  Undone(u, t, q, m)
<1>. SUFFICES ASSUME NEW i \in Updates(w, n, t), i > q
              PROVE  \E k \in i + 1 .. m : u[k].kind = "Compensation" /\ u[k].page = u[i].page
  BY DEF Undone
<1>1. PICK k \in i + 1 .. n : w[k].kind = "Compensation" /\ w[k].page = w[i].page
  BY DEF Undone
<1>2. i \in 1 .. n /\ k \in 1 .. n /\ k \in i + 1 .. m
  BY DEF Updates
<1>. QED
  BY <1>1, <1>2

\* Putting back a change of the one open transaction: the page is as it is served.
LEMMA UndoAppend ==
    ASSUME NEW c, NEW w \in Seq(Records), NEW r \in Records, History(c, w),
           r.kind = "Compensation", r.txn \in Txns, r.page \in Pages, r.page <= Size,
           r.undo \in Image, r.undo.lsn = Len(w) + 1, r.resulting_page_count = Size,
           r.undo_next_lsn \in 1 .. Len(w), w[r.undo_next_lsn].txn = r.txn,
           ~Ended(w, Len(w), r.txn), Undone(Append(w, r), r.txn, r.undo_next_lsn, Len(w) + 1),
           r.undo.val = c[Author(w, Len(w))].val[r.page]
    PROVE  History(c, Append(w, r))
<1>. DEFINE n == Len(w)
            u == Append(w, r)
<1>1. /\ n \in Nat /\ Len(u) = n + 1 /\ u[n + 1] = r /\ (\A i \in 1 .. n : u[i] = w[i])
      /\ Lsns(w) = 1 .. n
  BY AppendFacts DEF Lsns
<1>2. IsPageRecord(r) /\ ~IsTerminal(r) /\ r.kind # "Commit" /\ r.kind # "PageUpdate"
  BY DEF IsPageRecord, IsTerminal
<1>3. LastRec(u, r.page, n + 1) = n + 1 /\ At(u, r.page, n + 1) = Img(r)
  BY <1>2, AppendReads
<1>4. \A q : q # r.page => LastRec(u, q, n + 1) = LastRec(w, q, n) /\ At(u, q, n + 1) = At(w, q, n)
  BY AppendReads, Zenon
<1>5. \A t : Updates(u, n + 1, t) = Updates(w, n, t)
  BY <1>2, AppendReads
<1>7. \A t : Ended(u, n + 1, t) <=> Ended(w, n, t)
  BY <1>2, AppendReads, Zenon
<1>8. Author(u, n + 1) = Author(w, n)
  BY <1>2, AppendReads
<1>9. Sane(c, w, n) /\ \A i \in 1 .. n : WellFormed(w, i)
  BY <1>1 DEF History
<1>10. WellFormed(u, n + 1)
  <2>1. n + 1 - 1 = n
    BY <1>1
  <2>2. u[r.undo_next_lsn].txn = r.txn
    BY <1>1
  <2>3. UndoFits(u, n + 1)
    BY <1>1, <2>1, <2>2 DEF UndoFits
  <2>4. ~Ended(u, n, r.txn)
    BY <1>1 DEF Ended
  <2>. HIDE DEF n, u
  <2>. QED
    BY <1>1, <2>1, <2>3, <2>4 DEF WellFormed
<1>. HIDE DEF n, u
<1>11. \A t : Open(u, n + 1, t) <=> Open(w, n, t)
  BY <1>5, <1>7 DEF Open
<1>12. OneOpen(u, n + 1)
  BY <1>9, <1>11 DEF OneOpen, Sane
<1>13. BeforeIsServed(c, u, n + 1)
  <2>1. \A t : \A i \in Updates(w, n, t) : u[i] = w[i]
    BY <1>1 DEF Updates
  <2>. QED
    BY <1>5, <1>8, <1>9, <1>11, <2>1 DEF BeforeIsServed, Sane
<1>14. PageIsServed(c, u, n + 1)
  <2>. SUFFICES ASSUME NEW q \in Pages
                PROVE  \/ At(u, q, n + 1).val = c[Author(u, n + 1)].val[q]
                       \/ /\ LastRec(u, q, n + 1) # 0 /\ u[LastRec(u, q, n + 1)].kind = "PageUpdate"
                          /\ Open(u, n + 1, u[LastRec(u, q, n + 1)].txn)
    BY DEF PageIsServed
  <2>2. CASE q = r.page
    BY <1>2, <1>3, <1>8, <2>2 DEF Img, n
  <2>3. CASE q # r.page
    <3>1. LastRec(u, q, n + 1) = LastRec(w, q, n) /\ At(u, q, n + 1) = At(w, q, n)
      BY <1>4, <2>3
    <3>2. LastRec(w, q, n) # 0 => LastRec(w, q, n) \in 1 .. n
      BY <1>1, LastRecFacts DEF Recs
    <3>3. LastRec(w, q, n) # 0 => u[LastRec(w, q, n)] = w[LastRec(w, q, n)]
      BY <1>1, <3>2
    <3>. QED
      BY <1>8, <1>9, <1>11, <3>1, <3>3 DEF Sane, PageIsServed
  <2>. QED
    BY <2>2, <2>3
<1>15. Sane(c, u, n + 1)
  BY <1>12, <1>13, <1>14 DEF Sane
<1>. QED
  BY <1>10, <1>15, HistoryGrows DEF n, u

\* What undo_losers is about to undo.
LEMMA LoserIs ==
    ASSUME Core, RecoveryInv, NEW t \in Txns, NextLoser(t)
    PROVE  /\ rec # Idle /\ rec.cnt = Size /\ rec.target = Size /\ Redoing /\ Undoing
           /\ rec.undo[t] # 0 /\ rec.pos > rec.last /\ ~HasEnded(t) /\ wal[rec.undo[t]].txn = t
           /\ \A p \in Pages : file.page[p] = Latest(p)
           /\ WellFormed(wal, rec.undo[t]) /\ rec.undo[t] \in 1 .. Len(wal)
<1>1. /\ rec.step = "redo" /\ rec.undo[t] # 0 /\ rec.pos > rec.last /\ rec.undo[t] \in Lsns(wal)
      /\ mode = "recovering" /\ rec.pos \in Nat /\ rec.last \in Nat
  <2>1. Recovering("redo") /\ rec.pos > rec.last /\ rec.undo[t] # 0
    BY DEF NextLoser
  <2>. QED
    BY <2>1, UndoIs, RecoveryIs DEF RecoverySteps
<1>2. rec # Idle
  BY <1>1, RecoveryIs DEF NextLoser, RecoverySteps
<1>3. rec.cnt = Size /\ rec.target = Size /\ Redoing /\ Undoing /\ History(cands, wal)
  BY <1>1, <1>2 DEF RecoveryInv, Restarting
<1>4. ASSUME NEW p \in Pages
      PROVE  file.page[p] = Latest(p)
  <2>1. LastRec(wal, p, rec.last) \in 0 .. rec.last
    BY <1>1, LastRecFacts
  <2>. QED
    BY <1>1, <1>3, <2>1 DEF Redoing
<1>. QED
  BY <1>1, <1>2, <1>3, <1>4 DEF Undoing, History, Lsns

\* A step of undo_losers that appends a record of t.
LEMMA UndoFrame ==
    ASSUME Core, Core', RecoveryInv, NEW t \in Txns, NextLoser(t), mode' = mode,
           NEW r \in Records, wal' = Append(wal, r), r.txn = t, r.kind \in {"Abort", "Compensation"},
           UNCHANGED <<phase, job, checkpoint, cands>>,
           NEW next \in 0 .. Len(wal), rec' = [rec EXCEPT !.undo[t] = next, !.cnt = Size],
           History(cands, wal'), Kept', Covered', Tables',
           \A p \in Pages : file'.page[p] = Latest(p)',
           next # 0 => r.kind = "Compensation" /\ wal[next].txn = t,
           r.kind = "Compensation" => next # 0 /\ Undone(wal', t, next, Len(wal) + 1)
    PROVE  RecoveryInv'
<1>1. /\ rec.cnt = Size /\ rec.target = Size /\ Redoing /\ Undoing
      /\ rec.undo[t] # 0 /\ rec.pos > rec.last /\ ~HasEnded(t)
  BY LoserIs
<1>2. /\ mode = "recovering" /\ rec.step = "redo" /\ rec \in Recoveries
      /\ rec.undo \in [Txns -> Nat] /\ \A u \in Txns : rec.undo[u] \in 0 .. Len(wal)
      /\ Len(wal) \in Nat /\ wal \in Seq(Records)
  BY UndoIs
<1>3. /\ rec'.step = "redo" /\ rec'.pos = rec.pos /\ rec'.last = rec.last /\ rec'.cnt = Size
      /\ rec'.target = Size
  BY <1>1, <1>2 DEF Recoveries
<1>4. rec'.undo = [rec.undo EXCEPT ![t] = next]
  BY <1>2 DEF Recoveries
<1>5. /\ Len(wal') = Len(wal) + 1 /\ \A i \in 1 .. Len(wal) : wal'[i] = wal[i]
  BY <1>2, AppendFacts DEF Lsns
<1>6. ~IsTerminal(r) <=> r.kind = "Compensation"
  BY DEF IsTerminal
<1>7. \A u : Updates(wal', Len(wal'), u) = Updates(wal, Len(wal), u)
  BY <1>2, <1>5, AppendReads
<1>8. \A u : Ended(wal', Len(wal'), u) <=> HasEnded(u) \/ (IsTerminal(r) /\ u = t)
  <2>1. \A u : Ended(Append(wal, r), Len(wal) + 1, u) <=> Ended(wal, Len(wal), u) \/ (IsTerminal(r) /\ r.txn = u)
    BY <1>2, AppendReads, Zenon
  <2>. QED
    BY <1>5, <2>1 DEF HasEnded
<1>9. Redoing'
  <2>1. rec.pos \in Nat /\ rec.last \in Nat
    BY <1>2 DEF Recoveries
  <2>2. ~(rec'.pos <= rec'.last)
    BY <1>1, <1>3, <2>1
  <2>. QED
    BY <2>2 DEF Redoing
<1>10. ASSUME NEW u \in Txns
       PROVE  /\ rec'.undo[u] # 0 => ~Ended(wal', Len(wal'), u) /\ wal'[rec'.undo[u]].txn = u
              /\ Open(wal', Len(wal'), u) => rec'.undo[u] # 0 /\ Undone(wal', u, rec'.undo[u], Len(wal'))
  <2>1. CASE u = t
    <3>1. rec'.undo[u] = next
      BY <1>2, <1>4, <2>1
    <3>2. next # 0 => ~Ended(wal', Len(wal'), u) /\ wal'[next].txn = u
      BY <1>1, <1>5, <1>6, <1>8, <2>1
    <3>3. Open(wal', Len(wal'), u) => r.kind = "Compensation"
      BY <1>6, <1>8, <2>1 DEF Open
    <3>. QED
      BY <1>5, <2>1, <3>1, <3>2, <3>3
  <2>2. CASE u # t
    <3>1. rec'.undo[u] = rec.undo[u] /\ rec.undo[u] \in 0 .. Len(wal)
      BY <1>2, <1>4, <2>2
    <3>2. /\ rec.undo[u] # 0 => ~HasEnded(u) /\ wal[rec.undo[u]].txn = u
          /\ StillOpen(u) => rec.undo[u] # 0 /\ Undone(wal, u, rec.undo[u], Len(wal))
      BY <1>1 DEF Undoing
    <3>3. rec.undo[u] # 0 => wal'[rec.undo[u]] = wal[rec.undo[u]]
      BY <1>2, <1>5, <3>1
    <3>4. Open(wal', Len(wal'), u) => StillOpen(u)
      BY <1>7, <1>8 DEF Open, StillOpen, HasEnded
    <3>5. Undone(wal, u, rec.undo[u], Len(wal)) => Undone(wal', u, rec.undo[u], Len(wal'))
      <4>1. Len(wal') \in Nat /\ Len(wal) <= Len(wal')
        BY <1>2, <1>5
      <4>2. Updates(wal', Len(wal'), u) = Updates(wal, Len(wal), u)
        BY <1>7
      <4>3. \A i \in 1 .. Len(wal) : wal'[i] = wal[i]
        BY <1>5
      <4>4. \A q : Undone(wal, u, q, Len(wal)) => Undone(wal', u, q, Len(wal'))
        BY <1>2, <4>1, <4>2, <4>3, UndoneGrows, Zenon
      <4>. QED
        BY <4>4
    <3>6. Ended(wal', Len(wal'), u) <=> HasEnded(u)
      BY <1>8, <2>2
    <3>7. rec.undo[u] # 0 => ~Ended(wal', Len(wal'), u) /\ wal'[rec.undo[u]].txn = u
      BY <3>2, <3>3, <3>6
    <3>. QED
      BY <3>1, <3>2, <3>4, <3>5, <3>7
  <2>. QED
    BY <2>1, <2>2
<1>11. Undoing'
  BY <1>10 DEF Undoing, HasEnded, StillOpen
<1>12. Restarting'
  BY <1>3, <1>9, <1>11 DEF Restarting
<1>. QED
  BY <1>2, <1>12, RestartFrame

\* A Compensation of an earlier restart: what lies behind it has been put back.
LEMMA RecoverySkips ==
    ASSUME Core, Core', RecoveryInv, NEW t \in Txns, undo_compensation(t)
    PROVE  RecoveryInv'
<1>0. PICK i : i = rec.undo[t]
  OBVIOUS
<1>1. /\ NextLoser(t) /\ wal[i].kind = "Compensation"
      /\ rec' = [rec EXCEPT !.undo[t] = wal[i].undo_next_lsn]
      /\ UNCHANGED <<walVars, file, mode, phase, job, checkpoint, cands>>
  BY <1>0 DEF undo_compensation
<1>2. /\ rec.cnt = Size /\ rec.target = Size /\ Redoing /\ Undoing /\ ~HasEnded(t) /\ wal[i].txn = t
      /\ WellFormed(wal, i) /\ i \in 1 .. Len(wal)
  BY <1>0, <1>1, LoserIs
<1>3. /\ mode = "recovering" /\ rec.step = "redo" /\ rec \in Recoveries
      /\ rec.undo \in [Txns -> Nat] /\ Len(wal) \in Nat
  BY <1>1, UndoIs
<1>4. PICK x : x = wal[i].undo_next_lsn
  OBVIOUS
<1>5. x \in 1 .. i - 1 /\ wal[x].txn = t /\ Undone(wal, t, x, i)
  BY <1>1, <1>2, <1>4 DEF WellFormed, UndoFits
<1>6. StillOpen(t) => Undone(wal, t, x, Len(wal))
  <2>. SUFFICES ASSUME StillOpen(t), NEW j \in Updates(wal, Len(wal), t), j > x
                PROVE  \E k \in j + 1 .. Len(wal) : wal[k].kind = "Compensation" /\ wal[k].page = wal[j].page
    BY DEF Undone
  <2>1. CASE j <= i
    <3>1. j \in Updates(wal, i, t)
      BY <1>2, <2>1 DEF Updates
    <3>2. PICK k \in j + 1 .. i : wal[k].kind = "Compensation" /\ wal[k].page = wal[j].page
      BY <1>5, <3>1 DEF Undone
    <3>3. k \in j + 1 .. Len(wal)
      BY <1>2, <1>3, <3>1, <3>2 DEF Updates
    <3>. QED
      BY <3>2, <3>3
  <2>2. CASE ~(j <= i)
    <3>1. j > i
      BY <1>2, <2>2 DEF Updates
    <3>2. Undone(wal, t, i, Len(wal))
      BY <1>0, <1>2 DEF Undoing
    <3>. QED
      BY <3>1, <3>2 DEF Undone
  <2>. QED
    BY <2>1, <2>2
<1>7. /\ rec'.step = "redo" /\ rec'.pos = rec.pos /\ rec'.last = rec.last /\ rec'.cnt = Size
      /\ rec'.target = Size /\ rec'.undo = [rec.undo EXCEPT ![t] = x]
  BY <1>1, <1>2, <1>3, <1>4 DEF Recoveries
<1>8. wal' = wal /\ file' = file /\ Certain' = Certain
  BY <1>1 DEF Certain, walVars
<1>9. Redoing'
  BY <1>2, <1>7, <1>8 DEF Redoing, Latest
<1>10. Undoing'
  <2>1. ASSUME NEW u \in Txns
        PROVE  /\ rec'.undo[u] # 0 => ~HasEnded(u) /\ wal[rec'.undo[u]].txn = u
               /\ StillOpen(u) => rec'.undo[u] # 0 /\ Undone(wal, u, rec'.undo[u], Len(wal))
    <3>1. CASE u = t
      <4>1. rec'.undo[u] = x /\ x # 0
        BY <1>3, <1>5, <1>7, <3>1
      <4>. QED
        BY <1>2, <1>5, <1>6, <3>1, <4>1
    <3>2. CASE u # t
      <4>1. rec'.undo[u] = rec.undo[u]
        BY <1>3, <1>7, <3>2
      <4>. QED
        BY <1>2, <4>1 DEF Undoing
    <3>. QED
      BY <3>1, <3>2
  <2>. QED
    BY <1>8, <2>1 DEF Undoing, HasEnded, StillOpen
<1>11. Restarting'
  BY <1>7, <1>9, <1>10 DEF Restarting
<1>12. History(cands, wal') /\ Kept' /\ Covered' /\ Tables'
  BY <1>1, <1>8 DEF RecoveryInv, Kept, Covered, Tables, walVars
<1>. QED
  BY <1>1, <1>3, <1>11, <1>12, RestartFrame

\* No transaction has changed the size of the file.
LEMMA NoResizeUndone ==
    ASSUME Core, RecoveryInv, NEW t \in Txns
    PROVE  ~undo_resize(t)
<1>. SUFFICES ASSUME undo_resize(t)
              PROVE  FALSE
  OBVIOUS
<1>1. NextLoser(t) /\ wal[rec.undo[t]].kind = "Resize"
  BY DEF undo_resize
<1>2. WellFormed(wal, rec.undo[t])
  BY <1>1, LoserIs
<1>. QED
  BY <1>1, <1>2 DEF WellFormed

\* mark_transaction_clean leaves fewer entries.
LEMMA CleanedTables ==
    ASSUME Core, Tables, wal' = wal \/ \E r \in Records : wal' = Append(wal, r) /\ ~IsPageRecord(r),
           NEW t, cleaned(t), checkpoint' = checkpoint, checkpoint.step # "sampled"
    PROVE  Tables'
<1>1. wal \in Seq(Records) /\ Len(wal) \in Nat
  BY LenProperties DEF Core, Types, LogTypes
<1>2. /\ \A p : LastRec(wal', p, Len(wal')) = LastRec(wal, p, Len(wal))
      /\ \A p : \A i \in Recs(wal, p, Len(wal)) : i \in Recs(wal', p, Len(wal')) /\ wal'[i] = wal[i]
  <2>1. CASE wal' = wal
    BY <2>1
  <2>2. ASSUME NEW r \in Records, wal' = Append(wal, r), ~IsPageRecord(r)
        PROVE  <1>2
    <3>1. Len(wal') = Len(wal) + 1 /\ \A i \in 1 .. Len(wal) : wal'[i] = wal[i]
      BY <1>1, <2>2, AppendFacts DEF Lsns
    <3>2. \A p : LastRec(wal', p, Len(wal')) = LastRec(wal, p, Len(wal))
      BY <1>1, <2>2, <3>1, PlainReads
    <3>3. \A p : \A i \in Recs(wal, p, Len(wal)) : i \in Recs(wal', p, Len(wal')) /\ wal'[i] = wal[i]
      BY <1>1, <3>1 DEF Recs
    <3>. QED
      BY <3>2, <3>3
  <2>. QED
    BY <2>1, <2>2
<1>3. \A p \in Pages : dirty_pages'[p] = 0 \/ dirty_pages'[p] = dirty_pages[p]
  BY DEF cleaned
<1>4. transaction_dirty_pages' \subseteq transaction_dirty_pages
  BY DEF cleaned
<1>5. ASSUME NEW p \in Pages
      PROVE  dirty_pages'[p] <= LastRec(wal', p, Len(wal'))
  <2>1. LastRec(wal, p, Len(wal)) \in Nat
    BY <1>1, LastRecFacts
  <2>. QED
    BY <1>2, <1>3, <2>1 DEF Tables
<1>6. \A d \in transaction_dirty_pages' : \E i \in Recs(wal', d[2], Len(wal')) : wal'[i].txn = d[1]
  BY <1>2, <1>4 DEF Tables
<1>. QED
  BY <1>5, <1>6 DEF Tables

\* undo_losers reaches the Begin record: every change of the transaction has been put back, and
\* its Abort record says so.
LEMMA RecoveryAborts ==
    ASSUME Core, Core', Trust, OneKindOfCrash, OneSize, RecoveryInv, NEW t \in Txns, undo_begin(t)
    PROVE  RecoveryInv'
<1>0. PICK i : i = rec.undo[t]
  OBVIOUS
<1>. DEFINE r == Abort(t, last_lsn(wal, t))
            n == Len(wal)
<1>1. /\ NextLoser(t) /\ wal[i].kind = "Begin" /\ terminate(r)
      /\ rec' = [rec EXCEPT !.undo[t] = 0]
      /\ UNCHANGED <<file, mode, phase, job, checkpoint, cands>>
  BY <1>0 DEF undo_begin
<1>2. /\ rec # Idle /\ rec.cnt = Size /\ Undoing /\ ~HasEnded(t) /\ wal[i].txn = t /\ i \in 1 .. n
      /\ \A p \in Pages : file.page[p] = Latest(p)
  BY <1>0, <1>1, LoserIs
<1>3. /\ mode = "recovering" /\ rec \in Recoveries /\ n \in Nat /\ wal \in Seq(Records)
  BY <1>1, UndoIs
<1>4. /\ History(cands, wal) /\ Kept /\ Covered /\ Tables /\ Lsns(wal) = 1 .. n
  BY DEF RecoveryInv, Lsns
<1>5. r \in Records /\ r.kind = "Abort" /\ r.txn = t /\ ~IsPageRecord(r) /\ IsTerminal(r)
  <2>1. last_lsn(wal, t) \in Nat
    BY <1>3, LastLsnFacts
  <2>2. r \in Records /\ r.kind = "Abort" /\ r.txn = t
    BY <2>1, RecordsAre, RecordFields
  <2>. QED
    BY <2>2 DEF IsPageRecord, IsTerminal
<1>. HIDE DEF r
<1>6. wal' = Append(wal, r) /\ sync(n + 1, n + 1) /\ cleaned(t)
  BY <1>1, <1>5 DEF terminate
<1>7. LogMoves
  BY <1>6, AppendMoves DEF Core, Types
<1>8. /\ Len(wal') = n + 1 /\ (\A j \in 1 .. n : wal'[j] = wal[j]) /\ wal'[n + 1] = r
      /\ Lsns(wal') = Lsns(wal) \cup {n + 1}
  BY <1>3, <1>5, <1>6, AppendFacts DEF Lsns
<1>. HIDE DEF n
<1>9. /\ \A p : LastRec(wal', p, n + 1) = LastRec(wal, p, n)
      /\ \A p : At(wal', p, n + 1) = At(wal, p, n)
      /\ \A u : Updates(wal', n + 1, u) = Updates(wal, n, u)
      /\ Author(wal', n + 1) = Author(wal, n)
  BY <1>3, <1>5, <1>6, PlainReads DEF n
<1>10. \A u : Ended(wal', n + 1, u) <=> Ended(wal, n, u) \/ u = t
  <2>1. \A u : Ended(Append(wal, r), Len(wal) + 1, u) <=> Ended(wal, Len(wal), u) \/ (IsTerminal(r) /\ r.txn = u)
    BY <1>3, <1>5, AppendReads, Zenon
  <2>. QED
    BY <1>5, <1>6, <2>1 DEF n
<1>11. ~Ended(wal, n, t)
  BY <1>2 DEF HasEnded, n
<1>12. WellFormed(wal', n + 1)
  BY <1>3, <1>5, <1>6, <1>11, PlainWellFormed DEF n
<1>13. \A u : Open(wal', n + 1, u) <=> Open(wal, n, u) /\ u # t
  BY <1>9, <1>10 DEF Open
<1>14. Sane(cands, wal, n)
  BY <1>3, <1>4 DEF History, n
<1>15. ASSUME NEW p \in Pages, LastRec(wal, p, n) # 0, wal[LastRec(wal, p, n)].kind = "PageUpdate",
              wal[LastRec(wal, p, n)].txn = t
       PROVE  FALSE
  <2>1. PICK j : j = LastRec(wal, p, n)
    OBVIOUS
  <2>2. j \in Recs(wal, p, n) /\ \A k \in Recs(wal, p, n) : k <= j
    BY <1>3, <1>15, <2>1, LastRecFacts DEF n
  <2>3. j \in 1 .. n /\ wal[j].page = p /\ j \in Updates(wal, n, t)
    BY <1>15, <2>1, <2>2 DEF Recs, Updates
  <2>4. j >= i
    BY <1>1, <1>2, <1>3, <1>4, <1>11, <1>15, <2>1, <2>3, BeginIsFirst DEF n
  <2>5. j > i
    BY <1>1, <1>2, <1>15, <2>1, <2>3, <2>4
  <2>6. Undone(wal, t, i, n)
    <3>1. StillOpen(t)
      BY <1>11, <2>3 DEF StillOpen, Open, n
    <3>. QED
      BY <1>0, <1>2, <3>1 DEF Undoing, n
  <2>7. PICK k \in j + 1 .. n : wal[k].kind = "Compensation" /\ wal[k].page = p
    BY <2>3, <2>5, <2>6 DEF Undone
  <2>8. k \in Recs(wal, p, n)
    BY <2>3, <2>7 DEF Recs, IsPageRecord
  <2>9. k > j
    BY <2>3, <2>7
  <2>. QED
    BY <2>2, <2>3, <2>7, <2>8, <2>9
<1>16. PageIsServed(cands, wal', n + 1)
  <2>. SUFFICES ASSUME NEW p \in Pages
                PROVE  \/ At(wal', p, n + 1).val = cands[Author(wal', n + 1)].val[p]
                       \/ /\ LastRec(wal', p, n + 1) # 0 /\ wal'[LastRec(wal', p, n + 1)].kind = "PageUpdate"
                          /\ Open(wal', n + 1, wal'[LastRec(wal', p, n + 1)].txn)
    BY DEF PageIsServed
  <2>1. \/ At(wal, p, n).val = cands[Author(wal, n)].val[p]
        \/ /\ LastRec(wal, p, n) # 0 /\ wal[LastRec(wal, p, n)].kind = "PageUpdate"
           /\ Open(wal, n, wal[LastRec(wal, p, n)].txn)
    BY <1>14 DEF Sane, PageIsServed
  <2>2. LastRec(wal, p, n) # 0 => LastRec(wal, p, n) \in 1 .. n
    BY <1>3, LastRecFacts DEF Recs, n
  <2>3. LastRec(wal, p, n) # 0 => wal'[LastRec(wal, p, n)] = wal[LastRec(wal, p, n)]
    BY <1>8, <2>2
  <2>4. CASE At(wal, p, n).val = cands[Author(wal, n)].val[p]
    BY <1>9, <2>4
  <2>5. CASE /\ LastRec(wal, p, n) # 0 /\ wal[LastRec(wal, p, n)].kind = "PageUpdate"
             /\ Open(wal, n, wal[LastRec(wal, p, n)].txn)
    <3>1. wal[LastRec(wal, p, n)].txn # t
      BY <1>15, <2>5
    <3>2. Open(wal', n + 1, wal[LastRec(wal, p, n)].txn)
      BY <1>13, <2>5, <3>1
    <3>. QED
      BY <1>9, <2>3, <2>5, <3>2
  <2>. QED
    BY <2>1, <2>4, <2>5
<1>17. Sane(cands, wal', n + 1)
  <2>1. OneOpen(wal', n + 1)
    BY <1>13, <1>14 DEF OneOpen, Sane
  <2>2. \A u : \A j \in Updates(wal, n, u) : wal'[j] = wal[j]
    BY <1>8 DEF Updates
  <2>3. BeforeIsServed(cands, wal', n + 1)
    BY <1>9, <1>13, <1>14, <2>2 DEF BeforeIsServed, Sane
  <2>. QED
    BY <1>16, <2>1, <2>3 DEF Sane
<1>18. History(cands, wal')
  BY <1>3, <1>4, <1>5, <1>6, <1>12, <1>17, HistoryGrows DEF n
<1>19. Kept' /\ Covered'
  <2>1. \A c \in Lsns(wal') \ Lsns(wal) : wal'[c].kind # "CheckpointBegin"
    BY <1>5, <1>8
  <2>. QED
    BY <1>1, <1>4, <1>7, <2>1, KeptStays, CoveredGoesOn
<1>20. Tables'
  <2>1. checkpoint = Idle /\ checkpoint.step # "sampled"
    BY <1>3, IdleIs DEF Core, Owners
  <2>. QED
    BY <1>1, <1>4, <1>5, <1>6, <2>1, CleanedTables
<1>21. \A p \in Pages : file'.page[p] = Latest(p)'
  BY <1>1, <1>2, <1>8, <1>9 DEF Latest, n
<1>22. rec' = [rec EXCEPT !.undo[t] = 0, !.cnt = Size]
  BY <1>1, <1>2, <1>3 DEF Recoveries
<1>23. 0 \in 0 .. Len(wal)
  BY <1>3 DEF n
<1>. QED
  BY <1>1, <1>5, <1>6, <1>18, <1>19, <1>20, <1>21, <1>22, <1>23, UndoFrame

\* append_compensation and the write of the page: what t found is back in the log and in the file.
LEMMA RecoveryUndoesPage ==
    ASSUME Core, Core', Trust, OneKindOfCrash, OneSize, RecoveryInv, NEW t \in Txns, undo_page(t)
    PROVE  RecoveryInv'
<1>0. PICK i : i = rec.undo[t]
  OBVIOUS
<1>00. PICK p : p = wal[i].page
  OBVIOUS
<1>. DEFINE n == Len(wal)
            image == [wal[i].before EXCEPT !.lsn = n + 1]
            r == Compensation(t, last_lsn(wal, t), p, image, Size, wal[i].prev)
<1>1. NextLoser(t) /\ wal[i].kind = "PageUpdate" /\ UNCHANGED <<phase, job, checkpoint, cands>>
  BY <1>0 DEF undo_page
<1>2. /\ rec # Idle /\ rec.cnt = Size /\ Undoing /\ ~HasEnded(t) /\ wal[i].txn = t /\ i \in 1 .. n
      /\ i # 0 /\ WellFormed(wal, i) /\ \A q \in Pages : file.page[q] = Latest(q)
  BY <1>0, <1>1, LoserIs
<1>3. /\ mode = "recovering" /\ rec \in Recoveries /\ n \in Nat /\ wal \in Seq(Records)
      /\ file \in Files /\ wal[i] \in Records
  BY <1>0, <1>1, UndoIs
<1>4. /\ History(cands, wal) /\ Kept /\ Covered /\ Tables /\ Lsns(wal) = 1 .. n
      /\ Size \in Pages /\ Size \in Nat
  BY OneSizeIs DEF RecoveryInv, Lsns
<1>5. /\ p \in Pages /\ p <= Size /\ p \in Nat /\ wal[i].before \in Image
      /\ wal[i].prev \in 1 .. i - 1 /\ wal[wal[i].prev].txn = t
      /\ \A j \in wal[i].prev + 1 .. i - 1 : wal[j].txn # t
  <2>1. wal[i] \in PageUpdates
    BY <1>1, <1>3, RecordKinds
  <2>2. p \in Pages
    BY <1>00, <2>1 DEF PageUpdates
  <2>. QED
    BY <1>00, <1>1, <1>2, <2>2, PagesAreNumbers DEF WellFormed, ChangeFits
<1>6. /\ wal[i].before # NoPage /\ image \in Image /\ image \in Versions /\ image.lsn = n + 1
      /\ image.val = wal[i].before.val /\ image # NoPage
  <2>1. wal[i].before.val \in 0 .. MaxTxn /\ -1 \notin 0 .. MaxTxn /\ 0 .. MaxTxn \subseteq Int
    BY <1>5, DurabilityAssumption DEF Image
  <2>2. image \in Image /\ image.lsn = n + 1 /\ image.val = wal[i].before.val
    BY <1>3, <1>5 DEF Image
  <2>3. wal[i].before # NoPage /\ image # NoPage
    BY <2>1, <2>2 DEF NoPage
  <2>4. image \in Versions
    BY <2>1, <2>2 DEF Image, Versions
  <2>. HIDE DEF image
  <2>. QED
    BY <2>2, <2>3, <2>4
<1>7. ~Sparse(file, p) /\ Larger(Size, p) = Size
  BY <1>4, <1>5 DEF Sparse, Larger, Kept
<1>8. /\ append_and_flush(r) /\ file' = WritePage(file, p, image) /\ mode' = mode
      /\ rec' = [rec EXCEPT !.undo[t] = wal[i].prev, !.cnt = Size]
  <2>1. image = IF wal[i].before = NoPage THEN NoPage ELSE [wal[i].before EXCEPT !.lsn = Len(wal) + 1]
    BY <1>6
  <2>2. /\ append_and_flush(Compensation(t, last_lsn(wal, t), p, image, rec.cnt, wal[i].prev))
        /\ file' = IF image = NoPage \/ Sparse(file, p) THEN file ELSE WritePage(file, p, image)
        /\ mode' = IF image # NoPage /\ Sparse(file, p) THEN "failed" ELSE mode
        /\ rec' = [rec EXCEPT !.undo[t] = wal[i].prev,
                              !.cnt = IF image = NoPage THEN @ ELSE Larger(@, p)]
    BY <1>0, <1>00, <2>1 DEF undo_page
  <2>. HIDE DEF image
  <2>3. rec' = [rec EXCEPT !.undo[t] = wal[i].prev, !.cnt = Size]
    BY <1>2, <1>6, <1>7, <2>2
  <2>. QED
    BY <1>2, <1>6, <1>7, <2>2, <2>3
<1>. HIDE DEF image
<1>9. /\ r \in Records /\ r.kind = "Compensation" /\ r.txn = t /\ r.page = p /\ r.undo = image
      /\ r.resulting_page_count = Size /\ r.undo_next_lsn = wal[i].prev /\ IsPageRecord(r)
      /\ ~IsTerminal(r)
  <2>1. r \in Records
    <3>1. wal[i].prev \in 0 .. Len(wal)
      BY <1>2, <1>3, <1>5
    <3>2. image.lsn <= Len(wal) + 1
      BY <1>3, <1>6
    <3>. QED
      BY <1>4, <1>5, <1>6, <3>1, <3>2, CompensationFits
  <2>2. /\ r.kind = "Compensation" /\ r.txn = t /\ r.page = p /\ r.undo = image
        /\ r.resulting_page_count = Size /\ r.undo_next_lsn = wal[i].prev
    BY DEF Compensation
  <2>. QED
    BY <2>1, <2>2 DEF IsPageRecord, IsTerminal
<1>. HIDE DEF r
<1>10. append(r) /\ wal' = Append(wal, r) /\ sync(n + 1, n + 1)
  BY <1>8 DEF append_and_flush, append
<1>11. LogMoves /\ synced' = n + 1
  BY <1>10, AppendMoves DEF Core, Types
<1>12. /\ Len(wal') = n + 1 /\ (\A j \in 1 .. n : wal'[j] = wal[j]) /\ wal'[n + 1] = r
       /\ Lsns(wal') = Lsns(wal) \cup {n + 1}
  BY <1>3, <1>9, <1>10, AppendFacts DEF Lsns
<1>. HIDE DEF n
<1>13. Certain' = n + 1
  BY <1>11, <1>12 DEF Certain
<1>14. LastRec(wal', p, n + 1) = n + 1 /\ At(wal', p, n + 1) = image
  <2>1. LastRec(wal', p, n + 1) = n + 1 /\ At(wal', p, n + 1) = Img(r)
    BY <1>3, <1>9, <1>10, AppendReads DEF n
  <2>. QED
    BY <1>9, <2>1 DEF Img
<1>15. \A q : q # p => LastRec(wal', q, n + 1) = LastRec(wal, q, n) /\ At(wal', q, n + 1) = At(wal, q, n)
  <2>1. \A q : q # r.page => LastRec(Append(wal, r), q, Len(wal) + 1) = LastRec(wal, q, Len(wal))
                             /\ At(Append(wal, r), q, Len(wal) + 1) = At(wal, q, Len(wal))
    BY <1>3, <1>9, AppendReads, Zenon
  <2>. QED
    BY <1>9, <1>10, <2>1 DEF n
<1>16. \A u : Updates(wal', n + 1, u) = Updates(wal, n, u)
  BY <1>3, <1>9, <1>10, AppendReads DEF n
<1>17. ~Ended(wal, n, t) /\ i \in Updates(wal, n, t) /\ Open(wal, n, t)
  BY <1>1, <1>2 DEF HasEnded, Updates, Open, n
<1>18. Undone(wal, t, i, n)
  BY <1>0, <1>2, <1>17 DEF Undoing, StillOpen, n
<1>19. Undone(wal', t, wal[i].prev, n + 1)
  <2>. SUFFICES ASSUME NEW j \in Updates(wal', n + 1, t), j > wal[i].prev
                PROVE  \E k \in j + 1 .. n + 1 : wal'[k].kind = "Compensation" /\ wal'[k].page = wal'[j].page
    BY DEF Undone
  <2>1. j \in 1 .. n /\ wal[j].txn = t /\ j \in Updates(wal, n, t) /\ wal'[j] = wal[j]
    BY <1>12, <1>16 DEF Updates
  <2>2. ~(j < i)
    BY <1>2, <1>5, <2>1
  <2>3. CASE j = i
    <3>1. n + 1 \in j + 1 .. n + 1
      BY <1>3, <2>1 DEF n
    <3>. QED
      BY <1>00, <1>9, <1>12, <2>1, <2>3, <3>1
  <2>4. CASE j > i
    <3>1. PICK k \in j + 1 .. n : wal[k].kind = "Compensation" /\ wal[k].page = wal[j].page
      BY <1>18, <2>1, <2>4 DEF Undone
    <3>2. k \in j + 1 .. n + 1 /\ k \in 1 .. n
      BY <1>3, <2>1, <3>1 DEF n
    <3>. QED
      BY <1>12, <2>1, <3>1, <3>2
  <2>. QED
    BY <1>2, <2>1, <2>2, <2>3, <2>4
<1>20. wal[i].before.val = cands[Author(wal, n)].val[p]
  <2>1. Sane(cands, wal, n)
    BY <1>3, <1>4 DEF History, n
  <2>. QED
    BY <1>00, <1>17, <2>1 DEF Sane, BeforeIsServed
<1>21. History(cands, wal')
  <2>1. wal[i].prev \in 1 .. n
    BY <1>2, <1>3, <1>5 DEF n
  <2>. QED
    BY <1>3, <1>4, <1>5, <1>6, <1>9, <1>10, <1>17, <1>19, <1>20, <2>1, UndoAppend DEF n
<1>22. /\ Certain <= n + 1 /\ Certain \in 0 .. n /\ n \in Nat
       /\ \A j \in 1 .. n : wal'[j] = wal[j]
  BY <1>3, <1>12, CertainIs DEF n
<1>23. KeptBy(wal', n + 1, file)
  <2>1. ASSUME NEW q \in Pages, NEW v \in file.maybe[q]
        PROVE  Version(wal', n + 1, q, v)
    <3>1. Version(wal, Certain, q, v) /\ v \in Versions
      BY <1>4, <2>1, FileIs DEF Kept
    <3>2. n + 1 \in Nat
      BY <1>22
    <3>. QED
      BY <1>22, <3>1, <3>2, VersionGrows
  <2>. QED
    BY <1>4, <2>1 DEF Kept, KeptBy
<1>24. n + 1 \in Recs(wal', p, n + 1) /\ image = At(wal', p, n + 1)
  BY <1>9, <1>12, <1>14, <1>22 DEF Recs
<1>25. KeptBy(wal', n + 1, file')
  <2>1. n + 1 \in Nat
    BY <1>22
  <2>. QED
    BY <1>3, <1>4, <1>5, <1>6, <1>8, <1>23, <1>24, <2>1, WriteIsKept
<1>26. Kept'
  BY <1>13, <1>25 DEF Kept, KeptBy
<1>27. /\ file'.page[p] = image
       /\ \A q \in Pages : q # p => file'.page[q] = file.page[q] /\ file'.maybe[q] = file.maybe[q]
  <2>1. file.cnt = Size /\ file.maybe_cnt = {Size}
    BY <1>4 DEF Kept
  <2>2. file'.page[p] = image
    BY <1>3, <1>4, <1>5, <1>8, <2>1, WriteFacts
  <2>3. \A q \in Pages : q # p => /\ WritePage(file, p, image).page[q] = file.page[q]
                                 /\ WritePage(file, p, image).maybe[q] = file.maybe[q]
    <3>1. file.page \in [Pages -> Versions] /\ file.maybe \in [Pages -> SUBSET Versions]
      BY <1>3 DEF Files
    <3>. QED
      BY <3>1 DEF WritePage
  <2>. QED
    BY <1>8, <2>2, <2>3
<1>28. Covered'
  <2>1. ASSUME NEW c \in Lsns(wal'), wal'[c].kind = "CheckpointBegin", NEW q \in Pages,
               wal'[c].dirty_pages[q] = 0
        PROVE  CoveredAt(wal', n + 1, file', c, q)
    <3>1. c \in 1 .. n /\ wal[c] = wal'[c]
      BY <1>4, <1>9, <1>12, <2>1
    <3>2. CASE q = p
      BY <1>14, <1>22, <3>1, <3>2 DEF CoveredAt
    <3>3. CASE q # p
      <4>1. CoveredAt(wal, Certain, file, c, q)
        BY <1>4, <2>1, <3>1 DEF Covered
      <4>2. CoveredAt(wal', n + 1, file, c, q)
        <5>1. n + 1 \in Nat /\ c \in 0 .. n
          BY <1>22, <3>1
        <5>. QED
          BY <1>22, <4>1, <5>1, CoveredGrows
      <4>. QED
        BY <1>27, <3>3, <4>2 DEF CoveredAt
    <3>. QED
      BY <3>2, <3>3
  <2>. QED
    BY <1>13, <2>1 DEF Covered
<1>29. Tables'
  BY <1>1, <1>4, <1>9, <1>10, TablesPage
<1>30. \A q \in Pages : file'.page[q] = Latest(q)'
  <2>1. ASSUME NEW q \in Pages
        PROVE  file'.page[q] = At(wal', q, n + 1)
    <3>1. CASE q = p
      BY <1>14, <1>27, <3>1
    <3>2. CASE q # p
      BY <1>2, <1>15, <1>27, <3>2 DEF Latest, n
    <3>. QED
      BY <3>1, <3>2
  <2>. QED
    BY <1>12, <2>1 DEF Latest
<1>31. wal[i].prev \in 0 .. Len(wal) /\ wal[i].prev # 0
  BY <1>2, <1>5, <1>22 DEF n
<1>. QED
  BY <1>1, <1>5, <1>8, <1>9, <1>10, <1>19, <1>21, <1>26, <1>28, <1>29, <1>30, <1>31, UndoFrame DEF n

(***************************************************************************)
(* The end of a restart.                                                   *)
(***************************************************************************)
\* Every page can be read, the manifest names all of them, and nothing is left to undo.
LEMMA RecoveryFinishes ==
    ASSUME Core, Core', Trust, OneKindOfCrash, OneSize, RecoveryInv, recovery_finish
    PROVE  RecoveryInv'
<1>1. /\ Recovering("redo") /\ rec.pos > rec.last /\ \A t \in Txns : rec.undo[t] = 0
      /\ rec' = [rec EXCEPT !.step = "checkpoint"]
      /\ UNCHANGED <<walVars, phase, job, checkpoint, cands>>
  BY DEF recovery_finish
<1>2. /\ mode = "recovering" /\ rec.step = "redo" /\ rec # Idle /\ rec \in Recoveries
      /\ rec.pos \in Nat /\ rec.last \in Nat /\ Len(wal) \in Nat /\ wal \in Seq(Records) /\ file \in Files
  BY <1>1, RecoveryIs DEF RecoverySteps
<1>3. /\ History(cands, wal) /\ Kept /\ Covered /\ Tables /\ rec.cnt = Size /\ rec.target = Size
      /\ Redoing /\ Undoing /\ cands \in [0 .. MaxTxn -> Proper]
  BY <1>2 DEF RecoveryInv, Restarting
<1>4. ASSUME NEW p \in Pages
      PROVE  file.page[p] = Latest(p)
  <2>1. LastRec(wal, p, rec.last) \in 0 .. rec.last
    BY <1>2, LastRecFacts
  <2>. QED
    BY <1>1, <1>2, <1>3, <2>1 DEF Redoing
<1>5. /\ file' = SyncFile(file) /\ mode' = IF Loadable(file') /\ file'.cnt = Size THEN mode ELSE "failed"
  BY <1>3 DEF recovery_finish
<1>6. wal' = wal /\ Certain' = Certain
  BY <1>1 DEF Certain, walVars
<1>7. KeptBy(wal, Certain, file)
  BY <1>3 DEF Kept, KeptBy
<1>8. /\ KeptBy(wal, Certain, file') /\ file'.page = file.page
      /\ \A p \in Pages : file'.maybe[p] = {file.page[p]}
      /\ \A c, p : p \in Pages /\ CoveredAt(wal, Certain, file, c, p) => CoveredAt(wal, Certain, file', c, p)
  BY <1>2, <1>5, <1>7, SyncIsKept
<1>9. Kept' /\ Covered'
  BY <1>3, <1>6, <1>8 DEF Kept, KeptBy, Covered
<1>10. Tables'
  BY <1>1, <1>3 DEF Tables, walVars
<1>11. mode' = mode
  <2>1. Size \in Pages /\ Size \in Nat \ {0} /\ file'.cnt = Size
    BY <1>8, OneSizeIs DEF KeptBy
  <2>2. ASSUME NEW p \in 1 .. Size
        PROVE  p \in Pages /\ file'.page[p] \in Image
    <3>1. p \in Pages /\ p <= Size
      BY <2>1, DurabilityAssumption DEF Pages
    <3>2. Len(wal) \in 0 .. Len(wal)
      BY <1>2
    <3>3. At(wal, p, Len(wal)) \in Image
      BY <1>2, <1>3, <2>1, <3>1, <3>2, PagesOfTheLog
    <3>. QED
      BY <1>4, <1>8, <3>1, <3>3 DEF Latest
  <2>3. Readable(file')
    <3>1. \A v \in Image : v # NoPage
      BY DurabilityAssumption DEF Image, NoPage
    <3>. QED
      BY <2>1, <2>2, <3>1 DEF Readable
  <2>4. file'.page[1].val \in 0 .. MaxTxn
    BY <2>1, <2>2 DEF Image
  <2>5. cands'[file'.page[1].val].cnt = Size
    BY <1>1, <1>3, <2>4 DEF Proper
  <2>6. Loadable(file')
    BY <1>1, <2>1, <2>3, <2>5 DEF Loadable
  <2>. QED
    BY <1>5, <2>1, <2>6
<1>12. rec'.step = "checkpoint" /\ rec'.cnt = Size /\ rec'.target = Size
  BY <1>1, <1>2, <1>3 DEF Recoveries
<1>13. \A p \in Pages : Current(p)'
  BY <1>4, <1>6, <1>8 DEF Current, Latest
<1>14. \A t \in Txns : ~StillOpen(t)'
  BY <1>1, <1>3, <1>6 DEF Undoing, StillOpen
<1>15. Restarting'
  BY <1>12, <1>13, <1>14 DEF Restarting
<1>. QED
  BY <1>1, <1>2, <1>3, <1>6, <1>9, <1>10, <1>11, <1>15, RestartFrame

\* The checkpoint of a restart: the file holds every page as the log leaves it.
LEMMA RecoveryCheckpointed ==
    ASSUME Core, Core', Trust, OneKindOfCrash, OneSize, RecoveryInv,
           recovery_checkpoint_begin \/ recovery_checkpoint_end
    PROVE  RecoveryInv'
<1>1. PICK s \in {"checkpoint", "checkpoint_end"} : Recovering(s)
  BY DEF recovery_checkpoint_begin, recovery_checkpoint_end
<1>2. /\ mode = "recovering" /\ rec.step = s /\ rec # Idle /\ rec \in Recoveries
      /\ Len(wal) \in Nat /\ wal \in Seq(Records)
  BY <1>1, RecoveryIs DEF RecoverySteps
<1>3. UNCHANGED <<file, mode, phase, job, checkpoint, cands>>
  BY DEF recovery_checkpoint_begin, recovery_checkpoint_end
<1>4. /\ History(cands, wal) /\ Kept /\ Covered /\ Tables /\ rec.cnt = Size /\ rec.target = Size
      /\ (\A p \in Pages : Current(p)) /\ \A t \in Txns : ~StillOpen(t)
  BY <1>2 DEF RecoveryInv, Restarting
<1>5. dirty_pages \in Positions
  BY DEF Core, Types, LogTypes
<1>6. PICK r \in Records :
         /\ append_and_flush(r) /\ r.txn = 0 /\ r.kind \in {"CheckpointBegin", "CheckpointEnd"}
         /\ r.kind = "CheckpointBegin" => r.dirty_pages = dirty_pages
         /\ rec'.step # "redo" /\ rec'.cnt = Size /\ rec'.target = Size
  <2>1. CASE recovery_checkpoint_begin
    <3>1. CheckpointBegin(dirty_pages) \in Records
      BY <1>5, CheckpointRecords DEF Core, Pointers
    <3>2. CheckpointBegin(dirty_pages).dirty_pages = dirty_pages
      BY DEF CheckpointBegin
    <3>3. /\ append_and_flush(CheckpointBegin(dirty_pages))
          /\ rec'.step # "redo" /\ rec'.cnt = Size /\ rec'.target = Size
      BY <1>2, <1>4, <2>1 DEF recovery_checkpoint_begin, Recoveries
    <3>. QED
      BY <3>1, <3>2, <3>3, RecordFields
  <2>2. CASE recovery_checkpoint_end
    <3>1. CheckpointAt(wal, rec.pos)
      BY <2>2 DEF recovery_checkpoint_end, Recovering, Core, Pointers
    <3>2. CheckpointEnd(rec.pos) \in Records
      BY <3>1, CheckpointRecords DEF Core, Pointers
    <3>3. /\ append_and_flush(CheckpointEnd(rec.pos))
          /\ rec'.step # "redo" /\ rec'.cnt = Size /\ rec'.target = Size
      BY <1>2, <1>4, <2>2 DEF recovery_checkpoint_end, Recoveries
    <3>. QED
      BY <3>2, <3>3, RecordFields
  <2>. QED
    BY <2>1, <2>2
<1>7. ~IsPageRecord(r) /\ ~IsTerminal(r) /\ r.kind # "Resize" /\ r.kind # "Begin"
  BY <1>6 DEF IsPageRecord, IsTerminal
<1>8. wal' = Append(wal, r) /\ UNCHANGED <<dirty_pages, transaction_dirty_pages>>
  BY <1>6, <1>7, PlainAppend DEF append_and_flush
<1>9. LogMoves
  BY <1>6, <1>8, AppendMoves DEF append_and_flush, Core, Types
<1>10. WellFormed(wal', Len(wal) + 1)
  <2>1. \A p \in Pages : dirty_pages[p] <= LastRec(wal, p, Len(wal))
    BY <1>4 DEF Tables
  <2>. QED
    BY <1>2, <1>6, <1>7, <1>8, <2>1, PlainWellFormed
<1>11. History(cands, wal') /\ SameReads
  BY <1>2, <1>4, <1>7, <1>8, <1>10, NeutralAppend
<1>12. /\ Len(wal') = Len(wal) + 1 /\ Lsns(wal') = Lsns(wal) \cup {Len(wal) + 1}
  BY <1>2, <1>8, AppendFacts
<1>13. Kept'
  BY <1>3, <1>4, <1>9, KeptStays
<1>14. Covered'
  <2>1. ASSUME NEW p \in Pages
        PROVE  CoveredAt(wal', Certain', file', Len(wal'), p)
    <3>1. \A v \in file'.maybe[p] : v = At(wal', p, Len(wal'))
      BY <1>3, <1>4, <1>11 DEF Current, SameReads
    <3>. QED
      BY <3>1 DEF CoveredAt
  <2>2. \A c \in Lsns(wal') \ Lsns(wal) : c = Len(wal')
    BY <1>12
  <2>. QED
    BY <1>3, <1>4, <1>9, <2>1, <2>2, CoveredGoesOn
<1>15. Tables'
  <2>1. checkpoint'.step # "sampled"
    BY <1>2, <1>3, IdleIs DEF Core, Owners
  <2>2. Len(wal') \in Nat
    BY <1>2, <1>12
  <2>. QED
    BY <1>2, <1>4, <1>8, <1>9, <1>11, <2>1, <2>2, TablesStay DEF LogMoves
<1>16. Restarting'
  <2>1. (\A p \in Pages : Current(p)') /\ \A t \in Txns : ~StillOpen(t)'
    <3>1. /\ \A p : Current(p)' <=> Current(p)
          /\ \A t : StillOpen(t)' <=> StillOpen(t)
      BY <1>3, <1>11, ReadsStay
    <3>. QED
      BY <1>4, <3>1
  <2>. QED
    BY <1>6, <2>1 DEF Restarting
<1>. QED
  BY <1>2, <1>3, <1>11, <1>13, <1>14, <1>15, <1>16, RestartFrame

\* When no transaction is open and every page is on the disk, the file is the database of the last
\* committed transaction.
LEMMA FileIsServed ==
    ASSUME OneSize, wal \in Seq(Records), History(cands, wal), cands \in [0 .. MaxTxn -> Proper],
           file.cnt = Size, \A p \in Pages : file.page[p] \in file.maybe[p],
           \A p \in Pages : Current(p), \A t \in Txns : ~StillOpen(t)
    PROVE  Load(file) = Served
<1>1. Size \in Pages /\ Len(wal) \in 0 .. Len(wal)
  BY OneSizeIs, LenProperties
<1>2. Served \in Proper
  BY <1>1, AuthorFacts DEF Served
<1>3. ASSUME NEW p \in Pages
      PROVE  Load(file).val[p] = Served.val[p]
  <2>1. file.page[p] = Latest(p)
    BY DEF Current, Latest
  <2>2. Latest(p).val = Served.val[p]
    BY <1>1, NothingOpen DEF Latest, Served, StillOpen
  <2>. QED
    BY <2>1, <2>2 DEF Load
<1>4. Load(file) \in Proper
  <2>1. Served.val \in [Pages -> -1 .. MaxTxn] /\ \A p \in Pages : Served.val[p] # -1 <=> p <= Size
    BY <1>2 DEF Proper, Db
  <2>2. Load(file).cnt = Size
    BY DEF Load
  <2>3. Load(file).val \in [Pages -> -1 .. MaxTxn]
    <3>1. \A p \in Pages : file.page[p].val \in -1 .. MaxTxn
      BY <1>3, <2>1 DEF Load
    <3>. QED
      BY <3>1 DEF Load
  <2>4. Load(file) \in Db
    <3>1. Load(file) = [cnt |-> Load(file).cnt, val |-> Load(file).val]
      BY DEF Load
    <3>. QED
      BY <1>1, <2>2, <2>3, <3>1 DEF Db
  <2>. QED
    BY <1>3, <2>1, <2>2, <2>4 DEF Proper
<1>. QED
  BY <1>2, <1>3, <1>4, SameDb

\* The new state is the database of the last committed transaction.
LEMMA RecoveryReconciles ==
    ASSUME Core, Core', OneSize, RecoveryInv, reconcile_with_wal, mode' = "up"
    PROVE  RecoveryInv'
<1>1. /\ Recovering("reconcile") /\ mem' = Load(file) /\ rec' = Idle
      /\ UNCHANGED <<walVars, file, phase, job, checkpoint, cands>>
  BY DEF reconcile_with_wal
<1>2. /\ mode = "recovering" /\ rec.step = "reconcile" /\ rec # Idle
      /\ Len(wal) \in Nat /\ wal \in Seq(Records) /\ file \in Files
  BY <1>1, RecoveryIs DEF RecoverySteps
<1>3. /\ History(cands, wal) /\ Kept /\ Covered /\ Tables /\ Quiet
      /\ (\A p \in Pages : Current(p)) /\ (\A t \in Txns : ~StillOpen(t))
      /\ cands \in [0 .. MaxTxn -> Proper]
  BY <1>2 DEF RecoveryInv, Restarting
<1>4. wal' = wal /\ Certain' = Certain
  BY <1>1 DEF Certain, walVars
<1>5. job = Idle /\ Idle.step = "idle"
  BY <1>2, IdleIs DEF Core, Owners
<1>6. Kept' /\ Covered' /\ Tables' /\ History(cands, wal)' /\ Quiet'
  <2>1. Kept' /\ Covered' /\ Tables'
    BY <1>1, <1>3, <1>4 DEF Kept, Covered, Tables, walVars
  <2>2. Quiet'
    BY <1>1, <1>3, <1>4, QuietSame
  <2>. QED
    BY <1>1, <1>3, <1>4, <2>1, <2>2
<1>7. Committing'
  BY <1>1, <1>5 DEF Committing, Unwritten, Early
<1>8. Load(file) = Served
  BY <1>2, <1>3, FileIsServed DEF Kept
<1>9. Serving'
  <2>1. /\ \A p \in Pages : Current(p)'
        /\ \A t \in Txns : ~StillOpen(t)'
    BY <1>1, <1>3, <1>4 DEF Current, StillOpen
  <2>2. mem' = Served'
    BY <1>1, <1>4, <1>8 DEF Served
  <2>. QED
    BY <2>1, <2>2 DEF Serving
<1>10. Restarting'
  BY <1>1 DEF Restarting
<1>. QED
  BY <1>1, <1>3, <1>6, <1>7, <1>9, <1>10 DEF RecoveryInv

(***************************************************************************)
(* Every step.                                                             *)
(***************************************************************************)
\* The counters of the model's bounds.
Counted == budget \in [crashes : Nat, faults : Nat, checkpoints : Nat]

\* A fault is never forgotten, and while there was none no commit has failed.
LEMMA BudgetSteps ==
    ASSUME Counted, [Next]_vars
    PROVE  /\ Counted' /\ (Calm' => Calm)
           /\ Calm' => ~persist_fails_active /\ ~persist_fails_committed
<1>1. ASSUME NEW kind, Fault(kind)
      PROVE  Counted' /\ budget'.faults # 0 /\ kind \in Failures
  BY <1>1 DEF Fault, Counted
<1>2. CASE persist_fails_active \/ persist_fails_committed
  <2>1. PICK kind \in {"active", "committed"} : Fault(kind)
    BY <1>2 DEF persist_fails_active, persist_fails_committed
  <2>2. ~Calm'
    BY <1>1, <2>1 DEF Calm
  <2>. QED
    BY <1>1, <2>1, <2>2
<1>3. ASSUME ~persist_fails_active, ~persist_fails_committed
      PROVE  \/ budget' = budget
             \/ Counted' /\ budget'.faults = budget.faults
             \/ Counted' /\ budget'.faults # 0
  <2>1. CASE \E t \in Txns : Session(t)
    BY <2>1 DEF Session, begin_transaction, begin_durable, prepare_commit, commit_empty_status,
                commit_empty_wal, abort_wal, abort_status
  <2>2. CASE \E h \in 1 .. MaxTxn + 1 : compact_before(h)
    BY <2>2 DEF compact_before
  <2>3. CASE Persist
    BY <2>3 DEF Persist, log_page, log_resize, log_flush, mark_status_committed, apply_page,
                apply_resize, apply_sync, commit_append, commit_flush, publish_prepared
  <2>5. CASE \E t \in Txns : begin_fails_flush(t) \/ begin_fails_status(t) \/ abort_fails(t)
    BY <1>1, <2>5 DEF begin_fails_flush, begin_fails_status, abort_fails
  <2>6. CASE checkpoint_sample
    BY <2>6 DEF checkpoint_sample, Counted
  <2>7. CASE checkpoint_begin \/ checkpoint_end
    BY <2>7 DEF checkpoint_begin, checkpoint_end
  <2>8. CASE power_loss \/ process_crash
    BY <2>8 DEF power_loss, process_crash, LoseMemory, Counted
  <2>9. CASE Recovery
    BY <2>9, Zenon DEF Recovery, recover, redo, Undo, undo_begin, undo_page, undo_resize, undo_compensation,
                recovery_finish, recovery_checkpoint_begin, recovery_checkpoint_end, reconcile_with_wal
  <2>10. CASE UNCHANGED vars
    BY <2>10 DEF vars
  <2>. QED
    BY <1>3, <2>1, <2>2, <2>3, <2>5, <2>6, <2>7, <2>8, <2>9, <2>10 DEF Next
<1>. QED
  BY <1>2, <1>3 DEF Calm, Counted

\* A step that changes nothing.
LEMMA RecoveryStutters ==
    ASSUME RecoveryInv, UNCHANGED vars
    PROVE  RecoveryInv'
<1>1. /\ UNCHANGED <<wal, synced, dirty_pages, transaction_dirty_pages, file, mode, phase, mem, job>>
      /\ UNCHANGED <<checkpoint, rec, cands>>
  BY DEF vars, walVars
<1>2. Certain' = Certain
  BY <1>1 DEF Certain
<1>3. Kept' /\ Covered' /\ Tables'
  BY <1>1, <1>2 DEF RecoveryInv, Kept, Covered, Tables
<1>4. Quiet'
  BY <1>1, QuietSame DEF RecoveryInv
<1>5. Committing'
  <2>1. Logging' <=> Logging
    BY <1>1 DEF Logging, Mine, Latest, Current, Served
  <2>2. Applying' <=> Applying
    BY <1>1 DEF Applying, Mine, Latest
  <2>. QED
    BY <1>1, <2>1, <2>2 DEF RecoveryInv, Committing, HasEnded, Latest, Served
<1>6. Serving'
  BY <1>1 DEF RecoveryInv, Serving, StillOpen, Current, Served
<1>7. Restarting'
  <2>1. Redoing' <=> Redoing
    BY <1>1 DEF Redoing, Latest
  <2>2. Undoing' <=> Undoing
    BY <1>1 DEF Undoing, HasEnded, StillOpen
  <2>. QED
    BY <1>1, <2>1, <2>2 DEF RecoveryInv, Restarting, Current, StillOpen
<1>. QED
  BY <1>1, <1>3, <1>4, <1>5, <1>6, <1>7 DEF RecoveryInv

\* Every step but a failed commit.
LEMMA RecoveryStep ==
    ASSUME Core, Core', Agreement, Trust, OneKindOfCrash, OneSize, RecoveryInv, [Next]_vars,
           ~persist_fails_active, ~persist_fails_committed
    PROVE  RecoveryInv'
<1>1. CASE \E t \in Txns : Session(t)
  <2>1. PICK t \in Txns : Session(t)
    BY <1>1
  <2>. QED
    BY <2>1, RecoveryBegins, RecoverySessionStands, RecoveryPrepares, RecoveryEnds DEF Session
<1>2. CASE \E h \in 1 .. MaxTxn + 1 : compact_before(h)
  BY <1>2, RecoveryCompacts
<1>3. CASE Persist
  BY <1>3, RecoveryLogsPage, NothingIsResized, RecoveryFlushes, RecoveryMarks, RecoveryAppliesPage,
     RecoverySyncs, RecoveryCommits, RecoveryCommitFlushes, RecoveryPublishes DEF Persist
<1>5. CASE \E t \in Txns : begin_fails_flush(t) \/ begin_fails_status(t) \/ abort_fails(t)
  <2>1. PICK t \in Txns : begin_fails_flush(t) \/ begin_fails_status(t) \/ abort_fails(t)
    BY <1>5
  <2>. QED
    BY <2>1, RecoveryBegins, RecoverySessionStands, RecoveryEnds
<1>6. CASE checkpoint_sample \/ checkpoint_begin \/ checkpoint_end
  BY <1>6, RecoverySamples, RecoveryCheckpoints
<1>7. CASE power_loss \/ process_crash
  BY <1>7, RecoveryPowerLoss, RecoveryProcessCrash
<1>8. CASE Recovery
  <2>1. CASE \E t \in Txns : Undo(t)
    <3>1. PICK t \in Txns : Undo(t)
      BY <2>1
    <3>. QED
      BY <3>1, RecoveryAborts, RecoveryUndoesPage, NoResizeUndone, RecoverySkips DEF Undo
  <2>2. CASE reconcile_with_wal
    BY <2>2, AgreementReconcile, RecoveryReconciles
  <2>. QED
    BY <1>8, <2>1, <2>2, RecoveryRecovers, RecoveryRedoes, RecoveryFinishes, RecoveryCheckpointed
       DEF Recovery
<1>9. CASE UNCHANGED vars
  BY <1>9, RecoveryStutters
<1>. QED
  BY <1>1, <1>2, <1>3, <1>5, <1>6, <1>7, <1>8, <1>9 DEF Next

\* A new database: no record, and every page is blank.
LEMMA RecoveryInit ==
    ASSUME Init, OneSize
    PROVE  RecoveryInv /\ Counted
<1>1. /\ file = NewFile(Size) /\ mem = InitDb(Size) /\ cands = [t \in 0 .. MaxTxn |-> InitDb(Size)]
      /\ wal = <<>> /\ synced = 0 /\ dirty_pages = [p \in Pages |-> 0] /\ transaction_dirty_pages = {}
      /\ mode = "up" /\ phase = [t \in Txns |-> "none"] /\ job = Idle /\ checkpoint = Idle /\ rec = Idle
      /\ budget = [crashes |-> 0, faults |-> 0, checkpoints |-> 0]
  BY DEF Init, OneSize
<1>2. Size \in Pages /\ Size \in Nat \ {0} /\ Pages \subseteq Nat \ {0}
  BY OneSizeIs, PagesAreNumbers
<1>3. Len(wal) = 0 /\ Lsns(wal) = {} /\ Certain = 0 /\ wal \in Seq(Records) /\ Idle.step = "idle"
  BY <1>1, EmptySeq, IdleIs DEF Lsns, Certain
<1>4. InitDb(Size) \in Proper
  BY <1>2, DurabilityAssumption DEF InitDb, Proper, Db
<1>5. \A p : LastRec(wal, p, 0) = 0 /\ At(wal, p, 0) = Blank(p)
  <2>1. \A p : LastRec(wal, p, 0) \in 0 .. 0
    BY LastRecFacts
  <2>. QED
    BY <2>1 DEF At
<1>6. Author(wal, 0) = 0
  <2>1. Winners(wal, 0) \subseteq 1 .. 0
    BY DEF Winners
  <2>2. LastWinner(wal, 0) \in 0 .. 0
    BY <2>1, LastFacts DEF LastWinner
  <2>. QED
    BY <2>2 DEF Author
<1>7. \A t : Updates(wal, 0, t) = {} /\ ~Open(wal, 0, t)
  BY DEF Updates, Open
<1>8. \A p \in Pages : Blank(p).val = InitDb(Size).val[p] /\ file.page[p] = Blank(p)
                       /\ file.maybe[p] = {Blank(p)} /\ Blank(p).lsn = 0
  BY <1>1 DEF Blank, InitDb, NewFile, NoPage
<1>9. 0 \in 0 .. MaxTxn /\ cands[0] = InitDb(Size)
  BY <1>1, DurabilityAssumption
<1>10. History(cands, wal)
  <2>1. Sane(cands, wal, 0)
    BY <1>5, <1>6, <1>7, <1>8, <1>9 DEF Sane, OneOpen, BeforeIsServed, PageIsServed
  <2>. QED
    BY <1>3, <2>1 DEF History
<1>11. Kept /\ Covered
  BY <1>1, <1>3, <1>5, <1>8 DEF Kept, Covered, Version, NewFile
<1>12. Tables
  BY <1>1, <1>3, <1>5 DEF Tables
<1>13. Quiet /\ Committing
  BY <1>1, <1>3 DEF Quiet, Committing, Unwritten, Early, NoPages, HasEnded, Ended
<1>14. Serving
  BY <1>1, <1>3, <1>5, <1>6, <1>7, <1>8, <1>9 DEF Serving, StillOpen, Current, Served
<1>15. Restarting
  BY <1>1 DEF Restarting
<1>16. Counted
  BY <1>1 DEF Counted
<1>. QED
  BY <1>1, <1>4, <1>10, <1>11, <1>12, <1>13, <1>14, <1>15, <1>16 DEF RecoveryInv

(***************************************************************************)
(* What a reader of the database sees.                                     *)
(***************************************************************************)
\* A transaction with a Commit record has logged its changes before it: nothing of a transaction
\* follows its Commit record.
LEMMA WinnersAre ==
    ASSUME NEW c, NEW w \in Seq(Records), History(c, w)
    PROVE  CommitLsns(w) = Winners(w, Len(w))
<1>. DEFINE n == Len(w)
<1>1. n \in Nat /\ Lsns(w) = 1 .. n /\ \A i \in 1 .. n : w[i] \in Records
  BY LsnsAre DEF Lsns
<1>2. ASSUME NEW i \in 1 .. n, w[i].kind = "Commit"
      PROVE  Has(w, w[i].txn, "PageUpdate") <=> Updates(w, i, w[i].txn) # {}
  <2>1. ASSUME NEW j \in 1 .. n, w[j].txn = w[i].txn, w[j].kind = "PageUpdate"
        PROVE  j \in Updates(w, i, w[i].txn)
    <3>1. w[j].txn # 0
      <4>1. w[j] \in PageUpdates
        BY <1>1, <2>1, RecordKinds
      <4>. QED
        BY <4>1, PagesAreNumbers DEF PageUpdates
    <3>2. ~Ended(w, j - 1, w[j].txn)
      BY <1>1, <3>1 DEF History, WellFormed
    <3>3. ~(i <= j - 1)
      BY <1>2, <2>1, <3>2 DEF Ended, IsTerminal
    <3>4. j \in 1 .. i
      BY <1>1, <3>3
    <3>. QED
      BY <2>1, <3>4 DEF Updates
  <2>2. ASSUME NEW j \in Updates(w, i, w[i].txn)
        PROVE  Has(w, w[i].txn, "PageUpdate")
    <3>1. j \in Lsns(w) /\ w[j].txn = w[i].txn /\ w[j].kind = "PageUpdate"
      BY <1>1, <2>2 DEF Updates
    <3>. QED
      BY <3>1 DEF Has
  <2>3. Has(w, w[i].txn, "PageUpdate") => \E j \in 1 .. n : w[j].txn = w[i].txn /\ w[j].kind = "PageUpdate"
    BY <1>1 DEF Has
  <2>. QED
    BY <2>1, <2>2, <2>3
<1>. QED
  BY <1>1, <1>2 DEF CommitLsns, Winners

\* The two ways of naming the last committed transaction agree.
LEMMA LastCommittedIs ==
    ASSUME wal \in Seq(Records), History(cands, wal)
    PROVE  LastCommitted = Served
<1>. DEFINE S == CommitLsns(wal)
            n == Len(wal)
<1>1. n \in Nat
  BY LenProperties
<1>2. S = Winners(wal, n)
  BY WinnersAre
<1>3. LastCommitted = IF S = {} THEN cands[0] ELSE cands[wal[Max(S)].txn]
  BY DEF LastCommitted, CommitLsns
<1>. HIDE DEF S, n
<1>4. CASE S = {}
  <2>1. LastWinner(wal, n) = 0
    <3>1. Max({0}) \in {0}
      <4>1. {0} \subseteq 0 .. 0 /\ {0} # {} /\ 0 \in Nat
        OBVIOUS
      <4>. QED
        BY <4>1, MaxFacts
    <3>2. {0} \cup S = {0}
      BY <1>4
    <3>. QED
      BY <1>2, <3>1, <3>2 DEF LastWinner
  <2>. QED
    BY <1>3, <1>4, <2>1 DEF Served, Author, n
<1>5. CASE S # {}
  <2>1. S \subseteq 1 .. n /\ S \subseteq 0 .. n
    BY <1>1, <1>2 DEF Winners
  <2>2. Max(S) \in S /\ \A i \in S : Max(S) >= i
    BY <1>1, <1>5, <2>1, MaxFacts
  <2>3. LastWinner(wal, n) = Max(S)
    <3>1. PICK k : k = Max(S)
      OBVIOUS
    <3>2. k \in S /\ \A i \in S : i <= k
      BY <2>1, <2>2, <3>1
    <3>3. Max({0} \cup S) = k
      BY <1>1, <2>1, <3>2, LastIs
    <3>. QED
      BY <1>2, <3>1, <3>3 DEF LastWinner
  <2>4. LastWinner(wal, n) # 0
    BY <2>1, <2>2, <2>3
  <2>. QED
    BY <1>3, <1>5, <2>3, <2>4 DEF Served, Author, n
<1>. QED
  BY <1>4, <1>5

\* The invariant while no commit has failed.
RecoveryIsRight == Calm => RecoveryInv

\* What the invariant says of a database that is up.
LEMMA ServedIsLastCommitted ==
    ASSUME Core, OneSize, RecoveryInv, mode = "up", job = Idle
    PROVE  Load(file) = LastCommitted /\ mem = LastCommitted
<1>1. wal \in Seq(Records) /\ History(cands, wal) /\ cands \in [0 .. MaxTxn -> Proper] /\ Kept /\ Serving
  BY DEF Core, Types, LogTypes, RecoveryInv
<1>2. job.step \notin Unwritten \cup {"commit"}
  BY IdleIs DEF Unwritten, Early
<1>3. (\A p \in Pages : Current(p)) /\ (\A t \in Txns : ~StillOpen(t)) /\ mem = Served
  BY <1>1, <1>2 DEF Serving
<1>. QED
  BY <1>1, <1>3, FileIsServed, LastCommittedIs DEF Kept

\* The invariant of recovery, for a database of one size and crashes of one kind: the log and its
\* prefixes, the versions of the pages that a crash may leave, the checkpoints, the tables of the
\* log manager, the running commit and the running restart fit together.
THEOREM RecoveryInvariant ==
    ASSUME OneSize, OneKindOfCrash
    PROVE  Spec => []RecoveryIsRight
<1>1. Init => RecoveryIsRight /\ Counted /\ Trust
  BY RecoveryInit, TrustedInit DEF RecoveryIsRight, Trust
<1>2. Core /\ Core' /\ Agreement /\ Trust /\ Counted /\ RecoveryIsRight /\ [Next]_vars
         => RecoveryIsRight' /\ Counted' /\ Trust'
  <2>. SUFFICES ASSUME Core, Core', Agreement, Trust, Counted, RecoveryIsRight, [Next]_vars
                PROVE  RecoveryIsRight' /\ Counted' /\ Trust'
    OBVIOUS
  <2>1. Trust'
    BY TrustedStep DEF Trust
  <2>2. Counted' /\ (Calm' => Calm) /\ (Calm' => ~persist_fails_active /\ ~persist_fails_committed)
    BY BudgetSteps
  <2>3. Calm' => RecoveryInv'
    BY <2>2, RecoveryStep DEF RecoveryIsRight
  <2>. QED
    BY <2>1, <2>2, <2>3 DEF RecoveryIsRight
<1>. QED
  BY <1>1, <1>2, CoreInvariant, AgreementInvariant, PTL DEF Spec

\* Whenever no commit is running and no operating system call has failed, the data file and the
\* published state are the database of the last committed transaction.
THEOREM TheStoreIsLastCommitted ==
    ASSUME NEW n, PageCounts = {n}, ~({"power", "process"} \subseteq Failures)
    PROVE  Spec => []StoreIsLastCommitted
<1>1. OneSize /\ OneKindOfCrash
  BY DEF OneSize, OneKindOfCrash, Size
<1>2. Core /\ RecoveryIsRight => StoreIsLastCommitted
  BY <1>1, ServedIsLastCommitted DEF RecoveryIsRight, Calm, StoreIsLastCommitted
<1>3. Spec => []RecoveryIsRight
  BY <1>1, RecoveryInvariant
<1>. QED
  BY <1>2, <1>3, CoreInvariant, PTL

\* What a restart publishes before the first session begins is the database of the last committed
\* transaction, whatever else has failed, if no commit fails after it has logged a page.
THEOREM RestartsServeLastCommitted ==
    ASSUME NEW n, PageCounts = {n}, ~({"power", "process"} \subseteq Failures),
           Failures \cap {"active", "committed"} = {}
    PROVE  Spec => []RecoveredIsLastCommitted
<1>1. OneSize /\ OneKindOfCrash
  BY DEF OneSize, OneKindOfCrash, Size
<1>2. Core /\ RecoveryIsRight => RecoveredIsLastCommitted
  <2>. SUFFICES ASSUME Core, RecoveryInv, mode = "up", \A t \in Txns : phase[t] \in {"none", "gone"}
                PROVE  mem = LastCommitted
    BY DEF RecoveryIsRight, Calm, RecoveredIsLastCommitted
  <2>1. job = Idle
    <3>. SUFFICES ASSUME job # Idle
                  PROVE  FALSE
      OBVIOUS
    <3>1. job \in Jobs /\ phase[job.txn] = "persist"
      BY DEF Core, Types, SessionTypes, Owners
    <3>. QED
      BY <3>1 DEF Jobs
  <2>. QED
    BY <1>1, <2>1, ServedIsLastCommitted
<1>3. Spec => []RecoveryIsRight
  BY <1>1, RecoveryInvariant
<1>. QED
  BY <1>2, <1>3, CoreInvariant, PTL

\* Recovery and reconciliation never stop with a corruption error: no hole in the file, no page
\* that cannot be read, no page that the manifest does not name, no contradicted status.
THEOREM RestartsSucceed ==
    ASSUME NEW n, PageCounts = {n}, ~({"power", "process"} \subseteq Failures),
           Failures \cap {"active", "committed"} = {}
    PROVE  Spec => []RecoverySucceeds
<1>1. OneSize /\ OneKindOfCrash
  BY DEF OneSize, OneKindOfCrash, Size
<1>2. RecoveryIsRight => RecoverySucceeds
  BY DEF RecoveryIsRight, Calm, RecoveryInv, RecoverySucceeds
<1>3. Spec => []RecoveryIsRight
  BY <1>1, RecoveryInvariant
<1>. QED
  BY <1>2, <1>3, PTL

(***************************************************************************)
(* The history that the log stands for.                                    *)
(***************************************************************************)
\* How many numbers of a set are smaller.
Rank(S, i) == Cardinality({j \in S : j < i})

\* A number of a finite set has one rank, and every rank below the size of the set is one number's.
LEMMA RankFacts ==
    ASSUME NEW m \in Nat, NEW S, S \subseteq 1 .. m
    PROVE  /\ IsFiniteSet(S) /\ Cardinality(S) \in Nat
           /\ \A i \in S : Rank(S, i) \in Nat /\ Rank(S, i) < Cardinality(S)
           /\ \A i, k \in S : k < i => Rank(S, k) < Rank(S, i)
           /\ \A n \in 1 .. Cardinality(S) : \E i \in S : Rank(S, i) = n - 1
<1>1. IsFiniteSet(S)
  <2>1. IsFiniteSet(1 .. m) /\ S \in SUBSET (1 .. m)
    BY FS_Interval
  <2>. QED
    BY <2>1, FS_Subset
<1>. DEFINE Below(i) == {j \in S : j < i}
            Upto(i) == {j \in S : j <= i}
<1>0. S \subseteq Nat /\ S \subseteq 0 .. m
  OBVIOUS
<1>2. Cardinality(S) \in Nat
  BY <1>1, FS_CardinalityType
<1>3. ASSUME NEW i \in S
      PROVE  /\ IsFiniteSet(Below(i)) /\ Cardinality(Below(i)) \in Nat
             /\ Cardinality(Upto(i)) = Cardinality(Below(i)) + 1
             /\ Cardinality(Upto(i)) <= Cardinality(S)
  <2>1. Below(i) \in SUBSET S /\ Upto(i) \in SUBSET S
    OBVIOUS
  <2>2. IsFiniteSet(Below(i)) /\ Cardinality(Upto(i)) <= Cardinality(S)
    BY <1>1, <2>1, FS_Subset, Zenon
  <2>3. Upto(i) = Below(i) \cup {i} /\ i \notin Below(i)
    <3>1. \A j \in S : j <= i <=> j < i \/ j = i
      BY <1>0
    <3>2. ~(i < i)
      BY <1>0
    <3>. QED
      BY <3>1, <3>2
  <2>4. Cardinality(Upto(i)) = Cardinality(Below(i)) + 1
    BY <2>2, <2>3, FS_AddElement
  <2>. QED
    BY <2>2, <2>4, FS_CardinalityType
<1>4. ASSUME NEW i \in S, NEW k \in S, k < i
      PROVE  Cardinality(Upto(k)) <= Cardinality(Below(i))
  <2>1. Upto(k) \in SUBSET Below(i)
    <3>1. \A j \in S : j <= k => j < i
      BY <1>0, <1>4
    <3>. QED
      BY <3>1
  <2>2. IsFiniteSet(Below(i))
    BY <1>3
  <2>. QED
    BY <2>1, <2>2, FS_Subset
<1>5. \A i \in S : Rank(S, i) = Cardinality(Below(i))
  BY DEF Rank
<1>6. ASSUME NEW n \in 1 .. Cardinality(S)
      PROVE  \E i \in S : Rank(S, i) = n - 1
  <2>. DEFINE Reached == {i \in S : Cardinality(Upto(i)) >= n}
  <2>1. S # {} /\ n \in Nat /\ n >= 1
    BY <1>2, FS_EmptySet
  <2>2. PICK top \in S : \A j \in S : top >= j
    <3>1. Max(S) \in S /\ \A j \in S : Max(S) >= j
      BY <1>0, <2>1, MaxFacts
    <3>. QED
      BY <3>1
  <2>3. Upto(top) = S
    <3>1. \A j \in S : j <= top
      BY <1>0, <2>2
    <3>. QED
      BY <3>1
  <2>4. Reached # {} /\ Reached \subseteq Nat
    <3>1. Cardinality(Upto(top)) >= n
      BY <1>2, <2>1, <2>3
    <3>2. top \in Reached
      BY <3>1
    <3>. QED
      BY <1>0, <3>2
  <2>5. PICK i \in Reached : \A j \in Reached : i <= j
    BY <2>4, LeastNatural
  <2>6. i \in S /\ Cardinality(Upto(i)) >= n /\ i \in Nat
    BY <2>5
  <2>7. Cardinality(Below(i)) < n
    <3>1. CASE Below(i) = {}
      <4>1. Cardinality(Below(i)) = 0
        BY <3>1, FS_EmptySet
      <4>. QED
        BY <2>1, <4>1
    <3>2. CASE Below(i) # {}
      <4>1. Below(i) \subseteq 0 .. m
        BY <1>0
      <4>2. PICK k \in Below(i) : \A j \in Below(i) : k >= j
        <5>1. Max(Below(i)) \in Below(i) /\ \A j \in Below(i) : Max(Below(i)) >= j
          BY <3>2, <4>1, MaxFacts
        <5>. QED
          BY <5>1
      <4>3. k \in S /\ k < i /\ Below(i) = Upto(k)
        <5>1. k \in S /\ k < i
          BY <4>2
        <5>2. \A j \in S : j < i => j <= k
          <6>1. \A j \in Below(i) : j <= k
            BY <1>0, <4>2
          <6>. QED
            BY <6>1
        <5>3. \A j \in S : j <= k => j < i
          BY <1>0, <2>6, <5>1
        <5>. QED
          BY <5>1, <5>2, <5>3
      <4>4. k \notin Reached
        BY <2>5, <2>6, <4>3
      <4>5. ~(Cardinality(Upto(k)) >= n)
        BY <4>3, <4>4
      <4>6. Cardinality(Upto(k)) \in Nat
        BY <1>3, <4>3
      <4>. QED
        BY <2>1, <4>3, <4>5, <4>6
    <3>. QED
      BY <3>1, <3>2
  <2>8. Cardinality(Upto(i)) = Cardinality(Below(i)) + 1 /\ Cardinality(Below(i)) \in Nat
    BY <1>3, <2>6
  <2>9. Cardinality(Below(i)) = n - 1
    BY <2>1, <2>6, <2>7, <2>8
  <2>. QED
    BY <1>5, <2>6, <2>9
<1>7. \A i \in S : Rank(S, i) \in Nat /\ Rank(S, i) < Cardinality(S)
  <2>. SUFFICES ASSUME NEW i \in S
                PROVE  Rank(S, i) \in Nat /\ Rank(S, i) < Cardinality(S)
    OBVIOUS
  <2>1. /\ Cardinality(Upto(i)) = Rank(S, i) + 1 /\ Rank(S, i) \in Nat
        /\ Cardinality(Upto(i)) <= Cardinality(S)
    BY <1>3, <1>5
  <2>. QED
    BY <1>2, <2>1
<1>8. \A i, k \in S : k < i => Rank(S, k) < Rank(S, i)
  <2>. SUFFICES ASSUME NEW i \in S, NEW k \in S, k < i
                PROVE  Rank(S, k) < Rank(S, i)
    OBVIOUS
  <2>1. Cardinality(Upto(k)) <= Cardinality(Below(i))
    BY <1>4
  <2>2. /\ Cardinality(Upto(k)) = Cardinality(Below(k)) + 1 /\ Cardinality(Below(k)) \in Nat
        /\ Cardinality(Below(i)) \in Nat
    BY <1>3
  <2>3. Cardinality(Below(k)) < Cardinality(Below(i))
    BY <2>1, <2>2
  <2>. QED
    BY <1>5, <2>3
<1>. QED
  BY <1>1, <1>2, <1>6, <1>7, <1>8

\* The number with a rank is the one Nth takes.
LEMMA NthIs ==
    ASSUME NEW m \in Nat, NEW S, S \subseteq 1 .. m, NEW i \in S
    PROVE  Nth(S, Rank(S, i) + 1) = i
<1>. DEFINE n == Rank(S, i) + 1
            x == Nth(S, n)
<1>1. \A j \in S : Rank(S, j) \in Nat
  BY RankFacts
<1>2. Rank(S, i) = n - 1
  BY <1>1
<1>. HIDE DEF n
<1>3. x = CHOOSE j \in S : Rank(S, j) = n - 1
  BY DEF Nth, Rank
<1>4. x \in S /\ Rank(S, x) = n - 1
  BY <1>2, <1>3
<1>. HIDE DEF x
<1>5. ~(x < i) /\ ~(i < x)
  <2>1. \A j, k \in S : k < j => Rank(S, k) < Rank(S, j)
    BY RankFacts
  <2>2. x < i => Rank(S, x) < Rank(S, i)
    BY <1>4, <2>1
  <2>3. i < x => Rank(S, i) < Rank(S, x)
    BY <1>4, <2>1
  <2>4. Rank(S, x) = Rank(S, i) /\ Rank(S, i) \in Nat
    BY <1>1, <1>2, <1>4
  <2>. QED
    BY <2>2, <2>3, <2>4
<1>6. x \in Nat /\ i \in Nat
  BY <1>4
<1>. QED
  BY <1>5, <1>6 DEF x, n

\* Numbers above all others come last in the order.
LEMMA NthStays ==
    ASSUME NEW m \in Nat, NEW S, S \subseteq 1 .. m, NEW R, R \subseteq S,
           \A i \in R : \A k \in S : k \notin R => i < k, NEW n \in 1 .. Cardinality(R)
    PROVE  Nth(S, n) = Nth(R, n) /\ Nth(R, n) \in R
<1>1. R \subseteq 1 .. m
  OBVIOUS
<1>2. PICK i \in R : Rank(R, i) = n - 1
  <2>1. \A k \in 1 .. Cardinality(R) : \E i \in R : Rank(R, i) = k - 1
    BY <1>1, RankFacts
  <2>. QED
    BY <2>1
<1>3. {j \in S : j < i} = {j \in R : j < i}
  <2>1. ASSUME NEW j \in S, j < i
        PROVE  j \in R
    <3>1. j \notin R => i < j
      OBVIOUS
    <3>2. i \in Nat /\ j \in Nat
      BY <1>1
    <3>. QED
      BY <2>1, <3>1, <3>2
  <2>. QED
    BY <2>1
<1>4. Rank(S, i) = Rank(R, i)
  BY <1>3 DEF Rank
<1>5. Rank(R, i) + 1 = n
  <2>1. Cardinality(R) \in Nat
    BY <1>1, RankFacts
  <2>. QED
    BY <1>2, <2>1
<1>6. Nth(R, n) = i
  BY <1>1, <1>5, NthIs
<1>7. Nth(S, n) = i
  <2>1. i \in S
    OBVIOUS
  <2>2. Nth(S, Rank(S, i) + 1) = i
    BY <2>1, NthIs
  <2>. QED
    BY <1>4, <1>5, <2>2
<1>. QED
  BY <1>6, <1>7

\* The same of all of them.
LEMMA OrderStays ==
    ASSUME NEW m \in Nat, NEW S, S \subseteq 1 .. m, NEW R, R \subseteq S,
           \A i \in R : \A k \in S : k \notin R => i < k
    PROVE  /\ Cardinality(R) <= Cardinality(S)
           /\ \A n \in 1 .. Cardinality(R) : Nth(S, n) = Nth(R, n)
<1>1. IsFiniteSet(S)
  BY RankFacts
<1>2. Cardinality(R) <= Cardinality(S)
  BY <1>1, FS_Subset
<1>3. \A n \in 1 .. Cardinality(R) : Nth(S, n) = Nth(R, n)
  BY NthStays
<1>. QED
  BY <1>2, <1>3

\* The entries of a history.
Entries == [txn : 0 .. MaxTxn, db : Proper]

Entry(c, t) == [txn |-> t, db |-> c[t]]

\* The history has the initial database first and then one entry for each Commit record, in
\* the order of the records.
LEMMA HistoryIs ==
    ASSUME NEW c \in [0 .. MaxTxn -> Proper], NEW w \in Seq(Records)
    PROVE  /\ CommitLsns(w) \subseteq 1 .. Len(w) /\ Cardinality(CommitLsns(w)) \in Nat
           /\ HistoryOf(c, w) \in Seq(Entries)
           /\ Len(HistoryOf(c, w)) = Cardinality(CommitLsns(w)) + 1
           /\ HistoryOf(c, w)[1] = Entry(c, 0)
           /\ \A n \in 2 .. Cardinality(CommitLsns(w)) + 1 :
                 /\ Nth(CommitLsns(w), n - 1) \in CommitLsns(w)
                 /\ HistoryOf(c, w)[n] = Entry(c, w[Nth(CommitLsns(w), n - 1)].txn)
           /\ \A i \in CommitLsns(w) :
                 /\ Rank(CommitLsns(w), i) + 2 \in 2 .. Cardinality(CommitLsns(w)) + 1
                 /\ HistoryOf(c, w)[Rank(CommitLsns(w), i) + 2] = Entry(c, w[i].txn)
<1>. DEFINE S == CommitLsns(w)
            N == Cardinality(S)
            H == HistoryOf(c, w)
<1>1. S \subseteq 1 .. Len(w) /\ Len(w) \in Nat /\ \A i \in S : w[i].txn \in 0 .. MaxTxn
  <2>1. \A i \in S : i \in Lsns(w) /\ w[i] \in Records
    BY LsnsAre DEF CommitLsns
  <2>. QED
    BY <2>1, LsnsAre, RecordKinds DEF CommitLsns
<1>. HIDE DEF S
<1>2. N \in Nat
  BY <1>1, RankFacts
<1>3. \A n \in 1 .. N : Nth(S, n) \in S
  BY <1>1, NthStays
<1>. HIDE DEF N
<1>4. H = [n \in 1 .. N + 1 |->
             LET t == IF n = 1 THEN 0 ELSE w[Nth(S, n - 1)].txn IN Entry(c, t)]
  BY DEF HistoryOf, Entry, S, N
<1>. HIDE DEF H
<1>5. 0 \in 0 .. MaxTxn /\ \A t \in 0 .. MaxTxn : Entry(c, t) \in Entries
  BY DurabilityAssumption DEF Entry, Entries
<1>6. \A n \in 1 .. N + 1 : n # 1 => n - 1 \in 1 .. N
  BY <1>2
<1>7. H \in [1 .. N + 1 -> Entries]
  <2>1. ASSUME NEW n \in 1 .. N + 1
        PROVE  Entry(c, IF n = 1 THEN 0 ELSE w[Nth(S, n - 1)].txn) \in Entries
    BY <1>1, <1>3, <1>5, <1>6
  <2>. QED
    BY <1>4, <2>1
<1>8. H \in Seq(Entries) /\ Len(H) = N + 1
  BY <1>2, <1>7
<1>9. H[1] = Entry(c, 0)
  BY <1>2, <1>4
<1>10. ASSUME NEW n \in 2 .. N + 1
       PROVE  Nth(S, n - 1) \in S /\ H[n] = Entry(c, w[Nth(S, n - 1)].txn)
  BY <1>2, <1>3, <1>4
<1>11. ASSUME NEW i \in S
       PROVE  Rank(S, i) + 2 \in 2 .. N + 1 /\ H[Rank(S, i) + 2] = Entry(c, w[i].txn)
  <2>1. Rank(S, i) \in Nat /\ Rank(S, i) < N
    BY <1>1, RankFacts DEF N
  <2>2. Nth(S, Rank(S, i) + 1) = i
    BY <1>1, NthIs
  <2>3. Rank(S, i) + 2 \in 2 .. N + 1 /\ (Rank(S, i) + 2) - 1 = Rank(S, i) + 1
    BY <1>2, <2>1
  <2>. QED
    BY <1>10, <2>2, <2>3
<1>. QED
  BY <1>1, <1>2, <1>8, <1>9, <1>10, <1>11 DEF S, N, H

\* The Commit records of a log that begins with those of another one.
LEMMA CommitsKeepOrder ==
    ASSUME NEW m \in Nat, NEW w, NEW u, CommitLsns(u) \subseteq 1 .. m,
           CommitLsns(w) \subseteq CommitLsns(u),
           \A i \in CommitLsns(w) : \A k \in CommitLsns(u) : k \notin CommitLsns(w) => i < k
    PROVE  /\ Cardinality(CommitLsns(w)) <= Cardinality(CommitLsns(u))
           /\ \A n \in 1 .. Cardinality(CommitLsns(w)) : Nth(CommitLsns(u), n) = Nth(CommitLsns(w), n)
BY OrderStays

\* A log whose Commit records come before all others of a second one, with the same databases, has
\* the history the second one begins with.
LEMMA HistoryBegins ==
    ASSUME NEW c \in [0 .. MaxTxn -> Proper], NEW w \in Seq(Records),
           NEW d \in [0 .. MaxTxn -> Proper], NEW u \in Seq(Records),
           CommitLsns(w) \subseteq CommitLsns(u),
           \A i \in CommitLsns(w) : \A k \in CommitLsns(u) : k \notin CommitLsns(w) => i < k,
           \A i \in CommitLsns(w) : u[i] = w[i] /\ d[w[i].txn] = c[w[i].txn], d[0] = c[0]
    PROVE  /\ Len(HistoryOf(c, w)) \in 1 .. Len(HistoryOf(d, u))
           /\ \A n \in 1 .. Len(HistoryOf(c, w)) : HistoryOf(c, w)[n] = HistoryOf(d, u)[n]
           /\ HistoryOf(c, w) = SubSeq(HistoryOf(d, u), 1, Len(HistoryOf(c, w)))
<1>0. /\ Cardinality(CommitLsns(w)) <= Cardinality(CommitLsns(u))
      /\ \A n \in 1 .. Cardinality(CommitLsns(w)) : Nth(CommitLsns(u), n) = Nth(CommitLsns(w), n)
  <2>1. CommitLsns(u) \subseteq 1 .. Len(u) /\ Len(u) \in Nat
    BY HistoryIs, LenProperties
  <2>. QED
    BY <2>1, CommitsKeepOrder
<1>. DEFINE S == CommitLsns(w)
            T == CommitLsns(u)
            H == HistoryOf(c, w)
            G == HistoryOf(d, u)
<1>1. /\ H \in Seq(Entries) /\ Len(H) = Cardinality(S) + 1 /\ Cardinality(S) \in Nat /\ H[1] = Entry(c, 0)
      /\ \A n \in 2 .. Cardinality(S) + 1 :
            Nth(S, n - 1) \in S /\ H[n] = Entry(c, w[Nth(S, n - 1)].txn)
  BY HistoryIs
<1>2. /\ G \in Seq(Entries) /\ Len(G) = Cardinality(T) + 1 /\ Cardinality(T) \in Nat /\ G[1] = Entry(d, 0)
      /\ T \subseteq 1 .. Len(u)
      /\ \A n \in 2 .. Cardinality(T) + 1 : G[n] = Entry(d, u[Nth(T, n - 1)].txn)
  BY HistoryIs
<1>3. /\ S \subseteq T /\ \A i \in S : \A k \in T \ S : i < k
      /\ \A i \in S : u[i] = w[i] /\ d[w[i].txn] = c[w[i].txn]
      /\ d[0] = c[0] /\ Len(u) \in Nat
  BY LenProperties
<1>. HIDE DEF S, T, H, G
<1>4. Cardinality(S) <= Cardinality(T) /\ \A n \in 1 .. Cardinality(S) : Nth(T, n) = Nth(S, n)
  BY <1>0 DEF S, T
<1>5. ASSUME NEW n \in 1 .. Len(H)
      PROVE  H[n] = G[n]
  <2>1. CASE n = 1
    BY <1>1, <1>2, <1>3, <2>1 DEF Entry
  <2>2. CASE n # 1
    <3>1. n \in 2 .. Cardinality(S) + 1 /\ n \in 2 .. Cardinality(T) + 1 /\ n - 1 \in 1 .. Cardinality(S)
      BY <1>1, <1>2, <1>4, <2>2
    <3>2. Nth(T, n - 1) = Nth(S, n - 1) /\ Nth(S, n - 1) \in S
      BY <1>1, <1>4, <3>1
    <3>3. G[n] = Entry(d, u[Nth(S, n - 1)].txn) /\ H[n] = Entry(c, w[Nth(S, n - 1)].txn)
      BY <1>1, <1>2, <3>1, <3>2
    <3>4. u[Nth(S, n - 1)] = w[Nth(S, n - 1)] /\ d[w[Nth(S, n - 1)].txn] = c[w[Nth(S, n - 1)].txn]
      BY <1>3, <3>2
    <3>. QED
      BY <3>3, <3>4 DEF Entry
  <2>. QED
    BY <2>1, <2>2
<1>6. Len(H) \in 1 .. Len(G) /\ Len(H) \in Nat /\ 1 <= Len(H)
  BY <1>1, <1>2, <1>4
<1>7. H = SubSeq(G, 1, Len(H))
  <2>1. \A n \in 1 .. Len(H) : G[n] \in Entries
    BY <1>1, <1>5, ElementOfSeq
  <2>2. /\ SubSeq(G, 1, Len(H)) \in Seq(Entries)
        /\ Len(SubSeq(G, 1, Len(H))) = Len(H)
        /\ \A n \in 1 .. Len(H) : SubSeq(G, 1, Len(H))[n] = G[n]
    BY <1>6, <2>1, SubSeqProperties
  <2>. QED
    BY <1>1, <1>5, <2>2, SeqEqual
<1>. QED
  BY <1>5, <1>6, <1>7 DEF H, G

\* The same Commit records of the same databases are the same history.
LEMMA HistoryStays ==
    ASSUME NEW c \in [0 .. MaxTxn -> Proper], NEW w \in Seq(Records),
           NEW d \in [0 .. MaxTxn -> Proper], NEW u \in Seq(Records), CommitLsns(u) = CommitLsns(w),
           \A i \in CommitLsns(w) : u[i] = w[i] /\ d[w[i].txn] = c[w[i].txn], d[0] = c[0]
    PROVE  HistoryOf(d, u) = HistoryOf(c, w)
<1>1. /\ HistoryOf(c, w) \in Seq(Entries) /\ HistoryOf(d, u) \in Seq(Entries)
      /\ Len(HistoryOf(c, w)) = Len(HistoryOf(d, u))
  BY HistoryIs
<1>2. \A i \in CommitLsns(w) : \A k \in CommitLsns(u) \ CommitLsns(w) : i < k
  OBVIOUS
<1>3. \A n \in 1 .. Len(HistoryOf(c, w)) : HistoryOf(c, w)[n] = HistoryOf(d, u)[n]
  BY <1>2, HistoryBegins
<1>. QED
  BY <1>1, <1>3, SeqEqual

\* One more Commit record is one more entry.
LEMMA HistoryAppends ==
    ASSUME NEW c \in [0 .. MaxTxn -> Proper], NEW w \in Seq(Records), NEW u \in Seq(Records),
           NEW k \in Nat, \A i \in CommitLsns(w) : i < k, CommitLsns(u) = CommitLsns(w) \cup {k},
           \A i \in CommitLsns(w) : u[i] = w[i]
    PROVE  HistoryOf(c, u) = Append(HistoryOf(c, w), Entry(c, u[k].txn))
<1>. DEFINE S == CommitLsns(w)
            N == Cardinality(S)
            H == HistoryOf(c, w)
            G == HistoryOf(c, u)
            e == Entry(c, u[k].txn)
<1>1. H \in Seq(Entries) /\ Len(H) = N + 1 /\ S \subseteq 1 .. Len(w) /\ Len(w) \in Nat /\ N \in Nat
  BY HistoryIs, LenProperties
<1>2. IsFiniteSet(S) /\ k \notin S
  <2>1. IsFiniteSet(S)
    BY <1>1, RankFacts
  <2>2. \A i \in S : i < k /\ i \in Nat
    BY <1>1
  <2>. QED
    BY <2>1, <2>2
<1>3. Cardinality(CommitLsns(u)) = N + 1
  BY <1>2, FS_AddElement
<1>4. Rank(CommitLsns(u), k) = N
  <2>1. {j \in CommitLsns(u) : j < k} = S
    <3>1. ~(k < k)
      OBVIOUS
    <3>. QED
      BY <3>1
  <2>. QED
    BY <2>1 DEF Rank
<1>5. G \in Seq(Entries) /\ Len(G) = N + 2 /\ G[N + 2] = e
  <2>1. k \in CommitLsns(u)
    OBVIOUS
  <2>2. /\ G \in Seq(Entries) /\ Len(G) = Cardinality(CommitLsns(u)) + 1
        /\ G[Rank(CommitLsns(u), k) + 2] = e
    BY <2>1, HistoryIs
  <2>. QED
    BY <1>1, <1>3, <1>4, <2>2
<1>6. \A n \in 1 .. Len(H) : H[n] = G[n]
  <2>1. \A i \in CommitLsns(w) : \A j \in CommitLsns(u) \ CommitLsns(w) : i < j
    OBVIOUS
  <2>. QED
    BY <2>1, HistoryBegins
<1>7. e \in Entries
  <2>1. N + 2 \in 1 .. Len(G)
    BY <1>1, <1>5
  <2>. QED
    BY <1>5, <2>1, ElementOfSeq
<1>. HIDE DEF S, N, H, G, e
<1>8. /\ Append(H, e) \in Seq(Entries) /\ Len(Append(H, e)) = Len(H) + 1
      /\ \A n \in 1 .. Len(H) : Append(H, e)[n] = H[n]
      /\ Append(H, e)[Len(H) + 1] = e
  BY <1>1, <1>7, AppendProperties
<1>9. \A n \in 1 .. Len(G) : G[n] = Append(H, e)[n]
  <2>1. \A n \in 1 .. Len(G) : n \in 1 .. Len(H) \/ (n = Len(H) + 1 /\ n = N + 2)
    BY <1>1, <1>5
  <2>. QED
    BY <1>1, <1>5, <1>6, <1>8, <2>1
<1>10. G = Append(H, e)
  <2>1. Len(G) = Len(Append(H, e))
    BY <1>1, <1>5, <1>8
  <2>. QED
    BY <1>5, <1>8, <1>9, <2>1, SeqEqual
<1>. QED
  BY <1>10 DEF H, G, e

\* Who is in the history: the transactions of the Commit records.
LEMMA CommittedAre ==
    ASSUME NEW c \in [0 .. MaxTxn -> Proper], NEW w \in Seq(Records), NEW t, t # 0
    PROVE  t \in Store!Committed(HistoryOf(c, w)) <=> \E i \in CommitLsns(w) : w[i].txn = t
<1>. DEFINE S == CommitLsns(w)
            N == Cardinality(S)
            H == HistoryOf(c, w)
<1>1. /\ N \in Nat /\ Len(H) = N + 1 /\ H[1] = Entry(c, 0)
      /\ \A n \in 2 .. N + 1 : Nth(S, n - 1) \in S /\ H[n] = Entry(c, w[Nth(S, n - 1)].txn)
      /\ \A i \in S : Rank(S, i) + 2 \in 2 .. N + 1 /\ H[Rank(S, i) + 2] = Entry(c, w[i].txn)
  BY HistoryIs
<1>. HIDE DEF S, N, H
<1>2. ASSUME NEW i \in S, w[i].txn = t
      PROVE  \E n \in 1 .. Len(H) : H[n].txn = t
  <2>1. Rank(S, i) + 2 \in 1 .. Len(H) /\ H[Rank(S, i) + 2] = Entry(c, w[i].txn)
    BY <1>1
  <2>2. H[Rank(S, i) + 2].txn = t
    BY <1>2, <2>1 DEF Entry
  <2>. QED
    BY <2>1, <2>2
<1>3. ASSUME NEW n \in 1 .. Len(H), H[n].txn = t
      PROVE  \E i \in S : w[i].txn = t
  <2>1. n # 1
    BY <1>1, <1>3 DEF Entry
  <2>2. n \in 2 .. N + 1
    BY <1>1, <2>1
  <2>3. Nth(S, n - 1) \in S /\ H[n] = Entry(c, w[Nth(S, n - 1)].txn)
    BY <1>1, <2>2
  <2>4. w[Nth(S, n - 1)].txn = t
    BY <1>3, <2>3 DEF Entry
  <2>. QED
    BY <2>3, <2>4
<1>4. t \in Store!Committed(H) <=> \E n \in 1 .. Len(H) : H[n].txn = t
  BY DEF Store!Committed
<1>. QED
  BY <1>2, <1>3, <1>4, Zenon DEF S, H

\* The history ends with the database served.
LEMMA HistoryEnds ==
    ASSUME NEW c \in [0 .. MaxTxn -> Proper], NEW w \in Seq(Records), History(c, w)
    PROVE  Store!Last(HistoryOf(c, w)) = Entry(c, Author(w, Len(w)))
<1>. DEFINE S == CommitLsns(w)
            N == Cardinality(S)
            H == HistoryOf(c, w)
            n == Len(w)
<1>1. /\ N \in Nat /\ Len(H) = N + 1 /\ H[1] = Entry(c, 0) /\ S \subseteq 1 .. n /\ n \in Nat
      /\ \A i \in S : H[Rank(S, i) + 2] = Entry(c, w[i].txn)
  BY HistoryIs, LenProperties
<1>2. S = Winners(w, n)
  BY WinnersAre
<1>3. IsFiniteSet(S)
  BY <1>1, RankFacts
<1>. HIDE DEF S, N, H
<1>4. CASE S = {}
  <2>1. N = 0
    BY <1>4, FS_EmptySet DEF N
  <2>2. LastWinner(w, n) = 0
    <3>1. LastWinner(w, n) # 0 => LastWinner(w, n) \in S
      BY <1>1, <1>2, LastFacts DEF LastWinner
    <3>. QED
      BY <1>4, <3>1
  <2>. QED
    BY <1>1, <2>1, <2>2 DEF Store!Last, Author, H
<1>5. CASE S # {}
  <2>1. PICK k : k = LastWinner(w, n)
    OBVIOUS
  <2>2. k \in S /\ k # 0 /\ \A i \in S : i <= k
    <3>1. LastWinner(w, n) # 0 /\ (LastWinner(w, n) # 0 => LastWinner(w, n) \in S)
          /\ \A i \in S : i <= LastWinner(w, n)
      BY <1>1, <1>2, <1>5, LastFacts DEF LastWinner
    <3>. QED
      BY <2>1, <3>1
  <2>3. N # 0
    BY <1>3, <1>5, FS_EmptySet DEF N
  <2>4. PICK i \in S : Rank(S, i) = N - 1
    <3>1. \A x \in 1 .. N : \E i \in S : Rank(S, i) = x - 1
      BY <1>1, RankFacts DEF N
    <3>2. N \in 1 .. N
      BY <1>1, <2>3
    <3>. QED
      BY <3>1, <3>2
  <2>5. Rank(S, k) = N - 1
    <3>1. /\ Rank(S, k) \in Nat /\ Rank(S, k) < N
          /\ i < k => Rank(S, i) < Rank(S, k)
      BY <1>1, <2>2, RankFacts DEF N
    <3>2. i = k \/ i < k
      BY <1>1, <2>2
    <3>. QED
      BY <1>1, <2>4, <3>1, <3>2
  <2>6. H[N + 1] = Entry(c, w[k].txn)
    <3>1. Rank(S, k) + 2 = N + 1
      BY <1>1, <2>5
    <3>. QED
      BY <1>1, <2>2, <3>1
  <2>7. Author(w, n) = w[k].txn
    BY <2>1, <2>2 DEF Author
  <2>. QED
    BY <1>1, <2>6, <2>7 DEF Store!Last, H
<1>. QED
  BY <1>4, <1>5

\* Which prefix has which Commit records.
LEMMA WinnersOfPrefix ==
    ASSUME NEW w, NEW u, NEW m \in Nat, \A i \in 1 .. m : u[i] = w[i]
    PROVE  Winners(u, m) = Winners(w, m)
<1>1. \A i \in 1 .. m : \A t : Updates(u, i, t) = Updates(w, i, t)
  BY DEF Updates
<1>. QED
  BY <1>1 DEF Winners

\* A record adds to them just when it commits a transaction with changes.
LEMMA CommitLsnsGrow ==
    ASSUME NEW c, NEW d, NEW w \in Seq(Records), NEW r \in Records, History(c, w),
           History(d, Append(w, r))
    PROVE  CommitLsns(Append(w, r)) =
               IF r.kind = "Commit" /\ Updates(w, Len(w), r.txn) # {}
               THEN CommitLsns(w) \cup {Len(w) + 1} ELSE CommitLsns(w)
<1>. DEFINE u == Append(w, r)
            n == Len(w)
<1>1. /\ u \in Seq(Records) /\ Len(u) = n + 1 /\ u[n + 1] = r /\ n \in Nat
      /\ \A i \in 1 .. n : u[i] = w[i]
  BY AppendFacts DEF Lsns
<1>2. CommitLsns(u) = Winners(u, n + 1) /\ CommitLsns(w) = Winners(w, n)
  BY <1>1, WinnersAre
<1>3. Winners(u, n) = Winners(w, n)
  BY <1>1, WinnersOfPrefix
<1>. HIDE DEF u, n
<1>4. Updates(u, n + 1, r.txn) = Updates(w, n, r.txn) \/ r.kind # "Commit"
  BY <1>1, AppendReads DEF u, n
<1>5. 1 .. n + 1 = (1 .. n) \cup {n + 1} /\ n + 1 \notin 1 .. n
  BY <1>1
<1>6. \A i \in 1 .. n : i \in Winners(u, n + 1) <=> i \in Winners(u, n)
  BY <1>5 DEF Winners
<1>7. n + 1 \in Winners(u, n + 1) <=> r.kind = "Commit" /\ Updates(w, n, r.txn) # {}
  BY <1>1, <1>4, <1>5 DEF Winners
<1>8. Winners(u, n + 1) \subseteq 1 .. n + 1 /\ Winners(u, n) \subseteq 1 .. n
  BY DEF Winners
<1>9. Winners(u, n + 1) = IF r.kind = "Commit" /\ Updates(w, n, r.txn) # {}
                          THEN Winners(u, n) \cup {n + 1} ELSE Winners(u, n)
  <2>1. \A i : i \in Winners(u, n + 1) <=>
                   i \in Winners(u, n) \/ (i = n + 1 /\ n + 1 \in Winners(u, n + 1))
    BY <1>5, <1>6, <1>8
  <2>2. CASE n + 1 \in Winners(u, n + 1)
    BY <1>7, <2>1, <2>2
  <2>3. CASE n + 1 \notin Winners(u, n + 1)
    <3>1. Winners(u, n + 1) = Winners(u, n)
      BY <2>1, <2>3
    <3>. QED
      BY <1>7, <2>3, <3>1
  <2>. QED
    BY <2>2, <2>3
<1>. QED
  BY <1>2, <1>3, <1>9 DEF u, n

\* The transactions of the Commit records are those that have been committed.
LEMMA CommitsHaveEnded ==
    ASSUME NEW w \in Seq(Records), NEW i \in CommitLsns(w)
    PROVE  i \in 1 .. Len(w) /\ Ended(w, Len(w), w[i].txn) /\ w[i].txn \in 0 .. MaxTxn
<1>1. i \in 1 .. Len(w) /\ i \in Lsns(w) /\ w[i].kind = "Commit"
  BY DEF CommitLsns, Lsns
<1>2. w[i].txn \in 0 .. MaxTxn
  BY <1>1, LsnsAre, RecordKinds
<1>. QED
  BY <1>1, <1>2 DEF Ended, IsTerminal

\* What an append of the engine appends.
LEMMA AppendedIs ==
    ASSUME wal \in Seq(Records), wal' \in Seq(Records), NEW r, wal' = Append(wal, r)
    PROVE  r \in Records /\ Len(wal') = Len(wal) + 1 /\ \A i \in 1 .. Len(wal) : wal'[i] = wal[i]
<1>1. Len(wal) \in Nat /\ Len(wal') = Len(wal) + 1 /\ wal'[Len(wal) + 1] = r
      /\ \A i \in 1 .. Len(wal) : wal'[i] = wal[i]
  BY LenProperties
<1>2. Len(wal) + 1 \in 1 .. Len(wal')
  BY <1>1
<1>. QED
  BY <1>1, <1>2, ElementOfSeq

\* A transaction commits once.
LEMMA CommitsAreUnique ==
    ASSUME NEW c, NEW w \in Seq(Records), History(c, w), NEW i \in 1 .. Len(w), NEW k \in 1 .. Len(w),
           w[i].kind = "Commit", w[k].kind = "Commit", w[i].txn = w[k].txn, w[i].txn # 0
    PROVE  i = k
<1>1. ASSUME NEW x \in 1 .. Len(w), NEW y \in 1 .. Len(w), x < y, w[x].kind = "Commit",
             w[x].txn = w[y].txn, w[y].txn # 0
      PROVE  FALSE
  <2>1. ~Ended(w, y - 1, w[y].txn)
    BY <1>1 DEF History, WellFormed, Lsns
  <2>2. x \in 1 .. y - 1
    BY <1>1
  <2>. QED
    BY <1>1, <2>1, <2>2 DEF Ended, IsTerminal
<1>2. ~(i < k) /\ ~(k < i)
  BY <1>1
<1>. QED
  BY <1>2

(***************************************************************************)
(* The history of a step.                                                  *)
(***************************************************************************)
\* A candidate belongs to who has prepared it, and only such a transaction is answered with
\* changes; both have an id that no restart gives out again.
Own(t) ==
    /\ cands[t].val[1] \in {0, t}
    /\ phase[t] \in {"begun", "active", "empty"} => cands[t].val[1] # t
    /\ phase[t] = "persist" => cands[t].val[1] = t
    /\ phase[t] \in {"active", "empty"} \/ cands[t].val[1] = t \/ t \in acked => t < document.next
    /\ t \in acked => phase[t] \in {"done", "gone"}

Named ==
    /\ cands[0].val[1] = 0
    /\ document.next <= next_transaction_id
    /\ \A t \in Txns : Own(t)

\* Readers see the last committed database until the running commit publishes its own.
Shown ==
    /\ job # Idle => mem \in Proper
    /\ job.step \in Unwritten \cup {"commit"} => mem = Served

\* Who was answered is in the history.
Answered == Told \subseteq Store!Committed(CommitHistory)

\* A prepared commit changes the databases of nobody who has committed.
LEMMA CandidatesMove ==
    ASSUME [Next]_vars
    PROVE  \/ cands' = cands
           \/ \E t \in Txns : prepare_commit(t) /\ \E d \in Candidates(t, mem) : cands' = [cands EXCEPT ![t] = d]
<1>1. CASE \E t \in Txns : Session(t)
  BY <1>1 DEF Session, begin_transaction, begin_durable, prepare_commit, commit_empty_status,
              commit_empty_wal, abort_wal, abort_status
<1>2. CASE \E h \in 1 .. MaxTxn + 1 : compact_before(h)
  BY <1>2 DEF compact_before
<1>3. CASE Persist \/ persist_fails_active \/ persist_fails_committed
  BY <1>3 DEF Persist, log_page, log_resize, log_flush, mark_status_committed, apply_page, apply_resize,
              apply_sync, commit_append, commit_flush, publish_prepared,
              persist_fails_active, persist_fails_committed
<1>4. CASE \E t \in Txns : begin_fails_flush(t) \/ begin_fails_status(t) \/ abort_fails(t)
  BY <1>4 DEF begin_fails_flush, begin_fails_status, abort_fails
<1>5. CASE checkpoint_sample \/ checkpoint_begin \/ checkpoint_end
  BY <1>5 DEF checkpoint_sample, checkpoint_begin, checkpoint_end
<1>6. CASE power_loss \/ process_crash
  BY <1>6 DEF power_loss, process_crash, LoseMemory
<1>7. CASE Recovery
  BY <1>7, Zenon DEF Recovery, Undo, recover, redo, undo_begin, undo_page, undo_resize, undo_compensation,
              recovery_finish, recovery_checkpoint_begin, recovery_checkpoint_end, reconcile_with_wal
<1>8. CASE UNCHANGED vars
  BY <1>8 DEF vars
<1>. QED
  BY <1>1, <1>2, <1>3, <1>4, <1>5, <1>6, <1>7, <1>8 DEF Next

\* What is known before and after every step.
LEMMA CommittedKeepTheirs ==
    ASSUME Core, RecoveryInv, [Next]_vars
    PROVE  /\ wal \in Seq(Records) /\ cands \in [0 .. MaxTxn -> Proper] /\ cands'[0] = cands[0]
           /\ \A i \in CommitLsns(wal) : cands'[wal[i].txn] = cands[wal[i].txn]
<1>1. wal \in Seq(Records) /\ cands \in [0 .. MaxTxn -> Proper] /\ Quiet
  BY DEF Core, Types, LogTypes, RecoveryInv
<1>2. CASE cands' = cands
  BY <1>1, <1>2
<1>3. ASSUME NEW t \in Txns, NEW d, prepare_commit(t), cands' = [cands EXCEPT ![t] = d]
      PROVE  /\ cands'[0] = cands[0]
             /\ \A i \in CommitLsns(wal) : cands'[wal[i].txn] = cands[wal[i].txn]
  <2>1. phase[t] = "active" /\ t # 0
    BY <1>3, PagesAreNumbers DEF prepare_commit
  <2>2. ~HasEnded(t)
    BY <1>1, <2>1 DEF Quiet
  <2>3. 0 \in 0 .. MaxTxn
    BY DurabilityAssumption
  <2>4. \A i \in CommitLsns(wal) : wal[i].txn # t /\ wal[i].txn \in 0 .. MaxTxn
    BY <1>1, <2>2, CommitsHaveEnded DEF HasEnded
  <2>. QED
    BY <1>1, <1>3, <2>1, <2>3, <2>4
<1>. QED
  BY <1>1, <1>2, <1>3, CandidatesMove

\* Only commit_transaction_at adds to the history, and only a power loss takes from it.
LEMMA HistoryMoves ==
    ASSUME Core, Core', RecoveryInv, RecoveryInv', [Next]_vars
    PROVE  CommitHistory' = CommitHistory \/ commit_append \/ power_loss
<1>1. /\ wal \in Seq(Records) /\ cands \in [0 .. MaxTxn -> Proper] /\ cands'[0] = cands[0]
      /\ \A i \in CommitLsns(wal) : cands'[wal[i].txn] = cands[wal[i].txn]
  BY CommittedKeepTheirs
<1>2. wal' \in Seq(Records) /\ cands' \in [0 .. MaxTxn -> Proper] /\ History(cands, wal) /\ History(cands', wal')
  BY DEF Core, Types, LogTypes, RecoveryInv
<1>3. ASSUME CommitLsns(wal') = CommitLsns(wal), \A i \in CommitLsns(wal) : wal'[i] = wal[i]
      PROVE  CommitHistory' = CommitHistory
  BY <1>1, <1>2, <1>3, HistoryStays DEF CommitHistory
<1>4. CASE wal' = wal
  BY <1>3, <1>4
<1>5. ASSUME NEW r, wal' = Append(wal, r), Authored(r), ~commit_append
      PROVE  CommitHistory' = CommitHistory
  <2>1. r \in Records /\ \A i \in 1 .. Len(wal) : wal'[i] = wal[i]
    BY <1>1, <1>2, <1>5, AppendedIs
  <2>2. ~(r.kind = "Commit" /\ Updates(wal, Len(wal), r.txn) # {})
    <3>. SUFFICES ASSUME r.kind = "Commit"
                  PROVE  Updates(wal, Len(wal), r.txn) = {}
      OBVIOUS
    <3>1. r.txn \in Txns /\ phase[r.txn] = "empty"
      BY <1>5 DEF Authored, commit_empty_wal
    <3>2. NoPages(r.txn)
      BY <3>1 DEF RecoveryInv, Quiet
    <3>. QED
      BY <3>2 DEF NoPages, Updates, Lsns, IsPageRecord
  <2>3. CommitLsns(wal') = CommitLsns(wal)
    <3>. DEFINE u == Append(wal, r)
    <3>1. wal' = u
      BY <1>5
    <3>2. History(cands', u)
      BY <1>2, <3>1, Zenon
    <3>3. CommitLsns(u) = IF r.kind = "Commit" /\ Updates(wal, Len(wal), r.txn) # {}
                          THEN CommitLsns(wal) \cup {Len(wal) + 1} ELSE CommitLsns(wal)
      BY <1>1, <1>2, <2>1, <3>2, CommitLsnsGrow, Zenon
    <3>. HIDE DEF u
    <3>. QED
      BY <2>2, <3>1, <3>3
  <2>4. \A i \in CommitLsns(wal) : wal'[i] = wal[i]
    BY <1>1, <2>1, CommitsHaveEnded
  <2>. QED
    BY <1>3, <2>3, <2>4
<1>. QED
  BY <1>4, <1>5, RecordSteps DEF Writes

(***************************************************************************)
(* Candidates and their owners.                                            *)
(***************************************************************************)
\* Sessions move towards their end, and are answered at it.
Moving(t) ==
    /\ \/ phase'[t] = phase[t] \/ phase'[t] = "gone"
       \/ phase[t] = "active" /\ phase'[t] = "empty"
       \/ phase[t] \notin {"done", "gone"} /\ phase'[t] \notin {"begun", "active", "empty", "persist"}
    /\ t \in acked' => t \in acked \/ (phase[t] \in {"persist", "empty"} /\ phase'[t] = "done")

NamedMoves ==
    /\ cands' = cands
    /\ document.next <= document'.next /\ document'.next <= next_transaction_id'
    /\ \A t \in Txns : Moving(t)

\* Who moves on so keeps its candidate.
LEMMA OwnMoves ==
    ASSUME Core, Core', NEW t \in Txns, Own(t), Moving(t), cands'[t] = cands[t],
           document.next <= document'.next
    PROVE  Own(t)'
<1>1. document.next \in Nat /\ document'.next \in Nat /\ t \in Nat
  BY PagesAreNumbers DEF Core, Types, StatusTypes
<1>2. t < document.next => t < document'.next
  BY <1>1
<1>3. phase'[t] = "persist" => phase[t] = "persist"
  BY DEF Moving
<1>4. phase'[t] \in {"begun", "active", "empty"} => phase[t] \in {"begun", "active", "empty"}
  BY DEF Moving
<1>5. phase'[t] \in {"active", "empty"} => phase[t] \in {"active", "empty"}
  BY DEF Moving
<1>6. t \in acked' => phase'[t] \in {"done", "gone"} /\ t < document.next
  BY DEF Moving, Own
<1>. QED
  BY <1>2, <1>3, <1>4, <1>5, <1>6 DEF Own

\* And so with all.
LEMMA NamedStays ==
    ASSUME Core, Core', Named, NamedMoves
    PROVE  Named'
<1>1. \A t \in Txns : Own(t)'
  BY OwnMoves DEF Named, NamedMoves
<1>. QED
  BY <1>1 DEF Named, NamedMoves

\* One session changes its phase.
LEMMA OneMoves ==
    ASSUME Core, Named, NEW t \in Txns, NEW v, SetPhase(t, v), cands' = cands, acked' = acked,
           document.next <= document'.next, document'.next <= next_transaction_id',
           \/ phase[t] = "active" /\ v = "empty"
           \/ phase[t] \notin {"done", "gone"} /\ v \notin {"begun", "active", "empty", "persist"}
    PROVE  NamedMoves
<1>1. phase'[t] = v /\ \A u \in Txns \ {t} : phase'[u] = phase[u]
  BY DEF SetPhase, Core, Types, SessionTypes
<1>2. \A u \in Txns : Moving(u)
  BY <1>1 DEF Moving
<1>. QED
  BY <1>2 DEF NamedMoves

\* Nobody moves.
LEMMA NobodyMoves ==
    ASSUME cands' = cands, acked' = acked, phase' = phase,
           document.next <= document'.next, document'.next <= next_transaction_id'
    PROVE  NamedMoves
BY DEF NamedMoves, Moving

\* The next id only grows, in memory and in the document.
LEMMA DocumentStays ==
    ASSUME Core, Named, UNCHANGED statusVars
    PROVE  document.next <= document'.next /\ document'.next <= next_transaction_id'
<1>1. document.next \in Nat
  BY DEF Core, Types, StatusTypes
<1>. QED
  BY <1>1 DEF Named, statusVars

\* A document written with the next id as it is.
LEMMA DocumentWritten ==
    ASSUME Core, Core', Named, write_document_atomic, next_transaction_id <= next_transaction_id'
    PROVE  /\ document.next <= document'.next /\ document'.next <= next_transaction_id'
           /\ document'.next = next_transaction_id'
<1>1. document.next \in Nat /\ next_transaction_id \in Nat /\ next_transaction_id' \in Nat
  BY DEF Core, Types, StatusTypes
<1>2. document'.next = next_transaction_id'
  BY DEF write_document_atomic
<1>. QED
  BY <1>1, <1>2 DEF Named

\* finish writes it with the next id as it is.
LEMMA DocumentFinished ==
    ASSUME Core, Core', Named, NEW t, NEW v, finish(t, v)
    PROVE  document.next <= document'.next /\ document'.next <= next_transaction_id'
<1>1. next_transaction_id' = next_transaction_id /\ write_document_atomic /\ next_transaction_id \in Nat
  BY DEF finish, Core, Types, StatusTypes
<1>. QED
  BY <1>1, DocumentWritten

\* begin_transaction takes the next id, which has no candidate yet.
LEMMA NamedBegins ==
    ASSUME Core, Core', Named, NEW t \in Txns, begin_transaction(t)
    PROVE  Named'
<1>1. /\ t = next_transaction_id /\ SetPhase(t, "begun") /\ UNCHANGED <<statusVars, acked, cands>>
  BY DEF begin_transaction, CanBegin
<1>2. phase'[t] = "begun" /\ \A u \in Txns \ {t} : phase'[u] = phase[u]
  BY <1>1 DEF SetPhase, Core, Types, SessionTypes
<1>3. document.next <= document'.next /\ document'.next <= next_transaction_id'
  BY <1>1, DocumentStays
<1>4. ~(t < document.next)
  <2>1. document.next \in Nat /\ t \in Nat /\ document.next <= t
    BY <1>1 DEF Core, Types, StatusTypes, Named
  <2>. QED
    BY <2>1
<1>5. cands[t].val[1] \in {0, t} /\ cands[t].val[1] # t /\ t \notin acked
  BY <1>4 DEF Named, Own
<1>6. Own(t)'
  BY <1>1, <1>2, <1>5 DEF Own
<1>7. \A u \in Txns \ {t} : Own(u)'
  <2>1. \A u \in Txns \ {t} : Moving(u)
    BY <1>1, <1>2 DEF Moving
  <2>. QED
    BY <1>1, <1>3, <2>1, OwnMoves DEF Named
<1>. QED
  BY <1>1, <1>3, <1>6, <1>7 DEF Named

\* begin_durable puts the next id behind it, in the document too.
LEMMA NamedAllocates ==
    ASSUME Core, Core', Named, Floors, NEW t \in Txns, begin_durable(t)
    PROVE  Named'
<1>1. /\ phase[t] = "begun" /\ SetPhase(t, "active") /\ UNCHANGED <<acked, cands>>
      /\ next_transaction_id' = t + 1 /\ write_document_atomic
  BY DEF begin_durable, allocate_transaction
<1>2. phase'[t] = "active" /\ \A u \in Txns \ {t} : phase'[u] = phase[u]
  BY <1>1 DEF SetPhase, Core, Types, SessionTypes
<1>3. t = next_transaction_id /\ next_transaction_id \in Nat
  BY <1>1 DEF Floors, Core, Types, StatusTypes
<1>4. /\ document.next <= document'.next /\ document'.next <= next_transaction_id'
      /\ document'.next = next_transaction_id'
  BY <1>1, <1>3, DocumentWritten
<1>5. Own(t)'
  <2>1. cands[t].val[1] \in {0, t} /\ cands[t].val[1] # t /\ t \notin acked
    BY <1>1 DEF Named, Own
  <2>2. t < document'.next
    BY <1>1, <1>3, <1>4
  <2>. QED
    BY <1>1, <1>2, <2>1, <2>2 DEF Own
<1>6. \A u \in Txns \ {t} : Own(u)'
  <2>1. \A u \in Txns \ {t} : Moving(u)
    BY <1>1, <1>2 DEF Moving
  <2>. QED
    BY <1>1, <1>4, <2>1, OwnMoves DEF Named
<1>. QED
  BY <1>1, <1>4, <1>5, <1>6 DEF Named

\* Every candidate changes the metadata page.
LEMMA CandidateIsNamed ==
    ASSUME NEW t \in Txns, NEW d, NEW e \in Candidates(t, d)
    PROVE  e.val[1] = t
<1>1. PICK n \in PageCounts, W \in {S \in SUBSET Pages : 1 \in S} :
         e = [cnt |-> n, val |-> [p \in Pages |-> CASE p > n -> -1
                                                   [] p <= n /\ (p \in W \/ p > d.cnt) -> t
                                                   [] OTHER -> d.val[p]]]
  BY DEF Candidates
<1>2. 1 \in Pages /\ n \in Nat /\ ~(1 > n) /\ 1 <= n
  BY DurabilityAssumption DEF Pages
<1>3. e.val[1] = CASE 1 > n -> -1
                   [] 1 <= n /\ (1 \in W \/ 1 > d.cnt) -> t
                   [] OTHER -> d.val[1]
  BY <1>1, <1>2
<1>. QED
  BY <1>2, <1>3

\* prepare_commit gives a transaction its candidate.
LEMMA NamedPrepares ==
    ASSUME Core, Core', Named, cands \in [0 .. MaxTxn -> Proper], NEW t \in Txns, prepare_commit(t)
    PROVE  Named'
<1>1. /\ phase[t] = "active" /\ SetPhase(t, "persist") /\ UNCHANGED <<statusVars, acked>>
  BY DEF prepare_commit
<1>2. PICK d \in Candidates(t, mem) : cands' = [cands EXCEPT ![t] = d]
  BY DEF prepare_commit
<1>3. phase'[t] = "persist" /\ \A u \in Txns \ {t} : phase'[u] = phase[u]
  BY <1>1 DEF SetPhase, Core, Types, SessionTypes
<1>4. document.next <= document'.next /\ document'.next <= next_transaction_id'
  BY <1>1, DocumentStays
<1>5. /\ t \in 0 .. MaxTxn /\ t # 0 /\ 0 \in 0 .. MaxTxn /\ d.val[1] = t
  BY DurabilityAssumption, CandidateIsNamed DEF Txns
<1>6. cands'[t] = d /\ cands'[0] = cands[0] /\ \A u \in Txns \ {t} : cands'[u] = cands[u]
  <2>1. \A u \in Txns : u \in 0 .. MaxTxn
    BY DurabilityAssumption DEF Txns
  <2>. QED
    BY <1>2, <1>5, <2>1
<1>7. Own(t)'
  <2>1. t < document.next /\ t \notin acked
    BY <1>1 DEF Named, Own
  <2>2. document'.next = document.next
    BY <1>1 DEF statusVars
  <2>. QED
    BY <1>1, <1>3, <1>5, <1>6, <2>1, <2>2 DEF Own
<1>8. \A u \in Txns \ {t} : Own(u)'
  <2>1. \A u \in Txns \ {t} : Moving(u)
    BY <1>1, <1>3 DEF Moving
  <2>. QED
    BY <1>4, <1>6, <2>1, OwnMoves DEF Named
<1>. QED
  BY <1>4, <1>6, <1>7, <1>8 DEF Named

\* The rest of a session.
LEMMA NamedSession ==
    ASSUME Core, Core', Named, Floors, NEW t \in Txns,
           \/ commit_empty_status(t) \/ commit_empty_wal(t) \/ abort_wal(t) \/ abort_status(t)
           \/ begin_fails_flush(t) \/ begin_fails_status(t) \/ abort_fails(t)
    PROVE  Named'
<1>1. CASE commit_empty_status(t)
  <2>1. phase[t] = "active" /\ finish(t, "Committed") /\ SetPhase(t, "empty") /\ UNCHANGED <<acked, cands>>
    BY <1>1 DEF commit_empty_status
  <2>. QED
    BY <2>1, DocumentFinished, OneMoves, NamedStays
<1>2. CASE commit_empty_wal(t)
  <2>1. phase[t] = "empty" /\ SetPhase(t, "done") /\ acked' = acked \cup {t} /\ UNCHANGED <<statusVars, cands>>
    BY <1>2 DEF commit_empty_wal
  <2>2. phase'[t] = "done" /\ \A u \in Txns \ {t} : phase'[u] = phase[u]
    BY <2>1 DEF SetPhase, Core, Types, SessionTypes
  <2>3. \A u \in Txns : Moving(u)
    BY <2>1, <2>2 DEF Moving
  <2>. QED
    BY <2>1, <2>3, DocumentStays, NamedStays DEF NamedMoves
<1>3. CASE abort_wal(t)
  <2>1. phase[t] \in {"active", "failed"} /\ SetPhase(t, "aborting") /\ UNCHANGED <<statusVars, acked, cands>>
    BY <1>3 DEF abort_wal
  <2>. QED
    BY <2>1, DocumentStays, OneMoves, NamedStays
<1>4. CASE abort_status(t)
  <2>1. phase[t] = "aborting" /\ finish(t, "Aborted") /\ SetPhase(t, "done") /\ UNCHANGED <<acked, cands>>
    BY <1>4 DEF abort_status
  <2>. QED
    BY <2>1, DocumentFinished, OneMoves, NamedStays
<1>5. CASE begin_fails_flush(t)
  <2>1. UNCHANGED <<statusVars, phase, acked, cands>>
    BY <1>5 DEF begin_fails_flush
  <2>. QED
    BY <2>1, DocumentStays, NobodyMoves, NamedStays
<1>6. CASE begin_fails_status(t)
  <2>1. /\ phase[t] = "begun" /\ SetPhase(t, "lost") /\ UNCHANGED <<document, acked, cands>>
        /\ next_transaction_id' = t + 1
    BY <1>6 DEF begin_fails_status, allocate_transaction
  <2>2. document.next <= document'.next /\ document'.next <= next_transaction_id'
    <3>1. t = next_transaction_id /\ next_transaction_id \in Nat /\ document.next \in Nat
      BY <2>1 DEF Floors, Core, Types, StatusTypes
    <3>. QED
      BY <2>1, <3>1 DEF Named
  <2>. QED
    BY <2>1, <2>2, OneMoves, NamedStays
<1>7. CASE abort_fails(t)
  <2>1. /\ phase[t] \in {"active", "failed", "aborting"} /\ SetPhase(t, "lost")
        /\ UNCHANGED <<statusVars, acked, cands>>
    BY <1>7 DEF abort_fails
  <2>. QED
    BY <2>1, DocumentStays, OneMoves, NamedStays
<1>. QED
  BY <1>1, <1>2, <1>3, <1>4, <1>5, <1>6, <1>7

\* Statuses, commits and their failures.
LEMMA NamedPersist ==
    ASSUME Core, Core', Named, Persist \/ persist_fails_active \/ persist_fails_committed
    PROVE  Named'
<1>0. job.step # "idle"
  BY DEF Persist, log_page, log_resize, log_flush, mark_status_committed, apply_page, apply_resize,
         apply_sync, commit_append, commit_flush, publish_prepared,
         persist_fails_active, persist_fails_committed
<1>1. job.txn \in Txns /\ phase[job.txn] = "persist"
  BY <1>0, JobIs DEF Core
<1>2. CASE log_page \/ log_resize \/ log_flush \/ apply_page \/ apply_resize \/ apply_sync
           \/ commit_append \/ commit_flush
  <2>1. UNCHANGED <<statusVars, phase, acked, cands>>
    BY <1>2 DEF log_page, log_resize, log_flush, apply_page, apply_resize, apply_sync,
                commit_append, commit_flush
  <2>. QED
    BY <2>1, DocumentStays, NobodyMoves, NamedStays
<1>3. CASE mark_status_committed
  <2>1. finish(job.txn, "Committed") /\ UNCHANGED <<phase, acked, cands>>
    BY <1>3 DEF mark_status_committed
  <2>. QED
    BY <2>1, DocumentFinished, NobodyMoves, NamedStays
<1>4. CASE publish_prepared
  <2>1. /\ SetPhase(job.txn, "done") /\ acked' = acked \cup {job.txn}
        /\ UNCHANGED <<statusVars, cands>>
    BY <1>4 DEF publish_prepared
  <2>2. phase'[job.txn] = "done" /\ \A u \in Txns \ {job.txn} : phase'[u] = phase[u]
    BY <1>1, <2>1 DEF SetPhase, Core, Types, SessionTypes
  <2>3. \A u \in Txns : Moving(u)
    BY <1>1, <2>1, <2>2 DEF Moving
  <2>. QED
    BY <2>1, <2>3, DocumentStays, NamedStays DEF NamedMoves
<1>5. CASE persist_fails_active \/ persist_fails_committed
  <2>1. PICK v \in {"failed", "orphan"} :
            SetPhase(job.txn, v) /\ UNCHANGED <<statusVars, acked, cands>>
    BY <1>5 DEF persist_fails_active, persist_fails_committed
  <2>. QED
    BY <1>1, <2>1, DocumentStays, OneMoves, NamedStays
<1>. QED
  BY <1>2, <1>3, <1>4, <1>5 DEF Persist

\* Crashes: a restart begins with the next id of the document.
LEMMA NamedCrashes ==
    ASSUME Core, Core', Named, power_loss \/ process_crash
    PROVE  Named'
<1>1. /\ phase' = [t \in Txns |-> IF phase[t] = "none" THEN "none" ELSE "gone"]
      /\ next_transaction_id' = document.next /\ UNCHANGED <<document, acked, cands>>
  BY DEF power_loss, process_crash, LoseMemory
<1>2. \A t \in Txns : Moving(t)
  BY <1>1 DEF Moving
<1>3. document.next <= document'.next /\ document'.next <= next_transaction_id'
  <2>1. document.next \in Nat
    BY DEF Core, Types, StatusTypes
  <2>. QED
    BY <1>1, <2>1
<1>. QED
  BY <1>1, <1>2, <1>3, NamedStays DEF NamedMoves

\* Recoveries: the next id only grows.
LEMMA NamedRecovers ==
    ASSUME Core, Core', Named, Recovery
    PROVE  Named'
<1>1. CASE ~reconcile_with_wal
  <2>1. UNCHANGED <<statusVars, phase, acked, cands>>
    BY <1>1, Zenon DEF Recovery, Undo, recover, redo, undo_begin, undo_page, undo_resize, undo_compensation,
                recovery_finish, recovery_checkpoint_begin, recovery_checkpoint_end
  <2>. QED
    BY <2>1, DocumentStays, NobodyMoves, NamedStays
<1>2. CASE reconcile_with_wal
  <2>1. /\ next_transaction_id' = Larger(next_transaction_id, HighestTxn(wal) + 1)
        /\ UNCHANGED <<phase, acked, cands>>
        /\ write_document_atomic \/ UNCHANGED document
    BY <1>2 DEF reconcile_with_wal
  <2>2. next_transaction_id <= next_transaction_id'
    <3>1. next_transaction_id \in Nat /\ HighestTxn(wal) \in Nat
      BY HighestIs DEF Core, Types, LogTypes, StatusTypes
    <3>. QED
      BY <2>1, <3>1 DEF Larger
  <2>3. document.next <= document'.next /\ document'.next <= next_transaction_id'
    <3>1. CASE write_document_atomic
      BY <2>2, <3>1, DocumentWritten
    <3>2. CASE UNCHANGED document
      <4>1. document.next \in Nat /\ next_transaction_id \in Nat /\ next_transaction_id' \in Nat
        BY DEF Core, Types, StatusTypes
      <4>. QED
        BY <2>2, <3>2, <4>1 DEF Named
    <3>. QED
      BY <2>1, <3>1, <3>2
  <2>. QED
    BY <2>1, <2>3, NobodyMoves, NamedStays
<1>. QED
  BY <1>1, <1>2

\* Every step keeps the candidates with their owners.
LEMMA NamedStep ==
    ASSUME Core, Core', Floors, RecoveryInv, Named, [Next]_vars
    PROVE  Named'
<1>1. CASE \E t \in Txns : Session(t)
  <2>1. PICK t \in Txns : Session(t)
    BY <1>1
  <2>2. CASE begin_transaction(t) \/ begin_durable(t) \/ prepare_commit(t)
    BY <2>2, NamedBegins, NamedAllocates, NamedPrepares DEF RecoveryInv
  <2>. QED
    BY <2>1, <2>2, NamedSession DEF Session
<1>2. CASE \E h \in 1 .. MaxTxn + 1 : compact_before(h)
  <2>1. /\ next_transaction_id' = next_transaction_id /\ write_document_atomic
        /\ UNCHANGED <<phase, acked, cands>>
    BY <1>2 DEF compact_before
  <2>2. next_transaction_id <= next_transaction_id'
    BY <2>1 DEF Core, Types, StatusTypes
  <2>. QED
    BY <2>1, <2>2, DocumentWritten, NobodyMoves, NamedStays
<1>3. CASE Persist \/ persist_fails_active \/ persist_fails_committed
  BY <1>3, NamedPersist
<1>4. CASE \E t \in Txns : begin_fails_flush(t) \/ begin_fails_status(t) \/ abort_fails(t)
  BY <1>4, NamedSession
<1>5. CASE checkpoint_sample \/ checkpoint_begin \/ checkpoint_end
  <2>1. UNCHANGED <<statusVars, phase, acked, cands>>
    BY <1>5 DEF checkpoint_sample, checkpoint_begin, checkpoint_end
  <2>. QED
    BY <2>1, DocumentStays, NobodyMoves, NamedStays
<1>6. CASE power_loss \/ process_crash
  BY <1>6, NamedCrashes
<1>7. CASE Recovery
  BY <1>7, NamedRecovers
<1>8. CASE UNCHANGED vars
  <2>1. UNCHANGED <<statusVars, phase, acked, cands>>
    BY <1>8 DEF vars
  <2>. QED
    BY <2>1, DocumentStays, NobodyMoves, NamedStays
<1>. QED
  BY <1>1, <1>2, <1>3, <1>4, <1>5, <1>6, <1>7, <1>8 DEF Next

(***************************************************************************)
(* What readers see, and whom the engine answers.                          *)
(***************************************************************************)
\* The history ends with the database served, a proper one.
LEMMA ServedIs ==
    ASSUME Core, RecoveryInv
    PROVE  /\ Served \in Proper /\ Author(wal, Len(wal)) \in 0 .. MaxTxn
           /\ Store!Last(CommitHistory).db = Served
           /\ Store!Last(CommitHistory).txn = Author(wal, Len(wal))
<1>1. /\ wal \in Seq(Records) /\ cands \in [0 .. MaxTxn -> Proper] /\ History(cands, wal)
      /\ Len(wal) \in 0 .. Len(wal)
  BY LenProperties DEF Core, Types, LogTypes, RecoveryInv
<1>2. Author(wal, Len(wal)) \in 0 .. MaxTxn
  BY <1>1, AuthorFacts
<1>3. Store!Last(CommitHistory) = Entry(cands, Author(wal, Len(wal)))
  BY <1>1, HistoryEnds DEF CommitHistory
<1>. QED
  BY <1>1, <1>2, <1>3 DEF Served, Entry

\* The last entry is of the history.
LEMMA LastIsCommitted ==
    ASSUME Core, RecoveryInv
    PROVE  Store!Last(CommitHistory).txn \in Store!Committed(CommitHistory)
<1>1. Len(CommitHistory) \in 1 .. Len(CommitHistory)
  <2>1. wal \in Seq(Records) /\ cands \in [0 .. MaxTxn -> Proper]
    BY DEF Core, Types, LogTypes, RecoveryInv
  <2>2. Len(CommitHistory) = Cardinality(CommitLsns(wal)) + 1 /\ Cardinality(CommitLsns(wal)) \in Nat
    BY <2>1, HistoryIs DEF CommitHistory
  <2>. QED
    BY <2>2
<1>. QED
  BY <1>1 DEF Store!Committed, Store!Last

\* Only publish_prepared, a crash and a restart change what readers see.
ViewMoves ==
    \/ mode' = mode /\ mem' = mem
    \/ mode # "up" /\ mode' # "up"
    \/ publish_prepared \/ power_loss \/ process_crash \/ reconcile_with_wal

\* No other step does.
LEMMA ViewSteps ==
    ASSUME [Next]_vars
    PROVE  ViewMoves
<1>1. CASE \E t \in Txns : Session(t)
  BY <1>1 DEF ViewMoves, Session, begin_transaction, begin_durable, prepare_commit, commit_empty_status,
              commit_empty_wal, abort_wal, abort_status
<1>2. CASE \E h \in 1 .. MaxTxn + 1 : compact_before(h)
  BY <1>2 DEF ViewMoves, compact_before
<1>3. CASE Persist \/ persist_fails_active \/ persist_fails_committed
  BY <1>3 DEF ViewMoves, Persist, log_page, log_resize, log_flush, mark_status_committed, apply_page,
              apply_resize, apply_sync, commit_append, commit_flush,
              persist_fails_active, persist_fails_committed
<1>4. CASE \E t \in Txns : begin_fails_flush(t) \/ begin_fails_status(t) \/ abort_fails(t)
  BY <1>4 DEF ViewMoves, begin_fails_flush, begin_fails_status, abort_fails
<1>5. CASE checkpoint_sample \/ checkpoint_begin \/ checkpoint_end
  BY <1>5 DEF ViewMoves, checkpoint_sample, checkpoint_begin, checkpoint_end
<1>6. CASE power_loss \/ process_crash
  BY <1>6 DEF ViewMoves
<1>7. CASE Recovery
  BY <1>7, Zenon DEF ViewMoves, Recovery, Undo, NextLoser, Recovering, recover, redo, undo_begin, undo_page, undo_resize,
              undo_compensation, recovery_finish, recovery_checkpoint_begin, recovery_checkpoint_end
<1>8. CASE UNCHANGED vars
  BY <1>8 DEF ViewMoves, vars
<1>. QED
  BY <1>1, <1>2, <1>3, <1>4, <1>5, <1>6, <1>7, <1>8 DEF Next

\* A commit begins with prepare_commit, and only commit_append takes it past its Commit record.
JobMoves ==
    \/ job' = Idle
    \/ mem' = mem /\ \E t \in Txns : prepare_commit(t)
    \/ mem' = mem /\ job # Idle /\ commit_append /\ job'.step = "commit_flush"
    \/ /\ mem' = mem /\ job # Idle
       /\ job'.step \in Unwritten \cup {"commit"} => job.step \in Unwritten \cup {"commit"}

\* No other step moves a commit, or what readers see while it runs.
LEMMA JobMove ==
    ASSUME Core, RecoveryInv, [Next]_vars
    PROVE  JobMoves
<1>1. CASE job' = job /\ mem' = mem
  BY <1>1 DEF JobMoves
<1>2. CASE Persist
  <2>1. job.step # "idle"
    BY <1>2 DEF Persist, log_page, log_resize, log_flush, mark_status_committed, apply_page,
                apply_resize, apply_sync, commit_append, commit_flush, publish_prepared
  <2>2. job \in Jobs /\ job # Idle
    BY <2>1, JobIs DEF Core
  <2>3. CASE log_page \/ log_resize \/ log_flush \/ mark_status_committed
    <3>1. mem' = mem /\ job.step \in Unwritten
      BY <2>3 DEF log_page, log_resize, log_flush, mark_status_committed, Unwritten, Early
    <3>. QED
      BY <2>2, <3>1 DEF JobMoves
  <2>4. CASE apply_page \/ apply_resize
    <3>1. mem' = mem /\ job.step \in Unwritten
      BY <2>4 DEF apply_page, apply_resize, Unwritten, Early
    <3>. QED
      BY <2>2, <3>1 DEF JobMoves
  <2>5. CASE apply_sync
    <3>1. mem' = mem /\ job.step \in Unwritten
      BY <2>2, <2>5 DEF apply_sync, Unwritten, Early, RecoveryInv, Committing
    <3>. QED
      BY <2>2, <3>1 DEF JobMoves
  <2>6. CASE commit_append
    BY <2>2, <2>6 DEF commit_append, JobMoves, Jobs
  <2>7. CASE commit_flush
    <3>1. mem' = mem /\ job'.step = "publish"
      BY <2>2, <2>7 DEF commit_flush, Jobs
    <3>. QED
      BY <2>2, <3>1 DEF JobMoves, Unwritten, Early
  <2>8. CASE publish_prepared
    BY <2>8 DEF publish_prepared, JobMoves
  <2>. QED
    BY <1>2, <2>3, <2>4, <2>5, <2>6, <2>7, <2>8 DEF Persist
<1>3. CASE persist_fails_active \/ persist_fails_committed
  BY <1>3 DEF persist_fails_active, persist_fails_committed, JobMoves
<1>4. CASE \E t \in Txns : Session(t)
  <2>1. PICK t \in Txns : Session(t)
    BY <1>4
  <2>2. CASE prepare_commit(t)
    BY <2>2 DEF prepare_commit, JobMoves
  <2>3. CASE ~prepare_commit(t)
    BY <1>1, <2>1, <2>3 DEF Session, begin_transaction, begin_durable, commit_empty_status,
                            commit_empty_wal, abort_wal, abort_status
  <2>. QED
    BY <2>2, <2>3
<1>5. CASE \E h \in 1 .. MaxTxn + 1 : compact_before(h)
  BY <1>1, <1>5 DEF compact_before
<1>6. CASE \E t \in Txns : begin_fails_flush(t) \/ begin_fails_status(t) \/ abort_fails(t)
  BY <1>1, <1>6 DEF begin_fails_flush, begin_fails_status, abort_fails
<1>7. CASE checkpoint_sample \/ checkpoint_begin \/ checkpoint_end
  BY <1>1, <1>7 DEF checkpoint_sample, checkpoint_begin, checkpoint_end
<1>8. CASE power_loss \/ process_crash
  BY <1>8 DEF power_loss, process_crash, LoseMemory, JobMoves
<1>9. CASE Recovery
  <2>1. CASE ~reconcile_with_wal
    BY <1>1, <1>9, <2>1, Zenon DEF Recovery, Undo, recover, redo, undo_begin, undo_page, undo_resize,
                undo_compensation, recovery_finish, recovery_checkpoint_begin, recovery_checkpoint_end
  <2>2. CASE reconcile_with_wal
    <3>1. mode = "recovering" /\ job' = job
      BY <2>2 DEF reconcile_with_wal, Recovering
    <3>. QED
      BY <3>1 DEF Core, Owners, JobMoves
  <2>. QED
    BY <2>1, <2>2
<1>10. CASE UNCHANGED vars
  BY <1>1, <1>10 DEF vars
<1>. QED
  BY <1>2, <1>3, <1>4, <1>5, <1>6, <1>7, <1>8, <1>9, <1>10 DEF Next

\* The history of a step that neither writes the Commit record of a commit nor loses power.
LEMMA ServedStays ==
    ASSUME Core, Core', RecoveryInv, RecoveryInv', CommitHistory' = CommitHistory
    PROVE  Served' = Served
<1>1. Store!Last(CommitHistory).db = Served
  BY ServedIs
<1>2. Store!Last(CommitHistory').db = Served'
  <2>1. /\ wal' \in Seq(Records) /\ cands' \in [0 .. MaxTxn -> Proper] /\ History(cands', wal')
    BY DEF Core, Types, LogTypes, RecoveryInv
  <2>2. Store!Last(CommitHistory') = Entry(cands', Author(wal', Len(wal')))
    BY <2>1, HistoryEnds DEF CommitHistory
  <2>. QED
    BY <2>2 DEF Served, Entry
<1>. QED
  BY <1>1, <1>2

\* Readers see the last committed database until a commit publishes its own.
LEMMA ShownStep ==
    ASSUME Core, Core', RecoveryInv, RecoveryInv', Shown, [Next]_vars
    PROVE  Shown'
<1>1. CASE job' = Idle
  <2>1. job'.step = "idle"
    BY <1>1, IdleIs
  <2>. QED
    BY <1>1, <2>1 DEF Shown, Unwritten, Early
<1>2. ASSUME NEW t \in Txns, prepare_commit(t), mem' = mem
      PROVE  Shown'
  <2>1. job = Idle /\ mode = "up" /\ mode' = mode
    BY <1>2, BusyIsUp DEF prepare_commit
  <2>2. mem = Served /\ Served \in Proper
    BY <2>1, ServedIs DEF RecoveryInv, Serving
  <2>3. ~commit_append /\ ~power_loss
    BY <2>1, IdleIs DEF commit_append, power_loss, LoseMemory
  <2>4. Served' = Served
    BY <2>3, HistoryMoves, ServedStays
  <2>. QED
    BY <1>2, <2>2, <2>4 DEF Shown
<1>3. CASE mem' = mem /\ job # Idle /\ commit_append /\ job'.step = "commit_flush"
  BY <1>3 DEF Shown, Unwritten, Early
<1>4. ASSUME mem' = mem, job # Idle, ~commit_append, job' # Idle,
             job'.step \in Unwritten \cup {"commit"} => job.step \in Unwritten \cup {"commit"}
      PROVE  Shown'
  <2>1. ~power_loss
    BY <1>4 DEF power_loss, LoseMemory
  <2>2. Served' = Served
    BY <1>4, <2>1, HistoryMoves, ServedStays
  <2>. QED
    BY <1>4, <2>2 DEF Shown
<1>5. JobMoves
  BY JobMove
<1>6. CASE commit_append /\ mem' = mem /\ job # Idle
  <2>1. job \in Jobs /\ job' = [job EXCEPT !.step = "commit_flush"]
    BY <1>6, JobIs DEF commit_append, Core
  <2>2. job'.step = "commit_flush"
    BY <2>1 DEF Jobs
  <2>. QED
    BY <1>3, <1>6, <2>2
<1>. QED
  BY <1>1, <1>2, <1>3, <1>4, <1>5, <1>6 DEF JobMoves

\* Only publish_prepared answers a client that has changed something.
LEMMA ToldMoves ==
    ASSUME Core, RecoveryInv, Named, [Next]_vars
    PROVE  IF publish_prepared THEN Told' = Told \cup {job.txn} /\ job.txn \notin Told ELSE Told' = Told
<1>1. cands \in [0 .. MaxTxn -> Proper] /\ Txns \subseteq 0 .. MaxTxn
  BY DurabilityAssumption DEF RecoveryInv, Txns
<1>2. \A u \in acked : cands'[u] = cands[u]
  <2>1. ASSUME NEW t \in Txns, NEW d, prepare_commit(t), cands' = [cands EXCEPT ![t] = d]
        PROVE  \A u \in acked : cands'[u] = cands[u]
    <3>1. t \notin acked
      BY <2>1 DEF prepare_commit, Named, Own
    <3>. QED
      BY <1>1, <2>1, <3>1
  <2>. QED
    BY <2>1, CandidatesMove
<1>3. CASE publish_prepared
  <2>1. /\ cands' = cands /\ acked' = acked \cup {job.txn} /\ job.step # "idle"
    BY <1>3 DEF publish_prepared
  <2>2. job.txn \in Txns /\ phase[job.txn] = "persist"
    BY <2>1, JobIs DEF Core
  <2>3. cands[job.txn].val[1] = job.txn /\ job.txn \notin acked
    BY <2>2 DEF Named, Own
  <2>. QED
    BY <1>3, <2>1, <2>3 DEF Told
<1>4. ASSUME NEW t \in Txns, commit_empty_wal(t), acked' = acked \cup {t}
      PROVE  Told' = Told
  <2>1. phase[t] = "empty" /\ cands' = cands
    BY <1>4 DEF commit_empty_wal
  <2>2. cands[t].val[1] # t
    BY <2>1 DEF Named, Own
  <2>. QED
    BY <1>4, <2>1, <2>2 DEF Told
<1>5. CASE acked' = acked /\ ~publish_prepared
  BY <1>2, <1>5 DEF Told
<1>6. ASSUME NEW t \in Txns, commit_empty_wal(t)
      PROVE  ~publish_prepared
  <2>1. phase'[t] = "done" /\ phase[t] = "empty" /\ job' = job
    BY <1>6 DEF commit_empty_wal, SetPhase, Core, Types, SessionTypes
  <2>2. publish_prepared => job' = Idle /\ job # Idle
    BY IdleIs DEF publish_prepared
  <2>. QED
    BY <2>1, <2>2
<1>. QED
  BY <1>3, <1>4, <1>5, <1>6, AckSteps

\* A power loss cuts the history.
LEMMA HistoryIsCut ==
    ASSUME Core, Core', RecoveryInv, RecoveryInv', power_loss
    PROVE  /\ \E n \in 1 .. Len(CommitHistory) : CommitHistory' = SubSeq(CommitHistory, 1, n)
           /\ \A i \in CommitLsns(wal) : i <= synced => i \in CommitLsns(wal')
           /\ \A i \in CommitLsns(wal') : wal'[i] = wal[i]
<1>1. PICK n \in synced .. Len(wal) : wal' = SubSeq(wal, 1, n) /\ synced' = n
  BY DEF power_loss
<1>2. /\ cands' = cands /\ wal \in Seq(Records) /\ cands \in [0 .. MaxTxn -> Proper]
      /\ History(cands, wal) /\ wal' \in Seq(Records) /\ History(cands, wal')
      /\ synced \in Nat /\ Len(wal) \in Nat
  BY LenProperties DEF power_loss, LoseMemory, Core, Types, LogTypes, RecoveryInv
<1>3. n \in Nat /\ n <= Len(wal) /\ synced <= n
  BY <1>1, <1>2
<1>4. Len(wal') = n /\ \A i \in 1 .. n : wal'[i] = wal[i]
  BY <1>1, <1>2, <1>3, PrefixFacts
<1>5. CommitLsns(wal') = Winners(wal, n) /\ CommitLsns(wal) = Winners(wal, Len(wal))
  BY <1>2, <1>3, <1>4, WinnersAre, WinnersOfPrefix
<1>6. CommitLsns(wal') = {i \in CommitLsns(wal) : i <= n} /\ CommitLsns(wal') \subseteq 1 .. n
  BY <1>2, <1>3, <1>5 DEF Winners
<1>7. CommitLsns(wal) \subseteq 1 .. Len(wal)
  BY <1>5 DEF Winners
<1>8. /\ Len(HistoryOf(cands, wal')) \in 1 .. Len(HistoryOf(cands, wal))
      /\ HistoryOf(cands, wal') = SubSeq(HistoryOf(cands, wal), 1, Len(HistoryOf(cands, wal')))
  <2>1. CommitLsns(wal') \subseteq CommitLsns(wal)
    BY <1>6
  <2>2. \A i \in CommitLsns(wal') : \A k \in CommitLsns(wal) : k \notin CommitLsns(wal') => i < k
    BY <1>3, <1>6, <1>7
  <2>3. \A i \in CommitLsns(wal') : wal[i] = wal'[i] /\ cands[wal'[i].txn] = cands[wal'[i].txn]
    BY <1>4, <1>6
  <2>. QED
    BY <1>2, <2>1, <2>2, <2>3, HistoryBegins
<1>9. \E m \in 1 .. Len(CommitHistory) : CommitHistory' = SubSeq(CommitHistory, 1, m)
  BY <1>2, <1>8 DEF CommitHistory
<1>10. \A i \in CommitLsns(wal) : i <= synced => i \in CommitLsns(wal')
  BY <1>2, <1>3, <1>6, <1>7
<1>. QED
  BY <1>4, <1>6, <1>9, <1>10

\* What it leaves has every transaction whose client was told.
LEMMA ToldAreKept ==
    ASSUME Core, Core', RecoveryInv, RecoveryInv', power_loss, AckedIsDurable, Answered
    PROVE  Told \subseteq Store!Committed(CommitHistory')
<1>. SUFFICES ASSUME NEW t \in Told
              PROVE  t \in Store!Committed(CommitHistory')
  OBVIOUS
<1>1. /\ wal \in Seq(Records) /\ cands \in [0 .. MaxTxn -> Proper] /\ History(cands, wal)
      /\ wal' \in Seq(Records) /\ cands' \in [0 .. MaxTxn -> Proper]
      /\ synced \in 0 .. Len(wal) /\ Len(wal) \in Nat
  BY LenProperties DEF Core, Types, LogTypes, RecoveryInv
<1>2. t \in acked /\ cands[t].val[1] = t
  BY DEF Told
<1>3. PICK i \in 1 .. synced : wal[i].kind = "Commit" /\ wal[i].txn = t
  BY <1>2 DEF AckedIsDurable
<1>4. i \in 1 .. Len(wal) /\ i <= synced
  BY <1>1, <1>3
<1>5. t # 0
  <2>1. wal[i] \in Records
    BY <1>1, <1>4, ElementOfSeq
  <2>. QED
    BY <1>3, <2>1, PagesAreNumbers, RecordKinds DEF Others
<1>6. PICK k \in CommitLsns(wal) : wal[k].txn = t
  <2>1. t \in Store!Committed(CommitHistory)
    BY DEF Answered
  <2>. QED
    BY <1>1, <1>5, <2>1, CommittedAre DEF CommitHistory
<1>7. k = i
  <2>1. k \in 1 .. Len(wal) /\ wal[k].kind = "Commit"
    BY DEF CommitLsns, Lsns
  <2>. QED
    BY <1>1, <1>3, <1>4, <1>5, <1>6, <2>1, CommitsAreUnique
<1>8. i \in CommitLsns(wal') /\ wal'[i].txn = t
  BY <1>3, <1>4, <1>6, <1>7, HistoryIsCut
<1>. QED
  BY <1>1, <1>5, <1>8, CommittedAre DEF CommitHistory

(***************************************************************************)
(* Every step is one of the store, or none.                                *)
(***************************************************************************)
\* A proper database is not what is shown while the engine is down.
LEMMA ProperIsShown ==
    ASSUME NEW d \in Proper
    PROVE  d \in Db /\ d # NoDatabase
<1>1. d \in Db /\ d.cnt \in Nat \ {0}
  BY PagesAreNumbers DEF Proper, Db
<1>2. NoDatabase.cnt = 0
  BY DEF NoDatabase
<1>. QED
  BY <1>1, <1>2

\* The database served is the candidate of who committed last.
LEMMA AuthorIs ==
    ASSUME Core, RecoveryInv, Named, NEW t \in Txns, Served.val[1] = t
    PROVE  Author(wal, Len(wal)) = t
<1>1. Author(wal, Len(wal)) \in 0 .. MaxTxn /\ t # 0
  BY ServedIs, PagesAreNumbers
<1>2. Author(wal, Len(wal)) = 0 \/ Author(wal, Len(wal)) \in Txns
  BY <1>1 DEF Txns
<1>3. cands[Author(wal, Len(wal))].val[1] \in {0, Author(wal, Len(wal))}
  BY <1>2 DEF Named, Own
<1>. QED
  BY <1>1, <1>3 DEF Served

\* A commit that is about to write its Commit record has logged changes: its metadata page is not
\* the one served.
LEMMA CommitHasChanges ==
    ASSUME Core, RecoveryInv, Named, job.step = "commit"
    PROVE  Updates(wal, Len(wal), job.txn) # {}
<1>. SUFFICES ASSUME Updates(wal, Len(wal), job.txn) = {}
              PROVE  FALSE
  OBVIOUS
<1>1. /\ job.txn \in Txns /\ job # Idle /\ phase[job.txn] = "persist" /\ mode = "up"
      /\ job.step \in Unwritten \cup {"commit"}
  BY JobIs DEF Core
<1>2. /\ wal \in Seq(Records) /\ Len(wal) \in 0 .. Len(wal) /\ 1 \in Pages /\ Size \in Pages
      /\ History(cands, wal) /\ cands \in [0 .. MaxTxn -> Proper]
  <2>1. 1 \in Pages /\ 0 \in 0 .. MaxTxn
    BY DurabilityAssumption DEF Pages
  <2>2. cands[0] \in Proper
    BY <2>1 DEF RecoveryInv
  <2>3. Size \in Pages
    BY <2>2 DEF Proper, Db
  <2>. QED
    BY <2>1, <2>3, LenProperties DEF Core, Types, LogTypes, RecoveryInv
<1>3. \A u \in Txns : ~Open(wal, Len(wal), u)
  BY <1>1 DEF RecoveryInv, Serving, StillOpen, Open
<1>4. Latest(1).val = Served.val[1]
  BY <1>2, <1>3, NothingOpen DEF Latest, Served
<1>5. Latest(1).val = job.txn
  <2>1. Latest(1).val = job.db.val[1] /\ cands[job.txn] = job.db
    BY <1>1, <1>2 DEF RecoveryInv, Committing
  <2>. QED
    BY <1>1, <2>1 DEF Named, Own
<1>6. Author(wal, Len(wal)) = job.txn
  BY <1>1, <1>4, <1>5, AuthorIs
<1>7. HasEnded(job.txn)
  BY <1>1, <1>2, <1>6, AuthorFacts, PagesAreNumbers DEF HasEnded
<1>. QED
  BY <1>1, <1>7 DEF RecoveryInv, Committing

\* commit_transaction_at is where a transaction enters the history.
LEMMA StoreCommits ==
    ASSUME Core, Core', RecoveryInv, RecoveryInv', Named, Shown, Answered, [Next]_vars, commit_append
    PROVE  Store!Commit(job.txn) /\ Answered'
<1>. DEFINE t == job.txn
            r == Commit(t, last_lsn(wal, t))
<1>1. /\ job.step = "commit" /\ wal' = Append(wal, r) /\ UNCHANGED <<mode, mem, cands>>
  BY DEF commit_append, append
<1>2. t \in Txns /\ job # Idle /\ mode = "up" /\ t # 0 /\ phase[t] = "persist"
  BY <1>1, JobIs, PagesAreNumbers DEF Core
<1>3. r.kind = "Commit" /\ r.txn = t
  BY RecordFields
<1>. HIDE DEF t, r
<1>4. /\ wal \in Seq(Records) /\ wal' \in Seq(Records) /\ cands \in [0 .. MaxTxn -> Proper]
      /\ History(cands, wal) /\ History(cands, wal') /\ Len(wal) \in Nat
  BY <1>1, LenProperties DEF Core, Types, LogTypes, RecoveryInv
<1>5. r \in Records /\ Len(wal') = Len(wal) + 1 /\ \A i \in 1 .. Len(wal) : wal'[i] = wal[i]
      /\ wal'[Len(wal) + 1] = r
  <2>1. wal'[Len(wal) + 1] = r
    BY <1>1, <1>4
  <2>. QED
    BY <1>1, <1>4, <2>1, AppendedIs
<1>6. Updates(wal, Len(wal), r.txn) # {}
  BY <1>1, <1>3, CommitHasChanges DEF t
<1>7. CommitLsns(wal') = CommitLsns(wal) \cup {Len(wal) + 1}
  BY <1>1, <1>3, <1>4, <1>5, <1>6, CommitLsnsGrow
<1>8. \A i \in CommitLsns(wal) : i \in 1 .. Len(wal) /\ i < Len(wal) + 1 /\ wal'[i] = wal[i]
  BY <1>4, <1>5, CommitsHaveEnded
<1>9. HistoryOf(cands, wal') = Append(HistoryOf(cands, wal), Entry(cands, wal'[Len(wal) + 1].txn))
  <2>1. Len(wal) + 1 \in Nat
    BY <1>4
  <2>. QED
    BY <1>4, <1>7, <1>8, <2>1, HistoryAppends
<1>10. CommitHistory' = Append(CommitHistory, [txn |-> t, db |-> cands[t]])
  BY <1>1, <1>3, <1>5, <1>9 DEF CommitHistory, Entry
<1>11. View = mem /\ View' = View /\ mem = Served /\ mem \in Proper /\ mem # NoDatabase
  BY <1>1, <1>2, ProperIsShown DEF View, Shown
<1>12. t \notin Store!Committed(CommitHistory)
  <2>1. ~HasEnded(t)
    BY <1>1 DEF RecoveryInv, Committing, t
  <2>2. \A i \in CommitLsns(wal) : wal[i].txn # t
    BY <1>4, <2>1, CommitsHaveEnded DEF HasEnded
  <2>. QED
    BY <1>2, <1>4, <2>2, CommittedAre DEF CommitHistory
<1>13. cands[t] \in Db
  <2>1. t \in 0 .. MaxTxn
    BY <1>2, DurabilityAssumption DEF Txns
  <2>. QED
    BY <1>4, <2>1, ProperIsShown
<1>14. Told' = Told
  <2>1. ~publish_prepared
    BY <1>1 DEF publish_prepared
  <2>. QED
    BY <2>1, ToldMoves
<1>15. Store!Last(CommitHistory).db = Served
  BY ServedIs
<1>16. Store!Commit(t)
  BY <1>10, <1>11, <1>12, <1>13, <1>14, <1>15 DEF Store!Commit
<1>17. Store!Committed(CommitHistory) \subseteq Store!Committed(CommitHistory')
  <2>1. CommitHistory \in Seq(Entries) /\ CommitHistory' \in Seq(Entries)
    BY <1>1, <1>4, HistoryIs DEF CommitHistory
  <2>2. /\ Len(CommitHistory') = Len(CommitHistory) + 1 /\ Len(CommitHistory) \in Nat
        /\ \A n \in 1 .. Len(CommitHistory) : CommitHistory'[n] = CommitHistory[n]
    BY <1>10, <2>1, LenProperties
  <2>3. \A n \in 1 .. Len(CommitHistory) : n \in 1 .. Len(CommitHistory')
    BY <2>2
  <2>. QED
    BY <2>2, <2>3 DEF Store!Committed
<1>18. Answered'
  BY <1>14, <1>17 DEF Answered
<1>. QED
  BY <1>16, <1>18 DEF t

\* publish_prepared shows the commit and answers its client.
LEMMA StoreAnswers ==
    ASSUME Core, Core', RecoveryInv, RecoveryInv', Named, Shown, Answered, [Next]_vars, publish_prepared
    PROVE  Store!Answer(job.txn) /\ Answered'
<1>1. job.step = "publish" /\ mem' = job.db /\ mode' = mode
  BY DEF publish_prepared
<1>2. job.txn \in Txns /\ job # Idle /\ mode = "up" /\ phase[job.txn] = "persist"
  BY <1>1, JobIs DEF Core
<1>3. Served = job.db /\ cands[job.txn] = job.db /\ cands[job.txn].val[1] = job.txn
  BY <1>1, <1>2 DEF RecoveryInv, Committing, Named, Own
<1>4. /\ Store!Last(CommitHistory).db = job.db
      /\ Store!Last(CommitHistory).txn = job.txn
  BY <1>2, <1>3, AuthorIs, ServedIs
<1>5. View # NoDatabase /\ View' = job.db
  BY <1>1, <1>2, ProperIsShown DEF View, Shown
<1>6. Told' = Told \cup {job.txn} /\ job.txn \notin Told
  BY ToldMoves
<1>7. CommitHistory' = CommitHistory
  <2>1. ~commit_append
    BY <1>1 DEF commit_append
  <2>2. ~power_loss
    BY <1>1, <1>2 DEF power_loss, LoseMemory
  <2>. QED
    BY <2>1, <2>2, HistoryMoves
<1>8. Store!Answer(job.txn)
  BY <1>4, <1>5, <1>6, <1>7 DEF Store!Answer
<1>9. job.txn \in Store!Committed(CommitHistory)
  BY <1>4, LastIsCommitted
<1>. QED
  BY <1>6, <1>7, <1>8, <1>9 DEF Answered

\* A crash takes back only commits no client was told of.
LEMMA StoreCrashes ==
    ASSUME Core, Core', RecoveryInv, RecoveryInv', Named, Answered, AckedIsDurable, [Next]_vars,
           power_loss \/ process_crash
    PROVE  Store!Crash /\ Answered'
<1>1. mode' = "down" /\ job' = Idle /\ acked' = acked /\ cands' = cands
  BY DEF power_loss, process_crash, LoseMemory
<1>2. View' = NoDatabase
  BY <1>1 DEF View
<1>3. Told' = Told
  BY <1>1 DEF Told
<1>4. /\ \E n \in 1 .. Len(CommitHistory) : CommitHistory' = SubSeq(CommitHistory, 1, n)
      /\ Told \subseteq Store!Committed(CommitHistory')
  <2>1. CASE power_loss
    BY <2>1, HistoryIsCut, ToldAreKept
  <2>2. CASE process_crash
    <3>1. CommitHistory' = CommitHistory
      BY <1>1, <2>2 DEF process_crash, CommitHistory
    <3>2. wal \in Seq(Records) /\ cands \in [0 .. MaxTxn -> Proper]
      BY DEF Core, Types, LogTypes, RecoveryInv
    <3>3. /\ Len(HistoryOf(cands, wal)) \in 1 .. Len(HistoryOf(cands, wal))
          /\ HistoryOf(cands, wal) = SubSeq(HistoryOf(cands, wal), 1, Len(HistoryOf(cands, wal)))
      BY <3>2, HistoryBegins
    <3>. QED
      BY <3>1, <3>3 DEF CommitHistory, Answered
  <2>. QED
    BY <2>1, <2>2
<1>. QED
  BY <1>2, <1>3, <1>4 DEF Store!Crash, Answered

\* reconcile_with_wal serves the end of the history.
LEMMA StoreRestarts ==
    ASSUME Core, Core', RecoveryInv, RecoveryInv', Named, Answered, [Next]_vars, reconcile_with_wal
    PROVE  Store!Restart /\ Answered'
<1>1. mode = "recovering" /\ mode' \in {"up", "failed"} /\ job' = job
  BY DEF reconcile_with_wal, Recovering
<1>2. job = Idle /\ mode' = "up"
  BY <1>1 DEF Core, Owners, RecoveryInv
<1>3. View = NoDatabase /\ View' = mem'
  BY <1>1, <1>2 DEF View
<1>4. mem' = Served'
  BY <1>1, <1>2 DEF RecoveryInv, Serving
<1>5. ~commit_append /\ ~power_loss /\ ~publish_prepared
  BY <1>2, <1>1, IdleIs DEF commit_append, power_loss, LoseMemory, publish_prepared
<1>6. CommitHistory' = CommitHistory /\ Told' = Told
  BY <1>5, HistoryMoves, ToldMoves
<1>7. Served' = Served /\ Store!Last(CommitHistory).db = Served
  BY <1>6, ServedStays, ServedIs
<1>. QED
  BY <1>3, <1>4, <1>6, <1>7 DEF Store!Restart, Answered

\* Every step of the engine is one of the store or changes nothing of it.
LEMMA StoreStep ==
    ASSUME Core, Core', RecoveryInv, RecoveryInv', Named, Shown, Answered, AckedIsDurable, [Next]_vars
    PROVE  [Store!Next]_(Store!vars) /\ Answered'
<1>1. CASE commit_append
  <2>1. job.txn \in Txns
    BY <1>1, JobIs DEF commit_append, Core
  <2>. QED
    BY <1>1, <2>1, StoreCommits DEF Store!Next
<1>2. CASE publish_prepared
  <2>1. job.txn \in Txns
    BY <1>2, JobIs DEF publish_prepared, Core
  <2>. QED
    BY <1>2, <2>1, StoreAnswers DEF Store!Next
<1>3. CASE power_loss \/ process_crash
  BY <1>3, StoreCrashes DEF Store!Next
<1>4. CASE reconcile_with_wal
  BY <1>4, StoreRestarts DEF Store!Next
<1>5. CASE ~(commit_append \/ publish_prepared \/ power_loss \/ process_crash \/ reconcile_with_wal)
  <2>1. CommitHistory' = CommitHistory /\ Told' = Told
    BY <1>5, HistoryMoves, ToldMoves
  <2>2. View' = View
    BY <1>5, ViewSteps DEF ViewMoves, View
  <2>. QED
    BY <2>1, <2>2 DEF Store!vars, Answered
<1>. QED
  BY <1>1, <1>2, <1>3, <1>4, <1>5

\* It begins with the initial database, and nobody is answered.
LEMMA StoreBegins ==
    ASSUME Init, OneSize
    PROVE  Store!Init /\ Named /\ Shown /\ Answered
<1>1. PICK n \in PageCounts : mem = InitDb(n) /\ cands = [t \in 0 .. MaxTxn |-> InitDb(n)]
  BY DEF Init
<1>2. /\ wal = <<>> /\ mode = "up" /\ acked = {} /\ job = Idle /\ next_transaction_id = 1
      /\ document.next = 1 /\ phase = [t \in Txns |-> "none"]
  BY DEF Init
<1>3. n \in Pages /\ 0 \in 0 .. MaxTxn /\ 1 \in Pages /\ 1 <= n /\ Txns \subseteq 0 .. MaxTxn
  BY DurabilityAssumption DEF Pages, Txns
<1>4. InitDb(n) \in Db /\ InitDb(n).val[1] = 0
  BY <1>3, DurabilityAssumption DEF InitDb, Db, Pages
<1>5. \A t \in 0 .. MaxTxn : cands[t] = InitDb(n)
  BY <1>1
<1>6. CommitLsns(wal) = {}
  <2>1. Lsns(wal) = {}
    BY <1>2 DEF Lsns
  <2>. QED
    BY <2>1 DEF CommitLsns
<1>7. CommitHistory = <<[txn |-> 0, db |-> InitDb(n)]>>
  <2>1. Cardinality(CommitLsns(wal)) = 0
    BY <1>6, FS_EmptySet
  <2>2. CommitHistory = [k \in 1 .. 1 |-> [txn |-> 0, db |-> cands[0]]]
    BY <2>1 DEF CommitHistory, HistoryOf
  <2>. QED
    BY <1>3, <1>5, <2>2
<1>8. View = InitDb(n) /\ Told = {}
  BY <1>1, <1>2 DEF View, Told
<1>9. Named
  <2>1. ASSUME NEW t \in Txns
        PROVE  Own(t)
    BY <1>2, <1>3, <1>4, <1>5, PagesAreNumbers DEF Own
  <2>2. cands[0].val[1] = 0
    BY <1>3, <1>4, <1>5
  <2>3. document.next <= next_transaction_id
    BY <1>2
  <2>. QED
    BY <2>1, <2>2, <2>3 DEF Named
<1>10. Shown
  BY <1>2, IdleIs DEF Shown, Unwritten, Early
<1>. QED
  BY <1>4, <1>7, <1>8, <1>9, <1>10 DEF Store!Init, Answered

\* The log, the status document and the data file together are one atomic, durable store, as
\* long as no commit fails after it has logged a page: commits enter the history of the store one
\* at a time and whole where commit_transaction_at appends their record; publish_prepared shows
\* them; a crash takes back only commits no client was told of; and recovery serves what is left.
THEOREM TheEngineIsADurableStore ==
    ASSUME NEW n, PageCounts = {n}, ~({"power", "process"} \subseteq Failures),
           Failures \cap {"active", "committed"} = {}
    PROVE  Spec => ImplementsDurableStore
<1>1. OneSize /\ OneKindOfCrash
  BY DEF OneSize, OneKindOfCrash, Size
<1>2. Spec => [](Floors /\ RecoveryInv)
  <2>1. Agreement /\ RecoveryIsRight => Floors /\ RecoveryInv
    BY DEF Agreement, RecoveryIsRight, Calm
  <2>. QED
    BY <1>1, <2>1, AgreementInvariant, RecoveryInvariant, PTL
<1>3. Init => Store!Init /\ Named /\ Shown /\ Answered
  BY <1>1, StoreBegins
<1>4. /\ Core /\ Core' /\ Floors /\ RecoveryInv /\ RecoveryInv' /\ AckedIsDurable
      /\ Named /\ Shown /\ Answered /\ [Next]_vars
      => [Store!Next]_(Store!vars) /\ Named' /\ Shown' /\ Answered'
  BY NamedStep, ShownStep, StoreStep
<1>5. Spec => Store!Init /\ [][Store!Next]_(Store!vars)
  BY <1>2, <1>3, <1>4, CoreInvariant, CommitsAreDurable, PTL DEF Spec
<1>. QED
  BY <1>5 DEF ImplementsDurableStore, Store!Spec
=============================================================================
