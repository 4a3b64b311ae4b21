--------------------------- MODULE IsolationProofs ---------------------------
(***************************************************************************)
(* Proofs about the transactions of Isolation.  Each invariant is proved   *)
(* through its moves: a lemma says which of a few simple moves every       *)
(* action is, in the terms that the invariant reads (an identifier is      *)
(* taken, a record becomes another one, a chain grows, an edge is added),  *)
(* and the invariant is shown to survive the moves, which mention neither  *)
(* EXCEPT nor the rest of the state.  The parts are                        *)
(*                                                                         *)
(*   IdsInv      identifiers and snapshots                                 *)
(*   ChainsInv   published versions, bases and working sets                *)
(*   SsiInv      the graph of rw-dependencies                              *)
(*                                                                         *)
(* which every behaviour has, and two that hold under a condition on which *)
(* operations overlap:                                                     *)
(*                                                                         *)
(*   RecordsInv  what the SSI manager still knows, when no BEGIN overlaps  *)
(*               the COMMIT of a serializable transaction                  *)
(*   SeesInv     what statements saw, when nobody takes a snapshot between *)
(*               the id of a BEGIN and its registration                    *)
(***************************************************************************)
EXTENDS Isolation, SequenceTheorems, FiniteSetTheorems, TLAPS

Creators == Txns \cup {Frozen}
Chains   == [Rows -> Seq(Creators) \ {<< >>}]
Predicates == [reads : SUBSET Tables, writes : SUBSET Tables]

Savepoint == [taken : BOOLEAN, base : Chains, working : SUBSET RowVersions,
              locks : SUBSET (Rows \X Nat), predicates : Predicates]

Transaction == [phase : Phases, level : Levels, snapshot : Snapshots, safe : BOOLEAN,
                statements : Nat, base : Chains, working : SUBSET RowVersions,
                locks : SUBSET (Rows \X Nat), want : Rows, savepoint : Savepoint]

SsiRecord == [live : BOOLEAN, committed : BOOLEAN, reads : SUBSET Tables,
              writes : SUBSET Tables, incoming : SUBSET Txns, outgoing : SUBSET Txns]

Types ==
    /\ setup \in Setups
    /\ allocated \in 0..N
    /\ next_transaction_id \in 1..N+1
    /\ session \in [Txns -> Transaction]
    /\ \A t \in Txns : session[t].statements <= setup.statements
    /\ versions \in Chains
    /\ ssi \in [Txns -> SsiRecord]
    /\ seen \in [Txns -> SUBSET RowVersions]

\* A nonempty set of naturals has a least element, by the well-foundedness of the
\* strict inclusion of the finite sets 0..n.
LEMMA LeastNatural ==
    ASSUME NEW T, T \subseteq Nat, T # {}
    PROVE  \E n \in T : \A m \in T : n <= m
<1>. DEFINE Up == {0..n : n \in T}
<1>1. Up \subseteq FiniteSubsetsOf(Nat) /\ Up # {}
  <2>1. \A n \in T : IsFiniteSet(0..n) /\ 0..n \subseteq Nat
    BY FS_Interval
  <2>2. QED
    BY <2>1 DEF FiniteSubsetsOf
<1>2. PICK x \in Up : \A y \in Up : ~(<<y, x>> \in StrictSubsetOrdering(Nat))
  <2>. HIDE DEF Up
  <2>1. QED
    BY <1>1, FS_StrictSubsetOrderingWellFounded, WFMin
<1>3. PICK n \in T : x = 0..n
  OBVIOUS
<1>4. ASSUME NEW m \in T, m < n PROVE FALSE
  <2>1. 0..m \in Up /\ 0..m \subseteq 0..n /\ n \in 0..n /\ n \notin 0..m
    BY <1>4
  <2>2. <<0..m, 0..n>> \in StrictSubsetOrdering(Nat)
    BY <2>1, <1>1 DEF StrictSubsetOrdering
  <2>3. QED
    BY <1>2, <1>3, <2>1, <2>2
<1>5. QED
  BY <1>4

\* Min of FiniteSetsExt, which global_xmin and snapshot_locked take.
LEMMA MinFacts ==
    ASSUME NEW S, S \subseteq Nat, S # {}
    PROVE  Min(S) \in S /\ \A y \in S : Min(S) <= y
<1>1. PICK n \in S : \A m \in S : n <= m
  BY LeastNatural
<1>2. \E x \in S : \A y \in S : x =< y
  BY <1>1
<1>. QED
  BY <1>2 DEF Min

\* Identifiers are positive and at most N.
LEMMA TxnsAreNaturals == N \in Nat /\ Txns \subseteq Nat \ {0} /\ \A t \in Txns : t <= N
BY NAssumption DEF Txns

\* snapshot_locked returns a snapshot.
LEMMA SnapshotType ==
    ASSUME Types, NEW t \in Txns
    PROVE  /\ snapshot_locked(t) \in Snapshots
           /\ snapshot_locked(t).xmax = next_transaction_id
           /\ snapshot_locked(t).in_progress = ActiveSet \ {t}
           /\ \A u \in ActiveSet \ {t} : snapshot_locked(t).xmin <= u
           /\ snapshot_locked(t).xmin = t \/ snapshot_locked(t).xmin \in ActiveSet
<1>. DEFINE A == ActiveSet \ {t}
<1>1. A \subseteq Txns /\ A \subseteq Nat
  BY TxnsAreNaturals DEF ActiveSet
<1>2. A # {} => Min(A) \in A /\ \A y \in A : Min(A) <= y
  BY <1>1, MinFacts
<1>3. next_transaction_id \in 1..N+1 /\ t \in 1..N+1 /\ (A # {} => Min(A) \in 1..N+1)
  BY <1>1, <1>2, TxnsAreNaturals DEF Types, Txns
<1>4. CASE A = {}
  BY <1>1, <1>3, <1>4 DEF snapshot_locked, Snapshots
<1>5. CASE A # {}
  BY <1>1, <1>2, <1>3, <1>5 DEF snapshot_locked, Snapshots
<1>. QED
  BY <1>4, <1>5

\* The updates that the SSI manager makes of one record keep its type.
LEMMA RecordTypes ==
    ASSUME NEW r \in SsiRecord
    PROVE  /\ \A I, O \in SUBSET Txns : [r EXCEPT !.incoming = I, !.outgoing = O] \in SsiRecord
           /\ \A I, O \in SUBSET Txns : [r EXCEPT !.outgoing = O, !.incoming = I] \in SsiRecord
           /\ \A gone : [r EXCEPT !.incoming = @ \ gone, !.outgoing = @ \ gone] \in SsiRecord
           /\ [r EXCEPT !.committed = TRUE] \in SsiRecord
           /\ \A table \in Tables : /\ [r EXCEPT !.reads = @ \cup {table}] \in SsiRecord
                                    /\ [r EXCEPT !.writes = @ \cup {table}] \in SsiRecord
           /\ \A saved \in Predicates :
                 [r EXCEPT !.reads = saved.reads, !.writes = saved.writes,
                           !.incoming = {}, !.outgoing = {}] \in SsiRecord
           /\ NoSsi \in SsiRecord /\ [NoSsi EXCEPT !.live = TRUE] \in SsiRecord
           /\ r.incoming \in SUBSET Txns /\ r.outgoing \in SUBSET Txns
<1>1. /\ \A I, O \in SUBSET Txns : [r EXCEPT !.incoming = I, !.outgoing = O] \in SsiRecord
      /\ \A I, O \in SUBSET Txns : [r EXCEPT !.outgoing = O, !.incoming = I] \in SsiRecord
      /\ r.incoming \in SUBSET Txns /\ r.outgoing \in SUBSET Txns
  BY DEF SsiRecord
<1>2. \A gone : r.incoming \ gone \in SUBSET Txns /\ r.outgoing \ gone \in SUBSET Txns
  BY <1>1
<1>3. \A gone : [r EXCEPT !.incoming = @ \ gone, !.outgoing = @ \ gone] \in SsiRecord
  BY <1>1, <1>2
<1>4. [r EXCEPT !.committed = TRUE] \in SsiRecord
  BY DEF SsiRecord
<1>5. \A table \in Tables : /\ [r EXCEPT !.reads = @ \cup {table}] \in SsiRecord
                            /\ [r EXCEPT !.writes = @ \cup {table}] \in SsiRecord
  BY DEF SsiRecord
<1>6. NoSsi \in SsiRecord /\ [NoSsi EXCEPT !.live = TRUE] \in SsiRecord
  BY DEF SsiRecord, NoSsi
<1>7. \A saved \in Predicates :
                 [r EXCEPT !.reads = saved.reads, !.writes = saved.writes,
                           !.incoming = {}, !.outgoing = {}] \in SsiRecord
  BY DEF SsiRecord, Predicates
<1>. QED
  BY <1>1, <1>3, <1>4, <1>5, <1>6, <1>7

\* The operations of the SSI manager return SSI records.
LEMMA SsiTypes ==
    ASSUME NEW s \in [Txns -> SsiRecord], NEW t \in Txns
    PROVE  /\ \A pairs \in SUBSET (Txns \X Txns) :
                  add_dependencies(s, pairs) \in [Txns -> SsiRecord]
           /\ ssi_begin(s, t) \in [Txns -> SsiRecord]
           /\ \A table \in Tables : record_read(s, t, table) \in [Txns -> SsiRecord]
           /\ \A table \in Tables : record_write(s, t, table) \in [Txns -> SsiRecord]
           /\ ssi_commit(s, t) \in [Txns -> SsiRecord]
           /\ \A gone \in SUBSET Txns : remove_transactions(s, gone) \in [Txns -> SsiRecord]
           /\ \A saved \in Predicates : ssi_rollback_to(s, t, saved) \in [Txns -> SsiRecord]
<1>1. \A z \in [Txns -> SsiRecord], pairs \in SUBSET (Txns \X Txns) :
          add_dependencies(z, pairs) \in [Txns -> SsiRecord]
  <2>1. SUFFICES ASSUME NEW z \in [Txns -> SsiRecord], NEW pairs \in SUBSET (Txns \X Txns),
                        NEW u \in Txns
                 PROVE  add_dependencies(z, pairs)[u] \in SsiRecord
    BY DEF add_dependencies
  <2>2. \A q \in pairs : q[1] \in Txns /\ q[2] \in Txns
    OBVIOUS
  <2>3. /\ {p[2] : p \in {q \in pairs : q[1] = u}} \subseteq Txns
        /\ {p[1] : p \in {q \in pairs : q[2] = u}} \subseteq Txns
    BY <2>2
  <2>. QED
    BY <2>3, RecordTypes DEF add_dependencies
<1>2. ssi_begin(s, t) \in [Txns -> SsiRecord]
  BY RecordTypes DEF ssi_begin
<1>3. ASSUME NEW table \in Tables
      PROVE  /\ record_read(s, t, table) \in [Txns -> SsiRecord]
             /\ record_write(s, t, table) \in [Txns -> SsiRecord]
  <2>1. [s EXCEPT ![t].reads = @ \cup {table}] \in [Txns -> SsiRecord]
    BY DEF SsiRecord
  <2>2. [s EXCEPT ![t].writes = @ \cup {table}] \in [Txns -> SsiRecord]
    BY DEF SsiRecord
  <2>3. \A U \in SUBSET Txns : /\ {<<t, u>> : u \in U} \in SUBSET (Txns \X Txns)
                               /\ {<<u, t>> : u \in U} \in SUBSET (Txns \X Txns)
    OBVIOUS
  <2>. QED
    BY <2>1, <2>2, <2>3, <1>1 DEF record_read, record_write, Others
<1>4. ssi_commit(s, t) \in [Txns -> SsiRecord]
  BY RecordTypes DEF ssi_commit
<1>5. \A gone \in SUBSET Txns : remove_transactions(s, gone) \in [Txns -> SsiRecord]
  <2>1. \A u \in Txns, gone \in SUBSET Txns :
           [s[u] EXCEPT !.incoming = @ \ gone, !.outgoing = @ \ gone] \in SsiRecord
    BY RecordTypes
  <2>2. NoSsi \in SsiRecord
    BY RecordTypes
  <2>. QED
    BY <2>1, <2>2 DEF remove_transactions
<1>6. ASSUME NEW saved \in Predicates
      PROVE  ssi_rollback_to(s, t, saved) \in [Txns -> SsiRecord]
  <2>. DEFINE kept == [remove_transactions(s, {t}) EXCEPT
                    ![t] = [s[t] EXCEPT !.reads = saved.reads, !.writes = saved.writes,
                                        !.incoming = {}, !.outgoing = {}]]
  <2>. DEFINE pairs == {<<t, u>> : u \in {v \in Others(kept, t) : saved.reads \cap kept[v].writes # {}}}
          \cup {<<u, t>> : u \in {v \in Others(kept, t) : kept[v].reads \cap saved.writes # {}}}
  <2>1. kept \in [Txns -> SsiRecord]
    <3>1. [s[t] EXCEPT !.reads = saved.reads, !.writes = saved.writes,
                       !.incoming = {}, !.outgoing = {}] \in SsiRecord
      BY RecordTypes
    <3>. QED
      BY <1>5, <3>1
  <2>2. pairs \in SUBSET (Txns \X Txns)
    BY DEF Others
  <2>3. ssi_rollback_to(s, t, saved) = add_dependencies(kept, pairs)
    BY DEF ssi_rollback_to
  <2>. HIDE DEF kept, pairs
  <2>. QED
    BY <1>1, <2>1, <2>2, <2>3
<1>. QED
  BY <1>1, <1>2, <1>3, <1>4, <1>5, <1>6

-----------------------------------------------------------------------------
(***************************************************************************)
(* What a step does to the record of its transaction.                      *)
(***************************************************************************)
\* t's record after a step, in the fields the invariants read; nobody else's changes.
Becomes(t, phase, snapshot, base, working, savepoint) ==
    /\ session'[t].phase = phase
    /\ session'[t].level = session[t].level
    /\ session'[t].snapshot = snapshot
    /\ session'[t].safe <=> session[t].safe \/ phase = "statement"
    /\ session'[t].base = base
    /\ session'[t].working = working
    /\ session'[t].savepoint = savepoint
    /\ \A u \in Txns \ {t} : session'[u] = session[u]

Turns(t, phase) ==
    Becomes(t, phase, session[t].snapshot, session[t].base, session[t].working,
            session[t].savepoint)

SessionsStayTyped ==
    /\ session' \in [Txns -> Transaction]
    /\ \A u \in Txns : session'[u].statements <= setup.statements

\* One record is replaced.
LEMMA RecordChanges ==
    ASSUME Types, NEW t \in Txns, NEW y \in Transaction, y.statements <= setup.statements,
           session' = [session EXCEPT ![t] = y]
    PROVE  SessionsStayTyped /\ session'[t] = y /\ \A u \in Txns \ {t} : session'[u] = session[u]
<1>1. session \in [Txns -> Transaction] /\ \A u \in Txns : session[u].statements <= setup.statements
  BY DEF Types
<1>2. session'[t] = y /\ session' \in [Txns -> Transaction]
      /\ \A u \in Txns \ {t} : session'[u] = session[u]
  BY <1>1
<1>. QED
  BY <1>1, <1>2 DEF SessionsStayTyped

\* A record that changes only in the ways a step may change it.
LEMMA RecordBecomes ==
    ASSUME Types, NEW t \in Txns, NEW y \in Transaction, y.statements <= setup.statements,
           y.level = session[t].level, y.safe <=> session[t].safe \/ y.phase = "statement",
           session' = [session EXCEPT ![t] = y]
    PROVE  /\ SessionsStayTyped
           /\ Becomes(t, y.phase, y.snapshot, y.base, y.working, y.savepoint)
BY RecordChanges DEF Becomes

\* Only the phase.
LEMMA PhaseChanges ==
    ASSUME Types, NEW t \in Txns,
           NEW p \in Phases \ {"statement"},
           session' = [session EXCEPT ![t].phase = p]
    PROVE  /\ SessionsStayTyped
           /\ Becomes(t, p, session[t].snapshot, session[t].base, session[t].working,
                      session[t].savepoint)
<1>. DEFINE x == session[t]
            y == [x EXCEPT !.phase = p]
<1>1. x \in Transaction /\ x.statements <= setup.statements /\ setup.statements \in Nat
  BY SetupAssumption DEF Types
<1>2. /\ y \in Transaction /\ y.statements <= setup.statements /\ y.level = x.level
      /\ y.safe <=> x.safe \/ y.phase = "statement"
      /\ y.phase = p /\ y.snapshot = x.snapshot /\ y.base = x.base
      /\ y.working = x.working /\ y.savepoint = x.savepoint
  BY <1>1 DEF Transaction
<1>3. session' = [session EXCEPT ![t] = y]
  BY DEF Types
<1>. HIDE DEF y
<1>. QED
  BY <1>2, <1>3, RecordBecomes

\* The phase and the locks.
LEMMA PhaseEnds ==
    ASSUME Types, NEW t \in Txns,
           NEW p \in Phases \ {"statement"}, NEW l \in SUBSET (Rows \X Nat),
           session' = [session EXCEPT ![t].phase = p, ![t].locks = l]
    PROVE  /\ SessionsStayTyped
           /\ Becomes(t, p, session[t].snapshot, session[t].base, session[t].working,
                      session[t].savepoint)
<1>. DEFINE x == session[t]
            y == [x EXCEPT !.phase = p, !.locks = l]
<1>1. x \in Transaction /\ x.statements <= setup.statements /\ setup.statements \in Nat
  BY SetupAssumption DEF Types
<1>2. /\ y \in Transaction /\ y.statements <= setup.statements /\ y.level = x.level
      /\ y.safe <=> x.safe \/ y.phase = "statement"
      /\ y.phase = p /\ y.snapshot = x.snapshot /\ y.base = x.base
      /\ y.working = x.working /\ y.savepoint = x.savepoint
  BY <1>1 DEF Transaction
<1>3. session' = [session EXCEPT ![t] = y]
  BY DEF Types
<1>. HIDE DEF y
<1>. QED
  BY <1>2, <1>3, RecordBecomes

\* register and the snapshot of a begin.
LEMMA SnapshotTaken ==
    ASSUME Types, NEW t \in Txns,
           NEW p \in Phases \ {"statement"}, NEW sn \in Snapshots,
           session' = [session EXCEPT ![t].phase = p, ![t].snapshot = sn]
    PROVE  /\ SessionsStayTyped
           /\ Becomes(t, p, sn, session[t].base, session[t].working,
                      session[t].savepoint)
<1>. DEFINE x == session[t]
            y == [x EXCEPT !.phase = p, !.snapshot = sn]
<1>1. x \in Transaction /\ x.statements <= setup.statements /\ setup.statements \in Nat
  BY SetupAssumption DEF Types
<1>2. /\ y \in Transaction /\ y.statements <= setup.statements /\ y.level = x.level
      /\ y.safe <=> x.safe \/ y.phase = "statement"
      /\ y.phase = p /\ y.snapshot = sn /\ y.base = x.base
      /\ y.working = x.working /\ y.savepoint = x.savepoint
  BY <1>1 DEF Transaction
<1>3. session' = [session EXCEPT ![t] = y]
  BY DEF Types
<1>. HIDE DEF y
<1>. QED
  BY <1>2, <1>3, RecordBecomes

\* A statement begins.
LEMMA StatementBegins ==
    ASSUME Types, NEW t \in Txns,
           NEW sn \in Snapshots, session[t].statements < setup.statements,
           session' = [session EXCEPT ![t].phase = "statement", ![t].snapshot = sn,
                                     ![t].safe = TRUE, ![t].statements = @ + 1]
    PROVE  /\ SessionsStayTyped
           /\ Becomes(t, "statement", sn, session[t].base, session[t].working,
                      session[t].savepoint)
<1>. DEFINE x == session[t]
            y == [x EXCEPT !.phase = "statement", !.snapshot = sn,
                           !.safe = TRUE, !.statements = @ + 1]
<1>1. x \in Transaction /\ x.statements <= setup.statements /\ setup.statements \in Nat
  BY SetupAssumption DEF Types
<1>2. x.statements + 1 \in Nat /\ x.statements + 1 <= setup.statements
  BY <1>1 DEF Transaction
<1>3. y \in Transaction
  BY <1>1, <1>2 DEF Transaction, Phases, Active
<1>4. /\ y \in Transaction /\ y.statements <= setup.statements /\ y.level = x.level
      /\ y.safe <=> x.safe \/ y.phase = "statement"
      /\ y.phase = "statement" /\ y.snapshot = sn /\ y.base = x.base
      /\ y.working = x.working /\ y.savepoint = x.savepoint
  BY <1>1, <1>2, <1>3 DEF Transaction
<1>5. session' = [session EXCEPT ![t] = y]
  BY DEF Types
<1>. HIDE DEF y
<1>. QED
  BY <1>4, <1>5, RecordBecomes

\* The end of a SELECT.
LEMMA BaseChanges ==
    ASSUME Types, NEW t \in Txns,
           NEW p \in Phases \ {"statement"}, NEW b \in Chains,
           session' = [session EXCEPT ![t].phase = p, ![t].base = b]
    PROVE  /\ SessionsStayTyped
           /\ Becomes(t, p, session[t].snapshot, b, session[t].working,
                      session[t].savepoint)
<1>. DEFINE x == session[t]
            y == [x EXCEPT !.phase = p, !.base = b]
<1>1. x \in Transaction /\ x.statements <= setup.statements /\ setup.statements \in Nat
  BY SetupAssumption DEF Types
<1>2. /\ y \in Transaction /\ y.statements <= setup.statements /\ y.level = x.level
      /\ y.safe <=> x.safe \/ y.phase = "statement"
      /\ y.phase = p /\ y.snapshot = x.snapshot /\ y.base = b
      /\ y.working = x.working /\ y.savepoint = x.savepoint
  BY <1>1 DEF Transaction
<1>3. session' = [session EXCEPT ![t] = y]
  BY DEF Types
<1>. HIDE DEF y
<1>. QED
  BY <1>2, <1>3, RecordBecomes

\* An UPDATE that goes on to its locks.
LEMMA WriteBegins ==
    ASSUME Types, NEW t \in Txns,
           NEW p \in Phases \ {"statement"}, NEW r \in Rows, NEW b \in Chains,
           session' = [session EXCEPT ![t].phase = p, ![t].want = r, ![t].base = b]
    PROVE  /\ SessionsStayTyped
           /\ Becomes(t, p, session[t].snapshot, b, session[t].working,
                      session[t].savepoint)
<1>. DEFINE x == session[t]
            y == [x EXCEPT !.phase = p, !.want = r, !.base = b]
<1>1. x \in Transaction /\ x.statements <= setup.statements /\ setup.statements \in Nat
  BY SetupAssumption DEF Types
<1>2. /\ y \in Transaction /\ y.statements <= setup.statements /\ y.level = x.level
      /\ y.safe <=> x.safe \/ y.phase = "statement"
      /\ y.phase = p /\ y.snapshot = x.snapshot /\ y.base = b
      /\ y.working = x.working /\ y.savepoint = x.savepoint
  BY <1>1 DEF Transaction
<1>3. session' = [session EXCEPT ![t] = y]
  BY DEF Types
<1>. HIDE DEF y
<1>. QED
  BY <1>2, <1>3, RecordBecomes

\* acquire_dml_locks returned.
LEMMA WriteEnds ==
    ASSUME Types, NEW t \in Txns,
           NEW p \in Phases \ {"statement"}, NEW l \in SUBSET (Rows \X Nat),
           NEW w \in SUBSET RowVersions,
           session' = [session EXCEPT ![t].phase = p, ![t].locks = l, ![t].working = w]
    PROVE  /\ SessionsStayTyped
           /\ Becomes(t, p, session[t].snapshot, session[t].base, w,
                      session[t].savepoint)
<1>. DEFINE x == session[t]
            y == [x EXCEPT !.phase = p, !.locks = l, !.working = w]
<1>1. x \in Transaction /\ x.statements <= setup.statements /\ setup.statements \in Nat
  BY SetupAssumption DEF Types
<1>2. /\ y \in Transaction /\ y.statements <= setup.statements /\ y.level = x.level
      /\ y.safe <=> x.safe \/ y.phase = "statement"
      /\ y.phase = p /\ y.snapshot = x.snapshot /\ y.base = x.base
      /\ y.working = w /\ y.savepoint = x.savepoint
  BY <1>1 DEF Transaction
<1>3. session' = [session EXCEPT ![t] = y]
  BY DEF Types
<1>. HIDE DEF y
<1>. QED
  BY <1>2, <1>3, RecordBecomes

\* SAVEPOINT.
LEMMA SavepointTaken ==
    ASSUME Types, NEW t \in Txns,
           NEW sv \in Savepoint, session[t].phase # "statement",
           session' = [session EXCEPT ![t].savepoint = sv]
    PROVE  /\ SessionsStayTyped
           /\ Becomes(t, session[t].phase, session[t].snapshot, session[t].base, session[t].working,
                      sv)
<1>. DEFINE x == session[t]
            y == [x EXCEPT !.savepoint = sv]
<1>1. x \in Transaction /\ x.statements <= setup.statements /\ setup.statements \in Nat
  BY SetupAssumption DEF Types
<1>2. /\ y \in Transaction /\ y.statements <= setup.statements /\ y.level = x.level
      /\ y.safe <=> x.safe \/ y.phase = "statement"
      /\ y.phase = x.phase /\ y.snapshot = x.snapshot /\ y.base = x.base
      /\ y.working = x.working /\ y.savepoint = sv
  BY <1>1 DEF Transaction
<1>3. session' = [session EXCEPT ![t] = y]
  BY DEF Types
<1>. HIDE DEF y
<1>. QED
  BY <1>2, <1>3, RecordBecomes

\* ROLLBACK TO.
LEMMA SavepointRestored ==
    ASSUME Types, NEW t \in Txns,
           NEW p \in Phases \ {"statement"}, NEW b \in Chains,
           NEW w \in SUBSET RowVersions, NEW l \in SUBSET (Rows \X Nat),
           session' = [session EXCEPT ![t].phase = p, ![t].base = b,
                                     ![t].working = w, ![t].locks = l]
    PROVE  /\ SessionsStayTyped
           /\ Becomes(t, p, session[t].snapshot, b, w,
                      session[t].savepoint)
<1>. DEFINE x == session[t]
            y == [x EXCEPT !.phase = p, !.base = b, !.working = w, !.locks = l]
<1>1. x \in Transaction /\ x.statements <= setup.statements /\ setup.statements \in Nat
  BY SetupAssumption DEF Types
<1>2. /\ y \in Transaction /\ y.statements <= setup.statements /\ y.level = x.level
      /\ y.safe <=> x.safe \/ y.phase = "statement"
      /\ y.phase = p /\ y.snapshot = x.snapshot /\ y.base = b
      /\ y.working = w /\ y.savepoint = x.savepoint
  BY <1>1 DEF Transaction
<1>3. session' = [session EXCEPT ![t] = y]
  BY DEF Types
<1>. HIDE DEF y
<1>. QED
  BY <1>2, <1>3, RecordBecomes

\* ssi_abort, and ssi_commit followed by cleanup_before, keep the SSI records typed.
LEMMA AbortTypes ==
    ASSUME Types, NEW t \in Txns
    PROVE  /\ ssi_abort(ssi, t) \in [Txns -> SsiRecord]
       /\ \A h : cleanup_before(ssi_commit(ssi, t), h) \in [Txns -> SsiRecord]
<1>1. ssi \in [Txns -> SsiRecord] /\ {t} \in SUBSET Txns
  BY DEF Types
<1>2. ssi_commit(ssi, t) \in [Txns -> SsiRecord]
  BY <1>1, SsiTypes
<1>3. \A h : {u \in Txns : /\ ssi_commit(ssi,t)[u].live /\ ssi_commit(ssi,t)[u].committed
                                         /\ u < h
                                         /\ session[u].snapshot.xmax < h} \in SUBSET Txns
  OBVIOUS
<1>4. \A h : cleanup_before(ssi_commit(ssi, t), h) \in [Txns -> SsiRecord]
  BY <1>2, <1>3, SsiTypes DEF cleanup_before
<1>5. ssi_abort(ssi, t) \in [Txns -> SsiRecord]
  BY <1>1, SsiTypes DEF ssi_abort
<1>. QED
  BY <1>4, <1>5

\* Publication appends to chains and nothing else.
LEMMA PublishType ==
    ASSUME Types, NEW t \in Txns
    PROVE  [r \in Rows |-> IF r \in OwnRows(t) THEN Append(versions[r], t) ELSE versions[r]] \in Chains
<1>1. \A r \in Rows : versions[r] \in Seq(Creators) \ {<< >>} /\ t \in Creators
  BY DEF Types, Chains, Creators
<1>2. \A r \in Rows : Append(versions[r], t) \in Seq(Creators) \ {<< >>}
  BY <1>1
<1>. QED
  BY <1>1, <1>2 DEF Chains

\* From here to RegisterDoes: what each action of Isolation does to its transaction.
LEMMA RaiseDoes ==
    ASSUME Types, NEW t \in Txns, raise_high_water(t)
    PROVE  Types' /\ Turns(t, "raised")
<1>1. SessionsStayTyped /\ Turns(t, "raised")
BY PhaseChanges DEF  Phases,  Unbegun, Turns, raise_high_water
<1>2. next_transaction_id' \in 1..N+1
BY TxnsAreNaturals DEF raise_high_water, Txns, Types
<1>. QED
  BY <1>1, <1>2 DEF Types, SessionsStayTyped, raise_high_water

\* ROLLBACK.
LEMMA RollbackDoes ==
    ASSUME Types, NEW t \in Txns, rollback_sql_transaction(t)
    PROVE  Types' /\ Turns(t, "aborted")
<1>1. SessionsStayTyped /\ Turns(t, "aborted")
  <2>1. {} \in SUBSET (Rows \X Nat) /\ "aborted" \in Phases \ {"statement"}
    BY DEF Phases, Ended
  <2>2. session' = [session EXCEPT ![t].phase = "aborted", ![t].locks = {}]
    BY DEF rollback_sql_transaction, Drop
  <2>. QED
    BY <2>1, <2>2, PhaseEnds DEF Turns
<1>2. ssi' \in [Txns -> SsiRecord]
  BY AbortTypes DEF rollback_sql_transaction, Drop
<1>. QED
  BY <1>1, <1>2 DEF Types, SessionsStayTyped, rollback_sql_transaction

\* validate_commit: refused or validated.
LEMMA ValidateDoes ==
    ASSUME Types, NEW t \in Txns, validate_commit(t)
    PROVE  Types' /\ (Turns(t, "aborted") \/ Turns(t, "validated"))
<1>1. SessionsStayTyped /\ (Turns(t, "aborted") \/ Turns(t, "validated"))
  BY PhaseEnds, PhaseChanges DEF Phases, Ended, Active, Turns, validate_commit, Drop
<1>2. ssi' \in [Txns -> SsiRecord]
  BY AbortTypes DEF Types, validate_commit, Drop
<1>. QED
  BY <1>1, <1>2 DEF Types, SessionsStayTyped, validate_commit

\* The merge: refused or marked.
LEMMA MergeDoes ==
    ASSUME Types, NEW t \in Txns, merge_candidate(t)
    PROVE  Types' /\ (Turns(t, "aborted") \/ Turns(t, "marked"))
<1>1. SessionsStayTyped /\ (Turns(t, "aborted") \/ Turns(t, "marked"))
  BY PhaseEnds, PhaseChanges DEF Phases, Ended, Active, Turns, merge_candidate, Drop
<1>2. ssi' \in [Txns -> SsiRecord]
  BY AbortTypes DEF Types, merge_candidate, Drop
<1>. QED
  BY <1>1, <1>2 DEF Types, SessionsStayTyped, merge_candidate

\* Publication.
LEMMA PublishDoes ==
    ASSUME Types, NEW t \in Txns, publish(t)
    PROVE  Types' /\ Turns(t, "committed")
<1>1. SessionsStayTyped /\ Turns(t, "committed")
  <2>1. {} \in SUBSET (Rows \X Nat) /\ "committed" \in Phases \ {"statement"}
    BY DEF Phases, Ended
  <2>2. session' = [session EXCEPT ![t].phase = "committed", ![t].locks = {}]
    BY DEF publish
  <2>. QED
    BY <2>1, <2>2, PhaseEnds DEF Turns
<1>2. versions' \in Chains
  BY PublishType DEF publish
<1>. QED
  BY <1>1, <1>2 DEF Types, SessionsStayTyped, publish

\* SAVEPOINT saves what ROLLBACK TO will restore.
LEMMA SavepointDoes ==
    ASSUME Types, NEW t \in Txns, create_sql_savepoint(t)
    PROVE  /\ Types'
           /\ \E sv \in Savepoint :
                 /\ sv.base = session[t].base /\ sv.working = session[t].working
                 /\ sv.predicates.reads = ssi[t].reads
                 /\ Becomes(t, "idle", session[t].snapshot, session[t].base, session[t].working, sv)
<1>. DEFINE sv == [taken |-> TRUE, base |-> session[t].base,
                      working |-> session[t].working, locks |-> session[t].locks,
                      predicates |-> ssi_savepoint(ssi, t)]
<1>1. ssi_savepoint(ssi, t) \in Predicates /\ ssi_savepoint(ssi, t).reads = ssi[t].reads
  BY DEF Types, ssi_savepoint, SsiRecord, Predicates
<1>2. /\ sv \in Savepoint /\ sv.base = session[t].base /\ sv.working = session[t].working
      /\ sv.predicates.reads = ssi[t].reads
  BY <1>1 DEF Types, Transaction, Savepoint
<1>3. session' = [session EXCEPT ![t].savepoint = sv] /\ session[t].phase = "idle"
  BY DEF create_sql_savepoint, Phase
<1>. HIDE DEF sv
<1>4. SessionsStayTyped /\ Becomes(t, "idle", session[t].snapshot, session[t].base,
                                   session[t].working, sv)
  BY <1>2, <1>3, SavepointTaken
<1>. QED
  BY <1>2, <1>4 DEF Types, SessionsStayTyped, create_sql_savepoint

\* ROLLBACK TO restores it.
LEMMA RollbackToDoes ==
    ASSUME Types, NEW t \in Txns, rollback_to_sql_savepoint(t)
    PROVE  Types' /\ Becomes(t, "idle", session[t].snapshot, session[t].savepoint.base,
                             session[t].savepoint.working, session[t].savepoint)
<1>. DEFINE saved == session[t].savepoint
<1>1. /\ saved.base \in Chains /\ saved.working \in SUBSET RowVersions
      /\ saved.locks \in SUBSET (Rows \X Nat) /\ saved.predicates \in Predicates
  BY DEF Types, Transaction, Savepoint
<1>2. session' = [session EXCEPT ![t].phase = "idle", ![t].base = saved.base,
                                     ![t].working = saved.working, ![t].locks = saved.locks]
  BY DEF rollback_to_sql_savepoint
<1>3. ssi' \in [Txns -> SsiRecord]
  BY <1>1, SsiTypes DEF Types, rollback_to_sql_savepoint
<1>. HIDE DEF saved
<1>4. SessionsStayTyped /\ Becomes(t, "idle", session[t].snapshot, saved.base, saved.working,
                                   session[t].savepoint)
  BY <1>1, <1>2, SavepointRestored DEF Phases, Active
<1>. QED
  BY <1>3, <1>4 DEF Types, SessionsStayTyped, rollback_to_sql_savepoint, saved

\* A statement records what it saw.
LEMMA ObserveType ==
    ASSUME Types, NEW t \in Txns, NEW rows, rows \subseteq Rows, Observe(t, rows)
    PROVE  seen' \in [Txns -> SUBSET RowVersions] /\ \A u \in Txns \ {t} : seen'[u] = seen[u]
<1>1. \A r \in Rows : View(t, r) \subseteq Creators
  <2>1. \A chain \in Seq(Creators) : tuple_visible(t, chain) \subseteq Creators
    BY DEF tuple_visible
  <2>2. \A r \in Rows : versions[r] \in Seq(Creators) /\ session[t].base[r] \in Seq(Creators)
    BY DEF Types, Chains, Transaction
  <2>3. ASSUME NEW r \in Rows, Rebases(t)
   PROVE versions[r][Len(versions[r])] \in Creators
    BY DEF Types, Chains
  <2>. QED
    BY <2>1, <2>2, <2>3 DEF View
<1>2. UNION {{<<r, w>> : w \in View(t, r)} : r \in rows \ OwnRows(t)} \in SUBSET RowVersions
  BY <1>1 DEF RowVersions, Creators
<1>. QED
  BY <1>2 DEF Types, Observe

\* SELECT.
LEMMA SelectDoes ==
    ASSUME Types, NEW t \in Txns, NEW table \in Tables, select(t, table)
    PROVE  Types' /\ Becomes(t, "idle", session[t].snapshot, Base(t), session[t].working,
                             session[t].savepoint)
<1>1. Base(t) \in Chains
  BY DEF Types, Transaction, Base
<1>2. SessionsStayTyped /\ Becomes(t, "idle", session[t].snapshot, Base(t), session[t].working,
                                   session[t].savepoint)
  BY <1>1, BaseChanges DEF Phases, Active, select
<1>3. ssi' \in [Txns -> SsiRecord]
  BY SsiTypes DEF Types, select
<1>4. seen' \in [Txns -> SUBSET RowVersions]
  BY ObserveType DEF select, RowsOf
<1>. QED
  BY <1>2, <1>3, <1>4 DEF Types, SessionsStayTyped, select

\* UPDATE before its locks: it fails, or it waits and its row has a fresh base.
LEMMA UpdateDoes ==
    ASSUME Types, NEW t \in Txns, NEW r \in Rows, NEW kind \in Kinds, update(t, r, kind)
    PROVE  /\ Types'
           /\ LET base == IF session[t].working = {} THEN versions ELSE Base(t) IN
              \/ \E b \in {base, session[t].base} :
                    Becomes(t, "failed", session[t].snapshot, b, session[t].working,
                            session[t].savepoint)
              \/ /\ Becomes(t, "waiting", session[t].snapshot, base, session[t].working,
                            session[t].savepoint)
                 /\ session[t].level # "Deferrable" /\ ~Superseded(t, r) /\ session'[t].want = r
<1>. DEFINE base == IF session[t].working = {} THEN versions ELSE Base(t)
<1>1. base \in Chains /\ session[t].base \in Chains
  BY DEF Types, Transaction, Base
<1>. DEFINE Goal ==
              \/ \E b \in {base, session[t].base} :
                    Becomes(t, "failed", session[t].snapshot, b, session[t].working,
                            session[t].savepoint)
              \/ /\ Becomes(t, "waiting", session[t].snapshot, base, session[t].working,
                            session[t].savepoint)
                 /\ session[t].level # "Deferrable" /\ ~Superseded(t, r) /\ session'[t].want = r
<1>2. SessionsStayTyped /\ Goal
  <2>1. CASE session[t].level = "Deferrable" \/ Superseded(t, r)
    <3>1. PICK b \in {base, session[t].base} :
               session' = [session EXCEPT ![t].phase = "failed", ![t].base = b]
      <4>1. CASE session[t].working = {}
        <5>1. session' = [session EXCEPT ![t].phase = "failed", ![t].base = session[t].base]
          BY <2>1, <4>1 DEF update, Types
        <5>. QED
          BY <5>1
      <4>2. CASE session[t].working # {}
        <5>1. session' = [session EXCEPT ![t].phase = "failed", ![t].base = base]
          BY <2>1, <4>2 DEF update, Types
        <5>. QED
          BY <5>1
      <4>. QED
        BY <4>1, <4>2
    <3>2. b \in Chains /\ "failed" \in Phases \ {"statement"}
      BY <1>1 DEF Phases, Active
    <3>. HIDE DEF base
    <3>3. SessionsStayTyped /\ Becomes(t, "failed", session[t].snapshot, b, session[t].working,
                                       session[t].savepoint)
      BY <3>1, <3>2, BaseChanges
    <3>. QED
      BY <3>3
  <2>2. CASE ~(session[t].level = "Deferrable" \/ Superseded(t, r))
    <3>1. session' = [session EXCEPT ![t].phase = "waiting", ![t].want = r, ![t].base = base]
      BY <2>2 DEF update
    <3>2. "waiting" \in Phases \ {"statement"}
      BY DEF Phases, Active
    <3>3. session'[t].want = r
      BY <3>1 DEF Types, Transaction
    <3>. HIDE DEF base
    <3>4. SessionsStayTyped /\ Becomes(t, "waiting", session[t].snapshot, base,
                                       session[t].working, session[t].savepoint)
      BY <1>1, <3>1, <3>2, WriteBegins
    <3>. QED
      BY <3>4, <3>3, <2>2
  <2>. QED
    BY <2>1, <2>2
<1>4. seen' \in [Txns -> SUBSET RowVersions]
  BY ObserveType DEF update, RowsOf
<1>. HIDE DEF Goal
<1>5. Types'
  BY <1>2, <1>4 DEF Types, SessionsStayTyped, update
<1>. QED
  BY <1>2, <1>5 DEF Goal

\* UPDATE after its locks: the row joins the working set on the version of its base.
LEMMA WriteDoes ==
    ASSUME Types, NEW t \in Txns, locks_acquired(t)
    PROVE  /\ Types'
           /\ \/ Turns(t, "idle") /\ session[t].want \in OwnRows(t)
              \/ /\ session[t].want \notin OwnRows(t) /\ session[t].want \in Rows
                 /\ Becomes(t, "idle", session[t].snapshot, session[t].base,
                            session[t].working
                                \cup {<<session[t].want,
                                        session[t].base[session[t].want]
                                            [Len(session[t].base[session[t].want])]>>},
                            session[t].savepoint)
<1>. DEFINE r == session[t].want
            w == session[t].working \cup {<<r, session[t].base[r][Len(session[t].base[r])]>>}
            l == session[t].locks \cup {RowKey(t)}
<1>1. session[t] \in Transaction /\ r \in Rows /\ session[t].base[r] \in Seq(Creators) \ {<< >>}
      /\ session[t].working \in SUBSET RowVersions /\ session[t].locks \in SUBSET (Rows \X Nat)
  BY DEF Types, Transaction, Chains
<1>2. session[t].base[r][Len(session[t].base[r])] \in Creators /\ Len(session[t].base[r]) \in Nat
  BY <1>1
<1>3. w \in SUBSET RowVersions /\ l \in SUBSET (Rows \X Nat)
  BY <1>1, <1>2 DEF RowVersions, Creators, RowKey
<1>4. CASE r \in OwnRows(t)
  <2>1. SessionsStayTyped /\ Turns(t, "idle")
    BY <1>4, PhaseChanges DEF locks_acquired, Phases, Active, Turns
  <2>. QED
    BY <2>1, <1>1, <1>4, SsiTypes, SetupAssumption DEF Types, SessionsStayTyped, locks_acquired
<1>5. CASE r \notin OwnRows(t)
  <2>1. session' = [session EXCEPT ![t].phase = "idle", ![t].locks = l, ![t].working = w]
    BY <1>5 DEF locks_acquired, Types
  <2>2. "idle" \in Phases \ {"statement"}
    BY DEF Phases, Active
  <2>. HIDE DEF l, w
  <2>3. SessionsStayTyped /\ Becomes(t, "idle", session[t].snapshot, session[t].base, w,
                                     session[t].savepoint)
    BY <2>1, <2>2, <1>3, WriteEnds
  <2>4. setup.table_of[r] \in Tables
    BY SetupAssumption, <1>1 DEF Types
  <2>5. ssi' \in [Txns -> SsiRecord]
    BY SsiTypes, <2>4 DEF Types, locks_acquired
  <2>6. Types'
     BY <2>3, <2>5 DEF Types, SessionsStayTyped, locks_acquired
  <2>. QED
    BY <2>6, <2>3, <1>5, <1>1 DEF w
<1>. QED
  BY <1>4, <1>5
\* begin_durable: the record is new except for its level and phase.
Opens(t) ==
    /\ session'[t].phase = "allocated"
    /\ session'[t].level \in setup.levels[t]
    /\ session'[t].snapshot = session[t].snapshot
    /\ session'[t].safe <=> session[t].safe
    /\ session'[t].base = session[t].base
    /\ session'[t].working = session[t].working
    /\ session'[t].savepoint = session[t].savepoint
    /\ \A u \in Txns \ {t} : session'[u] = session[u]

\* begin_durable.
LEMMA BeginDoes ==
    ASSUME Types, NEW t \in Txns, begin_durable(t)
    PROVE  Types' /\ Opens(t)
<1>1. PICK level \in setup.levels[t] :
           session' = [session EXCEPT ![t].phase = "allocated", ![t].level = level]
  BY DEF begin_durable
<1>2. level \in Levels /\ "allocated" \in Phases
  BY SetupAssumption DEF Types, Phases, Unbegun
<1>. DEFINE y == [session[t] EXCEPT !.phase = "allocated", !.level = level]
<1>3. session[t] \in Transaction /\ session[t].statements <= setup.statements
  BY DEF Types
<1>4. y \in Transaction /\ y.statements <= setup.statements
  BY <1>2, <1>3 DEF Transaction
<1>5. session' = [session EXCEPT ![t] = y]
  BY <1>1, <1>3 DEF Types
<1>6. /\ y.phase = "allocated" /\ y.level = level /\ y.snapshot = session[t].snapshot
      /\ y.safe = session[t].safe /\ y.base = session[t].base /\ y.working = session[t].working
      /\ y.savepoint = session[t].savepoint
  BY <1>3 DEF Transaction
<1>. HIDE DEF y
<1>7. SessionsStayTyped /\ session'[t] = y /\ \A u \in Txns \ {t} : session'[u] = session[u]
  BY <1>4, <1>5, RecordChanges
<1>8. Types'
  BY <1>7, TxnsAreNaturals DEF Types, SessionsStayTyped, begin_durable, Txns
<1>. QED
  BY <1>6, <1>7, <1>8 DEF Opens

\* begin_statement: only Read Committed takes a new snapshot.
LEMMA StatementDoes ==
    ASSUME Types, NEW t \in Txns, begin_statement(t)
    PROVE  Types' /\ \E sn \in {session[t].snapshot, snapshot_locked(t)} :
                        /\ Becomes(t, "statement", sn, session[t].base, session[t].working,
                                   session[t].savepoint)
                        /\ session[t].level # "ReadCommitted" => sn = session[t].snapshot
BY StatementBegins, SnapshotType DEF Types, SessionsStayTyped, Phases, Active, Unbegun, Ended,
   Turns, begin_statement, Enter, MayStart, Transaction

\* A deferrable transaction gets its safe snapshot.
LEMMA SafeDoes ==
    ASSUME Types, NEW t \in Txns, wait_for_safe_snapshot(t)
    PROVE  Types' /\ Becomes(t, "statement", snapshot_locked(t), session[t].base,
                             session[t].working, session[t].savepoint)
BY StatementBegins, SnapshotType DEF Types, SessionsStayTyped, Phases, Active, Unbegun, Ended,
   Turns, wait_for_safe_snapshot, Enter, MayStart

\* Waiting for a safe snapshot fails.
LEMMA CancelDoes ==
    ASSUME Types, NEW t \in Txns, cancel_safe_snapshot(t)
    PROVE  Types' /\ Turns(t, "failed")
BY PhaseChanges DEF Types, SessionsStayTyped, Phases, Active, Unbegun, Ended, Turns,
   cancel_safe_snapshot, Fail

\* The refresh fails.
LEMMA ConflictDoes ==
    ASSUME Types, NEW t \in Txns, refresh_conflict(t)
    PROVE  Types' /\ Turns(t, "failed")
BY PhaseChanges DEF Types, SessionsStayTyped, Phases, Active, Unbegun, Ended, Turns,
   refresh_conflict, Fail

\* A lock is refused.
LEMMA RefusedDoes ==
    ASSUME Types, NEW t \in Txns, lock_refused(t)
    PROVE  Types' /\ Turns(t, "failed")
BY PhaseChanges DEF Types, SessionsStayTyped, Phases, Active, Unbegun, Ended, Turns,
   lock_refused, Fail

\* finish_commit.
LEMMA FinishDoes ==
    ASSUME Types, NEW t \in Txns, finish_commit(t)
    PROVE  Types' /\ Turns(t, "completed")
BY PhaseChanges DEF Types, SessionsStayTyped, Phases, Active, Unbegun, Ended, Turns, finish_commit

\* COMMIT of a transaction that wrote nothing.
LEMMA EmptyDoes ==
    ASSUME Types, NEW t \in Txns, commit_empty(t)
    PROVE  Types' /\ Turns(t, "committed")
BY PhaseEnds DEF Types, SessionsStayTyped, Phases, Active, Unbegun, Ended, Turns, commit_empty

\* register: the transaction becomes active with a snapshot of now, or ends.
LEMMA RegisterDoes ==
    ASSUME Types, NEW t \in Txns, register(t)
    PROVE  /\ Types'
           /\ \/ Turns(t, "aborted")
              \/ Becomes(t, "idle", snapshot_locked(t), session[t].base, session[t].working,
                         session[t].savepoint)
<1>1. /\ "aborted" \in Phases \ {"statement"} /\ "idle" \in Phases \ {"statement"}
      /\ snapshot_locked(t) \in Snapshots
  BY SnapshotType DEF Phases, Active, Ended
<1>2. ssi' \in [Txns -> SsiRecord]
  BY SsiTypes DEF Types, register
<1>3. CASE UsesSsi(t) /\ ssi_full(ssi)
  <2>1. SessionsStayTyped /\ Turns(t, "aborted")
    BY <1>1, <1>3, PhaseChanges DEF Turns, register
  <2>. QED
    BY <2>1, <1>2 DEF Types, SessionsStayTyped, register
<1>4. CASE ~(UsesSsi(t) /\ ssi_full(ssi))
  <2>1. session' = [session EXCEPT ![t].phase = "idle", ![t].snapshot = snapshot_locked(t)]
    BY <1>4 DEF register
  <2>2. /\ SessionsStayTyped
        /\ Becomes(t, "idle", snapshot_locked(t), session[t].base, session[t].working,
                   session[t].savepoint)
    BY <1>1, <2>1, SnapshotTaken
  <2>. QED
    BY <2>2, <1>2 DEF Types, SessionsStayTyped, register
<1>. QED
  BY <1>3, <1>4

-----------------------------------------------------------------------------
(***************************************************************************)
(* Ids and snapshots: an id is below the high-water mark once its          *)
(* transaction is registered, and a snapshot's xmin is below everything    *)
(* that was running.                                                       *)
(***************************************************************************)
SnapshotIsSound(snapshot, high) ==
    /\ snapshot.xmin <= snapshot.xmax
    /\ snapshot.xmax <= high
    /\ \A u \in snapshot.in_progress : snapshot.xmin <= u

IdsInv ==
    /\ next_transaction_id <= allocated + 1
    /\ \A t \in Txns :
          /\ Phase(t) = "none" <=> t > allocated
          /\ Phase(t) \notin {"none", "allocated"} => t < next_transaction_id
          /\ Phase(t) \in Unbegun => session[t].snapshot = NoSnapshot
          /\ SnapshotIsSound(session[t].snapshot, next_transaction_id)

IdMoves(t) ==
    \/ /\ t = allocated + 1 /\ allocated' = t
       /\ next_transaction_id' = next_transaction_id
       /\ session'[t].phase = "allocated" /\ session'[t].snapshot = session[t].snapshot
    \/ /\ Phase(t) = "allocated" /\ allocated' = allocated
       /\ next_transaction_id' = IF t + 1 > next_transaction_id THEN t + 1
                                 ELSE next_transaction_id
       /\ session'[t].phase = "raised" /\ session'[t].snapshot = session[t].snapshot
    \/ /\ Phase(t) \notin {"none", "allocated"} /\ allocated' = allocated
       /\ next_transaction_id' = next_transaction_id
       /\ session'[t].phase \in Phases \ Unbegun
       /\ session'[t].snapshot \in {session[t].snapshot, snapshot_locked(t)}

OthersStay(t) == \A u \in Txns \ {t} : session'[u] = session[u]

\* Every move of an identifier keeps IdsInv.
LEMMA IdsStep ==
    ASSUME Types, IdsInv, Types', NEW t \in Txns, IdMoves(t), OthersStay(t)
    PROVE  IdsInv'
<1>1. /\ allocated \in Nat /\ next_transaction_id \in Nat /\ t \in Nat /\ Txns \subseteq Nat
      /\ allocated' \in Nat /\ next_transaction_id' \in Nat
  BY TxnsAreNaturals DEF Types
<1>2. next_transaction_id <= next_transaction_id'
  BY <1>1 DEF IdMoves
<1>3. \A u \in Txns : /\ session[u].snapshot.xmin \in Nat /\ session[u].snapshot.xmax \in Nat
                      /\ session[u].snapshot.in_progress \subseteq Txns
  BY <1>1 DEF Types, Transaction, Snapshots
<1>4. next_transaction_id' <= allocated' + 1
  <2>1. next_transaction_id <= allocated + 1 /\ (Phase(t) = "allocated" => t <= allocated)
    BY <1>1 DEF IdsInv
  <2>2. \/ allocated' = allocated + 1 /\ next_transaction_id' = next_transaction_id
        \/ t <= allocated /\ allocated' = allocated /\ next_transaction_id' = t + 1
        \/ allocated' = allocated /\ next_transaction_id' = next_transaction_id
    BY <2>1 DEF IdMoves
  <2>3. CASE allocated' = allocated + 1 /\ next_transaction_id' = next_transaction_id
    BY <2>1, <2>3, <1>1
  <2>4. CASE t <= allocated /\ allocated' = allocated /\ next_transaction_id' = t + 1
    BY <2>4, <1>1
  <2>5. CASE allocated' = allocated /\ next_transaction_id' = next_transaction_id
    BY <2>1, <2>5, <1>1
  <2>. QED
    BY <2>2, <2>3, <2>4, <2>5
<1>5. SnapshotIsSound(session'[t].snapshot, next_transaction_id')
  <2>1. CASE session'[t].snapshot = session[t].snapshot
    BY <2>1, <1>1, <1>2, <1>3 DEF IdsInv, SnapshotIsSound
  <2>2. CASE session'[t].snapshot # session[t].snapshot
    <3>1. /\ Phase(t) \notin {"none", "allocated"} /\ next_transaction_id' = next_transaction_id
          /\ session'[t].snapshot = snapshot_locked(t)
      BY <2>2 DEF IdMoves
    <3>2. \A u \in ActiveSet \cup {t} : u \in Txns /\ u < next_transaction_id
      BY <3>1 DEF IdsInv, ActiveSet, Active
    <3>3. /\ snapshot_locked(t).xmax = next_transaction_id
          /\ snapshot_locked(t).in_progress = ActiveSet \ {t}
          /\ \A u \in ActiveSet \ {t} : snapshot_locked(t).xmin <= u
          /\ snapshot_locked(t).xmin \in ActiveSet \cup {t}
      BY SnapshotType
    <3>4. snapshot_locked(t).xmin <= next_transaction_id
      <4>1. PICK u \in ActiveSet \cup {t} : snapshot_locked(t).xmin = u
        BY <3>3
      <4>2. u \in Nat /\ u < next_transaction_id
        BY <4>1, <3>2, <1>1
      <4>3. u <= next_transaction_id
        BY <4>2, <1>1
      <4>. QED
        BY <4>1, <4>3
    <3>5. \A u \in snapshot_locked(t).in_progress : snapshot_locked(t).xmin <= u
      BY <3>3
    <3>. QED
      BY <3>1, <3>3, <3>4, <3>5, <1>1 DEF SnapshotIsSound
  <2>. QED
    BY <2>1, <2>2
<1>6. \A u \in Txns : SnapshotIsSound(session'[u].snapshot, next_transaction_id')
  <2>1. ASSUME NEW u \in Txns \ {t} PROVE SnapshotIsSound(session'[u].snapshot, next_transaction_id')
    <3>1. session'[u] = session[u] /\ SnapshotIsSound(session[u].snapshot, next_transaction_id)
      BY DEF OthersStay, IdsInv
    <3>. QED
      BY <3>1, <1>1, <1>2, <1>3 DEF SnapshotIsSound
  <2>. QED
    BY <2>1, <1>5
<1>7. ASSUME NEW u \in Txns
      PROVE  /\ session'[u].phase = "none" <=> u > allocated'
             /\ session'[u].phase \notin {"none", "allocated"} => u < next_transaction_id'
             /\ session'[u].phase \in Unbegun => session'[u].snapshot = NoSnapshot
  <2>1. CASE u = t
    BY <2>1, <1>1 DEF IdsInv, IdMoves, Phase, Unbegun
  <2>2. CASE u # t
    <3>0. allocated' = allocated \/ (t = allocated + 1 /\ allocated' = t)
      BY DEF IdMoves
    <3>1. session'[u] = session[u]
      BY <2>2 DEF OthersStay
    <3>2. /\ session[u].phase = "none" <=> u > allocated
          /\ session[u].phase \notin {"none", "allocated"} => u < next_transaction_id
          /\ session[u].phase \in Unbegun => session[u].snapshot = NoSnapshot
      BY DEF IdsInv, Phase
    <3>3. u \in Nat /\ (u > allocated <=> u > allocated')
      BY <3>0, <2>2, <1>1
    <3>. QED
      BY <3>1, <3>2, <3>3, <1>1, <1>2
  <2>. QED
    BY <2>1, <2>2
<1>. QED
  BY <1>4, <1>6, <1>7 DEF IdsInv, Phase

-----------------------------------------------------------------------------
(***************************************************************************)
(* Chains: what is published only grows, at its end, by the one transaction*)
(* that holds the write lock; a base is an earlier published state, and a  *)
(* write remembers the last version its base had.                          *)
(***************************************************************************)
Newest(chain) == chain[Len(chain)]

Extends(chain, longer) ==
    Len(chain) <= Len(longer) /\ \A i \in 1..Len(chain) : chain[i] = longer[i]

Locks == {"marked", "completed"}

Started == \A r \in Rows : versions[r][1] = Frozen

CreatorsCommitted ==
    \A r \in Rows : \A i \in 1..Len(versions[r]) :
        versions[r][i] = Frozen
        \/ (versions[r][i] \in Txns /\ Phase(versions[r][i]) = "committed")

CreatorsDiffer ==
    \A r \in Rows : \A i, j \in 1..Len(versions[r]) : versions[r][i] = versions[r][j] => i = j

OneWriter == \A t, u \in Txns : Phase(t) \in Locks /\ Phase(u) \in Locks => t = u

Published(base) == \A r \in Rows : Extends(base[r], versions[r])

BasesWerePublished ==
    \A t \in Txns : Published(session[t].base) /\ Published(session[t].savepoint.base)

Supersedes(working, base) == \A w \in working : w[2] = Newest(base[w[1]])

WorkIsOnBase ==
    \A t \in Txns : Phase(t) \notin Ended =>
        /\ Supersedes(session[t].working, session[t].base)
        /\ Supersedes(session[t].savepoint.working, session[t].savepoint.base)

Unchallenged(working, base) ==
    \A w \in working : Len(versions[w[1]]) = Len(base[w[1]])

MergedIsLatest ==
    \A t \in Txns : Phase(t) \in Locks => Unchallenged(session[t].working, session[t].base)

ChainsInv ==
    /\ Started
    /\ CreatorsCommitted
    /\ CreatorsDiffer
    /\ OneWriter
    /\ BasesWerePublished
    /\ WorkIsOnBase
    /\ MergedIsLatest
    /\ NoLostUpdate

Holds(t, phase, base, working, savepoint) ==
    /\ session'[t].phase = phase
    /\ session'[t].base = base
    /\ session'[t].working = working
    /\ session'[t].savepoint = savepoint
    /\ \A u \in Txns \ {t} : session'[u] = session[u]

\* The bookkeeping of t's work: begin, statements, savepoints, everything but the commit.
Works(t) ==
    /\ Phase(t) \notin Ended \cup Locks
    /\ versions' = versions
    /\ \E phase \in Phases \ (Locks \cup {"committed"}) :
          LET x == session[t] IN
          \/ Holds(t, phase, x.base, x.working, x.savepoint)
          \/ /\ x.working = {} \/ ~MergeConflict(t)
             /\ Holds(t, phase, versions, x.working, x.savepoint)
          \/ \E r \in Rows :
                Holds(t, phase, x.base, x.working \cup {<<r, Newest(x.base[r])>>}, x.savepoint)
          \/ \E savepoint \in Savepoint :
                /\ savepoint.base = x.base /\ savepoint.working = x.working
                /\ Holds(t, phase, x.base, x.working, savepoint)
          \/ Holds(t, phase, x.savepoint.base, x.savepoint.working, x.savepoint)

Keeps(t, phase) ==
    Holds(t, phase, session[t].base, session[t].working, session[t].savepoint)

\* The steps of a commit.
Commits(t) ==
    \/ /\ Phase(t) = "validated" /\ ~StateLocked /\ ~MergeConflict(t)
       /\ Keeps(t, "marked") /\ versions' = versions
    \/ /\ Phase(t) = "marked"
       /\ Keeps(t, "completed") /\ versions' = versions
    \/ /\ Phase(t) = "completed" /\ Keeps(t, "committed")
       /\ versions' = [r \in Rows |-> IF r \in OwnRows(t) THEN Append(versions[r], t)
                                      ELSE versions[r]]
    \/ /\ Phase(t) = "validated" /\ session[t].working = {}
       /\ Keeps(t, "committed") /\ versions' = versions
    \/ /\ Phase(t) \in Locks \cup {"validated"}
       /\ Keeps(t, "aborted") /\ versions' = versions

\* The sequences of a well-typed state.
LEMMA ChainFacts ==
    ASSUME Types, NEW t \in Txns, NEW r \in Rows
    PROVE  /\ versions[r] \in Seq(Creators) /\ Len(versions[r]) \in Nat \ {0}
           /\ session[t].base[r] \in Seq(Creators) /\ Len(session[t].base[r]) \in Nat \ {0}
           /\ session[t].savepoint.base[r] \in Seq(Creators)
           /\ Len(session[t].savepoint.base[r]) \in Nat \ {0}
<1>1. /\ versions[r] \in Seq(Creators) \ {<< >>}
      /\ session[t].base[r] \in Seq(Creators) \ {<< >>}
      /\ session[t].savepoint.base[r] \in Seq(Creators) \ {<< >>}
  BY DEF Types, Transaction, Savepoint, Chains
<1>2. \A s \in Seq(Creators) \ {<< >>} : Len(s) \in Nat \ {0}
  BY EmptySeq, LenProperties
<1>. QED
  BY <1>1, <1>2

\* Elements of a working set.
LEMMA WorkFacts ==
    ASSUME Types, NEW t \in Txns, NEW w \in session[t].working
    PROVE  w[1] \in Rows /\ w[2] \in Creators /\ w = <<w[1], w[2]>>
BY DEF Types, Transaction, RowVersions, Creators

\* Extends is reflexive, is kept by Append, and an extension of equal length is equality.
LEMMA ExtendsFacts ==
    ASSUME NEW S, NEW c \in Seq(S), NEW d \in Seq(S), NEW x \in S
    PROVE  /\ Extends(c, c)
           /\ Extends(c, d) => Extends(c, Append(d, x))
           /\ Extends(c, d) /\ Len(c) = Len(d) => c = d
<1>1. Len(c) \in Nat /\ Len(d) \in Nat /\ Len(Append(d, x)) = Len(d) + 1
      /\ \A i \in 1..Len(d) : Append(d, x)[i] = d[i]
  OBVIOUS
<1>2. Extends(c, c)
  BY <1>1 DEF Extends
<1>3. Extends(c, d) => Extends(c, Append(d, x))
  BY <1>1 DEF Extends
<1>4. Extends(c, d) /\ Len(c) = Len(d) => c = d
  BY <1>1, SeqEqual DEF Extends
<1>. QED
  BY <1>2, <1>3, <1>4

\* Chains as they are, whoever else commits.
LEMMA CreatorsStay ==
    ASSUME CreatorsCommitted, \A u \in Txns : Phase(u) = "committed" => session'[u].phase = "committed",
           NEW r \in Rows, NEW i \in 1..Len(versions[r])
    PROVE  versions[r][i] = Frozen
           \/ (versions[r][i] \in Txns /\ session'[versions[r][i]].phase = "committed")
<1>1. PICK v : v = versions[r][i]
  OBVIOUS
<1>2. v = Frozen \/ (v \in Txns /\ Phase(v) = "committed")
  BY <1>1, Zenon DEF CreatorsCommitted
<1>3. v = Frozen \/ (v \in Txns /\ session'[v].phase = "committed")
  BY <1>2, Zenon
<1>. QED
  BY <1>1, <1>3, Zenon

\* Every move of a running transaction keeps ChainsInv.
LEMMA WorksKeepsChains ==
    ASSUME Types, Types', ChainsInv, NEW t \in Txns, Works(t)
    PROVE  ChainsInv'
<1>. DEFINE x == session[t]
            y == session'[t]
<1>1. /\ Phase(t) \notin Ended \cup Locks /\ versions' = versions
      /\ y.phase \notin Locks \cup {"committed"}
      /\ \A u \in Txns \ {t} : session'[u] = session[u]
  BY DEF Works, Holds
<1>2. \/ y.base = x.base /\ y.working = x.working /\ y.savepoint = x.savepoint
      \/ /\ x.working = {} \/ ~MergeConflict(t)
         /\ y.base = versions /\ y.working = x.working /\ y.savepoint = x.savepoint
      \/ \E r \in Rows : /\ y.base = x.base /\ y.working = x.working \cup {<<r, Newest(x.base[r])>>}
                         /\ y.savepoint = x.savepoint
      \/ /\ y.base = x.base /\ y.working = x.working
         /\ y.savepoint.base = x.base /\ y.savepoint.working = x.working
      \/ y.base = x.savepoint.base /\ y.working = x.savepoint.working /\ y.savepoint = x.savepoint
  BY DEF Works, Holds
<1>3. \A u \in Txns : Phase(u)' \in Locks \cup {"committed"} => session'[u] = session[u] /\ u # t
  BY <1>1 DEF Phase
<1>4. \A u \in Txns : Phase(u) = "committed" => Phase(u)' = "committed"
  BY <1>1 DEF Phase, Ended
<1>5. Started' /\ CreatorsDiffer'
  BY <1>1 DEF ChainsInv, Started, CreatorsDiffer
<1>6. CreatorsCommitted'
  <2>1. \A u \in Txns : Phase(u) = "committed" => session'[u].phase = "committed"
    BY <1>4 DEF Phase
  <2>2. \A r \in Rows : \A i \in 1..Len(versions[r]) :
            versions[r][i] = Frozen
            \/ (versions[r][i] \in Txns /\ session'[versions[r][i]].phase = "committed")
    BY <2>1, CreatorsStay DEF ChainsInv
  <2>. QED
    BY <1>1, <2>2 DEF CreatorsCommitted, Phase
<1>7. OneWriter'
  BY <1>3 DEF ChainsInv, OneWriter, Phase
<1>8. MergedIsLatest'
  BY <1>1, <1>3 DEF ChainsInv, MergedIsLatest, Unchallenged, Phase
<1>9. NoLostUpdate'
  BY <1>1, <1>3 DEF ChainsInv, NoLostUpdate, Phase
<1>10. Published(versions)
  BY ChainFacts, ExtendsFacts DEF Published
<1>11. Published(x.base) /\ Published(x.savepoint.base)
  BY DEF ChainsInv, BasesWerePublished
<1>12. \A b : Published(b)' <=> Published(b)
  BY <1>1 DEF Published
<1>13. BasesWerePublished'
  <2>1. Published(y.base) /\ Published(y.savepoint.base)
    BY <1>2, <1>10, <1>11
  <2>. QED
    BY <1>1, <1>12, <2>1 DEF ChainsInv, BasesWerePublished
<1>14. Supersedes(x.working, x.base) /\ Supersedes(x.savepoint.working, x.savepoint.base)
  BY <1>1 DEF ChainsInv, WorkIsOnBase
<1>15. x.working = {} \/ ~MergeConflict(t) => Supersedes(x.working, versions)
  <2>1. ASSUME ~MergeConflict(t), NEW w \in x.working PROVE w[2] = Newest(versions[w[1]])
    <3>1. Len(versions[w[1]]) = Len(x.base[w[1]]) /\ w[1] \in Rows
      BY <2>1, WorkFacts DEF MergeConflict
    <3>2. Extends(x.base[w[1]], versions[w[1]])
      BY <3>1, <1>11 DEF Published
    <3>3. x.base[w[1]] = versions[w[1]]
      BY <3>1, <3>2, ChainFacts, ExtendsFacts
    <3>. QED
      BY <1>14, <3>3 DEF Supersedes
  <2>. QED
    BY <2>1 DEF Supersedes
<1>16. Supersedes(y.working, y.base) /\ Supersedes(y.savepoint.working, y.savepoint.base)
  <2>1. ASSUME NEW r \in Rows
        PROVE  Supersedes(x.working \cup {<<r, Newest(x.base[r])>>}, x.base)
    BY <1>14 DEF Supersedes
  <2>. QED
    BY <1>2, <1>14, <1>15, <2>1
<1>17. WorkIsOnBase'
  BY <1>1, <1>16 DEF ChainsInv, WorkIsOnBase, Phase
<1>. QED
  BY <1>5, <1>6, <1>7, <1>8, <1>9, <1>13, <1>17 DEF ChainsInv

\* What publish appends.
LEMMA PublishedChains ==
    ASSUME Types, ChainsInv, NEW t \in Txns, Phase(t) = "completed",
           versions' = [r \in Rows |-> IF r \in OwnRows(t) THEN Append(versions[r], t)
                                       ELSE versions[r]],
           NEW r \in Rows
    PROVE  /\ \/ r \notin OwnRows(t) /\ versions'[r] = versions[r]
              \/ /\ r \in OwnRows(t)
                 /\ Len(versions'[r]) = Len(versions[r]) + 1
                 /\ versions'[r][Len(versions[r]) + 1] = t
                 /\ \A w \in session[t].working : w[1] = r => w[2] = versions'[r][Len(versions[r])]
           /\ \A i \in 1..Len(versions[r]) : versions'[r][i] = versions[r][i] /\ versions[r][i] # t
           /\ Len(versions[r]) <= Len(versions'[r])
           /\ \A c \in Seq(Creators) : Extends(c, versions[r]) => Extends(c, versions'[r])
<1>1. versions[r] \in Seq(Creators) /\ Len(versions[r]) \in Nat \ {0} /\ t \in Creators
  BY ChainFacts DEF Creators
<1>2. /\ Len(Append(versions[r], t)) = Len(versions[r]) + 1
      /\ Append(versions[r], t)[Len(versions[r]) + 1] = t
      /\ \A i \in 1..Len(versions[r]) : Append(versions[r], t)[i] = versions[r][i]
  BY <1>1
<1>3. versions'[r] = IF r \in OwnRows(t) THEN Append(versions[r], t) ELSE versions[r]
  OBVIOUS
<1>4. \A i \in 1..Len(versions[r]) : versions[r][i] # t
  BY TxnsAreNaturals DEF ChainsInv, CreatorsCommitted, Frozen
<1>5. ASSUME NEW w \in session[t].working, w[1] = r PROVE w[2] = versions[r][Len(versions[r])]
  <2>1. Supersedes(session[t].working, session[t].base) /\ Unchallenged(session[t].working, session[t].base)
    BY DEF ChainsInv, WorkIsOnBase, MergedIsLatest, Locks, Ended
  <2>2. Extends(session[t].base[r], versions[r])
    BY DEF ChainsInv, BasesWerePublished, Published
  <2>3. session[t].base[r] = versions[r]
    BY <2>1, <2>2, <1>5, ChainFacts, ExtendsFacts DEF Unchallenged
  <2>. QED
    BY <2>1, <2>3, <1>5 DEF Supersedes, Newest
<1>6. \A c \in Seq(Creators) : Extends(c, versions[r]) => Extends(c, versions'[r])
  BY <1>1, <1>3, ExtendsFacts
<1>7. Len(versions[r]) \in 1..Len(versions[r])
  BY <1>1
<1>. QED
  BY <1>1, <1>2, <1>3, <1>4, <1>5, <1>6, <1>7

\* Every move of a committing transaction keeps ChainsInv.
LEMMA CommitsKeepsChains ==
    ASSUME Types, Types', ChainsInv, NEW t \in Txns, Commits(t)
    PROVE  ChainsInv'
<1>. DEFINE x == session[t]
            y == session'[t]
<1>1. /\ y.base = x.base /\ y.working = x.working /\ y.savepoint = x.savepoint
      /\ \A u \in Txns \ {t} : session'[u] = session[u]
      /\ Phase(t) \in Locks \cup {"validated"}
      /\ y.phase \in {"marked", "completed", "committed", "aborted"}
  BY DEF Commits, Keeps, Holds, Locks
<1>2. \A u \in Txns : Phase(u) = "committed" => u # t /\ Phase(u)' = "committed"
  BY <1>1 DEF Phase, Locks
<1>3. \A u \in Txns : /\ session'[u].base = session[u].base /\ session'[u].working = session[u].working
                      /\ session'[u].savepoint = session[u].savepoint
  BY <1>1
<1>4. WorkIsOnBase'
  <2>1. \A u \in Txns : Phase(u)' \notin Ended => Phase(u) \notin Ended
    BY <1>1 DEF Phase, Ended, Locks
  <2>. QED
    BY <1>3, <2>1 DEF ChainsInv, WorkIsOnBase
<1>5. OneWriter'
  <2>1. y.phase \in Locks => Phase(t) \in Locks \/ \A u \in Txns : Phase(u) \notin Locks
    BY DEF Commits, StateLocked, Locks, Keeps, Holds
  <2>. QED
    BY <1>1, <2>1 DEF ChainsInv, OneWriter, Phase
<1>8. \A u \in Txns : Phase(u) = "committed" => session'[u].phase = "committed"
  BY <1>2 DEF Phase
<1>6. CASE versions' = versions
  <2>1. Started' /\ CreatorsDiffer'
    BY <1>6 DEF ChainsInv, Started, CreatorsDiffer
  <2>2. CreatorsCommitted'
    <3>1. \A r \in Rows : \A i \in 1..Len(versions[r]) :
              versions[r][i] = Frozen
              \/ (versions[r][i] \in Txns /\ session'[versions[r][i]].phase = "committed")
      BY <1>8, CreatorsStay DEF ChainsInv
    <3>. QED
      BY <1>6, <3>1 DEF CreatorsCommitted, Phase
  <2>3. BasesWerePublished'
    BY <1>6, <1>3 DEF ChainsInv, BasesWerePublished, Published
  <2>4. MergedIsLatest'
    <3>1. y.phase \in Locks => Unchallenged(x.working, x.base)
      BY DEF ChainsInv, MergedIsLatest, Commits, Keeps, Holds, MergeConflict, Unchallenged, Locks
    <3>2. \A w, b : Unchallenged(w, b) => Unchallenged(w, b)'
      BY <1>6 DEF Unchallenged
    <3>. QED
      BY <1>1, <3>1, <3>2 DEF ChainsInv, MergedIsLatest, Phase
  <2>5. NoLostUpdate'
    <3>1. y.phase = "committed" => x.working = {} \/ Phase(t) = "completed"
      BY DEF Commits, Keeps, Holds
    <3>2. Phase(t) = "completed" /\ y.phase = "committed" => \A r \in Rows : r \notin OwnRows(t)
      <4>1. ASSUME Phase(t) = "completed", y.phase = "committed", NEW r \in OwnRows(t) PROVE FALSE
        <5>1. r \in Rows
          BY WorkFacts DEF OwnRows
        <5>2. versions' = [q \in Rows |-> IF q \in OwnRows(t) THEN Append(versions[q], t)
                                          ELSE versions[q]]
          BY <4>1 DEF Commits, Keeps, Holds, Locks
        <5>3. Len(versions'[r]) = Len(versions[r]) + 1 /\ Len(versions[r]) \in Nat
          BY <5>1, <5>2, <4>1, PublishedChains, ChainFacts
        <5>. QED
          BY <5>3, <1>6
      <4>. QED
        BY <4>1
    <3>3. y.phase = "committed" => x.working = {}
      BY <3>1, <3>2, WorkFacts DEF OwnRows
    <3>. QED
      BY <1>1, <1>2, <1>6, <3>3 DEF ChainsInv, NoLostUpdate, Phase
  <2>. QED
    BY <1>4, <1>5, <2>1, <2>2, <2>3, <2>4, <2>5 DEF ChainsInv
<1>7. CASE versions' # versions
  <2>1. /\ Phase(t) = "completed" /\ y.phase = "committed"
        /\ versions' = [q \in Rows |-> IF q \in OwnRows(t) THEN Append(versions[q], t)
                                       ELSE versions[q]]
    BY <1>7 DEF Commits, Keeps, Holds
  <2>2. ASSUME NEW r \in Rows
        PROVE  /\ \/ r \notin OwnRows(t) /\ versions'[r] = versions[r]
                  \/ /\ r \in OwnRows(t)
                     /\ Len(versions'[r]) = Len(versions[r]) + 1
                     /\ versions'[r][Len(versions[r]) + 1] = t
                     /\ \A w \in session[t].working : w[1] = r => w[2] = versions'[r][Len(versions[r])]
               /\ \A i \in 1..Len(versions[r]) : versions'[r][i] = versions[r][i] /\ versions[r][i] # t
               /\ Len(versions[r]) <= Len(versions'[r])
               /\ \A c \in Seq(Creators) : Extends(c, versions[r]) => Extends(c, versions'[r])
               /\ Len(versions[r]) \in Nat \ {0} /\ Len(versions'[r]) \in Nat \ {0}
    <3>1. Len(versions[r]) \in Nat \ {0}
      BY ChainFacts
    <3>2. Len(versions'[r]) \in Nat \ {0}
      BY <3>1, PublishedChains, <2>1
    <3>. QED
      BY <3>1, <3>2, PublishedChains, <2>1
  <2>3. Started'
    BY <2>2 DEF ChainsInv, Started
  <2>4. CreatorsCommitted'
    <3>1. ASSUME NEW r \in Rows, NEW i \in 1..Len(versions'[r])
          PROVE  versions'[r][i] = Frozen
                 \/ (versions'[r][i] \in Txns /\ session'[versions'[r][i]].phase = "committed")
      <4>1. CASE i \in 1..Len(versions[r])
        BY <2>2, <4>1, <1>8, CreatorsStay DEF ChainsInv
      <4>2. CASE i \notin 1..Len(versions[r])
        <5>1. i = Len(versions[r]) + 1 /\ versions'[r][i] = t
          BY <4>2, <2>2
        <5>. QED
          BY <5>1, <2>1
      <4>. QED
        BY <4>1, <4>2
    <3>. QED
      BY <3>1 DEF CreatorsCommitted, Phase
  <2>5. CreatorsDiffer'
    <3>1. ASSUME NEW r \in Rows, NEW i \in 1..Len(versions'[r]), NEW j \in 1..Len(versions'[r]),
                 versions'[r][i] = versions'[r][j]
          PROVE  i = j
      <4>1. ASSUME NEW k \in 1..Len(versions'[r]), k \notin 1..Len(versions[r])
            PROVE  k = Len(versions[r]) + 1 /\ versions'[r][k] = t
        BY <4>1, <2>2
      <4>. QED
        BY <3>1, <4>1, <2>2 DEF ChainsInv, CreatorsDiffer
    <3>. QED
      BY <3>1 DEF CreatorsDiffer
  <2>6. BasesWerePublished'
    <3>1. ASSUME NEW u \in Txns, NEW r \in Rows
          PROVE  /\ Extends(session[u].base[r], versions'[r])
                 /\ Extends(session[u].savepoint.base[r], versions'[r])
      BY <2>2, ChainFacts DEF ChainsInv, BasesWerePublished, Published
    <3>. QED
      BY <1>3, <3>1 DEF BasesWerePublished, Published
  <2>7. MergedIsLatest'
    <3>1. \A u \in Txns : Phase(u)' \notin Locks
      BY <1>1, <2>1 DEF ChainsInv, OneWriter, Phase, Locks
    <3>. QED
      BY <3>1 DEF MergedIsLatest
  <2>8. NoLostUpdate'
    <3>1. ASSUME NEW u \in Txns, session'[u].phase = "committed", NEW w \in session'[u].working
          PROVE  \E i \in 1..Len(versions'[w[1]]) - 1 :
                     versions'[w[1]][i] = w[2] /\ versions'[w[1]][i + 1] = u
      <4>0. w \in session[u].working /\ w[1] \in Rows
        BY <3>1, <1>3, WorkFacts
      <4>1. CASE u # t
        <5>1. Phase(u) = "committed"
          BY <3>1, <4>1, <1>1 DEF Phase
        <5>2. PICK i \in 1..Len(versions[w[1]]) - 1 :
                  versions[w[1]][i] = w[2] /\ versions[w[1]][i + 1] = u
          BY <4>0, <5>1 DEF ChainsInv, NoLostUpdate
        <5>3. /\ i \in 1..Len(versions[w[1]]) /\ i + 1 \in 1..Len(versions[w[1]])
              /\ i \in 1..Len(versions'[w[1]]) - 1
          BY <4>0, <2>2
        <5>. QED
          BY <4>0, <5>2, <5>3, <2>2
      <4>2. CASE u = t
        <5>1. w[1] \in OwnRows(t)
          BY <4>0, <4>2 DEF OwnRows
        <5>2. /\ Len(versions'[w[1]]) = Len(versions[w[1]]) + 1
              /\ versions'[w[1]][Len(versions[w[1]]) + 1] = t
              /\ w[2] = versions'[w[1]][Len(versions[w[1]])]
              /\ Len(versions[w[1]]) \in Nat \ {0}
          BY <2>2, <4>0, <5>1, <4>2
        <5>3. Len(versions[w[1]]) \in 1..Len(versions'[w[1]]) - 1
          BY <5>2
        <5>. QED
          BY <5>2, <5>3, <4>2
      <4>. QED
        BY <4>1, <4>2
    <3>. QED
      BY <3>1 DEF NoLostUpdate, Phase
  <2>. QED
    BY <1>4, <1>5, <2>3, <2>4, <2>5, <2>6, <2>7, <2>8 DEF ChainsInv
<1>. QED
  BY <1>6, <1>7

-----------------------------------------------------------------------------
(***************************************************************************)
(* The SSI manager's graph.                                                *)
(***************************************************************************)
Graph(s) ==
    \A t, u \in Txns : /\ u \in s[t].outgoing <=> t \in s[u].incoming
                       /\ u \in s[t].outgoing => s[t].live /\ s[u].live

\* Two graphs over the same transactions, with the same predicates.
SameRecords(s, z) ==
    \A u \in Txns : /\ z[u].live = s[u].live
                    /\ z[u].committed = s[u].committed
                    /\ z[u].reads = s[u].reads /\ z[u].writes = s[u].writes

\* What add_dependencies leaves in each record.
LEMMA AddFacts ==
    ASSUME NEW s \in [Txns -> SsiRecord], NEW pairs \in SUBSET (Txns \X Txns), NEW z,
           z = add_dependencies(s, pairs)
    PROVE  /\ SameRecords(s, z)
           /\ \A u, v \in Txns : /\ v \in z[u].outgoing <=> v \in s[u].outgoing \/ <<u, v>> \in pairs
                                 /\ u \in z[v].incoming <=> u \in s[v].incoming \/ <<u, v>> \in pairs
<1>1. ASSUME NEW u \in Txns
      PROVE  z[u] = [s[u] EXCEPT
                 !.outgoing = @ \cup {p[2] : p \in {q \in pairs : q[1] = u}},
                 !.incoming = @ \cup {p[1] : p \in {q \in pairs : q[2] = u}}]
  BY DEF add_dependencies
<1>2. ASSUME NEW u \in Txns
      PROVE  /\ z[u].outgoing = s[u].outgoing \cup {p[2] : p \in {q \in pairs : q[1] = u}}
             /\ z[u].incoming = s[u].incoming \cup {p[1] : p \in {q \in pairs : q[2] = u}}
             /\ z[u].live = s[u].live
             /\ z[u].committed = s[u].committed
             /\ z[u].reads = s[u].reads /\ z[u].writes = s[u].writes
  <2>1. s[u] \in SsiRecord
    OBVIOUS
  <2>. DEFINE O == s[u].outgoing \cup {p[2] : p \in {q \in pairs : q[1] = u}}
              I == s[u].incoming \cup {p[1] : p \in {q \in pairs : q[2] = u}}
  <2>2. z[u] = [s[u] EXCEPT !.outgoing = O, !.incoming = I]
    BY <1>1
  <2>. HIDE DEF O, I
  <2>3. /\ z[u].outgoing = O /\ z[u].incoming = I
        /\ z[u].live = s[u].live
        /\ z[u].committed = s[u].committed
        /\ z[u].reads = s[u].reads /\ z[u].writes = s[u].writes
    BY <2>1, <2>2 DEF SsiRecord
  <2>. QED
    BY <2>3 DEF O, I
<1>3. \A u, v \in Txns : /\ v \in {p[2] : p \in {q \in pairs : q[1] = u}} <=> <<u, v>> \in pairs
                         /\ u \in {p[1] : p \in {q \in pairs : q[2] = v}} <=> <<u, v>> \in pairs
  OBVIOUS
<1>. QED
  BY <1>2, <1>3 DEF SameRecords

\* Edges between live records keep the graph sound.
LEMMA AddKeepsGraph ==
    ASSUME NEW s \in [Txns -> SsiRecord], NEW pairs \in SUBSET (Txns \X Txns), Graph(s),
           \A u, v \in Txns : <<u, v>> \in pairs => s[u].live /\ s[v].live
    PROVE  Graph(add_dependencies(s, pairs))
<1>. DEFINE z == add_dependencies(s, pairs)
<1>1. /\ SameRecords(s, z)
      /\ \A u, v \in Txns : /\ v \in z[u].outgoing <=> v \in s[u].outgoing \/ <<u, v>> \in pairs
                            /\ u \in z[v].incoming <=> u \in s[v].incoming \/ <<u, v>> \in pairs
  BY AddFacts
<1>. HIDE DEF z
<1>2. \A u, v \in Txns : /\ v \in z[u].outgoing <=> u \in z[v].incoming
                         /\ v \in z[u].outgoing => z[u].live /\ z[v].live
  BY <1>1 DEF Graph, SameRecords
<1>. QED
  BY <1>2 DEF Graph, z

\* What remove_transactions leaves in each record.
LEMMA RemoveFacts ==
    ASSUME NEW s \in [Txns -> SsiRecord], NEW gone \in SUBSET Txns, NEW z,
           z = remove_transactions(s, gone)
    PROVE  /\ \A u \in gone : z[u] = NoSsi /\ ~z[u].live
           /\ \A u \in Txns \ gone :
                 /\ z[u].live = s[u].live
                 /\ z[u].committed = s[u].committed
                 /\ z[u].reads = s[u].reads /\ z[u].writes = s[u].writes
                 /\ z[u].incoming = s[u].incoming \ gone
                 /\ z[u].outgoing = s[u].outgoing \ gone
<1>1. \A u \in gone : z[u] = NoSsi /\ ~z[u].live
  BY DEF remove_transactions, NoSsi
<1>2. ASSUME NEW u \in Txns \ gone
      PROVE  z[u] = [s[u] EXCEPT !.incoming = @ \ gone, !.outgoing = @ \ gone]
  BY DEF remove_transactions
<1>3. \A u \in Txns \ gone :
                 /\ z[u].live = s[u].live
                 /\ z[u].committed = s[u].committed
                 /\ z[u].reads = s[u].reads /\ z[u].writes = s[u].writes
                 /\ z[u].incoming = s[u].incoming \ gone
                 /\ z[u].outgoing = s[u].outgoing \ gone
  <2>. SUFFICES ASSUME NEW u \in Txns \ gone
                PROVE  /\ z[u].live = s[u].live
                       /\ z[u].committed = s[u].committed
                       /\ z[u].reads = s[u].reads /\ z[u].writes = s[u].writes
                       /\ z[u].incoming = s[u].incoming \ gone
                       /\ z[u].outgoing = s[u].outgoing \ gone
    OBVIOUS
  <2>. DEFINE O == s[u].outgoing \ gone
              I == s[u].incoming \ gone
  <2>1. z[u] = [s[u] EXCEPT !.incoming = I, !.outgoing = O]
    BY <1>2
  <2>2. s[u] \in SsiRecord
    OBVIOUS
  <2>. HIDE DEF O, I
  <2>3. /\ z[u].outgoing = O /\ z[u].incoming = I
        /\ z[u].live = s[u].live
        /\ z[u].committed = s[u].committed
        /\ z[u].reads = s[u].reads /\ z[u].writes = s[u].writes
    BY <2>1, <2>2 DEF SsiRecord
  <2>. QED
    BY <2>3 DEF O, I
<1>. QED
  BY <1>1, <1>3

\* Forgetting records keeps the graph sound.
LEMMA RemoveKeepsGraph ==
    ASSUME NEW s \in [Txns -> SsiRecord], NEW gone \in SUBSET Txns, Graph(s)
    PROVE  Graph(remove_transactions(s, gone))
<1>. DEFINE z == remove_transactions(s, gone)
<1>1. /\ \A u \in gone : z[u] = NoSsi /\ ~z[u].live
      /\ \A u \in Txns \ gone :
                 /\ z[u].live = s[u].live
                 /\ z[u].incoming = s[u].incoming \ gone
                 /\ z[u].outgoing = s[u].outgoing \ gone
  BY RemoveFacts
<1>2. NoSsi.incoming = {} /\ NoSsi.outgoing = {}
  BY DEF NoSsi
<1>. HIDE DEF z
<1>3. ASSUME NEW u \in Txns, NEW v \in Txns
      PROVE  /\ v \in z[u].outgoing <=> u \in z[v].incoming
             /\ v \in z[u].outgoing => z[u].live /\ z[v].live
  <2>1. v \in z[u].outgoing <=> v \in s[u].outgoing /\ u \notin gone /\ v \notin gone
    BY <1>1, <1>2
  <2>2. u \in z[v].incoming <=> u \in s[v].incoming /\ u \notin gone /\ v \notin gone
    BY <1>1, <1>2
  <2>. QED
    BY <2>1, <2>2, <1>1 DEF Graph
<1>. QED
  BY <1>3 DEF Graph, z

-----------------------------------------------------------------------------
(***************************************************************************)
(* What the SSI manager knows.                                             *)
(***************************************************************************)
Running == {"idle", "statement", "waiting", "failed"}
Decided == {"validated", "marked", "completed", "committed"}

Tracked ==
    \A t \in Txns :
        /\ ssi[t].live => /\ UsesSsi(t) /\ Phase(t) \in Running \cup Decided
                          /\ ssi[t].committed <=> Phase(t) \in Decided
        /\ UsesSsi(t) /\ Phase(t) \in Running => ssi[t].live

\* Before its safe snapshot a deferrable transaction has read nothing.
UnreadUntilSafe ==
    \A t \in Txns :
        /\ Phase(t) \in Unbegun => session[t].savepoint = NoSavepoint
        /\ Phase(t) = "statement" => session[t].safe
        /\ NeedsSafeSnapshot(t) /\ Phase(t) \in Running =>
              /\ session[t].savepoint.predicates.reads = {}
              /\ UsesSsi(t) => ssi[t].reads = {}

SsiInv == Graph(ssi) /\ Tracked /\ UnreadUntilSafe /\ ConflictsRecorded

\* t's record when its level stays what it was.
SameLevel(t) ==
    /\ OthersStay(t)
    /\ session'[t].level = session[t].level
    /\ session'[t].safe <=> session[t].safe \/ session'[t].phase = "statement"

Allocates(t) ==
    /\ OthersStay(t)
    /\ Phase(t) = "none" /\ session'[t].phase = "allocated"
    /\ session'[t].savepoint = session[t].savepoint
    /\ ssi' = ssi

GoesOn(t) ==
    /\ SameLevel(t)
    /\ \/ Phase(t) \in Unbegun /\ session'[t].phase \in Unbegun \cup {"aborted"}
       \/ Phase(t) \in Running /\ session'[t].phase \in Running
       \/ Phase(t) \in Decided /\ session'[t].phase \in Decided
       \/ ~UsesSsi(t) /\ session'[t].phase \notin Unbegun
    /\ session'[t].snapshot = session[t].snapshot \/ ~UsesSsi(t)
    /\ session'[t].savepoint = session[t].savepoint
    /\ ssi' = ssi

MarksSavepoint(t) ==
    /\ SameLevel(t)
    /\ Phase(t) = "idle" /\ session'[t].phase = "idle"
    /\ session'[t].snapshot = session[t].snapshot
    /\ session'[t].savepoint.predicates.reads = ssi[t].reads
    /\ ssi' = ssi

Registers(t) ==
    /\ SameLevel(t)
    /\ UsesSsi(t)
    /\ Phase(t) = "raised" /\ session'[t].phase = "idle"
    /\ session'[t].savepoint = session[t].savepoint
    /\ ssi' = ssi_begin(ssi, t)

TakesSafeSnapshot(t) ==
    /\ SameLevel(t)
    /\ NeedsSafeSnapshot(t)
    /\ Phase(t) = "idle" /\ session'[t].phase = "statement"
    /\ session'[t].savepoint = session[t].savepoint
    /\ ssi' = ssi

Reads(t, table) ==
    /\ SameLevel(t)
    /\ UsesSsi(t)
    /\ Phase(t) = "statement" /\ session'[t].phase = "idle"
    /\ session'[t].snapshot = session[t].snapshot
    /\ session'[t].savepoint = session[t].savepoint
    /\ ssi' = record_read(ssi, t, table)

Writes(t, table) ==
    /\ SameLevel(t)
    /\ UsesSsi(t)
    /\ Phase(t) = "waiting" /\ session'[t].phase = "idle"
    /\ session'[t].snapshot = session[t].snapshot
    /\ session'[t].savepoint = session[t].savepoint
    /\ ssi' = record_write(ssi, t, table)

RollsBack(t) ==
    /\ SameLevel(t)
    /\ UsesSsi(t)
    /\ Phase(t) \in {"idle", "failed"} /\ session'[t].phase = "idle"
    /\ session'[t].snapshot = session[t].snapshot
    /\ session'[t].savepoint = session[t].savepoint
    /\ ssi' = ssi_rollback_to(ssi, t, session[t].savepoint.predicates)

Aborts(t) ==
    /\ SameLevel(t)
    /\ session'[t].phase = "aborted"
    /\ session'[t].snapshot = session[t].snapshot
    /\ session'[t].savepoint = session[t].savepoint
    /\ ssi' = ssi_abort(ssi, t)

Validates(t) ==
    /\ SameLevel(t)
    /\ UsesSsi(t)
    /\ Phase(t) = "idle" /\ session'[t].phase = "validated"
    /\ session'[t].snapshot = session[t].snapshot
    /\ session'[t].savepoint = session[t].savepoint
    /\ ssi' = cleanup_before(ssi_commit(ssi, t), global_xmin_excluding(t))

\* The edges of t after each change of its record.
LEMMA BeginGraph ==
    ASSUME NEW s \in [Txns -> SsiRecord], NEW t \in Txns, NEW z, z = ssi_begin(s, t), Graph(s), ~s[t].live
    PROVE  /\ Graph(z) /\ z[t].live /\ ~z[t].committed /\ z[t].reads = {} /\ z[t].writes = {}
           /\ \A u \in Txns \ {t} : z[u] = s[u]
<1>1. z[t] = [NoSsi EXCEPT !.live = TRUE] /\ \A u \in Txns \ {t} : z[u] = s[u]
  BY DEF ssi_begin
<1>2. /\ z[t].live /\ ~z[t].committed /\ z[t].reads = {} /\ z[t].writes = {}
      /\ z[t].incoming = {} /\ z[t].outgoing = {}
  BY <1>1 DEF NoSsi
<1>3. \A u \in Txns : t \notin s[u].outgoing /\ t \notin s[u].incoming
  BY DEF Graph
<1>4. Graph(z)
  BY <1>1, <1>2, <1>3 DEF Graph
<1>. QED
  BY <1>1, <1>2, <1>4

\* record_read adds the edge to every live writer that the reader does not see.
LEMMA ReadGraph ==
    ASSUME NEW s \in [Txns -> SsiRecord], NEW t \in Txns, NEW table \in Tables, NEW z,
           z = record_read(s, t, table), Graph(s), s[t].live
    PROVE  /\ Graph(z)
           /\ \A u \in Txns : z[u].live = s[u].live /\ z[u].committed = s[u].committed
                              /\ z[u].writes = s[u].writes
           /\ z[t].reads = s[t].reads \cup {table}
           /\ \A u \in Txns \ {t} : z[u].reads = s[u].reads
           /\ \A u, v \in Txns : v \in s[u].outgoing => v \in z[u].outgoing
           /\ \A u \in Txns \ {t} : s[u].live /\ table \in s[u].writes /\ ~Sees(t, u)
                                    => u \in z[t].outgoing
<1>. DEFINE W == {u \in Others(s, t) : /\ ~s[u].committed \/ ~Sees(t, u)
                                       /\ table \in s[u].writes}
            k == [s EXCEPT ![t].reads = @ \cup {table}]
            pairs == {<<t, u>> : u \in W}
<1>1. k \in [Txns -> SsiRecord] /\ pairs \in SUBSET (Txns \X Txns)
  <2>1. [s[t] EXCEPT !.reads = @ \cup {table}] \in SsiRecord
    BY RecordTypes
  <2>. QED
    BY <2>1 DEF Others
<1>2. z = add_dependencies(k, pairs)
  BY DEF record_read
<1>3. /\ \A u \in Txns : k[u].live = s[u].live /\ k[u].committed = s[u].committed
                         /\ k[u].writes = s[u].writes /\ k[u].incoming = s[u].incoming
                         /\ k[u].outgoing = s[u].outgoing
      /\ k[t].reads = s[t].reads \cup {table}
      /\ \A u \in Txns \ {t} : k[u].reads = s[u].reads
  BY DEF SsiRecord
<1>4. \A u, v \in Txns : <<u, v>> \in pairs => u = t /\ k[t].live /\ k[v].live
  BY <1>3 DEF Others
<1>5. \A u \in Txns \ {t} : s[u].live /\ table \in s[u].writes /\ ~Sees(t, u) => <<t, u>> \in pairs
  BY DEF Others
<1>6. Graph(k)
  BY <1>3 DEF Graph
<1>. HIDE DEF k, pairs
<1>7. /\ SameRecords(k, z)
      /\ \A u, v \in Txns : /\ v \in z[u].outgoing <=> v \in k[u].outgoing \/ <<u, v>> \in pairs
                            /\ u \in z[v].incoming <=> u \in k[v].incoming \/ <<u, v>> \in pairs
  BY <1>1, <1>2, AddFacts
<1>8. Graph(z)
  BY <1>1, <1>2, <1>4, <1>6, AddKeepsGraph
<1>9. \A u \in Txns : z[u].live = s[u].live /\ z[u].committed = s[u].committed
                      /\ z[u].writes = s[u].writes /\ z[u].reads = k[u].reads
  BY <1>3, <1>7 DEF SameRecords
<1>. QED
  BY <1>3, <1>5, <1>7, <1>8, <1>9

\* record_write adds the edge from every live reader.
LEMMA WriteGraph ==
    ASSUME NEW s \in [Txns -> SsiRecord], NEW t \in Txns, NEW table \in Tables, NEW z,
           z = record_write(s, t, table), Graph(s), s[t].live
    PROVE  /\ Graph(z)
           /\ \A u \in Txns : z[u].live = s[u].live /\ z[u].committed = s[u].committed
                              /\ z[u].reads = s[u].reads
           /\ z[t].writes = s[t].writes \cup {table}
           /\ \A u \in Txns \ {t} : z[u].writes = s[u].writes
           /\ \A u, v \in Txns : v \in s[u].outgoing => v \in z[u].outgoing
           /\ \A u \in Txns \ {t} : s[u].live /\ table \in s[u].reads => t \in z[u].outgoing
<1>. DEFINE R == {u \in Others(s, t) : table \in s[u].reads}
            k == [s EXCEPT ![t].writes = @ \cup {table}]
            pairs == {<<u, t>> : u \in R}
<1>1. k \in [Txns -> SsiRecord] /\ pairs \in SUBSET (Txns \X Txns)
  <2>1. [s[t] EXCEPT !.writes = @ \cup {table}] \in SsiRecord
    BY RecordTypes
  <2>. QED
    BY <2>1 DEF Others
<1>2. z = add_dependencies(k, pairs)
  BY DEF record_write
<1>3. /\ \A u \in Txns : k[u].live = s[u].live /\ k[u].committed = s[u].committed
                         /\ k[u].reads = s[u].reads /\ k[u].incoming = s[u].incoming
                         /\ k[u].outgoing = s[u].outgoing
      /\ k[t].writes = s[t].writes \cup {table}
      /\ \A u \in Txns \ {t} : k[u].writes = s[u].writes
  BY DEF SsiRecord
<1>4. \A u, v \in Txns : <<u, v>> \in pairs => v = t /\ k[u].live /\ k[t].live
  BY <1>3 DEF Others
<1>5. \A u \in Txns \ {t} : s[u].live /\ table \in s[u].reads => <<u, t>> \in pairs
  BY DEF Others
<1>6. Graph(k)
  BY <1>3 DEF Graph
<1>. HIDE DEF k, pairs
<1>7. /\ SameRecords(k, z)
      /\ \A u, v \in Txns : /\ v \in z[u].outgoing <=> v \in k[u].outgoing \/ <<u, v>> \in pairs
                            /\ u \in z[v].incoming <=> u \in k[v].incoming \/ <<u, v>> \in pairs
  BY <1>1, <1>2, AddFacts
<1>8. Graph(z)
  BY <1>1, <1>2, <1>4, <1>6, AddKeepsGraph
<1>9. \A u \in Txns : z[u].live = s[u].live /\ z[u].committed = s[u].committed
                      /\ z[u].reads = s[u].reads /\ z[u].writes = k[u].writes
  BY <1>3, <1>7 DEF SameRecords
<1>. QED
  BY <1>3, <1>5, <1>7, <1>8, <1>9

\* rollback_to_savepoint rebuilds the edges of one record from what was saved.
LEMMA RollbackGraph ==
    ASSUME NEW s \in [Txns -> SsiRecord], NEW t \in Txns, NEW saved \in Predicates, NEW z,
           z = ssi_rollback_to(s, t, saved), Graph(s), s[t].live
    PROVE  /\ Graph(z)
           /\ \A u \in Txns : z[u].live = s[u].live /\ z[u].committed = s[u].committed
           /\ z[t].reads = saved.reads /\ z[t].writes = saved.writes
           /\ \A u \in Txns \ {t} : z[u].reads = s[u].reads /\ z[u].writes = s[u].writes
           /\ \A u, v \in Txns \ {t} : v \in s[u].outgoing => v \in z[u].outgoing
           /\ \A u \in Txns \ {t} :
                 /\ s[u].live /\ saved.reads \cap s[u].writes # {} => u \in z[t].outgoing
                 /\ s[u].live /\ s[u].reads \cap saved.writes # {} => t \in z[u].outgoing
<1>. DEFINE g == remove_transactions(s, {t})
            y == [s[t] EXCEPT !.reads = saved.reads, !.writes = saved.writes,
                              !.incoming = {}, !.outgoing = {}]
            k == [g EXCEPT ![t] = y]
            pairs == {<<t, u>> : u \in {v \in Others(k, t) : saved.reads \cap k[v].writes # {}}}
                     \cup {<<u, t>> : u \in {v \in Others(k, t) : k[v].reads \cap saved.writes # {}}}
<1>1. z = add_dependencies(k, pairs)
  BY DEF ssi_rollback_to
<1>2. s[t] \in SsiRecord /\ g \in [Txns -> SsiRecord] /\ y \in SsiRecord
  BY RecordTypes, SsiTypes
<1>3. /\ y.reads = saved.reads /\ y.writes = saved.writes /\ y.incoming = {} /\ y.outgoing = {}
      /\ y.live = s[t].live /\ y.committed = s[t].committed
  BY <1>2 DEF SsiRecord
<1>4. \A u \in Txns \ {t} :
          /\ g[u].live <=> s[u].live
          /\ g[u].committed <=> s[u].committed
          /\ g[u].reads = s[u].reads /\ g[u].writes = s[u].writes
          /\ g[u].incoming = s[u].incoming \ {t} /\ g[u].outgoing = s[u].outgoing \ {t}
  BY RemoveFacts
<1>5. \A u \in Txns \ {t} : g[u].live = s[u].live /\ g[u].committed = s[u].committed
  BY <1>2, <1>4 DEF SsiRecord
<1>. HIDE DEF y, g
<1>6. k \in [Txns -> SsiRecord] /\ k[t] = y /\ \A u \in Txns \ {t} : k[u] = g[u]
  BY <1>2
<1>7. pairs \in SUBSET (Txns \X Txns)
  BY DEF Others
<1>. HIDE DEF k
<1>8. \A u, v \in Txns : <<u, v>> \in pairs <=>
          \/ u = t /\ v # t /\ k[v].live /\ saved.reads \cap k[v].writes # {}
          \/ v = t /\ u # t /\ k[u].live /\ k[u].reads \cap saved.writes # {}
  BY DEF Others
<1>. HIDE DEF pairs
<1>9. \A u, v \in Txns : <<u, v>> \in pairs => k[u].live /\ k[v].live
  BY <1>8, <1>6, <1>3
<1>10. Graph(k)
  <2>1. ASSUME NEW u \in Txns, NEW v \in Txns
        PROVE  /\ v \in k[u].outgoing <=> u \in k[v].incoming
               /\ v \in k[u].outgoing => k[u].live /\ k[v].live
    <3>1. CASE u = t \/ v = t
      BY <3>1, <1>3, <1>4, <1>6
    <3>2. CASE u # t /\ v # t
      BY <3>2, <1>4, <1>6 DEF Graph
    <3>. QED
      BY <3>1, <3>2
  <2>. QED
    BY <2>1 DEF Graph
<1>11. /\ SameRecords(k, z)
       /\ \A u, v \in Txns : /\ v \in z[u].outgoing <=> v \in k[u].outgoing \/ <<u, v>> \in pairs
                             /\ u \in z[v].incoming <=> u \in k[v].incoming \/ <<u, v>> \in pairs
  BY <1>1, <1>6, <1>7, AddFacts
<1>12. Graph(z)
  BY <1>1, <1>6, <1>7, <1>9, <1>10, AddKeepsGraph
<1>13. z \in [Txns -> SsiRecord]
  BY <1>1, <1>6, <1>7, SsiTypes
<1>14. \A u \in Txns : z[u].live = s[u].live /\ z[u].committed = s[u].committed
  <2>1. \A u \in Txns : (z[u].live <=> k[u].live) /\ (z[u].committed <=> k[u].committed)
    BY <1>11 DEF SameRecords
  <2>2. \A u \in Txns : z[u].live = k[u].live /\ z[u].committed = k[u].committed
    BY <2>1, <1>6, <1>13 DEF SsiRecord
  <2>3. k[t].live = s[t].live /\ k[t].committed = s[t].committed
    BY <1>3, <1>6
  <2>4. \A u \in Txns \ {t} : k[u].live = s[u].live /\ k[u].committed = s[u].committed
    BY <1>5, <1>6
  <2>. QED
    BY <2>2, <2>3, <2>4
<1>15. /\ z[t].reads = saved.reads /\ z[t].writes = saved.writes
       /\ \A u \in Txns \ {t} : z[u].reads = s[u].reads /\ z[u].writes = s[u].writes
  BY <1>3, <1>4, <1>6, <1>11 DEF SameRecords
<1>16. \A u, v \in Txns \ {t} : v \in s[u].outgoing => v \in z[u].outgoing
  BY <1>4, <1>6, <1>11
<1>17. \A u \in Txns \ {t} :
                 /\ s[u].live /\ saved.reads \cap s[u].writes # {} => u \in z[t].outgoing
                 /\ s[u].live /\ s[u].reads \cap saved.writes # {} => t \in z[u].outgoing
  <2>1. ASSUME NEW u \in Txns \ {t}, s[u].live
        PROVE  k[u].live /\ k[u].reads = s[u].reads /\ k[u].writes = s[u].writes
    BY <2>1, <1>4, <1>6
  <2>2. ASSUME NEW u \in Txns \ {t}, s[u].live
        PROVE  /\ saved.reads \cap s[u].writes # {} => <<t, u>> \in pairs
               /\ s[u].reads \cap saved.writes # {} => <<u, t>> \in pairs
    BY <2>1, <2>2, <1>8
  <2>. QED
    BY <2>2, <1>11
<1>. QED
  BY <1>12, <1>14, <1>15, <1>16, <1>17

\* Sees reads only the snapshot of the first.
LEMMA SeesSame ==
    ASSUME NEW t, NEW u, session'[t].snapshot = session[t].snapshot
    PROVE  Sees(t, u)' <=> Sees(t, u)
BY DEF Sees

\* The steps that leave the SSI manager alone.
LEMMA UntrackedSteps ==
    ASSUME Types, Types', SsiInv, NEW t \in Txns,
           \/ Allocates(t) \/ GoesOn(t) \/ MarksSavepoint(t) \/ TakesSafeSnapshot(t)
    PROVE  SsiInv'
<1>. DEFINE x == session[t]
            y == session'[t]
<1>1. /\ ssi' = ssi
      /\ \A u \in Txns \ {t} : session'[u] = session[u]
  BY DEF Allocates, GoesOn, MarksSavepoint, TakesSafeSnapshot, SameLevel, OthersStay
<1>2. \A u \in Txns \ {t} : Phase(u)' = Phase(u) /\ (UsesSsi(u)' <=> UsesSsi(u))
                            /\ (NeedsSafeSnapshot(u)' <=> NeedsSafeSnapshot(u))
  BY <1>1 DEF Phase, UsesSsi, NeedsSafeSnapshot
<1>3. Graph(ssi')
  BY <1>1 DEF SsiInv
<1>4. Tracked'
  <2>1. /\ ssi[t].live => /\ UsesSsi(t)' /\ Phase(t)' \in Running \cup Decided
                          /\ ssi[t].committed <=> Phase(t)' \in Decided
        /\ UsesSsi(t)' /\ Phase(t)' \in Running => ssi[t].live
    <3>1. CASE Allocates(t)
      <4>1. ~ssi[t].live
        BY <3>1 DEF Allocates, SsiInv, Tracked, Running, Decided
      <4>2. Phase(t)' = "allocated"
        BY <3>1 DEF Allocates, Phase
      <4>. QED
        BY <4>1, <4>2 DEF Running
    <3>2. CASE GoesOn(t)
      BY <3>2 DEF GoesOn, SameLevel, SsiInv, Tracked, Running, Decided, Phase, UsesSsi, Unbegun
    <3>3. CASE MarksSavepoint(t) \/ TakesSafeSnapshot(t)
      BY <3>3 DEF MarksSavepoint, TakesSafeSnapshot, SameLevel, SsiInv, Tracked, Running,
         Decided, Phase, UsesSsi
    <3>. QED
      BY <3>1, <3>2, <3>3
  <2>. QED
    BY <1>1, <1>2, <2>1 DEF SsiInv, Tracked
<1>5. UnreadUntilSafe'
  <2>1. /\ Phase(t)' \in Unbegun => y.savepoint = NoSavepoint
        /\ Phase(t)' = "statement" => y.safe
        /\ NeedsSafeSnapshot(t)' /\ Phase(t)' \in Running =>
              /\ y.savepoint.predicates.reads = {}
              /\ UsesSsi(t)' => ssi[t].reads = {}
    <3>1. CASE Allocates(t)
      BY <3>1 DEF Allocates, SsiInv, UnreadUntilSafe, Running, Phase, Unbegun
    <3>2. CASE GoesOn(t)
      BY <3>2 DEF GoesOn, SameLevel, SsiInv, UnreadUntilSafe, Running, Decided, Phase, UsesSsi,
         Unbegun,
         NeedsSafeSnapshot
    <3>3. CASE MarksSavepoint(t) \/ TakesSafeSnapshot(t)
      BY <3>3 DEF MarksSavepoint, TakesSafeSnapshot, SameLevel, SsiInv, UnreadUntilSafe,
         Running, Phase,
         UsesSsi, Unbegun, NeedsSafeSnapshot
    <3>. QED
      BY <3>1, <3>2, <3>3
  <2>. QED
    BY <1>1, <1>2, <2>1 DEF SsiInv, UnreadUntilSafe
<1>6. ConflictsRecorded'
  <2>1. \A u \in Txns : ssi[t].live /\ ssi[t].reads # {} => (Sees(t, u)' <=> Sees(t, u))
    <3>1. CASE y.snapshot = x.snapshot
      BY <3>1, SeesSame
    <3>2. CASE Allocates(t)
      BY <3>2 DEF Allocates, SsiInv, Tracked, Running, Decided
    <3>3. CASE GoesOn(t) /\ ~UsesSsi(t)
      BY <3>3 DEF SsiInv, Tracked
    <3>4. CASE TakesSafeSnapshot(t)
      BY <3>4 DEF TakesSafeSnapshot, SsiInv, Tracked, UnreadUntilSafe, Running
    <3>. QED
      BY <3>1, <3>2, <3>3, <3>4 DEF GoesOn, MarksSavepoint
  <2>2. \A v \in Txns \ {t}, u \in Txns : Sees(v, u)' <=> Sees(v, u)
    BY <1>1, SeesSame
  <2>3. \A v, u \in Txns : ssi[v].live /\ ssi[v].reads \cap ssi[u].writes # {} /\ ~Sees(v, u)' => ~Sees(v, u)
    BY <2>1, <2>2
  <2>. QED
    BY <1>1, <2>3 DEF SsiInv, ConflictsRecorded
<1>. QED
  BY <1>3, <1>4, <1>5, <1>6 DEF SsiInv, Graph

\* A transaction that stays among the running ones.
LEMMA StaysRunning ==
    ASSUME SsiInv, NEW t \in Txns, SameLevel(t), Phase(t) \in Running \cup {"raised"},
           session'[t].phase = "idle",
           session'[t].savepoint = session[t].savepoint,
           \A u \in Txns \ {t} : /\ ssi'[u].live <=> ssi[u].live
                                 /\ ssi'[u].committed <=> ssi[u].committed
                                 /\ ssi'[u].reads = ssi[u].reads,
           UsesSsi(t), ssi'[t].live, ~ssi'[t].committed,
           NeedsSafeSnapshot(t) => ssi'[t].reads = {}
    PROVE  Tracked' /\ UnreadUntilSafe'
<1>1. \A u \in Txns \ {t} : session'[u] = session[u]
  BY DEF SameLevel, OthersStay
<1>2. Tracked'
  BY <1>1 DEF SsiInv, Tracked, SameLevel, Phase, UsesSsi, Running, Decided
<1>3. UnreadUntilSafe'
  <2>1. NeedsSafeSnapshot(t)' => NeedsSafeSnapshot(t) /\ session[t].savepoint.predicates.reads = {}
    <3>1. NoSavepoint.predicates.reads = {}
      BY DEF NoSavepoint
    <3>. QED
      BY <3>1 DEF SsiInv, UnreadUntilSafe, SameLevel, NeedsSafeSnapshot, Phase, Unbegun
  <2>2. Phase(t)' = "idle"
    BY DEF Phase
  <2>. QED
    BY <1>1, <2>1, <2>2 DEF SsiInv, UnreadUntilSafe, Phase, Unbegun, NeedsSafeSnapshot, UsesSsi
<1>. QED
  BY <1>2, <1>3

\* The next six: each move of the graph keeps SsiInv.
LEMMA RegisteringSteps ==
    ASSUME Types, Types', SsiInv, NEW t \in Txns, Registers(t)
    PROVE  SsiInv'
<1>1. ~ssi[t].live /\ ssi \in [Txns -> SsiRecord] /\ Graph(ssi) /\ ssi' = ssi_begin(ssi, t)
  BY DEF Registers, SsiInv, Tracked, Running, Decided, Types
<1>2. /\ Graph(ssi') /\ ssi'[t].live /\ ~ssi'[t].committed /\ ssi'[t].reads = {} /\ ssi'[t].writes = {}
      /\ \A u \in Txns \ {t} : ssi'[u] = ssi[u]
  BY <1>1, BeginGraph
<1>3. SameLevel(t) /\ UsesSsi(t) /\ Phase(t) = "raised" /\ session'[t].phase = "idle"
      /\ session'[t].savepoint = session[t].savepoint
  BY DEF Registers
<1>4. Tracked' /\ UnreadUntilSafe'
  BY <1>2, <1>3, StaysRunning
<1>5. ConflictsRecorded'
  <2>1. \A v \in Txns \ {t}, u \in Txns : Sees(v, u)' <=> Sees(v, u)
    BY <1>3, SeesSame DEF SameLevel, OthersStay
  <2>. QED
    BY <1>2, <2>1 DEF SsiInv, ConflictsRecorded
<1>. QED
  BY <1>2, <1>4, <1>5 DEF SsiInv, Graph

\* A read.
LEMMA ReadingSteps ==
    ASSUME Types, Types', SsiInv, NEW t \in Txns, NEW table \in Tables, Reads(t, table)
    PROVE  SsiInv'
<1>1. /\ ssi[t].live /\ ~ssi[t].committed /\ ssi \in [Txns -> SsiRecord] /\ Graph(ssi)
      /\ ssi' = record_read(ssi, t, table)
  BY DEF Reads, SsiInv, Tracked, Running, Decided, Types
<1>2. /\ Graph(ssi')
      /\ \A u \in Txns : ssi'[u].live = ssi[u].live /\ ssi'[u].committed = ssi[u].committed
                         /\ ssi'[u].writes = ssi[u].writes
      /\ ssi'[t].reads = ssi[t].reads \cup {table}
      /\ \A u \in Txns \ {t} : ssi'[u].reads = ssi[u].reads
      /\ \A u, v \in Txns : v \in ssi[u].outgoing => v \in ssi'[u].outgoing
      /\ \A u \in Txns \ {t} : ssi[u].live /\ table \in ssi[u].writes /\ ~Sees(t, u)
                               => u \in ssi'[t].outgoing
  BY <1>1, ReadGraph
<1>3. /\ SameLevel(t) /\ UsesSsi(t) /\ Phase(t) = "statement" /\ session'[t].phase = "idle"
      /\ session'[t].savepoint = session[t].savepoint /\ session'[t].snapshot = session[t].snapshot
      /\ ~NeedsSafeSnapshot(t)
  BY DEF Reads, SsiInv, UnreadUntilSafe, NeedsSafeSnapshot
<1>4. Tracked' /\ UnreadUntilSafe'
  <2>1. Phase(t) \in Running \cup {"raised"} /\ ssi'[t].live /\ ~ssi'[t].committed
    BY <1>1, <1>2, <1>3 DEF Running
  <2>. QED
    BY <1>2, <1>3, <2>1, StaysRunning
<1>5. ConflictsRecorded'
  <2>1. \A v, u \in Txns : Sees(v, u)' <=> Sees(v, u)
    BY <1>3, SeesSame DEF SameLevel, OthersStay
  <2>2. ASSUME NEW v \in Txns, NEW u \in Txns, v # u, ssi[v].live, ssi[u].live,
               ssi'[v].reads \cap ssi[u].writes # {}, ~Sees(v, u)
        PROVE  u \in ssi'[v].outgoing
    <3>1. CASE ssi[v].reads \cap ssi[u].writes # {}
      BY <1>2, <2>2, <3>1 DEF SsiInv, ConflictsRecorded
    <3>2. CASE ssi[v].reads \cap ssi[u].writes = {}
      <4>1. v = t /\ table \in ssi[u].writes
        BY <1>2, <2>2, <3>2
      <4>. QED
        BY <1>2, <2>2, <4>1
    <3>. QED
      BY <3>1, <3>2
  <2>. QED
    BY <1>2, <2>1, <2>2 DEF ConflictsRecorded
<1>. QED
  BY <1>2, <1>4, <1>5 DEF SsiInv, Graph

\* A write.
LEMMA WritingSteps ==
    ASSUME Types, Types', SsiInv, NEW t \in Txns, NEW table \in Tables, Writes(t, table)
    PROVE  SsiInv'
<1>1. /\ ssi[t].live /\ ~ssi[t].committed /\ ssi \in [Txns -> SsiRecord] /\ Graph(ssi)
      /\ ssi' = record_write(ssi, t, table)
  BY DEF Writes, SsiInv, Tracked, Running, Decided, Types
<1>2. /\ Graph(ssi')
      /\ \A u \in Txns : ssi'[u].live = ssi[u].live /\ ssi'[u].committed = ssi[u].committed
                         /\ ssi'[u].reads = ssi[u].reads
      /\ ssi'[t].writes = ssi[t].writes \cup {table}
      /\ \A u \in Txns \ {t} : ssi'[u].writes = ssi[u].writes
      /\ \A u, v \in Txns : v \in ssi[u].outgoing => v \in ssi'[u].outgoing
      /\ \A u \in Txns \ {t} : ssi[u].live /\ table \in ssi[u].reads => t \in ssi'[u].outgoing
  BY <1>1, WriteGraph
<1>3. /\ SameLevel(t) /\ UsesSsi(t) /\ Phase(t) = "waiting" /\ session'[t].phase = "idle"
      /\ session'[t].savepoint = session[t].savepoint /\ session'[t].snapshot = session[t].snapshot
  BY DEF Writes
<1>4. Tracked' /\ UnreadUntilSafe'
  <2>1. Phase(t) \in Running \cup {"raised"} /\ ssi'[t].live /\ ~ssi'[t].committed
    BY <1>1, <1>2, <1>3 DEF Running
  <2>2. NeedsSafeSnapshot(t) => ssi'[t].reads = {}
    BY <1>2, <1>3 DEF SsiInv, UnreadUntilSafe, Running
  <2>. QED
    BY <1>2, <1>3, <2>1, <2>2, StaysRunning
<1>5. ConflictsRecorded'
  <2>1. \A v, u \in Txns : Sees(v, u)' <=> Sees(v, u)
    BY <1>3, SeesSame DEF SameLevel, OthersStay
  <2>2. ASSUME NEW v \in Txns, NEW u \in Txns, v # u, ssi[v].live, ssi[u].live,
               ssi[v].reads \cap ssi'[u].writes # {}, ~Sees(v, u)
        PROVE  u \in ssi'[v].outgoing
    <3>1. CASE ssi[v].reads \cap ssi[u].writes # {}
      BY <1>2, <2>2, <3>1 DEF SsiInv, ConflictsRecorded
    <3>2. CASE ssi[v].reads \cap ssi[u].writes = {}
      <4>1. u = t /\ table \in ssi[v].reads
        BY <1>2, <2>2, <3>2
      <4>. QED
        BY <1>2, <2>2, <4>1
    <3>. QED
      BY <3>1, <3>2
  <2>. QED
    BY <1>2, <2>1, <2>2 DEF ConflictsRecorded
<1>. QED
  BY <1>2, <1>4, <1>5 DEF SsiInv, Graph

\* A rollback to a savepoint.
LEMMA RollingBackSteps ==
    ASSUME Types, Types', SsiInv, NEW t \in Txns, RollsBack(t)
    PROVE  SsiInv'
<1>. DEFINE saved == session[t].savepoint.predicates
<1>1. /\ ssi[t].live /\ ~ssi[t].committed /\ ssi \in [Txns -> SsiRecord] /\ Graph(ssi)
      /\ ssi' = ssi_rollback_to(ssi, t, saved) /\ saved \in Predicates
  BY DEF RollsBack, SsiInv, Tracked, Running, Decided, Types, Transaction, Savepoint
<1>2. /\ SameLevel(t) /\ UsesSsi(t) /\ Phase(t) \in {"idle", "failed"} /\ session'[t].phase = "idle"
      /\ session'[t].savepoint = session[t].savepoint /\ session'[t].snapshot = session[t].snapshot
  BY DEF RollsBack
<1>3. NeedsSafeSnapshot(t) => saved.reads = {}
  BY <1>2 DEF SsiInv, UnreadUntilSafe, Running
<1>. HIDE DEF saved
<1>4. /\ Graph(ssi')
      /\ \A u \in Txns : ssi'[u].live = ssi[u].live /\ ssi'[u].committed = ssi[u].committed
      /\ ssi'[t].reads = saved.reads /\ ssi'[t].writes = saved.writes
      /\ \A u \in Txns \ {t} : ssi'[u].reads = ssi[u].reads /\ ssi'[u].writes = ssi[u].writes
      /\ \A u, v \in Txns \ {t} : v \in ssi[u].outgoing => v \in ssi'[u].outgoing
      /\ \A u \in Txns \ {t} :
            /\ ssi[u].live /\ saved.reads \cap ssi[u].writes # {} => u \in ssi'[t].outgoing
            /\ ssi[u].live /\ ssi[u].reads \cap saved.writes # {} => t \in ssi'[u].outgoing
  BY <1>1, RollbackGraph
<1>5. Tracked' /\ UnreadUntilSafe'
  <2>1. Phase(t) \in Running \cup {"raised"} /\ ssi'[t].live /\ ~ssi'[t].committed
    BY <1>1, <1>2, <1>4 DEF Running
  <2>. QED
    BY <1>2, <1>3, <1>4, <2>1, StaysRunning
<1>6. ConflictsRecorded'
  <2>1. \A v, u \in Txns : Sees(v, u)' <=> Sees(v, u)
    BY <1>2, SeesSame DEF SameLevel, OthersStay
  <2>2. ASSUME NEW v \in Txns, NEW u \in Txns, v # u, ssi[v].live, ssi[u].live,
               ssi'[v].reads \cap ssi'[u].writes # {}, ~Sees(v, u)
        PROVE  u \in ssi'[v].outgoing
    <3>1. CASE v = t
      BY <1>4, <2>2, <3>1
    <3>2. CASE u = t
      BY <1>4, <2>2, <3>2
    <3>3. CASE v # t /\ u # t
      BY <1>4, <2>2, <3>3 DEF SsiInv, ConflictsRecorded
    <3>. QED
      BY <3>1, <3>2, <3>3
  <2>. QED
    BY <1>4, <2>1, <2>2 DEF ConflictsRecorded
<1>. QED
  BY <1>4, <1>5, <1>6 DEF SsiInv, Graph

\* Records that go do not touch what is known of the others.
LEMMA RemovalKeeps ==
    ASSUME Types, SsiInv, NEW t \in Txns, NEW s \in [Txns -> SsiRecord], NEW gone \in SUBSET Txns,
           Graph(s), ssi' = remove_transactions(s, gone),
           \A u \in Txns : /\ s[u].live = ssi[u].live
                           /\ s[u].reads = ssi[u].reads /\ s[u].writes = ssi[u].writes
                           /\ s[u].outgoing = ssi[u].outgoing,
           \A u \in Txns : session'[u].snapshot = session[u].snapshot
    PROVE  /\ Graph(ssi') /\ ConflictsRecorded'
           /\ \A u \in Txns : ssi'[u].live => ssi[u].live /\ u \notin gone
           /\ \A u \in Txns \ gone : /\ ssi'[u].live <=> ssi[u].live
                                     /\ ssi'[u].committed <=> s[u].committed
           /\ \A u \in Txns : ssi[u].reads = {} => ssi'[u].reads = {}
<1>1. /\ \A u \in gone : ssi'[u] = NoSsi /\ ~ssi'[u].live
      /\ \A u \in Txns \ gone :
                 /\ ssi'[u].live <=> s[u].live
                 /\ ssi'[u].committed <=> s[u].committed
                 /\ ssi'[u].reads = s[u].reads /\ ssi'[u].writes = s[u].writes
                 /\ ssi'[u].incoming = s[u].incoming \ gone
                 /\ ssi'[u].outgoing = s[u].outgoing \ gone
  BY RemoveFacts
<1>2. Graph(ssi')
  BY RemoveKeepsGraph
<1>3. NoSsi.reads = {}
  BY DEF NoSsi
<1>4. \A v, u \in Txns : Sees(v, u)' <=> Sees(v, u)
  BY SeesSame
<1>5. ASSUME NEW v \in Txns, NEW u \in Txns, v # u, ssi'[v].live, ssi'[u].live,
             ssi'[v].reads \cap ssi'[u].writes # {}, ~Sees(v, u)
      PROVE  u \in ssi'[v].outgoing
  <2>1. u \notin gone /\ v \notin gone /\ ssi[v].live /\ ssi[u].live
    BY <1>1, <1>5
  <2>2. u \in ssi[v].outgoing
    BY <2>1, <1>1, <1>5 DEF SsiInv, ConflictsRecorded
  <2>. QED
    BY <2>1, <2>2, <1>1
<1>6. ConflictsRecorded'
  BY <1>4, <1>5 DEF ConflictsRecorded
<1>. QED
  BY <1>1, <1>2, <1>3, <1>6

\* An end without a commit.
LEMMA AbortingSteps ==
    ASSUME Types, Types', SsiInv, NEW t \in Txns, Aborts(t)
    PROVE  SsiInv'
<1>1. /\ ssi \in [Txns -> SsiRecord] /\ Graph(ssi) /\ {t} \in SUBSET Txns
      /\ ssi' = remove_transactions(ssi, {t})
  BY DEF Aborts, ssi_abort, SsiInv, Types
<1>2. /\ SameLevel(t) /\ session'[t].phase = "aborted"
      /\ session'[t].savepoint = session[t].savepoint /\ session'[t].snapshot = session[t].snapshot
      /\ \A u \in Txns \ {t} : session'[u] = session[u]
  BY DEF Aborts, SameLevel, OthersStay
<1>3. \A u \in Txns : session'[u].snapshot = session[u].snapshot
  BY <1>2
<1>4. /\ Graph(ssi') /\ ConflictsRecorded'
      /\ \A u \in Txns : ssi'[u].live => ssi[u].live /\ u # t
      /\ \A u \in Txns \ {t} : /\ ssi'[u].live <=> ssi[u].live
                               /\ ssi'[u].committed <=> ssi[u].committed
      /\ \A u \in Txns : ssi[u].reads = {} => ssi'[u].reads = {}
  BY <1>1, <1>3, RemovalKeeps
<1>5. Tracked'
  BY <1>2, <1>4 DEF SsiInv, Tracked, Phase, UsesSsi, Running
<1>6. UnreadUntilSafe'
  BY <1>2, <1>4 DEF SsiInv, UnreadUntilSafe, Phase, UsesSsi, Running, NeedsSafeSnapshot, Unbegun
<1>. QED
  BY <1>4, <1>5, <1>6 DEF SsiInv, Graph

\* The records cleanup_before takes away.
Obsolete(t) ==
    {u \in Txns : /\ ssi_commit(ssi, t)[u].live /\ ssi_commit(ssi, t)[u].committed
                  /\ u < global_xmin_excluding(t)
                  /\ session[u].snapshot.xmax < global_xmin_excluding(t)}

\* A commit that validation lets through, and the records it makes obsolete.
LEMMA ValidatingSteps ==
    ASSUME Types, Types', SsiInv, NEW t \in Txns, Validates(t)
    PROVE  /\ SsiInv'
           /\ \A u \in Txns : ssi'[u].live <=> ssi[u].live /\ u \notin Obsolete(t)
           /\ \A u \in Obsolete(t) : ssi[u].live
<1>. DEFINE s == ssi_commit(ssi, t)
            gone == Obsolete(t)
<1>1. /\ ssi \in [Txns -> SsiRecord] /\ Graph(ssi) /\ gone \in SUBSET Txns
      /\ ssi' = remove_transactions(s, gone)
  BY DEF Validates, cleanup_before, SsiInv, Types, Obsolete
<1>2. /\ SameLevel(t) /\ session'[t].phase = "validated" /\ Phase(t) = "idle" /\ UsesSsi(t)
      /\ session'[t].savepoint = session[t].savepoint /\ session'[t].snapshot = session[t].snapshot
      /\ \A u \in Txns \ {t} : session'[u] = session[u]
  BY DEF Validates, SameLevel, OthersStay
<1>3. \A u \in Txns : session'[u].snapshot = session[u].snapshot
  BY <1>2
<1>4. /\ s \in [Txns -> SsiRecord]
      /\ \A u \in Txns : /\ s[u].live = ssi[u].live
                         /\ s[u].reads = ssi[u].reads /\ s[u].writes = ssi[u].writes
                         /\ s[u].outgoing = ssi[u].outgoing /\ s[u].incoming = ssi[u].incoming
      /\ s[t].committed
      /\ \A u \in Txns \ {t} : s[u].committed = ssi[u].committed
  <2>1. s \in [Txns -> SsiRecord]
    BY <1>1, SsiTypes
  <2>2. s[t] = [ssi[t] EXCEPT !.committed = TRUE] /\ \A u \in Txns \ {t} : s[u] = ssi[u]
    BY <1>1 DEF ssi_commit
  <2>3. ssi[t] \in SsiRecord
    BY <1>1
  <2>4. /\ s[t].live = ssi[t].live
        /\ s[t].reads = ssi[t].reads /\ s[t].writes = ssi[t].writes
        /\ s[t].outgoing = ssi[t].outgoing /\ s[t].incoming = ssi[t].incoming
        /\ s[t].committed
    BY <2>2, <2>3 DEF SsiRecord
  <2>. QED
    BY <2>1, <2>2, <2>4
<1>5. Graph(s)
  BY <1>1, <1>4 DEF Graph
<1>6. \A u \in gone : ssi[u].live
  BY <1>4 DEF Obsolete
<1>. HIDE DEF s, gone
<1>7. /\ Graph(ssi') /\ ConflictsRecorded'
      /\ \A u \in Txns : ssi'[u].live => ssi[u].live /\ u \notin gone
      /\ \A u \in Txns \ gone : /\ ssi'[u].live <=> ssi[u].live
                                /\ ssi'[u].committed <=> s[u].committed
      /\ \A u \in Txns : ssi[u].reads = {} => ssi'[u].reads = {}
  BY <1>1, <1>3, <1>4, <1>5, RemovalKeeps
<1>8. Tracked'
  <2>1. ASSUME NEW u \in Txns, ssi'[u].live
        PROVE  /\ UsesSsi(u)' /\ Phase(u)' \in Running \cup Decided
               /\ ssi'[u].committed <=> Phase(u)' \in Decided
    <3>1. u \notin gone /\ ssi[u].live /\ (ssi'[u].committed <=> s[u].committed)
      BY <2>1, <1>7
    <3>2. CASE u = t
      BY <3>1, <3>2, <1>2, <1>4 DEF SameLevel, Phase, UsesSsi, Decided
    <3>3. CASE u # t
      BY <3>1, <3>3, <1>2, <1>4 DEF SsiInv, Tracked, Phase, UsesSsi
    <3>. QED
      BY <3>2, <3>3
  <2>2. ASSUME NEW u \in Txns, UsesSsi(u)', Phase(u)' \in Running
        PROVE  ssi'[u].live
    <3>1. u # t
      BY <2>2, <1>2 DEF Phase, Running
    <3>2. UsesSsi(u) /\ Phase(u) \in Running
      BY <2>2, <3>1, <1>2 DEF Phase, UsesSsi
    <3>3. ssi[u].live /\ ~ssi[u].committed
      BY <3>2 DEF SsiInv, Tracked, Running, Decided
    <3>4. u \notin gone
      BY <3>1, <3>3, <1>4 DEF gone, Obsolete, s
    <3>. QED
      BY <3>3, <3>4, <1>7
  <2>. QED
    BY <2>1, <2>2 DEF Tracked
<1>9. UnreadUntilSafe'
  BY <1>2, <1>7 DEF SsiInv, UnreadUntilSafe, Phase, UsesSsi, Running, NeedsSafeSnapshot, Unbegun
<1>10. SsiInv'
  BY <1>7, <1>8, <1>9 DEF SsiInv, Graph
<1>. QED
  BY <1>10, <1>6, <1>7 DEF gone

-----------------------------------------------------------------------------
(***************************************************************************)
(* cleanup_before: which records it may take.  A BEGIN that overlaps the   *)
(* COMMIT of a serializable transaction is left out (see README): the      *)
(* statement is about histories where it does not.                         *)
(***************************************************************************)
SerializableCommitsAlone ==
    \A s \in Setups : "commit" \in s.overlap =>
        \A t \in Txns : s.levels[t] \cap {"Serializable", "Deferrable"} = {}

RecordsInv ==
    \* Only the histories without that overlap have serializable transactions,
    /\ (\E t \in Txns : UsesSsi(t)) => "commit" \notin setup.overlap
    \* in those no BEGIN is under way during a COMMIT,
    /\ "commit" \notin setup.overlap =>
           \A t, u \in Txns : ~(Beginning(t) /\ Committing(u))
    \* of two active transactions the later snapshot lists the other one,
    /\ \A r, t \in Txns : r # t /\ Phase(r) \in Active /\ Phase(t) \in Active =>
           \/ t \in session[r].snapshot.in_progress
           \/ session[r].snapshot.xmax <= session[t].snapshot.xmax
    \* a transaction cleans up its own record only if it is alone,
    /\ \A u \in Txns : UsesSsi(u) /\ Phase(u) \in {"validated", "marked"} =>
           ssi[u].live \/ \A r \in Txns \ {u} : Phase(r) \notin Active
    \* and the other records stay.
    /\ ConcurrentRecordsKept

SameLives ==
    \A u \in Txns : /\ ssi'[u].live <=> ssi[u].live
                    /\ ssi'[u].committed <=> ssi[u].committed

Begins(t) ==
    /\ OthersStay(t) /\ MayBegin(t)
    /\ Phase(t) = "none" /\ session'[t].phase = "allocated"
    /\ session'[t].level \in setup.levels[t]
    /\ session'[t].snapshot = session[t].snapshot
    /\ SameLives

\* register, for any level.
Enters(t) ==
    /\ SameLevel(t)
    /\ Phase(t) = "raised" /\ session'[t].phase = "idle"
    /\ session'[t].snapshot = snapshot_locked(t)
    /\ \A u \in Txns \ {t} : /\ ssi'[u].live <=> ssi[u].live
                             /\ ssi'[u].committed <=> ssi[u].committed

Resnapshots(t) ==
    /\ SameLevel(t)
    /\ Phase(t) = "idle" /\ session'[t].phase = "statement"
    /\ session'[t].snapshot = snapshot_locked(t)
    /\ SameLives

Runs(t) ==
    /\ SameLevel(t)
    /\ \/ Phase(t) \in Running /\ session'[t].phase \in Running
       \/ Phase(t) = "allocated" /\ session'[t].phase = "raised"
       \/ Phase(t) = "validated" /\ session'[t].phase \in {"marked", "committed"}
       \/ Phase(t) = "marked" /\ session'[t].phase = "completed"
       \/ Phase(t) = "completed" /\ session'[t].phase = "committed"
    /\ session'[t].snapshot = session[t].snapshot
    /\ SameLives

Ends(t) ==
    /\ SameLevel(t)
    /\ Phase(t) # "none" /\ session'[t].phase = "aborted"
    /\ session'[t].snapshot = session[t].snapshot
    /\ ~ssi'[t].live
    /\ \A u \in Txns \ {t} : /\ ssi'[u].live <=> ssi[u].live
                             /\ ssi'[u].committed <=> ssi[u].committed

ValidatesAny(t) ==
    /\ SameLevel(t) /\ MayCommit
    /\ Phase(t) = "idle" /\ session'[t].phase = "validated"
    /\ session'[t].snapshot = session[t].snapshot
    /\ \/ Validates(t)
       \/ ~UsesSsi(t) /\ SameLives

\* The horizon is at most the xmin of every other running transaction.
LEMMA HorizonFacts ==
    ASSUME Types, NEW t \in Txns, NEW r \in Txns \ {t}, Phase(r) \in Active
    PROVE  /\ global_xmin_excluding(t) \in Nat
           /\ global_xmin_excluding(t) <= session[r].snapshot.xmin
<1>. DEFINE others == ActiveSet \ {t}
            S == {session[u].snapshot.xmin : u \in others}
<1>1. r \in others
  BY DEF ActiveSet
<1>2. S \subseteq Nat /\ session[r].snapshot.xmin \in S
  BY <1>1, TxnsAreNaturals DEF Types, Transaction, Snapshots, ActiveSet
<1>3. global_xmin_excluding(t) = Min(S)
  BY <1>1 DEF global_xmin_excluding
<1>. HIDE DEF S
<1>. QED
  BY <1>2, <1>3, MinFacts

\* The snapshot of a transaction, in numbers.
LEMMA NumberFacts ==
    ASSUME Types, IdsInv, NEW t \in Txns
    PROVE  /\ t \in Nat /\ next_transaction_id \in Nat
           /\ session[t].snapshot.xmin \in Nat /\ session[t].snapshot.xmax \in Nat
           /\ session[t].snapshot.xmin <= session[t].snapshot.xmax
           /\ session[t].snapshot.xmax <= next_transaction_id
           /\ session[t].snapshot.in_progress \subseteq Txns
           /\ \A u \in session[t].snapshot.in_progress : session[t].snapshot.xmin <= u
           /\ Phase(t) \notin {"none", "allocated"} => t < next_transaction_id
<1>1. N + 1 \in Nat /\ t \in Nat
  BY TxnsAreNaturals
<1>2. /\ session[t].snapshot.xmin \in Nat /\ session[t].snapshot.xmax \in Nat
      /\ session[t].snapshot.in_progress \subseteq Txns /\ next_transaction_id \in Nat
  BY <1>1 DEF Types, Transaction, Snapshots
<1>3. SnapshotIsSound(session[t].snapshot, next_transaction_id)
  BY DEF IdsInv
<1>4. Phase(t) \notin {"none", "allocated"} => t < next_transaction_id
  BY DEF IdsInv
<1>. QED
  BY <1>1, <1>2, <1>3, <1>4 DEF SnapshotIsSound

\* What a new snapshot shows.
LEMMA NewSnapshot ==
    ASSUME Types, IdsInv, NEW t \in Txns, session'[t].snapshot = snapshot_locked(t),
           NEW u \in Txns \ {t}
    PROVE  /\ Phase(u) \notin Unbegun => (Sees(t, u)' <=> Phase(u) \notin Active)
           /\ Phase(u) \in Active <=> u \in session'[t].snapshot.in_progress
           /\ session[u].snapshot.xmax <= session'[t].snapshot.xmax
           /\ session'[t].snapshot.xmax = next_transaction_id
<1>1. /\ session'[t].snapshot.xmax = next_transaction_id
      /\ session'[t].snapshot.in_progress = ActiveSet \ {t}
  BY SnapshotType
<1>2. /\ session[u].snapshot.xmax <= next_transaction_id
      /\ Phase(u) \notin Unbegun => u < next_transaction_id
  BY NumberFacts DEF Unbegun
<1>3. Phase(u) \in Active <=> u \in session'[t].snapshot.in_progress
  BY <1>1 DEF ActiveSet
<1>4. u # Frozen
  BY TxnsAreNaturals DEF Frozen
<1>. QED
  BY <1>1, <1>2, <1>3, <1>4 DEF Sees, sees_transaction

-----------------------------------------------------------------------------
(***************************************************************************)
(* Every step is one of the moves of each part of the invariant.           *)
(***************************************************************************)
\* Ids and snapshots.
LEMMA StepsMoveIds ==
    ASSUME Types, IdsInv, NEW t \in Txns, Step(t)
    PROVE  Types' /\ IdMoves(t) /\ OthersStay(t) /\ setup' = setup
<1>1. setup' = setup
  BY DEF Step, begin_durable, raise_high_water, register, begin_statement, wait_for_safe_snapshot,
         cancel_safe_snapshot, refresh_conflict, select, update, locks_acquired, lock_refused,
         create_sql_savepoint, rollback_to_sql_savepoint, validate_commit, merge_candidate,
         finish_commit, publish, commit_empty, rollback_sql_transaction, Enter
<1>. USE DEF IdMoves, OthersStay, Becomes, Turns, Phases, Active, Unbegun, Ended
<1>2. CASE begin_durable(t)
  BY <1>1, <1>2, BeginDoes DEF begin_durable, Opens
<1>3. CASE raise_high_water(t)
  BY <1>1, <1>3, RaiseDoes DEF raise_high_water
<1>4. CASE register(t)
  BY <1>1, <1>4, RegisterDoes DEF register
<1>5. CASE begin_statement(t)
  BY <1>1, <1>5, StatementDoes DEF begin_statement, Enter, MayStart
<1>6. CASE wait_for_safe_snapshot(t)
  BY <1>1, <1>6, SafeDoes DEF wait_for_safe_snapshot, Enter, MayStart
<1>7. CASE cancel_safe_snapshot(t)
  BY <1>1, <1>7, CancelDoes DEF cancel_safe_snapshot, MayStart
<1>8. CASE refresh_conflict(t)
  BY <1>1, <1>8, ConflictDoes DEF refresh_conflict
<1>9. CASE \E table \in Tables : select(t, table)
  BY <1>1, <1>9, SelectDoes DEF select
<1>10. CASE \E r \in Rows, kind \in Kinds : update(t, r, kind)
  BY <1>1, <1>10, UpdateDoes DEF update
<1>11. CASE locks_acquired(t)
  BY <1>1, <1>11, WriteDoes DEF locks_acquired
<1>12. CASE lock_refused(t)
  BY <1>1, <1>12, RefusedDoes DEF lock_refused
<1>13. CASE create_sql_savepoint(t)
  BY <1>1, <1>13, SavepointDoes DEF create_sql_savepoint
<1>14. CASE rollback_to_sql_savepoint(t)
  BY <1>1, <1>14, RollbackToDoes DEF rollback_to_sql_savepoint
<1>15. CASE validate_commit(t)
  BY <1>1, <1>15, ValidateDoes DEF validate_commit
<1>16. CASE merge_candidate(t)
  BY <1>1, <1>16, MergeDoes DEF merge_candidate
<1>17. CASE finish_commit(t)
  BY <1>1, <1>17, FinishDoes DEF finish_commit
<1>18. CASE publish(t)
  BY <1>1, <1>18, PublishDoes DEF publish
<1>19. CASE commit_empty(t)
  BY <1>1, <1>19, EmptyDoes DEF commit_empty
<1>20. CASE rollback_sql_transaction(t)
  BY <1>1, <1>20, RollbackDoes DEF rollback_sql_transaction
<1>. QED
  BY <1>2, <1>3, <1>4, <1>5, <1>6, <1>7, <1>8, <1>9, <1>10, <1>11, <1>12, <1>13, <1>14, <1>15,
     <1>16, <1>17, <1>18, <1>19, <1>20 DEF Step

\* Chains, bases and working states.
LEMMA StepsMoveChains ==
    ASSUME Types, IdsInv, NEW t \in Txns, Step(t)
    PROVE  Works(t) \/ Commits(t)
<1>0. begin_durable(t) => Phase(t) = "none"
  BY TxnsAreNaturals DEF begin_durable, IdsInv, Types
<1>. DEFINE x == session[t]
<1>. USE DEF Holds, Locks, Ended
<1>1. \A phase \in Phases \ (Locks \cup {"committed"}) :
         Phase(t) \notin Ended \cup Locks /\ versions' = versions /\ Turns(t, phase) => Works(t)
  BY DEF Works, Turns, Becomes
<1>2. \A phase \in Phases \ (Locks \cup {"committed"}) : \A sn :
         /\ Phase(t) \notin Ended \cup Locks /\ versions' = versions
         /\ Becomes(t, phase, sn, x.base, x.working, x.savepoint)
         => Works(t)
  BY DEF Works, Becomes
<1>3. \A phase \in Phases \ (Locks \cup {"committed"}) : \A sn :
         /\ Phase(t) \notin Ended \cup Locks /\ versions' = versions
         /\ x.working = {} \/ ~MergeConflict(t)
         /\ Becomes(t, phase, sn, versions, x.working, x.savepoint)
         => Works(t)
  BY DEF Works, Becomes
<1>4. {"none", "allocated", "raised", "idle", "statement", "waiting", "failed", "validated",
       "aborted"} \subseteq Phases \ (Locks \cup {"committed"})
  BY DEF Phases, Unbegun, Active
<1>5. CASE begin_durable(t)
  BY <1>0, <1>4, <1>5, BeginDoes DEF begin_durable, Opens, Works
<1>6. CASE raise_high_water(t)
  BY <1>1, <1>4, <1>6, RaiseDoes DEF raise_high_water
<1>7. CASE register(t)
  BY <1>1, <1>2, <1>4, <1>7, RegisterDoes DEF register
<1>8. CASE begin_statement(t)
  BY <1>2, <1>4, <1>8, StatementDoes DEF begin_statement, Enter, MayStart
<1>9. CASE wait_for_safe_snapshot(t)
  BY <1>2, <1>4, <1>9, SafeDoes DEF wait_for_safe_snapshot, Enter, MayStart
<1>10. CASE cancel_safe_snapshot(t)
  BY <1>1, <1>4, <1>10, CancelDoes DEF cancel_safe_snapshot, MayStart
<1>11. CASE refresh_conflict(t)
  BY <1>1, <1>4, <1>11, ConflictDoes DEF refresh_conflict
<1>12. CASE \E table \in Tables : select(t, table)
  BY <1>2, <1>3, <1>4, <1>12, SelectDoes DEF select, Base
<1>13. CASE \E r \in Rows, kind \in Kinds : update(t, r, kind)
  <2>1. PICK r \in Rows, kind \in Kinds : update(t, r, kind)
    BY <1>13
  <2>2. /\ Phase(t) = "statement" /\ versions' = versions
        /\ ~(Rebases(t) /\ MergeConflict(t))
    BY <2>1 DEF update
  <2>3. PICK phase \in {"failed", "waiting"},
             b \in {IF x.working = {} THEN versions ELSE Base(t), x.base} :
           Becomes(t, phase, x.snapshot, b, x.working, x.savepoint)
    BY <2>1, UpdateDoes
  <2>4. CASE b = x.base
    BY <1>2, <1>4, <2>2, <2>3, <2>4
  <2>5. CASE b # x.base
    <3>1. b = versions /\ (x.working = {} \/ ~MergeConflict(t))
      BY <2>2, <2>3, <2>5 DEF Base
    <3>. QED
      BY <1>3, <1>4, <2>2, <2>3, <3>1
  <2>. QED
    BY <2>4, <2>5
<1>14. CASE locks_acquired(t)
  <2>1. Phase(t) = "waiting" /\ versions' = versions
    BY <1>14 DEF locks_acquired
  <2>2. CASE Turns(t, "idle")
    BY <1>1, <1>4, <2>1, <2>2
  <2>3. CASE ~Turns(t, "idle")
    <3>1. /\ x.want \in Rows
          /\ Becomes(t, "idle", x.snapshot, x.base,
                     x.working \cup {<<x.want, Newest(x.base[x.want])>>}, x.savepoint)
      BY <1>14, <2>3, WriteDoes DEF Newest
    <3>. QED
      BY <1>4, <2>1, <3>1 DEF Works, Becomes
  <2>. QED
    BY <2>2, <2>3
<1>15. CASE lock_refused(t)
  BY <1>1, <1>4, <1>15, RefusedDoes DEF lock_refused
<1>16. CASE create_sql_savepoint(t)
  BY <1>4, <1>16, SavepointDoes DEF create_sql_savepoint, Works, Becomes
<1>17. CASE rollback_to_sql_savepoint(t)
  BY <1>4, <1>17, RollbackToDoes DEF rollback_to_sql_savepoint, Works, Becomes
<1>18. CASE validate_commit(t)
  BY <1>1, <1>4, <1>18, ValidateDoes DEF validate_commit
<1>19. CASE merge_candidate(t)
  <2>1. Phase(t) = "validated" /\ versions' = versions /\ ~StateLocked
    BY <1>19 DEF merge_candidate
  <2>2. CASE MergeConflict(t)
    <3>1. /\ {} \in SUBSET (Rows \X Nat) /\ "aborted" \in Phases \ {"statement"}
          /\ session' = [session EXCEPT ![t].phase = "aborted", ![t].locks = {}]
      BY <1>19, <2>2 DEF merge_candidate, Drop, Phases
    <3>2. Turns(t, "aborted")
      BY <3>1, PhaseEnds DEF Turns
    <3>. QED
      BY <1>1, <1>4, <2>1, <3>2
  <2>3. CASE ~MergeConflict(t)
    <3>1. Turns(t, "marked")
      BY <1>19, <2>3, PhaseChanges DEF merge_candidate, Turns, Phases, Active
    <3>. QED
      BY <2>1, <2>3, <3>1 DEF Commits, Keeps, Turns, Becomes
  <2>. QED
    BY <2>2, <2>3
<1>20. CASE finish_commit(t)
  BY <1>20, FinishDoes DEF finish_commit, Commits, Keeps, Turns, Becomes
<1>21. CASE publish(t)
  BY <1>21, PublishDoes DEF publish, Commits, Keeps, Turns, Becomes
<1>22. CASE commit_empty(t)
  BY <1>22, EmptyDoes DEF commit_empty, Commits, Keeps, Turns, Becomes
<1>23. CASE rollback_sql_transaction(t)
  BY <1>1, <1>4, <1>23, RollbackDoes DEF rollback_sql_transaction
<1>. QED
  BY <1>5, <1>6, <1>7, <1>8, <1>9, <1>10, <1>11, <1>12, <1>13, <1>14, <1>15, <1>16, <1>17, <1>18,
     <1>19, <1>20, <1>21, <1>22, <1>23 DEF Step

\* The SSI manager.
GraphMoves(t) ==
    \/ Allocates(t) \/ GoesOn(t) \/ MarksSavepoint(t) \/ TakesSafeSnapshot(t) \/ Registers(t)
    \/ \E table \in Tables : Reads(t, table) \/ Writes(t, table)
    \/ RollsBack(t) \/ Aborts(t) \/ Validates(t)

\* Every step of a transaction is one of the moves of the graph.
LEMMA StepsMoveGraph ==
    ASSUME Types, IdsInv, NEW t \in Txns, Step(t)
    PROVE  GraphMoves(t)
<1>0. begin_durable(t) => Phase(t) = "none"
  BY TxnsAreNaturals DEF begin_durable, IdsInv, Types
<1>. DEFINE x == session[t]
            y == session'[t]
            Same == y.snapshot = x.snapshot /\ y.savepoint = x.savepoint
<1>. USE DEF SameLevel, OthersStay, Becomes, Turns, Unbegun, Running, Decided, GraphMoves
<1>1. CASE begin_durable(t)
  BY <1>0, <1>1, BeginDoes DEF begin_durable, Opens, Allocates
<1>2. CASE raise_high_water(t)
  BY <1>2, RaiseDoes DEF raise_high_water, GoesOn
<1>3. CASE register(t)
  <2>1. CASE UsesSsi(t) /\ ssi_full(ssi)
    <3>1. SameLevel(t) /\ y.phase = "aborted" /\ Same /\ ssi' = ssi /\ Phase(t) = "raised"
      BY <1>3, <2>1, PhaseChanges DEF register, Phases, Ended
    <3>. QED
      BY <3>1 DEF GoesOn
  <2>2. CASE ~(UsesSsi(t) /\ ssi_full(ssi))
    <3>1. /\ snapshot_locked(t) \in Snapshots /\ "idle" \in Phases \ {"statement"}
          /\ session' = [session EXCEPT ![t].phase = "idle", ![t].snapshot = snapshot_locked(t)]
      BY <1>3, <2>2, SnapshotType DEF register, Phases, Active
    <3>2. SameLevel(t) /\ y.phase = "idle" /\ y.savepoint = x.savepoint /\ Phase(t) = "raised"
      BY <1>3, <3>1, SnapshotTaken DEF register
    <3>3. CASE UsesSsi(t)
      BY <1>3, <2>2, <3>2, <3>3 DEF register, Registers
    <3>4. CASE ~UsesSsi(t)
      BY <1>3, <2>2, <3>2, <3>4 DEF register, GoesOn
    <3>. QED
      BY <3>3, <3>4
  <2>. QED
    BY <2>1, <2>2
<1>4. CASE begin_statement(t)
  <2>1. SameLevel(t) /\ y.phase = "statement" /\ y.savepoint = x.savepoint
        /\ (x.level # "ReadCommitted" => y.snapshot = x.snapshot)
    BY <1>4, StatementDoes
  <2>2. Phase(t) = "idle" /\ ssi' = ssi
    BY <1>4 DEF begin_statement, Enter, MayStart
  <2>. QED
    BY <2>1, <2>2 DEF GoesOn, UsesSsi
<1>5. CASE wait_for_safe_snapshot(t)
  BY <1>5, SafeDoes DEF wait_for_safe_snapshot, Enter, MayStart, TakesSafeSnapshot
<1>6. CASE cancel_safe_snapshot(t)
  BY <1>6, CancelDoes DEF cancel_safe_snapshot, MayStart, GoesOn
<1>7. CASE refresh_conflict(t)
  BY <1>7, ConflictDoes DEF refresh_conflict, GoesOn
<1>8. CASE \E table \in Tables : select(t, table)
  BY <1>8, SelectDoes DEF select, GoesOn, Reads
<1>9. CASE \E r \in Rows, kind \in Kinds : update(t, r, kind)
  <2>1. SameLevel(t) /\ y.phase \in {"failed", "waiting"} /\ Same
    BY <1>9, UpdateDoes
  <2>2. Phase(t) = "statement" /\ ssi' = ssi
    BY <1>9 DEF update
  <2>. QED
    BY <2>1, <2>2 DEF GoesOn
<1>10. CASE locks_acquired(t)
  <2>1. SameLevel(t) /\ y.phase = "idle" /\ Same
    BY <1>10, WriteDoes
  <2>2. setup.table_of[x.want] \in Tables
    BY SetupAssumption DEF Types, Transaction
  <2>3. /\ Phase(t) = "waiting"
        /\ ssi' = IF UsesSsi(t) THEN record_write(ssi, t, setup.table_of[x.want]) ELSE ssi
    BY <1>10 DEF locks_acquired
  <2>. QED
    BY <2>1, <2>2, <2>3 DEF GoesOn, Writes
<1>11. CASE lock_refused(t)
  BY <1>11, RefusedDoes DEF lock_refused, GoesOn
<1>12. CASE create_sql_savepoint(t)
  BY <1>12, SavepointDoes DEF create_sql_savepoint, MarksSavepoint
<1>13. CASE rollback_to_sql_savepoint(t)
  BY <1>13, RollbackToDoes DEF rollback_to_sql_savepoint, GoesOn, RollsBack
<1>14. CASE validate_commit(t)
  <2>1. SameLevel(t) /\ Same /\ Phase(t) = "idle"
    BY <1>14, ValidateDoes DEF validate_commit
  <2>2. CASE UsesSsi(t) /\ Dangerous(ssi, t)
    <3>1. ssi' = ssi_abort(ssi, t) /\ session' = [session EXCEPT ![t].phase = "aborted", ![t].locks = {}]
      BY <1>14, <2>2 DEF validate_commit, Drop
    <3>2. y.phase = "aborted"
      BY <3>1 DEF Types, Transaction
    <3>. QED
      BY <2>1, <3>1, <3>2 DEF Aborts
  <2>3. CASE ~(UsesSsi(t) /\ Dangerous(ssi, t))
    <3>1. /\ session' = [session EXCEPT ![t].phase = "validated"]
          /\ ssi' = IF UsesSsi(t) THEN cleanup_before(ssi_commit(ssi, t), global_xmin_excluding(t))
                    ELSE ssi
      BY <1>14, <2>3 DEF validate_commit
    <3>2. y.phase = "validated"
      BY <3>1 DEF Types, Transaction
    <3>. QED
      BY <2>1, <3>1, <3>2 DEF Validates, GoesOn
  <2>. QED
    BY <2>2, <2>3
<1>15. CASE merge_candidate(t)
  <2>1. SameLevel(t) /\ Same /\ Phase(t) = "validated"
    BY <1>15, MergeDoes DEF merge_candidate
  <2>2. CASE MergeConflict(t)
    <3>1. ssi' = ssi_abort(ssi, t) /\ session' = [session EXCEPT ![t].phase = "aborted", ![t].locks = {}]
      BY <1>15, <2>2 DEF merge_candidate, Drop
    <3>2. y.phase = "aborted"
      BY <3>1 DEF Types, Transaction
    <3>. QED
      BY <2>1, <3>1, <3>2 DEF Aborts
  <2>3. CASE ~MergeConflict(t)
    <3>1. session' = [session EXCEPT ![t].phase = "marked"] /\ ssi' = ssi
      BY <1>15, <2>3 DEF merge_candidate
    <3>2. y.phase = "marked"
      BY <3>1 DEF Types, Transaction
    <3>. QED
      BY <2>1, <3>1, <3>2 DEF GoesOn
  <2>. QED
    BY <2>2, <2>3
<1>16. CASE finish_commit(t)
  BY <1>16, FinishDoes DEF finish_commit, GoesOn
<1>17. CASE publish(t)
  BY <1>17, PublishDoes DEF publish, GoesOn
<1>18. CASE commit_empty(t)
  BY <1>18, EmptyDoes DEF commit_empty, GoesOn
<1>19. CASE rollback_sql_transaction(t)
  BY <1>19, RollbackDoes DEF rollback_sql_transaction, Drop, Aborts
<1>. QED
  BY <1>1, <1>2, <1>3, <1>4, <1>5, <1>6, <1>7, <1>8, <1>9, <1>10, <1>11, <1>12, <1>13, <1>14,
     <1>15, <1>16, <1>17, <1>18, <1>19 DEF Step

\* Every move of the graph keeps SsiInv.
LEMMA MovesKeepGraph ==
    ASSUME Types, Types', SsiInv, NEW t \in Txns, GraphMoves(t)
    PROVE  SsiInv'
BY UntrackedSteps, RegisteringSteps, ReadingSteps, WritingSteps, RollingBackSteps, AbortingSteps,
   ValidatingSteps DEF GraphMoves

-----------------------------------------------------------------------------
(***************************************************************************)
(* The invariant of every history: the types and the parts above.          *)
(***************************************************************************)
IsolationInv == Types /\ IdsInv /\ ChainsInv /\ SsiInv

\* The initial state is typed.
LEMMA InitialTypes ==
    ASSUME Init
    PROVE  Types
<1>1. <<Frozen>> \in Seq(Creators) \ {<< >>} /\ Len(<<Frozen>>) = 1 /\ <<Frozen>>[1] = Frozen
  BY DEF Creators
<1>2. Initially \in Chains
  BY <1>1 DEF Initially, Chains
<1>3. NoSnapshot \in Snapshots
  BY TxnsAreNaturals DEF NoSnapshot, Snapshots
<1>4. NoSavepoint \in Savepoint
  BY <1>2 DEF NoSavepoint, Savepoint, Predicates
<1>5. (CHOOSE r \in Rows : TRUE) \in Rows
  BY RowAssumption
<1>6. ASSUME NEW t \in Txns PROVE Idle(t) \in Transaction /\ Idle(t).statements = 0
  <2>1. "none" \in Phases /\ "ReadCommitted" \in Levels
    BY DEF Phases, Unbegun, Levels
  <2>. QED
    BY <1>2, <1>3, <1>4, <1>5, <2>1 DEF Idle, Transaction
<1>7. session \in [Txns -> Transaction] /\ \A t \in Txns : session[t].statements = 0
  BY <1>6 DEF Init
<1>8. ssi \in [Txns -> SsiRecord]
  BY DEF Init, NoSsi, SsiRecord
<1>9. setup.statements \in Nat /\ N \in Nat
  BY SetupAssumption, NAssumption DEF Init
<1>. QED
  BY <1>2, <1>7, <1>8, <1>9 DEF Init, Types

\* The inductive invariant holds initially.
LEMMA IsolationStarts ==
    ASSUME Init
    PROVE  IsolationInv
<1>1. Types
  BY InitialTypes
<1>2. \A t \in Txns : /\ Phase(t) = "none" /\ session[t].level = "ReadCommitted"
                      /\ session[t].snapshot = NoSnapshot /\ session[t].base = Initially
                      /\ session[t].working = {} /\ session[t].savepoint = NoSavepoint
                      /\ ~session[t].safe
  BY DEF Init, Idle, Phase
<1>3. IdsInv
  BY <1>2, TxnsAreNaturals DEF Init, IdsInv, SnapshotIsSound, NoSnapshot, Unbegun
<1>4. ChainsInv
  <2>1. \A r \in Rows : /\ versions[r] = <<Frozen>> /\ Len(versions[r]) = 1
                        /\ versions[r][1] = Frozen /\ Initially[r] = versions[r]
    BY DEF Init, Initially
  <2>2. Started /\ CreatorsDiffer /\ CreatorsCommitted
    BY <2>1 DEF Started, CreatorsDiffer, CreatorsCommitted
  <2>3. BasesWerePublished
    BY <1>2, <2>1 DEF BasesWerePublished, Published, Extends, NoSavepoint
  <2>4. WorkIsOnBase
    BY <1>2 DEF WorkIsOnBase, Supersedes, NoSavepoint
  <2>5. OneWriter /\ MergedIsLatest /\ NoLostUpdate
    BY <1>2 DEF OneWriter, MergedIsLatest, NoLostUpdate, Locks
  <2>. QED
    BY <2>2, <2>3, <2>4, <2>5 DEF ChainsInv
<1>5. SsiInv
  <2>1. \A t \in Txns : ~ssi[t].live /\ ssi[t].outgoing = {} /\ ssi[t].incoming = {} /\ ssi[t].reads = {}
    BY DEF Init, NoSsi
  <2>2. Graph(ssi) /\ ConflictsRecorded
    BY <2>1 DEF Graph, ConflictsRecorded
  <2>3. Tracked /\ UnreadUntilSafe
    BY <1>2, <2>1 DEF Tracked, UnreadUntilSafe, Running, Decided, Unbegun, NeedsSafeSnapshot,
       UsesSsi
  <2>. QED
    BY <2>2, <2>3 DEF SsiInv
<1>. QED
  BY <1>1, <1>3, <1>4, <1>5 DEF IsolationInv

\* The inductive invariant is kept by every step.
LEMMA IsolationGoesOn ==
    ASSUME IsolationInv, [Next]_vars
    PROVE  IsolationInv'
<1>1. CASE UNCHANGED vars
  BY <1>1 DEF IsolationInv, Types, IdsInv, SnapshotIsSound, ChainsInv, Started, CreatorsCommitted,
              CreatorsDiffer, OneWriter, BasesWerePublished, Published, WorkIsOnBase, MergedIsLatest,
              Unchallenged, NoLostUpdate, SsiInv, Tracked, UnreadUntilSafe, NeedsSafeSnapshot,
              ConflictsRecorded, UsesSsi, Sees, Phase, vars
<1>2. CASE \E t \in Txns : Step(t)
  <2>1. PICK t \in Txns : Step(t)
    BY <1>2
  <2>2. Types' /\ IdsInv'
    BY <2>1, StepsMoveIds, IdsStep DEF IsolationInv
  <2>3. ChainsInv'
    BY <2>1, <2>2, StepsMoveChains, WorksKeepsChains, CommitsKeepsChains DEF IsolationInv
  <2>4. SsiInv'
    BY <2>1, <2>2, StepsMoveGraph, MovesKeepGraph DEF IsolationInv
  <2>. QED
    BY <2>2, <2>3, <2>4 DEF IsolationInv
<1>. QED
  BY <1>1, <1>2 DEF Next, Finished

\* The invariant of every reachable state.
THEOREM IsolationInvariant == Spec => []IsolationInv
<1>1. Init => IsolationInv
  BY IsolationStarts
<1>2. IsolationInv /\ [Next]_vars => IsolationInv'
  BY IsolationGoesOn
<1>. QED
  BY <1>1, <1>2, PTL DEF Spec

\* The sessions, the published chains and the SSI records are always well
\* formed, and every rw-dependency is stored at both of its ends.
THEOREM IsolationTypeCorrect == Spec => []TypeOK
<1>1. IsolationInv => TypeOK
  <2>. SUFFICES ASSUME IsolationInv PROVE TypeOK
    OBVIOUS
  <2>1. Types /\ Graph(ssi)
    BY DEF IsolationInv, SsiInv
  <2>2. setup.statements \in Nat
    BY <2>1, SetupAssumption DEF Types
  <2>3. ASSUME NEW t \in Txns
        PROVE  /\ session[t].phase \in Phases /\ session[t].level \in Levels
               /\ session[t].snapshot \in Snapshots
               /\ session[t].statements \in 0..setup.statements
               /\ session[t].working \subseteq RowVersions
               /\ session[t].want \in Rows
    BY <2>1, <2>2 DEF Types, Transaction
  <2>4. ASSUME NEW t \in Txns
        PROVE  /\ ssi[t].reads \subseteq Tables /\ ssi[t].writes \subseteq Tables
               /\ \A u \in Txns : u \in ssi[t].outgoing <=> t \in ssi[u].incoming
               /\ ssi[t].outgoing # {} => ssi[t].live
    BY <2>1 DEF Types, SsiRecord, Graph
  <2>5. versions \in [Rows -> Seq(Txns \cup {Frozen})]
    BY <2>1 DEF Types, Chains, Creators
  <2>. QED
    BY <2>1, <2>3, <2>4, <2>5 DEF TypeOK, Types
<1>. QED
  BY <1>1, IsolationInvariant, PTL

\* merge_dml_candidate: whatever the level and however statements, savepoints
\* and commits interleave, a committed write follows the version it replaced.
THEOREM UpdatesAreNotLost == Spec => []NoLostUpdate
<1>1. IsolationInv => NoLostUpdate
  BY DEF IsolationInv, ChainsInv
<1>. QED
  BY <1>1, IsolationInvariant, PTL

\* record_read, record_write, rollback_to and cleanup_before keep an edge for
\* every unseen write of a table that was read, as long as both are known.
THEOREM ConflictsAreRecorded == Spec => []ConflictsRecorded
<1>1. IsolationInv => ConflictsRecorded
  BY DEF IsolationInv, SsiInv
<1>. QED
  BY <1>1, IsolationInvariant, PTL

\* In a history with serializable transactions no BEGIN is under way while one commits.
LEMMA CommitsWithoutBegins ==
    ASSUME RecordsInv, NEW t \in Txns, NEW u \in Txns, UsesSsi(u), Committing(u)
    PROVE  ~Beginning(t)
BY DEF RecordsInv

\* Moves that take no snapshot and validate nothing.
LEMMA QuietRecords ==
    ASSUME SerializableCommitsAlone, Types, SsiInv, SsiInv', RecordsInv, setup' = setup,
           NEW t \in Txns, Begins(t) \/ Runs(t) \/ Ends(t)
    PROVE  RecordsInv'
<1>. DEFINE x == session[t]
            y == session'[t]
<1>1. /\ \A u \in Txns \ {t} : session'[u] = session[u]
      /\ \A u \in Txns : session'[u].snapshot = session[u].snapshot
      /\ \A u \in Txns \ {t} : /\ ssi'[u].live <=> ssi[u].live
                               /\ ssi'[u].committed <=> ssi[u].committed
      /\ setup' = setup
  BY DEF Begins, Runs, Ends, SameLevel, SameLives, OthersStay
<1>2. \A v, u \in Txns : Sees(v, u)' <=> Sees(v, u)
  BY <1>1, SeesSame
<1>3. \A u \in Txns : Phase(u)' \in Active => Phase(u) \in Active
  BY <1>1 DEF Begins, Runs, Ends, Phase, Active, Running
<1>4. /\ \A u \in Txns : Beginning(u)' => Beginning(u) \/ (u = t /\ Begins(t))
      /\ \A u \in Txns : Committing(u)' => Committing(u)
  BY <1>1 DEF Begins, Runs, Ends, Phase, Running, Beginning, Committing
<1>5. \A u \in Txns : UsesSsi(u)' => UsesSsi(u) \/ (u = t /\ Begins(t))
  BY <1>1 DEF Runs, Ends, SameLevel, UsesSsi
<1>6. ((\E u \in Txns : UsesSsi(u)) => "commit" \notin setup.overlap)'
  <2>1. Begins(t) /\ UsesSsi(t)' => "commit" \notin setup.overlap
    BY DEF Begins, SerializableCommitsAlone, Types, UsesSsi
  <2>. QED
    BY <1>1, <1>5, <2>1 DEF RecordsInv
<1>7. ("commit" \notin setup.overlap =>
           \A v, u \in Txns : ~(Beginning(v) /\ Committing(u)))'
  <2>1. Begins(t) /\ "commit" \notin setup.overlap => \A u \in Txns : ~Committing(u)
    BY DEF Begins, MayBegin
  <2>. QED
    BY <1>1, <1>4, <2>1 DEF RecordsInv
<1>8. (\A r, v \in Txns : r # v /\ Phase(r) \in Active /\ Phase(v) \in Active =>
           \/ v \in session[r].snapshot.in_progress
           \/ session[r].snapshot.xmax <= session[v].snapshot.xmax)'
  BY <1>1, <1>3 DEF RecordsInv
<1>9. (\A u \in Txns : UsesSsi(u) /\ Phase(u) \in {"validated", "marked"} =>
           ssi[u].live \/ \A r \in Txns \ {u} : Phase(r) \notin Active)'
  <2>1. ASSUME NEW u \in Txns, UsesSsi(u)', Phase(u)' \in {"validated", "marked"}
        PROVE  UsesSsi(u) /\ Phase(u) \in {"validated", "marked"} /\ (ssi'[u].live <=> ssi[u].live)
    <3>1. CASE u = t
      BY <2>1, <3>1 DEF Begins, Runs, Ends, SameLevel, SameLives, UsesSsi, Phase, Running
    <3>2. CASE u # t
      BY <2>1, <3>2, <1>1 DEF UsesSsi, Phase
    <3>. QED
      BY <3>1, <3>2
  <2>. QED
    BY <1>3, <2>1 DEF RecordsInv
<1>10. ConcurrentRecordsKept'
  <2>1. ASSUME NEW v \in Txns, NEW u \in Txns, v # u, ssi'[v].live, ~ssi'[v].committed,
               UsesSsi(u)', session'[u].phase \in {"validated", "marked", "completed", "committed"},
               ~Sees(v, u)
        PROVE  ssi'[u].live
    <3>1. ssi[v].live /\ ~ssi[v].committed
      BY <2>1, <1>1 DEF Begins, Runs, Ends, SameLives
    <3>2. /\ UsesSsi(u) /\ Phase(u) \in {"validated", "marked", "completed", "committed"}
          /\ ssi'[u].live <=> ssi[u].live
      <4>1. CASE u = t
        BY <2>1, <4>1 DEF Begins, Runs, Ends, SameLevel, SameLives, UsesSsi, Phase, Running
      <4>2. CASE u # t
        BY <2>1, <4>2, <1>1 DEF UsesSsi, Phase
      <4>. QED
        BY <4>1, <4>2
    <3>. QED
      BY <2>1, <3>1, <3>2 DEF RecordsInv, ConcurrentRecordsKept
  <2>. QED
    BY <1>2, <2>1 DEF ConcurrentRecordsKept, Phase
<1>. QED
  BY <1>6, <1>7, <1>8, <1>9, <1>10 DEF RecordsInv

\* Moves that take a snapshot: register and a statement's own snapshot.
LEMMA SnapshotRecords ==
    ASSUME Types, IdsInv, SsiInv, SsiInv', RecordsInv, setup' = setup,
           NEW t \in Txns, Enters(t) \/ Resnapshots(t)
    PROVE  RecordsInv'
<1>. DEFINE x == session[t]
            y == session'[t]
<1>1. /\ \A u \in Txns \ {t} : session'[u] = session[u]
      /\ \A u \in Txns \ {t} : /\ ssi'[u].live <=> ssi[u].live
                               /\ ssi'[u].committed <=> ssi[u].committed
      /\ setup' = setup /\ y.level = x.level /\ y.snapshot = snapshot_locked(t)
      /\ Phase(t) \in {"raised", "idle"} /\ y.phase \in {"idle", "statement"}
      /\ Phase(t) = "raised" \/ Phase(t) \in Active
  BY DEF Enters, Resnapshots, SameLevel, SameLives, OthersStay, Active
<1>2. \A v \in Txns \ {t}, u \in Txns : Sees(v, u)' <=> Sees(v, u)
  BY <1>1, SeesSame
<1>3. \A u \in Txns : UsesSsi(u)' <=> UsesSsi(u)
  BY <1>1 DEF UsesSsi
<1>4. ((\E u \in Txns : UsesSsi(u)) => "commit" \notin setup.overlap)'
  BY <1>1, <1>3 DEF RecordsInv
<1>5. ("commit" \notin setup.overlap =>
           \A v, u \in Txns : ~(Beginning(v) /\ Committing(u)))'
  <2>1. \A u \in Txns : (Beginning(u)' => Beginning(u)) /\ (Committing(u)' => Committing(u))
    BY <1>1 DEF Beginning, Committing, Phase
  <2>. QED
    BY <1>1, <2>1 DEF RecordsInv
<1>6. (\A r, v \in Txns : r # v /\ Phase(r) \in Active /\ Phase(v) \in Active =>
           \/ v \in session[r].snapshot.in_progress
           \/ session[r].snapshot.xmax <= session[v].snapshot.xmax)'
  <2>1. ASSUME NEW r \in Txns, NEW v \in Txns, r # v, session'[r].phase \in Active, session'[v].phase \in Active
        PROVE  \/ v \in session'[r].snapshot.in_progress
               \/ session'[r].snapshot.xmax <= session'[v].snapshot.xmax
    <3>1. CASE r = t
      BY <2>1, <3>1, <1>1, NewSnapshot DEF Phase
    <3>2. CASE v = t
      BY <2>1, <3>2, <1>1, NewSnapshot DEF Phase
    <3>3. CASE r # t /\ v # t
      BY <2>1, <3>3, <1>1 DEF RecordsInv, Phase
    <3>. QED
      BY <3>1, <3>2, <3>3
  <2>. QED
    BY <2>1 DEF Phase
<1>7. (\A u \in Txns : UsesSsi(u) /\ Phase(u) \in {"validated", "marked"} =>
           ssi[u].live \/ \A r \in Txns \ {u} : Phase(r) \notin Active)'
  <2>1. ASSUME NEW u \in Txns, UsesSsi(u), session'[u].phase \in {"validated", "marked"}
        PROVE  ssi'[u].live \/ \A r \in Txns \ {u} : session'[r].phase \notin Active
    <3>1. u # t /\ Phase(u) \in {"validated", "marked"} /\ (ssi'[u].live <=> ssi[u].live)
      BY <2>1, <1>1 DEF Phase
    <3>2. Phase(t) # "raised"
      BY <2>1, <3>1, CommitsWithoutBegins DEF Committing, Beginning
    <3>3. Phase(t) \in Active
      BY <1>1, <3>2
    <3>. QED
      BY <2>1, <3>1, <3>3 DEF RecordsInv
  <2>. QED
    BY <1>3, <2>1 DEF Phase
<1>8. ConcurrentRecordsKept'
  <2>1. ASSUME NEW v \in Txns, NEW u \in Txns, v # u, ssi'[v].live, ~ssi'[v].committed,
               UsesSsi(u), session'[u].phase \in {"validated", "marked", "completed", "committed"},
               ~Sees(v, u)'
        PROVE  ssi'[u].live
    <3>1. u # t /\ Phase(u) \in {"validated", "marked", "completed", "committed"}
          /\ (ssi'[u].live <=> ssi[u].live)
      BY <2>1, <1>1 DEF Phase
    <3>2. CASE v = t
      <4>1. Phase(u) \in Active
        BY <2>1, <3>1, <3>2, <1>1, NewSnapshot DEF Unbegun
      <4>2. Phase(u) \in {"validated", "marked"}
        BY <3>1, <4>1 DEF Active
      <4>3. Phase(t) # "raised"
        BY <2>1, <4>2, CommitsWithoutBegins DEF Committing, Beginning
      <4>4. Phase(t) \in Active
        BY <1>1, <4>3
      <4>. QED
        BY <2>1, <3>1, <3>2, <4>2, <4>4 DEF RecordsInv
    <3>3. CASE v # t
      BY <2>1, <3>1, <3>3, <1>1, <1>2 DEF RecordsInv, ConcurrentRecordsKept
    <3>. QED
      BY <3>2, <3>3
  <2>. QED
    BY <1>3, <2>1 DEF ConcurrentRecordsKept, Phase
<1>. QED
  BY <1>4, <1>5, <1>6, <1>7, <1>8 DEF RecordsInv

\* cleanup_before of t's COMMIT takes no record somebody still needs.
LEMMA ObsoleteFacts ==
    ASSUME Types, IdsInv, RecordsInv, NEW t \in Txns, Phase(t) \in Active,
           NEW r \in Txns \ {t}, Phase(r) \in Active
    PROVE  /\ t \notin Obsolete(t)
           /\ r \notin Obsolete(t)
           /\ \A u \in Obsolete(t) : Sees(r, u)
<1>. DEFINE h == global_xmin_excluding(t)
            low == session[r].snapshot.xmin
            high == session[r].snapshot.xmax
<1>1. h \in Nat /\ h <= low
  BY HorizonFacts
<1>2. /\ low \in Nat /\ high \in Nat /\ low <= high
      /\ \A u \in session[r].snapshot.in_progress : low <= u
  BY NumberFacts
<1>3. \A u \in Txns : u \in Nat /\ session[u].snapshot.xmax \in Nat
  BY NumberFacts
<1>4. \A u \in Obsolete(t) : u \in Txns /\ u < h /\ session[u].snapshot.xmax < h
  BY DEF Obsolete
<1>. HIDE DEF h, low, high
<1>5. \A u \in Obsolete(t) : u < low /\ session[u].snapshot.xmax < low
  BY <1>1, <1>2, <1>3, <1>4
<1>6. \A u \in Obsolete(t) : u < high /\ ~(high <= session[u].snapshot.xmax)
                             /\ u \notin session[r].snapshot.in_progress
  BY <1>2, <1>3, <1>4, <1>5
<1>7. t \notin Obsolete(t)
  BY <1>6 DEF RecordsInv, high
<1>8. r \notin Obsolete(t)
  BY <1>2, <1>6 DEF high
<1>9. \A u \in Obsolete(t) : Sees(r, u)
  BY <1>6 DEF Sees, sees_transaction, high
<1>. QED
  BY <1>7, <1>8, <1>9

\* The case of RecordsInv that takes work: a validation that forgets old records.
LEMMA ValidatingRecords ==
    ASSUME Types, Types', IdsInv, SsiInv, SsiInv', RecordsInv, setup' = setup,
           NEW t \in Txns, ValidatesAny(t)
    PROVE  RecordsInv'
<1>1. /\ \A u \in Txns \ {t} : session'[u] = session[u]
      /\ session'[t].level = session[t].level /\ session'[t].snapshot = session[t].snapshot
      /\ Phase(t) = "idle" /\ Phase(t) \in Active /\ session'[t].phase = "validated"
      /\ setup' = setup /\ MayCommit
  BY DEF ValidatesAny, SameLevel, OthersStay, Active
<1>2. \A v, u \in Txns : Sees(v, u)' <=> Sees(v, u)
  BY <1>1, SeesSame
<1>3. \A u \in Txns : UsesSsi(u)' <=> UsesSsi(u)
  BY <1>1 DEF UsesSsi
<1>4. \A u \in Txns : Phase(u)' \in Active <=> Phase(u) \in Active
  BY <1>1 DEF Phase, Active
<1>5. \/ /\ UsesSsi(t)
         /\ \A u \in Txns : ssi'[u].live <=> ssi[u].live /\ u \notin Obsolete(t)
      \/ ~UsesSsi(t) /\ \A u \in Txns : ssi'[u].live <=> ssi[u].live
  BY ValidatingSteps DEF ValidatesAny, Validates, SameLives
<1>6. ((\E u \in Txns : UsesSsi(u)) => "commit" \notin setup.overlap)'
  BY <1>1, <1>3 DEF RecordsInv
<1>7. ("commit" \notin setup.overlap =>
           \A v, u \in Txns : ~(Beginning(v) /\ Committing(u)))'
  <2>1. "commit" \notin setup.overlap => \A v \in Txns : ~Beginning(v)
    BY <1>1 DEF MayCommit
  <2>2. \A v \in Txns : Beginning(v)' => Beginning(v)
    BY <1>1 DEF Beginning, Phase
  <2>. QED
    BY <1>1, <2>1, <2>2
<1>8. (\A r, v \in Txns : r # v /\ Phase(r) \in Active /\ Phase(v) \in Active =>
           \/ v \in session[r].snapshot.in_progress
           \/ session[r].snapshot.xmax <= session[v].snapshot.xmax)'
  <2>1. \A u \in Txns : session'[u].snapshot = session[u].snapshot
    BY <1>1
  <2>. QED
    BY <1>4, <2>1 DEF RecordsInv
<1>9. ASSUME NEW u \in Txns, UsesSsi(u), Phase(u) \in {"validated", "marked"}
      PROVE  ssi'[u].live
  <2>1. u # t /\ Phase(u) \in Active
    BY <1>1, <1>9 DEF Active
  <2>2. ssi[u].live
    BY <1>1, <1>9, <2>1 DEF RecordsInv
  <2>3. u \notin Obsolete(t)
    BY <1>1, <2>1, ObsoleteFacts
  <2>. QED
    BY <1>5, <2>2, <2>3
<1>10. ASSUME UsesSsi(t), NEW r \in Txns \ {t}, Phase(r) \in Active
       PROVE  ssi'[t].live
  <2>1. ssi[t].live
    BY <1>1, <1>10 DEF SsiInv, Tracked, Running
  <2>. QED
    BY <1>1, <1>5, <1>10, <2>1, ObsoleteFacts
<1>11. (\A u \in Txns : UsesSsi(u) /\ Phase(u) \in {"validated", "marked"} =>
           ssi[u].live \/ \A r \in Txns \ {u} : Phase(r) \notin Active)'
  <2>1. ASSUME NEW u \in Txns, UsesSsi(u), session'[u].phase \in {"validated", "marked"}
        PROVE  ssi'[u].live \/ \A r \in Txns \ {u} : Phase(r) \notin Active
    <3>1. CASE u = t
      BY <2>1, <3>1, <1>10
    <3>2. CASE u # t
      BY <2>1, <3>2, <1>1, <1>9 DEF Phase
    <3>. QED
      BY <3>1, <3>2
  <2>. QED
    BY <1>3, <1>4, <2>1 DEF Phase
<1>12. ConcurrentRecordsKept'
  <2>1. ASSUME NEW v \in Txns, NEW u \in Txns, v # u, ssi'[v].live, ~ssi'[v].committed,
               UsesSsi(u), session'[u].phase \in {"validated", "marked", "completed", "committed"},
               ~Sees(v, u)
        PROVE  ssi'[u].live
    <3>1. session'[v].phase \in Running /\ ssi[v].live
      BY <2>1, <1>5 DEF SsiInv, Tracked, Phase
    <3>2. v # t
      BY <3>1, <1>1 DEF Running
    <3>3. Phase(v) \in Running /\ Phase(v) \in Active /\ ~ssi[v].committed
      BY <3>1, <3>2, <1>1 DEF SsiInv, Tracked, Phase, Running, Active, Decided
    <3>4. CASE u = t
      BY <2>1, <3>2, <3>3, <3>4, <1>10
    <3>5. CASE u # t
      <4>1. ssi[u].live
        BY <2>1, <3>1, <3>3, <3>5, <1>1 DEF RecordsInv, ConcurrentRecordsKept, Phase
      <4>2. u \notin Obsolete(t)
        BY <2>1, <3>2, <3>3, <1>1, ObsoleteFacts
      <4>. QED
        BY <4>1, <4>2, <1>5
    <3>. QED
      BY <3>4, <3>5
  <2>. QED
    BY <1>2, <1>3, <2>1 DEF ConcurrentRecordsKept, Phase
<1>. QED
  BY <1>6, <1>7, <1>8, <1>11, <1>12 DEF RecordsInv

RecordMoves(t) ==
    Begins(t) \/ Runs(t) \/ Ends(t) \/ Enters(t) \/ Resnapshots(t) \/ ValidatesAny(t)

\* The operations of the SSI manager on a running transaction keep who is live.
LEMMA LivesStay ==
    ASSUME Types, SsiInv, NEW t \in Txns, UsesSsi(t), Phase(t) \in Running
    PROVE  /\ \A table \in Tables : ssi' = record_read(ssi, t, table) => SameLives
           /\ \A table \in Tables : ssi' = record_write(ssi, t, table) => SameLives
           /\ ssi' = ssi_rollback_to(ssi, t, session[t].savepoint.predicates) => SameLives
<1>1. ssi[t].live /\ Graph(ssi) /\ ssi \in [Txns -> SsiRecord]
      /\ session[t].savepoint.predicates \in Predicates
  BY DEF SsiInv, Tracked, Types, Transaction, Savepoint
<1>2. ASSUME NEW table \in Tables, ssi' = record_read(ssi, t, table) PROVE SameLives
  <2>1. \A u \in Txns : ssi'[u].live = ssi[u].live /\ ssi'[u].committed = ssi[u].committed
    BY <1>1, <1>2, ReadGraph
  <2>. QED
    BY <2>1 DEF SameLives
<1>3. ASSUME NEW table \in Tables, ssi' = record_write(ssi, t, table) PROVE SameLives
  <2>1. \A u \in Txns : ssi'[u].live = ssi[u].live /\ ssi'[u].committed = ssi[u].committed
    BY <1>1, <1>3, WriteGraph
  <2>. QED
    BY <2>1 DEF SameLives
<1>4. ASSUME ssi' = ssi_rollback_to(ssi, t, session[t].savepoint.predicates) PROVE SameLives
  <2>1. \A u \in Txns : ssi'[u].live = ssi[u].live /\ ssi'[u].committed = ssi[u].committed
    BY <1>1, <1>4, RollbackGraph
  <2>. QED
    BY <2>1 DEF SameLives
<1>. QED
  BY <1>2, <1>3, <1>4

\* An abort ends its own record only.
LEMMA AbortEnds ==
    ASSUME Types, NEW t \in Txns, ssi' = ssi_abort(ssi, t)
    PROVE  /\ ~ssi'[t].live
           /\ \A u \in Txns \ {t} : /\ ssi'[u].live <=> ssi[u].live
                                    /\ ssi'[u].committed <=> ssi[u].committed
<1>1. ssi \in [Txns -> SsiRecord] /\ {t} \in SUBSET Txns /\ ssi' = remove_transactions(ssi, {t})
  BY DEF Types, ssi_abort
<1>. QED
  BY <1>1, RemoveFacts

\* Every step of a transaction is one of the moves of the records.
LEMMA StepsMoveRecords ==
    ASSUME Types, IdsInv, SsiInv, NEW t \in Txns, Step(t)
    PROVE  RecordMoves(t)
<1>. DEFINE x == session[t]
            y == session'[t]
<1>0. begin_durable(t) => Phase(t) = "none"
  BY TxnsAreNaturals DEF begin_durable, IdsInv, Types
<1>. USE DEF RecordMoves, SameLevel, OthersStay, Becomes, Turns, Running
<1>1. ssi' = ssi => SameLives
  BY DEF SameLives
<1>2. CASE begin_durable(t)
  BY <1>0, <1>1, <1>2, BeginDoes DEF begin_durable, Opens, Begins
<1>3. CASE raise_high_water(t)
  BY <1>1, <1>3, RaiseDoes DEF raise_high_water, Runs
<1>4. CASE register(t)
  <2>0. Phase(t) = "raised" /\ ~ssi[t].live
    BY <1>4 DEF register, SsiInv, Tracked, Decided
  <2>1. CASE UsesSsi(t) /\ ssi_full(ssi)
    <3>1. SameLevel(t) /\ y.phase = "aborted" /\ y.snapshot = x.snapshot /\ ssi' = ssi
      BY <1>4, <2>1, PhaseChanges DEF register, Phases, Ended
    <3>. QED
      BY <2>0, <3>1 DEF Ends
  <2>2. CASE ~(UsesSsi(t) /\ ssi_full(ssi))
    <3>1. /\ snapshot_locked(t) \in Snapshots /\ "idle" \in Phases \ {"statement"}
          /\ session' = [session EXCEPT ![t].phase = "idle", ![t].snapshot = snapshot_locked(t)]
      BY <1>4, <2>2, SnapshotType DEF register, Phases, Active
    <3>2. SameLevel(t) /\ y.phase = "idle" /\ y.snapshot = snapshot_locked(t)
      <4>1. PICK sn \in Snapshots : sn = snapshot_locked(t)
        BY <3>1
      <4>2. session' = [session EXCEPT ![t].phase = "idle", ![t].snapshot = sn]
        BY <3>1, <4>1
      <4>. HIDE DEF Becomes
      <4>3. Becomes(t, "idle", sn, x.base, x.working, x.savepoint)
        BY <3>1, <4>2, SnapshotTaken
      <4>4. SameLevel(t) /\ y.phase = "idle" /\ y.snapshot = sn
        BY <4>3 DEF Becomes
      <4>. QED
        BY <4>1, <4>4
    <3>3. \A u \in Txns \ {t} : ssi'[u] = ssi[u]
      BY <1>4, <2>2 DEF register, ssi_begin, Types
    <3>. QED
      BY <2>0, <3>2, <3>3 DEF Enters
  <2>. QED
    BY <2>1, <2>2
<1>5. CASE begin_statement(t)
  <2>1. Phase(t) = "idle" /\ ssi' = ssi
    BY <1>5 DEF begin_statement, Enter, MayStart
  <2>2. SameLevel(t) /\ y.phase = "statement" /\ y.snapshot \in {x.snapshot, snapshot_locked(t)}
    BY <1>5, StatementDoes
  <2>. QED
    BY <1>1, <2>1, <2>2 DEF Runs, Resnapshots
<1>6. CASE wait_for_safe_snapshot(t)
  BY <1>1, <1>6, SafeDoes DEF wait_for_safe_snapshot, Enter, MayStart, Resnapshots
<1>7. CASE cancel_safe_snapshot(t)
  BY <1>1, <1>7, CancelDoes DEF cancel_safe_snapshot, MayStart, Runs
<1>8. CASE refresh_conflict(t)
  BY <1>1, <1>8, ConflictDoes DEF refresh_conflict, Runs
<1>9. CASE \E table \in Tables : select(t, table)
  <2>1. PICK table \in Tables : select(t, table)
    BY <1>9
  <2>2. SameLevel(t) /\ y.phase = "idle" /\ y.snapshot = x.snapshot
    BY <2>1, SelectDoes
  <2>3. Phase(t) = "statement" /\ ssi' = IF UsesSsi(t) THEN record_read(ssi, t, table) ELSE ssi
    BY <2>1 DEF select
  <2>4. SameLives
    BY <1>1, <2>3, LivesStay
  <2>. QED
    BY <2>2, <2>3, <2>4 DEF Runs
<1>10. CASE \E r \in Rows, kind \in Kinds : update(t, r, kind)
  <2>1. SameLevel(t) /\ y.phase \in {"failed", "waiting"} /\ y.snapshot = x.snapshot
    BY <1>10, UpdateDoes
  <2>2. Phase(t) = "statement" /\ ssi' = ssi
    BY <1>10 DEF update
  <2>. QED
    BY <1>1, <2>1, <2>2 DEF Runs
<1>11. CASE locks_acquired(t)
  <2>1. SameLevel(t) /\ y.phase = "idle" /\ y.snapshot = x.snapshot
    BY <1>11, WriteDoes
  <2>2. setup.table_of[x.want] \in Tables
    BY SetupAssumption DEF Types, Transaction
  <2>3. /\ Phase(t) = "waiting"
        /\ ssi' = IF UsesSsi(t) THEN record_write(ssi, t, setup.table_of[x.want]) ELSE ssi
    BY <1>11 DEF locks_acquired
  <2>4. SameLives
    BY <1>1, <2>2, <2>3, LivesStay
  <2>. QED
    BY <2>1, <2>3, <2>4 DEF Runs
<1>12. CASE lock_refused(t)
  BY <1>1, <1>12, RefusedDoes DEF lock_refused, Runs
<1>13. CASE create_sql_savepoint(t)
  BY <1>1, <1>13, SavepointDoes DEF create_sql_savepoint, Runs
<1>14. CASE rollback_to_sql_savepoint(t)
  <2>1. SameLevel(t) /\ y.phase = "idle" /\ y.snapshot = x.snapshot
    BY <1>14, RollbackToDoes
  <2>2. /\ Phase(t) \in Running
        /\ ssi' = IF UsesSsi(t) THEN ssi_rollback_to(ssi, t, x.savepoint.predicates) ELSE ssi
    BY <1>14 DEF rollback_to_sql_savepoint
  <2>3. SameLives
    BY <1>1, <2>2, LivesStay
  <2>. QED
    BY <2>1, <2>2, <2>3 DEF Runs
<1>15. CASE validate_commit(t)
  <2>1. SameLevel(t) /\ y.snapshot = x.snapshot /\ y.savepoint = x.savepoint /\ Phase(t) = "idle" /\ MayCommit
    BY <1>15, ValidateDoes DEF validate_commit
  <2>2. CASE UsesSsi(t) /\ Dangerous(ssi, t)
    <3>1. ssi' = ssi_abort(ssi, t) /\ session' = [session EXCEPT ![t].phase = "aborted", ![t].locks = {}]
      BY <1>15, <2>2 DEF validate_commit, Drop
    <3>2. y.phase = "aborted"
      BY <3>1 DEF Types, Transaction
    <3>. QED
      BY <2>1, <3>1, <3>2, AbortEnds DEF Ends
  <2>3. CASE ~(UsesSsi(t) /\ Dangerous(ssi, t))
    <3>1. /\ session' = [session EXCEPT ![t].phase = "validated"]
          /\ ssi' = IF UsesSsi(t) THEN cleanup_before(ssi_commit(ssi, t), global_xmin_excluding(t))
                    ELSE ssi
      BY <1>15, <2>3 DEF validate_commit
    <3>2. y.phase = "validated"
      BY <3>1 DEF Types, Transaction
    <3>. QED
      BY <1>1, <2>1, <3>1, <3>2 DEF ValidatesAny, Validates
  <2>. QED
    BY <2>2, <2>3
<1>16. CASE merge_candidate(t)
  <2>1. SameLevel(t) /\ y.snapshot = x.snapshot /\ Phase(t) = "validated"
    BY <1>16, MergeDoes DEF merge_candidate
  <2>2. CASE MergeConflict(t)
    <3>1. ssi' = ssi_abort(ssi, t) /\ session' = [session EXCEPT ![t].phase = "aborted", ![t].locks = {}]
      BY <1>16, <2>2 DEF merge_candidate, Drop
    <3>2. y.phase = "aborted"
      BY <3>1 DEF Types, Transaction
    <3>. QED
      BY <2>1, <3>1, <3>2, AbortEnds DEF Ends
  <2>3. CASE ~MergeConflict(t)
    <3>1. session' = [session EXCEPT ![t].phase = "marked"] /\ ssi' = ssi
      BY <1>16, <2>3 DEF merge_candidate
    <3>2. y.phase = "marked"
      BY <3>1 DEF Types, Transaction
    <3>. QED
      BY <1>1, <2>1, <3>1, <3>2 DEF Runs
  <2>. QED
    BY <2>2, <2>3
<1>17. CASE finish_commit(t)
  BY <1>1, <1>17, FinishDoes DEF finish_commit, Runs
<1>18. CASE publish(t)
  BY <1>1, <1>18, PublishDoes DEF publish, Runs
<1>19. CASE commit_empty(t)
  BY <1>1, <1>19, EmptyDoes DEF commit_empty, Runs
<1>20. CASE rollback_sql_transaction(t)
  BY <1>20, RollbackDoes, AbortEnds DEF rollback_sql_transaction, Drop, Ends
<1>. QED
  BY <1>2, <1>3, <1>4, <1>5, <1>6, <1>7, <1>8, <1>9, <1>10, <1>11, <1>12, <1>13, <1>14, <1>15,
     <1>16, <1>17, <1>18, <1>19, <1>20 DEF Step

\* Where a BEGIN overlaps no COMMIT of a serializable transaction, the SSI
\* manager still knows every conflict that can matter when it validates a
\* COMMIT: the edges are there, and the records of those who committed beside
\* a running transaction have not been cleaned up.
THEOREM ConflictsStayKnown == SerializableCommitsAlone /\ Spec => []ConflictsAreKnown
<1>. SUFFICES ASSUME SerializableCommitsAlone PROVE Spec => []ConflictsAreKnown
  OBVIOUS
<1>1. Init => RecordsInv
  <2>. SUFFICES ASSUME Init PROVE RecordsInv
    OBVIOUS
  <2>1. \A t \in Txns : /\ Phase(t) = "none" /\ session[t].level = "ReadCommitted" /\ ~ssi[t].live
    BY DEF Init, Idle, Phase, NoSsi
  <2>. QED
    BY <2>1 DEF RecordsInv, UsesSsi, Beginning, Active, ConcurrentRecordsKept
<1>2. IsolationInv /\ RecordsInv /\ IsolationInv' /\ [Next]_vars => RecordsInv'
  <2>. SUFFICES ASSUME IsolationInv, RecordsInv, IsolationInv', [Next]_vars PROVE RecordsInv'
    OBVIOUS
  <2>1. CASE UNCHANGED vars
    BY <2>1 DEF RecordsInv, UsesSsi, Beginning, Committing, ConcurrentRecordsKept, Sees, Phase, vars
  <2>2. CASE \E t \in Txns : Step(t)
    <3>1. PICK t \in Txns : Step(t)
      BY <2>2
    <3>2. RecordMoves(t) /\ setup' = setup
      BY <3>1, StepsMoveRecords, StepsMoveIds DEF IsolationInv
    <3>. QED
      BY <3>2, QuietRecords, SnapshotRecords, ValidatingRecords DEF IsolationInv, RecordMoves
  <2>. QED
    BY <2>1, <2>2 DEF Next, Finished
<1>3. IsolationInv /\ RecordsInv => ConflictsAreKnown
  BY DEF IsolationInv, SsiInv, RecordsInv, ConflictsAreKnown
<1>. QED
  BY <1>1, <1>2, <1>3, IsolationInvariant, PTL DEF Spec

-----------------------------------------------------------------------------
(***************************************************************************)
(* What a statement reads.  A BEGIN whose id is taken but not registered   *)
(* when somebody takes a snapshot can commit into that snapshot's past     *)
(* (see README); the statements are about histories without that overlap.  *)
(***************************************************************************)
BeginsAlone == \A s \in Setups : "begin" \notin s.overlap

\* Sees, for a snapshot instead of its owner.
Shows(snapshot, u) == u = Frozen \/ sees_transaction(snapshot, u)

ShowsAll(snapshot, chain) == \A i \in 1..Len(chain) : Shows(snapshot, chain[i])

ShowsInOrder(snapshot, chain) ==
    \A i, j \in 1..Len(chain) : i < j /\ Shows(snapshot, chain[j]) => Shows(snapshot, chain[i])

ShowsNoneAfter(snapshot, base, chain) ==
    \A i \in 1..Len(chain) : i > Len(base) => ~Shows(snapshot, chain[i])

ShowsLast(snapshot, chain, w) ==
    \E i \in 1..Len(chain) : /\ chain[i] = w /\ Shows(snapshot, w)
                             /\ i < Len(chain) => ~Shows(snapshot, chain[i + 1])

Fresh(t) == seen[t] = {} /\ session[t].working = {} /\ session[t].savepoint.working = {}

\* A transaction that has to keep what it has read or based its writes on.
Anchored(t) ==
    /\ Phase(t) \in Running
    /\ session[t].level # "ReadCommitted"
    /\ ~Fresh(t) \/ Phase(t) = "waiting"

\* Who has not committed is in nobody else's snapshot.
UnendedUnseen ==
    \A t, u \in Txns : t # u /\ Phase(u) \in Unbegun \cup Active =>
        ~Shows(session[t].snapshot, u)

\* A snapshot shows a prefix of each chain,
ChainsInOrder ==
    \A t \in Txns : Phase(t) \in Running =>
        \A r \in Rows : ShowsInOrder(session[t].snapshot, versions[r])

\* and all of it if it was taken between a finish_commit and its publication.
CompletedShown ==
    \A t, u \in Txns :
        Phase(t) \in Running /\ Phase(u) = "completed" /\ Shows(session[t].snapshot, u)
        => \A r \in Rows : ShowsAll(session[t].snapshot, versions[r])

\* Above Read Committed only a transaction that has read and written nothing
\* takes a snapshot,
FreshUntilSnapshot ==
    \A t \in Txns : Phase(t) \in Unbegun \/ NeedsSafeSnapshot(t) =>
        Fresh(t) /\ Phase(t) # "waiting"

\* and afterwards no commit that it would see is under way: what it has read
\* is still what it sees, and its bases miss nothing that it sees.
Anchor(t) ==
    /\ \A u \in Txns : Phase(u) = "completed" => ~Shows(session[t].snapshot, u)
    /\ \A a \in seen[t] : ShowsLast(session[t].snapshot, versions[a[1]], a[2])
    /\ session[t].working # {} \/ Phase(t) = "waiting" =>
           \A r \in Rows :
               ShowsNoneAfter(session[t].snapshot, session[t].base[r], versions[r])
    /\ session[t].savepoint.working # {} =>
           \A r \in Rows :
               ShowsNoneAfter(session[t].snapshot, session[t].savepoint.base[r], versions[r])

AnchorsHold == \A t \in Txns : Anchored(t) => Anchor(t)

SeenWasPublished == \A t \in Txns : \A a \in seen[t] : Wrote(a[2], a[1])

SeesInv ==
    /\ UnendedUnseen
    /\ ChainsInOrder
    /\ CompletedShown
    /\ FreshUntilSnapshot
    /\ AnchorsHold
    /\ SeenWasPublished
    /\ SnapshotStable
    /\ NoFracturedRead

\* Bookkeeping: nothing is read, published or seen differently.
Carries(t) ==
    /\ OthersStay(t) /\ versions' = versions /\ seen' = seen
    /\ session'[t].snapshot = session[t].snapshot
    /\ session'[t].phase \notin {"waiting", "completed"}
    /\ LET x == session[t]
           y == session'[t] IN
       \/ /\ Phase(t) = "none" /\ y.phase = "allocated"
          /\ y.working = x.working /\ y.savepoint = x.savepoint
       \/ /\ SameLevel(t)
          /\ y.phase \in Unbegun => Phase(t) \in Unbegun
          /\ y.phase \in Running => Phase(t) \in Running
          /\ y.phase \in Active => Phase(t) \in Active
          /\ \/ y.base = x.base /\ y.working = x.working /\ y.savepoint = x.savepoint
             \/ Phase(t) = "waiting" /\ y.base = x.base /\ y.savepoint = x.savepoint
             \/ /\ y.base = x.base /\ y.working = x.working
                /\ y.savepoint.base = x.base /\ y.savepoint.working = x.working
             \/ /\ y.base = x.savepoint.base /\ y.working = x.savepoint.working
                /\ y.savepoint = x.savepoint

\* A new snapshot, for register or for a statement.
Looks(t) ==
    /\ SameLevel(t) /\ versions' = versions /\ seen' = seen
    /\ \A u \in Txns \ {t} : ~Beginning(u)
    /\ session'[t].snapshot = snapshot_locked(t)
    /\ session'[t].working = session[t].working
    /\ session'[t].savepoint = session[t].savepoint
    /\ \/ Phase(t) = "raised" /\ session'[t].phase = "idle"
       \/ /\ Phase(t) = "idle" /\ session'[t].phase = "statement"
          /\ session[t].level = "ReadCommitted" \/ NeedsSafeSnapshot(t)

\* A statement reads rows of the published state or of its own working state.
Observes(t, rows) ==
    /\ SameLevel(t) /\ versions' = versions
    /\ rows \subseteq Rows
    /\ Phase(t) = "statement" /\ session'[t].phase \in {"idle", "failed", "waiting"}
    /\ ~StateLocked
    /\ Observe(t, rows)
    /\ session'[t].snapshot = session[t].snapshot
    /\ session'[t].working = session[t].working
    /\ session'[t].savepoint = session[t].savepoint
    /\ session[t].level # "ReadCommitted" =>
           \/ session[t].working = {} /\ session'[t].base = versions
           \/ session'[t].base = session[t].base
              /\ (session[t].working # {} \/ session'[t].phase # "waiting")

Completes(t) ==
    /\ Phase(t) = "marked" /\ Turns(t, "completed") /\ versions' = versions /\ seen' = seen

Publishes(t) ==
    /\ Phase(t) = "completed" /\ Turns(t, "committed") /\ seen' = seen
    /\ versions' = [r \in Rows |-> IF r \in OwnRows(t) THEN Append(versions[r], t)
                                   ELSE versions[r]]

\* The next five: each move of what transactions saw keeps SeesInv.
LEMMA CarryingSees ==
    ASSUME SeesInv, NEW t \in Txns, Carries(t)
    PROVE  SeesInv'
<1>. DEFINE x == session[t]
            y == session'[t]
<1>1. /\ \A u \in Txns \ {t} : session'[u] = session[u]
      /\ versions' = versions /\ seen' = seen
      /\ \A u \in Txns : session'[u].snapshot = session[u].snapshot
      /\ y.phase \notin {"waiting", "completed"}
  BY DEF Carries, OthersStay
<1>2. /\ \A u \in Txns : Phase(u)' \in Running => Phase(u) \in Running
      /\ \A u \in Txns : Phase(u)' = "completed" => Phase(u) = "completed"
      /\ \A u \in Txns : Phase(u)' \in Unbegun \cup Active => Phase(u) \in Unbegun \cup Active
      /\ \A u \in Txns : Phase(u)' \in Unbegun => Phase(u) \in Unbegun
  BY <1>1 DEF Carries, Phase, Running, Unbegun, Active
<1>3. UnendedUnseen' /\ ChainsInOrder' /\ CompletedShown'
  BY <1>1, <1>2 DEF SeesInv, UnendedUnseen, ChainsInOrder, CompletedShown
<1>4. FreshUntilSnapshot'
  <2>1. \A u \in Txns \ {t} : /\ Phase(u)' = Phase(u) /\ (NeedsSafeSnapshot(u)' <=> NeedsSafeSnapshot(u))
                              /\ Fresh(u)' <=> Fresh(u)
    BY <1>1 DEF Phase, NeedsSafeSnapshot, Fresh
  <2>2. ASSUME y.phase \in Unbegun \/ NeedsSafeSnapshot(t)' PROVE Fresh(t)'
    <3>1. Phase(t) \in Unbegun \/ NeedsSafeSnapshot(t)
      BY <2>2 DEF Carries, SameLevel, NeedsSafeSnapshot, Unbegun
    <3>2. Fresh(t) /\ Phase(t) # "waiting"
      BY <3>1 DEF SeesInv, FreshUntilSnapshot
    <3>3. y.working = {} /\ y.savepoint.working = {}
      BY <3>2 DEF Carries, Fresh
    <3>. QED
      BY <1>1, <3>2, <3>3 DEF Fresh
  <2>. QED
    BY <1>1, <2>1, <2>2 DEF SeesInv, FreshUntilSnapshot, Phase
<1>5. AnchorsHold'
  <2>1. ASSUME NEW u \in Txns \ {t}, Anchored(u)' PROVE Anchor(u)'
    <3>1. Anchored(u)
      BY <1>1, <2>1 DEF Anchored, Phase, Fresh
    <3>2. Anchor(u)
      BY <3>1 DEF SeesInv, AnchorsHold
    <3>. QED
      BY <3>2, <1>1, <1>2 DEF Anchor, Phase
  <2>2. ASSUME Anchored(t)' PROVE Anchor(t)'
    <3>1. SameLevel(t) /\ Phase(t) \in Running /\ y.level = x.level /\ y.phase \in Running
      BY <2>2, <1>2 DEF Anchored, Carries, Phase, Running, SameLevel
    <3>2. \/ y.base = x.base /\ y.working = x.working /\ y.savepoint = x.savepoint
          \/ Phase(t) = "waiting" /\ y.base = x.base /\ y.savepoint = x.savepoint
          \/ /\ y.base = x.base /\ y.working = x.working
             /\ y.savepoint.base = x.base /\ y.savepoint.working = x.working
          \/ /\ y.base = x.savepoint.base /\ y.working = x.savepoint.working
             /\ y.savepoint = x.savepoint
      BY <3>1 DEF Carries, Phase, Running
    <3>3. Fresh(t) /\ Phase(t) # "waiting" => y.working = {} /\ y.savepoint.working = {}
      BY <3>2 DEF Fresh
    <3>4. Anchored(t)
      BY <1>1, <2>2, <3>1, <3>3 DEF Anchored, Fresh, Phase
    <3>5. Anchor(t)
      BY <3>4 DEF SeesInv, AnchorsHold
    <3>6. /\ y.working # {} =>
              \A r \in Rows : ShowsNoneAfter(x.snapshot, y.base[r], versions[r])
          /\ y.savepoint.working # {} =>
              \A r \in Rows : ShowsNoneAfter(x.snapshot, y.savepoint.base[r], versions[r])
      BY <3>2, <3>5 DEF Anchor
    <3>. QED
      BY <3>5, <3>6, <1>1, <1>2 DEF Anchor, Phase
  <2>. QED
    BY <2>1, <2>2 DEF AnchorsHold
<1>6. SeenWasPublished' /\ SnapshotStable' /\ NoFracturedRead'
  BY <1>1 DEF SeesInv, SeenWasPublished, SnapshotStable, NoFracturedRead, Wrote, Position
<1>. QED
  BY <1>3, <1>4, <1>5, <1>6 DEF SeesInv

\* finish_commit makes a transaction visible to the snapshots that follow.
LEMMA CompletingSees ==
    ASSUME SeesInv, NEW t \in Txns, Completes(t)
    PROVE  SeesInv'
<1>1. /\ \A u \in Txns \ {t} : session'[u] = session[u]
      /\ versions' = versions /\ seen' = seen
      /\ \A u \in Txns : session'[u].snapshot = session[u].snapshot
      /\ Phase(t) = "marked" /\ session'[t].phase = "completed"
      /\ session'[t].level = session[t].level /\ (session[t].safe => session'[t].safe)
      /\ session'[t].working = session[t].working /\ session'[t].savepoint = session[t].savepoint
  BY DEF Completes, Turns, Becomes
<1>2. \A u \in Txns : /\ Phase(u)' \in Running => u # t /\ Phase(u) \in Running
                      /\ Phase(u)' \in Unbegun \cup Active => u # t /\ Phase(u) \in Unbegun \cup Active
                      /\ Phase(u)' \in Unbegun => u # t /\ Phase(u) \in Unbegun
                      /\ Phase(u)' = "completed" => u = t \/ Phase(u) = "completed"
  BY <1>1 DEF Phase, Running, Unbegun, Active
<1>3. \A u \in Txns \ {t} : ~Shows(session[u].snapshot, t)
  BY <1>1 DEF SeesInv, UnendedUnseen, Active
<1>4. UnendedUnseen' /\ ChainsInOrder'
  BY <1>1, <1>2 DEF SeesInv, UnendedUnseen, ChainsInOrder
<1>5. CompletedShown'
  BY <1>1, <1>2, <1>3 DEF SeesInv, CompletedShown
<1>6. FreshUntilSnapshot'
  <2>1. \A u \in Txns : /\ Phase(u)' \in Unbegun \/ NeedsSafeSnapshot(u)'
                              => Phase(u) \in Unbegun \/ NeedsSafeSnapshot(u)
                        /\ Fresh(u) => Fresh(u)'
                        /\ Phase(u)' = "waiting" => Phase(u) = "waiting"
    BY <1>1, <1>2 DEF Phase, NeedsSafeSnapshot, Fresh
  <2>. QED
    BY <2>1 DEF SeesInv, FreshUntilSnapshot
<1>7. AnchorsHold'
  <2>1. ASSUME NEW u \in Txns, Anchored(u)' PROVE Anchor(u)'
    <3>1. u # t /\ session'[u] = session[u]
      BY <1>1, <1>2, <2>1 DEF Anchored
    <3>2. Anchored(u)
      BY <1>1, <2>1, <3>1 DEF Anchored, Phase, Fresh
    <3>3. Anchor(u)
      BY <3>2 DEF SeesInv, AnchorsHold
    <3>. QED
      BY <3>1, <3>3, <1>1, <1>2, <1>3 DEF Anchor, Phase
  <2>. QED
    BY <2>1 DEF AnchorsHold
<1>8. SeenWasPublished' /\ SnapshotStable' /\ NoFracturedRead'
  BY <1>1 DEF SeesInv, SeenWasPublished, SnapshotStable, NoFracturedRead, Wrote, Position
<1>. QED
  BY <1>4, <1>5, <1>6, <1>7, <1>8 DEF SeesInv

\* A published creator keeps its place.
LEMMA PlacesStay ==
    ASSUME CreatorsDiffer, CreatorsDiffer', NEW r \in Rows, NEW w, Wrote(w, r),
           Len(versions[r]) \in Nat, Len(versions'[r]) \in Nat, Len(versions[r]) <= Len(versions'[r]),
           DOMAIN versions[r] = 1..Len(versions[r]), DOMAIN versions'[r] = 1..Len(versions'[r]),
           \A i \in 1..Len(versions[r]) : versions'[r][i] = versions[r][i]
    PROVE  Wrote(w, r)' /\ Position(r, w)' = Position(r, w)
<1>. DEFINE c == versions[r]
            d == versions'[r]
<1>1. PICK i \in 1..Len(c) : c[i] = w
  BY DEF Wrote
<1>2. i \in 1..Len(d) /\ d[i] = w
  BY <1>1
<1>3. (\A j \in 1..Len(c) : c[j] = w => j = i) /\ (\A j \in 1..Len(d) : d[j] = w => j = i)
  BY <1>1, <1>2 DEF CreatorsDiffer
<1>4. Position(r, w) = i
  BY <1>1, <1>3 DEF Position
<1>5. Position(r, w)' = i
  BY <1>2, <1>3 DEF Position
<1>. QED
  BY <1>2, <1>4, <1>5 DEF Wrote

\* What publishing does to one chain that a snapshot reads.
LEMMA GrownChains ==
    ASSUME NEW c, NEW d, NEW sn, NEW n \in Nat, Len(c) = n, Len(d) \in {n, n + 1},
           \A i \in 1..n : d[i] = c[i],
           NEW t, Len(d) = n + 1 => d[n + 1] = t
    PROVE  /\ ShowsInOrder(sn, c) /\ (Shows(sn, t) => ShowsAll(sn, c)) => ShowsInOrder(sn, d)
           /\ \A w : ShowsLast(sn, c, w) /\ ~Shows(sn, t) => ShowsLast(sn, d, w)
           /\ \A b : ShowsNoneAfter(sn, b, c) /\ ~Shows(sn, t) => ShowsNoneAfter(sn, b, d)
<1>1. \A i \in 1..Len(d) : \/ i \in 1..n /\ d[i] = c[i]
                           \/ i = n + 1 /\ Len(d) = n + 1 /\ d[i] = t
  OBVIOUS
<1>2. ShowsInOrder(sn, c) /\ (Shows(sn, t) => ShowsAll(sn, c)) => ShowsInOrder(sn, d)
  <2>. SUFFICES ASSUME ShowsInOrder(sn, c), Shows(sn, t) => ShowsAll(sn, c),
                       NEW i \in 1..Len(d), NEW j \in 1..Len(d), i < j, Shows(sn, d[j])
                PROVE  Shows(sn, d[i])
    BY DEF ShowsInOrder
  <2>1. i \in 1..n /\ d[i] = c[i]
    BY <1>1
  <2>2. CASE j \in 1..n /\ d[j] = c[j]
    BY <2>1, <2>2 DEF ShowsInOrder
  <2>3. CASE j = n + 1 /\ d[j] = t
    BY <2>1, <2>3 DEF ShowsAll
  <2>. QED
    BY <1>1, <2>2, <2>3
<1>3. ASSUME NEW w, ShowsLast(sn, c, w), ~Shows(sn, t) PROVE ShowsLast(sn, d, w)
  <2>1. PICK i \in 1..n : c[i] = w /\ Shows(sn, w) /\ (i < n => ~Shows(sn, c[i + 1]))
    BY <1>3 DEF ShowsLast
  <2>2. i \in 1..Len(d) /\ d[i] = w
    BY <2>1
  <2>3. ASSUME i < Len(d) PROVE ~Shows(sn, d[i + 1])
    <3>1. CASE i < n
      <4>1. i + 1 \in 1..n /\ d[i + 1] = c[i + 1]
        BY <3>1
      <4>. QED
        BY <2>1, <3>1, <4>1
    <3>2. CASE i = n
      BY <1>3, <2>3, <3>2
    <3>. QED
      BY <3>1, <3>2
  <2>. QED
    BY <2>1, <2>2, <2>3 DEF ShowsLast
<1>4. ASSUME NEW b, ShowsNoneAfter(sn, b, c), ~Shows(sn, t) PROVE ShowsNoneAfter(sn, b, d)
  BY <1>1, <1>4 DEF ShowsNoneAfter
<1>. QED
  BY <1>2, <1>3, <1>4

\* Publication appends versions that no running snapshot shows.
LEMMA PublishingSees ==
    ASSUME Types, ChainsInv, Types', ChainsInv', SeesInv, NEW t \in Txns, Publishes(t)
    PROVE  SeesInv'
<1>1. /\ \A u \in Txns \ {t} : session'[u] = session[u]
      /\ seen' = seen
      /\ \A u \in Txns : session'[u].snapshot = session[u].snapshot
      /\ Phase(t) = "completed" /\ session'[t].phase = "committed"
      /\ session'[t].level = session[t].level /\ (session[t].safe => session'[t].safe)
      /\ session'[t].working = session[t].working /\ session'[t].savepoint = session[t].savepoint
  BY DEF Publishes, Turns, Becomes
<1>2. \A u \in Txns : /\ Phase(u)' \in Running => u # t /\ Phase(u) \in Running
                      /\ Phase(u)' \in Unbegun \cup Active => u # t /\ Phase(u) \in Unbegun \cup Active
                      /\ Phase(u)' # "completed"
  <2>1. \A u \in Txns : Phase(u) = "completed" => u = t
    BY <1>1 DEF ChainsInv, OneWriter, Locks
  <2>. QED
    BY <1>1, <2>1 DEF Phase, Running, Unbegun, Active
<1>3. ASSUME NEW r \in Rows
      PROVE  /\ Len(versions[r]) \in Nat /\ Len(versions'[r]) \in {Len(versions[r]), Len(versions[r]) + 1}
             /\ \A i \in 1..Len(versions[r]) : versions'[r][i] = versions[r][i] /\ versions[r][i] # t
             /\ Len(versions'[r]) = Len(versions[r]) + 1 => versions'[r][Len(versions[r]) + 1] = t
             /\ DOMAIN versions[r] = 1..Len(versions[r]) /\ DOMAIN versions'[r] = 1..Len(versions'[r])
  <2>1. /\ versions[r] \in Seq(Creators) /\ versions'[r] \in Seq(Creators)
        /\ Len(versions[r]) \in Nat
    BY DEF Types, Chains
  <2>2. versions' = [s \in Rows |-> IF s \in OwnRows(t) THEN Append(versions[s], t) ELSE versions[s]]
    BY DEF Publishes
  <2>. QED
    BY <1>1, <2>1, <2>2, PublishedChains
<1>4. UnendedUnseen'
  BY <1>1, <1>2 DEF SeesInv, UnendedUnseen
<1>5. ASSUME NEW u \in Txns, Phase(u) \in Running, NEW r \in Rows
      PROVE  ShowsInOrder(session[u].snapshot, versions'[r])
  <2>1. /\ ShowsInOrder(session[u].snapshot, versions[r])
        /\ Shows(session[u].snapshot, t) => ShowsAll(session[u].snapshot, versions[r])
    BY <1>1, <1>5 DEF SeesInv, ChainsInOrder, CompletedShown
  <2>. QED
    BY <1>3, <2>1, GrownChains
<1>6. ChainsInOrder'
  BY <1>1, <1>2, <1>5 DEF ChainsInOrder
<1>7. CompletedShown'
  BY <1>2 DEF CompletedShown
<1>8. FreshUntilSnapshot'
  <2>1. \A u \in Txns : /\ Phase(u)' \in Unbegun \/ NeedsSafeSnapshot(u)'
                              => Phase(u) \in Unbegun \/ NeedsSafeSnapshot(u)
                        /\ Fresh(u) => Fresh(u)'
                        /\ Phase(u)' = "waiting" => Phase(u) = "waiting"
    BY <1>1, <1>2 DEF Phase, NeedsSafeSnapshot, Fresh, Unbegun
  <2>. QED
    BY <2>1 DEF SeesInv, FreshUntilSnapshot
<1>9. AnchorsHold'
  <2>1. ASSUME NEW u \in Txns, Anchored(u)' PROVE Anchor(u)'
    <3>1. u # t /\ session'[u] = session[u]
      BY <1>1, <1>2, <2>1 DEF Anchored
    <3>2. Anchored(u)
      BY <1>1, <2>1, <3>1 DEF Anchored, Phase, Fresh
    <3>3. Anchor(u)
      BY <3>2 DEF SeesInv, AnchorsHold
    <3>. DEFINE sn == session[u].snapshot
    <3>4. ~Shows(sn, t)
      BY <1>1, <3>3 DEF Anchor
    <3>5. ASSUME NEW r \in Rows
          PROVE  /\ \A w : ShowsLast(sn, versions[r], w) => ShowsLast(sn, versions'[r], w)
                 /\ \A b : ShowsNoneAfter(sn, b, versions[r]) => ShowsNoneAfter(sn, b, versions'[r])
      <4>. DEFINE c == versions[r]
                  d == versions'[r]
                  n == Len(c)
      <4>1. /\ n \in Nat /\ Len(c) = n /\ Len(d) \in {n, n + 1}
            /\ \A i \in 1..n : d[i] = c[i]
            /\ Len(d) = n + 1 => d[n + 1] = t
        BY <1>3
      <4>. HIDE DEF c, d, n, sn
      <4>2. /\ \A w : ShowsLast(sn, c, w) => ShowsLast(sn, d, w)
            /\ \A b : ShowsNoneAfter(sn, b, c) => ShowsNoneAfter(sn, b, d)
        BY <3>4, <4>1, GrownChains
      <4>. QED
        BY <4>2 DEF c, d
    <3>. HIDE DEF sn
    <3>6. \A a \in seen[u] : a[1] \in Rows
      BY DEF Types, RowVersions
    <3>7. \A a \in seen[u] : ShowsLast(sn, versions'[a[1]], a[2])
      BY <3>3, <3>5, <3>6 DEF Anchor, sn
    <3>8. session[u].working # {} \/ Phase(u) = "waiting" =>
              \A r \in Rows : ShowsNoneAfter(sn, session[u].base[r], versions'[r])
      BY <3>3, <3>5 DEF Anchor, sn
    <3>9. session[u].savepoint.working # {} =>
              \A r \in Rows : ShowsNoneAfter(sn, session[u].savepoint.base[r], versions'[r])
      BY <3>3, <3>5 DEF Anchor, sn
    <3>. QED
      BY <3>1, <3>7, <3>8, <3>9, <1>1, <1>2 DEF Anchor, Phase, sn
  <2>. QED
    BY <2>1 DEF AnchorsHold
<1>10. ASSUME NEW r \in Rows, NEW w, Wrote(w, r)
       PROVE  Wrote(w, r)' /\ Position(r, w)' = Position(r, w)
  BY <1>3, <1>10, PlacesStay DEF ChainsInv
<1>11. \A u \in Txns : \A a \in seen[u] : a[1] \in Rows /\ Wrote(a[2], a[1])
  BY DEF Types, RowVersions, SeesInv, SeenWasPublished
<1>12. SeenWasPublished' /\ SnapshotStable'
  BY <1>1, <1>10, <1>11 DEF SeesInv, SeenWasPublished, SnapshotStable
<1>13. NoFracturedRead'
  <2>1. ASSUME NEW u \in Txns, NEW a \in seen[u], NEW b \in seen[u], a[2] # Frozen, Wrote(a[2], b[1])'
        PROVE  Position(b[1], b[2])' >= Position(b[1], a[2])'
    <3>1. a[2] # t
      BY <1>3, <1>11 DEF Wrote
    <3>2. Wrote(a[2], b[1])
      <4>1. PICK i \in DOMAIN versions'[b[1]] : versions'[b[1]][i] = a[2]
        BY <2>1 DEF Wrote
      <4>2. b[1] \in Rows
        BY <1>11
      <4>3. i \in 1..Len(versions[b[1]])
        BY <1>3, <3>1, <4>1, <4>2
      <4>. QED
        BY <1>3, <4>1, <4>2, <4>3 DEF Wrote
    <3>3. Position(b[1], b[2]) >= Position(b[1], a[2])
      BY <2>1, <3>2 DEF SeesInv, NoFracturedRead
    <3>. QED
      BY <1>10, <1>11, <3>2, <3>3
  <2>. QED
    BY <1>1, <2>1 DEF NoFracturedRead
<1>. QED
  BY <1>4, <1>6, <1>7, <1>8, <1>9, <1>12, <1>13 DEF SeesInv

\* A snapshot is taken.
LEMMA LookingSees ==
    ASSUME Types, IdsInv, ChainsInv, SeesInv, NEW t \in Txns, Looks(t)
    PROVE  SeesInv'
<1>1. /\ \A u \in Txns \ {t} : session'[u] = session[u]
      /\ versions' = versions /\ seen' = seen
      /\ Phase(t) \in {"raised", "idle"} /\ session'[t].phase \in {"idle", "statement"}
      /\ session'[t].level = session[t].level
      /\ session'[t].safe <=> session[t].safe \/ session'[t].phase = "statement"
      /\ session'[t].working = session[t].working /\ session'[t].savepoint = session[t].savepoint
      /\ session'[t].snapshot = snapshot_locked(t)
  BY DEF Looks, SameLevel, OthersStay
<1>2. \A u \in Txns : Phase(u)' \in Unbegun \cup Active => Phase(u) \in Unbegun \cup Active
  BY <1>1 DEF Phase, Unbegun, Active
<1>3. ASSUME NEW u \in Txns \ {t}, Phase(u) \notin Unbegun
      PROVE  Shows(session'[t].snapshot, u) <=> Phase(u) \notin Active
  BY <1>1, <1>3, NewSnapshot DEF Shows, Sees
<1>4. ASSUME NEW u \in Txns \ {t}, Phase(u) \in Unbegun \cup Active
      PROVE  ~Shows(session'[t].snapshot, u)
  <2>1. CASE Phase(u) \in Active
    BY <2>1, <1>3 DEF Active, Unbegun
  <2>2. CASE Phase(u) \in Unbegun
    <3>1. Phase(u) = "none"
      BY <2>2 DEF Looks, Beginning, Unbegun
    <3>2. u > allocated /\ next_transaction_id <= allocated + 1
      BY <3>1 DEF IdsInv
    <3>3. u \in Nat /\ allocated \in Nat /\ next_transaction_id \in Nat /\ u # Frozen
      BY TxnsAreNaturals DEF Types, Frozen
    <3>4. ~(u < next_transaction_id)
      BY <3>2, <3>3
    <3>5. session'[t].snapshot.xmax = next_transaction_id
      BY <1>1, SnapshotType
    <3>. QED
      BY <3>3, <3>4, <3>5 DEF Shows, sees_transaction
  <2>. QED
    BY <1>4, <2>1, <2>2
<1>5. ASSUME NEW r \in Rows PROVE ShowsAll(session'[t].snapshot, versions[r])
  <2>. SUFFICES ASSUME NEW i \in 1..Len(versions[r]) PROVE Shows(session'[t].snapshot, versions[r][i])
    BY DEF ShowsAll
  <2>1. PICK v : v = versions[r][i]
    OBVIOUS
  <2>2. v = Frozen \/ (v \in Txns /\ Phase(v) = "committed")
    BY <2>1, Zenon DEF ChainsInv, CreatorsCommitted
  <2>3. CASE v = Frozen
    BY <2>1, <2>3 DEF Shows
  <2>4. CASE v \in Txns /\ Phase(v) = "committed"
    <3>1. v # t /\ Phase(v) \notin Unbegun /\ Phase(v) \notin Active
      BY <2>4, <1>1 DEF Unbegun, Active
    <3>. QED
      BY <2>1, <2>4, <3>1, <1>3
  <2>. QED
    BY <2>2, <2>3, <2>4
<1>6. \A r \in Rows : ShowsInOrder(session'[t].snapshot, versions[r])
  BY <1>5 DEF ShowsAll, ShowsInOrder
<1>7. UnendedUnseen'
  <2>1. ASSUME NEW v \in Txns, NEW u \in Txns, v # u, Phase(u)' \in Unbegun \cup Active
        PROVE  ~Shows(session'[v].snapshot, u)
    <3>1. Phase(u) \in Unbegun \cup Active
      BY <2>1, <1>2
    <3>. QED
      BY <2>1, <3>1, <1>1, <1>4 DEF SeesInv, UnendedUnseen
  <2>. QED
    BY <2>1 DEF UnendedUnseen
<1>8. ChainsInOrder'
  BY <1>1, <1>6 DEF SeesInv, ChainsInOrder, Phase
<1>9. CompletedShown'
  <2>1. \A u \in Txns : Phase(u)' = "completed" => Phase(u) = "completed"
    BY <1>1 DEF Phase
  <2>. QED
    BY <1>1, <1>5, <2>1 DEF SeesInv, CompletedShown, Phase
<1>10. \A u \in Txns : Fresh(u)' <=> Fresh(u)
  BY <1>1 DEF Fresh
<1>11. session[t].level # "ReadCommitted" \/ Phase(t) \in Unbegun => Fresh(t)
  BY DEF Looks, SeesInv, FreshUntilSnapshot, Unbegun
<1>12. FreshUntilSnapshot'
  <2>1. NeedsSafeSnapshot(t)' => Fresh(t)
    BY <1>1, <1>11 DEF NeedsSafeSnapshot
  <2>2. Phase(t)' \notin Unbegun /\ Phase(t)' # "waiting"
    BY <1>1 DEF Phase, Unbegun
  <2>. QED
    BY <1>1, <1>10, <2>1, <2>2 DEF SeesInv, FreshUntilSnapshot, Phase, NeedsSafeSnapshot
<1>13. AnchorsHold'
  <2>1. ~Anchored(t)'
    BY <1>1, <1>10, <1>11 DEF Anchored, Phase
  <2>2. ASSUME NEW u \in Txns \ {t}, Anchored(u)' PROVE Anchor(u)'
    <3>1. Anchored(u)
      BY <1>1, <2>2 DEF Anchored, Phase, Fresh
    <3>2. Anchor(u)
      BY <3>1 DEF SeesInv, AnchorsHold
    <3>3. \A v \in Txns : Phase(v)' = "completed" => Phase(v) = "completed"
      BY <1>1 DEF Phase
    <3>. QED
      BY <3>2, <3>3, <1>1 DEF Anchor, Phase
  <2>. QED
    BY <2>1, <2>2 DEF AnchorsHold
<1>14. SeenWasPublished' /\ SnapshotStable' /\ NoFracturedRead'
  <2>1. \A u \in Txns : seen'[u] = seen[u]
    BY <1>1
  <2>. QED
    BY <1>1, <2>1 DEF SeesInv, SeenWasPublished, SnapshotStable, NoFracturedRead, Wrote, Position
<1>. QED
  BY <1>7, <1>8, <1>9, <1>12, <1>13, <1>14 DEF SeesInv

-----------------------------------------------------------------------------
\* At most one version of a chain is the last one that a snapshot shows,
LEMMA OneLastShown ==
    ASSUME NEW chain \in Seq(Creators), NEW sn, ShowsInOrder(sn, chain),
           NEW v, ShowsLast(sn, chain, v), NEW i \in 1..Len(chain), Shows(sn, chain[i])
    PROVE  \E j \in 1..Len(chain) : chain[j] = v /\ i <= j
<1>1. PICK j \in 1..Len(chain) : chain[j] = v /\ (j < Len(chain) => ~Shows(sn, chain[j + 1]))
  BY DEF ShowsLast
<1>2. Len(chain) \in Nat
  OBVIOUS
<1>3. ASSUME j < i PROVE FALSE
  <2>1. j + 1 \in 1..Len(chain) /\ j < Len(chain) /\ j + 1 <= i
    BY <1>1, <1>2, <1>3
  <2>2. CASE j + 1 = i
    BY <2>1, <2>2, <1>1
  <2>3. CASE j + 1 < i
    BY <2>1, <2>3, <1>1 DEF ShowsInOrder
  <2>. QED
    BY <2>1, <2>2, <2>3, <1>2
<1>. QED
  BY <1>1, <1>2, <1>3

\* and if its first version is shown there is one.
LEMMA SomeLastShown ==
    ASSUME NEW chain \in Seq(Creators), Len(chain) \in Nat \ {0}, NEW sn, Shows(sn, chain[1])
    PROVE  \E v : ShowsLast(sn, chain, v)
<1>. DEFINE n == Len(chain)
            T == {m \in Nat : \E i \in 1..n : m = n - i /\ Shows(sn, chain[i])}
<1>1. n - 1 \in T /\ T \subseteq Nat
  OBVIOUS
<1>2. PICK m \in T : \A k \in T : m <= k
  BY <1>1, LeastNatural
<1>3. PICK i \in 1..n : m = n - i /\ Shows(sn, chain[i])
  BY <1>2
<1>4. ASSUME i < n, Shows(sn, chain[i + 1]) PROVE FALSE
  <2>1. i + 1 \in 1..n /\ n - (i + 1) \in Nat
    BY <1>4
  <2>2. n - (i + 1) \in T
    BY <1>4, <2>1
  <2>3. m <= n - (i + 1)
    BY <1>2, <2>2
  <2>. QED
    BY <1>3, <2>1, <2>3
<1>. QED
  BY <1>3, <1>4 DEF ShowsLast

\* A chain of which snapshots show a prefix.
Readable(sn, chain) ==
    /\ chain \in Seq(Creators) /\ Len(chain) \in Nat \ {0}
    /\ chain[1] = Frozen
    /\ \A i \in 1..Len(chain) : Committed(chain[i])
    /\ \A i, j \in 1..Len(chain) : chain[i] = chain[j] => i = j
    /\ ShowsInOrder(sn, chain)

\* tuple_visible finds its last version that is shown.
LEMMA VisibleIsLast ==
    ASSUME NEW t \in Txns, NEW chain, Readable(session[t].snapshot, chain)
    PROVE  \E v : /\ tuple_visible(t, chain) = {v}
                  /\ ShowsLast(session[t].snapshot, chain, v)
                  /\ \A w : ShowsLast(session[t].snapshot, chain, w) => w = v
<1>. DEFINE sn == session[t].snapshot
            n == Len(chain)
<1>1. /\ chain \in Seq(Creators) /\ n \in Nat \ {0} /\ DOMAIN chain = 1..n
      /\ ShowsInOrder(sn, chain)
      /\ \A i \in 1..n : Committed(chain[i])
      /\ \A i, j \in 1..n : chain[i] = chain[j] => i = j
  BY DEF Readable
<1>2. Shows(sn, chain[1])
  BY DEF Readable, Shows
<1>3. PICK v : ShowsLast(sn, chain, v)
  BY <1>1, <1>2, SomeLastShown
<1>4. PICK k \in 1..n : chain[k] = v /\ Shows(sn, chain[k]) /\ (k < n => ~Shows(sn, chain[k + 1]))
  BY <1>3 DEF ShowsLast
<1>5. \A i \in 1..n : Sees(t, chain[i]) <=> Shows(sn, chain[i])
  BY DEF Sees, Shows
<1>6. ASSUME NEW j \in 1..n, Shows(sn, chain[j]), j < n => ~Shows(sn, chain[j + 1])
      PROVE  j = k
  <2>1. ShowsLast(sn, chain, chain[j])
    BY <1>6 DEF ShowsLast
  <2>2. k <= j
    BY <1>1, <1>4, <2>1, OneLastShown
  <2>3. j <= k
    BY <1>1, <1>3, <1>4, <1>6, OneLastShown
  <2>. QED
    BY <1>1, <2>2, <2>3
<1>7. \A w : ShowsLast(sn, chain, w) => w = v
  BY <1>4, <1>6 DEF ShowsLast
<1>8. \A j \in 1..n : j < n => j + 1 \in 1..n
  BY <1>1
<1>9. {j \in 1..n : /\ Committed(chain[j]) /\ Sees(t, chain[j])
                    /\ j < n => ~(Committed(chain[j + 1]) /\ Sees(t, chain[j + 1]))} = {k}
  BY <1>1, <1>4, <1>5, <1>6, <1>8
<1>10. tuple_visible(t, chain) = {chain[i] : i \in {k}}
  BY <1>1, <1>9 DEF tuple_visible
<1>11. tuple_visible(t, chain) = {v}
  BY <1>4, <1>10
<1>. QED
  BY <1>3, <1>7, <1>11

\* The published chains, and the bases, are readable for a running transaction.
LEMMA ChainsAreReadable ==
    ASSUME Types, ChainsInv, SeesInv, NEW t \in Txns, Phase(t) \in Running, NEW r \in Rows
    PROVE  /\ Readable(session[t].snapshot, versions[r])
           /\ Readable(session[t].snapshot, session[t].base[r])
<1>. DEFINE sn == session[t].snapshot
            c == versions[r]
            b == session[t].base[r]
<1>1. /\ c \in Seq(Creators) /\ Len(c) \in Nat \ {0}
      /\ b \in Seq(Creators) /\ Len(b) \in Nat \ {0}
  BY ChainFacts
<1>2. c[1] = Frozen /\ ShowsInOrder(sn, c)
      /\ \A i, j \in 1..Len(c) : c[i] = c[j] => i = j
  BY DEF ChainsInv, Started, CreatorsDiffer, SeesInv, ChainsInOrder
<1>3. \A i \in 1..Len(c) : Committed(c[i])
  <2>. SUFFICES ASSUME NEW i \in 1..Len(c) PROVE Committed(c[i])
    OBVIOUS
  <2>1. PICK v : v = c[i]
    OBVIOUS
  <2>2. v = Frozen \/ (v \in Txns /\ Phase(v) = "committed")
    BY <2>1, Zenon DEF ChainsInv, CreatorsCommitted
  <2>3. Committed(v)
    BY <2>2 DEF Committed
  <2>. QED
    BY <2>1, <2>3
<1>4. Len(b) <= Len(c) /\ \A i \in 1..Len(b) : b[i] = c[i]
  BY DEF ChainsInv, BasesWerePublished, Published, Extends
<1>. HIDE DEF c, b, sn
<1>5. 1 \in 1..Len(b) /\ 1..Len(b) \subseteq 1..Len(c)
  BY <1>1, <1>4
<1>6. ShowsInOrder(sn, b)
  BY <1>2, <1>4, <1>5 DEF ShowsInOrder
<1>7. Readable(sn, c)
  BY <1>1, <1>2, <1>3 DEF Readable
<1>8. Readable(sn, b)
  BY <1>1, <1>2, <1>3, <1>4, <1>5, <1>6 DEF Readable
<1>. QED
  BY <1>7, <1>8 DEF c, b, sn

\* What is last in a base that misses nothing shown is last in the published chain.
LEMMA LastStays ==
    ASSUME NEW c \in Seq(Creators), NEW b \in Seq(Creators), Extends(b, c), NEW sn,
           ShowsNoneAfter(sn, b, c), NEW w, ShowsLast(sn, b, w)
    PROVE  ShowsLast(sn, c, w)
<1>1. Len(b) \in Nat /\ Len(c) \in Nat /\ Len(b) <= Len(c) /\ \A i \in 1..Len(b) : b[i] = c[i]
  BY DEF Extends
<1>2. PICK i \in 1..Len(b) : b[i] = w /\ Shows(sn, w) /\ (i < Len(b) => ~Shows(sn, b[i + 1]))
  BY DEF ShowsLast
<1>3. i \in 1..Len(c) /\ c[i] = w
  BY <1>1, <1>2
<1>4. ASSUME i < Len(c) PROVE ~Shows(sn, c[i + 1])
  <2>1. CASE i < Len(b)
    <3>1. i + 1 \in 1..Len(b)
      BY <1>1, <2>1
    <3>. QED
      BY <1>1, <1>2, <2>1, <3>1
  <2>2. CASE i = Len(b)
    <3>1. i + 1 \in 1..Len(c) /\ i + 1 > Len(b)
      BY <1>1, <1>4, <2>2
    <3>. QED
      BY <3>1 DEF ShowsNoneAfter
  <2>. QED
    BY <1>1, <2>1, <2>2
<1>. QED
  BY <1>2, <1>3, <1>4 DEF ShowsLast

\* The rows a statement reads: one version each; of a transaction that has to
\* keep its reads, the last version of the row that its snapshot shows.
LEMMA ViewFacts ==
    ASSUME Types, ChainsInv, SeesInv, NEW t \in Txns, Phase(t) = "statement", NEW r \in Rows
    PROVE  /\ \E v : View(t, r) = {v}
           /\ session[t].working = {} \/ session[t].level # "ReadCommitted" =>
                  \A w \in View(t, r) : ShowsLast(session[t].snapshot, versions[r], w)
           /\ session[t].working # {} /\ session[t].level = "ReadCommitted" =>
                  View(t, r) = {versions[r][Len(versions[r])]}
<1>1. /\ Readable(session[t].snapshot, versions[r])
      /\ Readable(session[t].snapshot, session[t].base[r])
  BY ChainsAreReadable DEF Running
<1>2. CASE session[t].working = {}
  <2>1. View(t, r) = tuple_visible(t, versions[r])
    BY <1>2 DEF View
  <2>2. PICK v : View(t, r) = {v} /\ ShowsLast(session[t].snapshot, versions[r], v)
    BY <1>1, <2>1, VisibleIsLast
  <2>. QED
    BY <1>2, <2>2
<1>3. CASE session[t].working # {} /\ session[t].level = "ReadCommitted"
  BY <1>3 DEF View, Rebases
<1>4. CASE session[t].working # {} /\ session[t].level # "ReadCommitted"
  <2>1. View(t, r) = tuple_visible(t, session[t].base[r])
    BY <1>4 DEF View, Rebases
  <2>2. Anchored(t)
    BY <1>4 DEF Anchored, Fresh, Running
  <2>3. ShowsNoneAfter(session[t].snapshot, session[t].base[r], versions[r])
    BY <1>4, <2>2 DEF SeesInv, AnchorsHold, Anchor
  <2>4. Extends(session[t].base[r], versions[r])
    BY DEF ChainsInv, BasesWerePublished, Published
  <2>5. versions[r] \in Seq(Creators) /\ session[t].base[r] \in Seq(Creators)
    BY ChainFacts
  <2>6. PICK v : View(t, r) = {v} /\ ShowsLast(session[t].snapshot, session[t].base[r], v)
    BY <1>1, <2>1, VisibleIsLast
  <2>7. ShowsLast(session[t].snapshot, versions[r], v)
    BY <2>3, <2>4, <2>5, <2>6, LastStays
  <2>. QED
    BY <1>4, <2>6, <2>7
<1>. QED
  BY <1>2, <1>3, <1>4

\* Where a creator stands in a published chain.
LEMMA Places ==
    ASSUME Types, CreatorsDiffer, NEW r \in Rows, NEW w, NEW i \in 1..Len(versions[r]), versions[r][i] = w
    PROVE  Wrote(w, r) /\ Position(r, w) = i
<1>1. versions[r] \in Seq(Creators) /\ DOMAIN versions[r] = 1..Len(versions[r])
  BY DEF Types, Chains
<1>2. \A j \in 1..Len(versions[r]) : versions[r][j] = w => j = i
  BY DEF CreatorsDiffer
<1>. QED
  BY <1>1, <1>2 DEF Wrote, Position

\* A statement sees rows and records what it saw.
LEMMA ObservingSees ==
    ASSUME Types, ChainsInv, Types', SsiInv, SeesInv, NEW t \in Txns, NEW rows, Observes(t, rows)
    PROVE  SeesInv'
<1>. DEFINE sn == session[t].snapshot
            now == UNION {{<<r, w>> : w \in View(t, r)} : r \in rows \ OwnRows(t)}
            RC == session[t].level = "ReadCommitted"
            Rebased == RC /\ session[t].working # {}
<1>1. /\ \A u \in Txns \ {t} : session'[u] = session[u]
      /\ versions' = versions
      /\ \A u \in Txns : session'[u].snapshot = session[u].snapshot
      /\ \A u \in Txns : session'[u].working = session[u].working
                         /\ session'[u].savepoint = session[u].savepoint
      /\ Phase(t) = "statement" /\ session'[t].phase \in {"idle", "failed", "waiting"}
      /\ session'[t].level = session[t].level /\ (session[t].safe => session'[t].safe)
      /\ rows \subseteq Rows
  BY DEF Observes, SameLevel, OthersStay
<1>2. /\ \A u \in Txns : Phase(u)' \in Running <=> Phase(u) \in Running
      /\ \A u \in Txns : Phase(u)' \in Unbegun \cup Active <=> Phase(u) \in Unbegun \cup Active
      /\ \A u \in Txns : Phase(u) # "completed" /\ Phase(u)' # "completed"
      /\ Phase(t) \in Running
  BY <1>1 DEF Observes, StateLocked, Phase, Running, Unbegun, Active
<1>3. /\ \A u \in Txns \ {t} : seen'[u] = seen[u]
      /\ seen'[t] = IF RC THEN now ELSE seen[t] \cup now
  BY DEF Observes, Observe, Types
<1>4. session[t].safe
  BY <1>1 DEF SsiInv, UnreadUntilSafe
<1>5. UnendedUnseen' /\ ChainsInOrder' /\ CompletedShown'
  BY <1>1, <1>2 DEF SeesInv, UnendedUnseen, ChainsInOrder, CompletedShown
<1>6. FreshUntilSnapshot'
  <2>1. Phase(t)' \notin Unbegun /\ ~NeedsSafeSnapshot(t)'
    BY <1>1, <1>4 DEF Phase, Unbegun, NeedsSafeSnapshot
  <2>2. \A u \in Txns \ {t} : /\ Phase(u)' = Phase(u) /\ (NeedsSafeSnapshot(u)' <=> NeedsSafeSnapshot(u))
                              /\ Fresh(u)' <=> Fresh(u)
    BY <1>1, <1>3 DEF Phase, NeedsSafeSnapshot, Fresh
  <2>. QED
    BY <2>1, <2>2 DEF SeesInv, FreshUntilSnapshot
<1>7. \A a \in now : a[1] \in Rows /\ a[2] \in View(t, a[1])
  BY <1>1
<1>8. /\ \A a \in now : View(t, a[1]) = {a[2]}
      /\ ~Rebased => \A a \in now : ShowsLast(sn, versions[a[1]], a[2])
      /\ Rebased => \A a \in now : a[2] = versions[a[1]][Len(versions[a[1]])]
  BY <1>1, <1>7, ViewFacts
<1>9. ~Fresh(t) /\ ~RC => Anchor(t)
  BY <1>2 DEF SeesInv, AnchorsHold, Anchored
<1>. HIDE DEF now
<1>10. ~Rebased => \A a \in seen'[t] : ShowsLast(sn, versions[a[1]], a[2])
  <2>1. CASE RC
    BY <1>3, <1>8, <2>1
  <2>2. CASE ~RC
    <3>1. \A a \in seen[t] : ShowsLast(sn, versions[a[1]], a[2])
      BY <2>2, <1>9 DEF Fresh, Anchor
    <3>. QED
      BY <1>3, <1>8, <2>2, <3>1
  <2>. QED
    BY <2>1, <2>2
<1>11. Rebased => seen'[t] = now
  BY <1>3
<1>12. \A a \in seen'[t] : a[1] \in Rows
  BY DEF Types, RowVersions
<1>13. AnchorsHold'
  <2>1. ASSUME NEW u \in Txns \ {t}, Anchored(u)' PROVE Anchor(u)'
    <3>1. Anchored(u)
      BY <1>1, <1>3, <2>1 DEF Anchored, Phase, Fresh
    <3>2. Anchor(u)
      BY <3>1 DEF SeesInv, AnchorsHold
    <3>. QED
      BY <3>2, <1>1, <1>2, <1>3 DEF Anchor, Phase
  <2>2. ASSUME Anchored(t)' PROVE Anchor(t)'
    <3>1. ~RC
      BY <1>1, <2>2 DEF Anchored
    <3>2. session[t].savepoint.working # {} =>
              \A r \in Rows : ShowsNoneAfter(sn, session[t].savepoint.base[r], versions[r])
      BY <1>9, <3>1 DEF Fresh, Anchor
    <3>3. session[t].working # {} \/ session'[t].phase = "waiting" =>
              \A r \in Rows : ShowsNoneAfter(sn, session'[t].base[r], versions[r])
      <4>1. CASE session'[t].base = versions
        <5>1. \A r \in Rows : Len(versions[r]) \in Nat
          BY ChainFacts
        <5>. QED
          BY <4>1, <5>1 DEF ShowsNoneAfter
      <4>2. CASE session'[t].base # versions
        <5>1. /\ session'[t].base = session[t].base
              /\ session[t].working # {} \/ session'[t].phase # "waiting"
          BY <3>1, <4>2 DEF Observes
        <5>. QED
          BY <5>1, <1>9, <3>1 DEF Fresh, Anchor
      <4>. QED
        BY <4>1, <4>2
    <3>. QED
      BY <1>1, <1>2, <1>10, <3>1, <3>2, <3>3 DEF Anchor, Phase
  <2>. QED
    BY <2>1, <2>2 DEF AnchorsHold
<1>14. ASSUME NEW a \in seen'[t]
       PROVE  \E i \in 1..Len(versions[a[1]]) : versions[a[1]][i] = a[2]
  <2>1. CASE Rebased
    <3>1. a[2] = versions[a[1]][Len(versions[a[1]])] /\ Len(versions[a[1]]) \in 1..Len(versions[a[1]])
      BY <1>8, <1>11, <1>12, <1>14, <2>1, ChainFacts
    <3>. QED
      BY <3>1
  <2>2. CASE ~Rebased
    BY <1>10, <1>14, <2>2 DEF ShowsLast
  <2>. QED
    BY <2>1, <2>2
<1>15. SeenWasPublished'
  <2>1. \A a \in seen'[t] : Wrote(a[2], a[1])
    BY <1>12, <1>14, Places DEF ChainsInv
  <2>. QED
    BY <1>1, <1>3, <2>1 DEF SeesInv, SeenWasPublished, Wrote
<1>16. SnapshotStable'
  <2>1. ASSUME NEW a \in seen'[t], NEW b \in seen'[t], a[1] = b[1] PROVE a[2] = b[2]
    <3>1. CASE Rebased
      BY <1>8, <1>11, <2>1, <3>1
    <3>2. CASE ~Rebased
      <4>1. Readable(sn, versions[a[1]])
        BY <1>2, <1>12, ChainsAreReadable
      <4>2. PICK v : \A w : ShowsLast(sn, versions[a[1]], w) => w = v
        BY <4>1, VisibleIsLast
      <4>. QED
        BY <1>10, <2>1, <3>2, <4>2
    <3>. QED
      BY <3>1, <3>2
  <2>. QED
    BY <1>3, <2>1 DEF SeesInv, SnapshotStable
<1>17. NoFracturedRead'
  <2>1. ASSUME NEW a \in seen'[t], NEW b \in seen'[t], Wrote(a[2], b[1])
        PROVE  Position(b[1], b[2]) >= Position(b[1], a[2])
    <3>. DEFINE c == versions[b[1]]
    <3>1. c \in Seq(Creators) /\ Len(c) \in Nat \ {0} /\ b[1] \in Rows
      BY <1>12, ChainFacts
    <3>2. PICK i \in 1..Len(c) : c[i] = a[2]
      BY <2>1, <3>1 DEF Wrote
    <3>3. Position(b[1], a[2]) = i
      BY <3>1, <3>2, Places DEF ChainsInv
    <3>4. PICK j \in 1..Len(c) : c[j] = b[2] /\ i <= j
      <4>1. CASE Rebased
        <5>1. b[2] = c[Len(c)] /\ Len(c) \in 1..Len(c) /\ i <= Len(c)
          BY <1>8, <1>11, <3>1, <4>1
        <5>. QED
          BY <5>1
      <4>2. CASE ~Rebased
        <5>1. Shows(sn, c[i]) /\ ShowsLast(sn, c, b[2])
          BY <1>10, <3>2, <4>2 DEF ShowsLast
        <5>2. ShowsInOrder(sn, c)
          BY <1>2, <3>1 DEF SeesInv, ChainsInOrder
        <5>. QED
          BY <3>1, <3>2, <5>1, <5>2, OneLastShown
      <4>. QED
        BY <4>1, <4>2
    <3>5. Position(b[1], b[2]) = j
      BY <3>1, <3>4, Places DEF ChainsInv
    <3>. QED
      BY <3>1, <3>2, <3>3, <3>4, <3>5
  <2>. QED
    BY <1>1, <1>3, <2>1 DEF SeesInv, NoFracturedRead, Wrote, Position
<1>. QED
  BY <1>5, <1>6, <1>13, <1>15, <1>16, <1>17 DEF SeesInv

SeesMoves(t) ==
    \/ Carries(t) \/ Looks(t) \/ Completes(t) \/ Publishes(t)
    \/ \E rows \in SUBSET Rows : Observes(t, rows)

\* What a statement reads.
LEMMA StepsMoveSeen ==
    ASSUME BeginsAlone, Types, IdsInv, NEW t \in Txns, Step(t)
    PROVE  SeesMoves(t)
<1>. DEFINE x == session[t]
            y == session'[t]
            Kept == y.base = x.base /\ y.working = x.working /\ y.savepoint = x.savepoint
<1>0. begin_durable(t) => Phase(t) = "none"
  BY TxnsAreNaturals DEF begin_durable, IdsInv, Types
<1>1. MaySnapshot(t) => \A u \in Txns \ {t} : ~Beginning(u)
  BY DEF MaySnapshot, BeginsAlone, Types
<1>. USE DEF SeesMoves, SameLevel, OthersStay, Becomes, Turns, Running, Unbegun, Active
<1>2. CASE begin_durable(t)
  BY <1>0, <1>2, BeginDoes DEF begin_durable, Opens, Carries
<1>3. CASE raise_high_water(t)
  BY <1>3, RaiseDoes DEF raise_high_water, Carries
<1>4. CASE register(t)
  <2>0. Phase(t) = "raised" /\ versions' = versions /\ seen' = seen /\ MaySnapshot(t)
    BY <1>4 DEF register
  <2>1. CASE Turns(t, "aborted")
    BY <2>0, <2>1 DEF Carries
  <2>2. CASE ~Turns(t, "aborted")
    <3>1. /\ SameLevel(t) /\ y.phase = "idle" /\ y.snapshot = snapshot_locked(t)
          /\ y.working = x.working /\ y.savepoint = x.savepoint
      BY <1>4, <2>2, RegisterDoes
    <3>. QED
      BY <1>1, <2>0, <3>1 DEF Looks
  <2>. QED
    BY <2>1, <2>2
<1>5. CASE begin_statement(t)
  <2>1. /\ Phase(t) = "idle" /\ versions' = versions /\ seen' = seen
        /\ x.level = "ReadCommitted" => MaySnapshot(t)
    BY <1>5 DEF begin_statement, Enter, MayStart
  <2>2. PICK sn \in {x.snapshot, snapshot_locked(t)} :
           /\ SameLevel(t) /\ y.phase = "statement" /\ y.snapshot = sn /\ Kept
           /\ x.level # "ReadCommitted" => sn = x.snapshot
    BY <1>5, StatementDoes
  <2>3. CASE sn = x.snapshot
    BY <2>1, <2>2, <2>3 DEF Carries
  <2>4. CASE sn # x.snapshot
    BY <1>1, <2>1, <2>2, <2>4 DEF Looks
  <2>. QED
    BY <2>3, <2>4
<1>6. CASE wait_for_safe_snapshot(t)
  BY <1>1, <1>6, SafeDoes DEF wait_for_safe_snapshot, Enter, MayStart, Looks
<1>7. CASE cancel_safe_snapshot(t)
  BY <1>7, CancelDoes DEF cancel_safe_snapshot, MayStart, Carries
<1>8. CASE refresh_conflict(t)
  BY <1>8, ConflictDoes DEF refresh_conflict, Carries
<1>9. CASE \E table \in Tables : select(t, table)
  <2>1. PICK table \in Tables : select(t, table)
    BY <1>9
  <2>2. /\ SameLevel(t) /\ y.phase = "idle" /\ y.snapshot = x.snapshot
        /\ y.base = Base(t) /\ y.working = x.working /\ y.savepoint = x.savepoint
    BY <2>1, SelectDoes
  <2>3. /\ Phase(t) = "statement" /\ ~StateLocked /\ versions' = versions
        /\ Observe(t, RowsOf(table)) /\ RowsOf(table) \in SUBSET Rows
    BY <2>1 DEF select, committed_snapshot, RowsOf
  <2>4. x.level # "ReadCommitted" => y.base = x.base
    BY <2>2 DEF Base, Rebases
  <2>5. Observes(t, RowsOf(table))
    BY <2>2, <2>3, <2>4 DEF Observes
  <2>. QED
    BY <2>3, <2>5
<1>10. CASE \E r \in Rows, kind \in Kinds : update(t, r, kind)
  <2>1. PICK r \in Rows, kind \in Kinds : update(t, r, kind)
    BY <1>10
  <2>. DEFINE rows == IF kind = "scan" THEN RowsOf(setup.table_of[r]) ELSE {r}
  <2>2. /\ Phase(t) = "statement" /\ ~StateLocked /\ versions' = versions
        /\ Observe(t, rows) /\ rows \in SUBSET Rows
    BY <2>1 DEF update, committed_snapshot, RowsOf
  <2>. HIDE DEF rows
  <2>3. PICK b \in {IF x.working = {} THEN versions ELSE Base(t), x.base} :
           /\ SameLevel(t) /\ y.phase \in {"failed", "waiting"} /\ y.snapshot = x.snapshot
           /\ y.base = b /\ y.working = x.working /\ y.savepoint = x.savepoint
           /\ y.phase = "waiting" => b = IF x.working = {} THEN versions ELSE Base(t)
    <3>1. CASE y.phase = "waiting"
      BY <2>1, <3>1, UpdateDoes
    <3>2. CASE y.phase # "waiting"
      BY <2>1, <3>2, UpdateDoes
    <3>. QED
      BY <3>1, <3>2
  <2>4. x.level # "ReadCommitted" =>
           \/ x.working = {} /\ y.base = versions
           \/ y.base = x.base /\ (x.working # {} \/ y.phase # "waiting")
    BY <2>3 DEF Base, Rebases
  <2>5. Observes(t, rows)
    BY <2>2, <2>3, <2>4 DEF Observes
  <2>. QED
    BY <2>2, <2>5
<1>11. CASE locks_acquired(t)
  <2>1. /\ SameLevel(t) /\ y.phase = "idle" /\ y.snapshot = x.snapshot
        /\ y.base = x.base /\ y.savepoint = x.savepoint
    BY <1>11, WriteDoes
  <2>. QED
    BY <1>11, <2>1 DEF locks_acquired, Carries
<1>12. CASE lock_refused(t)
  BY <1>12, RefusedDoes DEF lock_refused, Carries
<1>13. CASE create_sql_savepoint(t)
  <2>1. /\ SameLevel(t) /\ y.phase = "idle" /\ y.snapshot = x.snapshot
        /\ y.base = x.base /\ y.working = x.working
        /\ y.savepoint.base = x.base /\ y.savepoint.working = x.working
    BY <1>13, SavepointDoes
  <2>. QED
    BY <1>13, <2>1 DEF create_sql_savepoint, Carries
<1>14. CASE rollback_to_sql_savepoint(t)
  <2>1. /\ SameLevel(t) /\ y.phase = "idle" /\ y.snapshot = x.snapshot
        /\ y.base = x.savepoint.base /\ y.working = x.savepoint.working /\ y.savepoint = x.savepoint
    BY <1>14, RollbackToDoes
  <2>. QED
    BY <1>14, <2>1 DEF rollback_to_sql_savepoint, Carries
<1>15. CASE validate_commit(t)
  BY <1>15, ValidateDoes DEF validate_commit, Carries
<1>16. CASE merge_candidate(t)
  BY <1>16, MergeDoes DEF merge_candidate, Carries
<1>17. CASE finish_commit(t)
  BY <1>17, FinishDoes DEF finish_commit, Completes
<1>18. CASE publish(t)
  BY <1>18, PublishDoes DEF publish, Publishes
<1>19. CASE commit_empty(t)
  BY <1>19, EmptyDoes DEF commit_empty, Carries
<1>20. CASE rollback_sql_transaction(t)
  BY <1>20, RollbackDoes DEF rollback_sql_transaction, Carries
<1>. QED
  BY <1>2, <1>3, <1>4, <1>5, <1>6, <1>7, <1>8, <1>9, <1>10, <1>11, <1>12, <1>13, <1>14, <1>15,
     <1>16, <1>17, <1>18, <1>19, <1>20 DEF Step

\* TransactionManager::begin and committed_snapshot: where nobody takes a snapshot
\* between the id of a BEGIN and its registration, the chains order the creators
\* as the snapshots do and what a statement saw is what its snapshot shows.
THEOREM SeesInvariant == BeginsAlone /\ Spec => []SeesInv
<1>. SUFFICES ASSUME BeginsAlone PROVE Spec => []SeesInv
  OBVIOUS
<1>1. Init => SeesInv
  <2>. SUFFICES ASSUME Init PROVE SeesInv
    OBVIOUS
  <2>1. \A t \in Txns : /\ Phase(t) = "none" /\ session[t].level = "ReadCommitted"
                        /\ session[t].snapshot = NoSnapshot /\ session[t].working = {}
                        /\ session[t].savepoint.working = {} /\ seen[t] = {}
    BY DEF Init, Idle, Phase, NoSavepoint
  <2>2. \A u \in Txns : ~Shows(NoSnapshot, u)
    BY TxnsAreNaturals DEF Shows, sees_transaction, NoSnapshot, Frozen
  <2>3. UnendedUnseen /\ ChainsInOrder /\ CompletedShown /\ FreshUntilSnapshot
    BY <2>1, <2>2 DEF UnendedUnseen, ChainsInOrder, CompletedShown, FreshUntilSnapshot, Fresh,
       Running
  <2>4. AnchorsHold /\ SeenWasPublished /\ SnapshotStable /\ NoFracturedRead
    BY <2>1 DEF AnchorsHold, Anchored, Running, SeenWasPublished, SnapshotStable, NoFracturedRead
  <2>. QED
    BY <2>3, <2>4 DEF SeesInv
<1>2. IsolationInv /\ SeesInv /\ IsolationInv' /\ [Next]_vars => SeesInv'
  <2>. SUFFICES ASSUME IsolationInv, SeesInv, IsolationInv', [Next]_vars PROVE SeesInv'
    OBVIOUS
  <2>1. CASE UNCHANGED vars
    <3>1. session' = session /\ versions' = versions /\ seen' = seen
      BY <2>1 DEF vars
    <3>2. UnendedUnseen' /\ ChainsInOrder' /\ CompletedShown'
      BY <3>1 DEF SeesInv, UnendedUnseen, ChainsInOrder, CompletedShown, Phase
    <3>3. FreshUntilSnapshot'
      BY <3>1 DEF SeesInv, FreshUntilSnapshot, Fresh, NeedsSafeSnapshot, Phase
    <3>4. \A t \in Txns : (Anchored(t)' <=> Anchored(t)) /\ (Anchor(t)' <=> Anchor(t))
      BY <3>1 DEF Anchored, Anchor, Fresh, Phase
    <3>5. SeenWasPublished' /\ SnapshotStable' /\ NoFracturedRead'
      BY <3>1 DEF SeesInv, SeenWasPublished, Wrote, SnapshotStable, NoFracturedRead, Position
    <3>. QED
      BY <3>2, <3>3, <3>4, <3>5 DEF SeesInv, AnchorsHold
  <2>2. CASE \E t \in Txns : Step(t)
    <3>1. PICK t \in Txns : Step(t)
      BY <2>2
    <3>2. SeesMoves(t)
      BY <3>1, StepsMoveSeen DEF IsolationInv
    <3>. QED
      BY <3>2, CarryingSees, LookingSees, CompletingSees, PublishingSees, ObservingSees
         DEF IsolationInv, SeesMoves
  <2>. QED
    BY <2>1, <2>2 DEF Next, Finished
<1>. QED
  BY <1>1, <1>2, IsolationInvariant, PTL DEF Spec

\* project_database_visibility: at every level a statement finds exactly one
\* version of each row, whoever commits meanwhile.
THEOREM OneVersionIsVisible == BeginsAlone /\ Spec => []OneVersionVisible
<1>1. IsolationInv /\ SeesInv => OneVersionVisible
  <2>. SUFFICES ASSUME IsolationInv, SeesInv, NEW t \in Txns, NEW r \in Rows, Phase(t) = "statement"
                PROVE  Cardinality(View(t, r)) = 1
    BY DEF OneVersionVisible
  <2>1. PICK v : View(t, r) = {v}
    BY ViewFacts DEF IsolationInv
  <2>. QED
    BY <2>1, FS_Singleton
<1>. QED
  BY <1>1, IsolationInvariant, SeesInvariant, PTL

\* From Repeatable Read up a row that was read reads the same until the end.
THEOREM SnapshotsAreStable == BeginsAlone /\ Spec => []SnapshotStable
<1>1. SeesInv => SnapshotStable
  BY DEF SeesInv
<1>. QED
  BY <1>1, SeesInvariant, PTL

\* mark_status_committed, finish_commit and the publication are three steps,
\* and still no transaction sees half of what another one committed.
THEOREM ReadsAreNotFractured == BeginsAlone /\ Spec => []NoFracturedRead
<1>1. SeesInv => NoFracturedRead
  BY DEF SeesInv
<1>. QED
  BY <1>1, SeesInvariant, PTL
=============================================================================
