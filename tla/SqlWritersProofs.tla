--------------------------- MODULE SqlWritersProofs ---------------------------
(***************************************************************************)
(* Proofs about SqlWriters, for any number of sessions, statements and     *)
(* savepoints.  Two facts carry them.  A session's phase says what its     *)
(* transaction record can be, so that the lease is dropped on every path   *)
(* that took it.  And a candidate remembers how it relates to the state    *)
(* that is published: a base taken from the current generation is the      *)
(* published state, and a candidate that will replace the published state  *)
(* contains it, because its session has held LockKey::Database in          *)
(* Exclusive mode ever since it was made.                                  *)
(***************************************************************************)
EXTENDS SqlWriters, SequenceTheorems, TLAPS

Candidates == States \union {None}

Savepoint == [base : Candidates, base_generation : Nat, working : Candidates,
              dml_only : BOOLEAN, lock_len : Nat]

LockLists == {<< >>, <<"Shared">>, <<"Exclusive">>}

Transaction == [mode : {"idle", "tx", "auto", "procedure", "failed"},
                base : Candidates, base_generation : Nat, working : Candidates,
                dml_only : BOOLEAN, lease : BOOLEAN, locks : LockLists,
                saves : Seq(Savepoint), failed : BOOLEAN, later : BOOLEAN,
                level : {"read_committed", "repeatable_read"}]

Waiting == {"dml_lock", "ddl_lock", "upgrade_lock"}
Segment == {"segment_lock", "body", "between", "start"}
Phases  == {"ready", "auto_lock"} \union Waiting \union Segment

Statement == [snapshot : States, adds : States, at : Nat]

WritersTypeOK ==
    /\ published \in States /\ committed \in States
    /\ generation \in Nat /\ effects \in 0..MaxEffects
    /\ exposed \in BOOLEAN
    /\ owner \in Sessions \union {None}
    /\ tx \in [Sessions -> Transaction]
    /\ pc \in [Sessions -> Phases]
    /\ statement \in [Sessions -> Statement]

\* What a session waits for says what its transaction is.
PhaseAgrees(s) ==
    /\ tx[s].mode \in {"idle", "failed"} => tx[s] = [Idle EXCEPT !.mode = tx[s].mode]
    /\ tx[s].mode \in {"idle", "failed"} => pc[s] = "ready"
    /\ tx[s].mode = "tx" => pc[s] \in {"ready"} \union Waiting
    /\ tx[s].mode = "auto" => pc[s] = "auto_lock"
    /\ tx[s].mode = "auto" => tx[s].lease /\ tx[s].locks = << >> /\ tx[s].working = None
    /\ tx[s].mode = "procedure" =>
           /\ pc[s] \in Segment
           /\ tx[s].lease <=> pc[s] \in {"segment_lock", "body"}
           /\ tx[s].working # None
           /\ tx[s].locks = IF pc[s] = "body" THEN <<"Exclusive">> ELSE << >>
           /\ tx[s].saves = << >>
           /\ pc[s] = "start" => tx[s].later
           /\ pc[s] = "segment_lock" /\ ~tx[s].later => tx[s].base = None
    /\ tx[s].mode # "tx" => ~tx[s].failed
    /\ tx[s].mode # "procedure" => ~tx[s].later
    /\ pc[s] \in Waiting => ~tx[s].failed
    /\ pc[s] = "ddl_lock" => tx[s].lease /\ ~Upgrades(s)
    /\ pc[s] = "upgrade_lock" => ~tx[s].lease /\ Upgrades(s) /\ tx[s].locks = << >>
    /\ pc[s] = "body" => tx[s].base # None

(***************************************************************************)
(* What the candidates of a session keep.  d is a transaction or one of    *)
(* its savepoints.                                                         *)
(***************************************************************************)
FromBase(d) ==
    /\ d.base = None <=> d.working = None
    /\ d.base_generation <= generation
    /\ d.base # None /\ d.base_generation = generation =>
           d.base = published /\ published \subseteq d.working

\* A candidate that replaces the published state contains it.
Replaces(d) ==
    ~d.dml_only => /\ d.working # None
                   /\ ~exposed => published \subseteq d.working

\* e has been made from d.
Grows(d, e) ==
    /\ e.working = None => d.working = None
    /\ ~d.dml_only => ~e.dml_only

SavepointAgrees(s, i) ==
    LET saved == tx[s].saves[i]
    IN /\ FromBase(saved) /\ Replaces(saved)
       /\ saved.working = None => saved.lock_len = 0
       /\ ~saved.dml_only => saved.lock_len = 1
       /\ Grows(saved, tx[s])
       /\ \A j \in DOMAIN tx[s].saves : i <= j => Grows(saved, tx[s].saves[j])

CandidateAgrees(s) ==
    tx[s].mode = "tx" =>
        /\ FromBase(tx[s]) /\ Replaces(tx[s])
        /\ tx[s].working = None => tx[s].locks = << >>
        /\ ~tx[s].dml_only => tx[s].locks = <<"Exclusive">>
        /\ \A i \in DOMAIN tx[s].saves : SavepointAgrees(s, i)

StatementAgrees(s) ==
    pc[s] \in {"dml_lock", "ddl_lock"} =>
        /\ statement[s].at <= generation
        /\ tx[s].working = None =>
               (statement[s].at = generation => statement[s].snapshot = published)
        /\ tx[s].working # None => statement[s].snapshot = tx[s].working

SegmentAgrees(s) ==
    pc[s] = "body" /\ ~tx[s].later /\ ~exposed => published \subseteq tx[s].working

Agrees(s) ==
    PhaseAgrees(s) /\ CandidateAgrees(s) /\ StatementAgrees(s) /\ SegmentAgrees(s)

\* LockKey::Database is granted to one exclusive holder or to many others.
LocksAgree ==
    \A s, t \in Sessions : s # t /\ tx[s].locks = <<"Exclusive">> => tx[t].locks = << >>

WritersInv ==
    /\ WritersTypeOK
    /\ \A s \in Sessions : Agrees(s)
    /\ LocksAgree
    /\ LeaseIsOwned

(***************************************************************************)
(* Locks and merges.                                                       *)
(***************************************************************************)
LEMMA LockList ==
    ASSUME NEW s \in Sessions, tx[s].locks \in LockLists
    PROVE  /\ Holds(s, "Exclusive") <=> tx[s].locks = <<"Exclusive">>
           /\ \A n \in Nat : Truncated(tx[s].locks, n) = IF n = 0 THEN << >> ELSE tx[s].locks
           /\ Len(tx[s].locks) = IF tx[s].locks = << >> THEN 0 ELSE 1
<1>0. /\ tx[s].locks \in Seq({"Shared", "Exclusive"})
      /\ Len(tx[s].locks) = IF tx[s].locks = << >> THEN 0 ELSE 1
  <2>1. CASE tx[s].locks = << >>
    BY <2>1
  <2>2. CASE tx[s].locks = <<"Shared">>
    BY <2>2
  <2>3. CASE tx[s].locks = <<"Exclusive">>
    BY <2>3
  <2>4. QED
    BY <2>1, <2>2, <2>3 DEF LockLists
<1>1. Holds(s, "Exclusive") <=> tx[s].locks = <<"Exclusive">>
  BY DEF Holds, LockLists
<1>2. ASSUME NEW n \in Nat
      PROVE  Truncated(tx[s].locks, n) = IF n = 0 THEN << >> ELSE tx[s].locks
  <2>2. CASE n = 0
    BY <1>0, <2>2, SubSeqEmpty DEF Truncated
  <2>3. CASE n # 0
    BY <1>0, <2>3, SubSeqFull DEF Truncated
  <2>4. QED
    BY <2>2, <2>3
<1>3. QED
  BY <1>0, <1>1, <1>2

LEMMA GrantableLocks ==
    ASSUME WritersTypeOK, NEW s \in Sessions, NEW t \in Sessions \ {s}
    PROVE  /\ Grantable(s, "Shared") => tx[t].locks # <<"Exclusive">>
           /\ Grantable(s, "Exclusive") => tx[t].locks = << >>
BY LockList DEF WritersTypeOK, Transaction, Grantable

LEMMA MergeKeeps ==
    ASSUME NEW latest \in States, NEW base, NEW working \in States
    PROVE  Merge(latest, base, working) \in States /\ latest \subseteq Merge(latest, base, working)
BY DEF Merge, States

LEMMA EffectsAreNew ==
    ASSUME WritersTypeOK, effects < MaxEffects, NEW kinds \in SUBSET {"row", "catalog"}
    PROVE  NewEffects(kinds) \in States /\ effects + 1 \in 0..MaxEffects
<1>1. effects + 1 \in 1..MaxEffects /\ effects + 1 \in 0..MaxEffects
  BY WritersAssumption DEF WritersTypeOK
<1>2. NewEffects(kinds) \subseteq (1..MaxEffects) \X {"row", "catalog"}
  <2>1. \A kind \in kinds : <<effects + 1, kind>> \in (1..MaxEffects) \X {"row", "catalog"}
    BY <1>1
  <2>2. QED
    BY <2>1 DEF NewEffects
<1>3. QED
  BY <1>1, <1>2 DEF States

LEMMA BodyIsProcedure ==
    ASSUME WritersTypeOK, NEW s \in Sessions, PhaseAgrees(s), pc[s] = "body"
    PROVE  tx[s].mode = "procedure" /\ tx[s].locks = <<"Exclusive">>
BY DEF WritersTypeOK, Transaction, PhaseAgrees, Waiting

LEMMA WaitingIsTx ==
    ASSUME WritersTypeOK, NEW s \in Sessions, PhaseAgrees(s), pc[s] \in Waiting
    PROVE  tx[s].mode = "tx"
BY DEF WritersTypeOK, Transaction, PhaseAgrees, Waiting, Segment

LEMMA WritersInitially == Init => WritersInv
<1>. SUFFICES ASSUME Init PROVE WritersInv
  OBVIOUS
<1>. USE DEF Init
<1>1. WritersTypeOK
  <2>1. {} \in States /\ None \in Candidates /\ << >> \in LockLists
    BY DEF States, Candidates, LockLists
  <2>0. << >> \in Seq(Savepoint)
    OBVIOUS
  <2>2. Idle \in Transaction
    BY <2>0, <2>1 DEF Transaction, Idle
  <2>3. NoStatement \in Statement
    BY <2>1 DEF Statement, NoStatement
  <2>4. QED
    <3>1. tx \in [Sessions -> Transaction]
      <4>1. tx = [s \in Sessions |-> Idle]
        BY DEF Init
      <4>2. QED
        BY <2>2, <4>1
    <3>2. statement \in [Sessions -> Statement] /\ pc \in [Sessions -> Phases]
      BY <2>3 DEF Phases
    <3>3. effects \in 0..MaxEffects
      BY WritersAssumption
    <3>4. QED
      BY <2>1, <3>1, <3>2, <3>3 DEF WritersTypeOK
<1>2. ASSUME NEW s \in Sessions PROVE Agrees(s)
  BY DEF Agrees, PhaseAgrees, CandidateAgrees, StatementAgrees, SegmentAgrees, Waiting, Idle
<1>3. LocksAgree /\ LeaseIsOwned
  BY WritersAssumption DEF LocksAgree, LeaseIsOwned, Idle
<1>4. QED
  BY <1>1, <1>2, <1>3 DEF WritersInv

(***************************************************************************)
(* What a step of session s leaves of another session t.                   *)
(***************************************************************************)
Untouched(t) == tx'[t] = tx[t] /\ pc'[t] = pc[t] /\ statement'[t] = statement[t]

LEMMA OthersAgree ==
    ASSUME WritersInv, NEW t \in Sessions, Untouched(t),
           \/ Unpublished
           \/ /\ generation' = generation + 1
              /\ exposed' \/ tx[t].locks # <<"Exclusive">>
    PROVE  Agrees(t)'
<1>. USE DEF WritersInv, Untouched
<1>1. PhaseAgrees(t)'
  BY DEF Agrees, PhaseAgrees, Upgrades
<1>2. CASE Unpublished
  BY <1>1, <1>2 DEF Agrees, Unpublished, CandidateAgrees, SavepointAgrees, StatementAgrees,
     SegmentAgrees, FromBase, Replaces
<1>3. CASE generation' = generation + 1 /\ (exposed' \/ tx[t].locks # <<"Exclusive">>)
  <2>1. tx[t] \in Transaction /\ generation \in Nat
    BY DEF WritersTypeOK
  <2>2. SegmentAgrees(t)'
    BY <1>3, BodyIsProcedure DEF Agrees, SegmentAgrees
  <2>3. StatementAgrees(t)'
    BY <1>3, <2>1 DEF Agrees, StatementAgrees, WritersTypeOK, Statement
  <2>4. ASSUME tx[t].mode = "tx" PROVE FromBase(tx[t])' /\ Replaces(tx[t])'
    <3>1. FromBase(tx[t]) /\ Replaces(tx[t]) /\ (~tx[t].dml_only => tx[t].locks = <<"Exclusive">>)
      BY <2>4 DEF Agrees, CandidateAgrees
    <3>2. tx[t].base_generation \in Nat
      BY <2>1 DEF Transaction
    <3>3. QED
      BY <1>3, <2>1, <3>1, <3>2 DEF FromBase, Replaces
  <2>5. ASSUME tx[t].mode = "tx", NEW i \in DOMAIN tx[t].saves PROVE SavepointAgrees(t, i)'
    <3>1. tx[t].saves[i] \in Savepoint
      <4>1. tx[t].saves \in Seq(Savepoint)
        BY <2>1 DEF Transaction
      <4>2. QED
        BY <2>5, <4>1
    <3>2. SavepointAgrees(t, i) /\ (~tx[t].dml_only => tx[t].locks = <<"Exclusive">>)
      BY <2>5 DEF Agrees, CandidateAgrees
    <3>3. QED
      BY <1>3, <2>1, <3>1, <3>2 DEF SavepointAgrees, FromBase, Replaces, Grows, Savepoint
  <2>6. QED
    BY <1>1, <2>2, <2>3, <2>4, <2>5 DEF Agrees, CandidateAgrees
<1>4. QED
  BY <1>2, <1>3

LeaseIsOwnedBy(s) ==
    /\ owner = s <=> tx[s].lease \/ pc[s] = "upgrade_lock"
    /\ (tx[s].lease /\ tx[s].working = None) =>
           tx[s].failed \/ pc[s] \in {"ddl_lock", "auto_lock"}

(***************************************************************************)
(* What an action of session s has to show for the invariant to hold after *)
(* it: the rest follows.                                                   *)
(***************************************************************************)
LocksStep(s) ==
    \/ tx'[s].locks \in {<< >>, tx[s].locks}
    \/ tx'[s].locks = <<"Shared">> /\ Grantable(s, "Shared")
    \/ Grantable(s, "Exclusive")

PublishStep(s) ==
    \/ Unpublished
    \/ /\ generation' = generation + 1
       /\ \A t \in Sessions \ {s} : exposed' \/ tx[t].locks # <<"Exclusive">>

LEMMA StepKeeps ==
    ASSUME WritersInv, NEW s \in Sessions, WritersTypeOK', Agrees(s)', LeaseIsOwnedBy(s)',
           \A t \in Sessions \ {s} : Untouched(t) /\ (owner' = t <=> owner = t),
           LocksStep(s), PublishStep(s)
    PROVE  WritersInv'
<1>1. ASSUME NEW t \in Sessions PROVE Agrees(t)'
  BY OthersAgree DEF PublishStep
<1>2. LocksAgree'
  <2>1. ASSUME NEW t \in Sessions \ {s}
        PROVE  /\ tx'[s].locks = <<"Exclusive">> => tx'[t].locks = << >>
               /\ tx'[t].locks = <<"Exclusive">> => tx'[s].locks = << >>
    <3>1. tx'[t].locks = tx[t].locks
      BY DEF Untouched
    <3>2. tx[s].locks = <<"Exclusive">> => tx[t].locks = << >>
      BY DEF WritersInv, LocksAgree
    <3>3. tx[t].locks = <<"Exclusive">> => tx[s].locks = << >>
      BY DEF WritersInv, LocksAgree
    <3>4. CASE tx'[s].locks \in {<< >>, tx[s].locks}
      BY <3>1, <3>2, <3>3, <3>4
    <3>5. CASE tx'[s].locks = <<"Shared">> /\ Grantable(s, "Shared")
      BY <3>1, <3>5, GrantableLocks DEF WritersInv
    <3>6. CASE Grantable(s, "Exclusive")
      BY <3>1, <3>6, GrantableLocks DEF WritersInv
    <3>7. QED
      BY <3>4, <3>5, <3>6 DEF LocksStep
  <2>2. ASSUME NEW t \in Sessions \ {s}, NEW u \in Sessions \ {s}, t # u,
               tx'[t].locks = <<"Exclusive">>
        PROVE  tx'[u].locks = << >>
    BY <2>2 DEF WritersInv, LocksAgree, Untouched
  <2>3. QED
    BY <2>1, <2>2 DEF LocksAgree
<1>3. LeaseIsOwned'
  BY DEF WritersInv, LeaseIsOwned, LeaseIsOwnedBy, Untouched
<1>4. QED
  BY <1>1, <1>2, <1>3 DEF WritersInv
(***************************************************************************)
(* The actions, one lemma each.                                            *)
(***************************************************************************)
LEMMA SessionFacts ==
    ASSUME WritersInv, NEW s \in Sessions
    PROVE  /\ WritersTypeOK /\ Agrees(s) /\ LeaseIsOwnedBy(s) /\ generation \in Nat
           /\ tx \in [Sessions -> Transaction] /\ pc \in [Sessions -> Phases]
           /\ statement \in [Sessions -> Statement]
BY DEF WritersInv, WritersTypeOK, LeaseIsOwned, LeaseIsOwnedBy

LEMMA EmptyDomain == DOMAIN << >> = {} /\ << >> # <<"Exclusive">>
OBVIOUS

LEMMA IdleIsTransaction ==
    /\ Idle \in Transaction
    /\ \A mode \in {"idle", "tx", "auto", "procedure", "failed"},
          level \in {"read_committed", "repeatable_read"} :
            [Idle EXCEPT !.mode = mode, !.level = level] \in Transaction
<1>1. << >> \in Seq(Savepoint)
  BY EmptySeq
<1>2. QED
  BY <1>1 DEF Transaction, Idle, Candidates, LockLists

LEMMA SavepointsKept ==
    ASSUME NEW s \in Sessions, CandidateAgrees(s), tx[s].mode = "tx", Unpublished,
           tx'[s].saves = tx[s].saves, Grows(tx[s], tx'[s])
    PROVE  \A i \in DOMAIN tx'[s].saves : SavepointAgrees(s, i)'
BY DEF CandidateAgrees, SavepointAgrees, FromBase, Replaces, Grows, Unpublished

LEMMA RefreshedAgrees ==
    ASSUME WritersInv, NEW s \in Sessions, tx[s].mode = "tx"
    PROVE  /\ Refreshed(s) \in Transaction
           /\ FromBase(Refreshed(s)) /\ Replaces(Refreshed(s)) /\ Grows(tx[s], Refreshed(s))
           /\ Refreshed(s).working = None <=> tx[s].working = None
           /\ Refreshed(s).mode = "tx" /\ Refreshed(s).dml_only = tx[s].dml_only
           /\ Refreshed(s).lease = tx[s].lease /\ Refreshed(s).locks = tx[s].locks
           /\ Refreshed(s).saves = tx[s].saves /\ Refreshed(s).failed = tx[s].failed
           /\ Refreshed(s).later = tx[s].later /\ Refreshed(s).level = tx[s].level
<1>0. /\ tx[s] \in Transaction /\ published \in States /\ generation \in Nat
      /\ FromBase(tx[s]) /\ Replaces(tx[s])
  BY DEF WritersInv, WritersTypeOK, Agrees, CandidateAgrees
<1>1. CASE tx[s].dml_only /\ tx[s].level = "read_committed" /\ tx[s].working # None
  <2>. DEFINE merged == Merge(published, tx[s].base, tx[s].working)
              fresh  == [tx[s] EXCEPT !.base = published, !.base_generation = generation,
                                      !.working = merged]
  <2>1. merged \in States /\ published \subseteq merged
    BY <1>0, <1>1, MergeKeeps DEF Transaction, Candidates
  <2>2. Refreshed(s) = fresh
    BY <1>1 DEF Refreshed
  <2>3. merged # None /\ published # None
    BY <1>0, <2>1, WritersAssumption
  <2>. HIDE DEF merged
  <2>4. fresh \in Transaction
    BY <1>0, <2>1 DEF Transaction, Candidates
  <2>5. FromBase(fresh) /\ Replaces(fresh) /\ Grows(tx[s], fresh)
    BY <1>0, <1>1, <2>1, <2>3 DEF FromBase, Replaces, Grows, Transaction
  <2>6. QED
    BY <1>0, <1>1, <2>2, <2>3, <2>4, <2>5 DEF Transaction
<1>2. CASE ~(tx[s].dml_only /\ tx[s].level = "read_committed" /\ tx[s].working # None)
  BY <1>0, <1>2 DEF Refreshed, Grows
<1>3. QED
  BY <1>1, <1>2

LEMMA BeginStep ==
    ASSUME WritersInv, NEW s \in Sessions, begin_sql_transaction(s)
    PROVE  WritersInv'
<1>0. /\ WritersTypeOK /\ Agrees(s) /\ LeaseIsOwnedBy(s) /\ generation \in Nat
      /\ tx \in [Sessions -> Transaction] /\ pc \in [Sessions -> Phases]
      /\ statement \in [Sessions -> Statement]
  BY SessionFacts
<1>p. PICK level \in {"read_committed", "repeatable_read"} :
        tx' = [tx EXCEPT ![s] = [Idle EXCEPT !.mode = "tx", !.level = level]]
  BY DEF begin_sql_transaction
<1>a. /\ tx' = [tx EXCEPT ![s] = tx'[s]] /\ tx'[s] \in Transaction
      /\ tx'[s].mode = "tx" /\ tx'[s].base = None /\ tx'[s].working = None
      /\ tx'[s].base_generation = 0 /\ tx'[s].dml_only /\ ~tx'[s].lease /\ tx'[s].locks = << >>
      /\ tx'[s].saves = << >> /\ ~tx'[s].failed /\ ~tx'[s].later
      /\ tx[s].mode = "idle" /\ ~tx[s].lease
      /\ pc[s] = "ready"
      /\ UNCHANGED <<owner, pc, statement, effects, published, generation, committed, exposed>>
  BY <1>0, <1>p, IdleIsTransaction
     DEF begin_sql_transaction, Unpublished, Idle, Agrees, PhaseAgrees
<1>1. WritersTypeOK'
  BY <1>0, <1>a DEF WritersTypeOK
<1>2. PhaseAgrees(s)'
  BY <1>0, <1>a DEF Agrees, PhaseAgrees, Waiting, Upgrades
<1>3. CandidateAgrees(s)'
  BY <1>0, <1>a, EmptyDomain DEF Agrees, CandidateAgrees, FromBase, Replaces
<1>4. StatementAgrees(s)' /\ SegmentAgrees(s)'
  BY <1>0, <1>a DEF Agrees, StatementAgrees, SegmentAgrees
<1>5. LeaseIsOwnedBy(s)'
  BY <1>0, <1>a, WritersAssumption DEF LeaseIsOwnedBy
<1>6. \A t \in Sessions \ {s} : Untouched(t) /\ (owner' = t <=> owner = t)
  BY <1>0, <1>a, WritersAssumption DEF Untouched, LeaseIsOwnedBy
<1>7. LocksStep(s) /\ PublishStep(s)
  BY <1>0, <1>a DEF LocksStep, PublishStep, Unpublished
<1>8. QED
  BY <1>1, <1>2, <1>3, <1>4, <1>5, <1>6, <1>7, StepKeeps DEF Agrees

LEMMA RollbackStep ==
    ASSUME WritersInv, NEW s \in Sessions, rollback_sql_transaction(s)
    PROVE  WritersInv'
<1>0. /\ WritersTypeOK /\ Agrees(s) /\ LeaseIsOwnedBy(s) /\ generation \in Nat
      /\ tx \in [Sessions -> Transaction] /\ pc \in [Sessions -> Phases]
      /\ statement \in [Sessions -> Statement]
  BY SessionFacts
<1>a. /\ tx' = [tx EXCEPT ![s] = Idle] /\ Idle \in Transaction
      /\ tx'[s] = Idle /\ pc[s] = "ready"
      /\ owner' = IF tx[s].lease THEN None ELSE owner
      /\ UNCHANGED <<pc, statement, effects, published, generation, committed, exposed>>
  BY <1>0, IdleIsTransaction
     DEF rollback_sql_transaction, Unpublished, Reset, ReleaseLease, Active, Agrees, PhaseAgrees
<1>1. WritersTypeOK'
  BY <1>0, <1>a DEF WritersTypeOK, Idle
<1>2. PhaseAgrees(s)'
  BY <1>0, <1>a DEF Agrees, PhaseAgrees, Waiting, Idle, Upgrades
<1>3. CandidateAgrees(s)'
  BY <1>0, <1>a DEF Agrees, CandidateAgrees, Idle
<1>4. StatementAgrees(s)' /\ SegmentAgrees(s)'
  BY <1>0, <1>a DEF Agrees, StatementAgrees, SegmentAgrees, Idle
<1>5. LeaseIsOwnedBy(s)'
  BY <1>0, <1>a, WritersAssumption DEF LeaseIsOwnedBy, Idle
<1>6. \A t \in Sessions \ {s} : Untouched(t) /\ (owner' = t <=> owner = t)
  BY <1>0, <1>a, WritersAssumption DEF Untouched, LeaseIsOwnedBy, Idle
<1>7. LocksStep(s) /\ PublishStep(s)
  BY <1>0, <1>a DEF LocksStep, PublishStep, Unpublished, Idle
<1>8. QED
  BY <1>1, <1>2, <1>3, <1>4, <1>5, <1>6, <1>7, StepKeeps DEF Agrees

LEMMA CreateSavepointStep ==
    ASSUME WritersInv, NEW s \in Sessions, create_sql_savepoint(s)
    PROVE  WritersInv'
<1>0. /\ WritersTypeOK /\ Agrees(s) /\ LeaseIsOwnedBy(s) /\ generation \in Nat
      /\ tx \in [Sessions -> Transaction] /\ pc \in [Sessions -> Phases]
      /\ statement \in [Sessions -> Statement]
  BY SessionFacts
<1>. DEFINE saves == tx[s].saves
            saved == [base |-> tx[s].base, base_generation |-> tx[s].base_generation,
                      working |-> tx[s].working, dml_only |-> tx[s].dml_only,
                      lock_len |-> Len(tx[s].locks)]
<1>b. /\ saves \in Seq(Savepoint) /\ tx[s].locks \in LockLists
      /\ Len(tx[s].locks) = IF tx[s].locks = << >> THEN 0 ELSE 1
  <2>1. tx[s].locks \in LockLists /\ saves \in Seq(Savepoint)
    BY <1>0 DEF Transaction
  <2>2. QED
    BY <2>1, LockList
<1>c. saved \in Savepoint
  BY <1>0, <1>b DEF Savepoint, Transaction
<1>d. /\ Append(saves, saved) \in Seq(Savepoint)
      /\ DOMAIN Append(saves, saved) = 1..(Len(saves) + 1) /\ Len(saves) \in Nat
      /\ Append(saves, saved)[Len(saves) + 1] = saved
      /\ \A i \in 1..Len(saves) : i \in DOMAIN saves /\ Append(saves, saved)[i] = saves[i]
  BY <1>b, <1>c
<1>a. /\ tx' = [tx EXCEPT ![s] = tx'[s]]
      /\ tx'[s] = [tx[s] EXCEPT !.saves = Append(saves, saved)]
      /\ tx'[s] \in Transaction
      /\ tx[s].mode = "tx" /\ pc[s] = "ready" /\ ~tx[s].failed
      /\ UNCHANGED <<owner, pc, statement, effects, published, generation, committed, exposed>>
  <2>. HIDE DEF saved, saves
  <2>1. tx' = [tx EXCEPT ![s].saves = Append(saves, saved)]
    BY DEF create_sql_savepoint, saved, saves
  <2>2. tx'[s] = [tx[s] EXCEPT !.saves = Append(saves, saved)]
    BY <1>0, <2>1 DEF Transaction
  <2>3. tx'[s] \in Transaction
    BY <1>0, <1>d, <2>2 DEF Transaction
  <2>4. QED
    BY <1>0, <2>1, <2>2, <2>3 DEF create_sql_savepoint, Unpublished, Active
<1>1. WritersTypeOK'
  BY <1>0, <1>a DEF WritersTypeOK
<1>2. PhaseAgrees(s)'
  BY <1>0, <1>a DEF Agrees, PhaseAgrees, Waiting, Upgrades, Segment, Transaction
<1>3. CandidateAgrees(s)'
  <2>. DEFINE after == Append(saves, saved)
  <2>. HIDE DEF saved, saves, after
  <2>1. /\ FromBase(tx[s]) /\ Replaces(tx[s])
        /\ tx[s].working = None => tx[s].locks = << >>
        /\ ~tx[s].dml_only => tx[s].locks = <<"Exclusive">>
        /\ \A i \in DOMAIN saves : SavepointAgrees(s, i)
    BY <1>0, <1>a DEF Agrees, CandidateAgrees, saves
  <2>2. /\ tx'[s].saves = after /\ tx'[s].base = tx[s].base /\ tx'[s].working = tx[s].working
        /\ tx'[s].base_generation = tx[s].base_generation /\ tx'[s].dml_only = tx[s].dml_only
        /\ tx'[s].locks = tx[s].locks
    BY <1>0, <1>a DEF Transaction, after
  <2>3. /\ saved.base = tx[s].base /\ saved.working = tx[s].working
        /\ saved.base_generation = tx[s].base_generation /\ saved.dml_only = tx[s].dml_only
        /\ saved.lock_len = Len(tx[s].locks)
    BY DEF saved
  <2>4. FromBase(saved) /\ Replaces(saved) /\ Grows(saved, tx[s])
    BY <2>1, <2>3 DEF FromBase, Replaces, Grows
  <2>5. ASSUME NEW i \in 1..(Len(saves) + 1) PROVE SavepointAgrees(s, i)'
    <3>1. CASE i = Len(saves) + 1
      <4>1. after[i] = saved /\ \A j \in DOMAIN after : i <= j => j = i
        BY <1>d, <3>1 DEF after
      <4>2. Grows(saved, saved)
        BY DEF Grows
      <4>3. /\ saved.working = None => saved.lock_len = 0
            /\ ~saved.dml_only => saved.lock_len = 1
        BY <1>b, <2>1, <2>3
      <4>4. FromBase(tx[s].saves[i])' /\ Replaces(tx[s].saves[i])'
        BY <1>a, <2>2, <2>4, <4>1 DEF FromBase, Replaces
      <4>5. QED
        BY <2>2, <2>4, <4>1, <4>2, <4>3, <4>4 DEF SavepointAgrees, Grows
    <3>2. CASE i # Len(saves) + 1
      <4>1. i \in 1..Len(saves) /\ i \in DOMAIN saves /\ after[i] = saves[i]
        BY <1>d, <2>5, <3>2 DEF after
      <4>2. SavepointAgrees(s, i)
        BY <2>1, <4>1
      <4>3. ASSUME NEW j \in DOMAIN after, i <= j PROVE Grows(saves[i], after[j])
        <5>1. CASE j = Len(saves) + 1
          BY <1>d, <2>3, <4>2, <5>1 DEF SavepointAgrees, Grows, after, saves
        <5>2. CASE j # Len(saves) + 1
          BY <1>d, <4>2, <4>3, <5>2 DEF SavepointAgrees, after, saves
        <5>3. QED
          BY <5>1, <5>2
      <4>4. FromBase(tx[s].saves[i])' /\ Replaces(tx[s].saves[i])'
        <5>1. FromBase(saves[i]) /\ Replaces(saves[i])
          BY <4>2 DEF SavepointAgrees, saves
        <5>2. QED
          BY <1>a, <2>2, <4>1, <5>1 DEF FromBase, Replaces
      <4>5. QED
        BY <2>2, <4>1, <4>2, <4>3, <4>4 DEF SavepointAgrees, Grows, saves
    <3>3. QED
      BY <3>1, <3>2
  <2>6. FromBase(tx[s])' /\ Replaces(tx[s])'
    BY <1>a, <2>1, <2>2 DEF FromBase, Replaces
  <2>7. DOMAIN tx'[s].saves = 1..(Len(saves) + 1)
    BY <1>d, <2>2 DEF after
  <2>8. QED
    BY <2>1, <2>2, <2>5, <2>6, <2>7 DEF CandidateAgrees
<1>4. StatementAgrees(s)' /\ SegmentAgrees(s)'
  BY <1>0, <1>a DEF Agrees, StatementAgrees, SegmentAgrees, Transaction
<1>5. LeaseIsOwnedBy(s)'
  BY <1>0, <1>a, WritersAssumption DEF LeaseIsOwnedBy, Transaction
<1>6. \A t \in Sessions \ {s} : Untouched(t) /\ (owner' = t <=> owner = t)
  BY <1>0, <1>a, WritersAssumption DEF Untouched, LeaseIsOwnedBy
<1>7. LocksStep(s) /\ PublishStep(s)
  BY <1>0, <1>a DEF LocksStep, PublishStep, Unpublished, Transaction
<1>8. QED
  BY <1>1, <1>2, <1>3, <1>4, <1>5, <1>6, <1>7, StepKeeps DEF Agrees

LEMMA ReleaseSavepointStep ==
    ASSUME WritersInv, NEW s \in Sessions, release_sql_savepoint(s)
    PROVE  WritersInv'
<1>0. /\ WritersTypeOK /\ Agrees(s) /\ LeaseIsOwnedBy(s) /\ generation \in Nat
      /\ tx \in [Sessions -> Transaction] /\ pc \in [Sessions -> Phases]
      /\ statement \in [Sessions -> Statement]
  BY SessionFacts
<1>. DEFINE saves == tx[s].saves
            after == SubSeq(saves, 1, Len(saves) - 1)
<1>d. /\ after \in Seq(Savepoint)
      /\ \A i \in DOMAIN after : i \in DOMAIN saves /\ after[i] = saves[i]
  <2>1. saves \in Seq(Savepoint) /\ Len(saves) \in Nat /\ saves # << >>
    BY <1>0 DEF Transaction, release_sql_savepoint
  <2>2. Len(saves) - 1 \in Nat
    BY <2>1, EmptySeq
  <2>3. QED
    BY <2>1, <2>2
<1>a. /\ tx' = [tx EXCEPT ![s] = tx'[s]]
      /\ tx'[s] = [tx[s] EXCEPT !.saves = after]
      /\ tx'[s] \in Transaction
      /\ tx[s].mode = "tx" /\ pc[s] = "ready" /\ ~tx[s].failed
      /\ UNCHANGED <<owner, pc, statement, effects, published, generation, committed, exposed>>
  <2>. HIDE DEF after, saves
  <2>1. tx' = [tx EXCEPT ![s].saves = after]
    BY DEF release_sql_savepoint, after, saves
  <2>2. tx'[s] = [tx[s] EXCEPT !.saves = after]
    BY <1>0, <2>1 DEF Transaction
  <2>3. tx'[s] \in Transaction
    BY <1>0, <1>d, <2>2 DEF Transaction
  <2>4. QED
    BY <1>0, <2>1, <2>2, <2>3 DEF release_sql_savepoint, Unpublished, Active
<1>1. WritersTypeOK'
  BY <1>0, <1>a DEF WritersTypeOK
<1>2. PhaseAgrees(s)'
  BY <1>0, <1>a DEF Agrees, PhaseAgrees, Waiting, Upgrades, Segment, Transaction
<1>3. CandidateAgrees(s)'
  <2>. HIDE DEF after
  <2>1. /\ FromBase(tx[s]) /\ Replaces(tx[s])
        /\ tx[s].working = None => tx[s].locks = << >>
        /\ ~tx[s].dml_only => tx[s].locks = <<"Exclusive">>
        /\ \A i \in DOMAIN saves : SavepointAgrees(s, i)
    BY <1>0, <1>a DEF Agrees, CandidateAgrees
  <2>2. /\ tx'[s].saves = after /\ tx'[s].base = tx[s].base /\ tx'[s].working = tx[s].working
        /\ tx'[s].base_generation = tx[s].base_generation /\ tx'[s].dml_only = tx[s].dml_only
        /\ tx'[s].locks = tx[s].locks
    BY <1>0, <1>a DEF Transaction
  <2>3. ASSUME NEW i \in DOMAIN after PROVE SavepointAgrees(s, i)'
    <3>1. SavepointAgrees(s, i) /\ tx'[s].saves[i] = saves[i]
      BY <1>d, <2>1, <2>2
    <3>2. \A j \in DOMAIN tx'[s].saves : j \in DOMAIN saves /\ tx'[s].saves[j] = saves[j]
      BY <1>d, <2>2
    <3>3. QED
      BY <1>a, <2>2, <3>1, <3>2 DEF SavepointAgrees, FromBase, Replaces, Grows
  <2>4. FromBase(tx[s])' /\ Replaces(tx[s])'
    BY <1>a, <2>1, <2>2 DEF FromBase, Replaces
  <2>5. QED
    BY <2>1, <2>2, <2>3, <2>4 DEF CandidateAgrees
<1>4. StatementAgrees(s)' /\ SegmentAgrees(s)'
  BY <1>0, <1>a DEF Agrees, StatementAgrees, SegmentAgrees, Transaction
<1>5. LeaseIsOwnedBy(s)'
  BY <1>0, <1>a, WritersAssumption DEF LeaseIsOwnedBy, Transaction
<1>6. \A t \in Sessions \ {s} : Untouched(t) /\ (owner' = t <=> owner = t)
  BY <1>0, <1>a, WritersAssumption DEF Untouched, LeaseIsOwnedBy
<1>7. LocksStep(s) /\ PublishStep(s)
  BY <1>0, <1>a DEF LocksStep, PublishStep, Unpublished, Transaction
<1>8. QED
  BY <1>1, <1>2, <1>3, <1>4, <1>5, <1>6, <1>7, StepKeeps DEF Agrees

LEMMA RollbackToSavepointStep ==
    ASSUME WritersInv, NEW s \in Sessions, rollback_to_sql_savepoint(s)
    PROVE  WritersInv'
<1>0. /\ WritersTypeOK /\ Agrees(s) /\ LeaseIsOwnedBy(s) /\ generation \in Nat
      /\ tx \in [Sessions -> Transaction] /\ pc \in [Sessions -> Phases]
      /\ statement \in [Sessions -> Statement]
  BY SessionFacts
<1>. DEFINE saves == tx[s].saves
            last == Len(saves)
            saved == saves[last]
            kept == IF saved.lock_len = 0 THEN << >> ELSE tx[s].locks
<1>d. /\ saves \in Seq(Savepoint) /\ last \in DOMAIN saves /\ saved \in Savepoint
      /\ \A i \in DOMAIN saves : i <= last
  <2>1. saves \in Seq(Savepoint) /\ last \in Nat /\ saves # << >>
    BY <1>0 DEF Transaction, rollback_to_sql_savepoint
  <2>2. last \in DOMAIN saves
    BY <2>1, EmptySeq
  <2>3. QED
    BY <2>1, <2>2
<1>a. /\ tx' = [tx EXCEPT ![s] = tx'[s]]
      /\ tx'[s] = [tx[s] EXCEPT !.base = saved.base, !.base_generation = saved.base_generation,
                                !.working = saved.working, !.dml_only = saved.dml_only,
                                !.locks = kept, !.lease = @ /\ saved.working # None,
                                !.failed = FALSE]
      /\ tx'[s] \in Transaction
      /\ tx[s].mode = "tx" /\ pc[s] = "ready"
      /\ owner' = IF saved.working = None /\ tx[s].lease THEN None ELSE owner
      /\ UNCHANGED <<pc, statement, effects, published, generation, committed, exposed>>
  <2>0. Truncated(tx[s].locks, saved.lock_len) = kept
    <3>1. saved.lock_len \in Nat /\ tx[s].locks \in LockLists
      BY <1>0, <1>d DEF Savepoint, Transaction
    <3>2. QED
      BY <3>1, LockList
  <2>. HIDE DEF saved, last, saves, kept
  <2>1. tx' = [tx EXCEPT ![s].base = saved.base, ![s].base_generation = saved.base_generation,
                         ![s].working = saved.working, ![s].dml_only = saved.dml_only,
                         ![s].locks = Truncated(@, saved.lock_len),
                         ![s].lease = @ /\ ~(saved.working = None), ![s].failed = FALSE]
    BY DEF rollback_to_sql_savepoint, saved, saves, last
  <2>2. tx'[s] = [tx[s] EXCEPT !.base = saved.base, !.base_generation = saved.base_generation,
                                !.working = saved.working, !.dml_only = saved.dml_only,
                                !.locks = kept, !.lease = @ /\ saved.working # None,
                                !.failed = FALSE]
    BY <1>0, <2>0, <2>1 DEF Transaction
  <2>3. tx'[s] \in Transaction
    <3>1. kept \in LockLists /\ tx[s] \in Transaction /\ saved \in Savepoint
      BY <1>0, <1>d DEF Transaction, LockLists, kept
    <3>2. \A lease \in BOOLEAN :
            [tx[s] EXCEPT !.base = saved.base, !.base_generation = saved.base_generation,
                          !.working = saved.working, !.dml_only = saved.dml_only,
                          !.locks = kept, !.lease = lease, !.failed = FALSE] \in Transaction
      BY <3>1 DEF Transaction, Savepoint
    <3>3. (tx[s].lease /\ saved.working # None) \in BOOLEAN
      OBVIOUS
    <3>4. QED
      BY <2>2, <3>2, <3>3
  <2>4. QED
    BY <1>0, <2>1, <2>2, <2>3
       DEF rollback_to_sql_savepoint, Unpublished, Active, saved, saves, last
<1>1. WritersTypeOK'
  BY <1>0, <1>a DEF WritersTypeOK
<1>2. PhaseAgrees(s)'
  BY <1>0, <1>a DEF Agrees, PhaseAgrees, Waiting, Upgrades, Segment, Transaction
<1>3. CandidateAgrees(s)'
  <2>. HIDE DEF saved, kept
  <2>1. /\ FromBase(tx[s]) /\ Replaces(tx[s])
        /\ tx[s].working = None => tx[s].locks = << >>
        /\ ~tx[s].dml_only => tx[s].locks = <<"Exclusive">>
        /\ \A i \in DOMAIN saves : SavepointAgrees(s, i)
    BY <1>0, <1>a DEF Agrees, CandidateAgrees
  <2>2. /\ tx'[s].saves = saves /\ tx'[s].base = saved.base /\ tx'[s].working = saved.working
        /\ tx'[s].base_generation = saved.base_generation /\ tx'[s].dml_only = saved.dml_only
        /\ tx'[s].locks = kept
    BY <1>0, <1>a DEF Transaction
  <2>3. /\ FromBase(saved) /\ Replaces(saved) /\ Grows(saved, tx[s])
        /\ saved.working = None => saved.lock_len = 0
        /\ ~saved.dml_only => saved.lock_len = 1
    BY <1>d, <2>1 DEF SavepointAgrees, saved
  <2>4. FromBase(tx[s])' /\ Replaces(tx[s])'
    BY <1>a, <2>2, <2>3 DEF FromBase, Replaces
  <2>5. ASSUME NEW i \in DOMAIN saves PROVE SavepointAgrees(s, i)'
    <3>1. SavepointAgrees(s, i)
      BY <2>1
    <3>2. Grows(saves[i], saved)
      BY <1>d, <3>1 DEF SavepointAgrees, saved
    <3>3. QED
      BY <1>a, <2>2, <3>1, <3>2 DEF SavepointAgrees, FromBase, Replaces, Grows
  <2>6. /\ saved.working = None => kept = << >>
        /\ ~saved.dml_only => kept = <<"Exclusive">>
    BY <2>1, <2>3 DEF kept, Grows
  <2>7. QED
    BY <2>2, <2>4, <2>5, <2>6 DEF CandidateAgrees
<1>4. StatementAgrees(s)' /\ SegmentAgrees(s)'
  BY <1>0, <1>a DEF Agrees, StatementAgrees, SegmentAgrees, Transaction
<1>5. LeaseIsOwnedBy(s)'
  BY <1>0, <1>a, WritersAssumption DEF LeaseIsOwnedBy, Transaction
<1>6. \A t \in Sessions \ {s} : Untouched(t) /\ (owner' = t <=> owner = t)
  BY <1>0, <1>a, WritersAssumption DEF Untouched, LeaseIsOwnedBy, Transaction
<1>7. LocksStep(s) /\ PublishStep(s)
  BY <1>0, <1>a DEF LocksStep, PublishStep, Unpublished, Transaction
<1>8. QED
  BY <1>1, <1>2, <1>3, <1>4, <1>5, <1>6, <1>7, StepKeeps DEF Agrees

LEMMA StatementFailsStep ==
    ASSUME WritersInv, NEW s \in Sessions, statement_fails(s)
    PROVE  WritersInv'
<1>0. /\ WritersTypeOK /\ Agrees(s) /\ LeaseIsOwnedBy(s) /\ generation \in Nat
      /\ tx \in [Sessions -> Transaction] /\ pc \in [Sessions -> Phases]
      /\ statement \in [Sessions -> Statement]
  BY SessionFacts
<1>a. /\ tx' = [tx EXCEPT ![s] = tx'[s]]
      /\ tx'[s] = [tx[s] EXCEPT !.failed = TRUE]
      /\ tx'[s] \in Transaction
      /\ tx[s].mode = "tx" /\ pc[s] \in {"dml_lock", "ddl_lock"}
      /\ pc' = [pc EXCEPT ![s] = "ready"]
      /\ UNCHANGED <<owner, statement, effects, published, generation, committed, exposed>>
  BY <1>0 DEF statement_fails, Unpublished, Goto, Transaction
<1>1. WritersTypeOK'
  BY <1>0, <1>a DEF WritersTypeOK, Phases
<1>2. PhaseAgrees(s)'
  BY <1>0, <1>a DEF Agrees, PhaseAgrees, Waiting, Upgrades, Segment, Transaction
<1>3. CandidateAgrees(s)'
  BY <1>0, <1>a, SavepointsKept DEF Agrees, CandidateAgrees, Unpublished, FromBase, Replaces, Grows, Transaction
<1>4. StatementAgrees(s)' /\ SegmentAgrees(s)'
  BY <1>0, <1>a DEF Agrees, StatementAgrees, SegmentAgrees, Transaction
<1>5. LeaseIsOwnedBy(s)'
  BY <1>0, <1>a, WritersAssumption DEF LeaseIsOwnedBy, Transaction
<1>6. \A t \in Sessions \ {s} : Untouched(t) /\ (owner' = t <=> owner = t)
  BY <1>0, <1>a, WritersAssumption DEF Untouched, LeaseIsOwnedBy, Transaction
<1>7. LocksStep(s) /\ PublishStep(s)
  BY <1>0, <1>a DEF LocksStep, PublishStep, Unpublished, Transaction
<1>8. QED
  BY <1>1, <1>2, <1>3, <1>4, <1>5, <1>6, <1>7, StepKeeps DEF Agrees

LEMMA DmlStatementStep ==
    ASSUME WritersInv, NEW s \in Sessions, dml_statement(s)
    PROVE  WritersInv'
<1>0. /\ WritersTypeOK /\ Agrees(s) /\ LeaseIsOwnedBy(s) /\ generation \in Nat
      /\ tx \in [Sessions -> Transaction] /\ pc \in [Sessions -> Phases]
      /\ statement \in [Sessions -> Statement]
  BY SessionFacts
<1>b. /\ tx[s].mode = "tx" /\ pc[s] = "ready" /\ ~tx[s].failed /\ effects < MaxEffects
      /\ published \in States /\ CandidateAgrees(s)
  BY <1>0 DEF dml_statement, CanRun, Active, Agrees, WritersTypeOK
<1>c. /\ Refreshed(s) \in Transaction
      /\ FromBase(Refreshed(s)) /\ Replaces(Refreshed(s)) /\ Grows(tx[s], Refreshed(s))
      /\ Refreshed(s).working = None <=> tx[s].working = None
      /\ Refreshed(s).mode = "tx" /\ Refreshed(s).dml_only = tx[s].dml_only
      /\ Refreshed(s).lease = tx[s].lease /\ Refreshed(s).locks = tx[s].locks
      /\ Refreshed(s).saves = tx[s].saves /\ Refreshed(s).failed = tx[s].failed
      /\ Refreshed(s).later = tx[s].later
  BY <1>b, RefreshedAgrees
<1>p. PICK kinds \in {{"row"}, {"row", "catalog"}} :
        statement' = [statement EXCEPT ![s] =
            [snapshot |-> IF tx[s].working = None THEN published ELSE Refreshed(s).working,
             adds |-> NewEffects(kinds), at |-> generation]]
  BY DEF dml_statement
<1>e. NewEffects(kinds) \in States /\ effects + 1 \in 0..MaxEffects
  BY <1>0, <1>b, EffectsAreNew
<1>f. /\ statement'[s].at = generation
      /\ statement'[s].snapshot = IF tx[s].working = None THEN published ELSE Refreshed(s).working
      /\ statement'[s] \in Statement /\ statement' = [statement EXCEPT ![s] = statement'[s]]
  BY <1>0, <1>b, <1>c, <1>p, <1>e DEF Statement, Transaction, Candidates
<1>a. /\ tx' = [tx EXCEPT ![s] = tx'[s]] /\ tx'[s] = Refreshed(s)
      /\ pc' = [pc EXCEPT ![s] = "dml_lock"]
      /\ effects' = effects + 1
      /\ UNCHANGED <<owner, published, generation, committed, exposed>>
  BY <1>0 DEF dml_statement, Unpublished, Goto
<1>1. WritersTypeOK'
  BY <1>0, <1>a, <1>c, <1>e, <1>f DEF WritersTypeOK, Phases, Waiting
<1>2. PhaseAgrees(s)'
  BY <1>0, <1>a, <1>b, <1>c DEF Agrees, PhaseAgrees, Waiting, Upgrades, Segment, Transaction
<1>3. CandidateAgrees(s)'
  <2>1. \A i \in DOMAIN tx'[s].saves : SavepointAgrees(s, i)'
    BY <1>a, <1>b, <1>c, SavepointsKept DEF Unpublished
  <2>2. FromBase(tx[s])' /\ Replaces(tx[s])'
    BY <1>a, <1>c DEF FromBase, Replaces
  <2>3. QED
    BY <1>a, <1>b, <1>c, <2>1, <2>2 DEF CandidateAgrees
<1>4. StatementAgrees(s)' /\ SegmentAgrees(s)'
  BY <1>0, <1>a, <1>b, <1>c, <1>f DEF Agrees, StatementAgrees, SegmentAgrees
<1>5. LeaseIsOwnedBy(s)'
  BY <1>0, <1>a, WritersAssumption, <1>b, <1>c DEF LeaseIsOwnedBy, Transaction
<1>6. \A t \in Sessions \ {s} : Untouched(t) /\ (owner' = t <=> owner = t)
  BY <1>0, <1>a, WritersAssumption, <1>f DEF Untouched, LeaseIsOwnedBy
<1>7. LocksStep(s) /\ PublishStep(s)
  BY <1>0, <1>a, <1>c DEF LocksStep, PublishStep, Unpublished
<1>8. QED
  BY <1>1, <1>2, <1>3, <1>4, <1>5, <1>6, <1>7, StepKeeps DEF Agrees

LEMMA DmlLockedStep ==
    ASSUME WritersInv, NEW s \in Sessions, dml_locked(s)
    PROVE  WritersInv'
<1>0. /\ WritersTypeOK /\ Agrees(s) /\ LeaseIsOwnedBy(s) /\ generation \in Nat
      /\ tx \in [Sessions -> Transaction] /\ pc \in [Sessions -> Phases]
      /\ statement \in [Sessions -> Statement]
  BY SessionFacts
<1>b. /\ tx[s].mode = "tx" /\ pc[s] = "dml_lock" /\ ~tx[s].failed /\ published \in States
      /\ CandidateAgrees(s) /\ FromBase(tx[s]) /\ Replaces(tx[s]) /\ generation' = generation
      /\ tx[s].working = None => tx[s].locks = << >>
      /\ ~tx[s].dml_only => tx[s].locks = <<"Exclusive">>
      /\ tx[s] \in Transaction /\ statement[s] \in Statement
  BY <1>0, WaitingIsTx DEF dml_locked, Waiting, Agrees, PhaseAgrees, CandidateAgrees, WritersTypeOK,
     Unpublished
<1>. DEFINE work == statement[s].snapshot \union statement[s].adds
            locks == IF tx[s].locks = << >> THEN <<"Shared">> ELSE tx[s].locks
            base == IF tx[s].base = None THEN statement[s].snapshot ELSE tx[s].base
            at == IF tx[s].base = None THEN statement[s].at ELSE tx[s].base_generation
<1>c. /\ work \in States /\ work # None /\ locks \in LockLists
      /\ base \in States /\ base # None /\ at \in Nat /\ at <= generation
      /\ at = generation => base = published /\ published \subseteq work
      /\ ~tx[s].dml_only /\ ~exposed => published \subseteq work
  <2>0. statement[s].snapshot \in States /\ statement[s].adds \in States /\ statement[s].at \in Nat
    BY <1>b DEF Statement
  <2>1. work \in States /\ base \in States /\ locks \in LockLists /\ at \in Nat
    BY <1>b, <2>0 DEF States, Transaction, Candidates, LockLists
  <2>2. work # None /\ base # None
    BY <2>1, WritersAssumption
  <2>3. /\ statement[s].at <= generation
        /\ tx[s].working = None =>
               (statement[s].at = generation => statement[s].snapshot = published)
        /\ tx[s].working # None => statement[s].snapshot = tx[s].working
    BY <1>0, <1>b DEF Agrees, StatementAgrees
  <2>4. QED
    BY <1>b, <2>1, <2>2, <2>3 DEF FromBase, Replaces
<1>a. /\ tx' = [tx EXCEPT ![s] = tx'[s]]
      /\ tx'[s] = [tx[s] EXCEPT !.locks = locks, !.base = base, !.base_generation = at,
                                !.working = work]
      /\ tx'[s] \in Transaction
      /\ pc' = [pc EXCEPT ![s] = "ready"]
      /\ tx[s].locks # << >> \/ Grantable(s, "Shared")
      /\ UNCHANGED <<owner, statement, effects, published, generation, committed, exposed>>
  <2>. HIDE DEF work, locks, base, at
  <2>1. tx' = [tx EXCEPT ![s] =
          [tx[s] EXCEPT !.locks = locks, !.base = base, !.base_generation = at, !.working = work]]
    BY <1>0 DEF dml_locked, work, locks, base, at, Transaction
  <2>2. [tx[s] EXCEPT !.locks = locks, !.base = base, !.base_generation = at, !.working = work]
            \in Transaction
    BY <1>b, <1>c DEF Transaction, Candidates
  <2>3. QED
    BY <1>0, <2>1, <2>2 DEF dml_locked, Unpublished, Goto
<1>g. /\ tx'[s].working = work /\ tx'[s].locks = locks /\ tx'[s].base = base
      /\ tx'[s].base_generation = at /\ tx'[s].mode = "tx" /\ tx'[s].dml_only = tx[s].dml_only
      /\ tx'[s].lease = tx[s].lease /\ tx'[s].saves = tx[s].saves /\ ~tx'[s].failed
      /\ tx'[s].later = tx[s].later
  <2>. HIDE DEF work, locks, base, at
  <2>. QED
    BY <1>a, <1>b DEF Transaction
<1>. HIDE DEF work, base, at
<1>1. WritersTypeOK'
  BY <1>0, <1>a DEF WritersTypeOK, Phases
<1>2. PhaseAgrees(s)'
  BY <1>0, <1>a, <1>b, <1>g DEF Agrees, PhaseAgrees, Waiting, Upgrades, Segment, Transaction
<1>3. CandidateAgrees(s)'
  <2>1. \A i \in DOMAIN tx'[s].saves : SavepointAgrees(s, i)'
    BY <1>a, <1>b, <1>c, <1>g, SavepointsKept DEF Unpublished, Grows
  <2>2. FromBase(tx[s])' /\ Replaces(tx[s])'
    BY <1>a, <1>b, <1>c, <1>g DEF FromBase, Replaces
  <2>3. QED
    BY <1>a, <1>b, <1>c, <1>g, <2>1, <2>2 DEF CandidateAgrees
<1>4. StatementAgrees(s)' /\ SegmentAgrees(s)'
  BY <1>0, <1>a DEF Agrees, StatementAgrees, SegmentAgrees
<1>5. LeaseIsOwnedBy(s)'
  BY <1>0, <1>a, WritersAssumption, <1>b, <1>c, <1>g DEF LeaseIsOwnedBy, Transaction
<1>6. \A t \in Sessions \ {s} : Untouched(t) /\ (owner' = t <=> owner = t)
  BY <1>0, <1>a, WritersAssumption DEF Untouched, LeaseIsOwnedBy
<1>7. LocksStep(s) /\ PublishStep(s)
  BY <1>0, <1>a, <1>g DEF LocksStep, PublishStep, Unpublished
<1>8. QED
  BY <1>1, <1>2, <1>3, <1>4, <1>5, <1>6, <1>7, StepKeeps DEF Agrees

LEMMA DdlStatementStep ==
    ASSUME WritersInv, NEW s \in Sessions, ddl_statement(s)
    PROVE  WritersInv'
<1>0. /\ WritersTypeOK /\ Agrees(s) /\ LeaseIsOwnedBy(s) /\ generation \in Nat
      /\ tx \in [Sessions -> Transaction] /\ pc \in [Sessions -> Phases]
      /\ statement \in [Sessions -> Statement]
  BY SessionFacts
<1>b. /\ tx[s].mode = "tx" /\ pc[s] = "ready" /\ ~tx[s].failed /\ effects < MaxEffects
      /\ ~Upgrades(s) /\ CandidateAgrees(s)
      /\ tx[s] \in Transaction /\ published \in States
  BY <1>0 DEF ddl_statement, CanRun, Active, Agrees, WritersTypeOK
<1>c. CASE lease_refused(s)
  <2>1. /\ tx' = [tx EXCEPT ![s] = tx'[s]] /\ tx'[s] = [tx[s] EXCEPT !.failed = TRUE]
        /\ tx'[s] \in Transaction
        /\ UNCHANGED <<owner, pc, statement, effects, published, generation, committed, exposed>>
    BY <1>0, <1>b, <1>c DEF lease_refused, Unpublished, Transaction
  <2>2. WritersTypeOK'
    BY <1>0, <2>1 DEF WritersTypeOK
  <2>3. PhaseAgrees(s)'
    BY <1>0, <1>b, <2>1 DEF Agrees, PhaseAgrees, Waiting, Segment, Upgrades, Transaction
  <2>4. CandidateAgrees(s)'
    BY <1>b, <2>1, SavepointsKept
       DEF CandidateAgrees, Unpublished, FromBase, Replaces, Grows, Transaction
  <2>5. StatementAgrees(s)' /\ SegmentAgrees(s)' /\ LeaseIsOwnedBy(s)'
    BY <1>0, <1>b, <2>1 DEF StatementAgrees, SegmentAgrees, LeaseIsOwnedBy, Transaction
  <2>6. \A t \in Sessions \ {s} : Untouched(t) /\ (owner' = t <=> owner = t)
    BY <1>0, <2>1 DEF Untouched
  <2>7. LocksStep(s) /\ PublishStep(s)
    BY <1>b, <2>1 DEF LocksStep, PublishStep, Unpublished, Transaction
  <2>8. QED
    BY <2>2, <2>3, <2>4, <2>5, <2>6, <2>7, StepKeeps DEF Agrees
<1>d. SUFFICES ASSUME ~lease_refused(s) PROVE WritersInv'
  BY <1>c
<1>e. NewEffects({"catalog"}) \in States /\ effects + 1 \in 0..MaxEffects
  BY <1>0, <1>b, EffectsAreNew
<1>a. /\ tx' = [tx EXCEPT ![s] = tx'[s]] /\ tx'[s] = [tx[s] EXCEPT !.lease = TRUE]
      /\ tx'[s] \in Transaction /\ owner' = s /\ (tx[s].lease \/ owner = None)
      /\ statement' = [statement EXCEPT ![s] = statement'[s]]
      /\ statement'[s] = [snapshot |-> Snapshot(s), adds |-> NewEffects({"catalog"}),
                          at |-> generation]
      /\ pc' = [pc EXCEPT ![s] = "ddl_lock"] /\ effects' = effects + 1
      /\ UNCHANGED <<published, generation, committed, exposed>>
  <2>1. /\ tx' = [tx EXCEPT ![s].lease = TRUE] /\ owner' = s /\ (tx[s].lease \/ owner = None)
        /\ statement' = [statement EXCEPT ![s] =
               [snapshot |-> Snapshot(s), adds |-> NewEffects({"catalog"}), at |-> generation]]
        /\ pc' = [pc EXCEPT ![s] = "ddl_lock"] /\ effects' = effects + 1
        /\ UNCHANGED <<published, generation, committed, exposed>>
    BY <1>d DEF ddl_statement, Unpublished, Goto
  <2>2. tx'[s] = [tx[s] EXCEPT !.lease = TRUE] /\ tx' = [tx EXCEPT ![s] = tx'[s]]
    BY <1>0, <2>1
  <2>3. tx'[s] \in Transaction
    BY <1>b, <2>2 DEF Transaction
  <2>4. statement'[s] = [snapshot |-> Snapshot(s), adds |-> NewEffects({"catalog"}),
                         at |-> generation]
    BY <1>0, <2>1
  <2>5. QED
    BY <2>1, <2>2, <2>3, <2>4
<1>f. statement'[s] \in Statement
  BY <1>0, <1>a, <1>b, <1>e DEF Statement, Snapshot, Transaction, Candidates
<1>1. WritersTypeOK'
  BY <1>0, <1>a, <1>e, <1>f DEF WritersTypeOK, Phases, Waiting
<1>2. PhaseAgrees(s)'
  BY <1>0, <1>a, <1>b DEF Agrees, PhaseAgrees, Waiting, Upgrades, Segment, Transaction
<1>3. CandidateAgrees(s)'
  BY <1>0, <1>a, <1>b, SavepointsKept DEF Agrees, CandidateAgrees, Unpublished, FromBase, Replaces, Grows, Transaction
<1>4. StatementAgrees(s)' /\ SegmentAgrees(s)'
  BY <1>0, <1>a, <1>b DEF Agrees, StatementAgrees, SegmentAgrees, Snapshot, Transaction
<1>5. LeaseIsOwnedBy(s)'
  BY <1>0, <1>a, WritersAssumption, <1>b DEF LeaseIsOwnedBy, Transaction
<1>6. \A t \in Sessions \ {s} : Untouched(t) /\ (owner' = t <=> owner = t)
  BY <1>0, <1>a, WritersAssumption, <1>b DEF Untouched, LeaseIsOwnedBy
<1>7. LocksStep(s) /\ PublishStep(s)
  BY <1>0, <1>a, <1>b DEF LocksStep, PublishStep, Unpublished, Transaction
<1>8. QED
  BY <1>1, <1>2, <1>3, <1>4, <1>5, <1>6, <1>7, StepKeeps DEF Agrees

LEMMA DdlLockedStep ==
    ASSUME WritersInv, NEW s \in Sessions, ddl_locked(s)
    PROVE  WritersInv'
<1>0. /\ WritersTypeOK /\ Agrees(s) /\ LeaseIsOwnedBy(s) /\ generation \in Nat
      /\ tx \in [Sessions -> Transaction] /\ pc \in [Sessions -> Phases]
      /\ statement \in [Sessions -> Statement]
  BY SessionFacts
<1>b. /\ tx[s].mode = "tx" /\ pc[s] = "ddl_lock" /\ ~tx[s].failed /\ published \in States
      /\ CandidateAgrees(s) /\ FromBase(tx[s]) /\ Replaces(tx[s]) /\ generation' = generation
      /\ tx[s].lease /\ ~Upgrades(s)
      /\ tx[s].working = None => tx[s].locks = << >>
      /\ ~tx[s].dml_only => tx[s].locks = <<"Exclusive">>
      /\ tx[s] \in Transaction /\ statement[s] \in Statement
  BY <1>0, WaitingIsTx DEF ddl_locked, Waiting, Agrees, PhaseAgrees, CandidateAgrees, WritersTypeOK,
     Unpublished
<1>. DEFINE work == Snapshot(s) \union statement[s].adds
            base == IF tx[s].base = None THEN statement[s].snapshot ELSE tx[s].base
            at == IF tx[s].base = None THEN statement[s].at ELSE tx[s].base_generation
<1>c. /\ work \in States /\ work # None
      /\ base \in States /\ base # None /\ at \in Nat /\ at <= generation
      /\ at = generation => base = published /\ published \subseteq work
      /\ ~exposed => published \subseteq work
  <2>0. statement[s].snapshot \in States /\ statement[s].adds \in States /\ statement[s].at \in Nat
    BY <1>b DEF Statement
  <2>1. work \in States /\ base \in States /\ at \in Nat
    BY <1>b, <2>0 DEF States, Transaction, Candidates, Snapshot
  <2>2. work # None /\ base # None
    BY <2>1, WritersAssumption
  <2>3. /\ statement[s].at <= generation
        /\ tx[s].working = None =>
               (statement[s].at = generation => statement[s].snapshot = published)
    BY <1>0, <1>b DEF Agrees, StatementAgrees
  <2>4. QED
    BY <1>b, <2>1, <2>2, <2>3 DEF FromBase, Replaces, Snapshot, Upgrades
<1>h. /\ (IF Holds(s, "Exclusive") THEN tx[s].locks ELSE Append(tx[s].locks, "Exclusive"))
            = <<"Exclusive">>
      /\ tx[s].locks = <<"Exclusive">> \/ Grantable(s, "Exclusive")
  <2>1. tx[s].locks \in LockLists
    BY <1>b DEF Transaction
  <2>2. Holds(s, "Exclusive") <=> tx[s].locks = <<"Exclusive">>
    BY <2>1, LockList
  <2>3. CASE tx[s].locks = <<"Exclusive">>
    BY <2>2, <2>3
  <2>4. CASE tx[s].locks # <<"Exclusive">>
    <3>1. tx[s].locks = << >>
      BY <1>b, <2>4 DEF Upgrades
    <3>2. QED
      BY <2>2, <2>4, <3>1 DEF ddl_locked
  <2>5. QED
    BY <2>3, <2>4
<1>a. /\ tx' = [tx EXCEPT ![s] = tx'[s]]
      /\ tx'[s] = [tx[s] EXCEPT !.locks = <<"Exclusive">>, !.dml_only = FALSE, !.base = base,
                                !.base_generation = at, !.working = work]
      /\ tx'[s] \in Transaction
      /\ pc' = [pc EXCEPT ![s] = "ready"]
      /\ UNCHANGED <<owner, statement, effects, published, generation, committed, exposed>>
  <2>. HIDE DEF work, base, at
  <2>1. tx' = [tx EXCEPT ![s] =
          [tx[s] EXCEPT !.locks = <<"Exclusive">>, !.dml_only = FALSE, !.base = base,
                        !.base_generation = at, !.working = work]]
    <3>1. tx' = [tx EXCEPT ![s] =
            [tx[s] EXCEPT
               !.locks = IF Holds(s, "Exclusive") THEN tx[s].locks ELSE Append(tx[s].locks, "Exclusive"),
               !.dml_only = FALSE, !.base = base, !.base_generation = at, !.working = work]]
      BY <1>0 DEF ddl_locked, work, base, at, Transaction
    <3>2. QED
      BY <1>h, <3>1
  <2>2. [tx[s] EXCEPT !.locks = <<"Exclusive">>, !.dml_only = FALSE, !.base = base,
                      !.base_generation = at, !.working = work] \in Transaction
    BY <1>b, <1>c DEF Transaction, Candidates, LockLists
  <2>3. QED
    BY <1>0, <2>1, <2>2 DEF ddl_locked, Unpublished, Goto
<1>. HIDE DEF work, base, at
<1>g. /\ tx'[s].working = work /\ tx'[s].locks = <<"Exclusive">> /\ tx'[s].base = base
      /\ tx'[s].base_generation = at /\ tx'[s].mode = "tx" /\ ~tx'[s].dml_only
      /\ tx'[s].lease = tx[s].lease /\ tx'[s].saves = tx[s].saves /\ ~tx'[s].failed
      /\ tx'[s].later = tx[s].later
  BY <1>a, <1>b DEF Transaction
<1>1. WritersTypeOK'
  BY <1>0, <1>a DEF WritersTypeOK, Phases
<1>2. PhaseAgrees(s)'
  BY <1>0, <1>a, <1>b, <1>g DEF Agrees, PhaseAgrees, Waiting, Upgrades, Segment, Transaction
<1>3. CandidateAgrees(s)'
  <2>1. \A i \in DOMAIN tx'[s].saves : SavepointAgrees(s, i)'
    BY <1>a, <1>b, <1>c, <1>g, SavepointsKept DEF Unpublished, Grows
  <2>2. FromBase(tx[s])' /\ Replaces(tx[s])'
    BY <1>a, <1>b, <1>c, <1>g DEF FromBase, Replaces
  <2>3. QED
    BY <1>a, <1>b, <1>c, <1>g, <2>1, <2>2 DEF CandidateAgrees
<1>4. StatementAgrees(s)' /\ SegmentAgrees(s)'
  BY <1>0, <1>a DEF Agrees, StatementAgrees, SegmentAgrees
<1>5. LeaseIsOwnedBy(s)'
  BY <1>0, <1>a, WritersAssumption, <1>b, <1>c, <1>g DEF LeaseIsOwnedBy, Transaction
<1>6. \A t \in Sessions \ {s} : Untouched(t) /\ (owner' = t <=> owner = t)
  BY <1>0, <1>a, WritersAssumption DEF Untouched, LeaseIsOwnedBy
<1>7. LocksStep(s) /\ PublishStep(s)
  BY <1>0, <1>a, <1>g, <1>h DEF LocksStep, PublishStep, Unpublished
<1>8. QED
  BY <1>1, <1>2, <1>3, <1>4, <1>5, <1>6, <1>7, StepKeeps DEF Agrees

LEMMA UpgradeStep ==
    ASSUME WritersInv, NEW s \in Sessions, upgrade_dml_candidate(s)
    PROVE  WritersInv'
<1>0. /\ WritersTypeOK /\ Agrees(s) /\ LeaseIsOwnedBy(s) /\ generation \in Nat
      /\ tx \in [Sessions -> Transaction] /\ pc \in [Sessions -> Phases]
      /\ statement \in [Sessions -> Statement]
  BY SessionFacts
<1>b. /\ tx[s].mode = "tx" /\ pc[s] = "ready" /\ ~tx[s].failed /\ effects < MaxEffects
      /\ Upgrades(s) /\ CandidateAgrees(s) /\ tx[s] \in Transaction
  BY <1>0 DEF upgrade_dml_candidate, CanRun, Active, Agrees
<1>c. /\ Refreshed(s) \in Transaction
      /\ FromBase(Refreshed(s)) /\ Replaces(Refreshed(s)) /\ Grows(tx[s], Refreshed(s))
      /\ Refreshed(s).working # None
      /\ Refreshed(s).mode = "tx" /\ Refreshed(s).dml_only
      /\ Refreshed(s).lease = tx[s].lease
      /\ Refreshed(s).saves = tx[s].saves /\ ~Refreshed(s).failed
      /\ Refreshed(s).later = tx[s].later
  BY <1>b, RefreshedAgrees DEF Upgrades
<1>e. NewEffects({"catalog"}) \in States /\ effects + 1 \in 0..MaxEffects
  BY <1>0, <1>b, EffectsAreNew
<1>f. ASSUME NEW failed \in BOOLEAN, tx' = [tx EXCEPT ![s] = [Refreshed(s) EXCEPT !.locks = << >>, !.failed = failed]],
             Unpublished
      PROVE  /\ tx' = [tx EXCEPT ![s] = tx'[s]] /\ tx'[s] \in Transaction
             /\ tx'[s].mode = "tx" /\ tx'[s].dml_only /\ tx'[s].working # None
             /\ tx'[s].lease = tx[s].lease /\ tx'[s].failed = failed /\ tx'[s].locks = << >>
             /\ tx'[s].later = tx[s].later
             /\ CandidateAgrees(s)'
             /\ UNCHANGED <<published, generation, committed, exposed>>
  <2>1. /\ tx' = [tx EXCEPT ![s] = tx'[s]] /\ tx'[s] \in Transaction
        /\ tx'[s].mode = "tx" /\ tx'[s].dml_only /\ tx'[s].working = Refreshed(s).working
        /\ tx'[s].base = Refreshed(s).base
        /\ tx'[s].base_generation = Refreshed(s).base_generation
        /\ tx'[s].lease = tx[s].lease /\ tx'[s].failed = failed /\ tx'[s].locks = << >>
        /\ tx'[s].later = tx[s].later /\ tx'[s].saves = tx[s].saves
    BY <1>0, <1>c, <1>f DEF Transaction, LockLists
  <2>2. Grows(tx[s], tx'[s]) /\ FromBase(tx[s])' /\ Replaces(tx[s])'
    BY <1>c, <1>f, <2>1 DEF Grows, FromBase, Replaces, Unpublished
  <2>3. \A i \in DOMAIN tx'[s].saves : SavepointAgrees(s, i)'
    BY <1>b, <1>f, <2>1, <2>2, SavepointsKept
  <2>4. CandidateAgrees(s)'
    BY <1>c, <2>1, <2>2, <2>3 DEF CandidateAgrees
  <2>5. QED
    BY <1>c, <1>f, <2>1, <2>4 DEF Unpublished
<1>r. CASE owner # None
  <2>1. /\ tx' = [tx EXCEPT ![s] = [Refreshed(s) EXCEPT !.locks = << >>, !.failed = TRUE]]
        /\ Unpublished /\ UNCHANGED <<owner, pc, statement, effects>>
    BY <1>r DEF upgrade_dml_candidate
  <2>2. /\ tx' = [tx EXCEPT ![s] = tx'[s]] /\ tx'[s] \in Transaction
        /\ tx'[s].mode = "tx" /\ tx'[s].dml_only /\ tx'[s].working # None
        /\ tx'[s].lease = tx[s].lease /\ tx'[s].failed /\ tx'[s].locks = << >>
        /\ tx'[s].later = tx[s].later
        /\ CandidateAgrees(s)'
        /\ UNCHANGED <<published, generation, committed, exposed>>
    BY <1>f, <2>1
  <2>3. WritersTypeOK'
    BY <1>0, <2>1, <2>2 DEF WritersTypeOK
  <2>4. PhaseAgrees(s)'
    BY <1>0, <1>b, <2>1, <2>2 DEF Agrees, PhaseAgrees, Waiting
  <2>5. StatementAgrees(s)' /\ SegmentAgrees(s)' /\ LeaseIsOwnedBy(s)'
    BY <1>0, <1>b, <2>1, <2>2 DEF StatementAgrees, SegmentAgrees, LeaseIsOwnedBy
  <2>6. \A t \in Sessions \ {s} : Untouched(t) /\ (owner' = t <=> owner = t)
    BY <1>0, <2>1, <2>2 DEF Untouched
  <2>7. LocksStep(s) /\ PublishStep(s)
    BY <2>1, <2>2 DEF LocksStep, PublishStep
  <2>8. QED
    BY <2>2, <2>3, <2>4, <2>5, <2>6, <2>7, StepKeeps DEF Agrees
<1>d. SUFFICES ASSUME owner = None PROVE WritersInv'
  BY <1>r
<1>a. /\ tx' = [tx EXCEPT ![s] = tx'[s]] /\ tx'[s] \in Transaction /\ owner' = s
      /\ tx'[s].mode = "tx" /\ tx'[s].dml_only /\ tx'[s].working # None
      /\ ~tx[s].lease /\ ~tx'[s].lease /\ ~tx'[s].failed /\ tx'[s].locks = << >>
      /\ tx'[s].later = tx[s].later
      /\ CandidateAgrees(s)' /\ statement'[s] \in Statement
      /\ statement' = [statement EXCEPT ![s] = statement'[s]]
      /\ pc' = [pc EXCEPT ![s] = "upgrade_lock"] /\ effects' = effects + 1
      /\ UNCHANGED <<published, generation, committed, exposed>>
  <2>1. /\ tx' = [tx EXCEPT ![s] = [Refreshed(s) EXCEPT !.locks = << >>]] /\ owner' = s
        /\ statement' = [statement EXCEPT ![s] =
               [snapshot |-> {}, adds |-> NewEffects({"catalog"}), at |-> generation]]
        /\ pc' = [pc EXCEPT ![s] = "upgrade_lock"] /\ effects' = effects + 1 /\ Unpublished
    BY <1>d DEF upgrade_dml_candidate, Goto
  <2>2. tx' = [tx EXCEPT ![s] = [Refreshed(s) EXCEPT !.locks = << >>, !.failed = FALSE]]
    BY <1>c, <2>1 DEF Transaction
  <2>3. /\ tx' = [tx EXCEPT ![s] = tx'[s]] /\ tx'[s] \in Transaction
        /\ tx'[s].mode = "tx" /\ tx'[s].dml_only /\ tx'[s].working # None
        /\ tx'[s].lease = tx[s].lease /\ ~tx'[s].failed /\ tx'[s].locks = << >>
        /\ tx'[s].later = tx[s].later
        /\ CandidateAgrees(s)'
        /\ UNCHANGED <<published, generation, committed, exposed>>
    BY <1>f, <2>1, <2>2
  <2>4. /\ statement'[s] = [snapshot |-> {}, adds |-> NewEffects({"catalog"}), at |-> generation]
        /\ statement' = [statement EXCEPT ![s] = statement'[s]]
    BY <1>0, <2>1
  <2>5. statement'[s] \in Statement
    BY <1>0, <1>e, <2>4 DEF Statement, States
  <2>6. ~tx[s].lease
    BY <1>0, <1>d, WritersAssumption DEF LeaseIsOwnedBy
  <2>7. QED
    BY <2>1, <2>3, <2>4, <2>5, <2>6
<1>1. WritersTypeOK'
  BY <1>0, <1>a, <1>e DEF WritersTypeOK, Phases, Waiting
<1>2. PhaseAgrees(s)'
  BY <1>0, <1>a, <1>b DEF Agrees, PhaseAgrees, Waiting, Upgrades, Segment
<1>3. CandidateAgrees(s)'
  BY <1>a
<1>4. StatementAgrees(s)' /\ SegmentAgrees(s)'
  BY <1>0, <1>a DEF Agrees, StatementAgrees, SegmentAgrees
<1>5. LeaseIsOwnedBy(s)'
  BY <1>0, <1>a, WritersAssumption DEF LeaseIsOwnedBy
<1>6. \A t \in Sessions \ {s} : Untouched(t) /\ (owner' = t <=> owner = t)
  BY <1>0, <1>a, WritersAssumption, <1>d DEF Untouched, LeaseIsOwnedBy, Untouched
<1>7. LocksStep(s) /\ PublishStep(s)
  BY <1>0, <1>a, <1>b DEF LocksStep, PublishStep, Unpublished
<1>8. QED
  BY <1>1, <1>2, <1>3, <1>4, <1>5, <1>6, <1>7, StepKeeps DEF Agrees

LEMMA UpgradeLockedStep ==
    ASSUME WritersInv, NEW s \in Sessions, upgrade_locked(s)
    PROVE  WritersInv'
<1>0. /\ WritersTypeOK /\ Agrees(s) /\ LeaseIsOwnedBy(s) /\ generation \in Nat
      /\ tx \in [Sessions -> Transaction] /\ pc \in [Sessions -> Phases]
      /\ statement \in [Sessions -> Statement]
  BY SessionFacts
<1>b. /\ tx[s].mode = "tx" /\ pc[s] = "upgrade_lock" /\ ~tx[s].failed /\ ~tx[s].lease
      /\ Upgrades(s) /\ tx[s].locks = << >> /\ owner = s
      /\ CandidateAgrees(s) /\ FromBase(tx[s]) /\ Grantable(s, "Exclusive")
      /\ tx[s] \in Transaction /\ statement[s] \in Statement /\ published \in States
  BY <1>0, WaitingIsTx DEF upgrade_locked, Waiting, Agrees, PhaseAgrees, CandidateAgrees, WritersTypeOK,
     LeaseIsOwnedBy
<1>. DEFINE stale == tx[s].level # "read_committed" /\ generation # tx[s].base_generation
            kept == IF tx[s].level = "read_committed"
                    THEN Merge(published, tx[s].base, tx[s].working) ELSE tx[s].working
            work == kept \union statement[s].adds
<1>r. CASE stale
  <2>1. /\ tx' = [tx EXCEPT ![s].failed = TRUE] /\ owner' = None
        /\ pc' = [pc EXCEPT ![s] = "ready"]
        /\ UNCHANGED <<statement, effects, published, generation, committed, exposed>>
    BY <1>r DEF upgrade_locked, Goto, Unpublished
  <2>2. /\ tx' = [tx EXCEPT ![s] = tx'[s]] /\ tx'[s] = [tx[s] EXCEPT !.failed = TRUE]
        /\ tx'[s] \in Transaction
    BY <1>0, <1>b, <2>1 DEF Transaction
  <2>3. WritersTypeOK'
    BY <1>0, <2>1, <2>2 DEF WritersTypeOK, Phases
  <2>4. PhaseAgrees(s)'
    BY <1>0, <1>b, <2>1, <2>2 DEF Agrees, PhaseAgrees, Waiting, Segment, Upgrades, Transaction
  <2>5. CandidateAgrees(s)'
    BY <1>b, <2>1, <2>2, SavepointsKept
       DEF CandidateAgrees, Unpublished, FromBase, Replaces, Grows, Transaction
  <2>6. StatementAgrees(s)' /\ SegmentAgrees(s)' /\ LeaseIsOwnedBy(s)'
    BY <1>0, <1>b, <2>1, <2>2, WritersAssumption DEF StatementAgrees, SegmentAgrees, LeaseIsOwnedBy, Transaction
  <2>7. \A t \in Sessions \ {s} : Untouched(t) /\ (owner' = t <=> owner = t)
    BY <1>0, <1>b, <2>1, <2>2, WritersAssumption DEF Untouched
  <2>8. LocksStep(s) /\ PublishStep(s)
    BY <1>b, <2>1, <2>2 DEF LocksStep, PublishStep, Unpublished, Transaction
  <2>9. QED
    BY <2>3, <2>4, <2>5, <2>6, <2>7, <2>8, StepKeeps DEF Agrees
<1>d. SUFFICES ASSUME ~stale PROVE WritersInv'
  BY <1>r
<1>c. /\ work \in States /\ work # None /\ published # None /\ published \subseteq work
  <2>1. tx[s].working \in States /\ tx[s].working # None /\ statement[s].adds \in States
    BY <1>b DEF Upgrades, Transaction, Candidates, Statement
  <2>2. kept \in States
    BY <1>b, <2>1, MergeKeeps
  <2>3. published \subseteq kept
    <3>1. CASE tx[s].level = "read_committed"
      BY <1>b, <2>1, <3>1, MergeKeeps
    <3>2. CASE tx[s].level # "read_committed"
      BY <1>b, <1>d, <2>1, <3>2 DEF FromBase
    <3>3. QED
      BY <3>1, <3>2
  <2>. HIDE DEF kept
  <2>4. work \in States /\ published \subseteq work
    BY <2>1, <2>2, <2>3 DEF States
  <2>5. QED
    BY <1>b, <2>4, WritersAssumption
<1>a. /\ tx' = [tx EXCEPT ![s] = tx'[s]]
      /\ tx'[s] = [tx[s] EXCEPT !.base = published, !.base_generation = generation,
                                !.working = work, !.lease = TRUE, !.locks = <<"Exclusive">>,
                                !.dml_only = FALSE]
      /\ tx'[s] \in Transaction
      /\ pc' = [pc EXCEPT ![s] = "ready"]
      /\ UNCHANGED <<owner, statement, effects, published, generation, committed, exposed>>
  <2>1. /\ tx' = [tx EXCEPT ![s] =
              [tx[s] EXCEPT !.base = published, !.base_generation = generation,
                            !.working = work, !.lease = TRUE, !.locks = <<"Exclusive">>,
                            !.dml_only = FALSE]]
        /\ owner' = owner
    BY <1>0, <1>b, <1>d DEF upgrade_locked, Transaction
  <2>. HIDE DEF work
  <2>2. [tx[s] EXCEPT !.base = published, !.base_generation = generation,
                      !.working = work, !.lease = TRUE, !.locks = <<"Exclusive">>,
                      !.dml_only = FALSE] \in Transaction
    BY <1>0, <1>b, <1>c DEF Transaction, Candidates, LockLists
  <2>3. QED
    BY <1>0, <2>1, <2>2 DEF upgrade_locked, Unpublished, Goto
<1>. HIDE DEF work, stale, kept
<1>g. /\ tx'[s].working = work /\ tx'[s].locks = <<"Exclusive">> /\ tx'[s].base = published
      /\ tx'[s].base_generation = generation /\ tx'[s].mode = "tx" /\ ~tx'[s].dml_only
      /\ tx'[s].lease /\ tx'[s].saves = tx[s].saves /\ ~tx'[s].failed
      /\ tx'[s].later = tx[s].later
  BY <1>a, <1>b DEF Transaction
<1>1. WritersTypeOK'
  BY <1>0, <1>a DEF WritersTypeOK, Phases
<1>2. PhaseAgrees(s)'
  BY <1>0, <1>a, <1>b, <1>g DEF Agrees, PhaseAgrees, Waiting, Upgrades, Segment, Transaction
<1>3. CandidateAgrees(s)'
  <2>1. \A i \in DOMAIN tx'[s].saves : SavepointAgrees(s, i)'
    BY <1>a, <1>b, <1>c, <1>g, SavepointsKept DEF Unpublished, Grows
  <2>2. FromBase(tx[s])' /\ Replaces(tx[s])'
    BY <1>0, <1>a, <1>b, <1>c, <1>g DEF FromBase, Replaces
  <2>3. QED
    BY <1>a, <1>b, <1>c, <1>g, <2>1, <2>2 DEF CandidateAgrees
<1>4. StatementAgrees(s)' /\ SegmentAgrees(s)'
  BY <1>0, <1>a DEF Agrees, StatementAgrees, SegmentAgrees
<1>5. LeaseIsOwnedBy(s)'
  BY <1>0, <1>a, WritersAssumption, <1>b, <1>c, <1>g DEF LeaseIsOwnedBy, Transaction
<1>6. \A t \in Sessions \ {s} : Untouched(t) /\ (owner' = t <=> owner = t)
  BY <1>0, <1>a, WritersAssumption DEF Untouched, LeaseIsOwnedBy
<1>7. LocksStep(s) /\ PublishStep(s)
  BY <1>0, <1>a, <1>b, <1>g DEF LocksStep, PublishStep, Unpublished
<1>8. QED
  BY <1>1, <1>2, <1>3, <1>4, <1>5, <1>6, <1>7, StepKeeps DEF Agrees

LEMMA UpgradeFailsStep ==
    ASSUME WritersInv, NEW s \in Sessions, upgrade_fails(s)
    PROVE  WritersInv'
<1>0. /\ WritersTypeOK /\ Agrees(s) /\ LeaseIsOwnedBy(s) /\ generation \in Nat
      /\ tx \in [Sessions -> Transaction] /\ pc \in [Sessions -> Phases]
      /\ statement \in [Sessions -> Statement]
  BY SessionFacts
<1>b. /\ tx[s].mode = "tx" /\ pc[s] = "upgrade_lock" /\ ~tx[s].lease /\ owner = s
      /\ CandidateAgrees(s) /\ tx[s] \in Transaction
  BY <1>0, WaitingIsTx DEF upgrade_fails, Waiting, Agrees, PhaseAgrees, LeaseIsOwnedBy
<1>a. /\ tx' = [tx EXCEPT ![s] = tx'[s]]
      /\ tx'[s] = [tx[s] EXCEPT !.failed = TRUE]
      /\ tx'[s] \in Transaction /\ owner' = None
      /\ pc' = [pc EXCEPT ![s] = "ready"]
      /\ UNCHANGED <<statement, effects, published, generation, committed, exposed>>
  BY <1>0 DEF upgrade_fails, Unpublished, Goto, Transaction
<1>1. WritersTypeOK'
  BY <1>0, <1>a DEF WritersTypeOK, Phases
<1>2. PhaseAgrees(s)'
  BY <1>0, <1>a, <1>b DEF Agrees, PhaseAgrees, Waiting, Upgrades, Segment, Transaction
<1>3. CandidateAgrees(s)'
  BY <1>0, <1>a, <1>b, SavepointsKept DEF Agrees, CandidateAgrees, Unpublished, FromBase, Replaces, Grows, Transaction
<1>4. StatementAgrees(s)' /\ SegmentAgrees(s)'
  BY <1>0, <1>a DEF Agrees, StatementAgrees, SegmentAgrees, Transaction
<1>5. LeaseIsOwnedBy(s)'
  BY <1>0, <1>a, WritersAssumption, <1>b DEF LeaseIsOwnedBy, Transaction
<1>6. \A t \in Sessions \ {s} : Untouched(t) /\ (owner' = t <=> owner = t)
  BY <1>0, <1>a, WritersAssumption, <1>b DEF Untouched, LeaseIsOwnedBy, Transaction
<1>7. LocksStep(s) /\ PublishStep(s)
  BY <1>0, <1>a DEF LocksStep, PublishStep, Unpublished, Transaction
<1>8. QED
  BY <1>1, <1>2, <1>3, <1>4, <1>5, <1>6, <1>7, StepKeeps DEF Agrees

LEMMA CommitStep ==
    ASSUME WritersInv, NEW s \in Sessions, commit_sql_transaction(s)
    PROVE  WritersInv'
<1>0. /\ WritersTypeOK /\ Agrees(s) /\ LeaseIsOwnedBy(s) /\ generation \in Nat
      /\ tx \in [Sessions -> Transaction] /\ pc \in [Sessions -> Phases]
      /\ statement \in [Sessions -> Statement]
  BY SessionFacts
<1>b. /\ tx[s].mode = "tx" /\ pc[s] = "ready" /\ tx[s] \in Transaction
      /\ published \in States /\ committed \in States /\ generation \in Nat /\ exposed \in BOOLEAN
  BY <1>0 DEF commit_sql_transaction, Active, WritersTypeOK
<1>c. /\ published' \in States /\ committed' \in States /\ generation' \in Nat /\ exposed' \in BOOLEAN
      /\ PublishStep(s)
  <2>1. CASE tx[s].working = None
    BY <1>b, <2>1 DEF commit_sql_transaction, Unpublished, PublishStep
  <2>2. CASE tx[s].working # None
    <3>1. tx[s].working \in States
      BY <1>b, <2>2 DEF Transaction, Candidates
    <3>2. Merge(published, tx[s].base, tx[s].working) \in States /\ Own(s) \in States
      BY <1>b, <3>1, MergeKeeps DEF Own, States
    <3>3. /\ published' = IF tx[s].dml_only THEN Merge(published, tx[s].base, tx[s].working)
                                            ELSE tx[s].working
          /\ generation' = generation + 1 /\ committed' = committed \union Own(s)
          /\ exposed' = (exposed \/ tx[s].locks = << >>)
      BY <2>2 DEF commit_sql_transaction, Publish
    <3>4. committed' \in States
      BY <1>b, <3>2, <3>3 DEF States
    <3>5. \A t \in Sessions \ {s} : exposed' \/ tx[t].locks # <<"Exclusive">>
      <4>1. ASSUME NEW t \in Sessions \ {s}, tx[t].locks = <<"Exclusive">>
            PROVE  tx[s].locks = << >>
        BY <4>1 DEF WritersInv, LocksAgree
      <4>2. QED
        BY <3>3, <4>1
    <3>6. QED
      BY <1>b, <3>1, <3>2, <3>3, <3>4, <3>5 DEF PublishStep
  <2>3. QED
    BY <2>1, <2>2
<1>a. /\ tx' = [tx EXCEPT ![s] = Idle] /\ Idle \in Transaction
      /\ tx'[s] = Idle /\ owner' = IF tx[s].lease THEN None ELSE owner
      /\ UNCHANGED <<pc, statement, effects>>
  BY <1>0, IdleIsTransaction DEF commit_sql_transaction, Reset, ReleaseLease
<1>1. WritersTypeOK'
  BY <1>0, <1>a, <1>c DEF WritersTypeOK, Idle
<1>2. PhaseAgrees(s)'
  BY <1>0, <1>a, <1>b DEF Agrees, PhaseAgrees, Waiting, Idle, Upgrades
<1>3. CandidateAgrees(s)'
  BY <1>0, <1>a DEF Agrees, CandidateAgrees, Idle
<1>4. StatementAgrees(s)' /\ SegmentAgrees(s)'
  BY <1>0, <1>a, <1>b DEF Agrees, StatementAgrees, SegmentAgrees, Idle
<1>5. LeaseIsOwnedBy(s)'
  BY <1>0, <1>a, WritersAssumption, <1>b DEF LeaseIsOwnedBy, Idle
<1>6. \A t \in Sessions \ {s} : Untouched(t) /\ (owner' = t <=> owner = t)
  BY <1>0, <1>a, WritersAssumption DEF Untouched, LeaseIsOwnedBy, Idle
<1>7. LocksStep(s) /\ PublishStep(s)
  BY <1>0, <1>a, <1>c DEF LocksStep, PublishStep, Unpublished, Idle
<1>8. QED
  BY <1>1, <1>2, <1>3, <1>4, <1>5, <1>6, <1>7, StepKeeps DEF Agrees

LEMMA CommitFailsStep ==
    ASSUME WritersInv, NEW s \in Sessions, commit_fails(s)
    PROVE  WritersInv'
<1>0. /\ WritersTypeOK /\ Agrees(s) /\ LeaseIsOwnedBy(s) /\ generation \in Nat
      /\ tx \in [Sessions -> Transaction] /\ pc \in [Sessions -> Phases]
      /\ statement \in [Sessions -> Statement]
  BY SessionFacts
<1>b. tx[s].mode = "tx" /\ pc[s] = "ready"
  BY DEF commit_fails, Active
<1>a. /\ tx' = [tx EXCEPT ![s] = tx'[s]] /\ tx'[s] = [Idle EXCEPT !.mode = "failed"]
      /\ tx'[s] \in Transaction
      /\ owner' = IF tx[s].lease THEN None ELSE owner
      /\ UNCHANGED <<pc, statement, effects, published, generation, committed, exposed>>
  <2>1. [Idle EXCEPT !.mode = "failed"] \in Transaction
    BY EmptySeq DEF Transaction, Idle, Candidates, LockLists
  <2>2. QED
    BY <1>0, <2>1 DEF commit_fails, ReleaseLease, Unpublished
<1>g. /\ tx'[s].mode = "failed" /\ tx'[s].working = None /\ ~tx'[s].lease /\ tx'[s].locks = << >>
      /\ ~tx'[s].failed /\ ~tx'[s].later
  BY <1>a DEF Idle
<1>1. WritersTypeOK'
  BY <1>0, <1>a DEF WritersTypeOK
<1>2. PhaseAgrees(s)'
  BY <1>0, <1>a, <1>b, <1>g DEF Agrees, PhaseAgrees, Waiting, Upgrades
<1>3. CandidateAgrees(s)'
  BY <1>0, <1>a, <1>g DEF Agrees, CandidateAgrees
<1>4. StatementAgrees(s)' /\ SegmentAgrees(s)'
  BY <1>0, <1>a, <1>b DEF Agrees, StatementAgrees, SegmentAgrees
<1>5. LeaseIsOwnedBy(s)'
  BY <1>0, <1>a, WritersAssumption, <1>b, <1>g DEF LeaseIsOwnedBy
<1>6. \A t \in Sessions \ {s} : Untouched(t) /\ (owner' = t <=> owner = t)
  BY <1>0, <1>a, WritersAssumption, <1>g DEF Untouched, LeaseIsOwnedBy
<1>7. LocksStep(s) /\ PublishStep(s)
  BY <1>0, <1>a, <1>g DEF LocksStep, PublishStep, Unpublished
<1>8. QED
  BY <1>1, <1>2, <1>3, <1>4, <1>5, <1>6, <1>7, StepKeeps DEF Agrees

LEMMA AutoDmlStep ==
    ASSUME WritersInv, NEW s \in Sessions, auto_dml(s)
    PROVE  WritersInv'
<1>0. /\ WritersTypeOK /\ Agrees(s) /\ LeaseIsOwnedBy(s) /\ generation \in Nat
      /\ tx \in [Sessions -> Transaction] /\ pc \in [Sessions -> Phases]
      /\ statement \in [Sessions -> Statement]
  BY SessionFacts
<1>b. tx[s].mode = "idle" /\ effects < MaxEffects /\ Grantable(s, "Shared")
  BY DEF auto_dml
<1>p. PICK kinds \in {{"row"}, {"row", "catalog"}} :
        Publish(published \union NewEffects(kinds), NewEffects(kinds))
  BY DEF auto_dml
<1>e. NewEffects(kinds) \in States /\ effects + 1 \in 0..MaxEffects
  BY <1>0, <1>b, EffectsAreNew
<1>a. /\ published' \in States /\ committed' \in States /\ generation' = generation + 1
      /\ effects' \in 0..MaxEffects
      /\ UNCHANGED <<owner, tx, pc, statement, exposed>>
  BY <1>0, <1>e, <1>p DEF auto_dml, Publish, WritersTypeOK, States
<1>g. tx[s] = [Idle EXCEPT !.mode = "idle"] /\ tx[s].locks = << >> /\ pc[s] = "ready"
  <2>1. tx[s] = [Idle EXCEPT !.mode = "idle"] /\ pc[s] = "ready"
    BY <1>0, <1>b DEF Agrees, PhaseAgrees
  <2>2. QED
    BY <2>1 DEF Idle
<1>1. WritersTypeOK'
  BY <1>0, <1>a DEF WritersTypeOK
<1>2. PhaseAgrees(s)'
  BY <1>0, <1>a, <1>b, <1>g DEF Agrees, PhaseAgrees, Waiting, Upgrades
<1>3. CandidateAgrees(s)'
  BY <1>0, <1>a, <1>b DEF Agrees, CandidateAgrees
<1>4. StatementAgrees(s)' /\ SegmentAgrees(s)'
  BY <1>0, <1>a, <1>g DEF Agrees, StatementAgrees, SegmentAgrees
<1>5. LeaseIsOwnedBy(s)'
  BY <1>0, <1>a, WritersAssumption DEF LeaseIsOwnedBy
<1>6. \A t \in Sessions \ {s} : Untouched(t) /\ (owner' = t <=> owner = t)
  BY <1>a DEF Untouched
<1>7. LocksStep(s) /\ PublishStep(s)
  BY <1>0, <1>a, <1>b, GrantableLocks DEF LocksStep, PublishStep
<1>8. QED
  BY <1>1, <1>2, <1>3, <1>4, <1>5, <1>6, <1>7, StepKeeps DEF Agrees

LEMMA AutoExclusiveStep ==
    ASSUME WritersInv, NEW s \in Sessions, auto_exclusive(s)
    PROVE  WritersInv'
<1>0. /\ WritersTypeOK /\ Agrees(s) /\ LeaseIsOwnedBy(s) /\ generation \in Nat
      /\ tx \in [Sessions -> Transaction] /\ pc \in [Sessions -> Phases]
      /\ statement \in [Sessions -> Statement]
  BY SessionFacts
<1>b. tx[s].mode = "idle" /\ effects < MaxEffects /\ owner = None
  BY DEF auto_exclusive
<1>e. NewEffects({"catalog"}) \in States /\ effects + 1 \in 0..MaxEffects
  BY <1>0, <1>b, EffectsAreNew
<1>g. /\ tx[s] \in Transaction
      /\ tx[s].mode = "idle" /\ tx[s].base = None /\ tx[s].working = None
      /\ tx[s].locks = << >> /\ ~tx[s].failed /\ ~tx[s].later
  <2>1. tx[s] = [Idle EXCEPT !.mode = "idle"]
    BY <1>0, <1>b DEF Agrees, PhaseAgrees
  <2>2. QED
    BY <1>0, <2>1 DEF Idle
<1>a. /\ tx' = [tx EXCEPT ![s] = tx'[s]] /\ tx'[s] = [tx[s] EXCEPT !.mode = "auto", !.lease = TRUE]
      /\ tx'[s] \in Transaction
      /\ statement' = [statement EXCEPT ![s] = statement'[s]] /\ statement'[s] \in Statement
      /\ owner' = s /\ pc' = [pc EXCEPT ![s] = "auto_lock"] /\ effects' = effects + 1
      /\ UNCHANGED <<published, generation, committed, exposed>>
  <2>1. /\ tx' = [tx EXCEPT ![s] = tx'[s]] /\ tx'[s] = [tx[s] EXCEPT !.mode = "auto", !.lease = TRUE]
        /\ tx'[s] \in Transaction
    BY <1>0, <1>g DEF auto_exclusive, Transaction
  <2>2. /\ statement'[s] = [snapshot |-> {}, adds |-> NewEffects({"catalog"}), at |-> generation]
        /\ statement' = [statement EXCEPT ![s] = statement'[s]]
    BY <1>0 DEF auto_exclusive
  <2>3. statement'[s] \in Statement
    BY <1>0, <1>e, <2>2 DEF Statement, States
  <2>4. QED
    BY <2>1, <2>2, <2>3 DEF auto_exclusive, Goto, Unpublished
<1>1. WritersTypeOK'
  BY <1>0, <1>a, <1>e DEF WritersTypeOK, Phases
<1>2. PhaseAgrees(s)'
  BY <1>0, <1>a, <1>g DEF Agrees, PhaseAgrees, Waiting, Waiting, Upgrades, Transaction
<1>3. CandidateAgrees(s)'
  BY <1>0, <1>a, <1>g DEF Agrees, CandidateAgrees, Transaction
<1>4. StatementAgrees(s)' /\ SegmentAgrees(s)'
  BY <1>0, <1>a DEF Agrees, StatementAgrees, SegmentAgrees
<1>5. LeaseIsOwnedBy(s)'
  BY <1>0, <1>a, WritersAssumption, <1>g DEF LeaseIsOwnedBy, Transaction
<1>6. \A t \in Sessions \ {s} : Untouched(t) /\ (owner' = t <=> owner = t)
  BY <1>0, <1>a, WritersAssumption, <1>b DEF Untouched, LeaseIsOwnedBy
<1>7. LocksStep(s) /\ PublishStep(s)
  BY <1>0, <1>a, <1>g DEF LocksStep, PublishStep, Unpublished, Transaction
<1>8. QED
  BY <1>1, <1>2, <1>3, <1>4, <1>5, <1>6, <1>7, StepKeeps DEF Agrees

LEMMA AutoExclusiveEndsStep ==
    ASSUME WritersInv, NEW s \in Sessions, auto_exclusive_ends(s)
    PROVE  WritersInv'
<1>0. /\ WritersTypeOK /\ Agrees(s) /\ LeaseIsOwnedBy(s) /\ generation \in Nat
      /\ tx \in [Sessions -> Transaction] /\ pc \in [Sessions -> Phases]
      /\ statement \in [Sessions -> Statement]
  BY SessionFacts
<1>b. /\ pc[s] = "auto_lock" /\ tx[s].mode = "auto" /\ tx[s].lease /\ owner = s
  BY <1>0 DEF auto_exclusive_ends, Agrees, PhaseAgrees, LeaseIsOwnedBy, WritersTypeOK, Transaction, Waiting, Segment
<1>c. /\ published' \in States /\ committed' \in States /\ generation' \in Nat /\ exposed' \in BOOLEAN
      /\ PublishStep(s)
  <2>0. /\ published \in States /\ committed \in States /\ exposed \in BOOLEAN
        /\ statement[s].adds \in States
    BY <1>0 DEF WritersTypeOK, Statement
  <2>1. CASE Unpublished
    BY <1>0, <2>0, <2>1 DEF Unpublished, PublishStep
  <2>2. CASE /\ Grantable(s, "Exclusive")
             /\ Publish(published \union statement[s].adds, statement[s].adds)
             /\ UNCHANGED exposed
    BY <1>0, <2>0, <2>2, GrantableLocks DEF Publish, PublishStep, States
  <2>3. QED
    BY <2>1, <2>2 DEF auto_exclusive_ends
<1>a. /\ tx' = [tx EXCEPT ![s] = Idle] /\ Idle \in Transaction
      /\ tx'[s] = Idle /\ owner' = None /\ pc' = [pc EXCEPT ![s] = "ready"]
      /\ UNCHANGED <<statement, effects>>
  BY <1>0, <1>b, IdleIsTransaction DEF auto_exclusive_ends, Reset, ReleaseLease, Goto
<1>1. WritersTypeOK'
  BY <1>0, <1>a, <1>c DEF WritersTypeOK, Idle, Phases
<1>2. PhaseAgrees(s)'
  BY <1>0, <1>a DEF Agrees, PhaseAgrees, Waiting, Idle, Upgrades
<1>3. CandidateAgrees(s)'
  BY <1>0, <1>a DEF Agrees, CandidateAgrees, Idle
<1>4. StatementAgrees(s)' /\ SegmentAgrees(s)'
  BY <1>0, <1>a DEF Agrees, StatementAgrees, SegmentAgrees, Idle
<1>5. LeaseIsOwnedBy(s)'
  BY <1>0, <1>a, WritersAssumption DEF LeaseIsOwnedBy, Idle
<1>6. \A t \in Sessions \ {s} : Untouched(t) /\ (owner' = t <=> owner = t)
  BY <1>0, <1>a, WritersAssumption, <1>b DEF Untouched, LeaseIsOwnedBy, Idle
<1>7. LocksStep(s) /\ PublishStep(s)
  BY <1>0, <1>a, <1>c DEF LocksStep, PublishStep, Unpublished, Idle
<1>8. QED
  BY <1>1, <1>2, <1>3, <1>4, <1>5, <1>6, <1>7, StepKeeps DEF Agrees

LEMMA StartSegmentStep ==
    ASSUME WritersInv, NEW s \in Sessions, start_segment(s)
    PROVE  WritersInv'
<1>0. /\ WritersTypeOK /\ Agrees(s) /\ LeaseIsOwnedBy(s) /\ generation \in Nat
      /\ tx \in [Sessions -> Transaction] /\ pc \in [Sessions -> Phases]
      /\ statement \in [Sessions -> Statement]
  BY SessionFacts
<1>b. /\ owner = None /\ tx[s] \in Transaction /\ ~tx[s].failed
      /\ tx[s].locks = << >> /\ tx[s].saves = << >>
      /\ tx[s].later \/ tx[s].base = None
  <2>1. CASE tx[s].mode = "idle"
    <3>1. tx[s] = [Idle EXCEPT !.mode = "idle"]
      BY <1>0, <2>1 DEF Agrees, PhaseAgrees
    <3>2. QED
      BY <1>0, <3>1 DEF start_segment, Idle
  <2>2. CASE pc[s] = "start"
    <3>1. tx[s].mode = "procedure"
      BY <1>0, <2>2 DEF Agrees, PhaseAgrees, Transaction, Waiting
    <3>2. QED
      BY <1>0, <2>2, <3>1 DEF start_segment, Agrees, PhaseAgrees
  <2>3. QED
    BY <2>1, <2>2 DEF start_segment
<1>. DEFINE work == IF tx[s].working = None THEN {} ELSE tx[s].working
<1>c. work \in States /\ work # None
  <2>1. work \in States
    BY <1>b DEF Transaction, Candidates, States
  <2>2. QED
    BY <2>1, WritersAssumption
<1>a. /\ tx' = [tx EXCEPT ![s] = tx'[s]]
      /\ tx'[s] = [tx[s] EXCEPT !.mode = "procedure", !.lease = TRUE, !.working = work]
      /\ tx'[s] \in Transaction
      /\ owner' = s /\ pc' = [pc EXCEPT ![s] = "segment_lock"]
      /\ UNCHANGED <<statement, effects, published, generation, committed, exposed>>
  <2>1. tx' = [tx EXCEPT ![s] = [tx[s] EXCEPT !.mode = "procedure", !.lease = TRUE, !.working = work]]
    BY <1>0 DEF start_segment, Transaction
  <2>. HIDE DEF work
  <2>2. [tx[s] EXCEPT !.mode = "procedure", !.lease = TRUE, !.working = work] \in Transaction
    BY <1>b, <1>c DEF Transaction, Candidates
  <2>3. QED
    BY <1>0, <2>1, <2>2 DEF start_segment, Goto, Unpublished
<1>. HIDE DEF work
<1>g. /\ tx'[s].mode = "procedure" /\ tx'[s].lease /\ tx'[s].working = work
      /\ tx'[s].locks = << >> /\ tx'[s].saves = << >> /\ ~tx'[s].failed
      /\ tx'[s].later = tx[s].later /\ tx'[s].base = tx[s].base
  BY <1>a, <1>b DEF Transaction
<1>1. WritersTypeOK'
  BY <1>0, <1>a DEF WritersTypeOK, Phases, Segment
<1>2. PhaseAgrees(s)'
  BY <1>0, <1>a, <1>b, <1>c, <1>g DEF Agrees, PhaseAgrees, Waiting, Segment, Upgrades
<1>3. CandidateAgrees(s)'
  BY <1>0, <1>a, <1>g DEF Agrees, CandidateAgrees
<1>4. StatementAgrees(s)' /\ SegmentAgrees(s)'
  BY <1>0, <1>a DEF Agrees, StatementAgrees, SegmentAgrees
<1>5. LeaseIsOwnedBy(s)'
  BY <1>0, <1>a, WritersAssumption, <1>c, <1>g DEF LeaseIsOwnedBy
<1>6. \A t \in Sessions \ {s} : Untouched(t) /\ (owner' = t <=> owner = t)
  BY <1>0, <1>a, WritersAssumption, <1>b DEF Untouched, LeaseIsOwnedBy
<1>7. LocksStep(s) /\ PublishStep(s)
  BY <1>0, <1>a, <1>b, <1>g DEF LocksStep, PublishStep, Unpublished
<1>8. QED
  BY <1>1, <1>2, <1>3, <1>4, <1>5, <1>6, <1>7, StepKeeps DEF Agrees

LEMMA SegmentLockedStep ==
    ASSUME WritersInv, NEW s \in Sessions, segment_locked(s)
    PROVE  WritersInv'
<1>0. /\ WritersTypeOK /\ Agrees(s) /\ LeaseIsOwnedBy(s) /\ generation \in Nat
      /\ tx \in [Sessions -> Transaction] /\ pc \in [Sessions -> Phases]
      /\ statement \in [Sessions -> Statement]
  BY SessionFacts
<1>b. /\ tx[s].mode = "procedure" /\ pc[s] = "segment_lock" /\ tx[s] \in Transaction
      /\ tx[s].working # None /\ ~tx[s].failed /\ tx[s].lease /\ tx[s].saves = << >>
      /\ tx[s].later \/ tx[s].base = None
      /\ Grantable(s, "Exclusive") /\ published \in States
  <2>1. tx[s].mode = "procedure" /\ pc[s] = "segment_lock"
    BY <1>0 DEF segment_locked, Agrees, PhaseAgrees, Transaction, Waiting
  <2>2. QED
    BY <1>0, <2>1 DEF segment_locked, Agrees, PhaseAgrees, WritersTypeOK
<1>. DEFINE work == IF tx[s].base = None THEN published ELSE tx[s].working
            base == IF tx[s].base = None THEN published ELSE tx[s].base
<1>c. /\ work \in States /\ work # None /\ base \in States /\ base # None
      /\ ~tx[s].later => work = published
  <2>1. work \in States /\ base \in States
    BY <1>b DEF Transaction, Candidates
  <2>2. QED
    BY <1>b, <2>1, WritersAssumption
<1>a. /\ tx' = [tx EXCEPT ![s] = tx'[s]]
      /\ tx'[s] = [tx[s] EXCEPT !.locks = <<"Exclusive">>, !.base = base, !.working = work]
      /\ tx'[s] \in Transaction
      /\ pc' = [pc EXCEPT ![s] = "body"]
      /\ UNCHANGED <<owner, statement, effects, published, generation, committed, exposed>>
  <2>1. tx' = [tx EXCEPT ![s] = [tx[s] EXCEPT !.locks = <<"Exclusive">>, !.base = base, !.working = work]]
    BY <1>0 DEF segment_locked, Transaction
  <2>. HIDE DEF work, base
  <2>2. [tx[s] EXCEPT !.locks = <<"Exclusive">>, !.base = base, !.working = work] \in Transaction
    BY <1>b, <1>c DEF Transaction, Candidates, LockLists
  <2>3. QED
    BY <1>0, <2>1, <2>2 DEF segment_locked, Goto, Unpublished
<1>. HIDE DEF work, base
<1>g. /\ tx'[s].mode = "procedure" /\ tx'[s].lease /\ tx'[s].working = work
      /\ tx'[s].locks = <<"Exclusive">> /\ tx'[s].saves = << >> /\ ~tx'[s].failed
      /\ tx'[s].later = tx[s].later /\ tx'[s].base = base
  BY <1>a, <1>b DEF Transaction
<1>1. WritersTypeOK'
  BY <1>0, <1>a DEF WritersTypeOK, Phases, Segment
<1>2. PhaseAgrees(s)'
  BY <1>0, <1>a, <1>b, <1>c, <1>g DEF Agrees, PhaseAgrees, Waiting, Segment, Upgrades
<1>3. CandidateAgrees(s)'
  BY <1>0, <1>a, <1>g DEF Agrees, CandidateAgrees
<1>4. StatementAgrees(s)' /\ SegmentAgrees(s)'
  BY <1>0, <1>a, <1>c, <1>g DEF Agrees, StatementAgrees, SegmentAgrees
<1>5. LeaseIsOwnedBy(s)'
  BY <1>0, <1>a, WritersAssumption, <1>b, <1>c, <1>g DEF LeaseIsOwnedBy
<1>6. \A t \in Sessions \ {s} : Untouched(t) /\ (owner' = t <=> owner = t)
  BY <1>0, <1>a, WritersAssumption DEF Untouched, LeaseIsOwnedBy
<1>7. LocksStep(s) /\ PublishStep(s)
  BY <1>0, <1>a, <1>b, <1>g DEF LocksStep, PublishStep, Unpublished
<1>8. QED
  BY <1>1, <1>2, <1>3, <1>4, <1>5, <1>6, <1>7, StepKeeps DEF Agrees

LEMMA ProcedureStatementStep ==
    ASSUME WritersInv, NEW s \in Sessions, procedure_statement(s)
    PROVE  WritersInv'
<1>0. /\ WritersTypeOK /\ Agrees(s) /\ LeaseIsOwnedBy(s) /\ generation \in Nat
      /\ tx \in [Sessions -> Transaction] /\ pc \in [Sessions -> Phases]
      /\ statement \in [Sessions -> Statement]
  BY SessionFacts
<1>b. /\ tx[s].mode = "procedure" /\ pc[s] = "body" /\ tx[s] \in Transaction
      /\ tx[s].working # None /\ tx[s].working \in States /\ tx[s].base # None
      /\ ~tx[s].failed /\ tx[s].lease /\ tx[s].saves = << >>
      /\ tx[s].locks = <<"Exclusive">> /\ owner = s
  <2>1. tx[s].mode = "procedure" /\ pc[s] = "body"
    BY <1>0, BodyIsProcedure DEF procedure_statement, Agrees
  <2>2. QED
    BY <1>0, <2>1 DEF Agrees, PhaseAgrees, LeaseIsOwnedBy, Transaction, Candidates
<1>. DEFINE work == tx[s].working \union NewEffects({"row"})
<1>c. work \in States /\ work # None /\ effects + 1 \in 0..MaxEffects
  <2>1. NewEffects({"row"}) \in States /\ effects + 1 \in 0..MaxEffects
    BY <1>0, EffectsAreNew DEF procedure_statement
  <2>2. work \in States
    BY <1>b, <2>1 DEF States
  <2>3. QED
    BY <2>1, <2>2, WritersAssumption
<1>a. /\ tx' = [tx EXCEPT ![s] = tx'[s]]
      /\ tx'[s] = [tx[s] EXCEPT !.working = work]
      /\ tx'[s] \in Transaction /\ effects' = effects + 1
      /\ UNCHANGED <<owner, pc, statement, published, generation, committed, exposed>>
  <2>1. tx' = [tx EXCEPT ![s] = [tx[s] EXCEPT !.working = work]]
    BY <1>0 DEF procedure_statement, Transaction
  <2>. HIDE DEF work
  <2>2. [tx[s] EXCEPT !.working = work] \in Transaction
    BY <1>b, <1>c DEF Transaction, Candidates
  <2>3. QED
    BY <1>0, <2>1, <2>2 DEF procedure_statement, Unpublished
<1>g. /\ tx'[s].mode = "procedure" /\ tx'[s].lease /\ tx'[s].working = work
      /\ tx'[s].locks = <<"Exclusive">> /\ tx'[s].saves = << >> /\ ~tx'[s].failed
      /\ tx'[s].later = tx[s].later /\ tx'[s].base = tx[s].base
  <2>. HIDE DEF work
  <2>. QED
    BY <1>a, <1>b DEF Transaction
<1>1. WritersTypeOK'
  BY <1>0, <1>a, <1>c DEF WritersTypeOK
<1>2. PhaseAgrees(s)'
  BY <1>0, <1>a, <1>b, <1>c, <1>g DEF Agrees, PhaseAgrees, Waiting, Segment, Upgrades
<1>3. CandidateAgrees(s)'
  BY <1>0, <1>a, <1>g DEF Agrees, CandidateAgrees
<1>4. StatementAgrees(s)' /\ SegmentAgrees(s)'
  BY <1>0, <1>a, <1>b, <1>c, <1>g DEF Agrees, StatementAgrees, SegmentAgrees
<1>5. LeaseIsOwnedBy(s)'
  BY <1>0, <1>a, WritersAssumption, <1>b, <1>c, <1>g DEF LeaseIsOwnedBy
<1>6. \A t \in Sessions \ {s} : Untouched(t) /\ (owner' = t <=> owner = t)
  BY <1>0, <1>a, WritersAssumption DEF Untouched, LeaseIsOwnedBy
<1>7. LocksStep(s) /\ PublishStep(s)
  BY <1>0, <1>a, <1>b, <1>g DEF LocksStep, PublishStep, Unpublished
<1>8. QED
  BY <1>1, <1>2, <1>3, <1>4, <1>5, <1>6, <1>7, StepKeeps DEF Agrees

LEMMA FinishSegmentStep ==
    ASSUME WritersInv, NEW s \in Sessions, finish_segment(s)
    PROVE  WritersInv'
<1>0. /\ WritersTypeOK /\ Agrees(s) /\ LeaseIsOwnedBy(s) /\ generation \in Nat
      /\ tx \in [Sessions -> Transaction] /\ pc \in [Sessions -> Phases]
      /\ statement \in [Sessions -> Statement]
  BY SessionFacts
<1>b. /\ tx[s].mode = "procedure" /\ pc[s] = "body" /\ tx[s] \in Transaction
      /\ tx[s].working # None /\ tx[s].working \in States /\ tx[s].base # None
      /\ ~tx[s].failed /\ tx[s].lease /\ tx[s].saves = << >>
      /\ tx[s].locks = <<"Exclusive">> /\ owner = s
  <2>1. tx[s].mode = "procedure" /\ pc[s] = "body"
    BY <1>0, BodyIsProcedure DEF finish_segment, Agrees
  <2>2. QED
    BY <1>0, <2>1 DEF Agrees, PhaseAgrees, LeaseIsOwnedBy, Transaction, Candidates
<1>c. /\ published' \in States /\ committed' \in States /\ generation' \in Nat /\ exposed' \in BOOLEAN
      /\ PublishStep(s)
  <2>0. published \in States /\ committed \in States /\ exposed \in BOOLEAN /\ Own(s) \in States
    BY <1>0, <1>b DEF WritersTypeOK, Own, States
  <2>1. CASE Unpublished
    BY <1>0, <2>0, <2>1 DEF Unpublished, PublishStep
  <2>2. CASE Publish(tx[s].working, Own(s)) /\ UNCHANGED exposed
    <3>1. ASSUME NEW t \in Sessions \ {s} PROVE tx[t].locks # <<"Exclusive">>
      BY <1>b, EmptyDomain DEF WritersInv, LocksAgree
    <3>2. QED
      BY <1>0, <1>b, <2>0, <2>2, <3>1 DEF Publish, PublishStep, States
  <2>3. QED
    BY <2>1, <2>2 DEF finish_segment
<1>a. /\ tx' = [tx EXCEPT ![s] = tx'[s]]
      /\ tx'[s] = [tx[s] EXCEPT !.locks = << >>, !.lease = FALSE]
      /\ tx'[s] \in Transaction
      /\ owner' = None /\ pc' = [pc EXCEPT ![s] = "between"]
      /\ UNCHANGED <<statement, effects>>
  BY <1>0, <1>b DEF finish_segment, Goto, Transaction, LockLists
<1>g. /\ tx'[s].mode = "procedure" /\ ~tx'[s].lease /\ tx'[s].working = tx[s].working
      /\ tx'[s].locks = << >> /\ tx'[s].saves = << >> /\ ~tx'[s].failed
      /\ tx'[s].later = tx[s].later
  BY <1>a, <1>b DEF Transaction
<1>1. WritersTypeOK'
  BY <1>0, <1>a, <1>c DEF WritersTypeOK, Phases, Segment
<1>2. PhaseAgrees(s)'
  BY <1>0, <1>a, <1>b, <1>g DEF Agrees, PhaseAgrees, Waiting, Segment, Waiting, Upgrades
<1>3. CandidateAgrees(s)'
  BY <1>0, <1>a, <1>g DEF Agrees, CandidateAgrees
<1>4. StatementAgrees(s)' /\ SegmentAgrees(s)'
  BY <1>0, <1>a, <1>b, <1>g DEF Agrees, StatementAgrees, SegmentAgrees
<1>5. LeaseIsOwnedBy(s)'
  BY <1>0, <1>a, WritersAssumption, <1>b, <1>g DEF LeaseIsOwnedBy
<1>6. \A t \in Sessions \ {s} : Untouched(t) /\ (owner' = t <=> owner = t)
  BY <1>0, <1>a, WritersAssumption, <1>b DEF Untouched, LeaseIsOwnedBy
<1>7. LocksStep(s) /\ PublishStep(s)
  BY <1>0, <1>a, <1>c, <1>g DEF LocksStep, PublishStep, Unpublished
<1>8. QED
  BY <1>1, <1>2, <1>3, <1>4, <1>5, <1>6, <1>7, StepKeeps DEF Agrees

LEMMA CopyBaseStep ==
    ASSUME WritersInv, NEW s \in Sessions, copy_base(s)
    PROVE  WritersInv'
<1>0. /\ WritersTypeOK /\ Agrees(s) /\ LeaseIsOwnedBy(s) /\ generation \in Nat
      /\ tx \in [Sessions -> Transaction] /\ pc \in [Sessions -> Phases]
      /\ statement \in [Sessions -> Statement]
  BY SessionFacts
<1>b. /\ tx[s].mode = "procedure" /\ pc[s] = "between" /\ tx[s] \in Transaction
      /\ ~tx[s].failed /\ ~tx[s].lease /\ tx[s].saves = << >> /\ tx[s].locks = << >>
      /\ published \in States /\ published # None
  <2>1. tx[s].mode = "procedure" /\ pc[s] = "between"
    BY <1>0 DEF copy_base, Agrees, PhaseAgrees, Transaction, Waiting
  <2>2. QED
    BY <1>0, <2>1, WritersAssumption DEF Agrees, PhaseAgrees, WritersTypeOK
<1>a. /\ tx' = [tx EXCEPT ![s] = tx'[s]]
      /\ tx'[s] = [tx[s] EXCEPT !.base = published, !.working = published, !.later = TRUE]
      /\ tx'[s] \in Transaction /\ pc' = [pc EXCEPT ![s] = "start"]
      /\ UNCHANGED <<owner, statement, effects, published, generation, committed, exposed>>
  BY <1>0, <1>b DEF copy_base, Goto, Unpublished, Transaction, Candidates
<1>g. /\ tx'[s].mode = "procedure" /\ ~tx'[s].lease /\ tx'[s].working = published
      /\ tx'[s].locks = << >> /\ tx'[s].saves = << >> /\ ~tx'[s].failed
      /\ tx'[s].later
  BY <1>a, <1>b DEF Transaction
<1>1. WritersTypeOK'
  BY <1>0, <1>a DEF WritersTypeOK, Phases, Segment
<1>2. PhaseAgrees(s)'
  BY <1>0, <1>a, <1>b, <1>g DEF Agrees, PhaseAgrees, Waiting, Segment, Waiting, Upgrades
<1>3. CandidateAgrees(s)'
  BY <1>0, <1>a, <1>g DEF Agrees, CandidateAgrees
<1>4. StatementAgrees(s)' /\ SegmentAgrees(s)'
  BY <1>0, <1>a, <1>b, <1>g DEF Agrees, StatementAgrees, SegmentAgrees
<1>5. LeaseIsOwnedBy(s)'
  BY <1>0, <1>a, WritersAssumption, <1>b, <1>g DEF LeaseIsOwnedBy
<1>6. \A t \in Sessions \ {s} : Untouched(t) /\ (owner' = t <=> owner = t)
  BY <1>0, <1>a, WritersAssumption DEF Untouched, LeaseIsOwnedBy
<1>7. LocksStep(s) /\ PublishStep(s)
  BY <1>0, <1>a, <1>g DEF LocksStep, PublishStep, Unpublished
<1>8. QED
  BY <1>1, <1>2, <1>3, <1>4, <1>5, <1>6, <1>7, StepKeeps DEF Agrees

LEMMA ProcedureEndsStep ==
    ASSUME WritersInv, NEW s \in Sessions, procedure_ends(s)
    PROVE  WritersInv'
<1>0. /\ WritersTypeOK /\ Agrees(s) /\ LeaseIsOwnedBy(s) /\ generation \in Nat
      /\ tx \in [Sessions -> Transaction] /\ pc \in [Sessions -> Phases]
      /\ statement \in [Sessions -> Statement]
  BY SessionFacts
<1>b. tx[s].mode = "procedure" /\ tx[s] \in Transaction /\ pc[s] \in Segment
  BY <1>0 DEF procedure_ends, Agrees, PhaseAgrees
<1>c. /\ published' \in States /\ committed' \in States /\ generation' \in Nat /\ exposed' \in BOOLEAN
      /\ PublishStep(s)
  <2>0. published \in States /\ committed \in States /\ exposed \in BOOLEAN
    BY <1>0 DEF WritersTypeOK
  <2>1. CASE Unpublished
    BY <1>0, <2>0, <2>1 DEF Unpublished, PublishStep
  <2>2. CASE pc[s] = "body" /\ Publish(tx[s].working, Own(s)) /\ UNCHANGED exposed
    <3>1. tx[s].working \in States /\ tx[s].locks = <<"Exclusive">> /\ Own(s) \in States
      BY <1>0, <1>b, <2>2 DEF Agrees, PhaseAgrees, Transaction, Candidates, Own, States
    <3>2. ASSUME NEW t \in Sessions \ {s} PROVE tx[t].locks # <<"Exclusive">>
      BY <3>1, EmptyDomain DEF WritersInv, LocksAgree
    <3>3. QED
      BY <1>0, <1>b, <2>0, <2>2, <3>1, <3>2 DEF Publish, PublishStep, States
  <2>3. QED
    BY <2>1, <2>2 DEF procedure_ends
<1>a. /\ tx' = [tx EXCEPT ![s] = Idle] /\ Idle \in Transaction
      /\ tx'[s] = Idle /\ owner' = (IF tx[s].lease THEN None ELSE owner)
      /\ pc' = [pc EXCEPT ![s] = "ready"]
      /\ UNCHANGED <<statement, effects>>
  BY <1>0, IdleIsTransaction DEF procedure_ends, Reset, ReleaseLease, Goto
<1>1. WritersTypeOK'
  BY <1>0, <1>a, <1>c DEF WritersTypeOK, Idle, Phases
<1>2. PhaseAgrees(s)'
  BY <1>0, <1>a DEF Agrees, PhaseAgrees, Waiting, Idle, Upgrades
<1>3. CandidateAgrees(s)'
  BY <1>0, <1>a DEF Agrees, CandidateAgrees, Idle
<1>4. StatementAgrees(s)' /\ SegmentAgrees(s)'
  BY <1>0, <1>a DEF Agrees, StatementAgrees, SegmentAgrees, Idle
<1>5. LeaseIsOwnedBy(s)'
  BY <1>0, <1>a, WritersAssumption, <1>b DEF LeaseIsOwnedBy, Idle, Segment
<1>6. \A t \in Sessions \ {s} : Untouched(t) /\ (owner' = t <=> owner = t)
  BY <1>0, <1>a, WritersAssumption, <1>b DEF Untouched, LeaseIsOwnedBy, Idle, Segment
<1>7. LocksStep(s) /\ PublishStep(s)
  BY <1>0, <1>a, <1>c DEF LocksStep, PublishStep, Unpublished, Idle
<1>8. QED
  BY <1>1, <1>2, <1>3, <1>4, <1>5, <1>6, <1>7, StepKeeps DEF Agrees

(***************************************************************************)
(* The theorems.                                                           *)
(***************************************************************************)
LEMMA WritersStep == WritersInv /\ [Next]_vars => WritersInv'
<1>. SUFFICES ASSUME WritersInv, [Next]_vars PROVE WritersInv'
  OBVIOUS
<1>1. CASE UNCHANGED vars
  BY <1>1 DEF vars, WritersInv, WritersTypeOK, Agrees, PhaseAgrees, CandidateAgrees, StatementAgrees,
     SegmentAgrees, SavepointAgrees, FromBase, Replaces, Grows, Upgrades, LocksAgree, LeaseIsOwned
<1>2. CASE Next
  <2>1. CASE Finished
    BY <1>1, <2>1 DEF Finished
  <2>2. ASSUME NEW s \in Sessions,
               \/ begin_sql_transaction(s) \/ create_sql_savepoint(s) \/ rollback_to_sql_savepoint(s)
               \/ release_sql_savepoint(s) \/ rollback_sql_transaction(s) \/ dml_statement(s)
               \/ dml_locked(s) \/ statement_fails(s) \/ ddl_statement(s)
               \/ ddl_locked(s) \/ upgrade_dml_candidate(s) \/ upgrade_locked(s)
               \/ upgrade_fails(s) \/ commit_sql_transaction(s) \/ commit_fails(s)
               \/ auto_dml(s) \/ auto_exclusive(s) \/ auto_exclusive_ends(s)
               \/ start_segment(s) \/ segment_locked(s) \/ procedure_statement(s)
               \/ finish_segment(s) \/ copy_base(s) \/ procedure_ends(s)
        PROVE  WritersInv'
    <3>1. CASE begin_sql_transaction(s) \/ create_sql_savepoint(s) \/ rollback_to_sql_savepoint(s)
             \/ release_sql_savepoint(s) \/ rollback_sql_transaction(s) \/ dml_statement(s)
      BY <3>1, BeginStep, CreateSavepointStep, RollbackToSavepointStep, ReleaseSavepointStep, RollbackStep, DmlStatementStep
    <3>2. CASE dml_locked(s) \/ statement_fails(s) \/ ddl_statement(s)
             \/ ddl_locked(s) \/ upgrade_dml_candidate(s) \/ upgrade_locked(s)
      BY <3>2, DmlLockedStep, StatementFailsStep, DdlStatementStep, DdlLockedStep, UpgradeStep, UpgradeLockedStep
    <3>3. CASE upgrade_fails(s) \/ commit_sql_transaction(s) \/ commit_fails(s)
             \/ auto_dml(s) \/ auto_exclusive(s) \/ auto_exclusive_ends(s)
      BY <3>3, UpgradeFailsStep, CommitStep, CommitFailsStep, AutoDmlStep, AutoExclusiveStep, AutoExclusiveEndsStep
    <3>4. CASE start_segment(s) \/ segment_locked(s) \/ procedure_statement(s)
             \/ finish_segment(s) \/ copy_base(s) \/ procedure_ends(s)
      BY <3>4, StartSegmentStep, SegmentLockedStep, ProcedureStatementStep, FinishSegmentStep, CopyBaseStep, ProcedureEndsStep
    <3>5. QED
      BY <2>2, <3>1, <3>2, <3>3, <3>4
  <2>3. QED
    BY <1>2, <2>1, <2>2 DEF Next
<1>3. QED
  BY <1>1, <1>2

LEMMA WritersInvariant == Spec => []WritersInv
<1>1. QED
  BY WritersInitially, WritersStep, PTL DEF Spec

\* The state of the coordinator, of every transaction with its savepoints, locks
\* and snapshots, and of every procedure stays of its type (session_transactions.rs,
\* procedure_transactions.rs).
THEOREM WritersTypeCorrect == Spec => []WritersTypeOK
<1>1. WritersInv => WritersTypeOK
  BY DEF WritersInv
<1>2. QED
  BY <1>1, WritersInvariant, PTL

\* The writer lease: WriterCoordinator names exactly the session that holds it,
\* through upgrades, rollbacks to a savepoint, procedure segments and every
\* failure, and no lease is kept past its work.
THEOREM LeaseIsAlwaysOwned == Spec => []LeaseIsOwned
<1>1. WritersInv => LeaseIsOwned
  BY DEF WritersInv
<1>2. QED
  BY <1>1, WritersInvariant, PTL

\* LockKey::Database excludes: a session that has it in Exclusive mode is alone,
\* however the locks were let go and taken again.
THEOREM ExclusiveIsAlone == Spec => []LocksAgree
<1>1. WritersInv => LocksAgree
  BY DEF WritersInv
<1>2. QED
  BY <1>1, WritersInvariant, PTL

LEMMA PublishingKeeps ==
    ASSUME WritersInv, [Next]_vars, ~exposed, \A s \in Sessions : ~tx[s].later
    PROVE  published \subseteq published'
<1>1. CASE Finished \/ UNCHANGED vars
  BY <1>1 DEF Finished, vars
<1>2. ASSUME NEW s \in Sessions, Unpublished PROVE published \subseteq published'
  BY <1>2 DEF Unpublished
<1>3. ASSUME NEW s \in Sessions, commit_sql_transaction(s) PROVE published \subseteq published'
  <2>1. CASE tx[s].working = None
    BY <1>3, <2>1 DEF commit_sql_transaction, Unpublished
  <2>2. CASE tx[s].working # None /\ tx[s].dml_only
    BY <1>3, <2>2 DEF commit_sql_transaction, Publish, Merge
  <2>3. CASE tx[s].working # None /\ ~tx[s].dml_only
    <3>1. Replaces(tx[s])
      BY <1>3 DEF WritersInv, Agrees, CandidateAgrees, commit_sql_transaction, Active
    <3>2. QED
      BY <1>3, <2>3, <3>1 DEF commit_sql_transaction, Publish, Replaces
  <2>4. QED
    BY <2>1, <2>2, <2>3
<1>4. ASSUME NEW s \in Sessions, auto_dml(s) PROVE published \subseteq published'
  BY <1>4 DEF auto_dml, Publish
<1>5. ASSUME NEW s \in Sessions, auto_exclusive_ends(s) PROVE published \subseteq published'
  BY <1>5 DEF auto_exclusive_ends, Publish, Unpublished
<1>6. ASSUME NEW s \in Sessions, finish_segment(s) \/ procedure_ends(s)
      PROVE  published \subseteq published'
  <2>1. SegmentAgrees(s)
    BY DEF WritersInv, Agrees
  <2>2. QED
    BY <1>6, <2>1 DEF finish_segment, procedure_ends, Publish, Unpublished, SegmentAgrees
<1>7. ASSUME NEW s \in Sessions,
             \/ begin_sql_transaction(s) \/ create_sql_savepoint(s) \/ rollback_to_sql_savepoint(s)
             \/ release_sql_savepoint(s) \/ rollback_sql_transaction(s) \/ dml_statement(s)
             \/ dml_locked(s) \/ statement_fails(s) \/ ddl_statement(s)
             \/ ddl_locked(s) \/ upgrade_dml_candidate(s) \/ upgrade_locked(s)
             \/ upgrade_fails(s) \/ commit_fails(s) \/ auto_exclusive(s)
             \/ start_segment(s) \/ segment_locked(s) \/ procedure_statement(s)
             \/ copy_base(s)
      PROVE  Unpublished
  BY <1>7 DEF begin_sql_transaction, create_sql_savepoint, rollback_to_sql_savepoint, release_sql_savepoint,
     rollback_sql_transaction, dml_statement, dml_locked, statement_fails,
     ddl_statement, ddl_locked, upgrade_dml_candidate, upgrade_locked,
     upgrade_fails, commit_fails, auto_exclusive, start_segment,
     segment_locked, procedure_statement, copy_base, lease_refused
<1>8. QED
  BY <1>1, <1>2, <1>3, <1>4, <1>5, <1>6, <1>7 DEF Next

\* Merged or replaced, what was published stays published: persist_candidate never
\* takes away what an earlier commit wrote, but for the two cases the property
\* names.
THEOREM PublishingIsMonotone == Spec => PublishKeepsCommitted
<1>1. WritersInv /\ [Next]_vars =>
        [\/ published \subseteq published'
         \/ exposed
         \/ \E s \in Sessions : tx[s].later]_vars
  BY PublishingKeeps
<1>2. QED
  BY <1>1, WritersInvariant, PTL DEF Spec, PublishKeepsCommitted
=============================================================================
