---------------------------- MODULE SessionsProofs ----------------------------
(***************************************************************************)
(* Proofs about StorageGate, for every finite set of threads, and about    *)
(* Sessions, for every finite set of clients and every bound.              *)
(*                                                                         *)
(* GateInv is inductive: WriterIsAlone needs the counters to be the        *)
(* leases, because the code tests counters, and SleepersAreBlocked needs   *)
(* both.                                                                   *)
(*                                                                         *)
(* A session uses the storage gate only through its operations, so every   *)
(* step of Sessions is a step of the gate or leaves it alone, and what is  *)
(* shown of the gate holds for sessions.  The stability of streams rests   *)
(* on it: pages are published by the holder of the write lease only, and   *)
(* the write lease is never held next to a read lease.                     *)
(***************************************************************************)
EXTENDS Sessions, FiniteSetTheorems, TLAPS

\* The gate.

GateInv ==
    /\ GateTypeOK
    /\ LeasesAreCounted
    /\ WriterIsAlone
    /\ SleepersAreBlocked

(***************************************************************************)
(* A thread that moves from one place to another leaves every other place  *)
(* as it was, and changes the two head counts by one.                      *)
(***************************************************************************)
LEMMA MoveCounts ==
    ASSUME GateTypeOK, NEW t \in Threads, NEW p \in Places, NEW q \in Places,
           at[t] = p, p # q, at' = [at EXCEPT ![t] = q]
    PROVE  /\ At(p)' = At(p) \ {t}
           /\ At(q)' = At(q) \union {t}
           /\ \A r \in Places \ {p, q} : At(r)' = At(r)
           /\ Cardinality(At(p)) \in Nat /\ Cardinality(At(q)) \in Nat
           /\ Cardinality(At(p)') = Cardinality(At(p)) - 1
           /\ Cardinality(At(q)') = Cardinality(At(q)) + 1
<1>1. /\ At(p)' = At(p) \ {t}
      /\ At(q)' = At(q) \union {t}
      /\ \A r \in Places \ {p, q} : At(r)' = At(r)
  BY DEF At, GateTypeOK
<1>2. /\ IsFiniteSet(At(p)) /\ IsFiniteSet(At(q))
  <2>1. At(p) \subseteq Threads /\ At(q) \subseteq Threads
    BY DEF At
  <2>2. QED
    BY <2>1, GateAssumption, FS_Subset
<1>3. t \in At(p) /\ t \notin At(q)
  BY DEF At
<1>4. /\ Cardinality(At(p)) \in Nat /\ Cardinality(At(q)) \in Nat
  BY <1>2, FS_CardinalityType
<1>5. Cardinality(At(p)') = Cardinality(At(p)) - 1
  BY <1>1, <1>2, <1>3, FS_RemoveElement
<1>6. Cardinality(At(q)') = Cardinality(At(q)) + 1
  BY <1>1, <1>2, <1>3, FS_AddElement
<1>7. QED
  BY <1>1, <1>4, <1>5, <1>6

(***************************************************************************)
(* A place is empty exactly when its head count is zero.                   *)
(***************************************************************************)
LEMMA CountIsZero ==
    ASSUME NEW p \in Places
    PROVE  Cardinality(At(p)) \in Nat /\ (Cardinality(At(p)) = 0 <=> At(p) = {})
<1>1. IsFiniteSet(At(p))
  BY GateAssumption, FS_Subset DEF At
<1>2. QED
  BY <1>1, FS_CardinalityType, FS_EmptySet

LEMMA GateInitially == GateInit => GateInv
<1>. SUFFICES ASSUME GateInit PROVE GateInv
  OBVIOUS
<1>1. \A p \in Places \ {"out"} : At(p) = {}
  BY DEF GateInit, At
<1>2. Cardinality({}) = 0
  BY FS_EmptySet
<1>3. At("reading") = {} /\ At("writing") = {} /\ At("wait_write") = {} /\ At("wait_read") = {}
  BY <1>1 DEF Places
<1>4. GateTypeOK
  BY DEF GateInit, GateTypeOK, Places
<1>5. LeasesAreCounted /\ WriterIsAlone /\ SleepersAreBlocked
  BY <1>2, <1>3 DEF GateInit, LeasesAreCounted, WriterIsAlone, SleepersAreBlocked
<1>6. QED
  BY <1>4, <1>5 DEF GateInv

(***************************************************************************)
(* The two ways a lease begins, from "out" or from a wait.                 *)
(***************************************************************************)
LEMMA ReadGranted ==
    ASSUME GateInv, NEW t \in Threads, at[t] \in {"out", "wait_read"},
           ~ReadBlocked, t \notin asleep, read_granted(t)
    PROVE  GateInv'
<1>. USE DEF read_granted
<1>1. at' = [at EXCEPT ![t] = "reading"] /\ "reading" \in Places /\ at[t] \in Places
  BY DEF Places
<1>2. /\ At("reading")' = At("reading") \union {t}
      /\ Cardinality(At("reading")') = Cardinality(At("reading")) + 1
      /\ At("writing")' = At("writing") /\ At("wait_write")' = At("wait_write")
      /\ At("wait_read")' = At("wait_read") \ {t}
  <2>1. CASE at[t] = "out"
    <3>1. t \notin At("wait_read")
      BY <2>1 DEF At
    <3>2. /\ \A r \in Places \ {"out", "reading"} : At(r)' = At(r)
          /\ At("reading")' = At("reading") \union {t}
          /\ Cardinality(At("reading")') = Cardinality(At("reading")) + 1
      <4>1. GateTypeOK /\ "out" \in Places
        BY DEF GateInv, Places
      <4>2. QED
        BY <1>1, <2>1, <4>1, MoveCounts
    <3>3. QED
      BY <3>1, <3>2 DEF Places
  <2>2. CASE at[t] = "wait_read"
    BY <1>1, <2>2, MoveCounts DEF GateInv, Places
  <2>3. QED
    BY <2>1, <2>2
<1>3. At("writing") = {}
  BY DEF GateInv, LeasesAreCounted, ReadBlocked
<1>4. GateTypeOK'
  BY <1>1 DEF GateInv, GateTypeOK
<1>5. LeasesAreCounted'
  BY <1>2 DEF GateInv, LeasesAreCounted
<1>6. WriterIsAlone'
  BY <1>2, <1>3 DEF WriterIsAlone
<1>7. SleepersAreBlocked'
  <2>1. asleep \intersect At("wait_read") = {}
    BY DEF GateInv, SleepersAreBlocked
  <2>2. (asleep' \intersect At("wait_write")') # {} => WriteBlocked'
    BY <1>2 DEF GateInv, GateTypeOK, WriteBlocked
  <2>3. asleep' \subseteq At("wait_read")' \union At("wait_write")'
    BY <1>2 DEF GateInv, SleepersAreBlocked
  <2>4. QED
    BY <1>2, <2>1, <2>2, <2>3 DEF SleepersAreBlocked
<1>8. QED
  BY <1>4, <1>5, <1>6, <1>7 DEF GateInv

LEMMA WriteGranted ==
    ASSUME GateInv, NEW t \in Threads, NEW w \in Nat,
           \/ at[t] = "out" /\ w = waiting_writers + 1
           \/ at[t] = "wait_write" /\ w = waiting_writers,
           ~WriteBlocked, t \notin asleep, write_granted(t, w)
    PROVE  GateInv'
<1>. USE DEF write_granted
<1>1. at' = [at EXCEPT ![t] = "writing"] /\ "writing" \in Places /\ at[t] \in Places
  BY DEF Places
<1>2. At("reading") = {} /\ At("writing") = {}
  BY CountIsZero DEF GateInv, LeasesAreCounted, WriteBlocked, Places, GateTypeOK
<1>3. /\ At("writing")' = {t}
      /\ At("reading")' = {} /\ At("wait_read")' = At("wait_read")
      /\ At("wait_write")' = At("wait_write") \ {t}
      /\ waiting_writers' = Cardinality(At("wait_write")')
  <2>1. CASE at[t] = "out" /\ w = waiting_writers + 1
    <3>1. t \notin At("wait_write")
      BY <2>1 DEF At
    <3>2. /\ \A r \in Places \ {"out", "writing"} : At(r)' = At(r)
          /\ At("writing")' = At("writing") \union {t}
      <4>1. GateTypeOK /\ "out" \in Places
        BY DEF GateInv, Places
      <4>2. QED
        BY <1>1, <2>1, <4>1, MoveCounts
    <3>3. waiting_writers' = Cardinality(At("wait_write"))
      BY <2>1 DEF GateInv, GateTypeOK, LeasesAreCounted
    <3>4. QED
      BY <1>2, <3>1, <3>2, <3>3 DEF Places
  <2>2. CASE at[t] = "wait_write" /\ w = waiting_writers
    BY <1>1, <1>2, <2>2, MoveCounts DEF GateInv, Places, LeasesAreCounted
  <2>3. QED
    BY <2>1, <2>2
<1>4. Cardinality(At("wait_write")') \in Nat
  <2>1. IsFiniteSet(At("wait_write")')
    BY GateAssumption, FS_Subset DEF At
  <2>2. QED
    BY <2>1, FS_CardinalityType
<1>5. GateTypeOK'
  BY <1>1, <1>3, <1>4 DEF GateInv, GateTypeOK
<1>6. LeasesAreCounted'
  BY <1>2, <1>3 DEF GateInv, LeasesAreCounted
<1>7. WriterIsAlone'
  BY <1>3 DEF WriterIsAlone
<1>8. SleepersAreBlocked'
  BY <1>3 DEF GateInv, SleepersAreBlocked, ReadBlocked, WriteBlocked
<1>9. QED
  BY <1>5, <1>6, <1>7, <1>8 DEF GateInv

(***************************************************************************)
(* The invariant is inductive: one step per action.                        *)
(***************************************************************************)
LEMMA GateStep == GateInv /\ [GateNext]_gateVars => GateInv'
<1>. SUFFICES ASSUME GateInv, [GateNext]_gateVars PROVE GateInv'
  OBVIOUS
<1>. USE DEF GateInv
<1>1. CASE UNCHANGED gateVars
  BY <1>1 DEF gateVars, GateTypeOK, LeasesAreCounted, WriterIsAlone, SleepersAreBlocked,
     At, ReadBlocked, WriteBlocked
<1>2. ASSUME NEW t \in Threads, acquire_read(t) PROVE GateInv'
  <2>0. t \notin asleep
    BY <1>2 DEF acquire_read, SleepersAreBlocked, At
  <2>1. CASE ~ReadBlocked
    BY <1>2, <2>0, <2>1, ReadGranted DEF acquire_read
  <2>2. CASE ReadBlocked
    <3>1. /\ At("wait_read")' = At("wait_read") \union {t}
          /\ At("reading")' = At("reading") /\ At("writing")' = At("writing")
          /\ At("wait_write")' = At("wait_write")
      BY <1>2, <2>2, MoveCounts DEF acquire_read, Places
    <3>2. GateTypeOK'
      BY <1>2, <2>2 DEF acquire_read, GateTypeOK, Places
    <3>3. LeasesAreCounted' /\ WriterIsAlone'
      BY <1>2, <2>2, <3>1 DEF acquire_read, LeasesAreCounted, WriterIsAlone
    <3>4. SleepersAreBlocked'
      <4>1. ReadBlocked' /\ (WriteBlocked' <=> WriteBlocked)
        BY <1>2, <2>2 DEF acquire_read, ReadBlocked, WriteBlocked
      <4>2. asleep' = asleep \union {t}
        BY <1>2, <2>2 DEF acquire_read
      <4>3. t \notin At("wait_write")
        BY <1>2 DEF acquire_read, At
      <4>4. QED
        BY <3>1, <4>1, <4>2, <4>3 DEF SleepersAreBlocked
    <3>5. QED
      BY <3>2, <3>3, <3>4
  <2>3. QED
    BY <2>1, <2>2
<1>3. ASSUME NEW t \in Threads, read_woken(t) PROVE GateInv'
  <2>1. CASE ~ReadBlocked
    BY <1>3, <2>1, ReadGranted DEF read_woken
  <2>2. CASE ReadBlocked
    <3>1. t \in At("wait_read")
      BY <1>3 DEF read_woken, At
    <3>2. \A p \in Places : At(p)' = At(p)
      BY <1>3, <2>2 DEF read_woken, At
    <3>3. GateTypeOK'
      BY <1>3, <2>2 DEF read_woken, GateTypeOK
    <3>4. LeasesAreCounted' /\ WriterIsAlone'
      BY <1>3, <2>2, <3>2 DEF read_woken, LeasesAreCounted, WriterIsAlone, Places
    <3>5. SleepersAreBlocked'
      <4>1. ReadBlocked' /\ (WriteBlocked' <=> WriteBlocked)
        BY <1>3, <2>2 DEF read_woken, ReadBlocked, WriteBlocked
      <4>2. asleep' = asleep \union {t} /\ t \notin At("wait_write")
        BY <1>3, <2>2 DEF read_woken, At
      <4>3. QED
        BY <3>1, <3>2, <4>1, <4>2 DEF SleepersAreBlocked, Places
    <3>6. QED
      BY <3>3, <3>4, <3>5
  <2>3. QED
    BY <2>1, <2>2
<1>4. ASSUME NEW t \in Threads, acquire_write(t) PROVE GateInv'
  <2>0. t \notin asleep
    BY <1>4 DEF acquire_write, SleepersAreBlocked, At
  <2>1. CASE ~WriteBlocked
    <3>1. at[t] = "out" /\ waiting_writers + 1 \in Nat /\ write_granted(t, waiting_writers + 1)
      BY <1>4, <2>1 DEF acquire_write, GateTypeOK
    <3>2. QED
      BY <2>0, <2>1, <3>1, WriteGranted
  <2>2. CASE WriteBlocked
    <3>1. /\ At("wait_write")' = At("wait_write") \union {t}
          /\ Cardinality(At("wait_write")') = Cardinality(At("wait_write")) + 1
          /\ At("reading")' = At("reading") /\ At("writing")' = At("writing")
          /\ At("wait_read")' = At("wait_read")
      BY <1>4, <2>2, MoveCounts DEF acquire_write, Places
    <3>2. GateTypeOK'
      BY <1>4, <2>2 DEF acquire_write, GateTypeOK, Places
    <3>3. LeasesAreCounted' /\ WriterIsAlone'
      BY <1>4, <2>2, <3>1 DEF acquire_write, LeasesAreCounted, WriterIsAlone
    <3>4. SleepersAreBlocked'
      BY <1>4, <2>2, <3>1 DEF acquire_write, SleepersAreBlocked, ReadBlocked, WriteBlocked, GateTypeOK
    <3>5. QED
      BY <3>2, <3>3, <3>4
  <2>3. QED
    BY <2>1, <2>2
<1>5. ASSUME NEW t \in Threads, write_woken(t) PROVE GateInv'
  <2>1. CASE ~WriteBlocked
    <3>1. at[t] = "wait_write" /\ waiting_writers \in Nat /\ write_granted(t, waiting_writers)
      BY <1>5, <2>1 DEF write_woken, GateTypeOK
    <3>2. QED
      BY <1>5, <2>1, <3>1, WriteGranted DEF write_woken
  <2>2. CASE WriteBlocked
    <3>1. t \in At("wait_write")
      BY <1>5 DEF write_woken, At
    <3>2. \A p \in Places : At(p)' = At(p)
      BY <1>5, <2>2 DEF write_woken, At
    <3>3. GateTypeOK'
      BY <1>5, <2>2 DEF write_woken, GateTypeOK
    <3>4. LeasesAreCounted' /\ WriterIsAlone'
      BY <1>5, <2>2, <3>2 DEF write_woken, LeasesAreCounted, WriterIsAlone, Places
    <3>5. SleepersAreBlocked'
      <4>1. WriteBlocked' /\ (ReadBlocked' <=> ReadBlocked)
        BY <1>5, <2>2 DEF write_woken, ReadBlocked, WriteBlocked
      <4>2. asleep' = asleep \union {t} /\ t \notin At("wait_read")
        BY <1>5, <2>2 DEF write_woken, At
      <4>3. QED
        BY <3>1, <3>2, <4>1, <4>2 DEF SleepersAreBlocked, Places
    <3>6. QED
      BY <3>3, <3>4, <3>5
  <2>3. QED
    BY <2>1, <2>2
<1>6. ASSUME NEW t \in Threads, drop_read(t) PROVE GateInv'
  <2>1. /\ At("reading")' = At("reading") \ {t}
        /\ Cardinality(At("reading")) \in Nat
        /\ Cardinality(At("reading")') = Cardinality(At("reading")) - 1
        /\ At("writing")' = At("writing") /\ At("wait_write")' = At("wait_write")
    BY <1>6, MoveCounts DEF drop_read, Places
  <2>2. At("reading") # {}
    BY <1>6 DEF drop_read, At
  <2>3. active_readers > 0 /\ active_readers' = active_readers - 1
    BY <1>6, <2>2, CountIsZero DEF drop_read, LeasesAreCounted, Places
  <2>4. GateTypeOK'
    BY <1>6, <2>3 DEF drop_read, GateTypeOK, Places
  <2>5. LeasesAreCounted'
    BY <1>6, <2>1, <2>3 DEF drop_read, LeasesAreCounted
  <2>6. WriterIsAlone'
    <3>1. At("writing") = {}
      BY <1>6 DEF WriterIsAlone, At, drop_read
    <3>2. QED
      BY <2>1, <3>1 DEF WriterIsAlone
  <2>7. SleepersAreBlocked'
    BY <1>6 DEF drop_read, SleepersAreBlocked
  <2>8. QED
    BY <2>4, <2>5, <2>6, <2>7
<1>7. ASSUME NEW t \in Threads, drop_write(t) PROVE GateInv'
  <2>1. /\ At("writing")' = At("writing") \ {t}
        /\ At("reading")' = At("reading") /\ At("wait_write")' = At("wait_write")
    BY <1>7, MoveCounts DEF drop_write, Places
  <2>2. At("writing") = {t}
    BY <1>7 DEF drop_write, WriterIsAlone, At
  <2>3. GateTypeOK'
    BY <1>7 DEF drop_write, GateTypeOK, Places
  <2>4. LeasesAreCounted' /\ WriterIsAlone'
    BY <1>7, <2>1, <2>2 DEF drop_write, LeasesAreCounted, WriterIsAlone
  <2>5. SleepersAreBlocked'
    BY <1>7 DEF drop_write, SleepersAreBlocked
  <2>6. QED
    BY <2>3, <2>4, <2>5
<1>8. QED
  BY <1>1, <1>2, <1>3, <1>4, <1>5, <1>6, <1>7 DEF GateNext

\* The state of the gate stays well typed (GateTypeOK).
THEOREM GateTypeCorrect == GateSpec => []GateTypeOK
<1>1. GateInv => GateTypeOK
  BY DEF GateInv
<1>2. QED
  BY <1>1, GateInitially, GateStep, PTL DEF GateSpec

\* No page is written while a stream reads it, for any number of threads
\* (acquire_read, acquire_write and the drops of the two leases).
THEOREM WriterAlwaysAlone == GateSpec => [](WriterIsAlone /\ LeasesAreCounted)
<1>1. GateInv => WriterIsAlone /\ LeasesAreCounted
  BY DEF GateInv
<1>2. QED
  BY <1>1, GateInitially, GateStep, PTL DEF GateSpec

\* No wakeup is lost, for any number of threads: notify_all in the two drops is
\* enough.
THEOREM NoLostWakeup == GateSpec => []SleepersAreBlocked
<1>1. GateInv => SleepersAreBlocked
  BY DEF GateInv
<1>2. QED
  BY <1>1, GateInitially, GateStep, PTL DEF GateSpec

-----------------------------------------------------------------------------
\* The sessions.

Phases == {"idle", "opening", "commit_state", "commit_gate", "persisted", "checkpoint", "notify"}

SessionsTypeOK ==
    /\ pc \in [Clients -> Phases]
    /\ generation \in Nat
    /\ snapshot \in [Clients -> Nat]
    /\ committed \in [Clients -> Nat]

SessionsInv ==
    /\ SessionsTypeOK
    /\ GateInv
    /\ StreamsAreStable

LEMMA SessionThreads ==
    ASSUME NEW s \in Clients
    PROVE  Statement(s) \in Threads /\ Stream(s) \in Threads
BY SessionsAssumption DEF Statement, Stream

(***************************************************************************)
(* What a session does to the gate is an operation of the gate.            *)
(***************************************************************************)
LEMMA GateIsRefined == Next => [GateNext]_gateVars
<1>. SUFFICES ASSUME Next PROVE [GateNext]_gateVars
  OBVIOUS
<1>1. ASSUME NEW s \in Clients, Run(s) PROVE [GateNext]_gateVars
  <2>. Statement(s) \in Threads /\ Stream(s) \in Threads
    BY SessionThreads
  <2>1. CASE take_read_lease(s)
    BY <2>1 DEF take_read_lease, GateNext
  <2>2. CASE open_cursor(s)
    BY <2>2 DEF open_cursor, GateNext
  <2>3. CASE take_write_lease(s)
    BY <2>3 DEF take_write_lease, GateNext
  <2>4. CASE persist_candidate(s)
    BY <2>4 DEF persist_candidate, GateNext
  <2>5. CASE lock_state(s) \/ unlock_state(s) \/ checkpoint(s) \/ hand_over(s)
    BY <2>5 DEF lock_state, unlock_state, checkpoint, hand_over
  <2>6. QED
    BY <1>1, <2>1, <2>2, <2>3, <2>4, <2>5 DEF Run
<1>2. ASSUME NEW s \in Clients, Request(s) PROVE [GateNext]_gateVars
  <2>. Stream(s) \in Threads
    BY SessionThreads
  <2>1. CASE close_stream(s)
    BY <2>1 DEF close_stream, GateNext
  <2>2. CASE ~close_stream(s)
    BY <1>2, <2>2 DEF Request, select, collect, rollback, commit_begins, commit_empty,
       deliver, disconnect, connect
  <2>3. QED
    BY <2>1, <2>2
<1>3. Finished => UNCHANGED gateVars
  BY DEF Finished, vars
<1>4. QED
  BY <1>1, <1>2, <1>3 DEF Next

LEMMA SessionsInitially == Init => SessionsInv
<1>. SUFFICES ASSUME Init PROVE SessionsInv
  OBVIOUS
<1>1. GateInv
  BY GateInitially DEF Init
<1>2. SessionsTypeOK
  BY DEF Init, SessionsTypeOK, Phases
<1>3. StreamsAreStable
  BY SessionThreads DEF Init, GateInit, StreamsAreStable
<1>4. QED
  BY <1>1, <1>2, <1>3 DEF SessionsInv

LEMMA SessionsTypeStep == SessionsTypeOK /\ [Next]_vars => SessionsTypeOK'
<1>. SUFFICES ASSUME SessionsTypeOK, [Next]_vars PROVE SessionsTypeOK'
  OBVIOUS
<1>. USE DEF SessionsTypeOK, Phases, Become
<1>1. ASSUME NEW s \in Clients, Run(s) PROVE SessionsTypeOK'
  BY <1>1 DEF Run, take_read_lease, open_cursor, lock_state, take_write_lease, persist_candidate,
     unlock_state, checkpoint, hand_over, sessionVars
<1>2. ASSUME NEW s \in Clients, Request(s) PROVE SessionsTypeOK'
  <2>1. CASE select(s) \/ close_stream(s) \/ commit_begins(s) \/ commit_empty(s)
    BY <2>1 DEF select, close_stream, commit_begins, commit_empty, sessionVars
  <2>2. CASE collect(s) \/ rollback(s) \/ deliver(s) \/ disconnect(s) \/ connect(s)
    BY <2>2 DEF collect, rollback, deliver, disconnect, connect, sessionVars
  <2>3. QED
    BY <1>2, <2>1, <2>2 DEF Request
<1>3. CASE UNCHANGED vars
  BY <1>3 DEF vars, sessionVars
<1>4. QED
  BY <1>1, <1>2, <1>3 DEF Next, Finished

(***************************************************************************)
(* Only a commit changes the generation, and then no stream is reading;    *)
(* only the opening of a stream makes its session leave "opening" with the *)
(* read lease, and then the generations have been compared.                *)
(***************************************************************************)
LEMMA StreamsStep == SessionsInv /\ [Next]_vars => StreamsAreStable'
<1>. SUFFICES ASSUME SessionsInv, [Next]_vars, NEW c \in Clients,
                     at'[Stream(c)] = "reading", pc'[c] # "opening"
              PROVE  snapshot'[c] = generation'
  BY DEF StreamsAreStable
<1>. USE DEF SessionsInv, Become
<1>0. /\ at \in [Threads -> Places] /\ pc \in [Clients -> Phases] /\ snapshot \in [Clients -> Nat]
      /\ \A s \in Clients : Stream(s) \in Threads /\ Statement(s) \in Threads
      /\ \A s, t \in Clients : (Stream(s) = Stream(t) => s = t) /\ Statement(s) # Stream(t)
  BY SessionThreads DEF GateInv, GateTypeOK, SessionsTypeOK, Stream, Statement
<1>1. (at[Stream(c)] = "reading" /\ pc[c] # "opening") => snapshot[c] = generation
  BY DEF StreamsAreStable
<1>2. ASSUME NEW s \in Clients, take_read_lease(s) PROVE snapshot'[c] = generation'
  <2>1. at'[Stream(c)] = at[Stream(c)] \/ c = s
    BY <1>0, <1>2 DEF take_read_lease, acquire_read, read_woken, read_granted
  <2>2. QED
    BY <1>1, <1>2, <2>1 DEF take_read_lease, sessionVars
<1>3. ASSUME NEW s \in Clients, open_cursor(s) PROVE snapshot'[c] = generation'
  BY <1>0, <1>1, <1>3 DEF open_cursor, drop_read, gateVars
<1>4. ASSUME NEW s \in Clients, take_write_lease(s) PROVE snapshot'[c] = generation'
  <2>1. at'[Stream(c)] = at[Stream(c)]
    BY <1>0, <1>4 DEF take_write_lease, acquire_write, write_woken, write_granted
  <2>2. QED
    BY <1>1, <1>4, <2>1 DEF take_write_lease, sessionVars
<1>5. ASSUME NEW s \in Clients, persist_candidate(s) PROVE snapshot'[c] = generation'
  <2>1. Statement(s) \in At("writing")
    BY <1>0, <1>5 DEF persist_candidate, At
  <2>2. at[Stream(c)] # "reading"
    BY <1>0, <2>1 DEF GateInv, WriterIsAlone, At
  <2>3. at'[Stream(c)] = at[Stream(c)]
    BY <1>0, <1>5 DEF persist_candidate, drop_write
  <2>4. QED
    BY <2>2, <2>3
<1>6. ASSUME NEW s \in Clients, lock_state(s) \/ unlock_state(s) \/ checkpoint(s) \/ hand_over(s)
      PROVE  snapshot'[c] = generation'
  BY <1>0, <1>1, <1>6 DEF lock_state, unlock_state, checkpoint, hand_over, gateVars
<1>7. ASSUME NEW s \in Clients, select(s) PROVE snapshot'[c] = generation'
  BY <1>0, <1>1, <1>7 DEF select, gateVars
<1>8. ASSUME NEW s \in Clients, close_stream(s) PROVE snapshot'[c] = generation'
  BY <1>0, <1>1, <1>8 DEF close_stream, drop_read, sessionVars
<1>9. ASSUME NEW s \in Clients, commit_begins(s) \/ commit_empty(s) PROVE snapshot'[c] = generation'
  BY <1>0, <1>1, <1>9 DEF commit_begins, commit_empty, Send, Ready, gateVars
<1>10. ASSUME NEW s \in Clients,
              collect(s) \/ rollback(s) \/ deliver(s) \/ disconnect(s) \/ connect(s)
       PROVE  snapshot'[c] = generation'
  BY <1>1, <1>10 DEF collect, rollback, deliver, disconnect, connect, gateVars, sessionVars
<1>11. CASE UNCHANGED vars
  BY <1>1, <1>11 DEF vars, sessionVars, gateVars
<1>12. QED
  BY <1>2, <1>3, <1>4, <1>5, <1>6, <1>7, <1>8, <1>9, <1>10, <1>11
     DEF Next, Run, Request, Finished

LEMMA SessionsStep == SessionsInv /\ [Next]_vars => SessionsInv'
<1>. SUFFICES ASSUME SessionsInv, [Next]_vars PROVE SessionsInv'
  OBVIOUS
<1>1. SessionsTypeOK'
  BY SessionsTypeStep DEF SessionsInv
<1>2. GateInv'
  <2>1. [GateNext]_gateVars
    BY GateIsRefined DEF vars
  <2>2. QED
    BY <2>1, GateStep DEF SessionsInv
<1>3. StreamsAreStable'
  BY StreamsStep
<1>4. QED
  BY <1>1, <1>2, <1>3 DEF SessionsInv

\* The state of the sessions and of the gate they share stays well typed.
THEOREM SessionsTypeCorrect == Spec => [](SessionsTypeOK /\ GateTypeOK)
<1>1. SessionsInv => SessionsTypeOK /\ GateTypeOK
  BY DEF SessionsInv, GateInv
<1>2. QED
  BY <1>1, SessionsInitially, SessionsStep, PTL DEF Spec

\* The engine's sessions implement the readers-writer gate: whatever statements
\* and streams do, the gate sees only acquire_read, acquire_write and the drops.
THEOREM SessionsUseTheGate == Spec => GateSpec
<1>1. Init => GateInit
  BY DEF Init
<1>2. [Next]_vars => [GateNext]_gateVars
  BY GateIsRefined DEF vars
<1>3. QED
  BY <1>1, <1>2, PTL DEF Spec, GateSpec

\* No thread of a session sleeps in Condvar::wait without a reason
\* (SleepersAreBlocked), for any number of sessions, streams and failures.
THEOREM SessionsSleepForAReason == Spec => []SleepersAreBlocked
<1>1. SessionsInv => SleepersAreBlocked
  BY DEF SessionsInv, GateInv
<1>2. QED
  BY <1>1, SessionsInitially, SessionsStep, PTL DEF Spec

\* A stream its client reads is on the generation the data file has
\* (StreamsAreStable: committed_snapshot, open_table_cursor_v2, persist_candidate),
\* also when a client keeps a stream open while it runs other statements.
THEOREM StreamsStayStable == Spec => []StreamsAreStable
<1>1. SessionsInv => StreamsAreStable
  BY DEF SessionsInv
<1>2. QED
  BY <1>1, SessionsInitially, SessionsStep, PTL DEF Spec
=============================================================================
