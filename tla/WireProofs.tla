------------------------------ MODULE WireProofs ------------------------------
(***************************************************************************)
(* Proofs about the two services.  A PostgreSQL connection (Wire): the     *)
(* invariant has five parts: the types, who owns an active query, whose    *)
(* transaction is open, which queries the cancellation flag speaks of, and *)
(* what is on the socket in every phase of a request.  A connector's       *)
(* helper (ConnectorSession): until a call leaves something of itself      *)
(* behind, everything that is under way belongs to the one call that has   *)
(* the host's turn.                                                        *)
(***************************************************************************)
EXTENDS Wire, ConnectorSession, SequenceTheorems, TLAPS

Kinds == {"statement", "begin", "commit", "rollback", "deallocate", "copy_in", "copy_out"}
ExtendedTypes == {"Parse", "CloseStatement", "ClosePortal", "Bind", "Execute"}
Messages ==
    Extended \union [type : {"Query"}, statements : Queries]
             \union [type : {"Sync", "CopyData", "CopyDone", "CopyFail", "Terminate"}]
Portals == [query : Nat, started : BOOLEAN, completed : BOOLEAN, statement : Names]

DoingKinds == {"read", "starts_statement", "statement", "copy_in", "starts_portal", "portal", "closed"}
\* What belongs to a query of the registry, that is about to be listed or is.
Registered_kinds == {"starts_statement", "statement", "starts_portal", "portal"}

WireTypes ==
    /\ up \in Seq(Messages)
    /\ down \in Seq({"G", "I", "T", "E", "error"})
    /\ client \in [at : {"idle", "batch", "waiting", "copying", "gone"}, left : Nat,
                   status : {"I", "T", "E"}]
    /\ extended_state \in {"Ready", "FailedUntilSync"}
    /\ doing \in [kind : DoingKinds, query : Nat, portal : Names]
    /\ rest \in Seq(Kinds)
    /\ status \in {"I", "T", "E"}
    /\ portals \in [DOMAIN portals -> Portals] /\ DOMAIN portals \subseteq Names
    /\ requests \in Nat /\ sent \in Nat /\ asked \in Nat /\ queries \in Seq(Nat)
    /\ doing.kind \in {"starts_statement", "statement", "copy_in"} => rest # << >>

LEMMA ChunkBound == 0..Chunks \subseteq Nat
<1>1. Chunks \in Nat
  BY Zenon, WireAssumption
<1>2. QED
  BY <1>1

LEMMA Unnamed == "" \in Names
BY Zenon, WireAssumption

LEMMA SeqFacts ==
    ASSUME NEW S, NEW s \in Seq(S)
    PROVE  /\ s # << >> => Tail(s) \in Seq(S) /\ Head(s) \in S
           /\ \A x \in S : Append(s, x) \in Seq(S)
           /\ \A x, y \in S : s \o <<x>> \in Seq(S) /\ s \o <<x, y>> \in Seq(S)
<1>1. \A x, y \in S : <<x>> \in Seq(S) /\ <<x, y>> \in Seq(S)
  OBVIOUS
<1>2. QED
  BY <1>1

LEMMA MessageFacts ==
    /\ \A m \in Messages : m.type = "Query" => m.statements \in Seq(Kinds) /\ m.statements # << >>
    /\ \A m \in Messages : m.type \in {"Bind", "Execute"} => m.portal \in Names
    /\ \A m \in Messages : m.type = "Bind" => m.statement \in Names
    /\ \A m \in Extended : m.type \in ExtendedTypes
BY WireAssumption DEF Messages, Kinds, ExtendedTypes

LEMMA CountFacts ==
    ASSUME requests \in Nat, sent \in Nat, queries \in Seq(Nat)
    PROVE  /\ Issued \in Nat /\ New_query \in Nat /\ New_query # None
           /\ Append(queries, Issued) \in Seq(Nat)
<1>1. Issued \in Nat
  BY DEF Issued
<1>2. Len(queries) \in Nat
  BY LenProperties
<1>3. Append(queries, Issued) \in Seq(Nat)
  BY <1>1, SeqFacts
<1>4. QED
  BY <1>1, <1>2, <1>3 DEF New_query, None

LEMMA EmptyPortals == \A f : f = << >> => f \in [DOMAIN f -> Portals] /\ DOMAIN f \subseteq Names
<1>1. DOMAIN << >> = {}
  OBVIOUS
<1>2. QED
  BY <1>1

LEMMA WireTypesInitially == Init => WireTypes
<1>1. << >> \in Seq(Messages) /\ << >> \in Seq({"G", "I", "T", "E", "error"}) /\ << >> \in Seq(Kinds) /\ << >> \in Seq(Nat)
  OBVIOUS
<1>2. ASSUME Init PROVE WireTypes
  <2>1. Read \in [kind : DoingKinds, query : Nat, portal : Names]
    BY WireAssumption DEF Read, None, DoingKinds
  <2>2. portals \in [DOMAIN portals -> Portals] /\ DOMAIN portals \subseteq Names
    BY <1>2, EmptyPortals DEF Init
  <2>3. up = << >> /\ down = << >> /\ rest = << >> /\ doing = Read
    BY <1>2 DEF Init
  <2>4. /\ client \in [at : {"idle", "batch", "waiting", "copying", "gone"}, left : Nat,
                       status : {"I", "T", "E"}]
        /\ extended_state \in {"Ready", "FailedUntilSync"} /\ status \in {"I", "T", "E"}
        /\ requests \in Nat /\ sent \in Nat /\ asked \in Nat /\ queries = << >>
    BY <1>2 DEF Init
  <2>5. doing.kind = "read"
    BY <2>3 DEF Read
  <2>6. QED
    BY <1>1, <2>1, <2>2, <2>3, <2>4, <2>5 DEF WireTypes
<1>3. QED
  BY <1>2

LEMMA WithoutFacts ==
    ASSUME portals \in [DOMAIN portals -> Portals], NEW ns
    PROVE  /\ DOMAIN Without(ns) = DOMAIN portals \ ns
           /\ Without(ns) \in [DOMAIN Without(ns) -> Portals]
           /\ \A p \in DOMAIN portals \ ns : Without(ns)[p] = portals[p]
BY DEF Without, Restrict

-----------------------------------------------------------------------------
(***************************************************************************)
(* What a step may do to each variable, whatever action it is.             *)
(***************************************************************************)
Marks == {"G", "I", "T", "E", "error"}

UpMoves ==
    up' = up \/ (up # << >> /\ up' = Tail(up)) \/ \E m \in Messages : up' = Append(up, m)

DownMoves ==
    \/ down' = down \/ (down # << >> /\ down' = Tail(down))
    \/ \E x, y \in Marks : down' = down \o <<x>> \/ down' = down \o <<x, y>>

ClientMoves ==
    \/ client' = client
    \/ \E at \in {"idle", "batch", "waiting", "copying", "gone"} :
           client' = [client EXCEPT !.at = at]
    \/ \E left \in Nat : client' = [client EXCEPT !.at = "copying", !.left = left]
    \/ client.left > 0 /\ client' = [client EXCEPT !.left = @ - 1]
    \/ \E read \in {"I", "T", "E"} : client' = [client EXCEPT !.at = "idle", !.status = read]

RestMoves ==
    \/ rest' = rest \/ rest' = << >> \/ (rest # << >> /\ rest' = Tail(rest))
    \/ up # << >> /\ Head(up).type = "Query" /\ rest' = Head(up).statements

DoingMoves ==
    \/ doing' = doing /\ (rest' = rest \/ doing.kind = "read")
    \/ doing' = Read
    \/ doing' = [Read EXCEPT !.kind = "closed"]
    \/ doing' = [Read EXCEPT !.kind = "copy_in"] /\ rest' = rest /\ rest # << >>
    \/ /\ doing' = [Read EXCEPT !.kind = "starts_statement", !.query = New_query]
       /\ rest' = rest /\ rest # << >>
    \/ /\ doing.kind = "starts_statement" /\ doing' = [doing EXCEPT !.kind = "statement"]
       /\ rest' = rest
    \/ doing' = [doing EXCEPT !.kind = "portal"]
    \/ \E p \in DOMAIN portals :
           doing' \in {[kind |-> "starts_portal", query |-> New_query, portal |-> p],
                       [kind |-> "portal", query |-> portals[p].query, portal |-> p]}

Bound(p, n) ==
    [q \in DOMAIN portals \union {p} |->
        IF q = p THEN [query |-> None, started |-> FALSE, completed |-> FALSE, statement |-> n]
        ELSE portals[q]]

PortalMoves ==
    \/ portals' = portals
    \/ portals' = << >>
    \/ \E ns \in SUBSET Names : portals' = Without(ns)
    \/ \E p, n \in Names : portals' = Bound(p, n)
    \/ \E p \in Names :
           portals' \in {[portals EXCEPT ![p].query = doing.query],
                         [portals EXCEPT ![p].query = doing.query, ![p].started = TRUE],
                         [portals EXCEPT ![p].completed = TRUE, ![p].started = FALSE]}

CountMoves ==
    /\ requests' \in {requests, requests + 1} /\ sent' \in {sent, sent + 1, 0}
    /\ asked' \in {asked, Issued} /\ queries' \in {queries, Append(queries, Issued)}

Moves ==
    /\ UpMoves /\ DownMoves /\ ClientMoves /\ RestMoves /\ DoingMoves /\ PortalMoves /\ CountMoves
    /\ extended_state' \in {"Ready", "FailedUntilSync"} /\ status' \in {"I", "T", "E"}

\* Steps of the client, of a canceller and of the listener.
LEMMA ClientMovesAre ==
    ASSUME WireTypes, query \/ extended \/ sync \/ read_backend \/ copy_data \/ hang_up \/
           cut_off \/ cancel \/ stop
    PROVE  Moves
<1>. USE DEF Send, Write, Reading, InOrder, Leave, FailQuery, FailExtended, Next_statement,
           Receiving, abort_copy_transaction, CopyUnchanged, ExtendedUnchanged,
           Begin_query, Reset_cancellation, Stopped_or_failed, Completed, Effect, Failure, ServerSide, ClientSide, server,
           registry, query, extended, sync, read_backend, copy_data, hang_up, cut_off,
           cancel, stop
<1>1. UpMoves
  BY DEF UpMoves, Messages, WireTypes
<1>2. DownMoves
  BY DEF DownMoves, Marks, WireTypes
<1>3. ClientMoves
  <2>1. 0..Chunks \subseteq Nat
    BY ChunkBound
  <2>2. CASE read_backend
    <3>1. CASE \E n \in 0..Chunks : client' = [client EXCEPT !.at = "copying", !.left = n]
      BY <2>1, <3>1 DEF ClientMoves
    <3>2. CASE \E read \in {"I", "T", "E"} : client' = [client EXCEPT !.at = "idle", !.status = read]
      BY <3>2 DEF ClientMoves
    <3>3. QED
      BY <2>2, <3>1, <3>2 DEF ClientMoves
  <2>3. CASE ~read_backend
    BY <2>3 DEF ClientMoves
  <2>4. QED
    BY <2>2, <2>3
<1>4. RestMoves
  BY DEF RestMoves, WireTypes
<1>5. DoingMoves
  BY DEF DoingMoves, WireTypes
<1>6. PortalMoves
  BY MessageFacts, WireAssumption DEF PortalMoves, Bound, WireTypes
<1>7. extended_state' \in {"Ready", "FailedUntilSync"} /\ status' \in {"I", "T", "E"}
  BY DEF WireTypes
<1>8. CountMoves
  BY DEF CountMoves, WireTypes
<1>9. QED
  BY <1>1, <1>2, <1>3, <1>4, <1>5, <1>6, <1>7, <1>8 DEF Moves

\* Steps between requests.
LEMMA SessionMovesAre ==
    ASSUME WireTypes, failed_until_sync \/ failed_terminate \/ Terminate \/ end_of_input \/
           Sync \/ stray_copy_message
    PROVE  Moves
<1>. USE DEF Send, Write, Reading, InOrder, Leave, FailQuery, FailExtended, Next_statement,
           Receiving, abort_copy_transaction, CopyUnchanged, ExtendedUnchanged,
           Begin_query, Reset_cancellation, Stopped_or_failed, Completed, Effect, Failure, ServerSide, ClientSide, server,
           registry, failed_until_sync, failed_terminate, Terminate, end_of_input, Sync,
           stray_copy_message
<1>1. UpMoves
  BY DEF UpMoves, Messages, WireTypes
<1>2. DownMoves
  BY DEF DownMoves, Marks, WireTypes
<1>3. ClientMoves
  BY DEF ClientMoves
<1>4. RestMoves
  BY DEF RestMoves, WireTypes
<1>5. DoingMoves
  BY DEF DoingMoves, WireTypes
<1>6. PortalMoves
  BY MessageFacts, WireAssumption DEF PortalMoves, Bound, WireTypes
<1>7. extended_state' \in {"Ready", "FailedUntilSync"} /\ status' \in {"I", "T", "E"}
  BY DEF WireTypes
<1>8. CountMoves
  BY DEF CountMoves, WireTypes
<1>9. QED
  BY <1>1, <1>2, <1>3, <1>4, <1>5, <1>6, <1>7, <1>8 DEF Moves

\* Steps of a Query.
LEMMA SimpleMovesAre ==
    ASSUME WireTypes, simple_query \/ refuse_statement \/ execute_simple_statement \/
           begin_simple_statement \/ finish_statement \/ copy_to_stdout
    PROVE  Moves
<1>. USE DEF Send, Write, Reading, InOrder, Leave, FailQuery, FailExtended, Next_statement,
           Receiving, abort_copy_transaction, CopyUnchanged, ExtendedUnchanged,
           Begin_query, Reset_cancellation, Stopped_or_failed, Completed, Effect, Failure, ServerSide, ClientSide, server,
           registry, simple_query, refuse_statement, execute_simple_statement,
           begin_simple_statement, finish_statement, copy_to_stdout
<1>1. UpMoves
  BY DEF UpMoves, Messages, WireTypes
<1>2. DownMoves
  BY DEF DownMoves, Marks, WireTypes
<1>3. ClientMoves
  BY DEF ClientMoves
<1>4. RestMoves
  BY DEF RestMoves, WireTypes
<1>5. DoingMoves
  BY DEF DoingMoves, WireTypes
<1>6. PortalMoves
  BY MessageFacts, WireAssumption DEF PortalMoves, Bound, WireTypes
<1>7. extended_state' \in {"Ready", "FailedUntilSync"} /\ status' \in {"I", "T", "E"}
  BY DEF WireTypes
<1>8. CountMoves
  BY DEF CountMoves, WireTypes
<1>9. QED
  BY <1>1, <1>2, <1>3, <1>4, <1>5, <1>6, <1>7, <1>8 DEF Moves

\* Steps of a COPY.
LEMMA CopyMovesAre ==
    ASSUME WireTypes, copy_from_stdin \/ receive_copy_data \/ receive_copy_done \/
           receive_copy_fail
    PROVE  Moves
<1>. USE DEF Send, Write, Reading, InOrder, Leave, FailQuery, FailExtended, Next_statement,
           Receiving, abort_copy_transaction, CopyUnchanged, ExtendedUnchanged,
           Begin_query, Reset_cancellation, Stopped_or_failed, Completed, Effect, Failure, ServerSide, ClientSide, server,
           registry, copy_from_stdin, receive_copy_data, receive_copy_done,
           receive_copy_fail
<1>1. UpMoves
  BY DEF UpMoves, Messages, WireTypes
<1>2. DownMoves
  BY DEF DownMoves, Marks, WireTypes
<1>3. ClientMoves
  BY DEF ClientMoves
<1>4. RestMoves
  BY DEF RestMoves, WireTypes
<1>5. DoingMoves
  BY DEF DoingMoves, WireTypes
<1>6. PortalMoves
  BY MessageFacts, WireAssumption DEF PortalMoves, Bound, WireTypes
<1>7. extended_state' \in {"Ready", "FailedUntilSync"} /\ status' \in {"I", "T", "E"}
  BY DEF WireTypes
<1>8. CountMoves
  BY DEF CountMoves, WireTypes
<1>9. QED
  BY <1>1, <1>2, <1>3, <1>4, <1>5, <1>6, <1>7, <1>8 DEF Moves

\* Steps of an extended query.
LEMMA ExtendedMovesAre ==
    ASSUME WireTypes, parse \/ bind \/ execute_nothing \/ execute_portal_starts \/
           begin_portal \/ execute_portal_resumes \/ execute_portal_inner \/ close_portal \/
           close_statement
    PROVE  Moves
<1>. USE DEF Send, Write, Reading, InOrder, Leave, FailQuery, FailExtended, Next_statement,
           Receiving, abort_copy_transaction, CopyUnchanged, ExtendedUnchanged,
           Begin_query, Reset_cancellation, Stopped_or_failed, Completed, Effect, Failure, ServerSide, ClientSide, server,
           registry, parse, bind, execute_nothing, execute_portal_starts, begin_portal,
           execute_portal_resumes, execute_portal_inner, close_portal, close_statement
<1>1. UpMoves
  BY DEF UpMoves, Messages, WireTypes
<1>2. DownMoves
  BY DEF DownMoves, Marks, WireTypes
<1>3. ClientMoves
  BY DEF ClientMoves
<1>4. RestMoves
  BY DEF RestMoves, WireTypes
<1>5. DoingMoves
  BY DEF DoingMoves, WireTypes
<1>6. PortalMoves
  <2>0. DOMAIN portals \subseteq Names /\ doing.portal \in Names
    BY DEF WireTypes
  <2>1. CASE bind
    <3>0. up \in Seq(Messages) /\ up # << >>
      BY <2>1 DEF WireTypes
    <3>1. Head(up) \in Messages
      BY <3>0, SeqFacts
    <3>2. Head(up).portal \in Names /\ Head(up).statement \in Names
      BY <2>1, <3>1, MessageFacts
    <3>3. \/ portals' = portals
          \/ portals' = Bound(Head(up).portal, Head(up).statement)
      BY <2>1 DEF Bound
    <3>4. QED
      BY <3>2, <3>3 DEF PortalMoves
  <2>2. CASE parse \/ close_portal \/ close_statement
    BY <2>0, <2>2 DEF PortalMoves
  <2>3. CASE execute_nothing \/ execute_portal_starts \/ begin_portal \/ execute_portal_resumes
    BY <2>0, <2>3 DEF PortalMoves
  <2>4. CASE execute_portal_inner
    <3>1. \/ portals' = portals
          \/ portals' = [portals EXCEPT ![doing.portal].completed = TRUE, ![doing.portal].started = FALSE]
      BY <2>4
    <3>2. QED
      BY <2>0, <3>1 DEF PortalMoves
  <2>5. QED
    BY <2>1, <2>2, <2>3, <2>4
<1>7. extended_state' \in {"Ready", "FailedUntilSync"} /\ status' \in {"I", "T", "E"}
  BY DEF WireTypes
<1>8. CountMoves
  BY DEF CountMoves, WireTypes
<1>9. QED
  BY <1>1, <1>2, <1>3, <1>4, <1>5, <1>6, <1>7, <1>8 DEF Moves

LEMMA FinishedMoves == ASSUME WireTypes, Finished PROVE Moves
BY DEF WireTypes, Finished, vars, server, registry, Moves, UpMoves, DownMoves, ClientMoves, RestMoves, DoingMoves,
   PortalMoves, CountMoves

LEMMA EmptyHasTypes ==
    /\ << >> \in Seq(Messages) /\ << >> \in Seq(Marks) /\ << >> \in Seq(Kinds)
    /\ \A f : f = << >> => f \in [DOMAIN f -> Portals] /\ DOMAIN f \subseteq Names
<1>1. << >> \in Seq(Messages) /\ << >> \in Seq(Marks) /\ << >> \in Seq(Kinds)
  OBVIOUS
<1>2. QED
  BY <1>1, EmptyPortals

LEMMA TypesKeep == ASSUME WireTypes, Moves PROVE WireTypes'
<1>1. up' \in Seq(Messages)
  <2>1. up \in Seq(Messages) /\ UpMoves
    BY DEF WireTypes, Moves
  <2>2. QED
    BY <2>1, SeqFacts DEF UpMoves
<1>2. down' \in Seq(Marks)
  <2>1. down \in Seq(Marks)
    BY DEF WireTypes, Marks
  <2>2. DownMoves
    BY DEF Moves
  <2>3. QED
    BY <2>1, <2>2, SeqFacts DEF DownMoves
<1>3. client' \in [at : {"idle", "batch", "waiting", "copying", "gone"}, left : Nat,
                   status : {"I", "T", "E"}]
  <2>1. /\ client \in [at : {"idle", "batch", "waiting", "copying", "gone"}, left : Nat,
                       status : {"I", "T", "E"}]
        /\ ClientMoves
    BY DEF WireTypes, Moves
  <2>2. client.left > 0 => client.left - 1 \in Nat
    BY <2>1
  <2>3. QED
    BY <2>1, <2>2 DEF ClientMoves
<1>4. rest' \in Seq(Kinds)
  <2>1. CASE up # << >> /\ Head(up).type = "Query" /\ rest' = Head(up).statements
    <3>0. up \in Seq(Messages)
      BY DEF WireTypes
    <3>1. Head(up) \in Messages
      BY <2>1, <3>0, SeqFacts
    <3>2. QED
      BY <2>1, <3>1, MessageFacts
  <2>2. CASE rest' = rest \/ rest' = << >> \/ (rest # << >> /\ rest' = Tail(rest))
    <3>1. rest \in Seq(Kinds)
      BY DEF WireTypes
    <3>2. QED
      BY <2>2, <3>1, SeqFacts, EmptyHasTypes
  <2>3. QED
    BY <2>1, <2>2 DEF Moves, RestMoves
<1>c. requests' \in Nat /\ sent' \in Nat /\ asked' \in Nat /\ queries' \in Seq(Nat)
  <2>1. requests \in Nat /\ sent \in Nat /\ asked \in Nat /\ queries \in Seq(Nat)
    BY DEF WireTypes
  <2>2. Issued \in Nat /\ Append(queries, Issued) \in Seq(Nat)
    BY <2>1, CountFacts
  <2>3. QED
    BY <2>1, <2>2 DEF Moves, CountMoves
<1>5. /\ doing' \in [kind : DoingKinds, query : Nat, portal : Names]
      /\ doing'.kind \in {"starts_statement", "statement", "copy_in"} => rest' # << >>
  <2>1. \A p \in DOMAIN portals : portals[p].query \in Nat /\ p \in Names
    BY DEF WireTypes, Portals
  <2>2. New_query \in Nat /\ None \in Nat
    BY CountFacts DEF WireTypes, None
  <2>r. \A kind \in DoingKinds, q \in Nat, p \in Names :
            [kind |-> kind, query |-> q, portal |-> p] \in [kind : DoingKinds, query : Nat, portal : Names]
    OBVIOUS
  <2>d. doing \in [kind : DoingKinds, query : Nat, portal : Names]
    BY DEF WireTypes
  <2>k. {"read", "closed", "copy_in", "starts_statement", "statement", "starts_portal", "portal"} = DoingKinds
    BY DEF DoingKinds
  <2>3. CASE \E p \in DOMAIN portals :
                 doing' \in {[kind |-> "starts_portal", query |-> New_query, portal |-> p],
                             [kind |-> "portal", query |-> portals[p].query, portal |-> p]}
    <3>1. PICK p \in DOMAIN portals :
                 doing' \in {[kind |-> "starts_portal", query |-> New_query, portal |-> p],
                             [kind |-> "portal", query |-> portals[p].query, portal |-> p]}
      BY <2>3
    <3>2. PICK kind \in {"starts_portal", "portal"}, q \in Nat :
              doing' = [kind |-> kind, query |-> q, portal |-> p]
      BY <2>1, <2>2, <3>1
    <3>3. p \in Names
      BY <2>1
    <3>4. doing' \in [kind : DoingKinds, query : Nat, portal : Names]
      BY <2>k, <3>2, <3>3
    <3>5. doing'.kind \in {"starts_portal", "portal"}
      BY <3>2
    <3>6. QED
      BY <3>4, <3>5
  <2>4. CASE doing' = doing /\ (rest' = rest \/ doing.kind = "read")
    BY <2>4 DEF WireTypes
  <2>5. CASE \/ doing' = Read
             \/ doing' = [Read EXCEPT !.kind = "closed"]
    <3>1. PICK kind \in {"read", "closed"} : doing' = [kind |-> kind, query |-> None, portal |-> ""]
      BY <2>5 DEF Read
    <3>2. kind \in DoingKinds
      BY <2>k
    <3>3. doing' \in [kind : DoingKinds, query : Nat, portal : Names]
      BY Zenon, <2>2, <2>r, <3>1, <3>2, Unnamed
    <3>4. doing'.kind \in {"read", "closed"}
      BY <3>1
    <3>5. QED
      BY <3>3, <3>4
  <2>6. CASE /\ \/ doing' = [Read EXCEPT !.kind = "copy_in"]
                \/ doing' = [Read EXCEPT !.kind = "starts_statement", !.query = New_query]
             /\ rest' = rest /\ rest # << >>
    <3>1. PICK kind \in {"copy_in", "starts_statement"}, q \in Nat :
                   doing' = [kind |-> kind, query |-> q, portal |-> ""]
      BY <2>2, <2>6 DEF Read
    <3>2. kind \in DoingKinds
      BY <2>k
    <3>3. doing' \in [kind : DoingKinds, query : Nat, portal : Names]
      BY Zenon, <2>r, <3>1, <3>2, Unnamed
    <3>4. QED
      BY <2>6, <3>3
  <2>7. CASE /\ doing.kind = "starts_statement" /\ doing' = [doing EXCEPT !.kind = "statement"]
             /\ rest' = rest
    <3>1. rest # << >>
      BY <2>7 DEF WireTypes
    <3>2. doing' \in [kind : DoingKinds, query : Nat, portal : Names]
      BY <2>d, <2>k, <2>7
    <3>3. QED
      BY <2>7, <3>1, <3>2
  <2>8. CASE doing' = [doing EXCEPT !.kind = "portal"]
    <3>1. doing' \in [kind : DoingKinds, query : Nat, portal : Names] /\ doing'.kind = "portal"
      BY <2>d, <2>k, <2>8
    <3>2. QED
      BY <3>1
  <2>9. QED
    BY <2>3, <2>4, <2>5, <2>6, <2>7, <2>8 DEF Moves, DoingMoves
<1>6. portals' \in [DOMAIN portals' -> Portals] /\ DOMAIN portals' \subseteq Names
  <2>0. portals \in [DOMAIN portals -> Portals] /\ DOMAIN portals \subseteq Names /\ doing.query \in Nat
    BY DEF WireTypes
  <2>1. CASE portals' = portals
    BY <2>0, <2>1
  <2>2. CASE portals' = << >>
    BY <2>2, EmptyHasTypes
  <2>3. CASE \E ns \in SUBSET Names : portals' = Without(ns)
    <3>1. PICK ns \in SUBSET Names : portals' = Without(ns)
      BY <2>3
    <3>2. QED
      BY <2>0, <3>1, WithoutFacts
  <2>4. CASE \E p, n \in Names : portals' = Bound(p, n)
    <3>1. PICK p, n \in Names : portals' = Bound(p, n)
      BY <2>4
    <3>2. [query |-> None, started |-> FALSE, completed |-> FALSE, statement |-> n] \in Portals
      BY DEF Portals, None
    <3>3. Bound(p, n) \in [DOMAIN portals \union {p} -> Portals]
      BY <2>0, <3>2 DEF Bound
    <3>4. QED
      BY <2>0, <3>1, <3>3
  <2>5. ASSUME NEW p \in Names,
               portals' \in {[portals EXCEPT ![p].query = doing.query],
                             [portals EXCEPT ![p].query = doing.query, ![p].started = TRUE],
                             [portals EXCEPT ![p].completed = TRUE, ![p].started = FALSE]}
        PROVE  portals' \in [DOMAIN portals -> Portals]
    <3>1. CASE p \in DOMAIN portals
      <4>1. portals[p] \in Portals
        BY <2>0, <3>1
      <4>2. /\ [portals[p] EXCEPT !.query = doing.query] \in Portals
            /\ [portals[p] EXCEPT !.query = doing.query, !.started = TRUE] \in Portals
            /\ [portals[p] EXCEPT !.completed = TRUE, !.started = FALSE] \in Portals
        BY <2>0, <4>1 DEF Portals
      <4>3. QED
        BY <2>0, <2>5, <4>2
    <3>2. CASE p \notin DOMAIN portals
      BY <2>0, <2>5, <3>2
    <3>3. QED
      BY <3>1, <3>2
  <2>6. QED
    BY <2>0, <2>1, <2>2, <2>3, <2>4, <2>5 DEF Moves, PortalMoves
<1>7. QED
  BY <1>1, <1>2, <1>3, <1>4, <1>5, <1>6, <1>c DEF WireTypes, Moves, Marks

-----------------------------------------------------------------------------
(***************************************************************************)
(* Who owns a query of the registry, and whose transaction is open.        *)
(***************************************************************************)
HasOwner(q) ==
    \/ q = doing.query \/ q \in forgotten
    \/ \E p \in DOMAIN portals : ~portals[p].completed /\ portals[p].query = q

RegistryInv ==
    /\ None \notin active
    /\ \A q \in active : HasOwner(q)
    /\ doing.kind \in {"starts_portal", "portal"} =>
           doing.portal \in DOMAIN portals /\ ~portals[doing.portal].completed
    /\ doing.kind = "portal" => portals[doing.portal].query = doing.query
    /\ doing.kind \in {"starts_statement", "starts_portal"} => doing.query # None
    /\ doing.kind \notin Registered_kinds => doing.query = None
    /\ doing.kind = "closed" => active = {}

TransactionInv ==
    /\ status = "T" /\ doing.kind # "copy_in" => began
    /\ doing.kind = "copy_in" => status = "T" /\ (owns \/ began)

LEMMA ReadFacts ==
    /\ Read.kind = "read" /\ Read.query = None
    /\ [Read EXCEPT !.kind = "closed"].kind = "closed" /\ [Read EXCEPT !.kind = "closed"].query = None
    /\ [Read EXCEPT !.kind = "copy_in"].kind = "copy_in" /\ [Read EXCEPT !.kind = "copy_in"].query = None
    /\ \A q : /\ [Read EXCEPT !.kind = "starts_statement", !.query = q].kind = "starts_statement"
              /\ [Read EXCEPT !.kind = "starts_statement", !.query = q].query = q
BY DEF Read

LEMMA BeginFacts ==
    ASSUME WireTypes, NEW kind
    PROVE  /\ [doing EXCEPT !.kind = kind].kind = kind
           /\ [doing EXCEPT !.kind = kind].query = doing.query
           /\ [doing EXCEPT !.kind = kind].portal = doing.portal
BY DEF WireTypes

\* Where a step takes the transaction and the COPY.
TransactionMoves ==
    \/ UNCHANGED <<doing, status, owns, began>>
    \/ status' # "T" /\ doing'.kind # "copy_in"
    \/ /\ doing.kind # "copy_in" /\ doing'.kind # "copy_in"
       /\ began' \/ UNCHANGED <<status, began>>
    \/ /\ doing.kind # "copy_in" /\ doing'.kind = "copy_in" /\ status' = "T" /\ began' = began
       /\ owns' \/ status = "T"
    \/ /\ doing.kind = "copy_in" /\ ~owns /\ doing'.kind # "copy_in" /\ UNCHANGED <<status, began>>

LEMMA TransactionsMove == ASSUME WireTypes, Next PROVE TransactionMoves
<1>. USE DEF Send, Write, Reading, InOrder, Leave, FailQuery, FailExtended, Next_statement,
           Receiving, abort_copy_transaction, CopyUnchanged, ExtendedUnchanged, Begin_query, Reset_cancellation, Stopped_or_failed,
           Completed, Effect, Failure, ServerSide, ClientSide, server, registry, query,
           extended, sync, read_backend, copy_data, hang_up, cut_off, cancel, stop,
           failed_until_sync, failed_terminate, Terminate, end_of_input, Sync,
           stray_copy_message, simple_query, refuse_statement, execute_simple_statement,
           begin_simple_statement, finish_statement, copy_to_stdout, copy_from_stdin, receive_copy_data,
           receive_copy_done, receive_copy_fail, parse, bind, execute_nothing,
           execute_portal_starts, begin_portal, execute_portal_resumes, execute_portal_inner,
           close_portal, close_statement
<1>1. CASE query \/ extended \/ sync \/ read_backend \/ copy_data \/ hang_up \/ cut_off \/
           cancel \/ stop \/ Finished
  BY <1>1, ReadFacts DEF TransactionMoves, WireTypes, Finished, vars
<1>2. CASE failed_until_sync \/ failed_terminate \/ Terminate \/ end_of_input \/ Sync \/
           stray_copy_message
  BY <1>2, ReadFacts DEF TransactionMoves, WireTypes
<1>3. CASE simple_query \/ refuse_statement \/ execute_simple_statement \/
           begin_simple_statement \/ finish_statement \/ copy_to_stdout
  BY <1>3, ReadFacts, BeginFacts DEF TransactionMoves, WireTypes
<1>4. CASE copy_from_stdin \/ receive_copy_data \/ receive_copy_done \/ receive_copy_fail
  BY <1>4, ReadFacts DEF TransactionMoves, WireTypes
<1>5. CASE parse \/ bind
  BY <1>5, ReadFacts DEF TransactionMoves, WireTypes
<1>6. CASE execute_nothing \/ execute_portal_starts \/ begin_portal
  BY <1>6, ReadFacts, BeginFacts DEF TransactionMoves, WireTypes
<1>7. CASE execute_portal_resumes \/ execute_portal_inner \/ close_portal \/ close_statement
  BY <1>7, ReadFacts DEF TransactionMoves, WireTypes
<1>8. QED
  BY <1>1, <1>2, <1>3, <1>4, <1>5, <1>6, <1>7 DEF Next, Serve, Converse

LEMMA TransactionKeeps == ASSUME TransactionInv, TransactionMoves PROVE TransactionInv'
BY DEF TransactionInv, TransactionMoves

\* What a step does to the registry.
Reads == doing'.kind = "read" /\ doing'.query = None

StaysRegistered == UNCHANGED <<active, forgotten, portals, doing>>

GoesOn ==
    /\ doing.kind \in {"read", "copy_in", "portal"} /\ doing'.kind \in {"read", "copy_in"}
    /\ doing'.query = None
    /\ UNCHANGED <<active, forgotten, portals>>

Leaves == doing'.kind = "closed" /\ doing'.query = None /\ active' = {}

RetiresPortals ==
    /\ doing.kind = "read" /\ Reads /\ forgotten' = forgotten
    /\ \E ns \in SUBSET Names :
           /\ active' = Retired(ns)
           /\ portals' = Without(ns) \/ \E p, n \in Names : ns = {p} /\ portals' = Bound(p, n)

ResetsForStatement ==
    /\ doing.kind = "read" /\ doing'.kind = "starts_statement" /\ doing'.query = New_query
    /\ UNCHANGED <<active, forgotten, portals>>

BeginsStatement ==
    /\ doing.kind = "starts_statement" /\ doing'.kind = "statement" /\ doing'.query = doing.query
    /\ active' = active \union {doing.query} /\ UNCHANGED <<forgotten, portals>>

EndsQuery ==
    /\ doing.kind \in {"statement", "portal"} /\ Reads
    /\ active' = active \ {doing.query} /\ forgotten' = forgotten
    /\ \/ portals' = portals
       \/ /\ doing.kind = "portal"
          /\ portals' = [portals EXCEPT ![doing.portal].completed = TRUE, ![doing.portal].started = FALSE]

Deallocates ==
    /\ doing.kind = "statement" /\ Reads /\ active' = Retired(Names) \ {doing.query} /\ portals' = << >>
    /\ forgotten' = forgotten

ResetsForPortal ==
    /\ doing.kind = "read" /\ UNCHANGED <<active, forgotten, portals>>
    /\ \E p \in DOMAIN portals :
           ~portals[p].completed /\ doing' = [kind |-> "starts_portal", query |-> New_query, portal |-> p]

BeginsPortal ==
    /\ doing.kind = "starts_portal" /\ active' = active \union {doing.query}
    /\ forgotten' = forgotten \union ({portals[doing.portal].query} \cap active)
    /\ \/ /\ portals' = [portals EXCEPT ![doing.portal].query = doing.query, ![doing.portal].started = TRUE]
          /\ doing'.kind = "portal" /\ doing'.query = doing.query /\ doing'.portal = doing.portal
       \/ portals' = [portals EXCEPT ![doing.portal].query = doing.query] /\ Reads

ResumesPortal ==
    /\ doing.kind = "read" /\ UNCHANGED <<active, forgotten, portals>>
    /\ \E p \in DOMAIN portals :
           /\ ~portals[p].completed
           /\ doing' = [kind |-> "portal", query |-> portals[p].query, portal |-> p]

RegistryMoves ==
    \/ StaysRegistered \/ GoesOn \/ Leaves \/ RetiresPortals \/ ResetsForStatement \/ BeginsStatement
    \/ EndsQuery \/ Deallocates \/ ResetsForPortal \/ BeginsPortal \/ ResumesPortal

LEMMA BindMoves == ASSUME WireTypes, RegistryInv, bind \/ close_portal PROVE RegistryMoves
<1>. USE DEF Send, Write, Reading, InOrder, FailExtended, ExtendedUnchanged, ClientSide, server, registry
<1>0. DOMAIN portals \subseteq Names /\ doing.kind \in DoingKinds
  BY DEF WireTypes
<1>1. CASE doing' = Read /\ UNCHANGED <<portals, active>>
  <2>0. doing.kind = "read" /\ forgotten' = forgotten
    BY DEF bind, close_portal
  <2>1. GoesOn
    BY <1>1, <2>0, ReadFacts DEF GoesOn
  <2>2. QED
    BY <2>1 DEF RegistryMoves
<1>2. ASSUME bind, portals' = Bound(Head(up).portal, Head(up).statement),
             active' = Retired({Head(up).portal}), doing' = doing
      PROVE  RegistryMoves
  <2>1. up \in Seq(Messages) /\ up # << >> /\ Head(up).type = "Bind"
    BY <1>2 DEF WireTypes, bind
  <2>2. Head(up).portal \in Names /\ Head(up).statement \in Names
    BY <2>1, SeqFacts, MessageFacts
  <2>3. {Head(up).portal} \in SUBSET Names
    BY <2>2
  <2>4. doing.kind = "read" /\ Reads /\ forgotten' = forgotten
    BY <1>2 DEF bind, Reads, RegistryInv, Registered_kinds
  <2>5. RetiresPortals
    BY <1>2, <2>2, <2>3, <2>4 DEF RetiresPortals
  <2>6. QED
    BY <2>5 DEF RegistryMoves
<1>3. ASSUME close_portal, Head(up).name \in DOMAIN portals, portals' = Without({Head(up).name}),
             active' = Retired({Head(up).name}), doing' = doing
      PROVE  RegistryMoves
  <2>1. {Head(up).name} \in SUBSET Names
    BY <1>0, <1>3
  <2>2. doing.kind = "read" /\ Reads /\ forgotten' = forgotten
    BY <1>3 DEF close_portal, Reads, RegistryInv, Registered_kinds
  <2>3. RetiresPortals
    BY <1>3, <2>1, <2>2 DEF RetiresPortals
  <2>4. QED
    BY <2>3 DEF RegistryMoves
<1>4. QED
  BY <1>1, <1>2, <1>3 DEF bind, close_portal, Bound

LEMMA RegistryMovesAre == ASSUME WireTypes, RegistryInv, Next PROVE RegistryMoves
<1>. USE DEF Send, Write, Reading, InOrder, Leave, FailQuery, FailExtended, Next_statement,
           Receiving, abort_copy_transaction, CopyUnchanged, ExtendedUnchanged, Begin_query, Reset_cancellation, Stopped_or_failed,
           Completed, Effect, Failure, ServerSide, ClientSide, server, registry, query,
           extended, sync, read_backend, copy_data, hang_up, cut_off, cancel, stop,
           failed_until_sync, failed_terminate, Terminate, end_of_input, Sync,
           stray_copy_message, simple_query, refuse_statement, execute_simple_statement,
           begin_simple_statement, finish_statement, copy_to_stdout, copy_from_stdin, receive_copy_data,
           receive_copy_done, receive_copy_fail, parse, bind, execute_nothing,
           execute_portal_starts, begin_portal, execute_portal_resumes, execute_portal_inner,
           close_portal, close_statement
<1>1. CASE query \/ extended \/ sync \/ read_backend \/ copy_data \/ hang_up \/ cut_off \/
           cancel \/ stop \/ Finished
  BY <1>1, ReadFacts, Unnamed DEF RegistryMoves, WireTypes, RegistryInv, Registered_kinds, Reads, Bound, StaysRegistered,
     GoesOn, Leaves, RetiresPortals, ResetsForStatement, BeginsStatement, EndsQuery, Deallocates, ResetsForPortal,
     BeginsPortal, ResumesPortal, Finished, vars
<1>2. CASE failed_until_sync \/ failed_terminate \/ Terminate \/ end_of_input \/ Sync \/
           stray_copy_message
  BY <1>2, ReadFacts, Unnamed DEF RegistryMoves, WireTypes, RegistryInv, Registered_kinds, Reads, Bound, StaysRegistered,
     GoesOn, Leaves, RetiresPortals, ResetsForStatement, BeginsStatement, EndsQuery, Deallocates, ResetsForPortal,
     BeginsPortal, ResumesPortal
<1>3. CASE simple_query
  BY <1>3, ReadFacts, Unnamed DEF RegistryMoves, WireTypes, RegistryInv, Registered_kinds, Reads, Bound, StaysRegistered,
     GoesOn, Leaves, RetiresPortals, ResetsForStatement, BeginsStatement, EndsQuery, Deallocates, ResetsForPortal,
     BeginsPortal, ResumesPortal
<1>4. CASE copy_to_stdout
  BY <1>4, ReadFacts, Unnamed DEF RegistryMoves, WireTypes, RegistryInv, Registered_kinds, Reads, Bound, StaysRegistered,
     GoesOn, Leaves, RetiresPortals, ResetsForStatement, BeginsStatement, EndsQuery, Deallocates, ResetsForPortal,
     BeginsPortal, ResumesPortal
<1>5. CASE refuse_statement
  BY <1>5, ReadFacts, Unnamed DEF RegistryMoves, WireTypes, RegistryInv, Registered_kinds, Reads, Bound, StaysRegistered,
     GoesOn, Leaves, RetiresPortals, ResetsForStatement, BeginsStatement, EndsQuery, Deallocates, ResetsForPortal,
     BeginsPortal, ResumesPortal
<1>6. CASE execute_simple_statement
  BY <1>6, ReadFacts DEF RegistryMoves, ResetsForStatement
<1>7. CASE finish_statement
  BY <1>7, ReadFacts, Unnamed DEF RegistryMoves, WireTypes, RegistryInv, Registered_kinds, Reads, Bound, StaysRegistered,
     GoesOn, Leaves, RetiresPortals, ResetsForStatement, BeginsStatement, EndsQuery, Deallocates, ResetsForPortal,
     BeginsPortal, ResumesPortal
<1>8. CASE copy_from_stdin \/ receive_copy_data \/ receive_copy_done \/ receive_copy_fail
  BY <1>8, ReadFacts, Unnamed DEF RegistryMoves, WireTypes, RegistryInv, Registered_kinds, Reads, Bound, StaysRegistered,
     GoesOn, Leaves, RetiresPortals, ResetsForStatement, BeginsStatement, EndsQuery, Deallocates, ResetsForPortal,
     BeginsPortal, ResumesPortal
<1>9. CASE parse \/ execute_nothing \/ close_statement
  BY <1>9, ReadFacts, Unnamed DEF RegistryMoves, WireTypes, RegistryInv, Registered_kinds, Reads, Bound, StaysRegistered,
     GoesOn, Leaves, RetiresPortals, ResetsForStatement, BeginsStatement, EndsQuery, Deallocates, ResetsForPortal,
     BeginsPortal, ResumesPortal
<1>10. CASE execute_portal_starts
  BY <1>10, ReadFacts DEF RegistryMoves, ResetsForPortal
<1>11. CASE execute_portal_resumes \/ execute_portal_inner
  BY <1>11, ReadFacts, Unnamed DEF RegistryMoves, WireTypes, RegistryInv, Registered_kinds, Reads, Bound, StaysRegistered,
     GoesOn, Leaves, RetiresPortals, ResetsForStatement, BeginsStatement, EndsQuery, Deallocates, ResetsForPortal,
     BeginsPortal, ResumesPortal
<1>12. CASE begin_simple_statement
  BY <1>12, BeginFacts DEF RegistryMoves, BeginsStatement
<1>13. CASE begin_portal
  <2>1. /\ doing.kind = "starts_portal" /\ active' = active \union {doing.query}
        /\ forgotten' = forgotten \union ({portals[doing.portal].query} \cap active)
        /\ \/ /\ portals' = [portals EXCEPT ![doing.portal].query = doing.query,
                                              ![doing.portal].started = TRUE]
              /\ doing' = [doing EXCEPT !.kind = "portal"]
           \/ portals' = [portals EXCEPT ![doing.portal].query = doing.query] /\ doing' = Read
    BY <1>13
  <2>2. BeginsPortal
    <3>1. /\ [doing EXCEPT !.kind = "portal"].kind = "portal"
          /\ [doing EXCEPT !.kind = "portal"].query = doing.query
          /\ [doing EXCEPT !.kind = "portal"].portal = doing.portal
      BY Zenon, BeginFacts
    <3>2. CASE doing' = Read
      BY <2>1, <3>2, ReadFacts DEF BeginsPortal, Reads
    <3>3. CASE doing' = [doing EXCEPT !.kind = "portal"]
      BY <2>1, <3>1, <3>3, ReadFacts DEF BeginsPortal, Reads
    <3>4. QED
      BY <2>1, <3>2, <3>3
  <2>3. QED
    BY <2>2 DEF RegistryMoves
<1>14. QED
  BY <1>1, <1>2, <1>3, <1>4, <1>5, <1>6, <1>7, <1>8, <1>9, <1>10, <1>11, <1>12, <1>13, BindMoves DEF Next, Serve, Converse

LEMMA RegistryKeeps == ASSUME WireTypes, RegistryInv, RegistryMoves PROVE RegistryInv'
<1>0. /\ None \notin active
      /\ \A q \in active : HasOwner(q)
      /\ doing.kind \in {"starts_portal", "portal"} =>
             doing.portal \in DOMAIN portals /\ ~portals[doing.portal].completed
      /\ doing.kind = "portal" => portals[doing.portal].query = doing.query
      /\ doing.kind \in {"starts_statement", "starts_portal"} => doing.query # None
      /\ doing.kind \notin Registered_kinds => doing.query = None
      /\ doing.kind = "closed" => active = {}
      /\ portals \in [DOMAIN portals -> Portals] /\ DOMAIN portals \subseteq Names
      /\ New_query # None
  BY CountFacts DEF RegistryInv, WireTypes
<1>r. doing.kind \in {"read", "copy_in", "closed"} => doing.query = None
  BY <1>0 DEF Registered_kinds
<1>1. CASE StaysRegistered \/ GoesOn \/ Leaves
  BY <1>0, <1>1 DEF RegistryInv, Registered_kinds, HasOwner, StaysRegistered, GoesOn, Leaves
<1>2. CASE RetiresPortals
  <2>1. PICK ns \in SUBSET Names :
            /\ active' = Retired(ns)
            /\ portals' = Without(ns) \/ \E p, n \in Names : ns = {p} /\ portals' = Bound(p, n)
    BY <1>2 DEF RetiresPortals
  <2>2. \A p \in DOMAIN portals \ ns : p \in DOMAIN portals' /\ portals'[p] = portals[p]
    <3>1. CASE portals' = Without(ns)
      BY <1>0, <3>1, WithoutFacts
    <3>2. CASE \E p, n \in Names : ns = {p} /\ portals' = Bound(p, n)
      BY <3>2 DEF Bound
    <3>3. QED
      BY <2>1, <3>1, <3>2
  <2>3. \A q \in active' : /\ q \in active
                           /\ \A p \in ns \cap DOMAIN portals : portals[p].completed \/ portals[p].query # q
    BY <2>1 DEF Retired
  <2>4. /\ doing.query = None /\ doing'.query = None /\ doing'.kind = "read"
        /\ forgotten' = forgotten
    BY <1>r, <1>2 DEF RetiresPortals, Reads
  <2>5. ASSUME NEW q \in active' PROVE HasOwner(q)'
    <3>1. CASE q = doing.query \/ q \in forgotten
      BY <2>4, <3>1 DEF HasOwner
    <3>2. ASSUME NEW p \in DOMAIN portals, ~portals[p].completed, portals[p].query = q
          PROVE  HasOwner(q)'
      <4>1. p \notin ns
        BY <2>3, <2>5, <3>2
      <4>2. QED
        BY <2>2, <3>2, <4>1 DEF HasOwner
    <3>3. QED
      BY <1>0, <2>3, <2>5, <3>1, <3>2 DEF HasOwner
  <2>6. QED
    BY <1>0, <2>3, <2>4, <2>5 DEF RegistryInv, Registered_kinds
<1>3. CASE ResetsForStatement \/ ResetsForPortal \/ ResumesPortal
  <2>1. doing.query = None /\ UNCHANGED <<active, forgotten, portals>>
    BY <1>r, <1>3 DEF ResetsForStatement, ResetsForPortal, ResumesPortal
  <2>2. \A q \in active : q \in forgotten \/ \E x \in DOMAIN portals : ~portals[x].completed /\ portals[x].query = q
    BY <1>0, <2>1 DEF HasOwner
  <2>3. \A q \in active' : HasOwner(q)'
    BY <2>1, <2>2 DEF HasOwner
  <2>4. CASE ResetsForStatement
    BY <1>0, <2>1, <2>3, <2>4 DEF ResetsForStatement, RegistryInv, Registered_kinds
  <2>5. CASE ResetsForPortal
    BY <1>0, <2>1, <2>3, <2>5 DEF ResetsForPortal, RegistryInv, Registered_kinds
  <2>6. CASE ResumesPortal
    BY <1>0, <2>1, <2>3, <2>6 DEF ResumesPortal, RegistryInv, Registered_kinds
  <2>7. QED
    BY <1>3, <2>4, <2>5, <2>6
<1>7. CASE BeginsStatement
  <2>1. \A q \in active' : HasOwner(q)'
    BY <1>0, <1>7 DEF BeginsStatement, HasOwner
  <2>2. QED
    BY <1>0, <1>7, <2>1 DEF BeginsStatement, RegistryInv, Registered_kinds
<1>4. CASE EndsQuery
  <2>1. \A q \in active' : q \in active /\ q # doing.query
    BY <1>4 DEF EndsQuery
  <2>2. \A p \in DOMAIN portals : ~portals[p].completed /\ portals[p].query # doing.query =>
            p \in DOMAIN portals' /\ portals'[p] = portals[p]
    BY <1>0, <1>4 DEF EndsQuery
  <2>3. \A q \in active' : HasOwner(q)'
    <3>1. TAKE q \in active'
    <3>2. q \in forgotten \/ \E p \in DOMAIN portals : ~portals[p].completed /\ portals[p].query = q
      BY <1>0, <2>1 DEF HasOwner
    <3>3. forgotten' = forgotten
      BY <1>4 DEF EndsQuery
    <3>4. QED
      BY <2>1, <2>2, <3>2, <3>3 DEF HasOwner
  <2>4. QED
    BY <1>0, <1>4, <2>1, <2>3 DEF EndsQuery, Reads, RegistryInv, Registered_kinds
<1>5. CASE Deallocates
  <2>1. \A q \in active' : /\ q \in active /\ q # doing.query
                           /\ \A p \in DOMAIN portals : portals[p].completed \/ portals[p].query # q
    BY <1>0, <1>5 DEF Deallocates, Retired
  <2>2. \A q \in active' : q \in forgotten
    BY <1>0, <2>1 DEF HasOwner
  <2>3. \A q \in active' : HasOwner(q)'
    BY <1>5, <2>2 DEF Deallocates, HasOwner
  <2>4. QED
    BY <1>0, <1>5, <2>1, <2>3 DEF Deallocates, Reads, RegistryInv, Registered_kinds
<1>6. CASE BeginsPortal
  <2>1. doing.kind = "starts_portal" /\ doing.portal \in DOMAIN portals /\ ~portals[doing.portal].completed
    BY <1>0, <1>6 DEF BeginsPortal
  <2>2. portals[doing.portal] \in Portals
    BY <1>0, <2>1
  <2>3. /\ DOMAIN portals' = DOMAIN portals
        /\ portals'[doing.portal].query = doing.query /\ ~portals'[doing.portal].completed
        /\ \A x \in DOMAIN portals \ {doing.portal} : portals'[x] = portals[x]
    BY <1>0, <1>6, <2>1, <2>2 DEF BeginsPortal, Portals
  <2>4. active' = active \union {doing.query} /\ forgotten' = forgotten \union ({portals[doing.portal].query} \cap active)
    BY <1>6 DEF BeginsPortal
  <2>5. \A q \in active' : HasOwner(q)'
    <3>1. ASSUME NEW q, q = doing.query PROVE HasOwner(q)'
      <4>1. \E p \in DOMAIN portals' : ~portals'[p].completed /\ portals'[p].query = doing.query
        BY <2>1, <2>3
      <4>2. QED
        BY <3>1, <4>1 DEF HasOwner
    <3>2. ASSUME NEW q \in active, q # doing.query PROVE HasOwner(q)'
      <4>1. CASE q \in forgotten \/ q = portals[doing.portal].query
        BY <2>4, <3>2, <4>1 DEF HasOwner
      <4>2. ASSUME NEW x \in DOMAIN portals \ {doing.portal}, ~portals[x].completed, portals[x].query = q
            PROVE  HasOwner(q)'
        BY <2>3, <4>2 DEF HasOwner
      <4>3. QED
        BY <1>0, <3>2, <4>1, <4>2 DEF HasOwner
    <3>3. QED
      BY <2>4, <3>1, <3>2
  <2>6. QED
    BY <1>0, <1>6, <2>1, <2>3, <2>4, <2>5 DEF BeginsPortal, RegistryInv, Registered_kinds, Reads
<1>8. QED
  BY <1>1, <1>2, <1>3, <1>4, <1>5, <1>6, <1>7 DEF RegistryMoves

-----------------------------------------------------------------------------
(***************************************************************************)
(* Which query a CancelRequest may stop.                                   *)
(***************************************************************************)
Known(q) == q \in 1..Len(queries)

CancelInv ==
    /\ asked <= Issued
    /\ \A q \in 1..Len(queries) : queries[q] <= Issued
    /\ cancelled => \A q \in 1..Len(queries) : queries[q] <= asked
    /\ \A q \in stopped : Known(q) /\ queries[q] <= asked
    /\ doing.kind \in Registered_kinds => Known(doing.query)
    /\ \A p \in DOMAIN portals : portals[p].started => Known(portals[p].query)

\* What a step does to the flag, and which queries it refers to.
LeavesTheFlag ==
    /\ UNCHANGED <<asked, stopped, queries>> /\ (cancelled' => cancelled)
    /\ Issued' \in Nat /\ Issued <= Issued'

SetsTheFlag == UNCHANGED <<stopped, queries, requests, sent>> /\ asked' = Issued

ClearsTheFlag ==
    /\ queries' = Append(queries, Issued) /\ ~cancelled'
    /\ UNCHANGED <<asked, stopped, requests, sent>>

FindsTheFlag ==
    /\ cancelled /\ doing.kind \in Registered_kinds /\ stopped' = stopped \union {doing.query}
    /\ UNCHANGED <<asked, queries, requests, sent>>

Refers ==
    /\ doing'.kind \in Registered_kinds =>
           \/ doing.kind \in Registered_kinds /\ doing'.query = doing.query
           \/ doing'.query = New_query /\ queries' = Append(queries, Issued)
           \/ \E p \in DOMAIN portals : portals[p].started /\ doing'.query = portals[p].query
    /\ \A p \in DOMAIN portals' : portals'[p].started =>
           \/ p \in DOMAIN portals /\ portals[p].started /\ portals'[p].query = portals[p].query
           \/ doing.kind \in Registered_kinds /\ portals'[p].query = doing.query

CancelMoves ==
    (LeavesTheFlag \/ SetsTheFlag \/ ClearsTheFlag \/ FindsTheFlag) /\ Refers

LEMMA WithoutStarts ==
    ASSUME WireTypes, NEW ns, portals' = Without(ns)
    PROVE  \A p \in DOMAIN portals' : p \in DOMAIN portals /\ portals'[p] = portals[p]
<1>1. portals \in [DOMAIN portals -> Portals]
  BY DEF WireTypes
<1>2. QED
  BY <1>1, WithoutFacts

LEMMA CancelMovesAre == ASSUME WireTypes, RegistryInv, Next PROVE CancelMoves
<1>. USE DEF Send, Write, Reading, InOrder, Leave, FailQuery, FailExtended, Next_statement,
           Receiving, abort_copy_transaction, CopyUnchanged, ExtendedUnchanged, Begin_query,
           Reset_cancellation, Stopped_or_failed, ServerSide, ClientSide, server, registry
<1>0. /\ requests \in Nat /\ sent \in Nat /\ portals \in [DOMAIN portals -> Portals]
      /\ doing \in [kind : DoingKinds, query : Nat, portal : Names]
  BY DEF WireTypes
<1>s. ASSUME UNCHANGED <<portals, doing>> PROVE Refers
  BY <1>s DEF Refers
<1>r. ASSUME portals' = portals, doing'.kind \notin Registered_kinds PROVE Refers
  BY <1>r DEF Refers
<1>k. /\ Read.kind \notin Registered_kinds
      /\ [Read EXCEPT !.kind = "closed"].kind \notin Registered_kinds
      /\ [Read EXCEPT !.kind = "copy_in"].kind \notin Registered_kinds
  BY ReadFacts DEF Registered_kinds
<1>l. ASSUME UNCHANGED <<asked, stopped, queries, cancelled, requests, sent>> PROVE LeavesTheFlag
  <2>1. Issued' = Issued /\ Issued \in Nat
    BY <1>0, <1>l DEF Issued
  <2>2. QED
    BY <1>l, <2>1 DEF LeavesTheFlag
<1>p. ASSUME NEW ns, portals' = Without(ns), doing' = doing \/ doing'.kind \notin Registered_kinds PROVE Refers
  BY <1>p, WithoutStarts DEF Refers
<1>1. CASE query \/ extended \/ sync \/ read_backend \/ copy_data \/ hang_up \/ cut_off \/ stop
  <2>1. UNCHANGED <<portals, doing, asked, stopped, queries, cancelled>>
    BY <1>1 DEF query, extended, sync, read_backend, copy_data, hang_up, cut_off, stop
  <2>2. Issued' \in Nat /\ Issued <= Issued'
    <3>1. CASE UNCHANGED <<requests, sent>>
      BY <1>0, <3>1 DEF Issued
    <3>2. CASE requests' = requests + 1 /\ sent' \in {sent, 0}
      BY <1>0, <3>2 DEF Issued
    <3>3. CASE requests' = requests /\ sent' = sent + 1
      BY <1>0, <3>3 DEF Issued
    <3>4. QED
      BY <1>1, <3>1, <3>2, <3>3 DEF query, extended, sync, read_backend, copy_data, hang_up, cut_off, stop
  <2>3. QED
    BY <1>s, <2>1, <2>2 DEF CancelMoves, LeavesTheFlag
<1>2. CASE cancel
  <2>1. UNCHANGED <<portals, doing>> /\ SetsTheFlag
    BY <1>2 DEF cancel, SetsTheFlag
  <2>2. QED
    BY <1>s, <2>1 DEF CancelMoves
<1>3. CASE Finished \/ failed_until_sync \/ Terminate \/ Sync \/ stray_copy_message \/ refuse_statement
           \/ copy_to_stdout \/ copy_from_stdin \/ receive_copy_data \/ receive_copy_done
           \/ receive_copy_fail \/ execute_nothing
  <2>1. UNCHANGED <<portals, asked, stopped, queries, cancelled, requests, sent>>
    BY <1>3 DEF Finished, vars, failed_until_sync, Terminate, Sync, stray_copy_message, refuse_statement,
       copy_to_stdout, copy_from_stdin, receive_copy_data, receive_copy_done, receive_copy_fail, execute_nothing
  <2>2. doing' = doing \/ doing'.kind \notin Registered_kinds
    BY <1>3, <1>k DEF Finished, vars, failed_until_sync, Terminate, Sync, stray_copy_message, refuse_statement,
       copy_to_stdout, copy_from_stdin, receive_copy_data, receive_copy_done, receive_copy_fail, execute_nothing
  <2>3. QED
    BY <1>s, <1>r, <1>l, <2>1, <2>2 DEF CancelMoves
<1>4. CASE failed_terminate \/ end_of_input
  <2>1. /\ portals' = << >> /\ doing'.kind \notin Registered_kinds
        /\ UNCHANGED <<asked, stopped, queries, cancelled, requests, sent>>
    BY <1>4, <1>k DEF failed_terminate, end_of_input
  <2>2. Refers
    BY <2>1 DEF Refers
  <2>3. QED
    BY <1>l, <2>1, <2>2 DEF CancelMoves
<1>5. CASE simple_query
  <2>1. /\ portals' = Without({""}) /\ UNCHANGED <<asked, stopped, queries, cancelled, requests, sent>>
        /\ doing' = doing \/ doing'.kind \notin Registered_kinds
    BY <1>5, <1>k DEF simple_query
  <2>2. QED
    BY <1>l, <1>p, <2>1 DEF CancelMoves
<1>6. CASE execute_simple_statement
  <2>1. ClearsTheFlag
    BY <1>6 DEF execute_simple_statement, ClearsTheFlag
  <2>2. portals' = portals /\ doing'.query = New_query /\ queries' = Append(queries, Issued)
    BY <1>6, ReadFacts DEF execute_simple_statement
  <2>3. Refers
    BY <2>2 DEF Refers
  <2>4. QED
    BY <2>1, <2>3 DEF CancelMoves
<1>7. CASE begin_simple_statement
  <2>1. /\ doing.kind \in Registered_kinds /\ doing'.query = doing.query /\ portals' = portals
        /\ UNCHANGED <<asked, stopped, queries, cancelled, requests, sent>>
    BY <1>7, BeginFacts DEF begin_simple_statement, Registered_kinds
  <2>2. Refers
    BY <2>1 DEF Refers
  <2>3. QED
    BY <1>l, <2>1, <2>2 DEF CancelMoves
<1>8. CASE finish_statement
  <2>1. /\ doing.kind \in Registered_kinds /\ doing'.kind \notin Registered_kinds
        /\ portals' = portals \/ portals' = << >>
        /\ UNCHANGED <<asked, queries, cancelled, requests, sent>>
        /\ UNCHANGED stopped \/ (cancelled /\ stopped' = stopped \union {doing.query})
    BY <1>8, <1>k DEF finish_statement, Completed, Registered_kinds
  <2>2. Refers
    BY <2>1 DEF Refers
  <2>3. LeavesTheFlag \/ FindsTheFlag
    BY <1>l, <2>1 DEF FindsTheFlag
  <2>4. QED
    BY <2>2, <2>3 DEF CancelMoves
<1>9. CASE parse \/ bind \/ close_portal \/ close_statement
  <2>1. UNCHANGED <<asked, stopped, queries, cancelled, requests, sent>>
    BY <1>9 DEF parse, bind, close_portal, close_statement
  <2>2. doing' = doing \/ doing'.kind \notin Registered_kinds
    BY <1>9, <1>k DEF parse, bind, close_portal, close_statement
  <2>3. CASE portals' = portals
    BY <1>s, <1>r, <1>l, <2>1, <2>2, <2>3 DEF CancelMoves
  <2>4. CASE \E ns : portals' = Without(ns)
    BY <1>p, <1>l, <2>1, <2>2, <2>4 DEF CancelMoves
  <2>5. CASE \E p, n : portals' = Bound(p, n)
    <3>1. PICK p, n : portals' = Bound(p, n)
      BY <2>5
    <3>2. \A q \in DOMAIN portals' :
              ~portals'[q].started \/ (q \in DOMAIN portals /\ portals'[q] = portals[q])
      BY <3>1 DEF Bound
    <3>3. Refers
      BY <2>2, <3>2 DEF Refers
    <3>4. QED
      BY <1>l, <2>1, <3>3 DEF CancelMoves
  <2>6. QED
    <3>1. CASE parse
      BY <2>3, <2>4, <3>1 DEF parse
    <3>2. CASE bind
      <4>1. portals' = portals \/ portals' = Bound(Head(up).portal, Head(up).statement)
        BY <3>2 DEF bind, Bound
      <4>2. QED
        BY <2>3, <2>5, <4>1
    <3>3. CASE close_portal \/ close_statement
      BY <2>3, <2>4, <3>3 DEF close_portal, close_statement
    <3>4. QED
      BY <1>9, <3>1, <3>2, <3>3
<1>10. CASE execute_portal_starts
  <2>1. ClearsTheFlag
    BY <1>10 DEF execute_portal_starts, ClearsTheFlag
  <2>2. portals' = portals /\ doing'.query = New_query /\ queries' = Append(queries, Issued)
    BY <1>10 DEF execute_portal_starts
  <2>3. Refers
    BY <2>2 DEF Refers
  <2>4. QED
    BY <2>1, <2>3 DEF CancelMoves
<1>11. CASE begin_portal
  <2>1. /\ doing.kind \in Registered_kinds
        /\ UNCHANGED <<asked, queries, cancelled, requests, sent>>
        /\ UNCHANGED stopped \/ (cancelled /\ stopped' = stopped \union {doing.query})
    BY <1>11 DEF begin_portal, Registered_kinds
  <2>2. doing'.query = doing.query \/ doing'.kind \notin Registered_kinds
    BY <1>11, <1>k, BeginFacts DEF begin_portal
  <2>3. doing.portal \in DOMAIN portals
    BY <1>11 DEF begin_portal, RegistryInv
  <2>4. /\ DOMAIN portals' = DOMAIN portals
        /\ portals'[doing.portal].query = doing.query
        /\ \A p \in DOMAIN portals \ {doing.portal} : portals'[p] = portals[p]
    <3>1. portals[doing.portal] \in Portals
      BY <1>0, <2>3
    <3>2. portals' \in {[portals EXCEPT ![doing.portal].query = doing.query],
                        [portals EXCEPT ![doing.portal].query = doing.query, ![doing.portal].started = TRUE]}
      BY <1>11 DEF begin_portal
    <3>3. QED
      BY <1>0, <2>3, <3>1, <3>2 DEF Portals
  <2>5. Refers
    BY <2>1, <2>2, <2>4 DEF Refers
  <2>6. LeavesTheFlag \/ FindsTheFlag
    BY <1>l, <2>1 DEF FindsTheFlag
  <2>7. QED
    BY <2>5, <2>6 DEF CancelMoves
<1>12. CASE execute_portal_resumes
  <2>1. /\ UNCHANGED <<portals, asked, stopped, queries, cancelled, requests, sent>>
        /\ \E p \in DOMAIN portals : portals[p].started /\ doing'.query = portals[p].query
    BY <1>12 DEF execute_portal_resumes
  <2>2. Refers
    BY <2>1 DEF Refers
  <2>3. QED
    BY <1>l, <2>1, <2>2 DEF CancelMoves
<1>13. CASE execute_portal_inner
  <2>1. /\ doing.kind = "portal" /\ doing' = Read
        /\ UNCHANGED <<asked, queries, cancelled, requests, sent>>
        /\ UNCHANGED stopped \/ (cancelled /\ stopped' = stopped \union {doing.query})
    BY <1>13 DEF execute_portal_inner
  <2>2. doing.portal \in DOMAIN portals
    BY <2>1 DEF RegistryInv
  <2>3. \A p \in DOMAIN portals' : portals'[p].started =>
            p \in DOMAIN portals /\ portals[p].started /\ portals'[p].query = portals[p].query
    <3>1. portals[doing.portal] \in Portals
      BY <1>0, <2>2
    <3>2. \/ portals' = portals
          \/ portals' = [portals EXCEPT ![doing.portal].completed = TRUE, ![doing.portal].started = FALSE]
      BY <1>13 DEF execute_portal_inner
    <3>3. QED
      BY <1>0, <2>2, <3>1, <3>2 DEF Portals
  <2>4. Refers
    BY <1>k, <2>1, <2>3 DEF Refers
  <2>5. LeavesTheFlag \/ FindsTheFlag
    BY <1>l, <2>1 DEF FindsTheFlag, Registered_kinds
  <2>6. QED
    BY <2>4, <2>5 DEF CancelMoves
<1>14. QED
  BY <1>1, <1>2, <1>3, <1>4, <1>5, <1>6, <1>7, <1>8, <1>9, <1>10, <1>11, <1>12, <1>13 DEF Next, Serve, Converse

LEMMA CancelKeeps == ASSUME WireTypes, CancelInv, CancelMoves PROVE CancelInv'
<1>0. /\ requests \in Nat /\ sent \in Nat /\ asked \in Nat /\ queries \in Seq(Nat) /\ Issued \in Nat
      /\ Len(queries) \in Nat /\ New_query = Len(queries) + 1
  BY CountFacts, LenProperties DEF WireTypes, New_query
<1>1. CASE ~ClearsTheFlag
  <2>1. queries' = queries
    BY <1>1 DEF CancelMoves, LeavesTheFlag, SetsTheFlag, FindsTheFlag
  <2>2. \A q : Known(q)' <=> Known(q)
    BY <2>1 DEF Known
  <2>3. /\ doing'.kind \in Registered_kinds => Known(doing.query)'
        /\ (\A p \in DOMAIN portals : portals[p].started => Known(portals[p].query))'
    <3>1. queries' # Append(queries, Issued)
      <4>1. Len(Append(queries, Issued)) = Len(queries) + 1
        BY <1>0
      <4>2. QED
        BY <1>0, <2>1, <4>1
    <3>2. QED
      BY <2>2, <3>1 DEF CancelMoves, Refers, CancelInv
  <2>4. /\ asked' <= Issued' /\ \A q \in 1..Len(queries) : queries[q] <= Issued'
        /\ cancelled' => \A q \in 1..Len(queries) : queries[q] <= asked'
        /\ \A q \in stopped' : Known(q) /\ queries[q] <= asked'
    <3>0. \A q \in 1..Len(queries) : queries[q] \in Nat
      BY <1>0
    <3>1. CASE LeavesTheFlag
      BY <1>0, <3>0, <3>1 DEF LeavesTheFlag, CancelInv, Known
    <3>2. CASE SetsTheFlag
      <4>1. Issued' = Issued
        BY <3>2 DEF SetsTheFlag, Issued
      <4>2. QED
        BY <1>0, <3>0, <3>2, <4>1 DEF SetsTheFlag, CancelInv, Known
    <3>3. CASE FindsTheFlag
      <4>1. Issued' = Issued
        BY <3>3 DEF FindsTheFlag, Issued
      <4>2. QED
        BY <1>0, <3>0, <3>3, <4>1 DEF FindsTheFlag, CancelInv, Known
    <3>4. QED
      BY <1>1, <3>1, <3>2, <3>3 DEF CancelMoves
  <2>5. QED
    BY <2>1, <2>2, <2>3, <2>4 DEF CancelInv
<1>2. CASE ClearsTheFlag
  <2>1. /\ Len(queries') = Len(queries) + 1 /\ queries'[Len(queries) + 1] = Issued
        /\ \A q \in 1..Len(queries) : queries'[q] = queries[q]
    BY <1>0, <1>2 DEF ClearsTheFlag
  <2>2. /\ \A q \in 1..Len(queries) : q \in 1..Len(queries') /\ queries'[q] = queries[q]
        /\ New_query \in 1..Len(queries')
    BY <1>0, <2>1
  <2>3. Issued' = Issued /\ UNCHANGED <<asked, stopped>> /\ ~cancelled'
    BY <1>2 DEF ClearsTheFlag, Issued
  <2>4. \A q \in 1..Len(queries') : queries'[q] <= Issued
    <3>1. TAKE q \in 1..Len(queries')
    <3>2. q \in 1..Len(queries) \/ q = Len(queries) + 1
      BY <1>0, <2>1
    <3>3. QED
      BY <1>0, <2>1, <3>2 DEF CancelInv
  <2>5. \A q \in stopped' : Known(q)' /\ queries'[q] <= asked'
    BY <2>2, <2>3 DEF CancelInv, Known
  <2>6. /\ doing'.kind \in Registered_kinds => Known(doing.query)'
        /\ (\A p \in DOMAIN portals : portals[p].started => Known(portals[p].query))'
    BY <2>2 DEF CancelMoves, Refers, CancelInv, Known
  <2>7. QED
    BY <2>3, <2>4, <2>5, <2>6 DEF CancelInv
<1>3. QED
  BY <1>1, <1>2

-----------------------------------------------------------------------------
(***************************************************************************)
(* What is on the socket.  A request is in one of nine phases; a step      *)
(* leaves the phase as it is or takes it to the next one.                  *)
(***************************************************************************)
All(s, T) == \A i \in 1..Len(s) : s[i].type \in T
EndsWith(s, T, L) == s # << >> /\ s[Len(s)].type \in L /\ \A i \in 1..(Len(s) - 1) : s[i].type \in T
Errors(s) == \A i \in 1..Len(s) : s[i] = "error"
Answer(s, x) == s # << >> /\ s[Len(s)] = x /\ \A i \in 1..(Len(s) - 1) : s[i] = "error"

AtRest == up = << >> /\ rest = << >> /\ doing.kind = "read" /\ extended_state = "Ready"

ClientIdle == client.at = "idle" /\ AtRest /\ down = << >> /\ client.status = status
Batching ==
    /\ client.at = "batch" /\ All(up, ExtendedTypes)
    /\ Errors(down) /\ rest = << >> /\ doing.kind \in {"read", "starts_portal", "portal"}
Syncing ==
    /\ client.at = "waiting" /\ EndsWith(up, ExtendedTypes, {"Sync"})
    /\ Errors(down) /\ rest = << >> /\ doing.kind \in {"read", "starts_portal", "portal"}
Answering == client.at = "waiting" /\ AtRest /\ Answer(down, status)
Asking ==
    /\ client.at = "waiting" /\ Len(up) = 1 /\ up[1].type = "Query" /\ down = << >>
    /\ rest = << >> /\ doing.kind = "read" /\ extended_state = "Ready"
Running ==
    /\ client.at = "waiting" /\ up = << >> /\ down = << >> /\ rest # << >>
    /\ doing.kind \in {"read", "starts_statement", "statement"} /\ extended_state = "Ready"
CopyPhase == rest # << >> /\ doing.kind = "copy_in" /\ extended_state = "Ready"
Inviting == client.at = "waiting" /\ up = << >> /\ down = <<"G">> /\ CopyPhase
Copying == client.at = "copying" /\ All(up, {"CopyData"}) /\ down = << >> /\ CopyPhase
Copied ==
    /\ client.at = "waiting" /\ EndsWith(up, {"CopyData"}, {"CopyDone", "CopyFail"}) /\ down = << >>
    /\ CopyPhase

Phases ==
    \/ ClientIdle \/ Batching \/ Syncing \/ Answering \/ Asking \/ Running \/ Inviting \/ Copying \/ Copied
SyncInv == doing.kind = "closed" \/ client.at = "gone" \/ overrun \/ Phases

LEMMA SeqShape ==
    ASSUME NEW S, NEW s \in Seq(S)
    PROVE  /\ Len(s) \in Nat /\ (Len(s) = 0 <=> s = << >>)
           /\ s # << >> => /\ Len(s) > 0 /\ Head(s) = s[1] /\ Len(Tail(s)) = Len(s) - 1
                           /\ Len(Tail(s)) \in Nat
                           /\ \A i \in 1..Len(Tail(s)) : Tail(s)[i] = s[i + 1]
           /\ Len(s) = 1 => Tail(s) = << >>
           /\ Len(s) > 1 => Tail(s) # << >>
           /\ \A m \in S : Append(s, m) # << >>
<1>1. Len(s) \in Nat /\ (Len(s) = 0 <=> s = << >>)
  BY LenProperties, EmptySeq
<1>2. ASSUME s # << >>
      PROVE  /\ Len(s) > 0 /\ Head(s) = s[1] /\ Len(Tail(s)) = Len(s) - 1 /\ Len(Tail(s)) \in Nat
             /\ \A i \in 1..Len(Tail(s)) : Tail(s)[i] = s[i + 1]
             /\ Tail(s) \in Seq(S)
  BY <1>1, <1>2, HeadTailProperties
<1>3. Len(s) = 1 => Tail(s) = << >>
  <2>1. ASSUME Len(s) = 1 PROVE Tail(s) = << >>
    <3>1. Tail(s) \in Seq(S) /\ Len(Tail(s)) = 0
      BY <1>1, <1>2, <2>1
    <3>2. QED
      BY <3>1, EmptySeq
  <2>2. QED
    BY <2>1
<1>4. Len(s) > 1 => Tail(s) # << >>
  <2>1. ASSUME Len(s) > 1, Tail(s) = << >> PROVE FALSE
    <3>1. Len(Tail(s)) = 0
      BY <2>1, EmptySeq
    <3>2. QED
      BY <1>1, <1>2, <2>1, <3>1
  <2>2. QED
    BY <2>1
<1>5. \A m \in S : Append(s, m) # << >>
  BY <1>1, AppendProperties, EmptySeq
<1>6. QED
  BY <1>1, <1>2, <1>3, <1>4, <1>5

LEMMA UpFacts ==
    ASSUME NEW T, NEW L, NEW s \in Seq(Messages)
    PROVE  /\ All(<< >>, T)
           /\ \A m \in Messages : All(s, T) /\ m.type \in T => All(Append(s, m), T)
           /\ \A m \in Messages : All(s, T) /\ m.type \in L => EndsWith(Append(s, m), T, L)
           /\ All(s, T) /\ s # << >> => Head(s).type \in T /\ All(Tail(s), T)
           /\ EndsWith(s, T, L) => \/ Head(s).type \in L /\ Tail(s) = << >>
                                   \/ Head(s).type \in T /\ EndsWith(Tail(s), T, L)
<1>1. All(<< >>, T)
  BY DEF All
<1>2. ASSUME NEW m \in Messages, All(s, T) PROVE m.type \in T => All(Append(s, m), T)
  BY <1>2 DEF All
<1>3. ASSUME NEW m \in Messages, All(s, T) PROVE m.type \in L => EndsWith(Append(s, m), T, L)
  <2>0. Len(s) \in Nat
    BY LenProperties
  <2>1. /\ Len(Append(s, m)) = Len(s) + 1 /\ Append(s, m)[Len(s) + 1] = m
        /\ \A i \in 1..Len(s) : Append(s, m)[i] = s[i]
    OBVIOUS
  <2>2. Append(s, m) # << >>
    BY SeqShape
  <2>3. (Len(s) + 1) - 1 = Len(s)
    BY <2>0
  <2>4. QED
    BY <1>3, <2>1, <2>2, <2>3 DEF All, EndsWith
<1>4. ASSUME All(s, T), s # << >> PROVE Head(s).type \in T /\ All(Tail(s), T)
  BY <1>4 DEF All
<1>5. ASSUME EndsWith(s, T, L)
      PROVE  \/ Head(s).type \in L /\ Tail(s) = << >>
             \/ Head(s).type \in T /\ EndsWith(Tail(s), T, L)
  <2>0. s # << >> /\ Len(s) \in Nat /\ Len(s) > 0
    BY <1>5, LenProperties DEF EndsWith
  <2>1. CASE Len(s) = 1
    <3>1. Tail(s) = << >> /\ Head(s) = s[Len(s)]
      BY <2>0, <2>1, SeqShape
    <3>2. QED
      BY <1>5, <3>1 DEF EndsWith
  <2>2. CASE Len(s) # 1
    <3>0. Len(Tail(s)) = Len(s) - 1 /\ Len(Tail(s)) \in Nat
      BY <2>0, SeqShape
    <3>1. Len(s) > 1 /\ Len(Tail(s)) = Len(s) - 1 /\ Len(Tail(s)) \in Nat
      BY <2>0, <2>2, <3>0
    <3>2. \A i \in 1..Len(Tail(s)) : Tail(s)[i] = s[i + 1]
      BY <2>0, SeqShape
    <3>3. Head(s) = s[1] /\ 1 \in 1..(Len(s) - 1) /\ Tail(s) # << >>
      BY <2>0, <3>1, SeqShape
    <3>4. Tail(s)[Len(Tail(s))] = s[Len(s)]
      <4>1. Len(Tail(s)) \in 1..Len(Tail(s)) /\ Len(Tail(s)) + 1 = Len(s)
        BY <2>0, <3>1
      <4>2. QED
        BY <3>2, <4>1
    <3>5. \A i \in 1..(Len(Tail(s)) - 1) :
              i \in 1..Len(Tail(s)) /\ i + 1 \in 1..(Len(s) - 1) /\ Tail(s)[i] = s[i + 1]
      BY <2>0, <3>1, <3>2
    <3>6. QED
      BY <1>5, <3>3, <3>4, <3>5 DEF EndsWith
  <2>3. QED
    BY <2>1, <2>2
<1>6. QED
  BY <1>1, <1>2, <1>3, <1>4, <1>5

LEMMA DownFacts ==
    ASSUME NEW s \in Seq(Marks), NEW x \in Marks
    PROVE  /\ Errors(<< >>)
           /\ Errors(s) => Errors(s \o <<"error">>) /\ Answer(s \o <<x>>, x)
           /\ Answer(<< >> \o <<x>>, x) /\ Answer(<< >> \o <<"error", x>>, x)
           /\ Errors(s) /\ s # << >> => Head(s) = "error" /\ Errors(Tail(s))
           /\ Answer(s, x) => \/ Head(s) = x /\ Tail(s) = << >>
                              \/ Head(s) = "error" /\ Answer(Tail(s), x)
<1>0. "error" \in Marks
  BY DEF Marks
<1>1. Errors(<< >>)
  BY DEF Errors
<1>2. ASSUME Errors(s) PROVE Errors(s \o <<"error">>) /\ Answer(s \o <<x>>, x)
  <2>1. Errors(s \o <<"error">>)
    BY <1>2 DEF Errors
  <2>2. /\ Len(s \o <<x>>) = Len(s) + 1 /\ (s \o <<x>>)[Len(s) + 1] = x
        /\ \A i \in 1..Len(s) : (s \o <<x>>)[i] = s[i]
    OBVIOUS
  <2>3. Answer(s \o <<x>>, x)
    BY <1>2, <2>2 DEF Errors, Answer
  <2>4. QED
    BY <2>1, <2>3
<1>3. Answer(<< >> \o <<x>>, x) /\ Answer(<< >> \o <<"error", x>>, x)
  <2>1. << >> \o <<x>> = <<x>> /\ << >> \o <<"error", x>> = <<"error", x>>
    OBVIOUS
  <2>2. Answer(<<x>>, x) /\ Answer(<<"error", x>>, x)
    BY DEF Answer
  <2>3. QED
    BY <2>1, <2>2
<1>4. ASSUME Errors(s), s # << >> PROVE Head(s) = "error" /\ Errors(Tail(s))
  BY <1>4 DEF Errors
<1>5. ASSUME Answer(s, x)
      PROVE  \/ Head(s) = x /\ Tail(s) = << >>
             \/ Head(s) = "error" /\ Answer(Tail(s), x)
  <2>0. s # << >> /\ Len(s) \in Nat /\ Len(s) > 0
    BY <1>5, LenProperties DEF Answer
  <2>1. CASE Len(s) = 1
    <3>1. Tail(s) = << >> /\ Head(s) = s[Len(s)]
      BY <2>0, <2>1, SeqShape
    <3>2. s[Len(s)] = x
      BY <1>5 DEF Answer
    <3>3. QED
      BY <3>1, <3>2
  <2>2. CASE Len(s) # 1
    <3>0. Len(Tail(s)) = Len(s) - 1 /\ Len(Tail(s)) \in Nat
      BY <2>0, SeqShape
    <3>1. Len(s) > 1 /\ Len(Tail(s)) = Len(s) - 1 /\ Len(Tail(s)) \in Nat
      BY <2>0, <2>2, <3>0
    <3>2. \A i \in 1..Len(Tail(s)) : Tail(s)[i] = s[i + 1]
      BY <2>0, SeqShape
    <3>3. Head(s) = s[1] /\ 1 \in 1..(Len(s) - 1) /\ Tail(s) # << >>
      BY <2>0, <3>1, SeqShape
    <3>4. Tail(s)[Len(Tail(s))] = s[Len(s)]
      <4>1. Len(Tail(s)) \in 1..Len(Tail(s)) /\ Len(Tail(s)) + 1 = Len(s)
        BY <2>0, <3>1
      <4>2. QED
        BY <3>2, <4>1
    <3>5. \A i \in 1..(Len(Tail(s)) - 1) :
              i \in 1..Len(Tail(s)) /\ i + 1 \in 1..(Len(s) - 1) /\ Tail(s)[i] = s[i + 1]
      BY <2>0, <3>1, <3>2
    <3>6. QED
      BY <1>5, <3>3, <3>4, <3>5 DEF Answer
  <2>3. QED
    BY <2>1, <2>2
<1>6. QED
  BY <1>1, <1>2, <1>3, <1>4, <1>5

\* What a step does to the socket.
ServerSilent == UNCHANGED <<down, rest, doing, extended_state, status, overrun>>
ClientSilent == UNCHANGED client /\ overrun' = overrun

Asks ==
    /\ client.at = "idle" /\ client' = [client EXCEPT !.at = "waiting"] /\ ServerSilent
    /\ \E m \in Messages : m.type = "Query" /\ up' = Append(up, m)

Batches ==
    /\ client.at \in {"idle", "batch"} /\ client' = [client EXCEPT !.at = "batch"] /\ ServerSilent
    /\ \E m \in Extended : up' = Append(up, m)

EndsBatch ==
    /\ client.at = "batch" /\ client' = [client EXCEPT !.at = "waiting"] /\ ServerSilent
    /\ up' = Append(up, [type |-> "Sync"])

Receives ==
    /\ client.at = "waiting" /\ down # << >> /\ down' = Tail(down)
    /\ UNCHANGED <<up, rest, doing, extended_state, status, overrun>>
    /\ \/ Head(down) = "G" /\ client'.at = "copying"
       \/ Head(down) \in {"I", "T", "E"} /\ client'.at = "idle" /\ client'.status = Head(down)
       \/ Head(down) = "error" /\ client' = client

SendsData ==
    /\ client.at = "copying" /\ ServerSilent
    /\ \/ client'.at = "copying" /\ up' = Append(up, [type |-> "CopyData"])
       \/ client'.at = "waiting" /\ \E end \in {"CopyDone", "CopyFail"} : up' = Append(up, [type |-> end])

Nothing == up' = up /\ client' = client /\ ServerSilent

Ends == doing'.kind = "closed" \/ client'.at = "gone" \/ overrun'

Fails == down' = down \o <<"error">>
Replies == down' = down \o <<status'>> \/ down' = down \o <<"error", status'>>

ServesExtended ==
    /\ ClientSilent /\ doing.kind = "read" /\ up # << >> /\ up' = Tail(up) /\ rest' = rest
    /\ Head(up).type \in ExtendedTypes /\ doing'.kind \in {"read", "starts_portal", "portal"}
    /\ (down' = down \/ Fails)

ServesPortal ==
    /\ ClientSilent /\ doing.kind \in {"starts_portal", "portal"} /\ up' = up /\ rest' = rest
    /\ doing'.kind \in {"read", "portal"} /\ (down' = down \/ Fails)

ServesSync ==
    /\ ClientSilent /\ doing.kind = "read" /\ up # << >> /\ up' = Tail(up) /\ Head(up).type = "Sync"
    /\ down' = down \o <<status>> /\ extended_state' = "Ready" /\ UNCHANGED <<doing, rest, status>>

StartsQuery ==
    /\ ClientSilent /\ doing.kind = "read" /\ up # << >> /\ up' = Tail(up) /\ Head(up).type = "Query"
    /\ doing'.kind = "read" /\ UNCHANGED <<extended_state, status>>
    /\ \/ rest' # << >> /\ down' = down
       \/ rest' = << >> /\ Replies

ServesQuery ==
    /\ ClientSilent /\ doing.kind \in {"read", "starts_statement", "statement"} /\ rest # << >> /\ up' = up
    /\ extended_state' = extended_state
    /\ \/ /\ down' = down /\ rest' # << >>
          /\ doing'.kind \in {"read", "starts_statement", "statement"}
       \/ Replies /\ rest' = << >> /\ doing'.kind = "read"
       \/ down' = down \o <<"G">> /\ rest' = rest /\ doing'.kind = "copy_in"

ServesCopy ==
    /\ ClientSilent /\ doing.kind = "copy_in" /\ up # << >> /\ up' = Tail(up)
    /\ extended_state' = extended_state
    /\ \/ Head(up).type = "CopyData" /\ down' = down /\ rest' = rest /\ doing' = doing
       \/ /\ Head(up).type \in {"CopyDone", "CopyFail", "Terminate"} /\ doing'.kind = "read"
          /\ \/ rest' # << >> /\ down' = down
             \/ rest' = << >> /\ Replies

\* What the client does not send there.
ServesStray ==
    /\ ClientSilent /\ doing.kind = "read" /\ up # << >>
    /\ \/ Head(up).type \in {"CopyData", "CopyDone", "CopyFail", "Terminate"}
       \/ Head(up).type = "Query" /\ extended_state = "FailedUntilSync"

SyncMoves ==
    \/ Nothing \/ Ends
    \/ Asks \/ Batches \/ EndsBatch \/ Receives \/ SendsData
    \/ ServesExtended \/ ServesPortal \/ ServesSync \/ StartsQuery \/ ServesQuery \/ ServesCopy
    \/ ServesStray

LEMMA SyncMovesAre == ASSUME WireTypes, Next PROVE SyncMoves
<1>. USE DEF Send, Write, Reading, InOrder, Leave, FailQuery, FailExtended, Next_statement,
           Receiving, abort_copy_transaction, CopyUnchanged, ExtendedUnchanged, Begin_query, Reset_cancellation, Stopped_or_failed,
           Completed, Effect, Failure, ServerSide, ClientSide, server, registry, query,
           extended, sync, read_backend, copy_data, hang_up, cut_off, cancel, stop,
           failed_until_sync, failed_terminate, Terminate, end_of_input, Sync,
           stray_copy_message, simple_query, refuse_statement, execute_simple_statement,
           begin_simple_statement, finish_statement, copy_to_stdout, copy_from_stdin, receive_copy_data,
           receive_copy_done, receive_copy_fail, parse, bind, execute_nothing,
           execute_portal_starts, begin_portal, execute_portal_resumes, execute_portal_inner,
           close_portal, close_statement
<1>1. CASE Finished \/ query \/ extended \/ sync
  BY <1>1, ReadFacts, MessageFacts DEF SyncMoves, WireTypes, ServerSilent, ClientSilent, Asks, Batches, EndsBatch, Receives,
     SendsData, Nothing, Ends, Fails, Replies, ServesExtended, ServesPortal, ServesSync, StartsQuery,
     ServesQuery, ServesCopy, ServesStray, Messages, ExtendedTypes, Finished, vars
<1>2. CASE read_backend \/ copy_data
  BY <1>2, ReadFacts, MessageFacts DEF SyncMoves, WireTypes, ServerSilent, ClientSilent, Asks, Batches, EndsBatch, Receives,
     SendsData, Nothing, Ends, Fails, Replies, ServesExtended, ServesPortal, ServesSync, StartsQuery,
     ServesQuery, ServesCopy, ServesStray, Messages, ExtendedTypes
<1>3. CASE hang_up \/ cut_off \/ cancel \/ stop
  BY <1>3, ReadFacts, MessageFacts DEF SyncMoves, WireTypes, ServerSilent, ClientSilent, Asks, Batches, EndsBatch, Receives,
     SendsData, Nothing, Ends, Fails, Replies, ServesExtended, ServesPortal, ServesSync, StartsQuery,
     ServesQuery, ServesCopy, ServesStray, Messages, ExtendedTypes
<1>4. CASE failed_until_sync
  BY <1>4, ReadFacts, MessageFacts DEF SyncMoves, WireTypes, ServerSilent, ClientSilent, Asks, Batches, EndsBatch, Receives,
     SendsData, Nothing, Ends, Fails, Replies, ServesExtended, ServesPortal, ServesSync, StartsQuery,
     ServesQuery, ServesCopy, ServesStray, Messages, ExtendedTypes
<1>5. CASE failed_terminate \/ Terminate
  BY <1>5, ReadFacts, MessageFacts DEF SyncMoves, WireTypes, ServerSilent, ClientSilent, Asks, Batches, EndsBatch, Receives,
     SendsData, Nothing, Ends, Fails, Replies, ServesExtended, ServesPortal, ServesSync, StartsQuery,
     ServesQuery, ServesCopy, ServesStray, Messages, ExtendedTypes
<1>6. CASE end_of_input \/ Sync \/ stray_copy_message
  BY <1>6, ReadFacts, MessageFacts DEF SyncMoves, WireTypes, ServerSilent, ClientSilent, Asks, Batches, EndsBatch, Receives,
     SendsData, Nothing, Ends, Fails, Replies, ServesExtended, ServesPortal, ServesSync, StartsQuery,
     ServesQuery, ServesCopy, ServesStray, Messages, ExtendedTypes
<1>7. CASE simple_query
  <2>1. up \in Seq(Messages) /\ up # << >> /\ Head(up).type = "Query" /\ status' = status /\ doing.kind = "read"
    BY <1>7 DEF WireTypes
  <2>2. Head(up).statements # << >>
    BY <2>1, SeqFacts, MessageFacts
  <2>3. CASE rest' = Head(up).statements /\ down' = down /\ doing' = doing
    <3>1. StartsQuery
      BY <1>7, <2>1, <2>2, <2>3 DEF StartsQuery, ClientSilent
    <3>2. QED
      BY <3>1 DEF SyncMoves
  <2>4. CASE down' = down \o <<"error", status>> /\ doing' = Read /\ rest' = << >>
    <3>1. Replies
      BY <2>1, <2>4 DEF Replies
    <3>2. StartsQuery
      BY <1>7, <2>1, <2>4, <3>1, ReadFacts DEF StartsQuery, ClientSilent
    <3>3. QED
      BY <3>2 DEF SyncMoves
  <2>5. QED
    BY <1>7, <2>3, <2>4
<1>8. CASE refuse_statement
  BY <1>8, ReadFacts, MessageFacts DEF SyncMoves, WireTypes, ServerSilent, ClientSilent, Asks, Batches, EndsBatch, Receives,
     SendsData, Nothing, Ends, Fails, Replies, ServesExtended, ServesPortal, ServesSync, StartsQuery,
     ServesQuery, ServesCopy, ServesStray, Messages, ExtendedTypes
<1>9. CASE execute_simple_statement \/ begin_simple_statement
  <2>1. /\ rest # << >> /\ doing.kind \in {"read", "starts_statement"} /\ up' = up /\ rest' = rest
        /\ client' = client /\ overrun' = overrun /\ extended_state' = extended_state /\ down' = down
    BY <1>9 DEF WireTypes
  <2>2. doing'.kind \in {"starts_statement", "statement"}
    <3>1. [doing EXCEPT !.kind = "statement"].kind = "statement"
      BY Zenon, BeginFacts
    <3>2. CASE execute_simple_statement
      BY <3>2, ReadFacts DEF execute_simple_statement
    <3>3. CASE begin_simple_statement
      BY <3>1, <3>3 DEF begin_simple_statement
    <3>4. QED
      BY <1>9, <3>2, <3>3
  <2>3. ServesQuery
    BY <2>1, <2>2 DEF ServesQuery, ClientSilent
  <2>4. QED
    BY <2>3 DEF SyncMoves
<1>10. CASE finish_statement \/ copy_to_stdout
  <2>1. /\ rest \in Seq(Kinds) /\ rest # << >> /\ doing.kind \in {"read", "statement"}
        /\ up' = up /\ client' = client /\ overrun' = overrun /\ extended_state' = extended_state
    BY <1>10 DEF WireTypes
  <2>2. Len(rest) = 1 => Tail(rest) = << >>
    BY <2>1, SeqShape
  <2>3. Len(rest) # 1 => Tail(rest) # << >>
    <3>0. Len(rest) \in Nat /\ Len(rest) # 0
      BY <2>1, SeqShape
    <3>1. Len(rest) # 1 => Len(rest) > 1
      BY <3>0
    <3>2. QED
      BY <2>1, <3>1, SeqShape
  <2>4. CASE rest' = Tail(rest) /\ Len(rest) = 1 /\ down' = down \o <<status'>> /\ doing'.kind = "read"
    <3>1. ServesQuery
      BY <2>1, <2>2, <2>4 DEF ServesQuery, ClientSilent, Replies
    <3>2. QED
      BY <3>1 DEF SyncMoves
  <2>5. CASE rest' = Tail(rest) /\ Len(rest) # 1 /\ down' = down /\ doing'.kind = "read"
    <3>1. ServesQuery
      BY <2>1, <2>3, <2>5 DEF ServesQuery, ClientSilent
    <3>2. QED
      BY <3>1 DEF SyncMoves
  <2>6. CASE rest' = << >> /\ down' = down \o <<"error", status'>> /\ doing'.kind = "read"
    <3>1. ServesQuery
      BY <2>1, <2>6 DEF ServesQuery, ClientSilent, Replies
    <3>2. QED
      BY <3>1 DEF SyncMoves
  <2>7. CASE finish_statement
    BY <2>4, <2>5, <2>6, <2>7, ReadFacts
  <2>8. CASE copy_to_stdout
    <3>1. doing.kind = "read"
      BY <2>8
    <3>2. QED
      BY <2>4, <2>5, <2>6, <2>8, <3>1, ReadFacts
  <2>9. QED
    BY <1>10, <2>7, <2>8
<1>11. CASE copy_from_stdin \/ receive_copy_data
  BY <1>11, ReadFacts, MessageFacts DEF SyncMoves, WireTypes, ServerSilent, ClientSilent, Asks, Batches, EndsBatch, Receives,
     SendsData, Nothing, Ends, Fails, Replies, ServesExtended, ServesPortal, ServesSync, StartsQuery,
     ServesQuery, ServesCopy, ServesStray, Messages, ExtendedTypes
<1>12. CASE receive_copy_fail
  BY <1>12, ReadFacts, MessageFacts DEF SyncMoves, WireTypes, ServerSilent, ClientSilent, Asks, Batches, EndsBatch, Receives,
     SendsData, Nothing, Ends, Fails, Replies, ServesExtended, ServesPortal, ServesSync, StartsQuery,
     ServesQuery, ServesCopy, ServesStray, Messages, ExtendedTypes
<1>13. CASE receive_copy_done
  <2>1. /\ rest \in Seq(Kinds) /\ rest # << >> /\ doing.kind = "copy_in" /\ up # << >> /\ up' = Tail(up)
        /\ Head(up).type = "CopyDone"
        /\ client' = client /\ overrun' = overrun /\ extended_state' = extended_state
    BY <1>13 DEF WireTypes
  <2>2. Len(rest) = 1 => Tail(rest) = << >>
    BY <2>1, SeqShape
  <2>3. Len(rest) # 1 => Tail(rest) # << >>
    <3>0. Len(rest) \in Nat /\ Len(rest) # 0
      BY <2>1, SeqShape
    <3>1. Len(rest) # 1 => Len(rest) > 1
      BY <3>0
    <3>2. QED
      BY <2>1, <3>1, SeqShape
  <2>4. CASE rest' = Tail(rest) /\ Len(rest) = 1 /\ down' = down \o <<status'>> /\ doing'.kind = "read"
    <3>1. ServesCopy
      BY <2>1, <2>2, <2>4 DEF ServesCopy, ClientSilent, Replies
    <3>2. QED
      BY <3>1 DEF SyncMoves
  <2>5. CASE rest' = Tail(rest) /\ Len(rest) # 1 /\ down' = down /\ doing'.kind = "read"
    <3>1. ServesCopy
      BY <2>1, <2>3, <2>5 DEF ServesCopy, ClientSilent
    <3>2. QED
      BY <3>1 DEF SyncMoves
  <2>6. CASE rest' = << >> /\ down' = down \o <<"error", status'>> /\ doing'.kind = "read"
    <3>1. ServesCopy
      BY <2>1, <2>6 DEF ServesCopy, ClientSilent, Replies
    <3>2. QED
      BY <3>1 DEF SyncMoves
  <2>7. QED
    BY <1>13, <2>4, <2>5, <2>6, ReadFacts
<1>14. CASE parse \/ bind
  BY <1>14, ReadFacts, MessageFacts DEF SyncMoves, WireTypes, ServerSilent, ClientSilent, Asks, Batches, EndsBatch, Receives,
     SendsData, Nothing, Ends, Fails, Replies, ServesExtended, ServesPortal, ServesSync, StartsQuery,
     ServesQuery, ServesCopy, ServesStray, Messages, ExtendedTypes
<1>15. CASE execute_nothing
  BY <1>15, ReadFacts, MessageFacts DEF SyncMoves, WireTypes, ServerSilent, ClientSilent, Asks, Batches, EndsBatch, Receives,
     SendsData, Nothing, Ends, Fails, Replies, ServesExtended, ServesPortal, ServesSync, StartsQuery,
     ServesQuery, ServesCopy, ServesStray, Messages, ExtendedTypes
<1>16. CASE execute_portal_resumes
  BY <1>16, ReadFacts, MessageFacts DEF SyncMoves, WireTypes, ServerSilent, ClientSilent, Asks, Batches, EndsBatch, Receives,
     SendsData, Nothing, Ends, Fails, Replies, ServesExtended, ServesPortal, ServesSync, StartsQuery,
     ServesQuery, ServesCopy, ServesStray, Messages, ExtendedTypes
<1>17. CASE execute_portal_inner
  BY <1>17, ReadFacts, MessageFacts DEF SyncMoves, WireTypes, ServerSilent, ClientSilent, Asks, Batches, EndsBatch, Receives,
     SendsData, Nothing, Ends, Fails, Replies, ServesExtended, ServesPortal, ServesSync, StartsQuery,
     ServesQuery, ServesCopy, ServesStray, Messages, ExtendedTypes
<1>18. CASE close_portal \/ close_statement
  BY <1>18, ReadFacts, MessageFacts DEF SyncMoves, WireTypes, ServerSilent, ClientSilent, Asks, Batches, EndsBatch, Receives,
     SendsData, Nothing, Ends, Fails, Replies, ServesExtended, ServesPortal, ServesSync, StartsQuery,
     ServesQuery, ServesCopy, ServesStray, Messages, ExtendedTypes
<1>19. CASE execute_portal_starts
  <2>1. /\ doing.kind = "read" /\ up # << >> /\ up' = Tail(up) /\ rest' = rest /\ Head(up).type = "Execute"
        /\ client' = client /\ overrun' = overrun
    BY <1>19
  <2>2. down' = down /\ doing'.kind = "starts_portal"
    BY <1>19
  <2>3. ServesExtended
    BY <2>1, <2>2 DEF ServesExtended, ClientSilent, ExtendedTypes
  <2>4. QED
    BY <2>3 DEF SyncMoves
<1>20. CASE begin_portal
  <2>1. /\ doing.kind = "starts_portal" /\ up' = up /\ rest' = rest
        /\ client' = client /\ overrun' = overrun
    BY <1>20
  <2>2. \/ down' = down /\ doing'.kind = "portal"
        \/ down' = down \o <<"error">> /\ doing'.kind = "read"
    <3>1. [doing EXCEPT !.kind = "portal"].kind = "portal" /\ Read.kind = "read"
      BY Zenon, BeginFacts, ReadFacts
    <3>2. \/ down' = down /\ doing' = [doing EXCEPT !.kind = "portal"]
          \/ down' = down \o <<"error">> /\ doing' = Read
      BY <1>20
    <3>3. QED
      BY <3>1, <3>2
  <2>3. ServesPortal
    BY <2>1, <2>2 DEF ServesPortal, ClientSilent, Fails
  <2>4. QED
    BY <2>3 DEF SyncMoves
<1>21. QED
  BY <1>1, <1>2, <1>3, <1>4, <1>5, <1>6, <1>7, <1>8, <1>9, <1>10, <1>11, <1>12, <1>13, <1>14, <1>15, <1>16, <1>17, <1>18, <1>19, <1>20 DEF Next, Serve, Converse

LEMMA SyncKeeps == ASSUME WireTypes, WireTypes', SyncInv, SyncMoves PROVE SyncInv'
<1>0. /\ up \in Seq(Messages) /\ down \in Seq(Marks) /\ status \in Marks /\ status' \in Marks
      /\ client \in [at : {"idle", "batch", "waiting", "copying", "gone"}, left : Nat,
                   status : {"I", "T", "E"}]
      /\ status \in {"I", "T", "E"} /\ "G" \notin {"I", "T", "E"} /\ "error" \notin {"I", "T", "E"}
      /\ Len(up) \in Nat
  BY LenProperties DEF WireTypes, Marks
<1>t. /\ [type |-> "Sync"] \in Messages /\ [type |-> "CopyData"] \in Messages
      /\ [type |-> "CopyDone"] \in Messages /\ [type |-> "CopyFail"] \in Messages
      /\ Extended \subseteq Messages
  BY DEF Messages
<1>1. CASE Ends
  BY <1>1 DEF Ends, SyncInv
<1>2. CASE Nothing
  BY <1>2 DEF Nothing, ServerSilent, SyncInv, Phases, ClientIdle, Batching, Syncing, Answering, Asking, Running,
     Inviting, Copying, Copied, CopyPhase, AtRest
<1>3. CASE ~Phases
  BY <1>1, <1>3 DEF SyncInv, SyncMoves, Nothing, ServerSilent, ClientSilent, Asks, Batches, EndsBatch, Receives,
     SendsData, ServesExtended, ServesPortal, ServesSync, StartsQuery, ServesQuery, ServesCopy, ServesStray
<1>4. CASE Asks /\ Phases
  <2>1. ClientIdle
    BY <1>4 DEF Asks, Phases, ClientIdle, Batching, Syncing, Answering, Asking, Running, Inviting, Copying, Copied
  <2>2. Asking'
    <3>1. PICK m \in Messages : m.type = "Query" /\ up' = Append(up, m)
      BY <1>4 DEF Asks
    <3>2. up' = <<m>>
      BY <2>1, <3>1 DEF ClientIdle, AtRest
    <3>3. Len(up') = 1 /\ up'[1] = m
      BY <3>2
    <3>4. client'.at = "waiting"
      BY <1>0, <1>4 DEF Asks
    <3>5. QED
      BY <1>4, <2>1, <3>1, <3>3, <3>4 DEF Asks, Asking, ClientIdle, AtRest, ServerSilent
  <2>3. QED
    BY <2>2 DEF SyncInv, Phases
<1>5. CASE Batches /\ Phases
  <2>1. ClientIdle \/ Batching
    BY <1>5 DEF Batches, Phases, ClientIdle, Batching, Syncing, Answering, Asking, Running, Inviting, Copying, Copied
  <2>2. /\ All(up, ExtendedTypes) /\ Errors(down) /\ rest = << >> /\ doing.kind \in {"read", "starts_portal", "portal"}
    <3>1. CASE ClientIdle
      <4>1. up = << >> /\ down = << >> /\ rest = << >> /\ doing.kind = "read"
        BY <3>1 DEF ClientIdle, AtRest
      <4>2. All(<< >>, ExtendedTypes) /\ Errors(<< >>)
        BY DEF All, Errors
      <4>3. QED
        BY <4>1, <4>2
    <3>2. CASE Batching
      BY <3>2 DEF Batching
    <3>3. QED
      BY <2>1, <3>1, <3>2
  <2>3. PICK m \in Extended : up' = Append(up, m)
    BY <1>5 DEF Batches
  <2>4. All(up', ExtendedTypes)
    BY <1>0, <1>t, <2>2, <2>3, UpFacts, MessageFacts
  <2>5. client'.at = "batch"
    BY <1>0, <1>5 DEF Batches
  <2>6. Batching'
    BY <1>5, <2>2, <2>4, <2>5 DEF Batches, Batching, ServerSilent
  <2>7. QED
    BY <2>6 DEF SyncInv, Phases
<1>6. CASE EndsBatch /\ Phases
  <2>1. Batching
    BY <1>6 DEF EndsBatch, Phases, ClientIdle, Batching, Syncing, Answering, Asking, Running, Inviting, Copying, Copied
  <2>2. EndsWith(up', ExtendedTypes, {"Sync"})
    <3>1. [type |-> "Sync"].type \in {"Sync"} /\ up' = Append(up, [type |-> "Sync"]) /\ All(up, ExtendedTypes)
      BY <1>6, <2>1 DEF EndsBatch, Batching
    <3>2. QED
      BY <1>0, <1>t, <3>1, UpFacts
  <2>3. client'.at = "waiting"
    BY <1>0, <1>6 DEF EndsBatch
  <2>4. Syncing'
    BY <1>6, <2>1, <2>2, <2>3 DEF EndsBatch, Syncing, Batching, ServerSilent
  <2>5. QED
    BY <2>4 DEF SyncInv, Phases
<1>7. CASE Receives /\ Phases
  <2>0. UNCHANGED <<up, rest, doing, extended_state, status, overrun>> /\ down # << >> /\ down' = Tail(down)
    BY <1>7 DEF Receives
  <2>1. Syncing \/ Answering \/ Inviting
    BY <1>7 DEF Receives, Phases, ClientIdle, Batching, Syncing, Answering, Asking, Running, Inviting, Copying, Copied
  <2>2. CASE Syncing
    <3>1. Head(down) = "error" /\ Errors(Tail(down))
      BY <1>0, <2>0, <2>2, DownFacts DEF Syncing
    <3>2. client' = client
      BY <1>0, <1>7, <3>1 DEF Receives
    <3>3. Syncing'
      BY <2>0, <2>2, <3>1, <3>2 DEF Syncing
    <3>4. QED
      BY <3>3 DEF SyncInv, Phases
  <2>3. CASE Answering
    <3>1. \/ Head(down) = status /\ Tail(down) = << >>
          \/ Head(down) = "error" /\ Answer(Tail(down), status)
      BY <1>0, <2>3, DownFacts DEF Answering
    <3>2. CASE Head(down) = status /\ Tail(down) = << >>
      <4>1. client'.at = "idle" /\ client'.status = status
        BY <1>0, <1>7, <3>2 DEF Receives
      <4>2. ClientIdle'
        BY <2>0, <2>3, <3>2, <4>1 DEF ClientIdle, Answering, AtRest
      <4>3. QED
        BY <4>2 DEF SyncInv, Phases
    <3>3. CASE Head(down) = "error" /\ Answer(Tail(down), status)
      <4>1. client' = client
        BY <1>0, <1>7, <3>3 DEF Receives
      <4>2. Answering'
        BY <2>0, <2>3, <3>3, <4>1 DEF Answering, AtRest
      <4>3. QED
        BY <4>2 DEF SyncInv, Phases
    <3>4. QED
      BY <3>1, <3>2, <3>3
  <2>4. CASE Inviting
    <3>1. Head(down) = "G" /\ Tail(down) = << >>
      BY <2>4 DEF Inviting
    <3>2. client'.at = "copying"
      BY <1>0, <1>7, <3>1 DEF Receives
    <3>3. All(up, {"CopyData"})
      BY <1>0, <2>4, UpFacts DEF Inviting
    <3>4. Copying'
      BY <2>0, <2>4, <3>1, <3>2, <3>3 DEF Inviting, Copying, CopyPhase
    <3>5. QED
      BY <3>4 DEF SyncInv, Phases
  <2>5. QED
    BY <2>1, <2>2, <2>3, <2>4
<1>8. CASE SendsData /\ Phases
  <2>1. Copying
    BY <1>8 DEF SendsData, Phases, ClientIdle, Batching, Syncing, Answering, Asking, Running, Inviting, Copying, Copied
  <2>2. CASE client'.at = "copying" /\ up' = Append(up, [type |-> "CopyData"])
    <3>1. [type |-> "CopyData"].type \in {"CopyData"}
      OBVIOUS
    <3>2. All(up', {"CopyData"})
      BY <1>0, <1>t, <2>1, <2>2, <3>1, UpFacts DEF Copying
    <3>3. Copying'
      BY <1>8, <2>1, <2>2, <3>2 DEF SendsData, Copying, CopyPhase, ServerSilent
    <3>4. QED
      BY <3>3 DEF SyncInv, Phases
  <2>3. CASE client'.at = "waiting" /\ \E end \in {"CopyDone", "CopyFail"} : up' = Append(up, [type |-> end])
    <3>1. PICK m \in Messages : m.type \in {"CopyDone", "CopyFail"} /\ up' = Append(up, m)
      BY <1>t, <2>3
    <3>2. EndsWith(up', {"CopyData"}, {"CopyDone", "CopyFail"})
      BY <1>0, <2>1, <3>1, UpFacts DEF Copying
    <3>3. Copied'
      BY <1>8, <2>1, <2>3, <3>2 DEF SendsData, Copying, Copied, CopyPhase, ServerSilent
    <3>4. QED
      BY <3>3 DEF SyncInv, Phases
  <2>4. QED
    BY <1>8, <2>2, <2>3 DEF SendsData
\* A phase is over, or the server has answered.
<1>9. ASSUME client'.at = "waiting", up' = << >>, rest' = << >>, doing'.kind = "read", extended_state' = "Ready",
             Replies, down = << >>
      PROVE  SyncInv'
  <2>1. Answer(down', status')
    BY <1>0, <1>9, DownFacts DEF Replies
  <2>2. Answering'
    BY <1>9, <2>1 DEF Answering, AtRest
  <2>3. QED
    BY <2>2 DEF SyncInv, Phases
<1>10. CASE ServesExtended /\ Phases
  <2>0. /\ Head(up).type \in ExtendedTypes /\ up # << >> /\ up' = Tail(up)
        /\ doing.kind = "read" /\ client' = client
        /\ rest' = rest /\ doing'.kind \in {"read", "starts_portal", "portal"} /\ (down' = down \/ Fails)
    BY <1>10 DEF ServesExtended, ClientSilent
  <2>1. Batching \/ Syncing
    <3>1. ~Copying /\ ~Copied /\ ~Inviting /\ ~ClientIdle /\ ~Answering /\ ~Running
      BY <2>0 DEF ClientIdle, Answering, Running, Inviting, Copying, Copied, CopyPhase, AtRest
    <3>2. ~Asking
      BY <2>0 DEF Asking, ExtendedTypes
    <3>3. QED
      BY <1>10, <3>1, <3>2 DEF Phases
  <2>2. Errors(down) /\ Errors(down')
    BY <1>0, <2>0, <2>1, DownFacts DEF Batching, Syncing, Fails
  <2>3. CASE Batching
    <3>1. All(Tail(up), ExtendedTypes)
      BY <1>0, <2>0, <2>3, UpFacts DEF Batching
    <3>2. Batching'
      BY <2>0, <2>2, <2>3, <3>1 DEF Batching
    <3>3. QED
      BY <3>2 DEF SyncInv, Phases
  <2>4. CASE Syncing
    <3>0. "Sync" \notin ExtendedTypes
      BY DEF ExtendedTypes
    <3>1. EndsWith(Tail(up), ExtendedTypes, {"Sync"})
      BY <1>0, <2>0, <2>4, <3>0, UpFacts DEF Syncing
    <3>2. Syncing'
      BY <2>0, <2>2, <2>4, <3>1 DEF Syncing
    <3>3. QED
      BY <3>2 DEF SyncInv, Phases
  <2>5. QED
    BY <2>1, <2>3, <2>4
<1>11. CASE ServesPortal /\ Phases
  <2>0. /\ doing.kind \in {"starts_portal", "portal"} /\ client' = client /\ up' = up
        /\ rest' = rest /\ doing'.kind \in {"read", "portal"} /\ (down' = down \/ Fails)
    BY <1>11 DEF ServesPortal, ClientSilent
  <2>1. Batching \/ Syncing
    BY <1>11, <2>0 DEF Phases, ClientIdle, Answering, Asking, Running, Inviting, Copying, Copied, CopyPhase, AtRest
  <2>2. Errors(down')
    BY <1>0, <2>0, <2>1, DownFacts DEF Batching, Syncing, Fails
  <2>3. Batching' \/ Syncing'
    BY <2>0, <2>1, <2>2 DEF Batching, Syncing
  <2>4. QED
    BY <2>3 DEF SyncInv, Phases
<1>12. CASE ServesSync /\ Phases
  <2>0. /\ Head(up).type = "Sync" /\ up # << >> /\ up' = Tail(up) /\ doing.kind = "read"
        /\ client' = client /\ doing' = doing /\ rest' = rest /\ status' = status
        /\ down' = down \o <<status>> /\ extended_state' = "Ready"
    BY <1>12 DEF ServesSync, ClientSilent
  <2>1. Syncing
    <3>1. ~ClientIdle /\ ~Answering /\ ~Asking /\ ~Running /\ ~Inviting /\ ~Copying /\ ~Copied
      BY <2>0 DEF ClientIdle, Answering, Asking, Running, Inviting, Copying, Copied, CopyPhase, AtRest
    <3>2. ~Batching
      BY <1>0, <2>0, UpFacts DEF Batching, ExtendedTypes
    <3>3. QED
      BY <1>12, <3>1, <3>2 DEF Phases
  <2>2. Tail(up) = << >>
    <3>0. "Sync" \notin ExtendedTypes
      BY DEF ExtendedTypes
    <3>1. EndsWith(up, ExtendedTypes, {"Sync"})
      BY <2>1 DEF Syncing
    <3>2. Tail(up) = << >> \/ Head(up).type \in ExtendedTypes
      BY <1>0, <3>1, UpFacts
    <3>3. QED
      BY <2>0, <3>0, <3>2
  <2>3. Answer(down', status)
    BY <1>0, <2>0, <2>1, DownFacts DEF Syncing
  <2>4. Answering'
    BY <2>0, <2>1, <2>2, <2>3 DEF Syncing, Answering, AtRest
  <2>5. QED
    BY <2>4 DEF SyncInv, Phases
<1>13. CASE StartsQuery /\ Phases
  <2>0. /\ Head(up).type = "Query" /\ up # << >> /\ up' = Tail(up) /\ doing.kind = "read"
        /\ client' = client /\ doing'.kind = "read" /\ extended_state' = extended_state /\ status' = status
        /\ \/ rest' # << >> /\ down' = down
           \/ rest' = << >> /\ Replies
    BY <1>13 DEF StartsQuery, ClientSilent
  <2>1. Asking
    <3>1. ~ClientIdle /\ ~Answering /\ ~Running /\ ~Inviting /\ ~Copying /\ ~Copied
      BY <2>0 DEF ClientIdle, Answering, Running, Inviting, Copying, Copied, CopyPhase, AtRest
    <3>0. "Query" \notin ExtendedTypes
      BY DEF ExtendedTypes
    <3>2. ~Batching
      BY <1>0, <2>0, <3>0, UpFacts DEF Batching
    <3>4. ~Syncing
      <4>1. SUFFICES ASSUME Syncing PROVE FALSE
        OBVIOUS
      <4>2. EndsWith(up, ExtendedTypes, {"Sync"})
        BY <4>1 DEF Syncing
      <4>3. Head(up).type \in {"Sync"} \/ Head(up).type \in ExtendedTypes
        BY <1>0, <4>2, UpFacts
      <4>4. QED
        BY <2>0, <3>0, <4>3
    <3>3. QED
      BY <1>13, <3>1, <3>2, <3>4 DEF Phases
  <2>2. Tail(up) = << >>
    BY <1>0, <2>0, <2>1, SeqShape DEF Asking
  <2>3. CASE rest' # << >> /\ down' = down
    <3>1. Running'
      BY <2>0, <2>1, <2>2, <2>3 DEF Asking, Running
    <3>2. QED
      BY <3>1 DEF SyncInv, Phases
  <2>4. CASE rest' = << >> /\ Replies
    BY <1>9, <2>0, <2>1, <2>2, <2>4 DEF Asking
  <2>5. QED
    BY <2>0, <2>3, <2>4
<1>14. CASE ServesQuery /\ Phases
  <2>0. /\ doing.kind \in {"read", "starts_statement", "statement"} /\ rest # << >> /\ up' = up /\ client' = client
        /\ extended_state' = extended_state
        /\ \/ down' = down /\ rest' # << >> /\ doing'.kind \in {"read", "starts_statement", "statement"}
           \/ Replies /\ rest' = << >> /\ doing'.kind = "read"
           \/ down' = down \o <<"G">> /\ rest' = rest /\ doing'.kind = "copy_in"
    BY <1>14 DEF ServesQuery, ClientSilent
  <2>1. Running
    BY <1>14, <2>0 DEF Phases, ClientIdle, Batching, Syncing, Answering, Asking, Inviting, Copying, Copied, CopyPhase, AtRest
  <2>2. CASE down' = down /\ rest' # << >> /\ doing'.kind \in {"read", "starts_statement", "statement"}
    <3>1. Running'
      BY <2>0, <2>1, <2>2 DEF Running
    <3>2. QED
      BY <3>1 DEF SyncInv, Phases
  <2>3. CASE Replies /\ rest' = << >> /\ doing'.kind = "read"
    BY <1>9, <2>0, <2>1, <2>3 DEF Running
  <2>4. CASE down' = down \o <<"G">> /\ rest' = rest /\ doing'.kind = "copy_in"
    <3>1. down' = <<"G">>
      BY <2>1, <2>4 DEF Running
    <3>2. Inviting'
      BY <2>0, <2>1, <2>4, <3>1 DEF Running, Inviting, CopyPhase
    <3>3. QED
      BY <3>2 DEF SyncInv, Phases
  <2>5. QED
    BY <2>0, <2>2, <2>3, <2>4
<1>15. CASE ServesCopy /\ Phases
  <2>0. /\ doing.kind = "copy_in" /\ up # << >> /\ up' = Tail(up) /\ client' = client
        /\ extended_state' = extended_state
    BY <1>15 DEF ServesCopy, ClientSilent
  <2>1. Copying \/ Copied
    BY <1>15, <2>0 DEF Phases, ClientIdle, Batching, Syncing, Answering, Asking, Running, Inviting, AtRest
  <2>2. CASE Head(up).type = "CopyData" /\ down' = down /\ rest' = rest /\ doing' = doing
    <3>1. Copying => All(Tail(up), {"CopyData"})
      BY <1>0, <2>0, UpFacts DEF Copying
    <3>2. Copied => EndsWith(Tail(up), {"CopyData"}, {"CopyDone", "CopyFail"})
      BY <1>0, <2>0, <2>2, UpFacts DEF Copied
    <3>3. Copying' \/ Copied'
      BY <2>0, <2>1, <2>2, <3>1, <3>2 DEF Copying, Copied, CopyPhase
    <3>4. QED
      BY <3>3 DEF SyncInv, Phases
  <2>3. CASE /\ Head(up).type \in {"CopyDone", "CopyFail", "Terminate"} /\ doing'.kind = "read"
             /\ \/ rest' # << >> /\ down' = down
                \/ rest' = << >> /\ Replies
    <3>1. ~Copying
      BY <1>0, <2>0, <2>3, UpFacts DEF Copying
    <3>2. Copied /\ Tail(up) = << >>
      <4>1. Copied /\ EndsWith(up, {"CopyData"}, {"CopyDone", "CopyFail"})
        BY <2>1, <3>1 DEF Copied
      <4>2. Tail(up) = << >> \/ Head(up).type \in {"CopyData"}
        BY <1>0, <4>1, UpFacts
      <4>3. QED
        BY <2>3, <4>1, <4>2
    <3>3. CASE rest' # << >> /\ down' = down
      <4>1. Running'
        BY <2>0, <2>3, <3>2, <3>3 DEF Copied, CopyPhase, Running
      <4>2. QED
        BY <4>1 DEF SyncInv, Phases
    <3>4. CASE rest' = << >> /\ Replies
      BY <1>9, <2>0, <2>3, <3>2, <3>4 DEF Copied, CopyPhase
    <3>5. QED
      BY <2>3, <3>3, <3>4
  <2>4. QED
    BY <1>15, <2>2, <2>3 DEF ServesCopy
<1>16. CASE ServesStray /\ Phases
  <2>0. doing.kind = "read" /\ up # << >>
    BY <1>16 DEF ServesStray
  <2>1. Batching \/ Syncing \/ Asking
    BY <1>16, <2>0 DEF Phases, ClientIdle, Answering, Running, Inviting, Copying, Copied, CopyPhase, AtRest
  <2>2. \/ Head(up).type \in ExtendedTypes \union {"Sync"}
        \/ Head(up).type = "Query" /\ extended_state = "Ready"
    <3>1. Asking => Head(up).type = "Query" /\ extended_state = "Ready"
      BY <1>0, <2>0, SeqShape DEF Asking
    <3>2. Batching \/ Syncing => Head(up).type \in ExtendedTypes \union {"Sync"}
      BY <1>0, <2>0, UpFacts DEF Batching, Syncing
    <3>3. QED
      BY <2>1, <3>1, <3>2
  <2>3. QED
    BY <1>16, <2>2 DEF ServesStray, ExtendedTypes
<1>17. QED
  BY <1>1, <1>2, <1>3, <1>4, <1>5, <1>6, <1>7, <1>8, <1>10, <1>11, <1>12, <1>13, <1>14, <1>15, <1>16
  DEF SyncMoves

-----------------------------------------------------------------------------
WireInv == WireTypes /\ TransactionInv /\ RegistryInv /\ CancelInv /\ SyncInv

LEMMA WireInitially == Init => WireInv
<1>. SUFFICES ASSUME Init PROVE WireInv
  OBVIOUS
<1>1. doing = Read /\ status = "I" /\ active = {} /\ stopped = {}
  BY DEF Init
<1>2. TransactionInv /\ RegistryInv
  BY <1>1, ReadFacts DEF TransactionInv, RegistryInv
<1>c. CancelInv
  <2>1. requests = 0 /\ sent = 0 /\ asked = 0 /\ queries = << >> /\ portals = << >> /\ ~cancelled
    BY DEF Init
  <2>2. Issued = 0 /\ Len(<< >>) = 0 /\ DOMAIN << >> = {}
    BY <2>1 DEF Issued
  <2>3. doing.kind \notin Registered_kinds
    BY <1>1, ReadFacts DEF Registered_kinds
  <2>4. QED
    BY <1>1, <2>1, <2>2, <2>3 DEF CancelInv
<1>3. ClientIdle
  BY <1>1, ReadFacts DEF Init, ClientIdle, AtRest
<1>4. QED
  BY <1>2, <1>c, <1>3, WireTypesInitially DEF WireInv, SyncInv, Phases

LEMMA WireStep == WireInv /\ [Next]_vars => WireInv'
<1>. SUFFICES ASSUME WireInv, [Next]_vars PROVE WireInv'
  OBVIOUS
<1>0. WireTypes /\ TransactionInv /\ RegistryInv /\ CancelInv /\ SyncInv
  BY DEF WireInv
<1>1. CASE Next
  <2>1. Moves
    BY <1>0, <1>1, ClientMovesAre, SessionMovesAre, SimpleMovesAre, CopyMovesAre, ExtendedMovesAre, FinishedMoves
    DEF Next, Serve, Converse
  <2>2. WireTypes'
    BY <1>0, <2>1, TypesKeep
  <2>3. TransactionInv'
    BY <1>0, <1>1, TransactionsMove, TransactionKeeps
  <2>4. RegistryInv'
    BY <1>0, <1>1, RegistryMovesAre, RegistryKeeps
  <2>5. SyncInv'
    BY <1>0, <1>1, <2>2, SyncMovesAre, SyncKeeps
  <2>c. CancelInv'
    BY <1>0, <1>1, CancelMovesAre, CancelKeeps
  <2>6. QED
    BY <2>2, <2>3, <2>4, <2>5, <2>c DEF WireInv
<1>2. CASE UNCHANGED vars
  <2>1. WireTypes'
    BY <1>0, <1>2 DEF WireTypes, vars, server, registry
  <2>2. TransactionInv' /\ RegistryInv'
    BY <1>0, <1>2 DEF TransactionInv, RegistryInv, HasOwner, vars, server, registry
  <2>c. CancelInv'
    BY <1>0, <1>2 DEF CancelInv, Known, Issued, vars, server, registry
  <2>3. SyncInv'
    BY <1>0, <1>2 DEF SyncInv, Phases, ClientIdle, Batching, Syncing, Answering, Asking, Running, Inviting, Copying,
       Copied, CopyPhase, AtRest, vars, server, registry
  <2>4. QED
    BY <2>1, <2>2, <2>c, <2>3 DEF WireInv
<1>3. QED
  BY <1>1, <1>2

LEMMA WireInvariant == Spec => []WireInv
BY WireInitially, WireStep, PTL DEF Spec

\* The two ends of a connection agree on where a request ends: a client that has read its
\* ReadyForQuery has nothing in flight and knows the transaction status, whatever it has sent and
\* whatever has failed, as long as no COPY was given up while its data was on the way
\* (Connection::run, read_query_cycle_batches).
THEOREM EndsAgree == Spec => []InSync
<1>1. WireInv => InSync
  BY DEF WireInv, SyncInv, InSync, Phases, ClientIdle, Batching, Syncing, Answering, Asking, Running, Inviting,
     Copying, Copied, CopyPhase, AtRest
<1>2. QED
  BY <1>1, WireInvariant, PTL

\* A CancelRequest stops only what belongs to a request the client had begun to send when it came:
\* one that comes late stops nothing of a later request, wherever it falls between the
\* reset_cancellation of a query, its begin_query and its end (check_cancelled, Registry::cancel).
THEOREM CancelsAreFresh == Spec => []NoStaleCancel
<1>1. WireInv => NoStaleCancel
  BY DEF WireInv, CancelInv, NoStaleCancel
<1>2. QED
  BY <1>1, WireInvariant, PTL

\* The registry shows what the connection runs or may resume and is empty when it has gone, and
\* outside a COPY a transaction is open only because the client has begun it
\* (SessionGuard, begin_copy_transaction, complete_copy_transaction).
THEOREM ServerHoldsWhatTheClientDoes == Spec => []StateIsTheClients
<1>1. ASSUME WireInv PROVE StateIsTheClients
  <2>1. \A q \in active : HasOwner(q)
    BY <1>1 DEF WireInv, RegistryInv
  <2>2. active \subseteq {doing.query} \union forgotten
           \union {portals[p].query : p \in {q \in DOMAIN portals : ~portals[q].completed}}
    BY <2>1 DEF HasOwner
  <2>3. doing.kind = "closed" => active = {}
    BY <1>1 DEF WireInv, RegistryInv
  <2>4. (status = "T" /\ doing.kind # "copy_in") => began
    BY <1>1 DEF WireInv, TransactionInv
  <2>5. QED
    BY <2>2, <2>3, <2>4 DEF StateIsTheClients
<1>2. QED
  BY <1>1, WireInvariant, PTL

-----------------------------------------------------------------------------
(***************************************************************************)
(* A connector's helper.                                                   *)
(***************************************************************************)
\* What the variables hold while nothing was left behind.
CallStates ==
    [pc : {"none", "started", "waiting", "receiving", "done"},
     kind : {"none", "execute", "ai", "transaction"},
     cancelled : BOOLEAN, cancel_sent : BOOLEAN,
     answer : {"none", "closed", "dropped"} \union Terminal]

Shutdowns == [type : {"shutdown"}, id : {Disconnect}]
RequestMessages == [type : {"execute", "transaction", "cancel"}, id : Calls] \union Shutdowns
Commands == [type : {"execute", "transaction"}, id : Calls] \union Shutdowns
Responses == [type : {"event"} \union Terminal, id : Calls]
Executions ==
    {Idle} \union [pc : {"execute", "transaction", "terminal", "cancelled", "error"},
                   id : Calls, events : Nat]

ConnectorTypes ==
    /\ call \in [Calls -> CallStates]
    /\ turn \in Seq(Calls \union {Disconnect})
    /\ pending \in [DOMAIN pending -> {"execute", "transaction"}] /\ DOMAIN pending \subseteq Calls
    /\ running \in [DOMAIN running -> BOOLEAN] /\ DOMAIN running \subseteq Calls
    /\ to_helper \in Seq(RequestMessages)
    /\ from_helper \in Seq(Responses)
    /\ commands \in Seq(Commands)
    /\ executing \in Executions

IsRequest(r) == r.type \in {"execute", "transaction"}
Busy == executing.pc \in {"execute", "transaction", "cancelled", "error"}

\* Only who has the turn receives, and the table of pending requests has it.
Turns ==
    /\ \A c \in Calls : call[c].pc = "receiving" => HasTurn(c) /\ c \in DOMAIN pending
    /\ \A c \in DOMAIN pending :
           call[c].pc = "receiving" \/ (call[c].pc = "done" /\ call[c].answer = "closed")

\* What is under way is the receiver's, and of the kind it has asked for.
Fits(r) ==
    /\ r.type \in {"event", "complete", "cancelled"} => pending[r.id] = "execute"
    /\ r.type = "transaction" => pending[r.id] = "transaction"
Ours ==
    /\ \A i \in DOMAIN to_helper : IsRequest(to_helper[i]) =>
           /\ call[to_helper[i].id].pc = "receiving"
           /\ pending[to_helper[i].id] = to_helper[i].type
    /\ \A i \in DOMAIN commands : IsRequest(commands[i]) =>
           /\ call[commands[i].id].pc = "receiving"
           /\ pending[commands[i].id] = commands[i].type
    /\ Busy => /\ call[executing.id].pc = "receiving"
               /\ pending[executing.id] = IF executing.pc = "transaction" THEN "transaction"
                                          ELSE "execute"
    /\ helper # "gone" => \A i \in DOMAIN from_helper : call[from_helper[i].id].pc = "receiving"
    /\ \A c \in Calls : call[c].pc = "receiving" =>
           \A i \in DOMAIN from_helper : from_helper[i].id = c /\ Fits(from_helper[i])

\* A request is in one place: on its way, in the session's queue, with the driver, or
\* answered, and its last answer is the last there is.
Clear == ~Busy /\ from_helper = <<>>
OnePlace ==
    /\ \A i, j \in DOMAIN to_helper :
           IsRequest(to_helper[i]) /\ IsRequest(to_helper[j]) => i = j
    /\ \A i, j \in DOMAIN commands : IsRequest(commands[i]) /\ IsRequest(commands[j]) => i = j
    /\ \A i \in DOMAIN to_helper : IsRequest(to_helper[i]) =>
           /\ Clear /\ \A j \in DOMAIN commands : ~IsRequest(commands[j])
           /\ executing.pc = "terminal" => executing.id # to_helper[i].id
    /\ \A i \in DOMAIN commands : IsRequest(commands[i]) =>
           /\ Clear
           /\ executing.pc = "terminal" => executing.id # commands[i].id
    /\ \A i \in DOMAIN from_helper :
           from_helper[i].type \in Terminal => i = Len(from_helper) /\ ~Busy
    /\ executing # Idle => call[executing.id].pc \in {"receiving", "done"}

\* Only what its caller has cancelled, or its driver has given up, is reported as cancelled.
Excused(c) == call[c].cancelled \/ c \in given_up
Tokens ==
    /\ \A i \in DOMAIN to_helper : to_helper[i].type = "cancel" => call[to_helper[i].id].cancelled
    /\ \A c \in DOMAIN running : running[c] => call[c].cancelled
    /\ \A i \in DOMAIN commands : commands[i].type = "execute" => commands[i].id \in DOMAIN running
    /\ executing.pc = "execute" => executing.id \in DOMAIN running
    /\ executing.pc = "cancelled" => Excused(executing.id)
    /\ \A i \in DOMAIN from_helper :
           from_helper[i].type = "cancelled" => Excused(from_helper[i].id)
    /\ \A c \in Calls : call[c].answer = "cancelled" => Excused(c)

NothingIsLeft ==
    helper = "gone" =>
        to_helper = <<>> /\ commands = <<>> /\ executing = Idle /\ DOMAIN running = {}

\* The inductive invariant.  Nothing is said once something was left behind: from then on
\* the code itself may read an answer to another request, and reports an error.
Clean == ConnectorTypes /\ Turns /\ Ours /\ OnePlace /\ Tokens /\ NothingIsLeft
ConnectorInv == unclean \in BOOLEAN /\ (~unclean => Clean)

LEMMA Appended ==
    ASSUME NEW S, NEW s \in Seq(S), NEW e \in S
    PROVE  /\ Append(s, e) \in Seq(S) /\ Len(Append(s, e)) = Len(s) + 1
           /\ DOMAIN Append(s, e) = 1..(Len(s) + 1) /\ DOMAIN s = 1..Len(s)
           /\ Append(s, e)[Len(s) + 1] = e
           /\ \A i \in DOMAIN s : Append(s, e)[i] = s[i]
           /\ \A i \in DOMAIN Append(s, e) : i \in DOMAIN s \/ i = Len(s) + 1
           /\ Append(s, e) # <<>>
OBVIOUS

LEMMA Shortened ==
    ASSUME NEW S, NEW s \in Seq(S), s # <<>>
    PROVE  /\ Tail(s) \in Seq(S) /\ Len(Tail(s)) = Len(s) - 1 /\ Len(s) \in Nat
           /\ 1 \in DOMAIN s /\ Head(s) = s[1] /\ Head(s) \in S
           /\ \A i \in DOMAIN Tail(s) : i + 1 \in DOMAIN s /\ Tail(s)[i] = s[i + 1] /\ i \in Nat
           /\ DOMAIN s = 1..Len(s) /\ DOMAIN Tail(s) = 1..(Len(s) - 1)
OBVIOUS

\* A new ConnectorHost and a helper that has just been started.
LEMMA ConnectorInitially == ConnectorInit => ConnectorInv
<1> SUFFICES ASSUME ConnectorInit PROVE ConnectorInv
  OBVIOUS
<1>1. /\ call \in [Calls -> CallStates]
      /\ \A c \in Calls : call[c].pc = "none" /\ call[c].answer = "none"
  BY DEF ConnectorInit, CallStates, Terminal
<1>2. /\ DOMAIN NoEntry = {} /\ NoEntry \in [{} -> BOOLEAN]
      /\ NoEntry \in [{} -> {"execute", "transaction"}]
  BY DEF NoEntry
<1>3. Idle.pc = "idle" /\ Idle \in Executions
  BY DEF Idle, Executions
<1>4. ConnectorTypes
  BY <1>1, <1>2, <1>3 DEF ConnectorInit, ConnectorTypes
<1>5. Clean
  BY <1>1, <1>2, <1>3, <1>4 DEF ConnectorInit, Clean, Turns, Ours, OnePlace, Tokens, NothingIsLeft,
     Busy
<1> QED BY <1>5 DEF ConnectorInit, ConnectorInv

\* Whatever is under way, except for a shutdown, has the name of a call.
LEMMA NamesOfCalls ==
    ASSUME ConnectorTypes
    PROVE  /\ \A i \in DOMAIN to_helper : IsRequest(to_helper[i]) => to_helper[i].id \in Calls
           /\ \A i \in DOMAIN to_helper : to_helper[i].type = "cancel" => to_helper[i].id \in Calls
           /\ \A i \in DOMAIN commands : IsRequest(commands[i]) => commands[i].id \in Calls
           /\ \A i \in DOMAIN from_helper : from_helper[i].id \in Calls
           /\ executing # Idle => executing.id \in Calls
           /\ Idle.pc = "idle"
<1>1. /\ \A i \in DOMAIN to_helper : to_helper[i] \in RequestMessages
      /\ \A i \in DOMAIN commands : commands[i] \in Commands
      /\ \A i \in DOMAIN from_helper : from_helper[i] \in Responses
  BY DEF ConnectorTypes
<1>2. \A r \in RequestMessages : IsRequest(r) \/ r.type = "cancel" => r.id \in Calls
  BY DEF RequestMessages, Shutdowns, IsRequest
<1>3. \A r \in Commands : IsRequest(r) => r.id \in Calls
  BY DEF Commands, Shutdowns, IsRequest
<1>4. \A r \in Responses : r.id \in Calls
  BY DEF Responses
<1>5. executing # Idle => executing.id \in Calls
  BY DEF ConnectorTypes, Executions
<1> QED BY <1>1, <1>2, <1>3, <1>4, <1>5 DEF Idle

\* There is one receiver.
LEMMA OneReceiver ==
    ASSUME Clean, NEW c \in Calls, HasTurn(c)
    PROVE  /\ \A x \in Calls : call[x].pc = "receiving" => x = c
           /\ turn # <<>> /\ c = Head(turn)
           /\ Tail(turn) \in Seq(Calls \union {Disconnect})
BY Shortened DEF Clean, ConnectorTypes, Turns, HasTurn

\* Steps of callers and of disconnect that change nobody's receiving.
LEMMA CallersMove ==
    ASSUME Clean, call' \in [Calls -> CallStates],
           \A c \in Calls :
               /\ call'[c].pc = "receiving" <=> call[c].pc = "receiving"
               /\ call[c].pc \in {"receiving", "done"} =>
                      call'[c].pc = call[c].pc /\ call'[c].answer = call[c].answer
               /\ call[c].cancelled => call'[c].cancelled
               /\ call'[c].answer = "cancelled" => call[c].answer = "cancelled",
           turn' \in Seq(Calls \union {Disconnect}),
           \A c \in Calls : call[c].pc = "receiving" => HasTurn(c)',
           UNCHANGED <<pending, to_helper, from_helper, running, commands, executing, helper, given_up>>
    PROVE  Clean'
<1>1. ConnectorTypes'
  BY DEF Clean, ConnectorTypes
<1>2. Turns'
  BY DEF Clean, ConnectorTypes, Turns
<1>3. /\ \A i \in DOMAIN to_helper : IsRequest(to_helper[i]) => to_helper[i].id \in Calls
      /\ \A i \in DOMAIN to_helper : to_helper[i].type = "cancel" => to_helper[i].id \in Calls
      /\ \A i \in DOMAIN commands : IsRequest(commands[i]) => commands[i].id \in Calls
      /\ \A i \in DOMAIN from_helper : from_helper[i].id \in Calls
      /\ executing # Idle => executing.id \in Calls
      /\ Idle.pc = "idle"
  BY NamesOfCalls DEF Clean
<1>4. (Busy' <=> Busy) /\ (Clear' <=> Clear)
  BY DEF Busy, Clear
<1>5. Ours'
  BY <1>3, <1>4 DEF Clean, Ours, Fits, IsRequest, Busy
<1>6. OnePlace'
  BY <1>3, <1>4 DEF Clean, OnePlace, IsRequest
<1>7. Tokens'
  BY <1>3 DEF Clean, ConnectorTypes, Tokens, Excused
<1>8. NothingIsLeft'
  BY DEF Clean, NothingIsLeft
<1> QED BY <1>1, <1>2, <1>5, <1>6, <1>7, <1>8 DEF Clean

\* Who returns because the helper has gone or the host was taken.
LEMMA Closes ==
    ASSUME Clean, NEW c \in Calls, HasTurn(c), Return(c, "closed"),
           helper = "gone" \/ call[c].pc = "waiting",
           call[c].pc \in {"waiting", "receiving"},
           UNCHANGED <<pending, to_helper, from_helper, running, commands, executing, helper, given_up>>
    PROVE  Clean'
<1>1. /\ \A x \in Calls : call[x].pc = "receiving" => x = c
      /\ turn' \in Seq(Calls \union {Disconnect})
  BY OneReceiver DEF Return
<1>2. /\ call' \in [Calls -> CallStates] /\ call'[c].pc = "done" /\ call'[c].answer = "closed"
      /\ call'[c].cancelled = call[c].cancelled
      /\ \A x \in Calls \ {c} : call'[x] = call[x]
  BY DEF Clean, ConnectorTypes, Return, CallStates
<1>3. ConnectorTypes'
  BY <1>1, <1>2 DEF Clean, ConnectorTypes
<1>4. \A x \in Calls : call'[x].pc # "receiving"
  BY <1>1, <1>2
<1>5. Turns'
  BY <1>2, <1>4 DEF Clean, ConnectorTypes, Turns
<1>6. (Busy' <=> Busy) /\ (Clear' <=> Clear)
  BY DEF Busy, Clear
<1>7. /\ \A i \in DOMAIN to_helper : IsRequest(to_helper[i]) => to_helper[i].id \in Calls
      /\ \A i \in DOMAIN to_helper : to_helper[i].type = "cancel" => to_helper[i].id \in Calls
      /\ \A i \in DOMAIN commands : IsRequest(commands[i]) => commands[i].id \in Calls
      /\ \A i \in DOMAIN from_helper : from_helper[i].id \in Calls
      /\ executing # Idle => executing.id \in Calls
      /\ Idle.pc = "idle"
  BY NamesOfCalls DEF Clean
<1>8. Ours'
  <2>1. CASE helper = "gone"
    BY <2>1, <1>4, <1>6, <1>7 DEF Clean, Ours, NothingIsLeft, Busy
  <2>2. CASE call[c].pc = "waiting"
    BY <2>2, <1>1, <1>2, <1>4, <1>6, <1>7 DEF Clean, Ours, IsRequest, Busy
  <2> QED BY <2>1, <2>2
<1>9. OnePlace'
  BY <1>2, <1>6, <1>7 DEF Clean, OnePlace, IsRequest
<1>10. Tokens'
  BY <1>2, <1>7 DEF Clean, ConnectorTypes, Tokens, Excused
<1>11. NothingIsLeft'
  BY DEF Clean, NothingIsLeft
<1> QED BY <1>3, <1>5, <1>8, <1>9, <1>10, <1>11 DEF Clean

\* send_v3 puts the request on its way, and there is none but it.
LEMMA Sends ==
    ASSUME Clean, NEW c \in Calls, send_v3(c), host = "open", helper # "gone"
    PROVE  Clean'
<1> DEFINE kind == IF call[c].kind = "transaction" THEN "transaction" ELSE "execute"
           m == Message(kind, c)
<1>1. /\ pending' = Put(pending, c, kind) /\ pending'[c] = kind
      /\ to_helper' = Append(to_helper, m) /\ m.type = kind /\ m.id = c
      /\ UNCHANGED <<turn, from_helper, running, commands, executing, helper, given_up>>
      /\ call[c].pc = "waiting" /\ HasTurn(c)
  <2>1. /\ pending' = Put(pending, c, kind) /\ to_helper' = Append(to_helper, Message(pending'[c], c))
        /\ UNCHANGED <<turn, from_helper, running, commands, executing, helper, given_up>>
        /\ call[c].pc = "waiting" /\ HasTurn(c)
    BY DEF send_v3, helperVars
  <2>2. pending'[c] = kind
    <3> HIDE DEF kind
    <3>1. Put(pending, c, kind)[c] = kind
      BY DEF Put
    <3> QED BY <2>1, <3>1
  <2> QED BY <2>1, <2>2 DEF Message
<1>2. \A x \in Calls : call[x].pc # "receiving"
  BY <1>1, OneReceiver
<1>3. /\ call' \in [Calls -> CallStates] /\ call'[c].pc = "receiving"
      /\ \A x \in Calls : call'[x].cancelled = call[x].cancelled /\ call'[x].answer = call[x].answer
      /\ \A x \in Calls \ {c} : call'[x] = call[x]
  <2>1. call' = [call EXCEPT ![c].pc = "receiving"]
    BY DEF send_v3
  <2> QED BY <2>1 DEF Clean, ConnectorTypes, CallStates
<1>4. /\ \A i \in DOMAIN to_helper : IsRequest(to_helper[i]) => to_helper[i].id \in Calls
      /\ \A i \in DOMAIN to_helper : to_helper[i].type = "cancel" => to_helper[i].id \in Calls
      /\ \A i \in DOMAIN commands : IsRequest(commands[i]) => commands[i].id \in Calls
      /\ \A i \in DOMAIN from_helper : from_helper[i].id \in Calls
      /\ executing # Idle => executing.id \in Calls
      /\ Idle.pc = "idle"
  BY NamesOfCalls DEF Clean
<1>5. /\ \A i \in DOMAIN to_helper : ~IsRequest(to_helper[i])
      /\ \A i \in DOMAIN commands : ~IsRequest(commands[i])
      /\ ~Busy
  BY <1>2, <1>4 DEF Clean, Ours, Busy
<1>6. from_helper = <<>>
  <2>1. \A i \in DOMAIN from_helper : FALSE
    BY <1>2, <1>4 DEF Clean, Ours
  <2> QED BY <2>1, Shortened DEF Clean, ConnectorTypes
<1>7. kind \in {"execute", "transaction"} /\ m \in RequestMessages /\ to_helper \in Seq(RequestMessages)
  BY DEF RequestMessages, Message, Clean, ConnectorTypes
<1>8. /\ to_helper' \in Seq(RequestMessages)
      /\ Len(to_helper) + 1 \in DOMAIN to_helper' /\ to_helper'[Len(to_helper) + 1] = m
      /\ \A i \in DOMAIN to_helper' :
             \/ i \in DOMAIN to_helper /\ to_helper'[i] = to_helper[i]
             \/ i = Len(to_helper) + 1 /\ to_helper'[i] = m
  BY <1>1, <1>7, Appended
<1>9. \A i \in DOMAIN to_helper' : IsRequest(to_helper'[i]) =>
          i = Len(to_helper) + 1 /\ to_helper'[i] = m
  BY <1>8, <1>5
<1>10. /\ pending' \in [DOMAIN pending' -> {"execute", "transaction"}]
       /\ DOMAIN pending' = DOMAIN pending \union {c}
       /\ \A x \in DOMAIN pending \ {c} : pending'[x] = pending[x]
  <2> HIDE DEF kind
  <2>1. pending \in [DOMAIN pending -> {"execute", "transaction"}]
    BY DEF Clean, ConnectorTypes
  <2>2. Put(pending, c, kind) \in [DOMAIN pending \union {c} -> {"execute", "transaction"}]
    BY <1>7, <2>1 DEF Put
  <2>3. /\ DOMAIN Put(pending, c, kind) = DOMAIN pending \union {c}
        /\ \A x \in DOMAIN pending \ {c} : Put(pending, c, kind)[x] = pending[x]
    BY DEF Put
  <2> QED BY <1>1, <2>2, <2>3
<1>11. ConnectorTypes'
  BY <1>1, <1>3, <1>8, <1>10 DEF Clean, ConnectorTypes
<1>12. Turns'
  <2>1. HasTurn(c)'
    BY <1>1 DEF HasTurn
  <2>2. \A x \in Calls : call'[x].pc = "receiving" => x = c
    BY <1>2, <1>3
  <2>3. \A x \in DOMAIN pending : x # c =>
            call'[x].pc = "receiving" \/ (call'[x].pc = "done" /\ call'[x].answer = "closed")
    BY <1>3 DEF Clean, ConnectorTypes, Turns
  <2> QED BY <1>3, <1>10, <2>1, <2>2, <2>3 DEF Turns
<1>13. ~Busy' /\ Clear' /\ from_helper' = <<>> /\ DOMAIN from_helper' = {}
  BY <1>1, <1>5, <1>6 DEF Busy, Clear
<1>14. Ours'
  BY <1>1, <1>3, <1>5, <1>9, <1>13 DEF Ours
<1>15. executing # Idle => executing.id # c
  BY <1>1 DEF Clean, OnePlace
<1>16. OnePlace'
  BY <1>1, <1>3, <1>4, <1>5, <1>9, <1>13, <1>15 DEF Clean, OnePlace
<1>17. Tokens'
  <2>1. m.type # "cancel"
    BY <1>1, <1>7
  <2>2. \A i \in DOMAIN to_helper' :
            to_helper'[i].type = "cancel" => call'[to_helper'[i].id].cancelled
    BY <1>3, <1>4, <1>8, <2>1 DEF Clean, Tokens
  <2>3. \A x \in DOMAIN running : running[x] => call'[x].cancelled
    BY <1>3 DEF Clean, ConnectorTypes, Tokens
  <2>4. executing.pc = "cancelled" => call'[executing.id].cancelled \/ executing.id \in given_up
    BY <1>3, <1>4 DEF Clean, Tokens, Excused
  <2>5. \A x \in Calls : call'[x].answer = "cancelled" => call'[x].cancelled \/ x \in given_up
    BY <1>3 DEF Clean, Tokens, Excused
  <2>6. /\ \A i \in DOMAIN commands :
               commands[i].type = "execute" => commands[i].id \in DOMAIN running
        /\ executing.pc = "execute" => executing.id \in DOMAIN running
    BY DEF Clean, Tokens
  <2> QED BY <1>1, <1>13, <2>2, <2>3, <2>4, <2>5, <2>6 DEF Tokens, Excused
<1>18. NothingIsLeft'
  BY <1>1 DEF NothingIsLeft
<1> QED BY <1>11, <1>12, <1>14, <1>16, <1>17, <1>18 DEF Clean

\* A cancellation or the shutdown is sent.
LEMMA Notifies ==
    ASSUME Clean, helper # "gone",
           call' \in [Calls -> CallStates],
           \A c \in Calls :
               /\ call'[c].pc = call[c].pc /\ call'[c].answer = call[c].answer
               /\ call'[c].cancelled = call[c].cancelled,
           turn' \in Seq(Calls \union {Disconnect}),
           \A c \in Calls : call[c].pc = "receiving" => HasTurn(c)',
           NEW m \in RequestMessages, ~IsRequest(m),
           m.type = "cancel" => call[m.id].cancelled /\ m.id \in Calls,
           to_helper' = Append(to_helper, m),
           UNCHANGED <<pending, from_helper, running, commands, executing, helper, given_up>>
    PROVE  Clean'
<1>1. /\ to_helper' \in Seq(RequestMessages)
      /\ \A i \in DOMAIN to_helper' :
             \/ i \in DOMAIN to_helper /\ to_helper'[i] = to_helper[i]
             \/ i = Len(to_helper) + 1 /\ to_helper'[i] = m
  BY Appended DEF Clean, ConnectorTypes
<1>2. \A i \in DOMAIN to_helper' :
          IsRequest(to_helper'[i]) => i \in DOMAIN to_helper /\ to_helper'[i] = to_helper[i]
  BY <1>1
<1>3. /\ \A i \in DOMAIN to_helper : IsRequest(to_helper[i]) => to_helper[i].id \in Calls
      /\ \A i \in DOMAIN to_helper : to_helper[i].type = "cancel" => to_helper[i].id \in Calls
      /\ \A i \in DOMAIN commands : IsRequest(commands[i]) => commands[i].id \in Calls
      /\ \A i \in DOMAIN from_helper : from_helper[i].id \in Calls
      /\ executing # Idle => executing.id \in Calls
      /\ Idle.pc = "idle"
  BY NamesOfCalls DEF Clean
<1>4. ConnectorTypes'
  BY <1>1 DEF Clean, ConnectorTypes
<1>5. Turns'
  BY DEF Clean, ConnectorTypes, Turns
<1>6. (Busy' <=> Busy) /\ (Clear' <=> Clear)
  BY DEF Busy, Clear
<1>7. Ours'
  BY <1>2, <1>3, <1>6 DEF Clean, Ours, Fits, Busy
<1>8. OnePlace'
  BY <1>2, <1>3, <1>6 DEF Clean, OnePlace
<1>9. Tokens'
  <2>1. \A i \in DOMAIN to_helper' :
            to_helper'[i].type = "cancel" => call'[to_helper'[i].id].cancelled
    <3> SUFFICES ASSUME NEW i \in DOMAIN to_helper', to_helper'[i].type = "cancel"
                 PROVE  call'[to_helper'[i].id].cancelled
      OBVIOUS
    <3>1. CASE i \in DOMAIN to_helper /\ to_helper'[i] = to_helper[i]
      BY <3>1, <1>3 DEF Clean, Tokens
    <3>2. CASE to_helper'[i] = m
      BY <3>2
    <3> QED BY <1>1, <3>1, <3>2
  <2>2. \A c \in DOMAIN running : running[c] => call'[c].cancelled
    BY DEF Clean, ConnectorTypes, Tokens
  <2> QED BY <1>3, <2>1, <2>2 DEF Clean, Tokens, Excused
<1>10. NothingIsLeft'
  BY DEF NothingIsLeft
<1> QED BY <1>4, <1>5, <1>7, <1>8, <1>9, <1>10 DEF Clean

\* The helper process is no longer there.
LEMMA HelperIsGone ==
    ASSUME Clean, Gone, UNCHANGED <<call, turn, pending, from_helper, given_up>>
    PROVE  Clean'
<1>1. Idle.pc = "idle" /\ Idle \in Executions /\ DOMAIN NoEntry = {} /\ NoEntry \in [{} -> BOOLEAN]
  BY DEF Idle, Executions, NoEntry
<1>2. ConnectorTypes'
  BY <1>1 DEF Clean, ConnectorTypes, Gone
<1>3. Turns' /\ NothingIsLeft'
  BY <1>1 DEF Clean, Turns, Gone, NothingIsLeft, HasTurn
<1>4. ~Busy'
  BY <1>1 DEF Gone, Busy
<1>5. Ours'
  BY <1>4 DEF Clean, Ours, Gone, Fits
<1>6. OnePlace'
  BY <1>1, <1>4 DEF Clean, OnePlace, Gone
<1>7. Tokens'
  BY <1>1 DEF Clean, Tokens, Excused, Gone
<1> QED BY <1>2, <1>3, <1>5, <1>6, <1>7 DEF Clean

\* The answer is of the kind that is expected, and it is the caller's.
LEMMA GetsItsAnswer ==
    ASSUME Clean, NEW c \in Calls, receive_v3(c)
    PROVE  Clean'
<1> DEFINE r == Head(from_helper)
<1>1. /\ call[c].pc = "receiving" /\ HasTurn(c) /\ from_helper # <<>>
      /\ UNCHANGED <<to_helper, running, commands, executing, helper, given_up>>
  BY DEF receive_v3, helperVars
<1>2. /\ 1 \in DOMAIN from_helper /\ r = from_helper[1] /\ r \in Responses
      /\ Tail(from_helper) \in Seq(Responses)
      /\ \A i \in DOMAIN Tail(from_helper) :
             i + 1 \in DOMAIN from_helper /\ Tail(from_helper)[i] = from_helper[i + 1] /\ i \in Nat
      /\ Len(Tail(from_helper)) = Len(from_helper) - 1 /\ Len(from_helper) \in Nat
      /\ DOMAIN from_helper = 1..Len(from_helper)
      /\ DOMAIN Tail(from_helper) = 1..(Len(from_helper) - 1)
  BY <1>1, Shortened DEF Clean, ConnectorTypes
<1>3. r.id = c /\ Fits(r) /\ c \in DOMAIN pending
  BY <1>1, <1>2 DEF Clean, Ours, Turns
<1>4. Expected(r) /\ r # Garbled
  <2>1. r.type # "garbled"
    BY <1>2 DEF Responses, Terminal
  <2> QED BY <1>3, <2>1 DEF Expected, Fits, Garbled
<1>5. from_helper' = Tail(from_helper)
  BY <1>4 DEF receive_v3
<1>6. /\ \A i \in DOMAIN to_helper : IsRequest(to_helper[i]) => to_helper[i].id \in Calls
      /\ \A i \in DOMAIN to_helper : to_helper[i].type = "cancel" => to_helper[i].id \in Calls
      /\ \A i \in DOMAIN commands : IsRequest(commands[i]) => commands[i].id \in Calls
      /\ \A i \in DOMAIN from_helper : from_helper[i].id \in Calls
      /\ executing # Idle => executing.id \in Calls
      /\ Idle.pc = "idle"
  BY NamesOfCalls DEF Clean
<1>7. /\ \A i \in DOMAIN to_helper : ~IsRequest(to_helper[i])
      /\ \A i \in DOMAIN commands : ~IsRequest(commands[i])
  BY <1>1 DEF Clean, OnePlace, Clear
<1>8. (Busy' <=> Busy) /\ NothingIsLeft'
  BY <1>1 DEF Clean, Busy, NothingIsLeft
<1>9. CASE r.type \in Terminal
  <2>1. /\ pending' = Removed(pending, c)
        /\ call' = [call EXCEPT ![c].pc = "done", ![c].answer = r.type] /\ turn' = Tail(turn)
    BY <1>9, <1>3, <1>4 DEF receive_v3, Return
  <2>2. Len(from_helper) = 1 /\ ~Busy
    BY <1>9, <1>2 DEF Clean, OnePlace
  <2>3. DOMAIN from_helper' = {} /\ from_helper' = <<>> /\ from_helper' \in Seq(Responses)
    BY <2>2, <1>2, <1>5
  <2>4. /\ \A x \in Calls : call[x].pc = "receiving" => x = c
        /\ turn' \in Seq(Calls \union {Disconnect})
    BY <1>1, <2>1, OneReceiver
  <2>5. /\ call' \in [Calls -> CallStates] /\ call'[c].pc = "done" /\ call'[c].answer = r.type
        /\ call'[c].cancelled = call[c].cancelled
        /\ \A x \in Calls \ {c} : call'[x] = call[x]
    BY <2>1, <1>9 DEF Clean, ConnectorTypes, CallStates
  <2>6. \A x \in Calls : call'[x].pc # "receiving"
    BY <2>4, <2>5
  <2>7. /\ DOMAIN pending' = DOMAIN pending \ {c}
        /\ pending' \in [DOMAIN pending' -> {"execute", "transaction"}]
    BY <2>1 DEF Removed, Clean, ConnectorTypes
  <2>8. ConnectorTypes'
    BY <1>1, <2>3, <2>4, <2>5, <2>7 DEF Clean, ConnectorTypes
  <2>9. Turns'
    BY <2>5, <2>6, <2>7 DEF Clean, ConnectorTypes, Turns
  <2>10. Ours'
    BY <1>1, <1>7, <1>8, <2>2, <2>3, <2>6 DEF Ours
  <2>11. OnePlace'
    BY <1>1, <1>6, <1>7, <1>8, <2>2, <2>3, <2>5 DEF Clean, OnePlace
  <2>12. r.type = "cancelled" => Excused(c)
    BY <1>2, <1>3 DEF Clean, Tokens
  <2>13. Tokens'
    BY <1>1, <1>6, <2>3, <2>5, <2>12 DEF Clean, ConnectorTypes, Tokens, Excused
  <2> QED BY <1>8, <2>8, <2>9, <2>10, <2>11, <2>13 DEF Clean
<1>10. CASE r.type \notin Terminal
  <2>1. UNCHANGED <<pending, call, turn>>
    BY <1>10, <1>3, <1>4 DEF receive_v3
  <2>2. ConnectorTypes'
    BY <1>1, <1>2, <1>5, <2>1 DEF Clean, ConnectorTypes
  <2>3. Turns'
    BY <2>1 DEF Clean, Turns, HasTurn
  <2>4. Ours'
    BY <1>1, <1>2, <1>5, <1>7, <1>8, <2>1 DEF Clean, Ours, Fits
  <2>5. OnePlace'
    BY <1>1, <1>2, <1>5, <1>7, <1>8, <2>1 DEF Clean, OnePlace
  <2>6. Tokens'
    BY <1>1, <1>2, <1>5, <2>1 DEF Clean, Tokens, Excused
  <2> QED BY <1>8, <2>2, <2>3, <2>4, <2>5, <2>6 DEF Clean
<1> QED BY <1>9, <1>10

-----------------------------------------------------------------------------
\* run_requests_v3: a request goes on to the session.
LEMMA Queues ==
    ASSUME Clean, run_requests_v3, run_execute \/ run_transaction
    PROVE  Clean'
<1> DEFINE m == Head(to_helper)
<1>1. /\ to_helper # <<>> /\ to_helper' = Tail(to_helper) /\ helper # "gone"
      /\ UNCHANGED <<call, turn, pending, executing, from_helper, helper, given_up>>
      /\ commands' = Append(commands, m)
      /\ \/ m.type = "execute" /\ running' = Put(running, m.id, FALSE)
         \/ m.type = "transaction" /\ running' = running
  BY DEF run_requests_v3, run_execute, run_transaction, callerVars
<1>2. /\ 1 \in DOMAIN to_helper /\ m = to_helper[1] /\ m \in RequestMessages
      /\ to_helper' \in Seq(RequestMessages)
      /\ \A i \in DOMAIN to_helper' :
             i + 1 \in DOMAIN to_helper /\ to_helper'[i] = to_helper[i + 1] /\ i \in Nat
  BY <1>1, Shortened DEF Clean, ConnectorTypes
<1>3. IsRequest(m) /\ m.id \in Calls /\ m \in Commands /\ m.type # "cancel"
  BY <1>1, <1>2 DEF IsRequest, RequestMessages, Shutdowns, Commands
<1>4. /\ \A i \in DOMAIN to_helper : IsRequest(to_helper[i]) => to_helper[i].id \in Calls
      /\ \A i \in DOMAIN to_helper : to_helper[i].type = "cancel" => to_helper[i].id \in Calls
      /\ \A i \in DOMAIN commands : IsRequest(commands[i]) => commands[i].id \in Calls
      /\ \A i \in DOMAIN from_helper : from_helper[i].id \in Calls
      /\ executing # Idle => executing.id \in Calls
      /\ Idle.pc = "idle"
  BY NamesOfCalls DEF Clean
<1>5. /\ Clear /\ \A j \in DOMAIN commands : ~IsRequest(commands[j])
      /\ executing.pc = "terminal" => executing.id # m.id
      /\ call[m.id].pc = "receiving" /\ pending[m.id] = m.type
  BY <1>2, <1>3 DEF Clean, OnePlace, Ours
<1>6. \A i \in DOMAIN to_helper' : ~IsRequest(to_helper'[i])
  <2> SUFFICES ASSUME NEW i \in DOMAIN to_helper', IsRequest(to_helper'[i]) PROVE FALSE
    OBVIOUS
  <2>1. i + 1 = 1
    BY <1>2, <1>3 DEF Clean, OnePlace
  <2>2. i \in 1..Len(to_helper')
    BY <1>2
  <2> QED BY <2>1, <2>2
<1>7. /\ commands' \in Seq(Commands)
      /\ \A i \in DOMAIN commands' :
             \/ i \in DOMAIN commands /\ commands'[i] = commands[i]
             \/ i = Len(commands) + 1 /\ commands'[i] = m
  BY <1>1, <1>3, Appended DEF Clean, ConnectorTypes
<1>8. \A i \in DOMAIN commands' : IsRequest(commands'[i]) =>
          i = Len(commands) + 1 /\ commands'[i] = m
  BY <1>5, <1>7
<1>9. /\ DOMAIN running' \subseteq Calls /\ running' \in [DOMAIN running' -> BOOLEAN]
      /\ DOMAIN running \subseteq DOMAIN running'
      /\ m.type = "execute" => m.id \in DOMAIN running'
      /\ \A x \in DOMAIN running' : running'[x] => x \in DOMAIN running /\ running[x]
  <2>1. CASE running' = Put(running, m.id, FALSE)
    BY <2>1, <1>3 DEF Put, Clean, ConnectorTypes
  <2>2. CASE m.type = "transaction" /\ running' = running
    BY <2>2 DEF Clean, ConnectorTypes
  <2> QED BY <1>1, <2>1, <2>2
<1>10. ConnectorTypes'
  BY <1>1, <1>2, <1>7, <1>9 DEF Clean, ConnectorTypes
<1>11. Turns' /\ NothingIsLeft'
  BY <1>1 DEF Clean, Turns, HasTurn, NothingIsLeft
<1>12. (Busy' <=> Busy) /\ (Clear' <=> Clear)
  BY <1>1 DEF Busy, Clear
<1>13. Ours'
  BY <1>1, <1>5, <1>6, <1>8, <1>12 DEF Clean, Ours, Fits, Busy
<1>14. OnePlace'
  BY <1>1, <1>5, <1>6, <1>8, <1>12 DEF Clean, OnePlace
<1>15. Tokens'
  <2>1. \A i \in DOMAIN to_helper' : to_helper'[i].type = "cancel" => call'[to_helper'[i].id].cancelled
    BY <1>1, <1>2 DEF Clean, Tokens
  <2>2. \A i \in DOMAIN commands' : commands'[i].type = "execute" => commands'[i].id \in DOMAIN running'
    BY <1>7, <1>9 DEF Clean, Tokens
  <2>3. \A x \in DOMAIN running' : running'[x] => call'[x].cancelled
    BY <1>1, <1>9 DEF Clean, Tokens
  <2> QED BY <1>1, <1>9, <2>1, <2>2, <2>3 DEF Clean, Tokens, Excused
<1> QED BY <1>10, <1>11, <1>13, <1>14, <1>15 DEF Clean

\* run_requests_v3: what else it reads.
LEMMA ReadsOn ==
    ASSUME Clean, run_requests_v3, run_cancel \/ run_shutdown, ~unclean'
    PROVE  Clean'
<1> DEFINE m == Head(to_helper)
<1>1. /\ to_helper # <<>> /\ to_helper' = Tail(to_helper) /\ helper # "gone" /\ helper' # "gone"
      /\ UNCHANGED <<call, turn, pending, executing, from_helper, given_up>>
      /\ \/ /\ m.type = "cancel" /\ m.id \in DOMAIN running
            /\ running' = [running EXCEPT ![m.id] = TRUE]
            /\ commands' = commands
         \/ m.type = "shutdown" /\ commands' = Append(commands, m) /\ running' = running
  BY DEF run_requests_v3, run_cancel, run_shutdown, callerVars
<1>2. /\ 1 \in DOMAIN to_helper /\ m = to_helper[1] /\ m \in RequestMessages
      /\ to_helper' \in Seq(RequestMessages)
      /\ \A i \in DOMAIN to_helper' :
             i + 1 \in DOMAIN to_helper /\ to_helper'[i] = to_helper[i + 1] /\ i \in Nat
  BY <1>1, Shortened DEF Clean, ConnectorTypes
<1>3. /\ \A i \in DOMAIN to_helper : IsRequest(to_helper[i]) => to_helper[i].id \in Calls
      /\ \A i \in DOMAIN to_helper : to_helper[i].type = "cancel" => to_helper[i].id \in Calls
      /\ \A i \in DOMAIN commands : IsRequest(commands[i]) => commands[i].id \in Calls
      /\ \A i \in DOMAIN from_helper : from_helper[i].id \in Calls
      /\ executing # Idle => executing.id \in Calls
      /\ Idle.pc = "idle"
  BY NamesOfCalls DEF Clean
<1>4. /\ DOMAIN running' = DOMAIN running /\ running' \in [DOMAIN running' -> BOOLEAN]
      /\ \A x \in DOMAIN running : running'[x] => call[x].cancelled
  <2>1. CASE m.type = "cancel" /\ m.id \in DOMAIN running /\ running' = [running EXCEPT ![m.id] = TRUE]
    <3>1. call[m.id].cancelled
      BY <2>1, <1>2 DEF Clean, Tokens
    <3> QED BY <2>1, <3>1 DEF Clean, ConnectorTypes, Tokens
  <2>2. CASE running' = running
    BY <2>2 DEF Clean, ConnectorTypes, Tokens
  <2> QED BY <1>1, <2>1, <2>2
<1>5. /\ commands' \in Seq(Commands)
      /\ \A i \in DOMAIN commands' : commands'[i].type # "shutdown" =>
             i \in DOMAIN commands /\ commands'[i] = commands[i]
  <2>1. CASE commands' = commands
    BY <2>1 DEF Clean, ConnectorTypes
  <2>2. CASE m.type = "shutdown" /\ commands' = Append(commands, m)
    <3>1. m \in Commands
      BY <1>2, <2>2 DEF RequestMessages, Shutdowns, Commands
    <3> QED BY <2>2, <3>1, Appended DEF Clean, ConnectorTypes
  <2> QED BY <1>1, <2>1, <2>2
<1>6. \A i \in DOMAIN commands' : IsRequest(commands'[i]) =>
          i \in DOMAIN commands /\ commands'[i] = commands[i]
  BY <1>5 DEF IsRequest
<1>7. ConnectorTypes'
  BY <1>1, <1>2, <1>4, <1>5 DEF Clean, ConnectorTypes
<1>8. Turns' /\ NothingIsLeft'
  BY <1>1 DEF Clean, Turns, HasTurn, NothingIsLeft
<1>9. (Busy' <=> Busy) /\ (Clear' <=> Clear)
  BY <1>1 DEF Busy, Clear
<1>10. Ours'
  BY <1>1, <1>2, <1>6, <1>9 DEF Clean, Ours, Fits, Busy
<1>11. OnePlace'
  <2>1. \A i, j \in DOMAIN to_helper' : IsRequest(to_helper'[i]) /\ IsRequest(to_helper'[j]) => i = j
    <3> SUFFICES ASSUME NEW i \in DOMAIN to_helper', NEW j \in DOMAIN to_helper',
                        IsRequest(to_helper'[i]), IsRequest(to_helper'[j])
                 PROVE  i = j
      OBVIOUS
    <3>1. i + 1 = j + 1
      BY <1>2 DEF Clean, OnePlace
    <3> QED BY <1>2, <3>1
  <2> QED BY <1>1, <1>2, <1>6, <1>9, <2>1 DEF Clean, OnePlace
<1>12. Tokens'
  <2>1. \A i \in DOMAIN to_helper' : to_helper'[i].type = "cancel" => call'[to_helper'[i].id].cancelled
    BY <1>1, <1>2 DEF Clean, Tokens
  <2>2. \A i \in DOMAIN commands' : commands'[i].type = "execute" => commands'[i].id \in DOMAIN running'
    BY <1>4, <1>5 DEF Clean, Tokens
  <2> QED BY <1>1, <1>4, <2>1, <2>2 DEF Clean, Tokens, Excused
<1> QED BY <1>7, <1>8, <1>10, <1>11, <1>12 DEF Clean

-----------------------------------------------------------------------------
\* run_session_v3 begins with a request.
LEMMA Begins ==
    ASSUME Clean, session_takes, Head(commands).type # "shutdown"
    PROVE  Clean'
<1> DEFINE m == Head(commands)
<1>1. /\ commands # <<>> /\ executing = Idle /\ commands' = Tail(commands) /\ helper # "gone"
      /\ executing' = [pc |-> m.type, id |-> m.id, events |-> 0]
      /\ UNCHANGED <<call, turn, pending, to_helper, from_helper, running, helper, given_up>>
  BY DEF session_takes, callerVars
<1>2. /\ 1 \in DOMAIN commands /\ m = commands[1] /\ m \in Commands
      /\ commands' \in Seq(Commands)
      /\ \A i \in DOMAIN commands' :
             i + 1 \in DOMAIN commands /\ commands'[i] = commands[i + 1] /\ i \in Nat
  BY <1>1, Shortened DEF Clean, ConnectorTypes
<1>3. IsRequest(m) /\ m.id \in Calls
  BY <1>2 DEF IsRequest, Commands, Shutdowns
<1>4. /\ Clear /\ call[m.id].pc = "receiving" /\ pending[m.id] = m.type
      /\ \A i \in DOMAIN to_helper : ~IsRequest(to_helper[i])
      /\ m.type = "execute" => m.id \in DOMAIN running
  BY <1>2, <1>3 DEF Clean, OnePlace, Ours, Tokens
<1>5. \A i \in DOMAIN commands' : ~IsRequest(commands'[i])
  <2> SUFFICES ASSUME NEW i \in DOMAIN commands', IsRequest(commands'[i]) PROVE FALSE
    OBVIOUS
  <2>1. i + 1 = 1
    BY <1>2, <1>3 DEF Clean, OnePlace
  <2>2. i \in 1..Len(commands')
    BY <1>2
  <2> QED BY <2>1, <2>2
<1>6. /\ executing' \in Executions /\ executing'.pc = m.type /\ executing'.id = m.id
      /\ m.type \in {"execute", "transaction"}
  BY <1>1, <1>3 DEF Executions, IsRequest
<1>7. ConnectorTypes'
  BY <1>1, <1>2, <1>6 DEF Clean, ConnectorTypes
<1>8. Turns' /\ NothingIsLeft'
  BY <1>1 DEF Clean, Turns, HasTurn, NothingIsLeft
<1>9. DOMAIN from_helper' = {}
  BY <1>1, <1>4 DEF Clear
<1>10. Ours'
  BY <1>1, <1>4, <1>5, <1>6, <1>9 DEF Ours
<1>11. OnePlace'
  BY <1>1, <1>4, <1>5, <1>6, <1>9 DEF OnePlace
<1>12. Tokens'
  BY <1>1, <1>2, <1>4, <1>6, <1>9 DEF Clean, Tokens, Excused
<1> QED BY <1>7, <1>8, <1>10, <1>11, <1>12 DEF Clean

\* The session sends a response of the execution or the request it is busy with.
LEMMA Responds ==
    ASSUME Clean, helper # "gone", Busy,
           NEW r \in Responses, r.id = executing.id, Fits(r),
           r.type = "cancelled" => Excused(executing.id),
           from_helper' = Append(from_helper, r),
           executing' \in Executions,
           executing' # Idle => executing'.id = executing.id,
           Busy' => executing'.pc = executing.pc /\ executing' # Idle,
           r.type \in Terminal => ~Busy',
           UNCHANGED <<call, turn, pending, to_helper, running, commands, helper, given_up>>
    PROVE  Clean'
<1>1. /\ from_helper' \in Seq(Responses)
      /\ Len(from_helper') = Len(from_helper) + 1
      /\ \A i \in DOMAIN from_helper' :
             \/ i \in DOMAIN from_helper /\ from_helper'[i] = from_helper[i]
             \/ i = Len(from_helper) + 1 /\ from_helper'[i] = r
  BY Appended DEF Clean, ConnectorTypes
<1>2. Idle.pc = "idle" /\ executing # Idle
  BY DEF Idle, Busy
<1>3. /\ executing.id \in Calls /\ call[executing.id].pc = "receiving"
      /\ \A x \in Calls : call[x].pc = "receiving" => x = executing.id
  <2>1. executing.id \in Calls /\ call[executing.id].pc = "receiving"
    BY <1>2, NamesOfCalls DEF Clean, Ours
  <2> QED BY <2>1, OneReceiver DEF Clean, Turns
<1>4. /\ \A i \in DOMAIN to_helper : ~IsRequest(to_helper[i])
      /\ \A i \in DOMAIN commands : ~IsRequest(commands[i])
      /\ \A i \in DOMAIN from_helper : from_helper[i].type \notin Terminal
  BY DEF Clean, OnePlace, Clear
<1>5. ConnectorTypes'
  BY <1>1 DEF Clean, ConnectorTypes
<1>6. Turns' /\ NothingIsLeft'
  BY DEF Clean, Turns, HasTurn, NothingIsLeft
<1>7. Ours'
  <2>1. \A i \in DOMAIN from_helper' : from_helper'[i].id = executing.id /\ Fits(from_helper'[i])
    BY <1>1, <1>3 DEF Clean, Ours
  <2>2. Busy' => /\ call'[executing'.id].pc = "receiving"
                 /\ pending'[executing'.id] = IF executing'.pc = "transaction" THEN "transaction"
                                              ELSE "execute"
    BY DEF Clean, Ours
  <2>3. \A x \in Calls : call'[x].pc = "receiving" =>
            \A i \in DOMAIN from_helper' : from_helper'[i].id = x /\ Fits(from_helper'[i])
    BY <1>3, <2>1
  <2> QED BY <1>3, <1>4, <2>1, <2>2, <2>3 DEF Ours, Fits
<1>8. OnePlace'
  <2>1. \A i \in DOMAIN from_helper' :
            from_helper'[i].type \in Terminal => i = Len(from_helper') /\ ~Busy'
    BY <1>1, <1>4
  <2>2. executing' # Idle => call'[executing'.id].pc \in {"receiving", "done"}
    BY <1>3
  <2> QED BY <1>4, <2>1, <2>2 DEF OnePlace
<1>9. Tokens'
  <2>1. \A i \in DOMAIN from_helper' :
            from_helper'[i].type = "cancelled" =>
                call'[from_helper'[i].id].cancelled \/ from_helper'[i].id \in given_up'
    BY <1>1 DEF Clean, Tokens, Excused
  <2>2. executing'.pc = "execute" => executing'.id \in DOMAIN running
    BY DEF Clean, Tokens, Busy
  <2>3. executing'.pc = "cancelled" =>
            call'[executing'.id].cancelled \/ executing'.id \in given_up'
    BY DEF Clean, Tokens, Excused, Busy
  <2> QED BY <2>1, <2>2, <2>3 DEF Clean, Tokens, Excused
<1> QED BY <1>5, <1>6, <1>7, <1>8, <1>9 DEF Clean

\* The session goes on with an execution whose driver has ended.
LEMMA WindsUp ==
    ASSUME Clean, helper # "gone", executing # Idle, executing.pc # "transaction",
           executing' \in Executions,
           executing' = Idle \/ (Busy /\ executing'.id = executing.id
                                     /\ executing'.pc \in {"cancelled", "error"}),
           given_up \subseteq given_up',
           executing'.pc = "cancelled" =>
               call[executing.id].cancelled \/ executing.id \in given_up',
           running' = running \/ running' = Removed(running, executing.id),
           executing' = Idle => ~Busy,
           UNCHANGED <<call, turn, pending, to_helper, from_helper, commands, helper>>
    PROVE  Clean'
<1>1. Idle.pc = "idle" /\ executing.id \in Calls
  BY NamesOfCalls DEF Clean
<1>2. /\ DOMAIN running' \subseteq DOMAIN running /\ running' \in [DOMAIN running' -> BOOLEAN]
      /\ \A x \in DOMAIN running' : running'[x] = running[x]
      /\ \A x \in DOMAIN running : x # executing.id => x \in DOMAIN running'
  BY DEF Removed, Clean, ConnectorTypes
<1>3. ConnectorTypes'
  BY <1>2 DEF Clean, ConnectorTypes
<1>4. Turns' /\ NothingIsLeft'
  BY DEF Clean, Turns, HasTurn, NothingIsLeft
<1>5. (Busy' <=> Busy) /\ (Clear' <=> Clear) /\ executing'.pc # "terminal" /\ executing'.pc # "execute"
  BY <1>1 DEF Busy, Clear
<1>6. Ours'
  BY <1>1, <1>5 DEF Clean, Ours, Fits
<1>7. OnePlace'
  BY <1>1, <1>5 DEF Clean, OnePlace
<1>8. Tokens'
  <2>1. \A i \in DOMAIN commands :
            commands[i].type = "execute" => commands[i].id \in DOMAIN running'
    <3> SUFFICES ASSUME NEW i \in DOMAIN commands, commands[i].type = "execute"
                 PROVE  commands[i].id \in DOMAIN running'
      OBVIOUS
    <3>1. ~Busy /\ (executing.pc = "terminal" => executing.id # commands[i].id)
      BY DEF Clean, OnePlace, IsRequest, Clear
    <3>2. executing.pc = "terminal"
      BY <3>1 DEF Clean, ConnectorTypes, Executions, Busy
    <3> QED BY <3>1, <3>2, <1>2 DEF Clean, Tokens
  <2>2. \A c \in Calls : Excused(c) => call'[c].cancelled \/ c \in given_up'
    BY DEF Excused
  <2>3. executing'.pc = "cancelled" =>
            call'[executing'.id].cancelled \/ executing'.id \in given_up'
    BY <1>1
  <2>4. \A i \in DOMAIN from_helper : from_helper[i].type = "cancelled" =>
            call'[from_helper[i].id].cancelled \/ from_helper[i].id \in given_up'
    BY <2>2, NamesOfCalls DEF Clean, Tokens
  <2>5. \A c \in Calls : call'[c].answer = "cancelled" => call'[c].cancelled \/ c \in given_up'
    BY <2>2 DEF Clean, Tokens
  <2> QED BY <1>1, <1>2, <1>5, <2>1, <2>3, <2>4, <2>5 DEF Clean, Tokens, Excused
<1> QED BY <1>3, <1>4, <1>6, <1>7, <1>8 DEF Clean

-----------------------------------------------------------------------------
\* Who waits for the mutex, or gives up waiting, takes no turn from who has it.
LEMMA FirstStays ==
    ASSUME NEW S, NEW s \in Seq(S), s # <<>>
    PROVE  /\ \A e \in S : Append(s, e) # <<>> /\ Head(Append(s, e)) = Head(s)
           /\ \A i \in DOMAIN s : s[i] # Head(s) =>
                  LET t == SubSeq(s, 1, i - 1) \o SubSeq(s, i + 1, Len(s)) IN
                  t # <<>> /\ Head(t) = Head(s)
<1>1. \A e \in S : Append(s, e) # <<>> /\ Head(Append(s, e)) = Head(s)
  OBVIOUS
<1>2. ASSUME NEW i \in DOMAIN s, s[i] # Head(s)
      PROVE  /\ SubSeq(s, 1, i - 1) \o SubSeq(s, i + 1, Len(s)) # <<>>
             /\ Head(SubSeq(s, 1, i - 1) \o SubSeq(s, i + 1, Len(s))) = Head(s)
  <2>1. i \in 2..Len(s) /\ Len(s) \in Nat
    BY <1>2
  <2>2. /\ SubSeq(s, 1, i - 1) \in Seq(S) /\ Len(SubSeq(s, 1, i - 1)) = i - 1
        /\ SubSeq(s, 1, i - 1)[1] = s[1]
    BY <2>1
  <2>3. SubSeq(s, i + 1, Len(s)) \in Seq(S)
    BY <2>1
  <2> QED BY <2>1, <2>2, <2>3
<1> QED BY <1>1, <1>2

LEMMA AnyDropped ==
    ASSUME NEW S, NEW s \in Seq(S), NEW i \in DOMAIN s
    PROVE  SubSeq(s, 1, i - 1) \o SubSeq(s, i + 1, Len(s)) \in Seq(S)
OBVIOUS

\* What is unclean stays so.
LEMMA UncleanStays ==
    ASSUME unclean \in BOOLEAN, [ConnectorNext]_connectorVars
    PROVE  unclean' \in BOOLEAN /\ (unclean => unclean')
<1>1. ASSUME NEW c \in Calls, NEW kind,
             start_execute(c, kind) \/ lock_host(c) \/ send_v3(c) \/ cancel_call(c)
                 \/ receive_v3(c) \/ helper_exit_error(c)
      PROVE  unclean' = unclean
  BY <1>1 DEF start_execute, lock_host, send_v3, cancel_call, receive_v3, helper_exit_error
<1>2. ASSUME NEW c \in Calls, drop_call(c) \/ send_cancel(c)
      PROVE  unclean' \in BOOLEAN /\ (unclean => unclean')
  BY <1>2 DEF drop_call, send_cancel
<1>3. disconnect_cancels \/ disconnect_locks \/ disconnect_shuts_down \/ disconnect_ends
          => unclean' = unclean
  BY DEF disconnect_cancels, disconnect_locks, disconnect_shuts_down, disconnect_ends
<1>4. run_requests_v3 => unclean' \in BOOLEAN /\ (unclean => unclean')
  <2>1. run_execute \/ run_transaction \/ run_shutdown => unclean' = unclean
    BY DEF run_execute, run_transaction, run_shutdown
  <2>2. run_cancel => unclean' = TRUE \/ unclean' = unclean
    BY DEF run_cancel
  <2> QED BY <2>1, <2>2 DEF run_requests_v3
<1>5. session_takes \/ session_answers \/ session_emits \/ session_completes \/ session_stops
          \/ session_removes \/ session_reports \/ helper_exits => unclean' = unclean
  BY DEF session_takes, session_answers, session_emits, session_completes, session_stops,
     session_removes, session_reports, helper_exits
<1> QED BY <1>1, <1>2, <1>3, <1>4, <1>5 DEF ConnectorNext, Proceed, connectorVars

\* The steps of a call.
LEMMA CallsStep ==
    ASSUME Clean, ~unclean', NEW c \in Calls, NEW kind \in {"execute", "ai", "transaction"},
           start_execute(c, kind) \/ lock_host(c) \/ send_v3(c) \/ cancel_call(c) \/ send_cancel(c)
               \/ receive_v3(c) \/ helper_exit_error(c) \/ drop_call(c)
    PROVE  Clean'
<1>1. /\ call \in [Calls -> CallStates] /\ turn \in Seq(Calls \union {Disconnect})
      /\ \A x \in Calls : call[x].pc = "receiving" => HasTurn(x)
  BY DEF Clean, ConnectorTypes, Turns
<1>2. CASE start_execute(c, kind)
  <2>1. /\ call[c].pc = "none" /\ UNCHANGED <<turn, pending, to_helper, from_helper, running,
                                              commands, executing, helper, given_up>>
        /\ call' = [call EXCEPT ![c].pc = "started", ![c].kind = kind]
    BY <1>2 DEF start_execute, pipes, helperVars
  <2>2. /\ call' \in [Calls -> CallStates]
        /\ \A x \in Calls :
               /\ call'[x].pc = "receiving" <=> call[x].pc = "receiving"
               /\ call[x].pc \in {"receiving", "done"} =>
                      call'[x].pc = call[x].pc /\ call'[x].answer = call[x].answer
               /\ call[x].cancelled => call'[x].cancelled
               /\ call'[x].answer = "cancelled" => call[x].answer = "cancelled"
    BY <1>1, <2>1 DEF CallStates
  <2>3. \A x \in Calls : call[x].pc = "receiving" => HasTurn(x)'
    BY <1>1, <2>1 DEF HasTurn
  <2> QED BY <1>1, <2>1, <2>2, <2>3, CallersMove
<1>3. CASE lock_host(c)
  <2>1. /\ call[c].pc = "started" /\ UNCHANGED <<pending, to_helper, from_helper, running,
                                                 commands, executing, helper, given_up>>
        /\ call' = [call EXCEPT ![c].pc = "waiting"] /\ turn' = Append(turn, c)
    BY <1>3 DEF lock_host, pipes, helperVars
  <2>2. /\ call' \in [Calls -> CallStates]
        /\ \A x \in Calls :
               /\ call'[x].pc = "receiving" <=> call[x].pc = "receiving"
               /\ call[x].pc \in {"receiving", "done"} =>
                      call'[x].pc = call[x].pc /\ call'[x].answer = call[x].answer
               /\ call[x].cancelled => call'[x].cancelled
               /\ call'[x].answer = "cancelled" => call[x].answer = "cancelled"
    BY <1>1, <2>1 DEF CallStates
  <2>3. \A x \in Calls : call[x].pc = "receiving" => HasTurn(x)'
    <3>1. turn # <<>> => turn' # <<>> /\ Head(turn') = Head(turn)
      BY <1>1, <2>1, FirstStays
    <3> QED BY <1>1, <3>1 DEF HasTurn
  <2>4. turn' \in Seq(Calls \union {Disconnect})
    BY <1>1, <2>1
  <2> QED BY <2>1, <2>2, <2>3, <2>4, CallersMove
<1>4. CASE cancel_call(c)
  <2>1. /\ UNCHANGED <<turn, pending, to_helper, from_helper, running, commands, executing, helper, given_up>>
        /\ call' = [call EXCEPT ![c].cancelled = TRUE]
    BY <1>4 DEF cancel_call, pipes, helperVars
  <2>2. /\ call' \in [Calls -> CallStates]
        /\ \A x \in Calls :
               /\ call'[x].pc = "receiving" <=> call[x].pc = "receiving"
               /\ call[x].pc \in {"receiving", "done"} =>
                      call'[x].pc = call[x].pc /\ call'[x].answer = call[x].answer
               /\ call[x].cancelled => call'[x].cancelled
               /\ call'[x].answer = "cancelled" => call[x].answer = "cancelled"
    BY <1>1, <2>1 DEF CallStates
  <2>3. \A x \in Calls : call[x].pc = "receiving" => HasTurn(x)'
    BY <1>1, <2>1 DEF HasTurn
  <2> QED BY <1>1, <2>1, <2>2, <2>3, CallersMove
<1>5. CASE send_v3(c)
  <2>1. CASE host = "open" /\ helper # "gone"
    BY <1>5, <2>1, Sends
  <2>2. CASE ~(host = "open" /\ helper # "gone")
    <3>1. /\ HasTurn(c) /\ call[c].pc = "waiting" /\ Return(c, "closed")
          /\ UNCHANGED <<pending, to_helper, from_helper, running, commands, executing, helper, given_up>>
      BY <1>5, <2>2 DEF send_v3, helperVars
    <3> QED BY <3>1, Closes
  <2> QED BY <2>1, <2>2
<1>6. CASE send_cancel(c)
  <2>1. /\ call[c].pc = "receiving" /\ HasTurn(c) /\ call[c].cancelled
        /\ UNCHANGED <<pending, from_helper, running, commands, executing, helper, given_up>>
        /\ IF helper # "gone"
           THEN /\ call' = [call EXCEPT ![c].cancel_sent = TRUE]
                /\ to_helper' = Append(to_helper, Message("cancel", c))
                /\ UNCHANGED turn
           ELSE Return(c, "closed") /\ UNCHANGED to_helper
    BY <1>6 DEF send_cancel, helperVars
  <2>2. CASE helper = "gone"
    BY <2>1, <2>2, Closes
  <2>3. CASE helper # "gone"
    <3> DEFINE m == Message("cancel", c)
    <3>1. m \in RequestMessages /\ ~IsRequest(m) /\ m.id = c
      BY DEF Message, RequestMessages, IsRequest
    <3>2. /\ call' \in [Calls -> CallStates]
          /\ \A x \in Calls :
                 /\ call'[x].pc = call[x].pc /\ call'[x].answer = call[x].answer
                 /\ call'[x].cancelled = call[x].cancelled
      <4>1. call' = [call EXCEPT ![c].cancel_sent = TRUE]
        BY <2>1, <2>3
      <4> QED BY <1>1, <4>1 DEF CallStates
    <3>3. \A x \in Calls : call[x].pc = "receiving" => HasTurn(x)'
      BY <1>1, <2>1, <2>3 DEF HasTurn
    <3>4. to_helper' = Append(to_helper, m) /\ UNCHANGED turn
      BY <2>1, <2>3
    <3> HIDE DEF m
    <3> QED BY <1>1, <2>1, <2>3, <3>1, <3>2, <3>3, <3>4, Notifies
  <2> QED BY <2>2, <2>3
<1>7. CASE receive_v3(c)
  BY <1>7, GetsItsAnswer
<1>8. CASE helper_exit_error(c)
  <2>1. /\ HasTurn(c) /\ call[c].pc = "receiving" /\ Return(c, "closed") /\ helper = "gone"
        /\ UNCHANGED <<pending, to_helper, from_helper, running, commands, executing, helper, given_up>>
    BY <1>8 DEF helper_exit_error, helperVars, pipes
  <2> QED BY <2>1, Closes
<1>9. CASE drop_call(c)
  <2>1. PICK i \in DOMAIN turn :
            turn[i] = c /\ turn' = SubSeq(turn, 1, i - 1) \o SubSeq(turn, i + 1, Len(turn))
    BY <1>9 DEF drop_call
  <2>2. /\ call[c].pc = "waiting"
        /\ call' = [call EXCEPT ![c].pc = "done", ![c].answer = "dropped"]
        /\ UNCHANGED <<pending, to_helper, from_helper, running, commands, executing, helper, given_up>>
    BY <1>9 DEF drop_call, pipes, helperVars
  <2>3. /\ call' \in [Calls -> CallStates]
        /\ \A x \in Calls :
               /\ call'[x].pc = "receiving" <=> call[x].pc = "receiving"
               /\ call[x].pc \in {"receiving", "done"} =>
                      call'[x].pc = call[x].pc /\ call'[x].answer = call[x].answer
               /\ call[x].cancelled => call'[x].cancelled
               /\ call'[x].answer = "cancelled" => call[x].answer = "cancelled"
    BY <1>1, <2>2 DEF CallStates
  <2>4. turn' \in Seq(Calls \union {Disconnect})
    BY <1>1, <2>1, AnyDropped
  <2>5. ASSUME NEW x \in Calls, call[x].pc = "receiving" PROVE HasTurn(x)'
    <3>1. turn # <<>> /\ Head(turn) = x /\ turn[i] # Head(turn)
      BY <1>1, <2>1, <2>2, <2>5 DEF HasTurn
    <3> QED BY <1>1, <2>1, <3>1, FirstStays DEF HasTurn
  <2> QED BY <2>2, <2>3, <2>4, <2>5, CallersMove
<1> QED BY <1>2, <1>3, <1>4, <1>5, <1>6, <1>7, <1>8, <1>9

\* The steps of disconnect.
LEMMA DisconnectStep ==
    ASSUME Clean,
           disconnect_cancels \/ disconnect_locks \/ disconnect_shuts_down \/ disconnect_ends
    PROVE  Clean'
<1>1. /\ call \in [Calls -> CallStates] /\ turn \in Seq(Calls \union {Disconnect})
      /\ \A x \in Calls : call[x].pc = "receiving" => HasTurn(x)
  BY DEF Clean, ConnectorTypes, Turns
<1>2. CASE disconnect_cancels
  <2>1. /\ UNCHANGED <<turn, pending, to_helper, from_helper, running, commands, executing, helper, given_up>>
        /\ call' = [c \in Calls |-> [call[c] EXCEPT !.cancelled = @ \/ c \in Registered]]
    BY <1>2 DEF disconnect_cancels, pipes, helperVars
  <2>2. ASSUME NEW x \in Calls
        PROVE  /\ call'[x] \in CallStates
               /\ call'[x].pc = call[x].pc /\ call'[x].answer = call[x].answer
               /\ call[x].cancelled => call'[x].cancelled
    <3>1. call'[x] = [call[x] EXCEPT !.cancelled = call[x].cancelled \/ x \in Registered]
      BY <2>1
    <3>2. call[x] \in CallStates
      BY <1>1
    <3> QED BY <3>1, <3>2 DEF CallStates
  <2>3. call' \in [Calls -> CallStates]
    BY <2>1, <2>2
  <2>4. \A x \in Calls : call[x].pc = "receiving" => HasTurn(x)'
    BY <1>1, <2>1 DEF HasTurn
  <2> QED BY <1>1, <2>1, <2>2, <2>3, <2>4, CallersMove
<1>3. CASE disconnect_locks
  <2>1. /\ UNCHANGED <<call, pending, to_helper, from_helper, running, commands, executing, helper, given_up>>
        /\ turn' = Append(turn, Disconnect)
    BY <1>3 DEF disconnect_locks, pipes, helperVars
  <2>2. turn # <<>> => turn' # <<>> /\ Head(turn') = Head(turn)
    BY <1>1, <2>1, FirstStays
  <2>3. \A x \in Calls : call[x].pc = "receiving" => HasTurn(x)'
    BY <1>1, <2>2 DEF HasTurn
  <2>4. turn' \in Seq(Calls \union {Disconnect})
    BY <1>1, <2>1
  <2> QED BY <1>1, <2>1, <2>3, <2>4, CallersMove
<1>4. CASE disconnect_shuts_down
  <2>1. /\ UNCHANGED <<call, pending, from_helper, running, commands, executing, helper, given_up>>
        /\ HasTurn(Disconnect) /\ turn' = Tail(turn)
        /\ to_helper' = IF helper = "gone" THEN to_helper
                        ELSE Append(to_helper, Message("shutdown", Disconnect))
    BY <1>4 DEF disconnect_shuts_down, helperVars
  <2>2. \A x \in Calls : call[x].pc # "receiving"
    BY <1>1, <2>1, CallsAssumption DEF HasTurn
  <2>3. turn' \in Seq(Calls \union {Disconnect})
    BY <1>1, <2>1, Shortened DEF HasTurn
  <2>4. CASE helper = "gone"
    BY <1>1, <2>1, <2>2, <2>3, <2>4, CallersMove
  <2>5. CASE helper # "gone"
    <3> DEFINE m == Message("shutdown", Disconnect)
    <3>1. m \in RequestMessages /\ ~IsRequest(m) /\ m.type # "cancel"
      BY DEF Message, RequestMessages, Shutdowns, IsRequest
    <3>2. to_helper' = Append(to_helper, m)
      BY <2>1, <2>5
    <3> HIDE DEF m
    <3> QED BY <1>1, <2>1, <2>2, <2>3, <2>5, <3>1, <3>2, Notifies
  <2> QED BY <2>4, <2>5
<1>5. CASE disconnect_ends
  BY <1>5, HelperIsGone DEF disconnect_ends
<1> QED BY <1>2, <1>3, <1>4, <1>5

\* The steps of the helper.
LEMMA HelperStep ==
    ASSUME Clean, ~unclean',
           run_requests_v3 \/ session_takes \/ session_answers \/ session_emits
               \/ session_completes \/ session_stops \/ session_removes \/ session_reports
               \/ helper_exits
    PROVE  Clean'
<1>1. /\ executing \in Executions /\ Idle.pc = "idle"
      /\ executing # Idle => executing.id \in Calls
      /\ \A c \in DOMAIN running : running[c] => call[c].cancelled
  BY NamesOfCalls DEF Clean, ConnectorTypes, Tokens
<1>2. Busy => pending[executing.id] = IF executing.pc = "transaction" THEN "transaction"
                                      ELSE "execute"
  BY DEF Clean, Ours
<1>3. CASE run_requests_v3
  <2>1. CASE run_execute \/ run_transaction
    BY <1>3, <2>1, Queues
  <2>2. CASE run_cancel \/ run_shutdown
    BY <1>3, <2>2, ReadsOn
  <2> QED BY <1>3, <2>1, <2>2 DEF run_requests_v3
<1>4. CASE session_takes
  <2>1. CASE Head(commands).type = "shutdown"
    BY <1>4, <2>1, HelperIsGone DEF session_takes, callerVars
  <2>2. CASE Head(commands).type # "shutdown"
    BY <1>4, <2>2, Begins
  <2> QED BY <2>1, <2>2
<1>5. CASE session_answers
  <2>1. PICK type \in {"transaction", "error"} :
            from_helper' = Append(from_helper, Message(type, executing.id))
    BY <1>5 DEF session_answers
  <2> DEFINE r == Message(type, executing.id)
  <2>2. /\ helper # "gone" /\ executing.pc = "transaction" /\ executing' = Idle
        /\ UNCHANGED <<call, turn, pending, to_helper, running, commands, helper, given_up>>
    BY <1>5 DEF session_answers, callerVars
  <2>3. Busy /\ ~Busy' /\ Idle \in Executions
    BY <1>1, <2>2 DEF Busy, Executions
  <2>4. r.type = type /\ r.id = executing.id /\ r \in Responses /\ Fits(r)
    BY <1>1, <1>2, <2>2, <2>3 DEF Message, Responses, Terminal, Fits
  <2> HIDE DEF r
  <2>5. from_helper' = Append(from_helper, r) /\ r.type # "cancelled"
    BY <2>1, <2>4 DEF r
  <2> QED BY <2>2, <2>3, <2>4, <2>5, Responds
<1>6. CASE session_emits
  <2> DEFINE r == Message("event", executing.id)
  <2>1. /\ helper # "gone" /\ executing.pc = "execute"
        /\ executing' = [executing EXCEPT !.events = @ + 1]
        /\ from_helper' = Append(from_helper, r)
        /\ UNCHANGED <<call, turn, pending, to_helper, running, commands, helper, given_up>>
    BY <1>6 DEF session_emits, callerVars
  <2>2. /\ Busy /\ executing' \in Executions /\ executing'.id = executing.id
        /\ executing'.pc = executing.pc /\ executing' # Idle
    BY <1>1, <2>1 DEF Busy, Executions
  <2>3. /\ r.type \notin Terminal /\ r.id = executing.id /\ r \in Responses /\ Fits(r)
        /\ r.type # "cancelled"
    BY <1>1, <1>2, <2>1, <2>2 DEF Message, Responses, Terminal, Fits
  <2> HIDE DEF r
  <2> QED BY <2>1, <2>2, <2>3, Responds
<1>7. CASE session_completes
  <2> DEFINE r == Message("complete", executing.id)
  <2>1. /\ helper # "gone" /\ executing.pc = "execute"
        /\ executing' = [executing EXCEPT !.pc = "terminal"]
        /\ from_helper' = Append(from_helper, r)
        /\ UNCHANGED <<call, turn, pending, to_helper, running, commands, helper, given_up>>
    BY <1>7 DEF session_completes, callerVars
  <2>2. /\ Busy /\ executing' \in Executions /\ executing'.id = executing.id
        /\ executing'.pc = "terminal" /\ ~Busy'
    BY <1>1, <2>1 DEF Busy, Executions
  <2>3. r.id = executing.id /\ r \in Responses /\ Fits(r) /\ r.type # "cancelled"
    BY <1>1, <1>2, <2>1, <2>2 DEF Message, Responses, Terminal, Fits
  <2> HIDE DEF r
  <2> QED BY <2>1, <2>2, <2>3, Responds
<1>8. CASE session_stops
  <2>1. /\ helper # "gone" /\ executing.pc = "execute"
        /\ \/ /\ executing' = [executing EXCEPT !.pc = "cancelled"]
              /\ given_up' = IF running[executing.id] THEN given_up
                             ELSE given_up \union {executing.id}
           \/ executing' = [executing EXCEPT !.pc = "error"] /\ given_up' = given_up
        /\ UNCHANGED <<call, turn, pending, to_helper, from_helper, running, commands, helper>>
    BY <1>8 DEF session_stops, callerVars
  <2>2. /\ Busy /\ executing' \in Executions /\ executing'.id = executing.id
        /\ executing'.pc \in {"cancelled", "error"} /\ executing # Idle /\ executing' # Idle
    BY <1>1, <2>1 DEF Busy, Executions
  <2>3. /\ given_up \subseteq given_up'
        /\ executing'.pc = "cancelled" =>
               call[executing.id].cancelled \/ executing.id \in given_up'
    <3>1. executing.id \in DOMAIN running
      BY <2>1 DEF Clean, Tokens
    <3>2. CASE running[executing.id]
      BY <1>1, <2>1, <3>1, <3>2
    <3>3. CASE ~running[executing.id]
      BY <1>1, <2>1, <3>3 DEF Executions
    <3> QED BY <3>2, <3>3
  <2> QED BY <2>1, <2>2, <2>3, WindsUp
<1>9. CASE session_removes
  <2>1. /\ helper # "gone" /\ executing.pc \in {"terminal", "cancelled", "error"}
        /\ executing.id \in DOMAIN running
        /\ running' = Removed(running, executing.id)
        /\ IF executing.pc = "terminal" THEN executing' = Idle
           ELSE \E pc \in {executing.pc, "cancelled"} :
                    /\ pc = executing.pc \/ running[executing.id]
                    /\ executing' = [executing EXCEPT !.pc = pc]
        /\ UNCHANGED <<call, turn, pending, to_helper, from_helper, commands, helper, given_up>>
    BY <1>9 DEF session_removes, callerVars
  <2>2. executing # Idle /\ executing.pc # "transaction"
    BY <1>1, <2>1
  <2>3. CASE executing.pc = "terminal"
    <3>1. executing' = Idle /\ ~Busy /\ Idle \in Executions /\ executing'.pc # "cancelled"
      BY <1>1, <2>1, <2>3 DEF Busy, Executions
    <3> QED BY <2>1, <2>2, <3>1, WindsUp
  <2>4. CASE executing.pc # "terminal"
    <3>1. PICK pc \in {executing.pc, "cancelled"} :
              /\ pc = executing.pc \/ running[executing.id]
              /\ executing' = [executing EXCEPT !.pc = pc]
      BY <2>1, <2>4
    <3>2. pc \in {"cancelled", "error"}
      BY <2>1, <2>4
    <3>3. pc = "cancelled" => call[executing.id].cancelled \/ executing.id \in given_up'
      <4>1. CASE running[executing.id]
        BY <4>1, <1>1, <2>1
      <4>2. CASE pc = executing.pc
        BY <4>2, <2>1 DEF Clean, Tokens, Excused
      <4> QED BY <3>1, <4>1, <4>2
    <3>4. /\ Busy /\ executing' \in Executions /\ executing'.id = executing.id
          /\ executing'.pc = pc /\ executing' # Idle
      BY <1>1, <2>1, <2>2, <2>4, <3>1, <3>2 DEF Busy, Executions
    <3> QED BY <2>1, <2>2, <3>2, <3>3, <3>4, WindsUp
  <2> QED BY <2>3, <2>4
<1>10. CASE session_reports
  <2> DEFINE r == Message(executing.pc, executing.id)
  <2>1. /\ helper # "gone" /\ executing.pc \in {"cancelled", "error"} /\ executing' = Idle
        /\ from_helper' = Append(from_helper, r)
        /\ UNCHANGED <<call, turn, pending, to_helper, running, commands, helper, given_up>>
    BY <1>10 DEF session_reports, callerVars
  <2>2. Busy /\ ~Busy' /\ Idle \in Executions
    BY <1>1, <2>1 DEF Busy, Executions
  <2>3. r.id = executing.id /\ r.type = executing.pc /\ r \in Responses /\ Fits(r)
    BY <1>1, <1>2, <2>1, <2>2 DEF Message, Responses, Terminal, Fits
  <2>4. executing.pc = "cancelled" => Excused(executing.id)
    BY DEF Clean, Tokens
  <2> HIDE DEF r
  <2> QED BY <2>1, <2>2, <2>3, <2>4, Responds
<1>11. CASE helper_exits
  BY <1>11, HelperIsGone DEF helper_exits, callerVars
<1> QED BY <1>3, <1>4, <1>5, <1>6, <1>7, <1>8, <1>9, <1>10, <1>11

\* Every step of the connection keeps the invariant.
LEMMA ConnectorStep == ConnectorInv /\ [ConnectorNext]_connectorVars => ConnectorInv'
<1> SUFFICES ASSUME ConnectorInv, [ConnectorNext]_connectorVars PROVE ConnectorInv'
  OBVIOUS
<1>1. unclean' \in BOOLEAN /\ (unclean => unclean')
  BY UncleanStays DEF ConnectorInv
<1>2. ASSUME ~unclean' PROVE Clean'
  <2>1. Clean
    BY <1>1, <1>2 DEF ConnectorInv
  <2>2. CASE ConnectorNext
    BY <1>2, <2>1, <2>2, CallsStep, DisconnectStep, HelperStep DEF ConnectorNext, Proceed
  <2>3. CASE UNCHANGED connectorVars
    BY <2>1, <2>3 DEF connectorVars, Clean, ConnectorTypes, Turns, HasTurn, Ours, Fits, Busy,
       OnePlace, Clear, Tokens, Excused, NothingIsLeft
  <2> QED BY <2>2, <2>3
<1> QED BY <1>1, <1>2 DEF ConnectorInv

\* Until a dropped tool call or a torn frame leaves something behind, receive_v3 never
\* takes an answer to another request, only a call that was cancelled, or that its driver
\* ended with an error 57014 of its own, is told it was cancelled, the pending table has no
\* more than the receiver and calls that found the helper gone, and what the helper has sent
\* is for the call that has the host's mutex.
THEOREM AnswersStayOnesOwn == ConnectorSpec => []AnswersAreOnesOwn
<1>1. ConnectorInv => AnswersAreOnesOwn
  <2> SUFFICES ASSUME Clean PROVE AnswersAreOnesOwn
    BY DEF ConnectorInv, AnswersAreOnesOwn
  <2>1. \A c \in Calls : call[c].answer \in {"none", "closed", "dropped"} \union Terminal
    BY DEF Clean, ConnectorTypes, CallStates
  <2>2. \A c \in Calls : call[c].answer # "unexpected"
    BY <2>1 DEF Terminal
  <2>3. DOMAIN pending \subseteq {c \in Calls : HasTurn(c) /\ call[c].pc = "receiving"}
            \union {c \in Calls : call[c].answer = "closed"}
    BY DEF Clean, ConnectorTypes, Turns
  <2>4. \A i \in DOMAIN from_helper : HasTurn(from_helper[i].id) \/ helper = "gone"
    BY NamesOfCalls DEF Clean, Ours, Turns
  <2> QED BY <2>2, <2>3, <2>4 DEF AnswersAreOnesOwn, Clean, Tokens, Excused
<1> QED BY <1>1, ConnectorInitially, ConnectorStep, PTL DEF ConnectorSpec
=============================================================================
