--------------------------------- MODULE Wire ---------------------------------
(***************************************************************************)
(* One PostgreSQL connection of ordadb-protocol: a client that follows the *)
(* protocol (PgClient), the two directions of its socket, the server's     *)
(* loop (Connection::run) with its prepared statements, portals and COPY,  *)
(* and the entry the connection has in the SessionRegistry, through which  *)
(* a CancelRequest on another connection reaches it.                       *)
(*                                                                         *)
(* A row description, a data row, a completion and a suspension are not    *)
(* told apart: what the client acts on is CopyInResponse, ErrorResponse    *)
(* and ReadyForQuery.                                                      *)
(***************************************************************************)
EXTENDS Naturals, Sequences, FiniteSets, Functions

CONSTANTS
    Queries,      \* the statement lists a Query message can carry
    Extended,     \* the Parse, Bind, Execute and Close messages
    Names,        \* names of prepared statements and portals, "" among them
    Chunks,       \* CopyData messages of one COPY
    max_copy_bytes,  \* in chunks
    max_portals, max_prepared_statements,
    MaxRequests,  \* bound: Query and Sync messages
    MaxBatch,     \* bound: extended messages before a Sync
    MaxCancels    \* bound: CancelRequests

ASSUME WireAssumption ==
    /\ \A q \in Queries :
           /\ q \in Seq({"statement", "begin", "commit", "rollback", "deallocate", "copy_in", "copy_out"})
           /\ q # << >>
    /\ Extended \subseteq [type : {"Parse", "CloseStatement", "ClosePortal"}, name : Names]
           \union [type : {"Bind"}, portal : Names, statement : Names]
           \union [type : {"Execute"}, portal : Names]
    /\ "" \in Names /\ Chunks \in Nat /\ max_copy_bytes \in Nat /\ max_portals \in Nat
    /\ max_prepared_statements \in Nat
    /\ MaxRequests \in Nat /\ MaxBatch \in Nat /\ MaxCancels \in Nat

VARIABLES
    up, down,        \* the socket: frontend and backend messages in flight
    client,          \* at, chunks left to send, the status of the last ReadyForQuery
    requests, sent, cancels,  \* bounds
    extended_state,  \* "Ready" or "FailedUntilSync"
    doing,           \* what the connection's thread is in
    rest,            \* the statements of the Query still to run
    status,          \* transaction_status of the engine session: I, T or E
    prepared,        \* names of the prepared statements
    portals,         \* Portal by name
    bytes,           \* COPY IN: chunks received
    owns,            \* COPY IN: owns_transaction
    cancelled,       \* the flag of the CancellationHandle
    active,          \* SessionRegistry.active_queries of this process
    shutdown,        \* the CancellationToken of the listener
    \* ghosts
    queries,         \* for each query id given out, what the client had issued then
    asked,           \* what the client had issued when the last CancelRequest came
    stopped,         \* queries that were stopped because the flag was set
    forgotten,       \* queries whose portal got another id while they were active
    began,           \* the client has a transaction of its own open
    overrun          \* a COPY was given up while its data was on the way

server == <<extended_state, doing, rest, status, prepared, portals, bytes, owns>>
registry == <<active, queries, stopped, forgotten>>
vars == <<up, down, client, requests, sent, cancels, server, cancelled, shutdown,
          registry, asked, began, overrun>>

None == 0

\* The requests the client has begun to send: a batch is one before its Sync.
Issued == requests + (IF sent > 0 THEN 1 ELSE 0)

Read == [kind |-> "read", query |-> None, portal |-> ""]
Init ==
    /\ up = << >> /\ down = << >>
    /\ client = [at |-> "idle", left |-> 0, status |-> "I"]
    /\ requests = 0 /\ sent = 0 /\ cancels = 0
    /\ extended_state = "Ready" /\ doing = Read /\ rest = << >> /\ status = "I"
    /\ prepared = {} /\ portals = << >> /\ bytes = 0 /\ owns = FALSE
    /\ cancelled = FALSE /\ shutdown = FALSE
    /\ active = {} /\ queries = << >> /\ stopped = {} /\ forgotten = {}
    /\ asked = 0 /\ began = FALSE /\ overrun = FALSE

(***************************************************************************)
(* The client.                                                             *)
(***************************************************************************)
Send(m) == up' = Append(up, m)

ServerSide == <<server, cancelled, shutdown, registry, asked, began, overrun>>

\* query_batches, copy_to_stdout, copy_from_stdin: one Query message, then read.
\* BEGIN is sent outside a transaction only, COMMIT and ROLLBACK only inside one.
query ==
    /\ client.at = "idle" /\ requests < MaxRequests
    /\ \E q \in Queries :
          /\ (q[1] = "begin" => client.status = "I")
          /\ (q[1] \in {"commit", "rollback"} => client.status # "I")
          /\ Send([type |-> "Query", statements |-> q])
    /\ client' = [client EXCEPT !.at = "waiting"]
    /\ requests' = requests + 1
    /\ UNCHANGED <<down, sent, cancels, ServerSide>>

\* query_prepared_batches and the other drivers: messages, then Sync, then read.
extended ==
    /\ client.at \in {"idle", "batch"} /\ sent < MaxBatch /\ requests < MaxRequests
    /\ \E m \in Extended : Send(m)
    /\ client' = [client EXCEPT !.at = "batch"]
    /\ sent' = sent + 1
    /\ UNCHANGED <<down, requests, cancels, ServerSide>>

sync ==
    /\ client.at = "batch"
    /\ Send([type |-> "Sync"])
    /\ client' = [client EXCEPT !.at = "waiting"]
    /\ requests' = requests + 1 /\ sent' = 0
    /\ UNCHANGED <<down, cancels, ServerSide>>

\* read_query_cycle_batches: up to ReadyForQuery; CopyInResponse starts the data.
read_backend ==
    /\ client.at = "waiting" /\ down # << >>
    /\ \/ /\ Head(down) = "G"
          /\ \E n \in 0..Chunks : client' = [client EXCEPT !.at = "copying", !.left = n]
       \/ /\ Head(down) \in {"I", "T", "E"}
          /\ client' = [client EXCEPT !.at = "idle", !.status = Head(down)]
       \/ Head(down) = "error" /\ UNCHANGED client
    /\ down' = Tail(down)
    /\ UNCHANGED <<up, requests, sent, cancels, ServerSide>>

\* All of the data is written before the client reads again.
copy_data ==
    /\ client.at = "copying"
    /\ IF client.left > 0
       THEN Send([type |-> "CopyData"]) /\ client' = [client EXCEPT !.left = @ - 1]
       ELSE /\ \E end \in {"CopyDone", "CopyFail"} : Send([type |-> end])
            /\ client' = [client EXCEPT !.at = "waiting"]
    /\ UNCHANGED <<down, requests, sent, cancels, ServerSide>>

\* The client goes away: its socket is closed, with a Terminate before it or not.
hang_up ==
    /\ client.at \in {"idle", "batch", "copying"}
    /\ client' = [client EXCEPT !.at = "gone"]
    /\ Send([type |-> "Terminate"]) \/ UNCHANGED up
    /\ UNCHANGED <<down, requests, sent, cancels, ServerSide>>

\* The server is gone: reads and writes fail.
cut_off ==
    /\ doing.kind = "closed" /\ client.at # "gone" /\ (client.at = "waiting" => down = << >>)
    /\ client' = [client EXCEPT !.at = "gone"]
    /\ UNCHANGED <<up, down, requests, sent, cancels, ServerSide>>

\* PgCancelToken::cancel: serve_tcp_connection hands the request to the registry.
cancel ==
    /\ cancels < MaxCancels /\ doing.kind # "closed"
    /\ cancels' = cancels + 1
    /\ cancelled' = TRUE
    /\ asked' = Issued
    /\ UNCHANGED <<up, down, client, requests, sent, server, shutdown, registry, began, overrun>>

\* The listener is told to stop.
stop ==
    /\ ~shutdown /\ shutdown' = TRUE
    /\ UNCHANGED <<up, down, client, requests, sent, cancels, server, cancelled, registry,
                   asked, began, overrun>>

(***************************************************************************)
(* The server.                                                             *)
(***************************************************************************)
ClientSide == <<client, requests, sent, cancels, shutdown, asked>>

Write(messages) == down' = down \o messages

\* A portal's end: it is finished as Cancelled unless it is completed.
Retired(names) ==
    active \ {portals[p].query : p \in {q \in names \cap DOMAIN portals : ~portals[q].completed}}

Without(names) == Restrict(portals, DOMAIN portals \ names)

\* An error in a Query ends it; in any other message it waits for Sync.
FailQuery(new_status) ==
    /\ Write(<<"error", new_status>>)
    /\ doing' = Read /\ rest' = << >>

\* A ReadyForQuery after every error.
FailExtended_ready ==
    /\ Write(<<"error", status>>)
    /\ extended_state' = "FailedUntilSync"
    /\ doing' = Read

FailExtended ==
    /\ Write(<<"error">>)
    /\ extended_state' = "FailedUntilSync"
    /\ doing' = Read

Reading(type) ==
    /\ doing.kind = "read" /\ rest = << >> /\ up # << >>
    /\ Head(up).type = type
    /\ up' = Tail(up)

InOrder(type) == Reading(type) /\ extended_state = "Ready"

\* The connection's thread leaves run: SessionGuard unregisters the process and the
\* drop of the session rolls back.
Leave ==
    /\ doing' = [Read EXCEPT !.kind = "closed"] /\ rest' = << >>
    /\ status' = "I" /\ prepared' = {} /\ portals' = << >> /\ active' = {}
    /\ bytes' = 0 /\ owns' = FALSE /\ began' = FALSE
    /\ UNCHANGED <<down, ClientSide, extended_state, cancelled, queries, stopped, forgotten, overrun>>

\* A Sync that ends the failure and is not answered.
failed_until_sync_silent ==
    /\ extended_state = "FailedUntilSync" /\ doing.kind = "read" /\ up # << >>
    /\ up' = Tail(up)
    /\ \/ /\ Head(up).type = "Sync"
          /\ extended_state' = "Ready" /\ UNCHANGED down
       \/ /\ Head(up).type \notin {"Sync", "Terminate"}
          /\ UNCHANGED <<extended_state, down>>
    /\ UNCHANGED <<ClientSide, doing, rest, status, prepared, portals, bytes, owns, cancelled,
                   registry, began, overrun>>

\* failed_message_action: after an error everything up to Sync is ignored.
failed_until_sync ==
    /\ extended_state = "FailedUntilSync" /\ doing.kind = "read" /\ up # << >>
    /\ up' = Tail(up)
    /\ \/ /\ Head(up).type = "Sync"
          /\ extended_state' = "Ready" /\ Write(<<status>>)
       \/ /\ Head(up).type \notin {"Sync", "Terminate"}
          /\ UNCHANGED <<extended_state, down>>
    /\ UNCHANGED <<ClientSide, doing, rest, status, prepared, portals, bytes, owns, cancelled,
                   registry, began, overrun>>

failed_terminate ==
    /\ Reading("Terminate") /\ extended_state = "FailedUntilSync"
    /\ Leave

\* A Terminate in order is answered by going on to the end of the socket.
Terminate ==
    /\ InOrder("Terminate")
    /\ UNCHANGED <<down, ClientSide, server, cancelled, registry, began, overrun>>

\* The socket is at its end, or quiet at shutdown.
end_of_input ==
    /\ doing.kind = "copy_in" \/ (doing.kind = "read" /\ rest = << >>)
    /\ up = << >> /\ (client.at = "gone" \/ shutdown)
    /\ UNCHANGED up
    /\ Leave

Sync ==
    /\ InOrder("Sync") /\ Write(<<status>>)
    /\ UNCHANGED <<ClientSide, server, cancelled, registry, began, overrun>>

\* handle_message: COPY messages are errors outside COPY IN.
stray_copy_message ==
    /\ \E type \in {"CopyData", "CopyDone", "CopyFail"} : InOrder(type)
    /\ FailExtended
    /\ UNCHANGED <<ClientSide, rest, status, prepared, portals, bytes, owns, cancelled,
                   registry, began, overrun>>

(***************************************************************************)
(* Simple Query.                                                           *)
(***************************************************************************)
\* The unnamed statement and portal go, then the statements run one by one.
simple_query ==
    /\ InOrder("Query")
    /\ prepared' = prepared \ {""} /\ portals' = Without({""}) /\ active' = Retired({""})
    /\ \/ rest' = Head(up).statements /\ UNCHANGED <<down, doing>>
       \/ FailQuery(status)  \* split_statements or parse_copy refuses the text
    /\ UNCHANGED <<ClientSide, extended_state, status, bytes, owns, cancelled,
                   queries, stopped, forgotten, began, overrun>>

Next_statement(kinds) == doing.kind = "read" /\ rest # << >> /\ Head(rest) \in kinds

Statements == {"statement", "begin", "commit", "rollback", "deallocate"}

\* authorize refuses, before anything is registered.
refuse_statement ==
    /\ Next_statement(Statements \union {"copy_in", "copy_out"})
    /\ FailQuery(status)
    /\ UNCHANGED <<up, ClientSide, extended_state, status, prepared, portals, bytes, owns,
                   cancelled, registry, began, overrun>>

\* reset_cancellation and begin_query take the registry's lock one after the other: a
\* CancelRequest may come between them, and then stops a query not yet listed.
New_query == Len(queries) + 1

Reset_cancellation == cancelled' = FALSE /\ queries' = Append(queries, Issued)

Begin_query == active' = active \union {doing.query}

\* A start that keeps an old cancellation.
execute_simple_statement_uncleared ==
    /\ Next_statement(Statements)
    /\ queries' = Append(queries, Issued)
    /\ doing' = [Read EXCEPT !.kind = "starts_statement", !.query = New_query]
    /\ UNCHANGED <<up, down, ClientSide, extended_state, rest, status, prepared, portals, bytes,
                   owns, cancelled, active, stopped, forgotten, began, overrun>>

execute_simple_statement ==
    /\ Next_statement(Statements)
    /\ Reset_cancellation
    /\ doing' = [Read EXCEPT !.kind = "starts_statement", !.query = New_query]
    /\ UNCHANGED <<up, down, ClientSide, extended_state, rest, status, prepared, portals, bytes,
                   owns, active, stopped, forgotten, began, overrun>>

begin_simple_statement ==
    /\ doing.kind = "starts_statement"
    /\ Begin_query
    /\ doing' = [doing EXCEPT !.kind = "statement"]
    /\ UNCHANGED <<up, down, ClientSide, extended_state, rest, status, prepared, portals, bytes,
                   owns, cancelled, queries, stopped, forgotten, began, overrun>>

\* What the statement does in the engine: it takes effect or fails its transaction.
Effect(kind) ==
    \/ kind \in {"statement", "deallocate"} /\ status # "E" /\ UNCHANGED <<status, began>>
    \/ kind = "begin" /\ status = "I" /\ status' = "T" /\ began' = TRUE
    \/ kind = "commit" /\ status = "T" /\ status' = "I" /\ began' = FALSE
    \/ kind = "rollback" /\ status # "I" /\ status' = "I" /\ began' = FALSE

Failure == status' = (IF status = "T" THEN "E" ELSE status) /\ UNCHANGED began

\* The engine found the flag of the connection set, or failed by itself.
Stopped_or_failed ==
    \/ UNCHANGED stopped
    \/ cancelled /\ stopped' = stopped \union {doing.query}

\* DISCARD and DEALLOCATE ALL forget the statements and retire every portal.
Completed(kind) ==
    /\ prepared' = IF kind = "deallocate" THEN {} ELSE prepared
    /\ portals' = IF kind = "deallocate" THEN << >> ELSE portals
    /\ active' = (IF kind = "deallocate" THEN Retired(Names) ELSE active) \ {doing.query}

\* finish_registered_query, and the reply.  The cancellation flag and shutdown are
\* looked at between the events of the stream, so a statement that has taken effect
\* may still be reported as cancelled.
finish_statement ==
    /\ doing.kind = "statement"
    /\ LET kind == Head(rest) IN
       \/ /\ Effect(kind) /\ Completed(kind)
          /\ rest' = Tail(rest) /\ doing' = Read
          /\ IF Len(rest) = 1 THEN Write(<<status'>>) ELSE UNCHANGED down
          /\ UNCHANGED stopped
       \/ /\ Failure \/ ((cancelled \/ shutdown) /\ Effect(kind))
          /\ active' = active \ {doing.query}
          /\ Stopped_or_failed
          /\ FailQuery(status')
          /\ UNCHANGED <<prepared, portals>>
    /\ UNCHANGED <<up, ClientSide, extended_state, bytes, owns, cancelled, queries, forgotten, overrun>>

\* COPY TO: neither registered nor preceded by reset_cancellation.
copy_to_stdout ==
    /\ Next_statement({"copy_out"})
    /\ \/ /\ status # "E" /\ rest' = Tail(rest) /\ UNCHANGED <<status, doing>>
          /\ IF Len(rest) = 1 THEN Write(<<status>>) ELSE UNCHANGED down
       \/ Failure /\ FailQuery(status')
    /\ UNCHANGED <<up, ClientSide, extended_state, prepared, portals, bytes, owns, cancelled,
                   registry, began, overrun>>

(***************************************************************************)
(* COPY IN.                                                                *)
(***************************************************************************)
\* begin_copy_transaction opens a transaction unless the client has one.
copy_from_stdin ==
    /\ Next_statement({"copy_in"})
    /\ \/ /\ status # "E"
          /\ status' = "T" /\ owns' = (status = "I")
          /\ doing' = [Read EXCEPT !.kind = "copy_in"] /\ bytes' = 0
          /\ Write(<<"G">>) /\ UNCHANGED rest
       \/ status = "E" /\ FailQuery(status) /\ UNCHANGED <<status, owns, bytes>>
    /\ UNCHANGED <<up, ClientSide, extended_state, prepared, portals, cancelled, registry, began,
                   overrun>>

Receiving(type) ==
    /\ doing.kind = "copy_in" /\ up # << >> /\ Head(up).type = type
    /\ up' = Tail(up)

\* abort_copy_transaction rolls back its own transaction and fails the client's.
abort_copy_transaction_kept ==
    /\ status' = IF owns THEN "T" ELSE "E"
    /\ FailQuery(status') /\ bytes' = 0 /\ owns' = FALSE

abort_copy_transaction ==
    /\ status' = IF owns THEN "I" ELSE "E"
    /\ FailQuery(status') /\ bytes' = 0 /\ owns' = FALSE

CopyUnchanged ==
    UNCHANGED <<ClientSide, extended_state, prepared, portals, cancelled, registry, began>>

receive_copy_data ==
    /\ Receiving("CopyData")
    /\ \/ bytes < max_copy_bytes /\ bytes' = bytes + 1
          /\ UNCHANGED <<down, rest, doing, status, owns, overrun>>
       \/ bytes = max_copy_bytes /\ abort_copy_transaction /\ overrun' = TRUE
    /\ CopyUnchanged

\* import_copy, then the COMMIT of an own transaction; each may fail.
receive_copy_done ==
    /\ Receiving("CopyDone")
    /\ \/ /\ status' = IF owns THEN "I" ELSE status
          /\ rest' = Tail(rest) /\ doing' = Read /\ bytes' = 0 /\ owns' = FALSE
          /\ IF Len(rest) = 1 THEN Write(<<status'>>) ELSE UNCHANGED down
       \/ abort_copy_transaction
       \/ owns /\ status' = "E" /\ FailQuery("E") /\ bytes' = 0 /\ owns' = FALSE
    /\ CopyUnchanged /\ UNCHANGED overrun

receive_copy_fail ==
    /\ Receiving("CopyFail") \/ Receiving("Terminate")
    /\ abort_copy_transaction
    /\ CopyUnchanged /\ UNCHANGED overrun

(***************************************************************************)
(* Extended Query.                                                         *)
(***************************************************************************)
ExtendedUnchanged == UNCHANGED <<ClientSide, rest, bytes, owns, began, overrun>>

parse ==
    /\ InOrder("Parse")
    /\ LET n == Head(up).name
           slot == IF n \in prepared THEN n = ""
                   ELSE Cardinality(prepared) < max_prepared_statements
       IN \/ /\ slot /\ status # "E"
             /\ LET old == IF n = "" THEN {p \in DOMAIN portals : portals[p].statement = ""} ELSE {}
                IN portals' = Without(old) /\ active' = Retired(old)
             /\ prepared' = prepared \union {n}
             /\ UNCHANGED <<down, extended_state, doing, status>>
          \/ /\ FailExtended  \* no slot, or a statement that cannot be described
             /\ status' = status \/ (slot /\ status = "T" /\ status' = "E")
             /\ UNCHANGED <<prepared, portals, active>>
    /\ UNCHANGED <<cancelled, queries, stopped, forgotten>>
    /\ ExtendedUnchanged

bind ==
    /\ InOrder("Bind")
    /\ LET p == Head(up).portal
           n == Head(up).statement
           slot == IF p \in DOMAIN portals THEN p = "" ELSE Cardinality(DOMAIN portals) < max_portals
           new == [query |-> None, started |-> FALSE, completed |-> FALSE, statement |-> n]
       IN \/ /\ slot /\ n \in prepared
             /\ portals' = [q \in DOMAIN portals \union {p} |-> IF q = p THEN new ELSE portals[q]]
             /\ active' = Retired({p})
             /\ UNCHANGED <<down, extended_state, doing>>
          \/ FailExtended /\ UNCHANGED <<portals, active>>  \* or the parameters are malformed
    /\ UNCHANGED <<status, prepared, cancelled, queries, stopped, forgotten>>
    /\ ExtendedUnchanged

\* Nothing to start: there is no such portal, or it is complete ("SELECT 0"), or
\* authorize refuses it.
execute_nothing ==
    /\ InOrder("Execute")
    /\ LET p == Head(up).portal IN
       \/ p \in DOMAIN portals /\ portals[p].completed /\ UNCHANGED <<down, extended_state, doing>>
       \/ (p \in DOMAIN portals => ~portals[p].completed /\ ~portals[p].started) /\ FailExtended
    /\ UNCHANGED <<status, prepared, portals, cancelled, registry>>
    /\ ExtendedUnchanged

\* The first Execute opens the stream; a portal whose stream could not be opened
\* starts again, under another query id.
execute_portal_starts ==
    /\ InOrder("Execute")
    /\ Head(up).portal \in DOMAIN portals
    /\ LET p == Head(up).portal IN
       /\ ~portals[p].started /\ ~portals[p].completed
       /\ doing' = [kind |-> "starts_portal", query |-> New_query, portal |-> p]
    /\ Reset_cancellation
    /\ UNCHANGED <<down, extended_state, status, prepared, portals, active, stopped, forgotten>>
    /\ ExtendedUnchanged

begin_portal ==
    /\ doing.kind = "starts_portal"
    /\ Begin_query
    /\ LET p == doing.portal IN
       /\ forgotten' = forgotten \union ({portals[p].query} \cap active)
       /\ \/ /\ status # "E"
             /\ portals' = [portals EXCEPT ![p].query = doing.query, ![p].started = TRUE]
             /\ doing' = [doing EXCEPT !.kind = "portal"]
             /\ UNCHANGED <<down, extended_state, status, stopped>>
          \/ /\ portals' = [portals EXCEPT ![p].query = doing.query]
             /\ status' = (IF status = "T" THEN "E" ELSE status)
             /\ Stopped_or_failed
             /\ FailExtended
    /\ UNCHANGED <<up, prepared, cancelled, queries>>
    /\ ExtendedUnchanged

execute_portal_resumes ==
    /\ InOrder("Execute")
    /\ Head(up).portal \in DOMAIN portals
    /\ LET p == Head(up).portal IN
       /\ portals[p].started /\ ~portals[p].completed
       /\ doing' = [kind |-> "portal", query |-> portals[p].query, portal |-> p]
    /\ UNCHANGED <<down, extended_state, status, prepared, portals, cancelled, registry>>
    /\ ExtendedUnchanged

\* The rows asked for are sent, or all of them, or the stream fails.  An error found
\* by check_cancelled leaves the query registered.
execute_portal_inner ==
    /\ doing.kind = "portal"
    /\ LET p == doing.portal IN
       \/ doing' = Read /\ UNCHANGED <<portals, active, stopped, extended_state, down, status>>
       \/ /\ portals' = [portals EXCEPT ![p].completed = TRUE, ![p].started = FALSE]
          /\ active' = active \ {doing.query}
          /\ doing' = Read /\ UNCHANGED <<stopped, extended_state, down, status>>
       \/ /\ active' = active \ {doing.query}
          /\ Stopped_or_failed
          /\ status' = (IF status = "T" THEN "E" ELSE status)
          /\ FailExtended /\ UNCHANGED portals
       \/ /\ cancelled \/ shutdown
          /\ stopped' = IF shutdown THEN stopped ELSE stopped \union {doing.query}
          /\ FailExtended /\ UNCHANGED <<portals, active, status>>
    /\ UNCHANGED <<up, prepared, cancelled, queries, forgotten>>
    /\ ExtendedUnchanged

close_portal ==
    /\ InOrder("ClosePortal")
    /\ LET p == Head(up).name IN
       \/ /\ p \in DOMAIN portals /\ portals' = Without({p}) /\ active' = Retired({p})
          /\ UNCHANGED <<down, extended_state, doing>>
       \/ p \notin DOMAIN portals /\ FailExtended /\ UNCHANGED <<portals, active>>
    /\ UNCHANGED <<status, prepared, cancelled, queries, stopped, forgotten>>
    /\ ExtendedUnchanged

close_statement ==
    /\ InOrder("CloseStatement")
    /\ LET n == Head(up).name
           old == {p \in DOMAIN portals : portals[p].statement = n}
       IN \/ /\ n \in prepared /\ prepared' = prepared \ {n}
             /\ portals' = Without(old) /\ active' = Retired(old)
             /\ UNCHANGED <<down, extended_state, doing>>
          \/ n \notin prepared /\ FailExtended /\ UNCHANGED <<prepared, portals, active>>
    /\ UNCHANGED <<status, cancelled, queries, stopped, forgotten>>
    /\ ExtendedUnchanged

Serve ==
    \/ failed_until_sync \/ failed_terminate \/ Terminate \/ end_of_input \/ Sync
    \/ stray_copy_message \/ simple_query \/ refuse_statement
    \/ execute_simple_statement \/ begin_simple_statement \/ finish_statement
    \/ copy_to_stdout \/ copy_from_stdin \/ receive_copy_data
    \/ receive_copy_done \/ receive_copy_fail \/ parse \/ bind \/ execute_nothing
    \/ execute_portal_starts \/ begin_portal \/ execute_portal_resumes \/ execute_portal_inner
    \/ close_portal \/ close_statement

Converse == read_backend \/ copy_data \/ sync \/ cut_off

Finished == doing.kind = "closed" /\ client.at = "gone" /\ UNCHANGED vars

Next == query \/ extended \/ hang_up \/ Converse \/ cancel \/ stop \/ Serve \/ Finished

\* The connection has a thread of its own, and a client that has sent a request
\* reads its answer.
Spec == Init /\ [][Next]_vars /\ WF_vars(Serve) /\ WF_vars(Converse)

(***************************************************************************)
(* Properties.                                                             *)
(***************************************************************************)
\* The two ends agree on where one request ends and the next begins: a client that
\* has read its ReadyForQuery has nothing in flight in either direction, and knows
\* the transaction status (read_query_cycle_batches, Connection::run).  A COPY that
\* the server gave up while data was on its way is the exception.
InSync ==
    (client.at = "idle" /\ doing.kind # "closed") =>
        overrun \/ (up = << >> /\ down = << >> /\ client.status = status)

\* A CancelRequest never stops a query of a later request: it came after the client had
\* begun to send what the query belongs to (reset_cancellation, check_cancelled).  Within one
\* request it stops whatever runs, a query that is just starting included; COPY TO, which is
\* no query of the registry and does not reset the flag, is not among these.
NoStaleCancel == \A q \in stopped : queries[q] <= asked

\* What the server holds for the client is what the client is doing.  The registry shows as
\* running the statement the connection runs or a portal that is still open, and nothing is
\* left when the connection has gone.  (A portal that could not be opened and is executed again
\* leaves its first id.)  Outside a COPY a transaction is open only because the client has begun
\* it (begin_copy_transaction, abort_copy_transaction, complete_copy_transaction).
StateIsTheClients ==
    /\ active \subseteq {doing.query} \union forgotten
           \union {portals[p].query : p \in {q \in DOMAIN portals : ~portals[q].completed}}
    /\ doing.kind = "closed" => active = {}
    /\ (status = "T" /\ doing.kind # "copy_in") => began

\* Every request is answered, with a ReadyForQuery or the end of the connection.
Answered == client.at # "waiting" \/ overrun
RequestsEnd == ~Answered ~> Answered
=============================================================================
