--------------------------- MODULE ConnectorSession ---------------------------
(***************************************************************************)
(* One connection through a connector helper (protocol v3): the calls of   *)
(* the desktop (DbmsRuntime), which take turns with the ConnectorHost; the *)
(* pipe; and in the helper process the task that reads requests and the    *)
(* task that runs them in the driver's session (ordadb-connectors          *)
(* host_parts, ordadb-connector-sdk runtime_v3_parts, apps/desktop         *)
(* dbms_parts).  The helper's response channel and the pipe behind it are  *)
(* one queue.  A call's name is also its request id.                       *)
(***************************************************************************)
EXTENDS Naturals, Sequences, FiniteSets

CONSTANTS
    Calls,
    MaxEvents,   \* bound: the events of one execution before it ends
    MaxDrops     \* bound: the calls that are dropped halfway

VARIABLES
    call,        \* what each call does
    turn,        \* the host's mutex: who waits for it, in order; the first has it
    host,        \* "open", "taken" by disconnect
    pending,     \* ConnectorHost.v3_pending_requests, with the kind of each
    disconnect,  \* what disconnect does
    to_helper, from_helper,   \* requests and responses that are on their way
    running,     \* the helper's active executions, with their token
    commands,    \* the session's queue
    executing,   \* what the session does, or Idle
    helper,      \* "running", "stopping" (no more requests are read), "gone"
    drops,       \* bound
    unclean,     \* ghost: a call left something of itself in the pipe or the helper
    late,        \* ghost: executions that disconnect did not see
    given_up     \* ghost: executions whose driver failed with 57014, their token not set

connectorVars == <<call, turn, host, pending, disconnect, to_helper, from_helper, running,
                   commands, executing, helper, drops, unclean, late, given_up>>

Idle == [pc |-> "idle", id |-> "none"]
Disconnect == "disconnect"
ASSUME CallsAssumption == Disconnect \notin Calls

Garbled == [type |-> "garbled", id |-> "none"]   \* what is left of a frame read in part
Message(type, id) == [type |-> type, id |-> id]
NoEntry == [x \in {} |-> FALSE]
Put(f, x, v) == [y \in DOMAIN f \union {x} |-> IF y = x THEN v ELSE f[y]]
Removed(f, x) == [y \in DOMAIN f \ {x} |-> f[y]]
HasTurn(c) == turn # <<>> /\ Head(turn) = c

ConnectorInit ==
    /\ call = [c \in Calls |-> [pc |-> "none", kind |-> "none", cancelled |-> FALSE,
                                cancel_sent |-> FALSE, answer |-> "none"]]
    /\ turn = <<>>
    /\ host = "open"
    /\ pending = NoEntry
    /\ disconnect = "none"
    /\ to_helper = <<>> /\ from_helper = <<>>
    /\ running = NoEntry
    /\ commands = <<>>
    /\ executing = Idle
    /\ helper = "running"
    /\ drops = 0 /\ unclean = FALSE /\ late = {} /\ given_up = {}

pipes == <<to_helper, from_helper>>
helperVars == <<running, commands, executing, helper, given_up>>
\* The helper process ends: its memory is gone, nobody reads the pipe.
Gone ==
    /\ helper' = "gone"
    /\ to_helper' = <<>> /\ commands' = <<>>
    /\ running' = NoEntry
    /\ executing' = Idle

callerVars == <<call, turn, host, pending, disconnect, drops, late>>

-----------------------------------------------------------------------------
(***************************************************************************)
(* The calls.  An "execute" is registered and can be cancelled, an "ai" is *)
(* an execution of the assistant, whose future may be dropped, a           *)
(* "transaction" stands for every call with a single answer.               *)
(***************************************************************************)
Registered == {c \in Calls : call[c].kind = "execute" /\ call[c].pc \notin {"none", "done"}}

start_execute(c, kind) ==
    /\ call[c].pc = "none"
    /\ disconnect \in {"none", "cancelled"}
    /\ call' = [call EXCEPT ![c].pc = "started", ![c].kind = kind]
    /\ late' = IF kind = "execute" /\ disconnect = "cancelled" THEN late \union {c} ELSE late
    /\ UNCHANGED <<turn, host, pending, disconnect, pipes, helperVars, drops, unclean>>

lock_host(c) ==
    /\ call[c].pc = "started"
    /\ call' = [call EXCEPT ![c].pc = "waiting"]
    /\ turn' = Append(turn, c)
    /\ UNCHANGED <<host, pending, disconnect, pipes, helperVars, drops, unclean, late>>

\* The call returns, and with it the guard of the mutex is dropped.
Return(c, answer) ==
    /\ call' = [call EXCEPT ![c].pc = "done", ![c].answer = answer]
    /\ turn' = Tail(turn)

\* send_v3, or the error of a host that was taken or has lost its helper.
send_v3(c) ==
    /\ call[c].pc = "waiting" /\ HasTurn(c)
    /\ IF host = "open" /\ helper # "gone"
       THEN /\ call' = [call EXCEPT ![c].pc = "receiving"]
            /\ pending' = Put(pending, c, IF call[c].kind = "transaction" THEN "transaction"
                                          ELSE "execute")
            /\ to_helper' = Append(to_helper, Message(pending'[c], c))
            /\ UNCHANGED turn
       ELSE Return(c, "closed") /\ UNCHANGED <<pending, to_helper>>
    /\ UNCHANGED <<host, disconnect, from_helper, helperVars, drops, unclean, late>>

cancel_call(c) ==
    /\ c \in Registered /\ ~call[c].cancelled
    /\ call' = [call EXCEPT ![c].cancelled = TRUE]
    /\ UNCHANGED <<turn, host, pending, disconnect, pipes, helperVars, drops, unclean, late>>

\* select! gives up reading for the cancellation; what it has read of a frame is lost.
send_cancel(c) ==
    /\ call[c].pc = "receiving" /\ HasTurn(c)
    /\ call[c].cancelled /\ ~call[c].cancel_sent
    /\ IF helper # "gone"
       THEN /\ call' = [call EXCEPT ![c].cancel_sent = TRUE]
            /\ to_helper' = Append(to_helper, Message("cancel", c))
            /\ UNCHANGED turn
       ELSE Return(c, "closed") /\ UNCHANGED to_helper
    /\ \/ UNCHANGED <<from_helper, unclean>>
       \/ from_helper # <<>> /\ from_helper' = <<Garbled>> \o Tail(from_helper) /\ unclean' = TRUE
    /\ UNCHANGED <<host, pending, disconnect, helperVars, drops, late>>

\* What validate_v3_response makes of the table of pending requests.
Terminal == {"complete", "cancelled", "error", "transaction"}
Expected(r) ==
    /\ r.id \in DOMAIN pending
    /\ r.type \in {"event", "complete", "cancelled"} => pending[r.id] = "execute"
    /\ r.type = "transaction" => pending[r.id] = "transaction"

\* receive_v3 and what the caller makes of the response; an answer to another
\* request is an error, as is a frame that makes no sense, which stays one.
receive_v3(c) ==
    /\ call[c].pc = "receiving" /\ HasTurn(c) /\ from_helper # <<>>
    /\ LET r == Head(from_helper) IN
       /\ from_helper' = IF r = Garbled THEN from_helper ELSE Tail(from_helper)
       /\ pending' = IF Expected(r) /\ r.type \in Terminal THEN Removed(pending, r.id) ELSE pending
       /\ IF Expected(r) /\ r.id = c
          THEN IF r.type \in Terminal THEN Return(c, r.type) ELSE UNCHANGED <<call, turn>>
          ELSE Return(c, "unexpected")
    /\ UNCHANGED <<host, disconnect, to_helper, helperVars, drops, unclean, late>>

\* The child's exit ends a receive.
helper_exit_error(c) ==
    /\ call[c].pc = "receiving" /\ HasTurn(c) /\ helper = "gone"
    /\ Return(c, "closed")
    /\ UNCHANGED <<host, pending, disconnect, pipes, helperVars, drops, unclean, late>>

\* run_with_timeout drops the future of a tool call that was cancelled or takes too
\* long, wherever it waits; its token, cancelled then, is watched by nobody.
drop_call(c) ==
    /\ call[c].kind = "ai" /\ call[c].pc \in {"waiting", "receiving"}
    /\ drops < MaxDrops
    /\ drops' = drops + 1
    /\ call' = [call EXCEPT ![c].pc = "done", ![c].answer = "dropped"]
    /\ \E i \in DOMAIN turn :
           turn[i] = c /\ turn' = SubSeq(turn, 1, i - 1) \o SubSeq(turn, i + 1, Len(turn))
    /\ unclean' = (unclean \/ call[c].pc = "receiving")
    /\ UNCHANGED <<host, pending, disconnect, pipes, helperVars, late>>

-----------------------------------------------------------------------------
(***************************************************************************)
(* disconnect: cancel what is registered, remove the connection, wait for  *)
(* the host, shut it down.                                                 *)
(***************************************************************************)
Disconnecting(pc) == disconnect' = pc

disconnect_cancels ==
    /\ disconnect = "none"
    /\ Disconnecting("cancelled")
    /\ call' = [c \in Calls |-> [call[c] EXCEPT !.cancelled = @ \/ c \in Registered]]
    /\ UNCHANGED <<turn, host, pending, pipes, helperVars, drops, unclean, late>>

disconnect_locks ==
    /\ disconnect = "cancelled"
    /\ Disconnecting("waiting")
    /\ turn' = Append(turn, Disconnect)
    /\ UNCHANGED <<call, host, pending, pipes, helperVars, drops, unclean, late>>

disconnect_shuts_down ==
    /\ disconnect = "waiting" /\ HasTurn(Disconnect)
    /\ host' = "taken"
    /\ to_helper' = IF helper = "gone" THEN to_helper
                    ELSE Append(to_helper, Message("shutdown", Disconnect))
    /\ Disconnecting("stopping")
    /\ turn' = Tail(turn)
    /\ UNCHANGED <<call, pending, from_helper, helperVars, drops, unclean, late>>

\* The helper has gone, or has not for three seconds and is killed.
disconnect_ends ==
    /\ disconnect = "stopping"
    /\ Disconnecting("done")
    /\ Gone
    /\ UNCHANGED <<call, turn, host, pending, from_helper, drops, unclean, late, given_up>>

-----------------------------------------------------------------------------
(***************************************************************************)
(* The helper.                                                             *)
(***************************************************************************)
\* run_requests_v3
run_execute ==
    /\ Head(to_helper).type = "execute"
    /\ running' = Put(running, Head(to_helper).id, FALSE)
    /\ commands' = Append(commands, Head(to_helper))
    /\ UNCHANGED <<from_helper, helper, unclean>>

run_transaction ==
    /\ Head(to_helper).type = "transaction"
    /\ commands' = Append(commands, Head(to_helper))
    /\ UNCHANGED <<from_helper, running, helper, unclean>>

\* A cancellation that comes too late is answered with an error of its own.
run_cancel ==
    /\ Head(to_helper).type = "cancel"
    /\ IF Head(to_helper).id \in DOMAIN running
       THEN /\ running' = [running EXCEPT ![Head(to_helper).id] = TRUE]
            /\ UNCHANGED <<from_helper, unclean>>
       ELSE /\ from_helper' = Append(from_helper, Message("error", Head(to_helper).id))
            /\ unclean' = TRUE
            /\ UNCHANGED running
    /\ UNCHANGED <<commands, helper>>

run_shutdown ==
    /\ Head(to_helper).type = "shutdown"
    /\ commands' = Append(commands, Head(to_helper))
    /\ helper' = "stopping"
    /\ UNCHANGED <<from_helper, running, unclean>>

run_requests_v3 ==
    /\ helper = "running" /\ to_helper # <<>>
    /\ to_helper' = Tail(to_helper)
    /\ run_execute \/ run_transaction \/ run_cancel \/ run_shutdown
    /\ UNCHANGED <<callerVars, executing, given_up>>

\* run_session_v3 takes the next command.
session_takes ==
    /\ helper # "gone" /\ executing = Idle /\ commands # <<>>
    /\ IF Head(commands).type = "shutdown" THEN Gone
       ELSE /\ executing' = [pc |-> Head(commands).type, id |-> Head(commands).id, events |-> 0]
            /\ commands' = Tail(commands)
            /\ UNCHANGED <<helper, to_helper, running>>
    /\ UNCHANGED <<callerVars, from_helper, unclean, given_up>>

\* begin, commit, rollback, or a page of the catalog.
session_answers ==
    /\ helper # "gone" /\ executing.pc = "transaction"
    /\ \E type \in {"transaction", "error"} :
           from_helper' = Append(from_helper, Message(type, executing.id))
    /\ executing' = Idle
    /\ UNCHANGED <<callerVars, to_helper, running, commands, helper, unclean, given_up>>

session_emits ==
    /\ helper # "gone" /\ executing.pc = "execute" /\ executing.events < MaxEvents
    /\ executing' = [executing EXCEPT !.events = @ + 1]
    /\ from_helper' = Append(from_helper, Message("event", executing.id))
    /\ UNCHANGED <<callerVars, to_helper, running, commands, helper, unclean, given_up>>

\* The driver sends the terminal event, or fails: with an error 57014, for it has found the
\* token cancelled or is told so by its server (a timeout, an interruption), or with another
\* one.  How long it takes until then is its own affair.
session_completes ==
    /\ helper # "gone" /\ executing.pc = "execute"
    /\ executing' = [executing EXCEPT !.pc = "terminal"]
    /\ from_helper' = Append(from_helper, Message("complete", executing.id))
    /\ UNCHANGED <<callerVars, to_helper, running, commands, helper, unclean, given_up>>

session_stops ==
    /\ helper # "gone" /\ executing.pc = "execute"
    /\ \/ /\ executing' = [executing EXCEPT !.pc = "cancelled"]
          /\ given_up' = IF running[executing.id] THEN given_up
                         ELSE given_up \union {executing.id}
       \/ executing' = [executing EXCEPT !.pc = "error"] /\ UNCHANGED given_up
    /\ UNCHANGED <<callerVars, to_helper, from_helper, running, commands, helper, unclean>>

\* Mutant: a token that was cancelled is reported after the terminal event as well.
session_removes_reporting ==
    /\ helper # "gone" /\ executing.pc \in {"terminal", "cancelled", "error"}
    /\ executing.id \in DOMAIN running
    /\ running' = Removed(running, executing.id)
    /\ executing' = IF executing.pc = "terminal" /\ ~running[executing.id] THEN Idle
                    ELSE [executing EXCEPT !.pc = IF running[executing.id] THEN "cancelled" ELSE @]
    /\ UNCHANGED <<callerVars, to_helper, from_helper, commands, helper, unclean, given_up>>

\* It is no longer active; and what it is told when no terminal event was sent: that it
\* was cancelled, when it failed and the token says so.  A driver that returned without a
\* failure is told of as an error all the same.
session_removes ==
    /\ helper # "gone" /\ executing.pc \in {"terminal", "cancelled", "error"}
    /\ executing.id \in DOMAIN running
    /\ running' = Removed(running, executing.id)
    /\ IF executing.pc = "terminal" THEN executing' = Idle
       ELSE \E pc \in {executing.pc, "cancelled"} :
                /\ pc = executing.pc \/ running[executing.id]
                /\ executing' = [executing EXCEPT !.pc = pc]
    /\ UNCHANGED <<callerVars, to_helper, from_helper, commands, helper, unclean, given_up>>

session_reports ==
    /\ helper # "gone" /\ executing.pc \in {"cancelled", "error"}
    /\ executing.id \notin DOMAIN running
    /\ from_helper' = Append(from_helper, Message(executing.pc, executing.id))
    /\ executing' = Idle
    /\ UNCHANGED <<callerVars, to_helper, running, commands, helper, unclean, given_up>>

\* The helper process dies.
helper_exits ==
    /\ helper # "gone"
    /\ Gone
    /\ UNCHANGED <<callerVars, from_helper, unclean, given_up>>

-----------------------------------------------------------------------------
Proceed ==
    \/ \E c \in Calls :
           lock_host(c) \/ send_v3(c) \/ send_cancel(c) \/ receive_v3(c) \/ helper_exit_error(c)
    \/ disconnect_locks \/ disconnect_shuts_down \/ disconnect_ends

Session ==
    \/ session_takes \/ session_answers \/ session_removes \/ session_reports
    \/ executing.pc = "execute" /\ running[executing.id] /\ (session_completes \/ session_stops)

ConnectorNext ==
    \/ Proceed
    \/ \E c \in Calls :
           \/ \E kind \in {"execute", "ai", "transaction"} : start_execute(c, kind)
           \/ cancel_call(c) \/ drop_call(c)
    \/ disconnect_cancels
    \/ run_requests_v3
    \/ session_takes \/ session_answers \/ session_emits \/ session_completes \/ session_stops
    \/ session_removes \/ session_reports
    \/ helper_exits

\* Calls that can go on do, the helper reads what it is sent, and its session works,
\* but an execution need not end before it is cancelled.
ConnectorSpec ==
    /\ ConnectorInit /\ [][ConnectorNext]_connectorVars
    /\ WF_connectorVars(Proceed)
    /\ WF_connectorVars(run_requests_v3)
    /\ WF_connectorVars(Session)

-----------------------------------------------------------------------------
\* Until something of a call is left behind every call gets an answer to its own
\* request, and the connection is clean when it returns: the table of pending
\* requests has what is under way, nothing is on its way to nobody, and an execution
\* that is reported as cancelled was asked to stop by its own caller, unless its driver
\* gave it up with an error 57014 of its own.
AnswersAreOnesOwn ==
    ~unclean =>
        /\ \A c \in Calls : call[c].answer # "unexpected"
        /\ \A c \in Calls : call[c].answer = "cancelled" =>
                              call[c].cancelled \/ c \in given_up
        /\ DOMAIN pending \subseteq {c \in Calls : HasTurn(c) /\ call[c].pc = "receiving"}
               \union {c \in Calls : call[c].answer = "closed"}
        /\ \A i \in DOMAIN from_helper : HasTurn(from_helper[i].id) \/ helper = "gone"

\* disconnect ends, whatever the driver takes its time for: it has cancelled every
\* execution it may wait for.  An execution that is registered after it looked, the
\* assistant's, which are not registered, and what an unclean call left are not.
Disconnected ==
    \/ disconnect \in {"none", "done"}
    \/ late # {} \/ unclean \/ \E c \in Calls : call[c].kind = "ai"
DisconnectEnds == ~Disconnected ~> Disconnected
=============================================================================
