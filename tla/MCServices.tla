------------------------------ MODULE MCServices ------------------------------
(***************************************************************************)
(* Two parts that share no state: a client with the PostgreSQL server, and *)
(* the desktop with the helper of a connector.  A behaviour is one of the  *)
(* part its initial state chooses; the other keeps its initial state.      *)
(***************************************************************************)
EXTENDS Wire, ConnectorSession

VARIABLE part

QueryLists == {<<"statement">>, <<"begin">>, <<"commit">>, <<"rollback">>, <<"deallocate">>,
               <<"copy_in">>, <<"copy_out", "statement">>}

Messages ==
    {[type |-> "Parse", name |-> ""], [type |-> "CloseStatement", name |-> ""],
     [type |-> "ClosePortal", name |-> "p"]}
        \union {[type |-> "Bind", portal |-> p, statement |-> ""] : p \in Names}
        \union {[type |-> "Execute", portal |-> p] : p \in Names}

services == <<part, vars, connectorVars>>

MCInit == part \in {"wire", "connector"} /\ Init /\ ConnectorInit

Wired     == part = "wire" /\ UNCHANGED <<part, connectorVars>>
Connected == part = "connector" /\ UNCHANGED <<part, vars>>

\* The desktop may have nothing left to do.
MCNext ==
    \/ Wired /\ Next
    \/ Connected /\ (ConnectorNext \/ UNCHANGED connectorVars)

\* The fairness each of the parts states.
MCSpec ==
    /\ MCInit /\ [][MCNext]_services
    /\ WF_services(Wired /\ Serve)
    /\ WF_services(Wired /\ Converse)
    /\ WF_services(Connected /\ Proceed)
    /\ WF_services(Connected /\ run_requests_v3)
    /\ WF_services(Connected /\ Session)

\* Every request of the client is answered, and every disconnect of the desktop
\* ends (RequestsEnd and DisconnectEnds).
Settled == CASE part = "wire" -> Answered [] part = "connector" -> Disconnected
RequestsAndDisconnectsEnd == ~Settled ~> Settled
=============================================================================
