-------------------------------- MODULE AiRuns --------------------------------
(***************************************************************************)
(* The runs of the assistant: AiRunEngine, which executes the tool calls   *)
(* of a round side by side, AiApprovalBroker, which asks the user before   *)
(* each mutation (ordadb-ai), and DesktopAiRuntime, which starts, cancels  *)
(* and audits (apps/desktop ai_parts).  The name of a call is also the id  *)
(* of its approval, an unpredictable identifier the user is shown.         *)
(***************************************************************************)
EXTENDS Naturals, FiniteSets

CONSTANTS
    Runs,
    Calls,   \* bound: the tool calls of all runs, <<run, number>>
    MAX_CONCURRENT_READ_TOOLS, MAX_PENDING_APPROVALS

VARIABLES
    run,         \* what each run does
    cancelled,   \* the runs whose token is cancelled
    cancelling,  \* the runs in cancel_run
    call,        \* what each tool call does
    approvals,   \* AiApprovalBroker.pending
    audit,       \* the statuses recorded of each call
    \* ghosts
    said_yes,    \* calls the user has approved in time
    executed     \* mutations that reached the database

aiVars == <<run, cancelled, cancelling, call, approvals, audit, said_yes, executed>>

Of(r) == {c \in Calls : c[1] = r}
In(r, pc) == {c \in Of(r) : call[c] = pc}
GoesTo(c, pc) == call' = [call EXCEPT ![c] = pc]
Audited(c, statuses) == audit' = [audit EXCEPT ![c] = @ \union statuses]
Removed(cs) == [c \in DOMAIN approvals \ cs |-> approvals[c]]

AiInit ==
    /\ run = [r \in Runs |-> "none"]
    /\ cancelled = {} /\ cancelling = {}
    /\ call = [c \in Calls |-> "none"]
    /\ approvals = [c \in {} |-> "undecided"]
    /\ audit = [c \in Calls |-> {}]
    /\ said_yes = {} /\ executed = {}

-----------------------------------------------------------------------------
(***************************************************************************)
(* The run: rounds of tool calls.                                          *)
(***************************************************************************)
start_run(r) ==
    /\ run[r] = "none"
    /\ run' = [run EXCEPT ![r] = "asking"]
    /\ UNCHANGED <<cancelled, cancelling, call, approvals, audit, said_yes, executed>>

\* The provider answers with tool calls, which are authorized one after the other:
\* each is a read or needs an approval.
authorize(r) ==
    /\ run[r] = "asking"
    /\ \E reads, mutations \in SUBSET In(r, "none") :
           /\ reads \cap mutations = {} /\ reads \union mutations # {}
           /\ call' = [c \in Calls |-> IF c \in reads THEN "read"
                                       ELSE IF c \in mutations THEN "mutation" ELSE call[c]]
           /\ audit' = [c \in Calls |->
                            audit[c] \union (IF c \in reads THEN {"Proposed"}
                                             ELSE IF c \in mutations THEN {"Proposed", "ApprovalRequired"}
                                             ELSE {})]
    /\ run' = [run EXCEPT ![r] = "executing"]
    /\ UNCHANGED <<cancelled, cancelling, approvals, said_yes, executed>>

\* Every call of the round has returned.
Returned(r) == \A c \in Of(r) : call[c] \in {"none", "ok", "denied", "failed"}

next_round(r) ==
    /\ run[r] = "executing" /\ Returned(r) /\ In(r, "failed") = {}
    /\ run' = [run EXCEPT ![r] = "asking"]
    /\ UNCHANGED <<cancelled, cancelling, call, approvals, audit, said_yes, executed>>

\* An answer without tool calls, an error of the provider or of a call, or the
\* cancellation; an error takes back what is pending.
end_run(r) ==
    /\ run[r] = "asking" \/ (run[r] = "executing" /\ Returned(r) /\ In(r, "failed") # {})
    /\ run' = [run EXCEPT ![r] = "ended"]
    /\ approvals' = Removed(Of(r))
    /\ UNCHANGED <<cancelled, cancelling, call, audit, said_yes, executed>>

\* DesktopAiRuntime::cancel_run: the token, then the approvals.
cancel_run(r) ==
    /\ run[r] \in {"asking", "executing"} /\ r \notin cancelled
    /\ cancelled' = cancelled \union {r}
    /\ cancelling' = cancelling \union {r}
    /\ UNCHANGED <<run, call, approvals, audit, said_yes, executed>>

cancel_approvals(r) ==
    /\ r \in cancelling
    /\ cancelling' = cancelling \ {r}
    /\ approvals' = Removed(Of(r))
    /\ UNCHANGED <<run, cancelled, call, audit, said_yes, executed>>

-----------------------------------------------------------------------------
(***************************************************************************)
(* execute_call.  Where it selects between the cancellation and something  *)
(* else that is ready, it may take either.                                 *)
(***************************************************************************)
give_up(c) ==
    /\ c[1] \in cancelled
    /\ call[c] \in {"read", "reading", "waiting", "approved", "mutating"}
    /\ approvals' = IF call[c] = "waiting" THEN Removed({c}) ELSE approvals
    /\ GoesTo(c, "failed")
    /\ UNCHANGED <<run, cancelled, cancelling, audit, said_yes, executed>>

inspect(c) ==
    /\ call[c] = "read"
    /\ Cardinality(In(c[1], "reading")) < MAX_CONCURRENT_READ_TOOLS
    /\ GoesTo(c, "reading")
    /\ Audited(c, {"Started"})
    /\ UNCHANGED <<run, cancelled, cancelling, approvals, said_yes, executed>>

\* A tool ends with an outcome that is audited, or it takes too long: its future is
\* dropped, and nothing is written.
tool_ends(c) ==
    /\ call[c] \in {"reading", "mutating"}
    /\ \/ GoesTo(c, "ok") /\ Audited(c, {"Completed"})
       \/ GoesTo(c, "failed") /\ Audited(c, {"Error"})
       \/ GoesTo(c, "failed") /\ UNCHANGED audit
    /\ UNCHANGED <<run, cancelled, cancelling, approvals, said_yes, executed>>

\* What has expired leaves the table; there may still be too many.
issue(c) ==
    /\ call[c] = "mutation"
    /\ LET left == Removed({x \in DOMAIN approvals : approvals[x] = "expired"}) IN
       IF Cardinality(DOMAIN left) < MAX_PENDING_APPROVALS
       THEN /\ approvals' = [x \in DOMAIN left \union {c} |-> IF x = c THEN "undecided" ELSE left[x]]
            /\ GoesTo(c, "waiting")
       ELSE approvals' = left /\ GoesTo(c, "failed")
    /\ UNCHANGED <<run, cancelled, cancelling, audit, said_yes, executed>>

\* The user decides, once; a decision that comes too late is refused.
decide(c) ==
    /\ c \in DOMAIN approvals
    /\ \/ /\ approvals[c] = "undecided"
          /\ \/ approvals' = [approvals EXCEPT ![c] = "yes"] /\ said_yes' = said_yes \union {c}
             \/ approvals' = [approvals EXCEPT ![c] = "no"] /\ UNCHANGED said_yes
       \/ approvals[c] = "expired" /\ approvals' = Removed({c}) /\ UNCHANGED said_yes
    /\ UNCHANGED <<run, cancelled, cancelling, call, audit, executed>>

expire(c) ==
    /\ c \in DOMAIN approvals /\ approvals[c] # "expired"
    /\ approvals' = [approvals EXCEPT ![c] = "expired"]
    /\ UNCHANGED <<run, cancelled, cancelling, call, audit, said_yes, executed>>

\* Mutant: it takes any record that is there for a yes.
take_decided_any(c) ==
    /\ call[c] = "waiting"
    /\ IF c \in DOMAIN approvals
       THEN /\ approvals[c] \in {"yes", "no", "expired"}
            /\ GoesTo(c, IF approvals[c] # "no" THEN "approved" ELSE "denied")
       ELSE GoesTo(c, IF c[1] \in cancelled THEN "failed" ELSE "denied")
    /\ approvals' = Removed({c})
    /\ UNCHANGED <<run, cancelled, cancelling, audit, said_yes, executed>>

\* No, too late and taken back are answers the provider is told of, unless the run
\* is cancelled.
take_decided(c) ==
    /\ call[c] = "waiting"
    /\ c \in DOMAIN approvals => approvals[c] # "undecided"
    /\ IF c \in DOMAIN approvals /\ approvals[c] = "yes" THEN GoesTo(c, "approved")
       ELSE GoesTo(c, IF c[1] \in cancelled THEN "failed" ELSE "denied")
    /\ approvals' = Removed({c})
    /\ UNCHANGED <<run, cancelled, cancelling, audit, said_yes, executed>>

\* mutate, under the run's mutation lock.  The state document with the audit may
\* not be writable.
mutate(c) ==
    /\ call[c] = "approved" /\ In(c[1], "mutating") = {}
    /\ \/ /\ Audited(c, {"Approved", "Started"})
          /\ GoesTo(c, "mutating")
          /\ executed' = executed \union {c}
       \/ /\ \E written \in {{}, {"Approved"}} : Audited(c, written)
          /\ GoesTo(c, "failed")
          /\ UNCHANGED executed
    /\ UNCHANGED <<run, cancelled, cancelling, approvals, said_yes>>

-----------------------------------------------------------------------------
Execute(c) ==
    give_up(c) \/ inspect(c) \/ tool_ends(c) \/ issue(c) \/ take_decided(c) \/ mutate(c)

Advance(r) == authorize(r) \/ next_round(r) \/ end_run(r) \/ cancel_approvals(r)

AiNext ==
    \/ \E r \in Runs : start_run(r) \/ cancel_run(r) \/ Advance(r)
    \/ \E c \in Calls : Execute(c) \/ decide(c) \/ expire(c)

AiSpec == AiInit /\ [][AiNext]_aiVars

-----------------------------------------------------------------------------
\* Nothing changes a database without the user's approval of this very call, given
\* while it was pending; and what may have changed one is on record as approved and
\* started, whatever was cancelled, expired or dropped since.
MutationsAreApproved ==
    /\ executed \subseteq said_yes
    /\ \A c \in executed : {"Proposed", "ApprovalRequired", "Approved", "Started"} \subseteq audit[c]
    /\ \A c \in Calls : call[c] = "ok" /\ "ApprovalRequired" \in audit[c] => c \in executed

\* The approvals that are shown to the user are those somebody waits for: none stays
\* behind to fill the table when its run has ended and cancel_run has returned.
NoApprovalIsLeft ==
    \A c \in DOMAIN approvals :
        call[c] = "waiting" /\ run[c[1]] = "executing"

ApprovalsAreKept == MutationsAreApproved /\ NoApprovalIsLeft
=============================================================================
