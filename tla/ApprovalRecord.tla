----------------------------- MODULE ApprovalRecord -----------------------------
(***************************************************************************)
(* What packages/approval/src/lifecycle.ts promises its callers about one  *)
(* approval record (interface ApprovalOrchestrator): a request opens it,   *)
(* exactly one of a vote, a cancel and the deadline ends it, a vote that   *)
(* was accepted is awaited behind a latch, and nothing follows the end.    *)
(* ApprovalLifecycle implements it; HeldCall is built on it.               *)
(***************************************************************************)
EXTENDS Integers

CONSTANTS
    Approvals,  \* approval ids
    Timeout,    \* timeoutSeconds
    Horizon     \* bound on the clock

Terminal == {"approved", "denied", "expired", "cancelled"}

VARIABLES
    state,        \* absent, pending or terminal
    resolving,    \* a vote has been accepted and is being carried out
    requestedAt,  \* when the record was opened
    now           \* the clock

record == <<state, resolving, requestedAt, now>>

RecordInit ==
    /\ state = [a \in Approvals |-> "absent"]
    /\ resolving = [a \in Approvals |-> FALSE]
    /\ requestedAt = [a \in Approvals |-> 0]
    /\ now = 0

End(a, s) == state' = [state EXCEPT ![a] = s]
Latch(a)  == resolving' = [resolving EXCEPT ![a] = TRUE]

\* Past its deadline, and no vote is being carried out.
Due(a) ==
    /\ state[a] = "pending"
    /\ ~resolving[a]
    /\ now >= requestedAt[a] + Timeout

Claimable(a) == state[a] = "pending" /\ ~resolving[a] /\ ~Due(a)

\* request(): the record opens, or is denied on the spot (nothing audits it).
Open(a) ==
    /\ state[a] = "absent"
    /\ now + Timeout <= Horizon
    /\ \E s \in {"pending", "denied"} : End(a, s)
    /\ requestedAt' = [requestedAt EXCEPT ![a] = now]
    /\ UNCHANGED <<resolving, now>>

\* Whoever touches the record after its deadline expires it.
Lapse(a) == Due(a) /\ End(a, "expired") /\ UNCHANGED <<resolving, requestedAt, now>>

\* resolve(_, "denied") and cancel(): claimed and ended in one step.
Claim(a, s) ==
    /\ Claimable(a)
    /\ Latch(a)
    /\ End(a, s)
    /\ UNCHANGED <<requestedAt, now>>

\* resolve(_, "approved"): the vote is taken, or denied for want of an audit.
Accept(a) ==
    /\ Claimable(a)
    /\ Latch(a)
    /\ UNCHANGED state \/ End(a, "denied")
    /\ UNCHANGED <<requestedAt, now>>

\* The mint and the re-evaluation are over.
Conclude(a) ==
    /\ state[a] = "pending"
    /\ resolving[a]
    /\ \E s \in {"approved", "denied"} : End(a, s)
    /\ UNCHANGED <<resolving, requestedAt, now>>

Tick == now < Horizon /\ now' = now + 1 /\ UNCHANGED <<state, resolving, requestedAt>>

RecordNext ==
    \/ \E a \in Approvals :
          \/ Open(a)
          \/ Lapse(a)
          \/ \E s \in {"denied", "cancelled"} : Claim(a, s)
          \/ Accept(a)
          \/ Conclude(a)
    \/ Tick

RecordSpec == RecordInit /\ [][RecordNext]_record

=============================================================================
