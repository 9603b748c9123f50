--------------------------- MODULE ApprovalLifecycle ---------------------------
(***************************************************************************)
(* The approval state machine of packages/approval/src/lifecycle.ts        *)
(* (createApprovalOrchestrator), at the granularity of the event loop: an  *)
(* action is what runs between two awaits, so the calls to resolve() that  *)
(* are parked at mintEphemeralGrant or at decide interleave with every     *)
(* other call on the same record.                                          *)
(*                                                                         *)
(* The injected dependencies appear by what they may do: audit.append may  *)
(* throw, the mint may answer, throw before or throw after persisting the  *)
(* grant, the re-evaluation may allow, refuse or throw, the revoke may     *)
(* fail.  The intermediate state "requested" is never observable: request  *)
(* runs to "pending" (or to a fail-closed "denied") without an await.      *)
(***************************************************************************)
EXTENDS Integers, Sequences, FiniteSets

CONSTANTS
    Approvals,  \* approval ids (apr_...)
    Resolvers,  \* the calls to resolve(), each made at most once
    CallOf,     \* the call hash of the snapshot frozen at request()
    Timeout,    \* timeoutSeconds
    Horizon     \* bound on the clock

ASSUME TimeAssumption == Timeout \in Nat \ {0} /\ Horizon \in Nat

Terminal == {"approved", "denied", "expired", "cancelled"}
States   == {"absent", "pending"} \cup Terminal
Events   == {"requested"} \cup {"pending"} \cup Terminal

Nobody    == "nobody"     \* the target of a resolve() call not made yet
Unsettled == "unsettled"  \* the deferred behind onResolved() has no value yet

ASSUME NobodyAssumption == Nobody \notin Approvals

VARIABLES
    state,        \* ApprovalRecord.state
    resolving,    \* ApprovalRecord.resolving, the in-flight latch
    requestedAt,  \* ApprovalRecord.requestedAt
    settled,      \* the value the deferred resolved with
    trail,        \* the audit events of the approval, in append order
    lost,         \* an append for this approval has thrown
    now,          \* nowEpochSeconds()
    pc,           \* where each resolve() call is
    target,       \* the approval it is about
    grant         \* the ephemeral grant it minted

record == <<state, resolving, requestedAt, settled>>
audit  == <<trail, lost>>
calls  == <<pc, target, grant>>
vars   == <<state, resolving, requestedAt, settled, trail, lost, now, pc, target, grant>>

(***************************************************************************)
(* A resolve() call is idle, parked at one of the three awaits, or over:   *)
(* rejected by the guard, returned, or over with its grant possibly left   *)
(* behind (the mint threw, the revoke failed).                             *)
(***************************************************************************)
InFlight == {"minting", "deciding"}
Over     == {"rejected", "returned", "mintThrew", "revokeFailed"}
PCs      == {"idle", "revoking"} \cup InFlight \cup Over
GrantStates == {"none", "active", "consumed", "revoked"}

TypeOK ==
    /\ state \in [Approvals -> States]
    /\ resolving \in [Approvals -> BOOLEAN]
    /\ requestedAt \in [Approvals -> Nat]
    /\ settled \in [Approvals -> Terminal \cup {Unsettled}]
    /\ trail \in [Approvals -> Seq(Events)]
    /\ lost \in [Approvals -> BOOLEAN]
    /\ now \in Nat
    /\ pc \in [Resolvers -> PCs]
    /\ target \in [Resolvers -> Approvals \cup {Nobody}]
    /\ grant \in [Resolvers -> GrantStates]

Init ==
    /\ state = [a \in Approvals |-> "absent"]
    /\ resolving = [a \in Approvals |-> FALSE]
    /\ requestedAt = [a \in Approvals |-> 0]
    /\ settled = [a \in Approvals |-> Unsettled]
    /\ trail = [a \in Approvals |-> <<>>]
    /\ lost = [a \in Approvals |-> FALSE]
    /\ now = 0
    /\ pc = [r \in Resolvers |-> "idle"]
    /\ target = [r \in Resolvers |-> Nobody]
    /\ grant = [r \in Resolvers |-> "none"]

-----------------------------------------------------------------------------
(* What the transitions are made of. *)

\* record.state = s; record.deferred.resolve(s).  A promise settles once.
Finish(a, s) ==
    /\ state' = [state EXCEPT ![a] = s]
    /\ settled' = [settled EXCEPT ![a] = IF @ = Unsettled THEN s ELSE @]

\* The appends that reached the log, and whether one of them threw.
Log(a, events, threw) ==
    /\ trail' = [trail EXCEPT ![a] = @ \o events]
    /\ lost' = [lost EXCEPT ![a] = @ \/ threw]

\* safeAudit after the terminal state is written: a throw changes nothing.
AuditTerminal(a, e) == Log(a, <<e>>, FALSE) \/ Log(a, <<>>, TRUE)

\* safeAudit threw on a live record: forceFailClosedDeny, whose own append
\* is best effort.  `before` reached the log ahead of the append that threw.
FailClosed(a, before) ==
    /\ Finish(a, "denied")
    /\ Log(a, before \o <<"denied">>, TRUE) \/ Log(a, before, TRUE)

\* checkExpiry: a pending record past its deadline that nobody has claimed.
\* Variant: the latch does not shield a claimed record.
DueUnlatched(a) ==
    /\ state[a] = "pending"
    /\ now >= requestedAt[a] + Timeout

Due(a) ==
    /\ state[a] = "pending"
    /\ ~resolving[a]
    /\ now >= requestedAt[a] + Timeout

Expire(a) ==
    /\ Finish(a, "expired")
    /\ AuditTerminal(a, "expired")

\* Variant of the guard of resolve() and cancel(): without the latch.
ClaimableUnlatched(a) == state[a] = "pending" /\ ~Due(a)

\* The guard of resolve() and cancel(), after their checkExpiry.
Claimable(a) ==
    /\ state[a] = "pending"
    /\ ~resolving[a]
    /\ ~Due(a)

Claim(a) == resolving' = [resolving EXCEPT ![a] = TRUE]
Go(r, there) == pc' = [pc EXCEPT ![r] = there]
Aim(r, a) == target' = [target EXCEPT ![r] = a]

-----------------------------------------------------------------------------
(* request(): "requested" then "pending", each audited, no await between. *)

\* Variant: when the second line cannot be written the record stays where it is.
LeaveRequestedBehind(a) ==
    \/ /\ state' = [state EXCEPT ![a] = "pending"]
       /\ Log(a, <<"requested", "pending">>, FALSE)
       /\ UNCHANGED settled
    \/ FailClosed(a, <<>>)
    \/ /\ state' = [state EXCEPT ![a] = "requested"]
       /\ Log(a, <<"requested">>, TRUE)
       /\ UNCHANGED settled

LeaveRequested(a) ==
    \/ /\ state' = [state EXCEPT ![a] = "pending"]
       /\ Log(a, <<"requested", "pending">>, FALSE)
       /\ UNCHANGED settled
    \/ FailClosed(a, <<>>)
    \/ FailClosed(a, <<"requested">>)

Request(a) ==
    /\ state[a] = "absent"
    /\ now + Timeout <= Horizon
    /\ requestedAt' = [requestedAt EXCEPT ![a] = now]
    /\ LeaveRequested(a)
    /\ UNCHANGED <<resolving, now, calls>>

\* status(), onResolved() and sweepExpired(): all they can change is expiry.
\* cancel() on a record that is due does the same before its guard throws.
Probe(a) ==
    /\ Due(a)
    /\ Expire(a)
    /\ UNCHANGED <<resolving, requestedAt, now, calls>>

-----------------------------------------------------------------------------
(* resolve(). *)

\* resolve(_, "denied"): claimed, terminal and audited without an await.
ResolveDenied(r, a) ==
    /\ pc[r] = "idle"
    /\ Claimable(a)
    /\ Claim(a)
    /\ Finish(a, "denied")
    /\ AuditTerminal(a, "denied")
    /\ Go(r, "returned")
    /\ Aim(r, a)
    /\ UNCHANGED <<requestedAt, now, grant>>

\* Variant: the vote decides the state before the policy is asked again.
VoteDecides(a) == Finish(a, "approved")

\* The vote leaves the record pending: the re-evaluation decides.
VoteStands(a) == UNCHANGED <<state, settled>>

\* resolve(_, "approved") up to its first await: the vote is audited first,
\* and a vote that cannot be audited denies.
ResolveApproved(r, a) ==
    /\ pc[r] = "idle"
    /\ Claimable(a)
    /\ Claim(a)
    /\ \/ /\ Log(a, <<"approved">>, FALSE)
          /\ VoteStands(a)
          /\ Go(r, "minting")
       \/ /\ FailClosed(a, <<>>)
          /\ Go(r, "returned")
    /\ Aim(r, a)
    /\ UNCHANGED <<requestedAt, now, grant>>

\* resolve() on a record that is not pending, is latched, or is past its
\* deadline: checkExpiry may expire it first, then the guard throws.
ResolveRejected(r, a) ==
    /\ pc[r] = "idle"
    /\ state[a] # "absent"
    /\ ~Claimable(a)
    /\ IF Due(a) THEN Expire(a) ELSE UNCHANGED <<state, settled, audit>>
    /\ Go(r, "rejected")
    /\ Aim(r, a)
    /\ UNCHANGED <<resolving, requestedAt, now, grant>>

MintReturns(r) ==
    /\ pc[r] = "minting"
    /\ grant' = [grant EXCEPT ![r] = "active"]
    /\ Go(r, "deciding")
    /\ UNCHANGED <<record, audit, now, target>>

\* Variant: a catch that only reports, and leaves the record latched.
ReportThrow(a) == UNCHANGED <<state, settled, audit>>

\* forceFailClosedDenyOnThrow: a no-op on a terminal record.
DenyOnThrow(a) ==
    IF state[a] \in Terminal
      THEN UNCHANGED <<state, settled, audit>>
      ELSE Finish(a, "denied") /\ AuditTerminal(a, "denied")

\* mintEphemeralGrant throws: before store.put, or after it when the append
\* of grant_created throws.  `minted` is undefined either way: no revoke.
MintThrows(r) ==
    /\ pc[r] = "minting"
    /\ \E persisted \in BOOLEAN :
          grant' = [grant EXCEPT ![r] = IF persisted THEN "active" ELSE "none"]
    /\ DenyOnThrow(target[r])
    /\ Go(r, "mintThrew")
    /\ UNCHANGED <<resolving, requestedAt, now, target>>

\* The grants an identical call can spend: each carries the same call hash.
Spendable(r) ==
    {g \in Resolvers : grant[g] = "active" /\ CallOf[target[g]] = CallOf[target[r]]}

\* The re-evaluation allows, off a grant for this very call (consumed with
\* the decision) or off a standing one (nothing is consumed).
DecideAllows(r) ==
    /\ pc[r] = "deciding"
    /\ \/ \E g \in Spendable(r) : grant' = [grant EXCEPT ![g] = "consumed"]
       \/ UNCHANGED grant
    /\ Finish(target[r], "approved")
    /\ Go(r, "returned")
    /\ UNCHANGED <<resolving, requestedAt, audit, now, target>>

\* The re-evaluation answers anything but "allow": denied, audited, then the
\* orphaned grant is revoked.
DecideRefuses(r) ==
    /\ pc[r] = "deciding"
    /\ Finish(target[r], "denied")
    /\ AuditTerminal(target[r], "denied")
    /\ Go(r, "revoking")
    /\ UNCHANGED <<resolving, requestedAt, now, target, grant>>

\* decide() throws; it may already have burned a grant when it does.
DecideThrows(r) ==
    /\ pc[r] = "deciding"
    /\ \/ \E g \in Spendable(r) : grant' = [grant EXCEPT ![g] = "consumed"]
       \/ UNCHANGED grant
    /\ DenyOnThrow(target[r])
    /\ Go(r, "revoking")
    /\ UNCHANGED <<resolving, requestedAt, now, target>>

\* Variant: no revokeGrant is wired.
RevokeSkipped(r) ==
    /\ pc[r] = "revoking"
    /\ Go(r, "returned")
    /\ UNCHANGED <<record, audit, now, target, grant>>

\* deps.revokeGrant(minted.jti): best effort, never touches the record.
RevokeDone(r) ==
    /\ pc[r] = "revoking"
    /\ grant' = [grant EXCEPT ![r] = IF @ = "active" THEN "revoked" ELSE @]
    /\ Go(r, "returned")
    /\ UNCHANGED <<record, audit, now, target>>

RevokeFails(r) ==
    /\ pc[r] = "revoking"
    /\ Go(r, "revokeFailed")
    /\ UNCHANGED <<record, audit, now, target, grant>>

-----------------------------------------------------------------------------
(* cancel(): synchronous through its terminal write. *)
Cancel(a) ==
    /\ Claimable(a)
    /\ Claim(a)
    /\ Finish(a, "cancelled")
    /\ AuditTerminal(a, "cancelled")
    /\ UNCHANGED <<requestedAt, now, calls>>

Tick ==
    /\ now < Horizon
    /\ now' = now + 1
    /\ UNCHANGED <<record, audit, calls>>

\* Everything has been asked and answered and the clock is at its bound.
Quiet ==
    /\ now = Horizon
    /\ \A a \in Approvals : state[a] \in Terminal \cup {"absent"}
    /\ \A r \in Resolvers : pc[r] \in Over \cup {"idle"}
    /\ UNCHANGED vars

OnApproval(a) ==
    \/ Request(a)
    \/ Probe(a)
    \/ Cancel(a)
    \/ \E r \in Resolvers :
          ResolveDenied(r, a) \/ ResolveApproved(r, a) \/ ResolveRejected(r, a)

Mint(r)   == MintReturns(r) \/ MintThrows(r)
Decide(r) == DecideAllows(r) \/ DecideRefuses(r) \/ DecideThrows(r)
Revoke(r) == RevokeDone(r) \/ RevokeFails(r)

Next ==
    \/ \E a \in Approvals : OnApproval(a)
    \/ \E r \in Resolvers : Mint(r) \/ Decide(r) \/ Revoke(r)
    \/ Tick
    \/ Quiet

Spec == Init /\ [][Next]_vars

(***************************************************************************)
(* Time passes; the scheduler of block-and-wait.ts probes status() on      *)
(* every tick until the hold settles; the promises of the mint and of the  *)
(* re-evaluation settle.  Nothing makes a human vote, a client cancel or   *)
(* an agent call.                                                          *)
(***************************************************************************)
Fairness ==
    /\ WF_vars(Tick)
    /\ \A a \in Approvals : WF_vars(Probe(a))
    /\ \A r \in Resolvers : WF_vars(Mint(r)) /\ WF_vars(Decide(r))

FairSpec == Spec /\ Fairness

-----------------------------------------------------------------------------
(* Properties. *)

\* What onResolved() hands the held call is the record's terminal state, and
\* it is handed nothing before there is one: two claims of the same record
\* would settle the waiter with one outcome and leave the other in the record
\* (deferred.resolve beside every write of record.state).
WaiterSeesOutcome ==
    \A a \in Approvals :
        settled[a] = IF state[a] \in Terminal THEN state[a] ELSE Unsettled

\* A call to resolve(_, "approved") that got past the guard.
Won(r) == pc[r] \in InFlight \cup {"revoking"} \/ grant[r] # "none"

\* One human click, one winner: of all the concurrent resolve() calls on a
\* record at most one ever reaches the mint, however the awaits interleave
\* (the check-then-act race the resolving latch closes).
SingleWinner ==
    \A r1, r2 \in Resolvers :
        Won(r1) /\ Won(r2) /\ target[r1] = target[r2] => r1 = r2

\* "approved" is earned: a vote in the trail, and a resolve() call that minted
\* a grant and whose re-evaluation has returned.  A click alone, or a click
\* whose mint or re-evaluation failed, never approves.
ApprovedIsEarned ==
    \A a \in Approvals : state[a] = "approved" =>
        /\ \E i \in DOMAIN trail[a] : trail[a][i] = "approved"
        /\ \E r \in Resolvers : target[r] = a /\ pc[r] = "returned" /\ grant[r] # "none"

\* An approval with a hole in its audit trail neither stays open nor approves:
\* every failed append, on whichever step, ends it on the deny side.
HoleNeverAuthorizes ==
    \A a \in Approvals : lost[a] => state[a] \notin {"pending", "approved"}

\* The audit trails a record may leave behind, by its state.  A denial may
\* follow the vote (the policy overrode it); nothing else follows anything.
LegalTrails(s) ==
    LET asked == <<"requested", "pending">>
        voted == asked \o <<"approved">>
    IN  CASE s = "absent"   -> {<<>>}
          [] s = "pending"  -> {asked, voted}
          [] s = "approved" -> {voted}
          [] s = "denied"   -> {asked \o <<"denied">>, voted \o <<"denied">>}
          [] OTHER          -> {asked \o <<s>>}

\* Where no append failed, the trail tells exactly what happened to the
\* approval: one line per transition, in order, ending in its outcome.
TrailTellsOutcome ==
    \A a \in Approvals : ~lost[a] => trail[a] \in LegalTrails(state[a])

\* What the three say together: the held call, the audit log and the record
\* tell one and the same story about the end of an approval.
OutcomeIsTold ==
    /\ WaiterSeesOutcome
    /\ HoleNeverAuthorizes
    /\ TrailTellsOutcome

\* When a vote did not approve, its grant is not left spendable, whether the
\* re-evaluation refused or threw.  Two cases are out of the reach of resolve()
\* and excepted: the revoke failed, or the mint itself threw, after persisting
\* the grant, so that resolve() was never given its jti.
NoLingeringGrant ==
    \A r \in Resolvers : pc[r] = "returned" /\ grant[r] = "active" =>
        state[target[r]] = "approved"

\* No step leaves a terminal state, whichever call it belongs to and wherever
\* it was parked when the record ended.
TerminalIsFinal ==
    [][\A a \in Approvals : state[a] \in Terminal => state'[a] = state[a]]_vars

\* A vote that resolve() accepted is never overtaken: while its mint and its
\* re-evaluation are awaited, past the deadline included, neither the expiry
\* nor a client's cancel ends the approval.  Where one of them did, every
\* resolve() on it was rejected.
AcceptedVoteIsNotOvertaken ==
    \A r \in Resolvers :
        pc[r] \notin {"idle", "rejected"} =>
            state[target[r]] \in {"pending", "approved", "denied"}

\* The detailed machine implements the abstract record: a step of any call,
\* wherever it was parked, opens, claims, concludes or expires a record, or
\* leaves it alone.  Nothing leaves a terminal state, an accepted vote is
\* not overtaken by the deadline or by a cancel, and no record concludes twice.
Record == INSTANCE ApprovalRecord
ImplementsRecord == Record!RecordSpec

\* Every hold ends: a pending approval reaches a terminal state although
\* nobody votes, and although mint, re-evaluation or audit fail under it.
EveryHoldEnds ==
    \A a \in Approvals : state[a] = "pending" ~> state[a] \in Terminal

=============================================================================
