------------------------------ MODULE ProxyRelay ------------------------------
(***************************************************************************)
(* The stdio proxy of packages/proxy-stdio: the relay and the teardown of  *)
(* proxy.ts with the enforcement of a held tools/call (enforce.ts), between *)
(* a client and the wrapped server it runs as a child process.             *)
(*                                                                         *)
(* An action is what runs between two awaits or two events.  The pipes and *)
(* the child are external: what the proxy wrote is in the child's hands,   *)
(* what the child wrote is delivered before its "close" event, and a write *)
(* to a child that is dead already may be lost without the proxy being     *)
(* told.  The decision and the approval appear by what they may answer:    *)
(* Decider and ApprovalLifecycle are about how they come to it.            *)
(***************************************************************************)
EXTENDS Sequences, FiniteSets, Naturals

CONSTANTS
    Requests,   \* client requests, each with a JSON-RPC id of its own
    ToolCalls,  \* those that are tools/call
    Routine,    \* those of these whose tool resolves to the routine tier
    FailOpen    \* failOpen.routine is configured

ASSUME RelayAssumption ==
    /\ Routine \subseteq ToolCalls /\ ToolCalls \subseteq Requests
    /\ FailOpen \in BOOLEAN

VARIABLES
    stage,    \* per request: where the proxy is with it
    pending,  \* pendingChildRequests
    answers,  \* per request: the responses written to the client, in order
    reached,  \* requests written to a child that was alive
    outbox,   \* responses the child has written and the proxy not yet read
    child,    \* the child process: "up" or "down"
    phase,    \* of runTeardown
    reason,   \* ProxyCloseReason
    failOpens, \* requests with a fail_open_fired line in the audit log
    allowed   \* calls the policy or an approval has allowed (history)

wire  == <<reached, outbox, child>>
close == <<phase, reason>>
audit == <<failOpens, allowed>>
vars  == <<stage, pending, answers, reached, outbox, child, phase, reason,
           failOpens, allowed>>

Stages  == {"unsent", "deciding", "held", "forwarded", "rejecting", "answered"}
Kinds   == {"child", "crashed", "denied", "internal"}
Phases  == {"running", "closingChild", "closingClient", "finishing", "over"}
Reasons == {"none", "child_exit", "client_eof", "stopped"}

Init ==
    /\ stage = [q \in Requests |-> "unsent"]
    /\ pending = {}
    /\ answers = [q \in Requests |-> <<>>]
    /\ reached = {} /\ outbox = {} /\ child = "up"
    /\ phase = "running" /\ reason = "none"
    /\ failOpens = {} /\ allowed = {}

-----------------------------------------------------------------------------
(* What the handlers are made of. *)

Enter(q, there) == stage' = [stage EXCEPT ![q] = there]

\* forward() of a request: tracked, then written to the child.  Once a teardown
\* has begun the child transport is closed and the send rejects; the pipe of a
\* child that has just died takes the bytes or breaks.
Forward(q) ==
    /\ pending' = pending \cup {q}
    /\ \/ /\ phase = "running" /\ child = "up"
          /\ reached' = reached \cup {q}
          /\ Enter(q, "forwarded")
       \/ /\ phase = "running" /\ child = "down"
          /\ Enter(q, "forwarded") \/ Enter(q, "rejecting")
          /\ UNCHANGED reached
       \/ /\ phase # "running"
          /\ Enter(q, "rejecting")
          /\ UNCHANGED reached
    /\ UNCHANGED <<answers, outbox, child, close>>

\* Variant: a response that leaves its id tracked.
AnswerTracked(q, kind) ==
    /\ answers' = [answers EXCEPT ![q] = Append(@, kind)]
    /\ UNCHANGED pending

\* forward() of a response: the id is not pending any more.
Answer(q, kind) ==
    /\ answers' = [answers EXCEPT ![q] = Append(@, kind)]
    /\ pending' = pending \ {q}

Respond(q, kind) ==
    /\ Answer(q, kind)
    /\ Enter(q, "answered")
    /\ UNCHANGED <<wire, close>>

-----------------------------------------------------------------------------
(* relay(), client to server. *)

Reading == phase = "running" \/ (phase = "closingChild" /\ reason = "stopped")

\* A tools/call is held for its decision; anything else is passed on at once.
Receive(q) ==
    /\ Reading
    /\ stage[q] = "unsent"
    /\ IF q \in ToolCalls
         THEN Enter(q, "deciding") /\ UNCHANGED <<pending, answers, wire, close>>
         ELSE Forward(q)
    /\ UNCHANGED audit

Deciding(q) == phase # "over" /\ stage[q] = "deciding"
Held(q)     == phase # "over" /\ stage[q] = "held"

Allow(q) ==
    /\ Forward(q)
    /\ allowed' = allowed \cup {q}
    /\ UNCHANGED failOpens

\* The policy allows, or the call is malformed and the child's to refuse.
DecideAllows(q) == Deciding(q) /\ Allow(q)

\* deny, deferred, or an approval this surface cannot hold the call for.
DecideDenies(q) == Deciding(q) /\ Respond(q, "denied") /\ UNCHANGED audit

DecideHolds(q) ==
    /\ Deciding(q)
    /\ Enter(q, "held")
    /\ UNCHANGED <<pending, answers, wire, close, audit>>

\* The decision path threw: the R84 recovery, whose audit line is mandatory.
MayFailOpen(q) == FailOpen /\ q \in Routine

FailsOpen(q) ==
    /\ MayFailOpen(q)
    /\ failOpens' = failOpens \cup {q}
    /\ Forward(q)
    /\ UNCHANGED allowed

\* Variant: no return after the recovery, so that the deny follows it.
FailsClosedToo(q) ==
    /\ answers' = [answers EXCEPT ![q] = Append(@, "denied")]
    /\ IF MayFailOpen(q) /\ phase = "running" /\ child = "up"
         THEN reached' = reached \cup {q} ELSE UNCHANGED reached
    /\ Enter(q, "answered")
    /\ UNCHANGED <<pending, outbox, child, close, audit>>

FailsClosed(q) == Respond(q, "denied") /\ UNCHANGED audit

DecideThrows(q) == Deciding(q) /\ (FailsOpen(q) \/ FailsClosed(q))

\* requestApproval resolves, or rejects (its await is outside the try, and the
\* catch of enforceToolsCall answers).
HoldAllows(q) == Held(q) /\ Allow(q)
HoldDenies(q) == Held(q) /\ Respond(q, "denied") /\ UNCHANGED audit

HoldRejects(q) == Held(q) /\ Respond(q, "internal") /\ UNCHANGED audit

\* The catch of a send that was rejected: unless the teardown has answered for
\* the request already, this does.
SendRejected(q) ==
    /\ phase # "over"
    /\ stage[q] = "rejecting"
    /\ Enter(q, "forwarded")
    /\ IF q \in pending THEN Answer(q, "crashed") ELSE UNCHANGED <<pending, answers>>
    /\ UNCHANGED <<wire, close, audit>>

-----------------------------------------------------------------------------
(* The child, and relay() from server to client. *)

\* The child answers a request it has, once.
ChildWrites(q) ==
    /\ phase # "over"
    /\ child = "up"
    /\ q \in reached \ outbox
    /\ ~ \E i \in DOMAIN answers[q] : answers[q][i] = "child"
    /\ outbox' = outbox \cup {q}
    /\ UNCHANGED <<stage, pending, answers, reached, child, close, audit>>

\* Relayed in every phase, so that the last output of the child still flows.
RelayResponse(q) ==
    /\ phase # "over"
    /\ q \in outbox
    /\ outbox' = outbox \ {q}
    /\ Answer(q, "child")
    /\ UNCHANGED <<stage, reached, child, close, audit>>

ChildDies ==
    /\ phase # "over"
    /\ child = "up"
    /\ child' = "down"
    /\ UNCHANGED <<stage, pending, answers, reached, outbox, close, audit>>

-----------------------------------------------------------------------------
(* Teardown. *)

\* Variant: only a crash of the child is answered for.
FailPendingOnCrash ==
    /\ answers' = [q \in Requests |->
            IF q \in pending /\ child = "down" THEN Append(answers[q], "crashed") ELSE answers[q]]
    /\ pending' = {}

\* failPendingChildRequests.
FailPending ==
    /\ answers' = [q \in Requests |->
            IF q \in pending THEN Append(answers[q], "crashed") ELSE answers[q]]
    /\ pending' = {}

Teardown(why, next) ==
    /\ phase = "running"
    /\ FailPending
    /\ reason' = why
    /\ phase' = next
    /\ UNCHANGED <<stage, wire, audit>>

\* The "close" event of a child nobody asked to end: its output has been read.
ChildCloses == child = "down" /\ outbox = {} /\ Teardown("child_exit", "closingClient")

ClientHangsUp == Teardown("client_eof", "closingChild")

Stop == Teardown("stopped", "closingChild")

\* Variant: only a signal is escalated.
KillOnSignal ==
    /\ phase = "closingChild" /\ reason = "stopped"
    /\ ChildDies

\* The end of the ladder: SIGTERM, SIGKILL, and once more from awaitReap.
Kill ==
    /\ phase = "closingChild"
    /\ ChildDies

\* awaitReap: the child is gone.
Reap ==
    /\ phase = "closingChild" /\ child = "down"
    /\ phase' = "closingClient"
    /\ UNCHANGED <<stage, pending, answers, wire, reason, audit>>

\* serverTransport.close(), then onClose, which closes the enforcement bundle.
CloseClient ==
    /\ phase = "closingClient"
    /\ phase' = "finishing"
    /\ UNCHANGED <<stage, pending, answers, wire, reason, audit>>

\* process.exit, after every promise that waits for nothing has settled: a
\* decision (decide() never awaits) and a send to a closed transport.
Exit ==
    /\ phase = "finishing"
    /\ \A q \in Requests : stage[q] \notin {"deciding", "rejecting"}
    /\ phase' = "over"
    /\ UNCHANGED <<stage, pending, answers, wire, reason, audit>>

Over == phase = "over" /\ UNCHANGED vars

-----------------------------------------------------------------------------

Decide(q) == DecideAllows(q) \/ DecideDenies(q) \/ DecideHolds(q) \/ DecideThrows(q)
Settle(q) == HoldAllows(q) \/ HoldDenies(q) \/ HoldRejects(q)

OnRequest(q) ==
    \/ Receive(q) \/ Decide(q) \/ Settle(q) \/ SendRejected(q)
    \/ ChildWrites(q) \/ RelayResponse(q)

Shutdown == ChildCloses \/ ClientHangsUp \/ Stop \/ Kill \/ Reap \/ CloseClient \/ Exit

Next ==
    \/ \E q \in Requests : OnRequest(q)
    \/ ChildDies
    \/ Shutdown
    \/ Over

Spec == Init /\ [][Next]_vars

(***************************************************************************)
(* The event loop runs what is ready: decisions return, approvals settle   *)
(* (EveryHoldEnds of ApprovalLifecycle), output is read, a teardown goes   *)
(* on and kills a child that does not leave.  Nothing makes the client     *)
(* ask, the child answer, or anybody stop the proxy.                       *)
(***************************************************************************)
Fairness ==
    /\ \A q \in Requests :
          /\ WF_vars(Decide(q)) /\ WF_vars(Settle(q))
          /\ WF_vars(SendRejected(q)) /\ WF_vars(RelayResponse(q))
    /\ WF_vars(ChildCloses) /\ WF_vars(Kill) /\ WF_vars(Reap)
    /\ WF_vars(CloseClient) /\ WF_vars(Exit)

FairSpec == Spec /\ Fairness

-----------------------------------------------------------------------------
(* Properties. *)

\* A request is tracked only between being forwarded and being answered.
TypeOK ==
    /\ stage \in [Requests -> Stages]
    /\ pending \subseteq {q \in Requests : stage[q] \in {"forwarded", "rejecting"}}
    /\ answers \in [Requests -> UNION {[1..n -> Kinds] : n \in 0..2}]
    /\ reached \subseteq Requests
    /\ outbox \subseteq reached
    /\ child \in {"up", "down"}
    /\ phase \in Phases /\ reason \in Reasons
    /\ failOpens \subseteq Requests /\ allowed \subseteq Requests

AnsweredAs(q, kind) == \E i \in DOMAIN answers[q] : answers[q][i] = kind

\* A client that was told "denied", or that the proxy failed, was told the
\* truth: the child has not seen the call and never will, whatever the decision,
\* the approval and the recovery of a throw did before.
DeniedNeverRuns ==
    \A q \in Requests :
        AnsweredAs(q, "denied") \/ AnsweredAs(q, "internal") =>
            q \notin reached /\ stage[q] = "answered" /\ Len(answers[q]) = 1

\* A tools/call the child has seen was allowed, by the policy or by an approval,
\* or else it is routine, the opt-in is configured, and the log says that it
\* failed open: through every throw, rejection and late settlement.
GovernedOrLogged ==
    \A q \in reached \cap ToolCalls :
        q \in allowed \/ (FailOpen /\ q \in Routine \cap failOpens)

\* What the two say together: the child runs what was allowed, or what failed
\* open on the record, and nothing that the client was told is refused.
GovernedRuns == DeniedNeverRuns /\ GovernedOrLogged

\* A request the proxy passed on is answered by the time the process ends,
\* whoever ended it and whatever became of the child ("the client is never left
\* hanging", docs/03-engineering/failure-modes.md).
ForwardedIsAnswered ==
    phase = "over" =>
        \A q \in Requests : stage[q] = "forwarded" => answers[q] # <<>>

\* Unless the proxy is told to end, a request gets one response: the one the
\* child wrote before it died, or the one that says it died, never both.
AnsweredOnce ==
    reason \in {"none", "child_exit"} => \A q \in Requests : Len(answers[q]) <= 1

\* What the two say together: no request is forgotten, none is answered twice.
ExactlyOneAnswer == ForwardedIsAnswered /\ AnsweredOnce

\* Once the child is gone, every request passed on to it gets its answer.
CrashIsTold ==
    \A q \in Requests : child = "down" /\ stage[q] = "forwarded" ~> answers[q] # <<>>

\* And the proxy goes too: no teardown hangs on a child that does not leave, on
\* calls that settle or on sends that fail meanwhile.
TeardownEnds == child = "down" \/ phase # "running" ~> phase = "over"

\* proxy.ts: "a wrapped server that dies (spontaneously, or mid-call) must never
\* leave a client request hanging forever".
NoRequestLeftHanging ==
    phase = "over" /\ reason = "child_exit" =>
        \A q \in Requests : stage[q] # "unsent" => answers[q] # <<>>

=============================================================================
