------------------------------ MODULE DecidedCall ------------------------------
(***************************************************************************)
(* One call, decided once and answered: the precedence over a policy, an   *)
(* envelope and the grants that bear on the call (Precedence), and what    *)
(* the agent is told of a denial (DenialEnvelope).  Whatever the agent     *)
(* does then, by the flags it is told (GrantCommand), is a call again.     *)
(***************************************************************************)
EXTENDS DenialEnvelope

CONSTANTS
    AskedPolicies, AskedEnvelopes, AskedListings, \* what a call may be decided by
    Clock,                                        \* the time of the decision
    Message, Setting,                             \* the call itself (ToolCall)
    Kid                                           \* the key of this home directory

\* What a call is decided by is of the types of the code, and in whole seconds.
ASSUME DecidedAssumption ==
    /\ AskedPolicies \subseteq Policies /\ AskedEnvelopes \subseteq Envelopes
    /\ \A listing \in AskedListings :
          listing \in Seq(GrantsOf({listing[i].jti : i \in DOMAIN listing}))
    /\ Clock \in Nat

\* The call is one that is held for a decision, its name is shown as it is, and
\* what the proxy knows has its shape.  Thirty days are some time.
ASSUME AdviceAssumption ==
    /\ IsToolsCall(Message) /\ Proper(Message.name) /\ Printable(Message.name)
    /\ Proper(OrElse(Setting.server, "<server>")) /\ Proper(Principal(Setting.identity))
    /\ Proper(Any) /\ Kid # Bad
    /\ DefaultExpires # Bad /\ Seconds(DefaultExpires) \in Nat /\ Seconds(DefaultExpires) > 0

VARIABLES policy, envelope, grants, decision

callVars == <<policy, envelope, grants, decision>>

Undecided == Answer("none", "none", 0, NoGrant)

CallInit ==
    /\ policy \in AskedPolicies /\ envelope \in AskedEnvelopes /\ grants \in AskedListings
    /\ decision = Undecided

Decide ==
    /\ decision = Undecided
    /\ decision' = Evaluate(policy, envelope, grants, Clock)
    /\ UNCHANGED <<policy, envelope, grants>>

-----------------------------------------------------------------------------
(* Properties. *)

CallDecided == decision # Undecided

\* An allow has an authority of its own kind behind it: through layers 1 to 4,
\* clamps and fall-throughs included, no combination of envelope, entry and
\* grants yields an allow that none of them authorises, and none that is
\* authorised and not caught by an under-capped grant is refused
\* (evaluatePrecedence against the definition of what authorises a call).
AllowIsAuthorised ==
    CallDecided =>
        /\ decision.outcome = "allow" => Authorised(policy, envelope, grants, Clock)
        /\ Authorised(policy, envelope, grants, Clock) =>
              decision.outcome = "allow" \/ decision.reason = "tier_cap_violation"

\* The order of the listing, which is the order of readdir and so no order at
\* all, never changes an outcome or its reason; only which grant is named.
OrderIsIrrelevant ==
    CallDecided =>
        LET reversed == [i \in DOMAIN grants |-> grants[Len(grants) + 1 - i]]
            other    == Evaluate(policy, envelope, reversed, Clock)
        IN  decision.outcome = other.outcome /\ decision.reason = other.reason

\* An envelope only ever restricts: what it lets through would have been let
\* through without it, whatever its floor, its ceiling and its forced tiers.
EnvelopeOnlyRestricts ==
    CallDecided /\ decision.outcome = "allow" =>
        Evaluate(policy, OpenEnvelope, grants, Clock).outcome = "allow"

\* How an approval may end, and what else may go wrong with a decision.
Resolutions ==
    {NoResolution, [outcome |-> "allow", reason |-> Absent], [outcome |-> "pending", reason |-> Absent]}
        \cup {[outcome |-> "deny", reason |-> r] :
                  r \in {Absent, "approval_denied", "approval_timeout", "approval_cancelled"}}

\* The call as a grant is held against it.
Asked == CallOf(Message, Setting, TierOf(policy, envelope), Clock, {Kid})

\* How the command may be run.
Runs == [confirmed : BOOLEAN, locked : BOOLEAN]

\* The decision on the same call after a command with these flags was run.
DecisionAfter(flags, run) ==
    LET input == MintInput(GrantArgs(flags), Setting.identity)
        more  == IF GrantOk(flags) /\ ReachesMint(run) /\ HandedOn(Mint(input, Kid, Clock), Asked)
                 THEN <<[jti |-> "asked", cap |-> input.tier, nbf |-> 0, exp |-> Clock + input.ttl]>>
                 ELSE <<>>
    IN  Evaluate(policy, envelope, grants \o more, Clock)

\* The command that a denial suggests does what it is suggested for once the proxy
\* that denied has stopped: confirmed, and with nobody at the audit log, it turns the
\* denial into an allow, whatever other grants there are, unless the envelope has
\* capped all grants below the tier.  While a proxy holds the writer lock, the one
\* that denied included, it changes nothing.  Besides, only a call that waits or a
\* decision that failed is said to be worth a retry, and a call that may not run is
\* never passed on, however its approval ended.  What is said of `possible` where no
\* command is suggested is not part of this (evaluatePrecedence,
\* buildDenialEnvelope, parseGrantMintArgs, runGrantMint, verifyGrant).
AdvisedCommandHelps ==
    CallDecided =>
        LET tier     == TierOf(policy, envelope)
            decided  == DecisionOf(decision, tier)
            command  == How(Parse(Message), Setting.server)
            capped   == envelope.ceiling # NoTier /\ Rank(envelope.ceiling) < Rank(tier)
        IN  \A resolution \in Resolutions, seen \in {decided, Unaudited(decided)} :
                IF Passes(seen, resolution)
                THEN Authorised(policy, envelope, grants, Clock) \/ resolution.outcome = "allow"
                ELSE LET told == Told(seen, resolution, command)
                     IN  /\ told.how # Absent =>
                               /\ \A run \in Runs :
                                     /\ ReachesMint(run) /\ ~capped =>
                                           DecisionAfter(told.how, run).outcome = "allow"
                                     /\ ~ReachesMint(run) => DecisionAfter(told.how, run) = decision
                               /\ told.possible /\ ~told.retryable
                         /\ told.retryable =>
                               told.outcome = "pending_approval" \/ seen.reason = "audit_unavailable"

=============================================================================
