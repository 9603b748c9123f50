---------------------------- MODULE DenialEnvelope ----------------------------
(***************************************************************************)
(* What the agent is told of a call that does not go through               *)
(* (packages/proxy-stdio/src/denial-envelope.ts), and how the enforcer     *)
(* comes to it from the decision and the approval (the switch of handle in *)
(* enforce.ts).  Pure, as that code is.  The texts are left out: there is  *)
(* one for each shape of the answer, and they say what its members say.    *)
(*                                                                         *)
(*   decision    [outcome, tier, reason, requestable]                      *)
(*   resolution  [outcome, reason], or NoResolution without an             *)
(*               orchestrator                                              *)
(***************************************************************************)
EXTENDS GrantCommand

CONSTANTS
    Printable(_),  \* the name survives sanitizeForCliArg and the redaction
    Stripped       \* what is left of one that does not

NoResolution == [outcome |-> "none", reason |-> Absent]

-----------------------------------------------------------------------------
(* The decision. *)

\* evaluateTierDefault: a grant can be asked for where none was found for a
\* sensitive call; a critical one is a person's to approve.
Requestable(answered) == answered.outcome = "deny" /\ answered.reason = "no_grant_sensitive"

\* The part of a DecisionResponse that a denial is built from.
DecisionOf(answered, tier) ==
    [outcome |-> answered.outcome, tier |-> tier, reason |-> answered.reason,
     requestable |-> Requestable(answered)]

\* auditUnavailableDeny: a decision that could not be recorded is a denial.
Unaudited(decision) ==
    [decision EXCEPT !.outcome = "deny", !.reason = "audit_unavailable", !.requestable = FALSE]

\* enforcementErrorDecision and internalErrorDecision, for an outcome that there
\* is not and for a decision path that threw.
Failure(reason) ==
    [outcome |-> "deny", tier |-> "sensitive", reason |-> reason, requestable |-> FALSE]

-----------------------------------------------------------------------------
(* The envelope. *)

Failures == {"audit_unavailable", "internal_error", "enforcement_error"}

\* toSafeReasonCode: a code that it does not know tells nothing.
SafeReason(reason) ==
    CASE reason = "no_grant_sensitive" -> "blocked_needs_grant"
      [] reason \in {"no_grant_critical", "envelope_force_approval"} -> "blocked_needs_approval"
      [] reason \in Failures -> "unavailable"
      [] reason = "channel_not_eligible" -> "not_eligible_here"
      [] OTHER -> "blocked_by_policy"

\* sanitizeToolOrServerName: characters are dropped and identifiers replaced, so
\* that the name shown may be another one.
SafeName(name) == IF Printable(name) THEN name ELSE Stripped

\* buildSafeRequestableHow: a command line with two flags.
How(parsed, server) ==
    [tool |-> SafeName(parsed.name), server |-> OrElse(server, "<server>"), agent |-> Absent,
     cap |-> Absent, expires |-> Absent, resource |-> Absent, understood |-> FALSE]

\* buildDenialEnvelope.
Denial(decision, how) ==
    LET failed == decision.outcome = "deny" /\ SafeReason(decision.reason) = "unavailable"
    IN  [outcome   |-> decision.outcome,
         tier      |-> decision.tier,
         reason    |-> SafeReason(decision.reason),
         retryable |-> failed \/ decision.outcome = "pending_approval",
         possible  |-> ~failed /\ decision.outcome # "deferred_not_eligible",
         how       |-> IF decision.outcome = "deny" /\ ~failed /\ decision.requestable
                       THEN how ELSE Absent]

-----------------------------------------------------------------------------
(* The enforcer. *)

\* An approval that ended without an authority, as a denial of the call.
Unapproved(decision, resolution) ==
    [decision EXCEPT !.outcome = "deny", !.requestable = FALSE,
                     !.reason = OrElse(resolution.reason, "approval_denied")]

\* handle(), of a call that goes to the child.
Passes(decision, resolution) ==
    \/ decision.outcome = "allow"
    \/ decision.outcome = "pending_approval" /\ resolution.outcome = "allow"

\* handle(), of a call that does not pass: this goes to the client.
Told(decision, resolution, how) ==
    IF decision.outcome = "pending_approval" /\ resolution.outcome = "deny"
    THEN Denial(Unapproved(decision, resolution), how)
    ELSE IF decision.outcome \in {"deny", "pending_approval", "deferred_not_eligible"}
         THEN Denial(decision, how)
    ELSE Denial(Failure("enforcement_error"), how)

=============================================================================
