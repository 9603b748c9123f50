------------------------------ MODULE Precedence ------------------------------
(***************************************************************************)
(* The decision of one tool call: tier resolution, the four precedence     *)
(* layers and the tier default of packages/core/src/precedence.ts and      *)
(* l0-evaluator.ts.  The module is pure, as that code is: the clock and    *)
(* the verified grants are arguments.                                      *)
(*                                                                         *)
(* A policy is what the configuration says of the called tool, an envelope *)
(* what the admin envelope says of it:                                     *)
(*   policy    [entry, unknown, destructive]                               *)
(*   entry     [tier, source, allow, deny], or NoEntry                     *)
(*   envelope  [denied, forced, forcedTiers, floor, ceiling]               *)
(*   grant     [jti, cap, nbf, exp], in the order the store listed them    *)
(***************************************************************************)
EXTENDS Integers, Sequences

Tiers   == {"routine", "sensitive", "critical"}
Rank(t) == CASE t = "routine" -> 0 [] t = "sensitive" -> 1 [] t = "critical" -> 2

NoTier  == "noTier"   \* the floor or the ceiling is not set
NoGrant == "noGrant"  \* no grantRef in the decision

\* The tool is not in tierPolicy.tools.
NoEntry == [tier |-> NoTier, source |-> "none", allow |-> FALSE, deny |-> FALSE]

\* What the types of the code let each of them be.
Entries ==
    [tier : Tiers, source : {"user", "pack", "annotation"}, allow : BOOLEAN, deny : BOOLEAN]

Policies ==
    [entry : Entries \cup {NoEntry}, unknown : {"sensitive", "critical"}, destructive : BOOLEAN]

Envelopes ==
    [denied : BOOLEAN, forced : BOOLEAN, forcedTiers : SUBSET Tiers,
     floor : Tiers \cup {NoTier}, ceiling : Tiers \cup {NoTier}]

GrantsOf(Ids) == [jti : Ids, cap : Tiers, nbf : Int, exp : Int]

OpenEnvelope ==
    [denied |-> FALSE, forced |-> FALSE, forcedTiers |-> {}, floor |-> NoTier, ceiling |-> NoTier]

-----------------------------------------------------------------------------
(* Tiers. *)

Covers(cap, tier) == Rank(cap) >= Rank(tier)

ByUser(policy) == policy.entry.source = "user"

\* A listed tool has the tier of its entry; an unlisted one the default, which
\* a destructive annotation may raise.
BaseTier(policy) ==
    IF policy.entry # NoEntry THEN policy.entry.tier
    ELSE IF policy.destructive THEN "critical" ELSE policy.unknown

\* Variant: the floor replaces the tier instead of raising it.
ClampsAlways(policy, envelope) == ~ByUser(policy) /\ envelope.floor # NoTier

\* The envelope's floor raises what the user did not set.
Clamps(policy, envelope) ==
    /\ ~ByUser(policy)
    /\ envelope.floor # NoTier
    /\ Rank(envelope.floor) > Rank(BaseTier(policy))

TierOf(policy, envelope) ==
    IF Clamps(policy, envelope) THEN envelope.floor ELSE BaseTier(policy)

-----------------------------------------------------------------------------
(* Grants. *)

InWindow(grant, now) == grant.nbf <= now /\ now < grant.exp

\* Variant: the ceiling of the envelope is not applied.
UncappedBy(cap, ceiling) == cap

CappedBy(cap, ceiling) ==
    IF ceiling # NoTier /\ Rank(ceiling) < Rank(cap) THEN ceiling ELSE cap

Allowing(grants, tier, ceiling, now) ==
    {i \in DOMAIN grants :
        InWindow(grants[i], now) /\ Covers(CappedBy(grants[i].cap, ceiling), tier)}

First(S) == CHOOSE i \in S : \A j \in S : i <= j
Last(S)  == CHOOSE i \in S : \A j \in S : i >= j

\* Variant: the last grant in the window that does not allow says why.
LastSaysWhy(grants, tier, now) ==
    LET live == {i \in DOMAIN grants : InWindow(grants[i], now)}
    IN  live # {} /\ ~Covers(grants[Last(live)].cap, tier)

\* A grant that claims less than the call requires: an escalation attempt.
CapViolated(grants, tier, now) ==
    \E i \in DOMAIN grants : InWindow(grants[i], now) /\ ~Covers(grants[i].cap, tier)

\* A grant that would cover the call but for the ceiling.
CeilingExceeded(grants, tier, now) ==
    \E i \in DOMAIN grants : InWindow(grants[i], now) /\ Covers(grants[i].cap, tier)

-----------------------------------------------------------------------------
(* Decisions. *)

Outcomes == {"allow", "deny", "pending_approval"}

\* L0ReasonCode and PrecedenceReasonCode.
Reasons ==
    {"routine_default_allow", "grant_allow", "explicit_config_allow", "no_grant_sensitive",
     "no_grant_critical", "envelope_deny", "envelope_force_approval", "explicit_config_deny",
     "tier_cap_violation", "grant_exceeds_envelope"}

Answer(outcome, reason, layer, grantRef) ==
    [outcome |-> outcome, reason |-> reason, layer |-> layer, grantRef |-> grantRef]

ExplicitlyAllowed(policy, tier) == tier = "sensitive" /\ ByUser(policy) /\ policy.entry.allow

\* evaluateTierDefault, for a tier already resolved: the covering grant, the
\* user's standing allow, and what is left to a tier without either.
TierDefault(policy, tier, grants, now) ==
    LET covering == Allowing(grants, tier, NoTier, now)
    IN  IF tier = "routine" THEN Answer("allow", "routine_default_allow", 4, NoGrant)
        ELSE IF covering # {}
             THEN Answer("allow", "grant_allow", 4, grants[First(covering)].jti)
        ELSE IF ExplicitlyAllowed(policy, tier)
             THEN Answer("allow", "explicit_config_allow", 4, NoGrant)
        ELSE IF tier = "sensitive" THEN Answer("deny", "no_grant_sensitive", 4, NoGrant)
        ELSE Answer("pending_approval", "no_grant_critical", 4, NoGrant)

\* evaluatePrecedence: the first layer that has an answer gives it.
Evaluate(policy, envelope, grants, now) ==
    LET tier     == TierOf(policy, envelope)
        allowing == Allowing(grants, tier, envelope.ceiling, now)
    IN  IF envelope.denied THEN Answer("deny", "envelope_deny", 1, NoGrant)
        ELSE IF envelope.forced \/ tier \in envelope.forcedTiers
             THEN Answer("pending_approval", "envelope_force_approval", 1, NoGrant)
        ELSE IF ByUser(policy) /\ policy.entry.deny
             THEN Answer("deny", "explicit_config_deny", 2, NoGrant)
        ELSE IF tier # "routine" /\ allowing # {}
             THEN Answer("allow", "grant_allow", 3, grants[First(allowing)].jti)
        ELSE IF tier # "routine" /\ CapViolated(grants, tier, now)
             THEN Answer("deny", "tier_cap_violation", 3, NoGrant)
        ELSE IF /\ tier # "routine"
                /\ CeilingExceeded(grants, tier, now)
                /\ ~ExplicitlyAllowed(policy, tier)
             THEN Answer("deny", "grant_exceeds_envelope", 3, NoGrant)
        ELSE TierDefault(policy, tier, <<>>, now)

-----------------------------------------------------------------------------
(* What a decision may rest on. *)

\* A call is authorised by its routine tier, by a grant in its window whose
\* cap and whose ceiling both reach the tier, or, below critical, by the user's
\* own standing allow; and by none of these against an envelope that denies
\* the tool or forces its approval, or against the user's explicit deny.
Authorised(policy, envelope, grants, now) ==
    LET tier == TierOf(policy, envelope)
    IN  /\ ~envelope.denied /\ ~envelope.forced /\ tier \notin envelope.forcedTiers
        /\ ByUser(policy) => ~policy.entry.deny
        /\ \/ tier = "routine"
           \/ tier = "sensitive" /\ ByUser(policy) /\ policy.entry.allow
           \/ \E i \in DOMAIN grants :
                /\ grants[i].nbf <= now /\ now < grants[i].exp
                /\ Rank(tier) <= Rank(grants[i].cap)
                /\ envelope.ceiling # NoTier => Rank(tier) <= Rank(envelope.ceiling)

=============================================================================
