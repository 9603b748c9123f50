--------------------------- MODULE PrecedenceProofs ---------------------------
(***************************************************************************)
(* What a decision of Precedence may rest on, for every policy, envelope   *)
(* and clock, and for a listing of any number of grants.                   *)
(***************************************************************************)
EXTENDS Precedence, WellFoundedInduction, TLAPS

-----------------------------------------------------------------------------
(* The tiers are ordered. *)

LEMMA RankTyped ==
  /\ \A t \in Tiers : Rank(t) \in 0..2
  /\ Rank("routine") = 0 /\ Rank("sensitive") = 1 /\ Rank("critical") = 2
  /\ NoTier \notin Tiers
  BY DEF Rank, Tiers, NoTier

\* Every call has a tier, and a floor never lowers it.
LEMMA TierTyped ==
  ASSUME NEW policy \in Policies, NEW envelope \in Envelopes
  PROVE  /\ BaseTier(policy) \in Tiers
         /\ TierOf(policy, envelope) \in Tiers
         /\ Rank(BaseTier(policy)) <= Rank(TierOf(policy, envelope))
  <1>1. BaseTier(policy) \in Tiers
    <2>1. CASE policy.entry = NoEntry
      BY <2>1 DEF BaseTier, Policies, Tiers
    <2>2. CASE policy.entry # NoEntry
      BY <2>2 DEF BaseTier, Policies, Entries
    <2>. QED  BY <2>1, <2>2
  <1>2. envelope.floor \in Tiers \cup {NoTier}
    BY DEF Envelopes
  <1>3. CASE Clamps(policy, envelope)
    BY <1>1, <1>2, <1>3, RankTyped DEF TierOf, Clamps
  <1>4. CASE ~Clamps(policy, envelope)
    BY <1>1, <1>4, RankTyped DEF TierOf
  <1>. QED  BY <1>1, <1>3, <1>4

\* A capped cap reaches a tier exactly if both the cap and the ceiling do.
LEMMA CappedCovers ==
  ASSUME NEW cap \in Tiers, NEW tier \in Tiers, NEW ceiling \in Tiers \cup {NoTier}
  PROVE  /\ CappedBy(cap, ceiling) \in Tiers
         /\ Covers(CappedBy(cap, ceiling), tier) <=>
              /\ Rank(tier) <= Rank(cap)
              /\ ceiling # NoTier => Rank(tier) <= Rank(ceiling)
  <1>1. Rank(cap) \in 0..2 /\ Rank(tier) \in 0..2
    BY RankTyped
  <1>2. CASE ceiling = NoTier
    BY <1>1, <1>2 DEF CappedBy, Covers
  <1>3. CASE ceiling \in Tiers
    BY <1>1, <1>3, RankTyped DEF CappedBy, Covers
  <1>. QED  BY <1>2, <1>3

-----------------------------------------------------------------------------
(* The first covering grant of a listing is one of it. *)

Before == {p \in Nat \X Nat : p[1] < p[2]}

LEMMA FirstIsIn ==
  ASSUME NEW S, S \subseteq Nat, S # {}
  PROVE  First(S) \in S
  <1>1. IsWellFoundedOn(Before, Nat)
    BY NatLessThanWellFounded DEF OpToRel, Before
  <1>2. PICK least \in S : \A i \in S : ~(<<i, least>> \in Before)
    BY <1>1, WFMin
  <1>3. ASSUME NEW i \in S PROVE least <= i
    <2>1. <<i, least>> \in Nat \X Nat /\ <<i, least>>[1] = i /\ <<i, least>>[2] = least
      OBVIOUS
    <2>2. ~(i < least)
      BY <1>2, <2>1 DEF Before
    <2>. QED  BY <2>2
  <1>. QED  BY <1>3 DEF First

LEMMA FirstAllowing ==
  ASSUME NEW S, NEW grants \in Seq(S), NEW tier, NEW ceiling, NEW now,
         Allowing(grants, tier, ceiling, now) # {}
  PROVE  First(Allowing(grants, tier, ceiling, now)) \in Allowing(grants, tier, ceiling, now)
  <1>1. Allowing(grants, tier, ceiling, now) \subseteq Nat
    BY DEF Allowing
  <1>. QED  BY <1>1, FirstIsIn

-----------------------------------------------------------------------------
(* Decisions. *)

DecisionsOn(Ids) ==
    [outcome : Outcomes, reason : Reasons, layer : 1..4, grantRef : Ids \cup {NoGrant}]

LEMMA AnswerTyped ==
  ASSUME NEW Ids, NEW o \in Outcomes, NEW r \in Reasons, NEW l \in 1..4, NEW g \in Ids \cup {NoGrant}
  PROVE  /\ Answer(o, r, l, g) \in DecisionsOn(Ids)
         /\ Answer(o, r, l, g).grantRef = g
  BY DEF Answer, DecisionsOn

\* The four layers with an empty listing left to the last of them, as
\* evaluatePrecedence calls it.
LEMMA DefaultWithoutGrants ==
  ASSUME NEW policy \in Policies, NEW tier \in Tiers, NEW now
  PROVE  TierDefault(policy, tier, <<>>, now) =
           IF tier = "routine" THEN Answer("allow", "routine_default_allow", 4, NoGrant)
           ELSE IF ExplicitlyAllowed(policy, tier)
                THEN Answer("allow", "explicit_config_allow", 4, NoGrant)
           ELSE IF tier = "sensitive" THEN Answer("deny", "no_grant_sensitive", 4, NoGrant)
           ELSE Answer("pending_approval", "no_grant_critical", 4, NoGrant)
  <1>1. Allowing(<<>>, tier, NoTier, now) = {}
    BY DEF Allowing
  <1>. QED  BY <1>1 DEF TierDefault

\* Every call is decided, and a decision that names a grant names a listed one.
LEMMA EvaluateTyped ==
  ASSUME NEW policy \in Policies, NEW envelope \in Envelopes,
         NEW Ids, NEW grants \in Seq(GrantsOf(Ids)), NEW now \in Int
  PROVE  /\ Evaluate(policy, envelope, grants, now) \in DecisionsOn(Ids)
         /\ LET ref == Evaluate(policy, envelope, grants, now).grantRef
            IN  ref = NoGrant \/ \E i \in DOMAIN grants : ref = grants[i].jti
  <1>. DEFINE tier     == TierOf(policy, envelope)
              allowing == Allowing(grants, tier, envelope.ceiling, now)
  <1>1. tier \in Tiers
    BY TierTyped
  <1>2. allowing # {} =>
          /\ First(allowing) \in DOMAIN grants
          /\ grants[First(allowing)].jti \in Ids
    <2>. SUFFICES ASSUME allowing # {} PROVE First(allowing) \in DOMAIN grants /\ grants[First(allowing)].jti \in Ids
      OBVIOUS
    <2>1. First(allowing) \in DOMAIN grants
      BY FirstAllowing DEF Allowing
    <2>2. grants[First(allowing)] \in GrantsOf(Ids)
      BY <2>1
    <2>. QED  BY <2>1, <2>2 DEF GrantsOf
  <1>3. /\ TierDefault(policy, tier, <<>>, now) \in DecisionsOn(Ids)
        /\ TierDefault(policy, tier, <<>>, now).grantRef = NoGrant
    <2>1. \/ TierDefault(policy, tier, <<>>, now) = Answer("allow", "routine_default_allow", 4, NoGrant)
          \/ TierDefault(policy, tier, <<>>, now) = Answer("allow", "explicit_config_allow", 4, NoGrant)
          \/ TierDefault(policy, tier, <<>>, now) = Answer("deny", "no_grant_sensitive", 4, NoGrant)
          \/ TierDefault(policy, tier, <<>>, now) = Answer("pending_approval", "no_grant_critical", 4, NoGrant)
      BY <1>1, DefaultWithoutGrants
    <2>. QED  BY <2>1, AnswerTyped DEF Outcomes, Reasons
  <1>. HIDE DEF tier, allowing
  <1>4. \/ \E o \in Outcomes, r \in Reasons, l \in 1..4 :
              Evaluate(policy, envelope, grants, now) = Answer(o, r, l, NoGrant)
        \/ /\ allowing # {}
           /\ Evaluate(policy, envelope, grants, now)
                = Answer("allow", "grant_allow", 3, grants[First(allowing)].jti)
        \/ Evaluate(policy, envelope, grants, now) = TierDefault(policy, tier, <<>>, now)
    BY DEF Evaluate, Outcomes, Reasons, tier, allowing
  <1>5. CASE \E o \in Outcomes, r \in Reasons, l \in 1..4 :
                Evaluate(policy, envelope, grants, now) = Answer(o, r, l, NoGrant)
    BY <1>5, AnswerTyped
  <1>6. CASE /\ allowing # {}
             /\ Evaluate(policy, envelope, grants, now)
                  = Answer("allow", "grant_allow", 3, grants[First(allowing)].jti)
    <2>1. /\ Evaluate(policy, envelope, grants, now) \in DecisionsOn(Ids)
          /\ Evaluate(policy, envelope, grants, now).grantRef = grants[First(allowing)].jti
      BY <1>2, <1>6, AnswerTyped DEF Outcomes, Reasons
    <2>. QED  BY <1>2, <1>6, <2>1
  <1>. QED  BY <1>3, <1>4, <1>5, <1>6

\* Neither the envelope nor the user's deny decides, and the tier alone does
\* not: what layer 3 is asked about.
LeftToGrants(policy, envelope) ==
    LET tier == TierOf(policy, envelope)
    IN  /\ ~envelope.denied /\ ~envelope.forced /\ tier \notin envelope.forcedTiers
        /\ ByUser(policy) => ~policy.entry.deny
        /\ tier # "routine"

\* A decision names a grant only if the call was left to the grants.
LEMMA GrantAnswers ==
  ASSUME NEW policy \in Policies, NEW envelope \in Envelopes, NEW grants, NEW now,
         Evaluate(policy, envelope, grants, now).grantRef # NoGrant
  PROVE  LeftToGrants(policy, envelope)
  <1>. DEFINE tier == TierOf(policy, envelope)
  <1>1. tier \in Tiers
    BY TierTyped
  <1>2. TierDefault(policy, tier, <<>>, now).grantRef = NoGrant
    BY <1>1, DefaultWithoutGrants DEF Answer
  <1>. HIDE DEF tier
  <1>3. /\ ~envelope.denied /\ ~envelope.forced /\ tier \notin envelope.forcedTiers
        /\ ~(ByUser(policy) /\ policy.entry.deny)
        /\ tier # "routine"
    BY <1>2 DEF Evaluate, Answer, tier
  <1>. QED  BY <1>3 DEF LeftToGrants, tier

\* "No grant" is said of a sensitive call left to the grants, and only if none
\* that was listed is in its window.
LEMMA NoGrantMeansNone ==
  ASSUME NEW policy \in Policies, NEW envelope \in Envelopes,
         NEW Ids, NEW grants \in Seq(GrantsOf(Ids)), NEW now \in Int,
         Evaluate(policy, envelope, grants, now).reason = "no_grant_sensitive"
  PROVE  /\ LeftToGrants(policy, envelope)
         /\ TierOf(policy, envelope) = "sensitive"
         /\ \A i \in DOMAIN grants : ~InWindow(grants[i], now)
  <1>. DEFINE tier     == TierOf(policy, envelope)
              allowing == Allowing(grants, tier, envelope.ceiling, now)
  <1>1. tier \in Tiers
    BY TierTyped
  <1>2. /\ ~envelope.denied /\ ~envelope.forced /\ tier \notin envelope.forcedTiers
        /\ ~(ByUser(policy) /\ policy.entry.deny)
        /\ tier # "routine" => ~CapViolated(grants, tier, now)
        /\ ~(tier # "routine" /\ CeilingExceeded(grants, tier, now) /\ ~ExplicitlyAllowed(policy, tier))
        /\ TierDefault(policy, tier, <<>>, now).reason = "no_grant_sensitive"
    BY DEF Evaluate, Answer
  <1>3. tier = "sensitive" /\ ~ExplicitlyAllowed(policy, tier)
    BY <1>1, <1>2, DefaultWithoutGrants DEF Answer
  <1>4. ~CapViolated(grants, tier, now) /\ ~CeilingExceeded(grants, tier, now)
    BY <1>2, <1>3
  <1>5. \A i \in DOMAIN grants : ~InWindow(grants[i], now)
    BY <1>4 DEF CapViolated, CeilingExceeded
  <1>. QED  BY <1>2, <1>3, <1>5 DEF LeftToGrants

\* A call left to the grants is allowed by any listed one that covers it.
LEMMA CoveredIsAllowed ==
  ASSUME NEW policy, NEW envelope, NEW grants, NEW now,
         LeftToGrants(policy, envelope),
         Allowing(grants, TierOf(policy, envelope), envelope.ceiling, now) # {}
  PROVE  Evaluate(policy, envelope, grants, now).outcome = "allow"
  BY DEF LeftToGrants, Evaluate, Answer

\* Without a grant, a sensitive call that was left to the grants does not pend.
LEMMA SensitiveDoesNotPend ==
  ASSUME NEW policy \in Policies, NEW envelope \in Envelopes, NEW now,
         LeftToGrants(policy, envelope), TierOf(policy, envelope) = "sensitive"
  PROVE  Evaluate(policy, envelope, <<>>, now).outcome # "pending_approval"
  <1>. DEFINE tier == TierOf(policy, envelope)
  <1>1. tier \in Tiers
    BY TierTyped
  <1>2. TierDefault(policy, tier, <<>>, now).outcome # "pending_approval"
    BY <1>1, DefaultWithoutGrants DEF Answer
  <1>. QED  BY <1>2 DEF LeftToGrants, Evaluate, Answer

\* An allow needs an authority: a routine tier, a listed grant in its window
\* that reaches the tier under the ceiling, or the user's standing allow, and
\* no denial or forced approval above it (evaluatePrecedence).
THEOREM AllowedIsAuthorised ==
  ASSUME NEW policy \in Policies, NEW envelope \in Envelopes,
         NEW Ids, NEW grants \in Seq(GrantsOf(Ids)), NEW now \in Int,
         Evaluate(policy, envelope, grants, now).outcome = "allow"
  PROVE  Authorised(policy, envelope, grants, now)
  <1>. DEFINE tier     == TierOf(policy, envelope)
              allowing == Allowing(grants, tier, envelope.ceiling, now)
  <1>1. tier \in Tiers
    BY TierTyped
  <1>2. /\ ~envelope.denied /\ ~envelope.forced /\ tier \notin envelope.forcedTiers
        /\ ~(ByUser(policy) /\ policy.entry.deny)
        /\ \/ tier # "routine" /\ allowing # {}
           \/ TierDefault(policy, tier, <<>>, now).outcome = "allow"
    BY DEF Evaluate, Answer
  <1>3. ASSUME NEW i \in allowing
        PROVE  /\ i \in DOMAIN grants
               /\ grants[i].nbf <= now /\ now < grants[i].exp
               /\ Rank(tier) <= Rank(grants[i].cap)
               /\ envelope.ceiling # NoTier => Rank(tier) <= Rank(envelope.ceiling)
    <2>1. grants[i] \in GrantsOf(Ids) /\ i \in DOMAIN grants
      BY DEF Allowing
    <2>2. grants[i].cap \in Tiers /\ envelope.ceiling \in Tiers \cup {NoTier}
      BY <2>1 DEF GrantsOf, Envelopes
    <2>3. InWindow(grants[i], now) /\ Covers(CappedBy(grants[i].cap, envelope.ceiling), tier)
      BY DEF Allowing
    <2>. QED  BY <1>1, <2>1, <2>2, <2>3, CappedCovers DEF InWindow
  <1>4. TierDefault(policy, tier, <<>>, now).outcome = "allow" =>
          tier = "routine" \/ (tier = "sensitive" /\ ByUser(policy) /\ policy.entry.allow)
    BY <1>1, DefaultWithoutGrants DEF Answer, ExplicitlyAllowed
  <1>. QED  BY <1>2, <1>3, <1>4 DEF Authorised

\* And what is authorised is allowed, but for one thing: a live grant that
\* claims too little refuses even a call that the user has allowed for good,
\* when no other grant covers it.
THEOREM AuthorisedIsAllowed ==
  ASSUME NEW policy \in Policies, NEW envelope \in Envelopes,
         NEW Ids, NEW grants \in Seq(GrantsOf(Ids)), NEW now \in Int,
         Authorised(policy, envelope, grants, now)
  PROVE  \/ Evaluate(policy, envelope, grants, now).outcome = "allow"
         \/ Evaluate(policy, envelope, grants, now).reason = "tier_cap_violation"
  <1>. DEFINE tier     == TierOf(policy, envelope)
              allowing == Allowing(grants, tier, envelope.ceiling, now)
  <1>1. tier \in Tiers
    BY TierTyped
  <1>2. /\ ~envelope.denied /\ ~envelope.forced /\ tier \notin envelope.forcedTiers
        /\ ~(ByUser(policy) /\ policy.entry.deny)
    BY DEF Authorised
  <1>3. CASE tier = "routine"
    BY <1>1, <1>2, <1>3, DefaultWithoutGrants DEF Evaluate, Answer
  <1>4. CASE tier # "routine" /\ tier = "sensitive" /\ ByUser(policy) /\ policy.entry.allow
    <2>1. ExplicitlyAllowed(policy, tier)
      BY <1>4 DEF ExplicitlyAllowed
    <2>. QED  BY <1>1, <1>2, <1>4, <2>1, DefaultWithoutGrants DEF Evaluate, Answer
  <1>5. CASE /\ tier # "routine"
             /\ \E i \in DOMAIN grants :
                  /\ grants[i].nbf <= now /\ now < grants[i].exp
                  /\ Rank(tier) <= Rank(grants[i].cap)
                  /\ envelope.ceiling # NoTier => Rank(tier) <= Rank(envelope.ceiling)
    <2>1. PICK i \in DOMAIN grants :
            /\ grants[i].nbf <= now /\ now < grants[i].exp
            /\ Rank(tier) <= Rank(grants[i].cap)
            /\ envelope.ceiling # NoTier => Rank(tier) <= Rank(envelope.ceiling)
      BY <1>5
    <2>0. grants[i] \in GrantsOf(Ids)
      OBVIOUS
    <2>2. grants[i].cap \in Tiers /\ envelope.ceiling \in Tiers \cup {NoTier}
      BY <2>0 DEF GrantsOf, Envelopes
    <2>3. i \in allowing
      BY <1>1, <2>1, <2>2, CappedCovers DEF Allowing, InWindow
    <2>. QED  BY <1>2, <1>5, <2>3 DEF Evaluate, Answer
  <1>. QED  BY <1>3, <1>4, <1>5 DEF Authorised

\* Two listings of the same grants, in whatever order and however often each
\* is listed, get the same outcome for the same reason.
THEOREM OrderDoesNotDecide ==
  ASSUME NEW policy \in Policies, NEW envelope \in Envelopes,
         NEW Ids, NEW grants \in Seq(GrantsOf(Ids)), NEW others \in Seq(GrantsOf(Ids)),
         NEW now \in Int,
         {grants[i] : i \in DOMAIN grants} = {others[i] : i \in DOMAIN others}
  PROVE  LET one == Evaluate(policy, envelope, grants, now)
             two == Evaluate(policy, envelope, others, now)
         IN  one.outcome = two.outcome /\ one.reason = two.reason
  <1>. DEFINE tier == TierOf(policy, envelope)
  <1>1. /\ \A i \in DOMAIN grants : \E j \in DOMAIN others : grants[i] = others[j]
        /\ \A j \in DOMAIN others : \E i \in DOMAIN grants : grants[i] = others[j]
    OBVIOUS
  <1>2. Allowing(grants, tier, envelope.ceiling, now) = {}
          <=> Allowing(others, tier, envelope.ceiling, now) = {}
    BY <1>1 DEF Allowing
  <1>3. CapViolated(grants, tier, now) <=> CapViolated(others, tier, now)
    BY <1>1 DEF CapViolated
  <1>4. CeilingExceeded(grants, tier, now) <=> CeilingExceeded(others, tier, now)
    BY <1>1 DEF CeilingExceeded
  <1>. HIDE DEF tier
  <1>. QED  BY <1>2, <1>3, <1>4 DEF Evaluate, Answer, tier

\* An envelope only restricts: whatever its floor, its ceiling and what it
\* denies or forces, a call that it lets through is let through without it.
THEOREM EnvelopeRestricts ==
  ASSUME NEW policy \in Policies, NEW envelope \in Envelopes,
         NEW Ids, NEW grants \in Seq(GrantsOf(Ids)), NEW now \in Int,
         Evaluate(policy, envelope, grants, now).outcome = "allow"
  PROVE  Evaluate(policy, OpenEnvelope, grants, now).outcome = "allow"
  <1>. DEFINE tier     == TierOf(policy, envelope)
              base     == BaseTier(policy)
              allowing == Allowing(grants, tier, envelope.ceiling, now)
              granted  == Allowing(grants, base, NoTier, now)
  <1>1. /\ tier \in Tiers /\ base \in Tiers
        /\ Rank(base) <= Rank(tier) /\ Rank(base) \in 0..2 /\ Rank(tier) \in 0..2
    BY TierTyped, RankTyped
  <1>2. /\ TierOf(policy, OpenEnvelope) = base
        /\ ~OpenEnvelope.denied /\ ~OpenEnvelope.forced /\ OpenEnvelope.forcedTiers = {}
        /\ OpenEnvelope.ceiling = NoTier
    BY DEF TierOf, Clamps, OpenEnvelope
  <1>3. /\ ~(ByUser(policy) /\ policy.entry.deny)
        /\ \/ tier # "routine" /\ allowing # {}
           \/ /\ TierDefault(policy, tier, <<>>, now).outcome = "allow"
              /\ tier # "routine" => ~CapViolated(grants, tier, now)
    BY DEF Evaluate, Answer
  <1>4. CASE base = "routine"
    BY <1>1, <1>2, <1>3, <1>4, DefaultWithoutGrants DEF Evaluate, Answer
  <1>5. CASE base # "routine" /\ allowing # {}
    <2>1. PICK i \in allowing : TRUE
      BY <1>5
    <2>2. /\ i \in DOMAIN grants /\ grants[i] \in GrantsOf(Ids) /\ InWindow(grants[i], now)
          /\ Covers(CappedBy(grants[i].cap, envelope.ceiling), tier)
      BY <2>1 DEF Allowing
    <2>3. /\ grants[i].cap \in Tiers /\ envelope.ceiling \in Tiers \cup {NoTier}
          /\ Rank(grants[i].cap) \in 0..2
      BY <2>2, RankTyped DEF GrantsOf, Envelopes
    <2>4. Rank(tier) <= Rank(grants[i].cap)
      BY <1>1, <2>2, <2>3, CappedCovers
    <2>5. Covers(CappedBy(grants[i].cap, NoTier), base)
      <3>1. Rank(base) <= Rank(grants[i].cap)
        BY <1>1, <2>3, <2>4
      <3>2. NoTier \in Tiers \cup {NoTier}
        OBVIOUS
      <3>. HIDE DEF base
      <3>. QED  BY <1>1, <2>3, <3>1, <3>2, CappedCovers
    <2>6. i \in granted
      BY <2>2, <2>5 DEF Allowing
    <2>. QED  BY <1>2, <1>3, <1>5, <2>6 DEF Evaluate, Answer
  <1>6. CASE /\ base # "routine"
             /\ TierDefault(policy, tier, <<>>, now).outcome = "allow"
             /\ tier # "routine" => ~CapViolated(grants, tier, now)
    <2>1. tier # "routine"
      BY <1>1, <1>6, RankTyped DEF Tiers
    <2>2. ExplicitlyAllowed(policy, tier)
      BY <1>1, <1>6, <2>1, DefaultWithoutGrants DEF Answer
    <2>3. tier = base
      BY <2>2 DEF ExplicitlyAllowed, TierOf, Clamps
    <2>4. TierDefault(policy, base, <<>>, now).outcome = "allow"
      BY <1>6, <2>3
    <2>5. ~CapViolated(grants, base, now) /\ ExplicitlyAllowed(policy, base)
      BY <1>6, <2>1, <2>2, <2>3
    <2>. HIDE DEF base, tier, allowing
    <2>. QED  BY <1>2, <1>3, <2>4, <2>5 DEF Evaluate, Answer
  <1>. QED  BY <1>3, <1>4, <1>5, <1>6
=============================================================================
