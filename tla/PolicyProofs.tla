----------------------------- MODULE PolicyProofs -----------------------------
(***************************************************************************)
(* What becomes of a policy: a call is decided by it and the agent told    *)
(* (DecidedCall), a grant bears on the calls it was minted for             *)
(* (PresentedGrant), the cache of the pipeline answers under the policy of *)
(* the call (Pipeline), the commands that rewrite the configuration leave  *)
(* the user's authority where it was (Setup), and the detector counts the  *)
(* denials of a pair as truly as the bound of its table lets it (Probing). *)
(***************************************************************************)
EXTENDS Policy, PrecedenceProofs, FiniteSetTheorems

\* Whatever part runs, the pipeline and the commands take a step of their own or none.
LEMMA PartsRun == AllSpec => Pipe!Spec /\ Spec
  <1>1. AllInit => Pipe!Init /\ Init
    BY DEF AllInit
  <1>2. [AllNext]_allVars => [Pipe!Next]_Pipe!vars /\ [Next]_vars
    BY DEF AllNext, DecideCall, PresentGrant, Over, SetUp, Pass, Probe, allVars, pipelineVars,
           Pipe!vars
  <1>. QED  BY <1>1, <1>2, PTL DEF AllSpec, Pipe!Spec, Spec

-----------------------------------------------------------------------------
(* The pipeline. *)

\* A decision rests on the entry, the default and the tier of a policy; what the
\* server says of the tool bears on it through the tier alone.
LEMMA TierStandsForHints ==
  ASSUME NEW one, NEW two, NEW bound, NEW listing, NEW time,
         one.entry = two.entry, Pipe!TierOf(one, bound) = Pipe!TierOf(two, bound)
  PROVE  Pipe!Evaluate(one, bound, listing, time) = Pipe!Evaluate(two, bound, listing, time)
  <1>1. Pipe!ByUser(one) = Pipe!ByUser(two)
    BY DEF Pipe!ByUser
  <1>2. \A tier : Pipe!ExplicitlyAllowed(one, tier) = Pipe!ExplicitlyAllowed(two, tier)
    BY <1>1 DEF Pipe!ExplicitlyAllowed
  <1>3. \A tier : Pipe!TierDefault(one, tier, <<>>, time) = Pipe!TierDefault(two, tier, <<>>, time)
    BY <1>2 DEF Pipe!TierDefault
  <1>. QED  BY <1>1, <1>2, <1>3 DEF Pipe!Evaluate

\* Every entry was made of an answer to a call of the entry's tier and policy.
MadeOfAnswers ==
    \A e \in entries : \E input \in Inputs :
        e = Pipe!Entry(input, Pipe!TierFor(input), Pipe!Decided(input))

\* The inductive invariant of the pipeline.
PipeInv ==
    /\ asked \in [Callers -> Inputs \cup {NoInput}]
    /\ MadeOfAnswers
    /\ Pipe!HitIsThisPolicy

\* An entry under the key of a call is what the adapter would say of the call, had
\* it the grants of the entry.
LEMMA EntryAnswersItsKey ==
  ASSUME NEW input \in Inputs, NEW made \in Inputs,
         NEW e, e = Pipe!Entry(made, Pipe!TierFor(made), Pipe!Decided(made)),
         e.key = Pipe!Key(input, Pipe!TierFor(input))
  PROVE  e.decision = Pipe!Decided([input EXCEPT !.grants = e.grants])
  <1>1. /\ e.key = Pipe!Key(made, Pipe!TierFor(made))
        /\ e.decision = Pipe!Decided(made) /\ e.grants = made.grants
    BY DEF Pipe!Entry
  <1>2. /\ made.policy.entry = input.policy.entry /\ made.envelope = input.envelope
        /\ Pipe!TierFor(made) = Pipe!TierFor(input)
    BY <1>1 DEF Pipe!Key, Pipe!EffectivePolicyVersion
  <1>3. [input EXCEPT !.grants = e.grants]
          = [policy |-> input.policy, envelope |-> input.envelope, grants |-> made.grants]
    BY <1>1, PipeAssumption DEF Pipe!PipelineAssumption
  <1>4. Pipe!Evaluate(made.policy, made.envelope, made.grants, Clock)
          = Pipe!Evaluate(input.policy, input.envelope, made.grants, Clock)
    BY <1>2, TierStandsForHints DEF Pipe!TierFor
  <1>. QED  BY <1>1, <1>3, <1>4 DEF Pipe!Decided

\* The cache is empty at first.
LEMMA PipeInit == Pipe!Init => PipeInv
  BY DEF Pipe!Init, PipeInv, MadeOfAnswers, Pipe!HitIsThisPolicy, Pipe!Fresh

\* One step for each action of the pipeline.
LEMMA PipeNext ==
  ASSUME PipeInv, [Pipe!Next]_Pipe!vars
  PROVE  PipeInv'
  <1>0. asked \in [Callers -> Inputs \cup {NoInput}] /\ MadeOfAnswers /\ Pipe!HitIsThisPolicy
    BY DEF PipeInv
  <1>1. ASSUME NEW c \in Callers, NEW input \in Inputs, Pipe!Ask(c, input) PROVE PipeInv'
    <2>. DEFINE hits == {e \in entries : e.key = Pipe!Key(input, Pipe!TierFor(input))}
    <2>1. CASE Pipe!TierFor(input) # "critical" /\ hits # {}
      <3>. DEFINE hit == CHOOSE e \in hits : TRUE
      <3>1. hit \in hits
        BY <2>1
      <3>. HIDE DEF hit
      <3>2. answer' = Pipe!Response(input, hit) /\ UNCHANGED <<asked, entries>>
        BY <1>1, <2>1 DEF Pipe!Ask, hit
      <3>3. PICK made \in Inputs : hit = Pipe!Entry(made, Pipe!TierFor(made), Pipe!Decided(made))
        BY <1>0, <3>1 DEF MadeOfAnswers
      <3>4. hit.decision = Pipe!Decided([input EXCEPT !.grants = hit.grants])
        BY <3>1, <3>3, EntryAnswersItsKey
      <3>5. Pipe!HitIsThisPolicy'
        BY <2>1, <3>2, <3>4 DEF Pipe!HitIsThisPolicy, Pipe!Response
      <3>. QED  BY <1>0, <3>2, <3>5 DEF PipeInv, MadeOfAnswers
    <2>2. CASE ~(Pipe!TierFor(input) # "critical" /\ hits # {})
      <3>1. asked' = [asked EXCEPT ![c] = input] /\ UNCHANGED <<entries, answer>>
        BY <1>1, <2>2 DEF Pipe!Ask
      <3>. QED  BY <1>0, <3>1 DEF PipeInv, MadeOfAnswers, Pipe!HitIsThisPolicy
    <2>. QED  BY <2>1, <2>2
  <1>2. ASSUME NEW c \in Callers, Pipe!AdapterAnswers(c) PROVE PipeInv'
    <2>. DEFINE input == asked[c]
                entry == Pipe!Entry(input, Pipe!TierFor(input), Pipe!Decided(input))
    <2>1. input \in Inputs
      BY <1>0, <1>2 DEF Pipe!AdapterAnswers
    <2>. HIDE DEF input
    <2>2. entries' \subseteq entries \cup {entry}
      BY <1>2 DEF Pipe!AdapterAnswers, Pipe!TierStored, input
    <2>3. asked' = [asked EXCEPT ![c] = NoInput] /\ answer' = Pipe!Fresh
      BY <1>2 DEF Pipe!AdapterAnswers
    <2>4. MadeOfAnswers'
      BY <1>0, <2>1, <2>2 DEF MadeOfAnswers
    <2>5. Pipe!HitIsThisPolicy'
      BY <2>3 DEF Pipe!HitIsThisPolicy, Pipe!Fresh
    <2>. QED  BY <1>0, <2>3, <2>4, <2>5 DEF PipeInv
  <1>3. ASSUME NEW c \in Callers, Pipe!AdapterThrows(c) PROVE PipeInv'
    BY <1>0, <1>3 DEF Pipe!AdapterThrows, PipeInv, MadeOfAnswers, Pipe!HitIsThisPolicy
  <1>4. CASE Pipe!Forget
    BY <1>0, <1>4 DEF Pipe!Forget, PipeInv, MadeOfAnswers, Pipe!HitIsThisPolicy
  <1>5. CASE UNCHANGED Pipe!vars
    BY <1>0, <1>5 DEF Pipe!vars, PipeInv, MadeOfAnswers, Pipe!HitIsThisPolicy
  <1>. QED  BY <1>1, <1>2, <1>3, <1>4, <1>5 DEF Pipe!Next

\* For any callers and inputs: a hit of the cache is what the adapter would say under
\* the policy and the envelope of this very call (decide() of the pipeline).
THEOREM HitsAnswerThisPolicy == AllSpec => []HitIsThisPolicy
  <1>1. PipeInv /\ [Pipe!Next]_Pipe!vars => PipeInv'
    BY PipeNext
  <1>2. PipeInv => HitIsThisPolicy
    BY DEF PipeInv, HitIsThisPolicy
  <1>. QED  BY PartsRun, PipeInit, <1>1, <1>2, PTL DEF Pipe!Spec

-----------------------------------------------------------------------------
(* The calls. *)

\* The inductive invariant of a call: it keeps what it is decided by, and its
\* decision is the precedence's.
CallInv ==
    /\ policy \in AskedPolicies /\ envelope \in AskedEnvelopes /\ grants \in AskedListings
    /\ CallDecided => decision = Evaluate(policy, envelope, grants, Clock)

\* Whichever part runs, only a call of this part is ever decided.
CallPart == IF part = "call" THEN CallInv ELSE ~CallDecided

LEMMA CallRuns == AllSpec => []CallPart
  <1>1. AllInit => CallPart
    BY DEF AllInit, CallInit, CallPart, CallInv, CallDecided
  <1>2. CallPart /\ [AllNext]_allVars => CallPart'
    <2>1. [AllNext]_allVars => part' = part /\ ((part = "call" /\ Decide) \/ UNCHANGED callVars)
      BY DEF AllNext, DecideCall, PresentGrant, Over, SetUp, Pass, Probe, allVars
    <2>. QED  BY <2>1 DEF CallPart, CallInv, CallDecided, Decide, callVars
  <1>. QED  BY <1>1, <1>2, PTL DEF AllSpec

\* What the invariant says of the types.
LEMMA CallTyped ==
  ASSUME CallInv
  PROVE  /\ policy \in Policies /\ envelope \in Envelopes /\ Clock \in Int
         /\ grants \in Seq(GrantsOf({grants[i].jti : i \in DOMAIN grants}))
  BY DecidedAssumption DEF CallInv

\* For any policies, envelopes and listings: an allow has an authority of its own
\* kind behind it, and none that is authorised is refused but for an under-capped
\* grant (evaluatePrecedence).
THEOREM DecisionsAreAuthorised == AllSpec => []AllowIsAuthorised
  <1>1. CallInv => AllowIsAuthorised
    <2>. SUFFICES ASSUME CallInv, CallDecided PROVE AllowIsAuthorised
      BY DEF AllowIsAuthorised
    <2>1. decision = Evaluate(policy, envelope, grants, Clock)
      BY DEF CallInv
    <2>2. decision.outcome = "allow" => Authorised(policy, envelope, grants, Clock)
      BY <2>1, CallTyped, AllowedIsAuthorised
    <2>3. Authorised(policy, envelope, grants, Clock) =>
            decision.outcome = "allow" \/ decision.reason = "tier_cap_violation"
      BY <2>1, CallTyped, AuthorisedIsAllowed
    <2>. QED  BY <2>2, <2>3 DEF AllowIsAuthorised
  <1>2. CallPart => AllowIsAuthorised
    BY <1>1 DEF CallPart, AllowIsAuthorised
  <1>. QED  BY <1>2, CallRuns, PTL

\* For any listing: read backwards, it decides the same (collectCoveringGrants and
\* evaluatePrecedence).
THEOREM DecisionsIgnoreTheOrder == AllSpec => []OrderIsIrrelevant
  <1>1. CallInv => OrderIsIrrelevant
    <2>. SUFFICES ASSUME CallInv, CallDecided PROVE OrderIsIrrelevant
      BY DEF OrderIsIrrelevant
    <2>. DEFINE Ids      == {grants[i].jti : i \in DOMAIN grants}
                reversed == [i \in DOMAIN grants |-> grants[Len(grants) + 1 - i]]
    <2>1. /\ decision = Evaluate(policy, envelope, grants, Clock)
          /\ grants \in Seq(GrantsOf(Ids))
      BY CallTyped DEF CallInv
    <2>. HIDE DEF Ids
    <2>2. /\ reversed \in Seq(GrantsOf(Ids))
          /\ DOMAIN reversed = DOMAIN grants
          /\ \A i \in DOMAIN grants :
                /\ Len(grants) + 1 - i \in DOMAIN grants
                /\ Len(grants) + 1 - (Len(grants) + 1 - i) = i
                /\ reversed[i] = grants[Len(grants) + 1 - i]
      BY <2>1
    <2>. HIDE DEF reversed
    <2>3. {grants[i] : i \in DOMAIN grants} = {reversed[i] : i \in DOMAIN reversed}
      BY <2>2
    <2>4. LET other == Evaluate(policy, envelope, reversed, Clock)
          IN  decision.outcome = other.outcome /\ decision.reason = other.reason
      BY <2>1, <2>2, <2>3, CallTyped, OrderDoesNotDecide
    <2>. QED  BY <2>4 DEF OrderIsIrrelevant, reversed
  <1>2. CallPart => OrderIsIrrelevant
    BY <1>1 DEF CallPart, OrderIsIrrelevant
  <1>. QED  BY <1>2, CallRuns, PTL

\* For any envelope: what it lets through would have been let through without it
\* (resolveTierWithEnvelope and evaluatePrecedence).
THEOREM EnvelopesRestrict == AllSpec => []EnvelopeOnlyRestricts
  <1>1. CallInv => EnvelopeOnlyRestricts
    BY CallTyped, EnvelopeRestricts DEF CallInv, EnvelopeOnlyRestricts
  <1>2. CallPart => EnvelopeOnlyRestricts
    BY <1>1 DEF CallPart, EnvelopeOnlyRestricts
  <1>. QED  BY <1>2, CallRuns, PTL

-----------------------------------------------------------------------------
(* The grants. *)

\* What verifyGrant asks of a token and a call, whatever reason it gives.
Checks(token, made) ==
    /\ token.segments = 3 /\ token.size # "oversized"
    /\ HeaderOk(token) /\ ClaimsOk(token)
    /\ token.kid \in made.keys /\ token.signer = token.kid
    /\ ~(made.now >= token.exp) /\ ~(token.nbf # Absent /\ made.now < token.nbf)
    /\ token.principal = made.principal /\ AgentMatches(token.agent, made.agent)
    /\ Matches(token.tool, made.tool) /\ ScopeMatches(token, made)
    /\ token.conditions # "some"
    /\ Bound(token, made)

\* A grant is handed on exactly when all but the cap is in order.
LEMMA HandedOnIfInOrder ==
  ASSUME NEW token, NEW made
  PROVE  HandedOn(token, made) <=> Checks(token, made)
  BY DEF HandedOn, Verify, CallAndCap, Checks

\* A pattern matches what each of its two members matches.
LEMMA PatternsMatch ==
  ASSUME NEW pattern, NEW thing, IsPattern(pattern), IsName(thing)
  PROVE  Matches(pattern, thing) <=>
           pattern.space \in {"*", thing.space} /\ pattern.name \in {"*", thing.name}
  <1>1. /\ pattern = [space |-> pattern.space, name |-> pattern.name]
        /\ thing = [space |-> thing.space, name |-> thing.name]
        /\ pattern.space = "*" => pattern.name = "*"
    BY DEF IsPattern, IsName
  <1>2. pattern = thing <=> pattern.space = thing.space /\ pattern.name = thing.name
    BY <1>1
  <1>3. pattern = [space |-> "*", name |-> "*"] <=> pattern.space = "*" /\ pattern.name = "*"
    BY <1>1
  <1>. QED  BY <1>1, <1>2, <1>3 DEF Matches

\* The members of a new token.
NewToken(i) ==
    [segments |-> 3, size |-> "short", alg |-> "EdDSA", typ |-> "knotrust-grant", crit |-> Absent,
     kid |-> SignedBy, signer |-> SignedBy, v |-> 1, exp |-> MintedAt + i.ttl, nbf |-> i.nbf,
     kind |-> i.kind, singleUse |-> SingleUse(i), principal |-> i.principal, agent |-> i.agent,
     tool |-> i.tool, type |-> i.type, id |-> i.id, conditions |-> Wired(i.conditions),
     tier |-> i.tier, callHash |-> i.callHash]

\* A paper is minted, with a header and claims in order.
LEMMA MintedTyped ==
  ASSUME NEW p \in Papers
  PROVE  /\ Mint(p.input, SignedBy, MintedAt) = NewToken(p.input)
         /\ HeaderOk(NewToken(p.input)) /\ ClaimsOk(NewToken(p.input))
  <1>. DEFINE i     == p.input
              token == NewToken(i)
  <1>1. IsInput(i) /\ Mintable(i)
        /\ (i.kind = "ephemeral" => Proper(CallHash(p.call)) /\ i.callHash = CallHash(p.call))
    BY PaperAssumption, CredentialAssumption
  <1>. HIDE DEF i
  <1>2. Mint(i, SignedBy, MintedAt) = token
    BY <1>1 DEF Mint, NewToken
  <1>3. HeaderOk(token)
    BY PaperAssumption, CredentialAssumption DEF HeaderOk, NewToken
  <1>4. /\ MintedAt + i.ttl \in Int /\ i.kind \in Kinds /\ SingleUse(i) \in BOOLEAN /\ i.tier \in Tiers
    <2>1. SingleUse(i) \in BOOLEAN
      BY <1>1 DEF IsInput, SingleUse
    <2>. QED  BY <1>1, <2>1, PaperAssumption, CredentialAssumption DEF IsInput
  <1>5. \A member \in Required : Proper(token[member])
    <2>1. Proper(MintedAt + i.ttl) /\ Proper(i.kind) /\ Proper(SingleUse(i)) /\ Proper(i.tier)
      BY <1>4, PaperAssumption, CredentialAssumption DEF Proper
    <2>2. Proper(i.principal) /\ Proper(i.agent) /\ Proper(i.tool)
      BY <1>1 DEF IsInput
    <2>3. /\ Proper(token.exp) /\ Proper(token.kind) /\ Proper(token.singleUse) /\ Proper(token.tier)
          /\ Proper(token.principal) /\ Proper(token.agent) /\ Proper(token.tool)
      BY <2>1, <2>2 DEF NewToken
    <2>. QED  BY <2>3 DEF Required
  <1>6. /\ i.nbf # Bad /\ i.type # Bad /\ i.id # Bad /\ Wired(i.conditions) # Bad /\ i.callHash # Bad
        /\ i.kind = "ephemeral" <=> i.callHash # Absent
    <2>1. i.nbf # Bad /\ i.type # Bad /\ i.id # Bad
      BY <1>1, PaperAssumption, CredentialAssumption DEF IsInput
    <2>2. Wired(i.conditions) # Bad
      BY <1>1, PaperAssumption, CredentialAssumption DEF IsInput, Wired
    <2>3. i.kind = "ephemeral" => i.callHash \notin {Absent, Bad}
      BY <1>1 DEF Proper
    <2>4. i.kind # "ephemeral" => i.callHash = Absent
      BY <1>1 DEF IsInput, Kinds, Mintable
    <2>. QED  BY <2>1, <2>2, <2>3, <2>4, CredentialAssumption
  <1>7. ClaimsOk(token)
    <2>1. \A member \in {"nbf", "type", "id", "conditions", "callHash"} : token[member] # Bad
      BY <1>6 DEF NewToken
    <2>2. token.v = 1 /\ (token.kind = "ephemeral" <=> token.callHash # Absent)
      BY <1>6 DEF NewToken
    <2>. QED  BY <1>5, <2>1, <2>2 DEF ClaimsOk, Proper
  <1>. QED  BY <1>2, <1>3, <1>7 DEF i

\* A token with a spoiled member is out of order, whichever member it is.
LEMMA DamageShows ==
  ASSUME NEW p \in Papers, NEW made \in Presented, p.damaged # NoDamage
  PROVE  ~Checks(TokenOf(p), made)
  <1>. DEFINE sound == NewToken(p.input)
              token == TokenOf(p)
  <1>. SUFFICES ~Checks(token, made)
    OBVIOUS
  <1>1. /\ sound = [sound EXCEPT !.segments = 3]
        /\ DOMAIN sound = Members \cup {"size"} /\ sound.kid = SignedBy
    BY DEF Members, NewToken
  <1>2. p.damaged \in Members /\ token = [sound EXCEPT ![p.damaged] = Bad]
    BY PaperAssumption, CredentialAssumption, MintedTyped DEF TokenOf
  <1>. HIDE DEF sound, token
  <1>3. token[p.damaged] = Bad /\ (p.damaged # "kid" => token.kid = SignedBy)
    BY <1>1, <1>2 DEF Members
  <1>4. CASE p.damaged \in {"segments", "v"}
    BY <1>3, <1>4, PaperAssumption, CredentialAssumption DEF Checks, ClaimsOk
  <1>5. CASE p.damaged \in {"alg", "typ", "crit", "kid"}
    BY <1>3, <1>5, PaperAssumption, CredentialAssumption DEF Checks, HeaderOk
  <1>6. CASE p.damaged = "signer"
    BY <1>3, <1>6, PaperAssumption, CredentialAssumption DEF Checks
  <1>7. CASE p.damaged \in {"exp", "kind", "singleUse", "principal", "agent", "tool", "tier"}
    BY <1>3, <1>7 DEF Checks, ClaimsOk, Required
  <1>8. CASE p.damaged \in {"nbf", "type", "id", "conditions", "callHash"}
    BY <1>3, <1>8 DEF Checks, ClaimsOk
  <1>. QED  BY <1>2, <1>4, <1>5, <1>6, <1>7, <1>8 DEF Members

\* Two calls of one hash differ in the tier, the time and the keys at most.
LEMMA HashBinds ==
  ASSUME NEW one \in Presented, NEW two \in Presented
  PROVE  CallHash(one) = CallHash(two) <=>
           \A f \in DOMAIN one \ {"tier", "now", "keys"} : one[f] = two[f]
  <1>1. /\ DOMAIN one = {"principal", "agent", "tool", "type", "id", "properties", "arguments",
                        "tier", "now", "keys"}
        /\ one.principal.id = two.principal.id => one.principal = two.principal
        /\ one.agent.id = two.agent.id => one.agent = two.agent
    BY PaperAssumption, CredentialAssumption DEF IsCall
  <1>2. CallHash(one) = CallHash(two) <=>
          /\ one.principal.id = two.principal.id /\ one.tool = two.tool /\ one.type = two.type
          /\ one.id = two.id /\ one.properties = two.properties /\ one.agent.id = two.agent.id
          /\ one.arguments = two.arguments
    BY DEF CallHash
  <1>. QED  BY <1>1, <1>2

\* A grant is handed on for exactly the calls that it was minted for.
LEMMA HandedOnIfMeant ==
  ASSUME NEW p \in Papers, NEW made \in Presented
  PROVE  HandedOn(TokenOf(p), made) <=> Meant(p, made)
  <1>. DEFINE i     == p.input
              token == TokenOf(p)
  <1>1. CASE p.damaged # NoDamage
    BY <1>1, DamageShows, HandedOnIfInOrder DEF Meant
  <1>2. CASE p.damaged = NoDamage
    <2>. token = NewToken(i)
      BY <1>2, MintedTyped DEF TokenOf
    <2>1. /\ token.segments = 3 /\ token.size = "short" /\ HeaderOk(token) /\ ClaimsOk(token)
          /\ token.kid = SignedBy /\ token.signer = SignedBy
          /\ token.exp = MintedAt + i.ttl /\ token.nbf = i.nbf
          /\ token.principal = i.principal /\ token.agent = i.agent /\ token.tool = i.tool
          /\ token.type = i.type /\ token.id = i.id
          /\ token.conditions = Wired(i.conditions) /\ token.callHash = i.callHash
      BY MintedTyped DEF NewToken
    <2>2. IsInput(i) /\ Mintable(i) /\ IsCall(made)
      BY PaperAssumption, CredentialAssumption
    <2>. HIDE DEF token
    <2>3. Checks(token, made) <=>
            /\ SignedBy \in made.keys
            /\ ~(made.now >= MintedAt + i.ttl) /\ ~(i.nbf # Absent /\ made.now < i.nbf)
            /\ i.principal = made.principal /\ AgentMatches(i.agent, made.agent)
            /\ Matches(i.tool, made.tool) /\ ScopeMatches(token, made)
            /\ Wired(i.conditions) # "some"
            /\ Bound(token, made)
      BY <2>1 DEF Checks
    <2>4. /\ ~(made.now >= MintedAt + i.ttl) <=> made.now < MintedAt + i.ttl
          /\ ~(i.nbf # Absent /\ made.now < i.nbf) <=> (i.nbf # Absent => i.nbf <= made.now)
      BY <2>2, PaperAssumption, CredentialAssumption DEF IsInput, IsCall
    <2>5. Matches(i.tool, made.tool) <=>
            i.tool.space \in {"*", made.tool.space} /\ i.tool.name \in {"*", made.tool.name}
      BY <2>2, PatternsMatch DEF IsInput, IsCall
    <2>6. ScopeMatches(token, made) <=>
            /\ i.type \in {Absent, made.type}
            /\ i.id # Absent => i.id.space \in {"*", made.id.space} /\ i.id.name \in {"*", made.id.name}
      <3>1. i.id # Absent =>
              (Matches(i.id, made.id) <=>
                 i.id.space \in {"*", made.id.space} /\ i.id.name \in {"*", made.id.name})
        BY <2>2, PatternsMatch DEF IsInput, IsCall
      <3>. QED  BY <2>1, <3>1 DEF ScopeMatches
    <2>7. Wired(i.conditions) # "some" <=> i.conditions # "some"
      BY <2>2, PaperAssumption, CredentialAssumption DEF IsInput, Wired
    <2>8. Bound(token, made) <=>
            (i.kind = "ephemeral" => \A f \in DOMAIN made \ {"tier", "now", "keys"} : made[f] = p.call[f])
      <3>1. CASE i.kind = "ephemeral"
        <4>1. p.call \in Presented /\ i.callHash = CallHash(p.call) /\ i.callHash # Absent
          BY <3>1, PaperAssumption, CredentialAssumption DEF Proper
        <4>2. Bound(token, made) <=> CallHash(made) = CallHash(p.call)
          BY <2>1, <4>1 DEF Bound
        <4>. QED  BY <3>1, <4>1, <4>2, HashBinds
      <3>2. CASE i.kind # "ephemeral"
        <4>1. i.callHash = Absent
          BY <2>2, <3>2 DEF IsInput, Kinds, Mintable
        <4>. QED  BY <2>1, <3>2, <4>1 DEF Bound
      <3>. QED  BY <3>1, <3>2
    <2>9. AgentMatches(i.agent, made.agent) <=> i.agent \in {Any, made.agent}
      BY DEF AgentMatches
    <2>10. Checks(token, made) <=> Meant(p, made)
      BY <1>2, <2>3, <2>4, <2>5, <2>6, <2>7, <2>8, <2>9 DEF Meant
    <2>. QED  BY <2>10, HandedOnIfInOrder DEF token
  <1>. QED  BY <1>1, <1>2

\* The inductive invariant of a grant, which is presented in its part alone: it
\* stays what it was minted as.
PaperInv ==
    /\ IF part = "credential" THEN paper \in Papers /\ call \in Presented ELSE verdict = NoVerdict
    /\ GrantBearsOnItsCalls

\* For any grants and calls: a grant bears on the calls it was minted for, and on no
\* other, whatever has become of it (mintGrant, computeCallHash and verifyGrant).
THEOREM GrantsBearOnTheirCalls == AllSpec => []GrantBearsOnItsCalls
  <1>1. AllInit => PaperInv
    BY DEF AllInit, PaperInit, PaperInv, GrantBearsOnItsCalls
  <1>2. PaperInv /\ [AllNext]_allVars => PaperInv'
    <2>. SUFFICES ASSUME PaperInv, [AllNext]_allVars PROVE PaperInv'
      OBVIOUS
    <2>1. part' = part /\ ((part = "credential" /\ Present) \/ UNCHANGED paperVars)
      BY DEF AllNext, DecideCall, PresentGrant, Over, SetUp, Pass, Probe, allVars
    <2>2. CASE part = "credential" /\ Present
      <3>1. HandedOn(TokenOf(paper), call) <=> Meant(paper, call)
        BY <2>2, HandedOnIfMeant DEF PaperInv
      <3>2. /\ paper' = paper /\ call' = call
            /\ verdict' = WithGrants(call, IF Meant(paper, call) THEN Listed(paper) ELSE <<>>)
        BY <2>2, <3>1 DEF Present
      <3>. QED  BY <2>1, <2>2, <3>2 DEF PaperInv, GrantBearsOnItsCalls
    <2>3. CASE UNCHANGED paperVars
      BY <2>1, <2>3 DEF PaperInv, GrantBearsOnItsCalls, paperVars
    <2>. QED  BY <2>1, <2>2, <2>3
  <1>3. PaperInv => GrantBearsOnItsCalls
    BY DEF PaperInv
  <1>. QED  BY <1>1, <1>2, <1>3, PTL DEF AllSpec

-----------------------------------------------------------------------------
(* The advice. *)

\* The command that a denial suggests, and what it comes to.
Command == How(Parse(Message), Setting.server)

Month == Seconds(DefaultExpires)

Suggested ==
    [kind |-> "durable", callHash |-> Absent, singleUse |-> Absent, ttl |-> Month, nbf |-> Absent,
     principal |-> Principal(Setting.identity), agent |-> Any, tool |-> Message.name,
     type |-> Absent, id |-> Absent, conditions |-> Absent, tier |-> "sensitive"]

\* The flags say what a denial means by them.
LEMMA CommandAccepted ==
  /\ GrantOk(Command)
  /\ MintInput(GrantArgs(Command), Setting.identity) = Suggested
  <1>1. /\ Command.tool = Message.name /\ Command.server = OrElse(Setting.server, "<server>")
        /\ Command.agent = Absent /\ Command.cap = Absent /\ Command.expires = Absent
        /\ Command.resource = Absent
    BY AdviceAssumption DEF Command, How, SafeName, Parse, Proper
  <1>. HIDE DEF Command
  <1>2. CapAsked(Absent) = "sensitive" /\ ExpiresAsked(Absent) = DefaultExpires
    BY DEF CapAsked, ExpiresAsked, OrElse
  <1>3. GrantOk(Command)
    <2>1. Command.server \notin {Absent, Bad}
      BY <1>1, AdviceAssumption DEF Proper
    <2>2. Command.tool \notin {Absent, Bad}
      BY <1>1, AdviceAssumption DEF Proper
    <2>3. DurationOk(DefaultExpires)
      BY AdviceAssumption DEF DurationOk
    <2>. QED  BY <1>1, <1>2, <2>1, <2>2, <2>3, CredentialAssumption DEF GrantOk
  <1>4. GrantArgs(Command) =
          [tool |-> Message.name, agent |-> Any, cap |-> "sensitive", ttl |-> Month,
           scope |-> [type |-> Absent, id |-> Absent]]
    BY <1>1, <1>2 DEF GrantArgs, OrElse, ScopeOf, Month
  <1>. QED  BY <1>3, <1>4 DEF MintInput, Suggested

\* The grant it mints is for the call that was denied.
LEMMA SuggestedBears == HandedOn(Mint(Suggested, Kid, Clock), Asked)
  <1>. DEFINE token == Mint(Suggested, Kid, Clock)
  <1>1. /\ token.segments = 3 /\ token.size = "short"
        /\ token.alg = "EdDSA" /\ token.typ = "knotrust-grant" /\ token.crit = Absent
        /\ token.kid = Kid /\ token.signer = Kid /\ token.v = 1
        /\ token.exp = Clock + Month /\ token.nbf = Absent
        /\ token.kind = "durable" /\ token.singleUse = FALSE
        /\ token.principal = Principal(Setting.identity) /\ token.agent = Any
        /\ token.tool = Message.name /\ token.type = Absent /\ token.id = Absent
        /\ token.conditions = Absent /\ token.tier = "sensitive" /\ token.callHash = Absent
    <2>1. Mintable(Suggested)
      BY AdviceAssumption DEF Suggested, Mintable, Month
    <2>2. SingleUse(Suggested) = FALSE /\ Wired(Suggested.conditions) = Absent
      BY CredentialAssumption DEF Suggested, SingleUse, Wired
    <2>. QED  BY <2>1, <2>2 DEF Mint, Suggested
  <1>2. /\ Asked.principal = Principal(Setting.identity) /\ Asked.tool = Message.name
        /\ Asked.now = Clock /\ Asked.keys = {Kid}
    BY AdviceAssumption DEF Asked, CallOf, Request, Parse, Proper
  <1>. HIDE DEF token
  <1>3. HeaderOk(token)
    BY <1>1, AdviceAssumption DEF HeaderOk
  <1>4. ClaimsOk(token)
    <2>1. /\ Proper(Clock + Month) /\ Proper("durable") /\ Proper(FALSE) /\ Proper("sensitive")
          /\ Proper(Principal(Setting.identity)) /\ Proper(Any) /\ Proper(Message.name)
      <3>1. Clock + Month \in Int
        BY AdviceAssumption, DecidedAssumption DEF Month
      <3>. QED  BY <3>1, AdviceAssumption, CredentialAssumption DEF Proper, Kinds, Tiers
    <2>2. \A member \in Required : Proper(token[member])
      BY <1>1, <2>1 DEF Required
    <2>3. \A member \in {"nbf", "type", "id", "conditions", "callHash"} : token[member] # Bad
      BY <1>1, CredentialAssumption
    <2>. QED  BY <1>1, <2>2, <2>3 DEF ClaimsOk, Proper
  <1>5. ~(Clock >= Clock + Month)
    BY AdviceAssumption, DecidedAssumption DEF Month
  <1>6. AgentMatches(token.agent, Asked.agent) /\ Matches(token.tool, Asked.tool)
    BY <1>1, <1>2 DEF AgentMatches, Matches
  <1>7. ScopeMatches(token, Asked) /\ Bound(token, Asked) /\ token.conditions # "some"
    BY <1>1, CredentialAssumption DEF ScopeMatches, Bound
  <1>8. Checks(token, Asked)
    BY <1>1, <1>2, <1>3, <1>4, <1>5, <1>6, <1>7 DEF Checks
  <1>. QED  BY <1>8, HandedOnIfInOrder DEF token

\* The envelope lets no grant reach the tier.
AllCapped(tier) == envelope.ceiling # NoTier /\ Rank(envelope.ceiling) < Rank(tier)

\* With the suggested grant, a call that lacked one is allowed.
LEMMA SuggestedAllows ==
  ASSUME CallInv, Evaluate(policy, envelope, grants, Clock).reason = "no_grant_sensitive",
         ~AllCapped(TierOf(policy, envelope)), NEW run, ReachesMint(run)
  PROVE  DecisionAfter(Command, run).outcome = "allow"
  <1>. DEFINE Ids  == {grants[i].jti : i \in DOMAIN grants}
              new  == [jti |-> "asked", cap |-> "sensitive", nbf |-> 0, exp |-> Clock + Month]
              more == grants \o <<new>>
              last == Len(grants) + 1
  <1>1. /\ policy \in Policies /\ envelope \in Envelopes /\ Clock \in Nat
        /\ grants \in Seq(GrantsOf(Ids)) /\ Month \in Nat /\ Month > 0
    BY CallTyped, DecidedAssumption, AdviceAssumption DEF Month
  <1>. HIDE DEF Ids
  <1>2. LeftToGrants(policy, envelope) /\ TierOf(policy, envelope) = "sensitive"
    BY <1>1, NoGrantMeansNone
  <1>3. DecisionAfter(Command, run) = Evaluate(policy, envelope, more, Clock)
    <2>1. Suggested.tier = "sensitive" /\ Suggested.ttl = Month
      BY DEF Suggested
    <2>. QED  BY <2>1, CommandAccepted, SuggestedBears DEF DecisionAfter
  <1>4. last \in DOMAIN more /\ more[last] = new
    BY <1>1
  <1>5. InWindow(new, Clock)
    BY <1>1 DEF InWindow
  <1>6. Covers(CappedBy("sensitive", envelope.ceiling), "sensitive")
    <2>1. envelope.ceiling \in Tiers \cup {NoTier} /\ "sensitive" \in Tiers
      BY <1>1 DEF Envelopes, Tiers
    <2>2. \A t \in Tiers : Rank(t) \in 0..2
      BY RankTyped
    <2>. QED  BY <1>2, <2>1, <2>2, CappedCovers DEF AllCapped
  <1>7. last \in Allowing(more, "sensitive", envelope.ceiling, Clock)
    BY <1>4, <1>5, <1>6 DEF Allowing
  <1>. HIDE DEF more, last
  <1>. QED  BY <1>2, <1>3, <1>7, CoveredIsAllowed

\* A command that does not come to its mint leaves the decision as it was.
LEMMA TurnedAway ==
  ASSUME CallInv, NEW flags, NEW run, ~ReachesMint(run)
  PROVE  DecisionAfter(flags, run) = Evaluate(policy, envelope, grants, Clock)
  <1>1. grants \in Seq(GrantsOf({grants[i].jti : i \in DOMAIN grants}))
    BY CallTyped, DecidedAssumption
  <1>. DEFINE Some == GrantsOf({grants[i].jti : i \in DOMAIN grants})
  <1>. HIDE DEF Some
  <1>2. \A s \in Seq(Some) : s \o <<>> = s
    OBVIOUS
  <1>3. grants \o <<>> = grants
    BY <1>1, <1>2 DEF Some
  <1>. QED  BY <1>3 DEF DecisionAfter

\* A decision that could not be recorded is a denial that nothing undoes.
LEMMA UnauditedIs ==
  ASSUME NEW decided, DOMAIN decided = {"outcome", "tier", "reason", "requestable"}
  PROVE  /\ Unaudited(decided).outcome = "deny" /\ Unaudited(decided).reason = "audit_unavailable"
         /\ Unaudited(decided).requestable = FALSE
         /\ DOMAIN Unaudited(decided) = {"outcome", "tier", "reason", "requestable"}
  BY DEF Unaudited

\* The texts that tell of a failure are no reasons of the precedence's.
LEMMA ReasonsTell ==
  /\ Failures \cap Reasons = {}
  /\ \A reason : SafeReason(reason) = "unavailable" => reason \in Failures
  <1>1. Failures \cap Reasons = {}
    BY DEF Failures, Reasons
  <1>2. ASSUME NEW reason, reason \notin Failures PROVE SafeReason(reason) # "unavailable"
    BY <1>2 DEF SafeReason
  <1>. QED  BY <1>1, <1>2

\* An approval that ends in a denial says so, and never that something failed.
LEMMA UnapprovedIsFinal ==
  ASSUME NEW resolution \in Resolutions, resolution.outcome = "deny"
  PROVE  OrElse(resolution.reason, "approval_denied") \notin Failures
  BY DEF Resolutions, NoResolution, OrElse, Failures

\* What is told of a decision that the precedence made, or that could not be recorded.
LEMMA ToldTruly ==
  ASSUME NEW seen, NEW resolution \in Resolutions, NEW how,
         seen.outcome \in Outcomes, seen.reason \in Reasons \cup {"audit_unavailable"},
         seen.requestable \in BOOLEAN,
         DOMAIN seen = {"outcome", "tier", "reason", "requestable"},
         ~Passes(seen, resolution)
  PROVE  LET told == Told(seen, resolution, how)
         IN  /\ told.how # Absent =>
                   seen.requestable /\ seen.outcome = "deny" /\ told.possible /\ ~told.retryable
             /\ told.retryable => told.outcome = "pending_approval" \/ seen.reason = "audit_unavailable"
  <1>. DEFINE told == Told(seen, resolution, how)
  <1>1. seen.outcome \in {"deny", "pending_approval"}
    BY DEF Passes, Outcomes
  <1>2. CASE seen.outcome = "pending_approval" /\ resolution.outcome = "deny"
    <2>. DEFINE ended == Unapproved(seen, resolution)
    <2>1. /\ ended.outcome = "deny" /\ ended.requestable = FALSE
          /\ ended.reason = OrElse(resolution.reason, "approval_denied")
      BY DEF Unapproved
    <2>2. SafeReason(ended.reason) # "unavailable"
      BY <1>2, <2>1, UnapprovedIsFinal, ReasonsTell
    <2>3. told = Denial(ended, how)
      BY <1>2 DEF Told
    <2>. HIDE DEF ended, told
    <2>4. told.how = Absent /\ told.retryable = FALSE
      BY <2>1, <2>2, <2>3 DEF Denial
    <2>. QED  BY <2>4 DEF told
  <1>3. CASE ~(seen.outcome = "pending_approval" /\ resolution.outcome = "deny")
    <2>. DEFINE failed == seen.outcome = "deny" /\ SafeReason(seen.reason) = "unavailable"
    <2>1. told = Denial(seen, how)
      BY <1>1, <1>3 DEF Told
    <2>2. failed => seen.reason = "audit_unavailable"
      BY ReasonsTell
    <2>. HIDE DEF told
    <2>3. /\ told.outcome = seen.outcome
          /\ told.retryable = (failed \/ seen.outcome = "pending_approval")
          /\ told.possible = (~failed /\ seen.outcome # "deferred_not_eligible")
          /\ told.how = IF seen.outcome = "deny" /\ ~failed /\ seen.requestable THEN how ELSE Absent
      BY <2>1 DEF Denial
    <2>. QED  BY <1>1, <2>2, <2>3 DEF told
  <1>. QED  BY <1>2, <1>3

\* For any call, policy, envelope and listing: the suggested command, confirmed and run
\* while nobody holds the writer lock, turns the denial into an allow unless the envelope
\* caps all grants, and otherwise changes nothing; a retry is advised only where something
\* waits or failed, and nothing is passed on that may not run (evaluatePrecedence,
\* buildDenialEnvelope, parseGrantMintArgs, runGrantMint and verifyGrant).
THEOREM AdvisedCommandsHelp == AllSpec => []AdvisedCommandHelps
  <1>1. ASSUME CallInv PROVE AdvisedCommandHelps
    <2>. DEFINE tier    == TierOf(policy, envelope)
                decided == DecisionOf(decision, tier)
    <2>. SUFFICES ASSUME CallDecided, NEW resolution \in Resolutions,
                         NEW seen \in {decided, Unaudited(decided)}
                  PROVE  IF Passes(seen, resolution)
                         THEN Authorised(policy, envelope, grants, Clock) \/ resolution.outcome = "allow"
                         ELSE LET told == Told(seen, resolution, Command)
                              IN  /\ told.how # Absent =>
                                        /\ \A run \in Runs :
                                              /\ ReachesMint(run) /\ ~AllCapped(tier) =>
                                                    DecisionAfter(told.how, run).outcome = "allow"
                                              /\ ~ReachesMint(run) =>
                                                    DecisionAfter(told.how, run) = decision
                                        /\ told.possible /\ ~told.retryable
                                  /\ told.retryable =>
                                        told.outcome = "pending_approval" \/ seen.reason = "audit_unavailable"
      BY DEF AdvisedCommandHelps, Command, AllCapped
    <2>1. decision = Evaluate(policy, envelope, grants, Clock)
      BY <1>1 DEF CallInv
    <2>2. decision.outcome \in Outcomes /\ decision.reason \in Reasons
      BY <1>1, <2>1, CallTyped, EvaluateTyped DEF DecisionsOn
    <2>3. CASE Passes(seen, resolution)
      <3>1. CASE seen = decided
        BY <1>1, <2>1, <2>3, <3>1, CallTyped, AllowedIsAuthorised DEF Passes, DecisionOf
      <3>2. CASE seen = Unaudited(decided)
        BY <2>3, <3>2 DEF Passes, DecisionOf, Unaudited
      <3>. QED  BY <2>3, <3>1, <3>2
    <2>4. CASE ~Passes(seen, resolution)
      <3>1. /\ seen.outcome \in Outcomes /\ seen.reason \in Reasons \cup {"audit_unavailable"}
            /\ seen.requestable \in BOOLEAN
            /\ DOMAIN seen = {"outcome", "tier", "reason", "requestable"}
            /\ seen.requestable => decision.reason = "no_grant_sensitive"
        <4>. DEFINE asks == Requestable(decision)
        <4>1. asks \in BOOLEAN /\ (asks => decision.reason = "no_grant_sensitive")
          BY DEF Requestable
        <4>2. /\ decided.outcome = decision.outcome /\ decided.reason = decision.reason
              /\ decided.requestable = asks
              /\ DOMAIN decided = {"outcome", "tier", "reason", "requestable"}
          BY DEF DecisionOf
        <4>. HIDE DEF asks, tier, decided
        <4>3. CASE seen = decided
          BY <2>2, <4>1, <4>2, <4>3
        <4>4. CASE seen = Unaudited(decided)
          <5>1. /\ seen.outcome = "deny" /\ seen.reason = "audit_unavailable" /\ seen.requestable = FALSE
                /\ DOMAIN seen = {"outcome", "tier", "reason", "requestable"}
            BY <4>2, <4>4, UnauditedIs
          <5>. QED  BY <5>1 DEF Outcomes
        <4>. QED  BY <4>3, <4>4
      <3>. DEFINE told == Told(seen, resolution, Command)
      <3>2. /\ told.how # Absent => seen.requestable /\ told.possible /\ ~told.retryable
            /\ told.retryable => told.outcome = "pending_approval" \/ seen.reason = "audit_unavailable"
        BY <2>4, <3>1, ToldTruly
      <3>3. told.how \in {Command, Absent}
        BY DEF Told, Denial
      <3>. HIDE DEF told
      <3>4. ASSUME told.how # Absent, NEW run \in Runs
            PROVE  /\ ReachesMint(run) /\ ~AllCapped(tier) => DecisionAfter(told.how, run).outcome = "allow"
                   /\ ~ReachesMint(run) => DecisionAfter(told.how, run) = decision
        <4>1. CASE ReachesMint(run)
          BY <1>1, <2>1, <3>1, <3>2, <3>3, <3>4, <4>1, SuggestedAllows
        <4>2. CASE ~ReachesMint(run)
          BY <1>1, <2>1, <4>2, TurnedAway
        <4>. QED  BY <4>1, <4>2
      <3>. QED  BY <2>4, <3>2, <3>4 DEF told
    <2>. QED  BY <2>3, <2>4
  <1>2. CallInv => AdvisedCommandHelps
    BY <1>1
  <1>3. CallPart => AdvisedCommandHelps
    BY <1>2 DEF CallPart, AdvisedCommandHelps
  <1>. QED  BY <1>3, CallRuns, PTL

-----------------------------------------------------------------------------
(* The commands. *)

\* What command c may do to the decisions on a server that has no grant.
Respects(c, before, after) ==
    \A s \in Servers :
        /\ EntryBy(before, s, "user") => Decides(after, s) = Decides(before, s)
        /\ Decides(after, s).reason = "explicit_config_allow" => Decides(after, s) = Decides(before, s)
        /\ c = "init" /\ EntryBy(before, s, "pack") => Decides(after, s) = Decides(before, s)

\* A job as any step may leave it; there may be no pack at all.
SomeJobs ==
    [at : {"idle", "selecting", "loading", "working", "confirming"}, yes : BOOLEAN,
     doc : [Servers -> Starts], wrapping : SUBSET Servers, pack : Packs \cup {NoJob.pack},
     loaded : Files, proposal : Configs]

\* What a command is about to write respects what it has loaded.
ProposalRespects ==
    \A c \in Commands :
        job[c].at = "confirming" => Respects(c, job[c].loaded.config, job[c].proposal)

\* The inductive invariant of the commands.
SetupInv ==
    /\ client \in [Servers -> Starts]
    /\ file \in Files
    /\ job \in [Commands -> SomeJobs]
    /\ job["add"].at # "idle" => job["add"].pack \in Packs
    /\ ProposalRespects

\* What stands for no entry is none.
LEMMA EntryTyped ==
  ASSUME NEW e \in ToolEntries \cup {NoTool, NoServer}
  PROVE  IsEntry(e) <=> e \in ToolEntries
  BY PolicyFileAssumption DEF IsEntry

\* The policy of a configuration is one.
LEMMA PolicyForTyped ==
  ASSUME NEW config \in Configs, NEW s \in Servers
  PROVE  PolicyFor(config, s) \in Policies /\ config.envelope \in Envelopes
  <1>1. config.servers[s] \in ToolEntries \cup {NoTool, NoServer} /\ config.unknown \in {"sensitive", "critical"}
        /\ config.envelope \in Envelopes
    BY DEF Configs
  <1>2. CASE IsEntry(config.servers[s])
    <2>1. config.servers[s] \in ToolEntries
      BY <1>1, <1>2, EntryTyped
    <2>. QED  BY <1>1, <1>2, <2>1 DEF PolicyFor, Policies, Entries, ToolEntries
  <1>3. CASE ~IsEntry(config.servers[s])
    BY <1>1, <1>3 DEF PolicyFor, Policies
  <1>. QED  BY <1>1, <1>2, <1>3

\* Only a user's entry allows for good.
LEMMA StandingAllowIsTheUsers ==
  ASSUME NEW config \in Configs, NEW s \in Servers,
         Decides(config, s).reason = "explicit_config_allow"
  PROVE  EntryBy(config, s, "user")
  <1>. DEFINE ruling == PolicyFor(config, s)
              tier   == TierOf(ruling, config.envelope)
  <1>1. ruling \in Policies /\ tier \in Tiers
    BY PolicyForTyped, TierTyped
  <1>. HIDE DEF ruling
  <1>2. TierDefault(ruling, tier, <<>>, 0).reason = "explicit_config_allow"
    BY DEF Decides, EnvelopeFor, Evaluate, Answer, ruling
  <1>3. ByUser(ruling)
    BY <1>1, <1>2, DefaultWithoutGrants DEF Answer, ExplicitlyAllowed
  <1>. QED  BY <1>3 DEF ruling, ByUser, PolicyFor, EntryBy, NoEntry

\* A server whose policy stays the same is decided the same.
LEMMA SamePolicySameDecision ==
  ASSUME NEW before, NEW after, NEW s,
         after.envelope = before.envelope, PolicyFor(after, s) = PolicyFor(before, s)
  PROVE  Decides(after, s) = Decides(before, s)
  BY DEF Decides, EnvelopeFor

\* init writes no entry of a user's or a pack's anew; what it makes up is a suggestion.
LEMMA GeneratedRespects ==
  ASSUME NEW config \in Configs, NEW S \in SUBSET Servers, NEW captured \in [S -> CaptureOutcomes]
  PROVE  /\ Generated(config, captured) \in Configs
         /\ Respects("init", config, Generated(config, captured))
  <1>. DEFINE after == Generated(config, captured)
              Kept(s) == PolicyFor(after, s) = PolicyFor(config, s)
              New(s) == after.servers[s] = Suggestion(captured[s], config.unknown)
  <1>0. /\ config.servers \in [Servers -> ToolEntries \cup {NoTool, NoServer}]
        /\ config.unknown \in {"sensitive", "critical"}
        /\ DOMAIN captured = S
    BY DEF Configs
  <1>1. /\ after.envelope = config.envelope /\ after.unknown = config.unknown
        /\ after = [servers |-> after.servers, unknown |-> config.unknown, envelope |-> config.envelope]
        /\ after.servers = [s \in Servers |->
              IF s \notin S THEN config.servers[s]
              ELSE IF captured[s] = "failed" THEN Skeleton(config.servers[s])
              ELSE Seeded(config.servers[s], captured[s], config.unknown)]
    BY <1>0 DEF Generated, Configs
  <1>. HIDE DEF after
  <1>2. ASSUME NEW s \in Servers
        PROVE  /\ after.servers[s] \in ToolEntries \cup {NoTool, NoServer}
               /\ \/ Kept(s)
                  \/ /\ New(s)
                     /\ after.servers[s].source = "annotation" /\ IsEntry(after.servers[s])
                     /\ IsEntry(config.servers[s]) => config.servers[s].source = "annotation"
    <2>. DEFINE e == config.servers[s]
                f == after.servers[s]
    <2>1. e \in ToolEntries \cup {NoTool, NoServer}
      BY <1>0
    <2>2. CASE f = e
      BY <1>1, <2>1, <2>2 DEF PolicyFor
    <2>3. CASE f = Skeleton(e)
      BY <1>1, <2>1, <2>3 DEF PolicyFor, Skeleton, IsEntry
    <2>4. CASE f = Unmapped(e)
      <3>1. CASE IsEntry(e)
        <4>1. e \in ToolEntries
          BY <2>1, <3>1, EntryTyped
        <4>2. /\ f \in ToolEntries
              /\ f.tier = e.tier /\ f.source = e.source /\ f.allow = e.allow /\ f.deny = e.deny
          BY <2>4, <3>1, <4>1 DEF Unmapped, ToolEntries
        <4>3. IsEntry(f)
          BY <4>2, EntryTyped
        <4>. QED  BY <1>1, <3>1, <4>2, <4>3 DEF PolicyFor
      <3>2. CASE ~IsEntry(e)
        BY <1>1, <2>4, <3>2 DEF PolicyFor, Unmapped, IsEntry
      <3>. QED  BY <3>1, <3>2
    <2>5. CASE f = Suggestion(captured[s], config.unknown) /\ (IsEntry(e) => e.source = "annotation")
      <3>1. f \in ToolEntries /\ f.source = "annotation"
        BY <1>0, <2>5 DEF Suggestion, SeedTier, ToolEntries, Tiers
      <3>. QED  BY <2>5, <3>1, EntryTyped
    <2>. QED  BY <1>1, <2>2, <2>3, <2>4, <2>5 DEF Seeded
  <1>3. after \in Configs
    <2>1. after.servers \in [Servers -> ToolEntries \cup {NoTool, NoServer}]
      BY <1>1, <1>2
    <2>. QED  BY <1>1, <2>1 DEF Configs
  <1>4. ASSUME NEW s \in Servers
        PROVE  /\ EntryBy(config, s, "user") \/ EntryBy(config, s, "pack") => Kept(s)
               /\ Decides(after, s).reason = "explicit_config_allow" => Kept(s)
    <2>1. Decides(after, s).reason = "explicit_config_allow" => EntryBy(after, s, "user")
      BY <1>3, StandingAllowIsTheUsers
    <2>. QED  BY <1>2, <2>1 DEF EntryBy
  <1>5. \A s \in Servers : Kept(s) => Decides(after, s) = Decides(config, s)
    BY <1>1, SamePolicySameDecision
  <1>. HIDE DEF Kept, New
  <1>6. Respects("init", config, after)
    BY <1>4, <1>5 DEF Respects
  <1>. QED  BY <1>3, <1>6 DEF after

\* A pack replaces no entry of the user's, and allows nothing for good.
LEMMA AppliedRespects ==
  ASSUME NEW config \in Configs, NEW pack \in Packs
  PROVE  /\ Applied(config, pack) \in Configs
         /\ Respects("add", config, Applied(config, pack))
  <1>. DEFINE after == Applied(config, pack)
              Kept(s) == PolicyFor(after, s) = PolicyFor(config, s)
  <1>0. /\ config.servers \in [Servers -> ToolEntries \cup {NoTool, NoServer}]
        /\ pack.server \in Servers /\ pack.tier \in Tiers /\ pack.mapping \in Mappings \cup {NoMapping}
    BY DEF Configs, Packs
  <1>1. /\ after.envelope = config.envelope /\ after.unknown = config.unknown
        /\ after = [servers |-> after.servers, unknown |-> config.unknown, envelope |-> config.envelope]
        /\ after.servers = [config.servers EXCEPT ![pack.server] = Packed(config.servers[pack.server], pack)]
    BY <1>0 DEF Applied, Configs
  <1>. HIDE DEF after
  <1>2. ASSUME NEW s \in Servers
        PROVE  /\ after.servers[s] \in ToolEntries \cup {NoTool, NoServer}
               /\ \/ Kept(s)
                  \/ /\ IsEntry(after.servers[s]) /\ after.servers[s].source = "pack"
                     /\ ~EntryBy(config, s, "user")
    <2>1. CASE after.servers[s] = config.servers[s]
      BY <1>0, <1>1, <2>1 DEF PolicyFor
    <2>2. CASE after.servers[s] = PackEntry(pack) /\ ~EntryBy(config, s, "user")
      <3>1. after.servers[s] \in ToolEntries /\ after.servers[s].source = "pack"
        BY <1>0, <2>2 DEF PackEntry, ToolEntries
      <3>. QED  BY <2>2, <3>1, EntryTyped
    <2>. QED  BY <1>0, <1>1, <2>1, <2>2 DEF Packed, EntryBy
  <1>3. after \in Configs
    <2>1. after.servers \in [Servers -> ToolEntries \cup {NoTool, NoServer}]
      BY <1>0, <1>1, <1>2
    <2>. QED  BY <1>1, <2>1 DEF Configs
  <1>4. ASSUME NEW s \in Servers
        PROVE  /\ EntryBy(config, s, "user") => Kept(s)
               /\ Decides(after, s).reason = "explicit_config_allow" => Kept(s)
    <2>1. Decides(after, s).reason = "explicit_config_allow" => EntryBy(after, s, "user")
      BY <1>3, StandingAllowIsTheUsers
    <2>. QED  BY <1>2, <2>1 DEF EntryBy
  <1>5. \A s \in Servers : Kept(s) => Decides(after, s) = Decides(config, s)
    BY <1>1, SamePolicySameDecision
  <1>. HIDE DEF Kept
  <1>6. Respects("add", config, after)
    BY <1>4, <1>5 DEF Respects
  <1>. QED  BY <1>3, <1>6 DEF after

\* What a file may say is typed.
LEMMA ConfigsHold ==
  /\ DefaultConfig \in Configs
  /\ NoFile \in Files /\ Broken \in Files
  /\ \A config \in Configs : Data(config) \in Files
  <1>1. DefaultConfig \in Configs
    BY DEF DefaultConfig, Configs, OpenEnvelope, Envelopes
  <1>. QED  BY <1>1 DEF NoFile, Broken, Data, Files

\* An idle command has a job of its own kind.
LEMMA NoJobTyped ==
  /\ NoJob \in SomeJobs
  /\ NoJob.at = "idle"
  BY ConfigsHold DEF NoJob, SomeJobs, Starts

\* At first no command runs.
LEMMA SetupInit == Init => SetupInv
  <1>. SUFFICES ASSUME Init PROVE SetupInv
    OBVIOUS
  <1>1. client \in [Servers -> Starts] /\ job \in [Commands -> SomeJobs]
    BY NoJobTyped DEF Init, Starts
  <1>2. file \in Files
    BY ConfigsHold, SetupAssumption DEF Init, Files
  <1>3. \A c \in Commands : job[c].at = "idle"
    BY NoJobTyped DEF Init
  <1>. QED  BY <1>1, <1>2, <1>3 DEF SetupInv, ProposalRespects, Commands

\* A step of one command's job that keeps the invariant: the job stays typed, has a
\* pack of its own if it is add's, and what it proposes respects what it has loaded.
LEMMA JobKeeps ==
  ASSUME SetupInv, NEW c \in Commands, NEW state \in SomeJobs, Job(c, state),
         client' \in [Servers -> Starts], file' \in Files,
         c = "add" /\ state.at # "idle" => state.pack \in Packs,
         state.at = "confirming" => Respects(c, state.loaded.config, state.proposal)
  PROVE  SetupInv'
  <1>1. /\ job' \in [Commands -> SomeJobs]
        /\ job'[c] = state
        /\ \A d \in Commands \ {c} : job'[d] = job[d]
    BY DEF SetupInv, Job
  <1>2. job'["add"].at # "idle" => job'["add"].pack \in Packs
    BY <1>1 DEF SetupInv, Commands
  <1>3. ProposalRespects'
    <2>. SUFFICES ASSUME NEW d \in Commands, job'[d].at = "confirming"
                  PROVE  Respects(d, job'[d].loaded.config, job'[d].proposal)
      BY DEF ProposalRespects, Respects
    <2>1. CASE d = c
      BY <1>1, <2>1
    <2>2. CASE d # c
      BY <1>1, <2>2 DEF SetupInv, ProposalRespects
    <2>. QED  BY <2>1, <2>2
  <1>. QED  BY <1>1, <1>2, <1>3 DEF SetupInv

\* A command may end at any time.
LEMMA EndsKeeps ==
  ASSUME SetupInv, NEW c \in Commands, Ends(c), client' \in [Servers -> Starts], file' \in Files
  PROVE  SetupInv'
  BY NoJobTyped, JobKeeps DEF Ends

\* What a proposal, written at once or put to the user, keeps; and what it writes.
LEMMA ProposeKeeps ==
  ASSUME SetupInv, NEW c \in Commands, NEW config \in Configs, NEW asks,
         job[c].at = "working",
         Respects(c, job[c].loaded.config, config),
         Propose(c, config, asks), UNCHANGED client
  PROVE  /\ SetupInv'
         /\ file' = file \/ (file' = Data(config) /\ \A d \in Commands \ {c} : job'[d] = job[d])
  <1>1. job[c] \in SomeJobs /\ client \in [Servers -> Starts] /\ file \in Files
    BY DEF SetupInv
  <1>2. CASE asks
    <2>. DEFINE state == [job[c] EXCEPT !.at = "confirming", !.proposal = config]
    <2>1. Job(c, state) /\ UNCHANGED file
      BY <1>2 DEF Propose
    <2>2. /\ state \in SomeJobs
          /\ state.at = "confirming" /\ state.loaded = job[c].loaded /\ state.proposal = config
          /\ state.pack = job[c].pack
      BY <1>1 DEF SomeJobs
    <2>3. c = "add" => state.pack \in Packs
      BY <2>2 DEF SetupInv
    <2>. HIDE DEF state
    <2>. QED  BY <1>1, <2>1, <2>2, <2>3, JobKeeps
  <1>3. CASE ~asks
    <2>1. file' = Data(config) /\ Ends(c)
      BY <1>3 DEF Propose, Write
    <2>2. SetupInv'
      BY <1>1, <2>1, ConfigsHold, EndsKeeps
    <2>3. \A d \in Commands \ {c} : job'[d] = job[d]
      BY <2>1 DEF SetupInv, Ends, Job
    <2>. QED  BY <2>1, <2>2, <2>3
  <1>. QED  BY <1>2, <1>3

\* What a step may write: command c, and what respects what c has loaded.
Writes ==
    \/ UNCHANGED file
    \/ UNCHANGED job
    \/ \E c \in Commands :
          /\ Respects(c, job[c].loaded.config, file'.config)
          /\ \A d \in Commands \ {c} : job'[d] = job[d]

\* One step for each action of the commands, of the user and of the servers.
LEMMA SetupNext == SetupInv /\ [Next]_vars => SetupInv' /\ Writes
  <1>. SUFFICES ASSUME SetupInv, [Next]_vars PROVE SetupInv' /\ Writes
    OBVIOUS
  <1>0. /\ client \in [Servers -> Starts] /\ file \in Files
        /\ job \in [Commands -> SomeJobs]
        /\ job["add"].at # "idle" => job["add"].pack \in Packs
        /\ ProposalRespects
    BY DEF SetupInv
  <1>a. "init" \in Commands /\ "add" \in Commands
    BY DEF Commands
  <1>1. CASE InitReads
    <2>1. PICK yes \in BOOLEAN :
            Job("init", [NoJob EXCEPT !.at = "selecting", !.yes = yes, !.doc = client])
      BY <1>1 DEF InitReads
    <2>. DEFINE state == [NoJob EXCEPT !.at = "selecting", !.yes = yes, !.doc = client]
    <2>2. state \in SomeJobs /\ state.at = "selecting"
      BY <1>0, NoJobTyped DEF SomeJobs
    <2>3. UNCHANGED <<client, file>>
      BY <1>1 DEF InitReads, world
    <2>4. Job("init", state)
      BY <2>1
    <2>. HIDE DEF state
    <2>. QED  BY <1>0, <1>a, <2>2, <2>3, <2>4, JobKeeps DEF Writes
  <1>2. CASE InitWraps
    <2>1. PICK S \in Plans(job["init"].doc, job["init"].yes) :
            IF S = {} THEN Ends("init") /\ UNCHANGED client
            ELSE /\ client' = Wrap(job["init"].doc, S)
                 /\ Job("init", [job["init"] EXCEPT !.at = "loading", !.wrapping = S])
      BY <1>2 DEF InitWraps
    <2>2. S \subseteq Servers /\ job["init"].doc \in [Servers -> Starts] /\ UNCHANGED file
      BY <1>0, <1>2, <2>1, <1>a DEF InitWraps, Plans, Wrappable, SomeJobs
    <2>3. CASE S = {}
      BY <1>0, <1>a, <2>1, <2>2, <2>3, EndsKeeps DEF Writes
    <2>4. CASE S # {}
      <3>. DEFINE state == [job["init"] EXCEPT !.at = "loading", !.wrapping = S]
      <3>1. state \in SomeJobs /\ state.at = "loading"
        BY <1>0, <1>a, <2>2 DEF SomeJobs
      <3>2. client' \in [Servers -> Starts]
        BY <2>1, <2>2, <2>4 DEF Wrap, Starts
      <3>3. Job("init", state)
        BY <2>1, <2>4
      <3>. HIDE DEF state
      <3>. QED  BY <1>0, <1>a, <2>2, <3>1, <3>2, <3>3, JobKeeps DEF Writes
    <2>. QED  BY <2>3, <2>4
  <1>3. CASE InitGenerates
    <2>1. PICK captured \in Captures(job["init"].wrapping) :
            LET config == Generated(job["init"].loaded.config, captured)
                exists == job["init"].loaded.form # "none"
            IN  \/ Ends("init") /\ UNCHANGED file
                \/ Propose("init", config, exists /\ ~job["init"].yes)
      BY <1>3 DEF InitGenerates
    <2>. DEFINE config == Generated(job["init"].loaded.config, captured)
                asks   == job["init"].loaded.form # "none" /\ ~job["init"].yes
    <2>2. UNCHANGED client /\ job["init"].at = "working"
      BY <1>3 DEF InitGenerates
    <2>3. job["init"].loaded.config \in Configs /\ job["init"].wrapping \in SUBSET Servers
      BY <1>0, <1>a DEF SomeJobs, Files
    <2>4. captured \in [job["init"].wrapping -> CaptureOutcomes]
      BY <2>1 DEF Captures
    <2>5. config \in Configs /\ Respects("init", job["init"].loaded.config, config)
      BY <2>3, <2>4, GeneratedRespects
    <2>6. (Ends("init") /\ UNCHANGED file) \/ Propose("init", config, asks)
      BY <2>1
    <2>. HIDE DEF config, asks
    <2>7. CASE Ends("init") /\ UNCHANGED file
      BY <1>0, <1>a, <2>2, <2>7, EndsKeeps DEF Writes
    <2>8. CASE Propose("init", config, asks)
      <3>1. /\ SetupInv'
            /\ \/ file' = file
               \/ file' = Data(config) /\ \A d \in Commands \ {"init"} : job'[d] = job[d]
        BY <1>a, <2>2, <2>5, <2>8, ProposeKeeps
      <3>. QED  BY <1>a, <2>5, <3>1 DEF Writes, Data
    <2>. QED  BY <2>6, <2>7, <2>8
  <1>4. CASE AddReads
    <2>1. PICK yes \in BOOLEAN, pack \in OfferedPacks :
            Job("add", [NoJob EXCEPT !.at = "loading", !.yes = yes, !.pack = pack])
      BY <1>4 DEF AddReads
    <2>. DEFINE state == [NoJob EXCEPT !.at = "loading", !.yes = yes, !.pack = pack]
    <2>2. state \in SomeJobs /\ state.at = "loading" /\ state.pack \in Packs
      BY <1>0, NoJobTyped, SetupAssumption DEF SomeJobs
    <2>3. UNCHANGED <<client, file>>
      BY <1>4 DEF AddReads, world
    <2>4. Job("add", state)
      BY <2>1
    <2>. HIDE DEF state
    <2>. QED  BY <1>0, <1>a, <2>2, <2>3, <2>4, JobKeeps DEF Writes
  <1>5. CASE AddMerges
    <2>. DEFINE loaded == job["add"].loaded.config
                config == Applied(loaded, job["add"].pack)
    <2>1. UNCHANGED client /\ job["add"].at = "working"
      BY <1>5 DEF AddMerges
    <2>2. loaded \in Configs /\ job["add"].pack \in Packs
      BY <1>0, <1>a, <2>1 DEF SomeJobs, Files
    <2>3. config \in Configs /\ Respects("add", loaded, config)
      BY <2>2, AppliedRespects
    <2>4. (Ends("add") /\ UNCHANGED file) \/ Propose("add", config, ~job["add"].yes)
      BY <1>5 DEF AddMerges
    <2>. HIDE DEF config
    <2>5. CASE Ends("add") /\ UNCHANGED file
      BY <1>0, <1>a, <2>1, <2>5, EndsKeeps DEF Writes
    <2>6. CASE Propose("add", config, ~job["add"].yes)
      <3>1. /\ SetupInv'
            /\ \/ file' = file
               \/ file' = Data(config) /\ \A d \in Commands \ {"add"} : job'[d] = job[d]
        BY <1>a, <2>1, <2>3, <2>6, ProposeKeeps
      <3>. QED  BY <1>a, <2>3, <3>1 DEF Writes, Data
    <2>. QED  BY <2>4, <2>5, <2>6
  <1>6. ASSUME NEW c \in Commands, Load(c) PROVE SetupInv' /\ Writes
    <2>1. UNCHANGED <<client, file>> /\ job[c].at = "loading"
      BY <1>6 DEF Load, world
    <2>2. CASE Ends(c)
      BY <1>0, <2>1, <2>2, EndsKeeps DEF Writes
    <2>3. CASE Job(c, [job[c] EXCEPT !.at = "working", !.loaded = file])
      <3>. DEFINE state == [job[c] EXCEPT !.at = "working", !.loaded = file]
      <3>1. state \in SomeJobs /\ state.at = "working" /\ state.pack = job[c].pack
        BY <1>0 DEF SomeJobs
      <3>2. c = "add" => state.pack \in Packs
        BY <1>0, <2>1, <3>1
      <3>3. Job(c, state)
        BY <2>3
      <3>. HIDE DEF state
      <3>. QED  BY <1>0, <2>1, <3>1, <3>2, <3>3, JobKeeps DEF Writes
    <2>. QED  BY <1>6, <2>2, <2>3 DEF Load
  <1>7. ASSUME NEW c \in Commands, Confirm(c) PROVE SetupInv' /\ Writes
    <2>1. /\ job[c].at = "confirming" /\ file' = Data(job[c].proposal)
          /\ Ends(c) /\ UNCHANGED client
      BY <1>7 DEF Confirm, Write
    <2>2. job[c].proposal \in Configs
      BY <1>0 DEF SomeJobs
    <2>3. SetupInv'
      BY <1>0, <2>1, <2>2, ConfigsHold, EndsKeeps
    <2>4. Respects(c, job[c].loaded.config, file'.config)
      BY <1>0, <2>1 DEF ProposalRespects, Data
    <2>5. \A d \in Commands \ {c} : job'[d] = job[d]
      BY <1>0, <2>1 DEF Ends, Job
    <2>. QED  BY <2>3, <2>4, <2>5 DEF Writes
  <1>8. ASSUME NEW c \in Commands, Abandon(c) PROVE SetupInv' /\ Writes
    BY <1>0, <1>8, EndsKeeps DEF Abandon, world, Writes
  <1>9. CASE UserEdits
    <2>1. UNCHANGED <<client, job>>
      BY <1>9 DEF UserEdits
    <2>2. file' \in Files
      <3>1. CASE file' = Broken
        BY <3>1, ConfigsHold
      <3>2. ASSUME NEW s \in Servers, NEW e \in UserEntries,
                   file' = Data([file.config EXCEPT !.servers[s] = e])
            PROVE  file' \in Files
        <4>1. file.config \in Configs /\ e \in ToolEntries
          BY <1>0, SetupAssumption DEF Files
        <4>2. [file.config EXCEPT !.servers[s] = e] \in Configs
          BY <4>1 DEF Configs
        <4>. QED  BY <3>2, <4>2, ConfigsHold
      <3>. QED  BY <1>9, <3>1, <3>2 DEF UserEdits
    <2>. QED  BY <1>0, <2>1, <2>2 DEF SetupInv, ProposalRespects, Writes
  <1>10. ASSUME NEW s \in Servers, UserStarts(s) \/ ServerChanges(s) PROVE SetupInv' /\ Writes
    <2>1. UNCHANGED <<file, job>> /\ client' \in [Servers -> Starts]
      BY <1>0, <1>10 DEF UserStarts, ServerChanges, Starts
    <2>. QED  BY <1>0, <2>1 DEF SetupInv, ProposalRespects, Writes
  <1>11. CASE UNCHANGED vars
    BY <1>0, <1>11 DEF vars, SetupInv, ProposalRespects, Writes
  <1>. QED  BY <1>1, <1>2, <1>3, <1>4, <1>5, <1>6, <1>7, <1>8, <1>9, <1>10, <1>11 DEF Next

\* For any servers, packs and edits: no command decides for the user (runInit,
\* runAddPack, mergeSeededTiers and mergePackIntoTools read together).
THEOREM UsersAuthorityStands == AllSpec => AuthorityStands
  <1>1. SetupInv /\ [Next]_vars =>
          [\A c \in Commands, s \in Servers :
              Rewrites(c) =>
                  LET before == Decides(file.config, s)
                      after  == Decides(file'.config, s)
                  IN  /\ EntryBy(file.config, s, "user") => after = before
                      /\ after.reason = "explicit_config_allow" => after = before
                      /\ c = "init" /\ EntryBy(file.config, s, "pack") => after = before]_vars
    <2>. SUFFICES ASSUME SetupInv, [Next]_vars,
                         NEW c \in Commands, NEW s \in Servers, Rewrites(c)
                  PROVE  LET before == Decides(file.config, s)
                             after  == Decides(file'.config, s)
                         IN  /\ EntryBy(file.config, s, "user") => after = before
                             /\ after.reason = "explicit_config_allow" => after = before
                             /\ c = "init" /\ EntryBy(file.config, s, "pack") => after = before
      OBVIOUS
    <2>1. Writes
      BY SetupNext
    <2>2. Respects(c, file.config, file'.config)
      BY <2>1 DEF Writes, Rewrites
    <2>. QED  BY <2>2 DEF Respects
  <1>. QED  BY PartsRun, SetupInit, SetupNext, <1>1, PTL DEF Spec, AuthorityStands

-----------------------------------------------------------------------------
(* The detector: a sequence of what is at some places of another. *)

\* In a finite set whose members have down sets in a row, the number of what is
\* down from a member is its place.
LEMMA PlacesAre ==
  ASSUME NEW S, IsFiniteSet(S), NEW down \in [S -> SUBSET S],
         \A x \in S : x \in down[x],
         \A x, y \in S : \/ x = y
                         \/ down[x] \subseteq down[y] /\ y \notin down[x]
                         \/ down[y] \subseteq down[x] /\ x \notin down[y]
  PROVE  /\ Cardinality(S) \in Nat
         /\ \A x \in S : Cardinality(down[x]) \in 1 .. Cardinality(S)
         /\ \A x, y \in S : x # y /\ x \in down[y] => Cardinality(down[x]) < Cardinality(down[y])
         /\ \A k \in 1 .. Cardinality(S) : \E x \in S : Cardinality(down[x]) = k
  <1>. DEFINE n == Cardinality(S)
              place == [x \in S |-> Cardinality(down[x])]
  <1>1. n \in Nat
    BY FS_CardinalityType
  <1>2. \A x \in S : IsFiniteSet(down[x]) /\ Cardinality(down[x]) \in 1 .. n
    <2>1. TAKE x \in S
    <2>2. IsFiniteSet(down[x]) /\ Cardinality(down[x]) <= n
      BY FS_Subset
    <2>3. Cardinality(down[x]) \in Nat
      BY <2>2, FS_CardinalityType
    <2>4. Cardinality(down[x]) # 0
      BY <2>2, FS_EmptySet
    <2>. QED  BY <1>1, <2>2, <2>3, <2>4
  <1>3. ASSUME NEW x \in S, NEW y \in S, x # y, x \in down[y]
        PROVE  Cardinality(down[x]) < Cardinality(down[y])
    <2>1. down[x] \subseteq down[y] /\ down[x] # down[y]
      BY <1>3
    <2>2. Cardinality(down[x]) <= Cardinality(down[y]) /\ Cardinality(down[x]) # Cardinality(down[y])
      BY <1>2, <2>1, FS_Subset
    <2>. QED  BY <1>1, <1>2, <2>2
  <1>4. place \in Injection(S, 1 .. n)
    <2>1. place \in [S -> 1 .. n]
      BY <1>2
    <2>2. ASSUME NEW x \in S, NEW y \in S, x # y PROVE place[x] # place[y]
      <3>1. x \in down[y] \/ y \in down[x]
        BY <2>2
      <3>2. Cardinality(down[x]) \in Nat /\ Cardinality(down[y]) \in Nat
        BY <1>1, <1>2
      <3>. QED  BY <1>3, <2>2, <3>1, <3>2
    <2>3. \A x, y \in S : place[x] = place[y] => x = y
      BY <2>2
    <2>. HIDE DEF place
    <2>. QED  BY <2>1, <2>3 DEF Injection, IsInjective
  <1>5. place \in Surjection(S, 1 .. n)
    <2>1. IsFiniteSet(1 .. n) /\ Cardinality(1 .. n) = n
      BY <1>1, FS_Interval
    <2>. HIDE DEF place
    <2>. QED  BY <1>4, <2>1, FS_Injection
  <1>6. \A k \in 1 .. n : \E x \in S : place[x] = k
    <2>. HIDE DEF place
    <2>. QED  BY <1>5 DEF Surjection
  <1>. QED  BY <1>1, <1>2, <1>3, <1>6

\* A function on 1 .. n is a sequence.
LEMMA SeqOfTyped ==
  ASSUME NEW R, NEW n \in Nat, NEW s \in [1 .. n -> R]
  PROVE  s \in Seq(R) /\ Len(s) = n
  OBVIOUS

\* One notion of size.
LEMMA SameSize == \A S : Detector!Cardinality(S) = Cardinality(S)
  BY DEF Detector!Cardinality, Cardinality, Detector!IsFiniteSet, IsFiniteSet

\* Where the members of Kept(s, at) come from: in order, and each place once.
Picks(from, s, at) ==
    /\ from \in [1 .. Cardinality(at) -> at]
    /\ \A k \in 1 .. Cardinality(at) : Detector!Kept(s, at)[k] = s[from[k]]
    /\ \A k, l \in 1 .. Cardinality(at) : k < l => from[k] < from[l]
    /\ \A i \in at : \E k \in 1 .. Cardinality(at) : from[k] = i

\* Kept keeps members of the sequence.
LEMMA KeptIs ==
  ASSUME NEW R, NEW s \in Seq(R), NEW at \in SUBSET DOMAIN s
  PROVE  /\ Cardinality(at) \in Nat /\ Cardinality(at) <= Len(s)
         /\ Detector!Kept(s, at) \in Seq(R) /\ Len(Detector!Kept(s, at)) = Cardinality(at)
         /\ \E from : Picks(from, s, at)
  <1>. DEFINE n == Cardinality(at)
              down == [i \in at |-> {j \in at : j <= i}]
              from == [k \in 1 .. n |-> CHOOSE i \in at : Detector!Cardinality({j \in at : j <= i}) = k]
  <1>1. at \subseteq 1 .. Len(s) /\ Len(s) \in Nat
    OBVIOUS
  <1>2. \A m \in Nat : IsFiniteSet(1 .. m) /\ Cardinality(1 .. m) = m
    BY FS_Interval
  <1>3. IsFiniteSet(at) /\ n <= Len(s)
    <2>. HIDE DEF n
    <2>1. IsFiniteSet(1 .. Len(s)) /\ Cardinality(1 .. Len(s)) = Len(s)
      BY <1>1, <1>2
    <2>. QED  BY <1>1, <2>1, FS_Subset DEF n
  <1>4. /\ down \in [at -> SUBSET at]
        /\ \A x \in at : x \in down[x]
        /\ \A x, y \in at : \/ x = y
                            \/ down[x] \subseteq down[y] /\ y \notin down[x]
                            \/ down[y] \subseteq down[x] /\ x \notin down[y]
    BY <1>1
  <1>5. /\ n \in Nat
        /\ \A x \in at : Cardinality(down[x]) \in 1 .. n
        /\ \A x, y \in at : x # y /\ x \in down[y] => Cardinality(down[x]) < Cardinality(down[y])
        /\ \A k \in 1 .. n : \E x \in at : Cardinality(down[x]) = k
    <2>. HIDE DEF down, n
    <2>. QED  BY <1>3, <1>4, PlacesAre DEF n
  <1>6. \A i \in at : down[i] = {j \in at : j <= i}
    OBVIOUS
  <1>7. \A k \in 1 .. n : from[k] \in at /\ Cardinality(down[from[k]]) = k
    <2>1. \A i \in at : Detector!Cardinality({j \in at : j <= i}) = Cardinality(down[i])
      BY <1>6, SameSize
    <2>. HIDE DEF down, n
    <2>. QED  BY <1>5, <2>1
  <1>8. Detector!Kept(s, at) = [k \in 1 .. n |-> s[from[k]]]
    <2>1. Detector!Kept(s, at) = [k \in 1 .. Detector!Cardinality(at) |-> s[from[k]]]
      BY SameSize DEF Detector!Kept
    <2>. QED  BY <2>1, SameSize
  <1>9. ASSUME NEW k \in 1 .. n, NEW l \in 1 .. n, k < l PROVE from[k] < from[l]
    <2>. HIDE DEF from, n
    <2>. HIDE DEF down
    <2>1. from[k] \in at /\ from[l] \in at /\ from[k] # from[l]
      BY <1>5, <1>7, <1>9
    <2>2. CASE from[l] < from[k]
      <3>1. from[l] \in down[from[k]]
        BY <1>1, <1>6, <2>1, <2>2
      <3>2. Cardinality(down[from[l]]) < Cardinality(down[from[k]])
        BY <1>5, <2>1, <3>1
      <3>3. l < k
        BY <1>7, <3>2
      <3>. QED  BY <1>5, <1>9, <3>3
    <2>. QED  BY <1>1, <2>1, <2>2
  <1>10. ASSUME NEW i \in at PROVE \E k \in 1 .. n : from[k] = i
    <2>. HIDE DEF from
    <2>1. PICK k \in 1 .. n : Cardinality(down[i]) = k
      <3>. HIDE DEF down, n
      <3>. QED  BY <1>5
    <2>2. from[k] \in at /\ Cardinality(down[from[k]]) = k
      BY <1>7
    <2>3. CASE from[k] # i
      <3>1. from[k] \in down[i] \/ i \in down[from[k]]
        BY <1>1, <2>2
      <3>. HIDE DEF down, n
      <3>2. Cardinality(down[i]) < Cardinality(down[from[k]])
             \/ Cardinality(down[from[k]]) < Cardinality(down[i])
        BY <1>5, <2>2, <2>3, <3>1
      <3>. QED  BY <1>5, <2>1, <2>2, <3>2
    <2>. QED  BY <2>3
  <1>11. Detector!Kept(s, at) \in [1 .. n -> R]
    <2>. HIDE DEF from, n, down
    <2>1. \A i \in at : s[i] \in R
      BY <1>1
    <2>2. \A k \in 1 .. n : s[from[k]] \in R
      BY <1>7, <2>1
    <2>. QED  BY <1>8, <2>2
  <1>12. Detector!Kept(s, at) \in Seq(R) /\ Len(Detector!Kept(s, at)) = n
    BY <1>5, <1>11, SeqOfTyped
  <1>13. from \in [1 .. n -> at]
    BY <1>7
  <1>14. Picks(from, s, at)
    <2>. HIDE DEF from
    <2>. QED  BY <1>8, <1>9, <1>10, <1>13 DEF Picks
  <1>. HIDE DEF from
  <1>. QED  BY <1>3, <1>5, <1>12, <1>14

\* Two sets matched one to one are of one size.
LEMMA Matched ==
  ASSUME NEW S, NEW T, IsFiniteSet(S), NEW f \in [S -> T],
         \A x, y \in S : f[x] = f[y] => x = y, \A z \in T : \E x \in S : f[x] = z
  PROVE  Cardinality(T) = Cardinality(S)
  <1>1. f \in Bijection(S, T)
    BY DEF Bijection, Injection, IsInjective, Surjection
  <1>. QED  BY <1>1, FS_Bijection DEF ExistsBijection

-----------------------------------------------------------------------------
(* Counts of stamps. *)

\* How many of these stamps are later than t.
Newer(s, t) == Cardinality({i \in DOMAIN s : s[i] > t})

\* What is counted is some of the stamps.
LEMMA NewerBounded ==
  ASSUME NEW s \in Seq(Nat), NEW t \in Int
  PROVE  /\ IsFiniteSet({i \in DOMAIN s : s[i] > t})
         /\ Newer(s, t) \in 0 .. Len(s)
  <1>. DEFINE at == {i \in DOMAIN s : s[i] > t}
              m == Len(s)
  <1>1. m \in Nat /\ at \in SUBSET (1 .. m)
    OBVIOUS
  <1>. HIDE DEF at, m
  <1>2. IsFiniteSet(1 .. m) /\ Cardinality(1 .. m) = m
    BY <1>1, FS_Interval
  <1>3. IsFiniteSet(at) /\ Cardinality(at) <= m
    BY <1>1, <1>2, FS_Subset
  <1>4. Cardinality(at) \in 0 .. m
    BY <1>1, <1>3, FS_CardinalityType
  <1>. QED  BY <1>3, <1>4 DEF Newer, at, m

\* No stamp is later than any time in an empty window.
LEMMA NewerOfNone == \A t : Newer(<<>>, t) = 0
  <1>. SUFFICES ASSUME NEW t PROVE Newer(<<>>, t) = 0
    OBVIOUS
  <1>1. {i \in DOMAIN <<>> : <<>>[i] > t} = {}
    OBVIOUS
  <1>. QED  BY <1>1, FS_EmptySet DEF Newer

\* One more stamp counts if it is later.
LEMMA NewerAppended ==
  ASSUME NEW s \in Seq(Nat), NEW x \in Nat, NEW t \in Int
  PROVE  Newer(Append(s, x), t) = Newer(s, t) + (IF x > t THEN 1 ELSE 0)
  <1>. DEFINE at == {i \in DOMAIN s : s[i] > t}
              more == {i \in DOMAIN Append(s, x) : Append(s, x)[i] > t}
  <1>1. IsFiniteSet(at) /\ Cardinality(at) \in Nat
    BY NewerBounded, FS_CardinalityType
  <1>2. Len(s) + 1 \notin at
    OBVIOUS
  <1>3. CASE x > t
    <2>1. more = at \cup {Len(s) + 1}
      BY <1>3
    <2>. HIDE DEF more, at
    <2>2. Cardinality(more) = Cardinality(at) + 1
      BY <1>1, <1>2, <2>1, FS_AddElement
    <2>. QED  BY <1>3, <2>2 DEF Newer, at, more
  <1>4. CASE ~(x > t)
    <2>1. more = at
      BY <1>4
    <2>2. Newer(Append(s, x), t) = Newer(s, t)
      BY <2>1 DEF Newer
    <2>3. Newer(s, t) \in Int
      BY <1>1 DEF Newer
    <2>. QED  BY <1>4, <2>2, <2>3
  <1>. QED  BY <1>3, <1>4

\* Without its first stamp, the oldest: none is missed that is not newer.
LEMMA NewerOfTail ==
  ASSUME NEW s \in Seq(Nat), s # <<>>, NEW t \in Int,
         \A i, j \in DOMAIN s : i <= j => s[i] <= s[j]
  PROVE  IF s[1] > t THEN Newer(Tail(s), t) = Len(s) - 1 ELSE Newer(Tail(s), t) = Newer(s, t)
  <1>. DEFINE at == {i \in DOMAIN s : s[i] > t}
              rest == {i \in DOMAIN Tail(s) : Tail(s)[i] > t}
  <1>1. /\ Len(s) \in Nat \ {0} /\ DOMAIN s = 1 .. Len(s)
        /\ DOMAIN Tail(s) = 1 .. Len(s) - 1
        /\ \A i \in DOMAIN Tail(s) : Tail(s)[i] = s[i + 1]
        /\ \A i \in DOMAIN s : s[i] \in Nat
    OBVIOUS
  <1>2. CASE s[1] > t
    <2>1. \A i \in DOMAIN s : s[i] > t
      BY <1>1, <1>2
    <2>2. rest = 1 .. Len(s) - 1
      BY <1>1, <2>1
    <2>3. \A m \in Nat : Cardinality(1 .. m) = m
      BY FS_Interval
    <2>4. Newer(Tail(s), t) = Cardinality(1 .. Len(s) - 1)
      BY <2>2 DEF Newer
    <2>. QED  BY <1>1, <1>2, <2>3, <2>4
  <1>3. CASE ~(s[1] > t)
    <2>. DEFINE next == [i \in rest |-> i + 1]
    <2>1. next \in [rest -> at]
      BY <1>1
    <2>2. \A x, y \in rest : next[x] = next[y] => x = y
      BY <1>1
    <2>3. \A z \in at : \E x \in rest : next[x] = z
      <3>1. TAKE z \in at
      <3>2. z # 1 /\ z \in 1 .. Len(s)
        BY <1>1, <1>3
      <3>3. z - 1 \in rest /\ next[z - 1] = z
        BY <1>1, <3>2
      <3>. QED  BY <3>3
    <2>4. IsFiniteSet(rest)
      <3>1. Tail(s) \in Seq(Nat)
        BY <1>1
      <3>. HIDE DEF at
      <3>. QED  BY <3>1, NewerBounded
    <2>. HIDE DEF rest, at, next
    <2>5. Cardinality(at) = Cardinality(rest)
      BY <2>1, <2>2, <2>3, <2>4, Matched
    <2>. QED  BY <1>3, <2>5 DEF Newer, rest, at
  <1>. QED  BY <1>2, <1>3

\* The sweep of a window loses no stamp that is in it, and keeps nothing else.
LEMMA LiveIs ==
  ASSUME NEW s \in Seq(Nat), now \in Nat
  PROVE  /\ Detector!Live(s) \in Seq(Nat)
         /\ Len(Detector!Live(s)) = Newer(s, now - Window)
         /\ \A t \in Int : t >= now - Window => Newer(Detector!Live(s), t) = Newer(s, t)
         /\ \A k \in DOMAIN Detector!Live(s) : \E i \in DOMAIN s : Detector!Live(s)[k] = s[i]
         /\ (\A i, j \in DOMAIN s : i <= j => s[i] <= s[j])
               => \A i, j \in DOMAIN Detector!Live(s) :
                      i <= j => Detector!Live(s)[i] <= Detector!Live(s)[j]
  <1>. DEFINE at == {i \in DOMAIN s : now - s[i] < Window}
              n == Cardinality(at)
              L == Detector!Live(s)
  <1>0. Window \in Nat
    BY ProbeAssumption DEF Detector!ProbingAssumption
  <1>1. L = Detector!Kept(s, at)
    BY DEF Detector!Live
  <1>2. \A i \in DOMAIN s : s[i] \in Nat
    OBVIOUS
  <1>3. at = {i \in DOMAIN s : s[i] > now - Window}
    BY <1>0, <1>2
  <1>4. at \in SUBSET DOMAIN s
    OBVIOUS
  <1>. HIDE DEF L
  <1>5. PICK from \in [1 .. n -> at] :
            /\ \A k \in 1 .. n : L[k] = s[from[k]]
            /\ \A k, l \in 1 .. n : k < l => from[k] < from[l]
            /\ \A i \in at : \E k \in 1 .. n : from[k] = i
    <2>. HIDE DEF at
    <2>1. PICK from : Picks(from, s, at)
      BY <1>4, KeptIs
    <2>2. /\ from \in [1 .. n -> at]
          /\ \A k \in 1 .. n : L[k] = s[from[k]]
          /\ \A k, l \in 1 .. n : k < l => from[k] < from[l]
          /\ \A i \in at : \E k \in 1 .. n : from[k] = i
      BY <1>1, <2>1 DEF Picks
    <2>. HIDE DEF n
    <2>. QED  BY <2>2
  <1>6. n \in Nat /\ L \in Seq(Nat) /\ Len(L) = n
    <2>. HIDE DEF at
    <2>. QED  BY <1>1, <1>4, KeptIs
  <1>7. DOMAIN L = 1 .. n
    BY <1>6
  <1>8. n = Newer(s, now - Window)
    BY <1>3 DEF Newer
  <1>9. ASSUME NEW t \in Int, t >= now - Window PROVE Newer(L, t) = Newer(s, t)
    <2>. DEFINE here == {k \in DOMAIN L : L[k] > t}
                there == {i \in DOMAIN s : s[i] > t}
                f == [k \in here |-> from[k]]
    <2>1. there \subseteq at
      BY <1>0, <1>2, <1>3, <1>9
    <2>. HIDE DEF at, n
    <2>2. f \in [here -> there]
      BY <1>4, <1>5, <1>7
    <2>3. \A x, y \in here : f[x] = f[y] => x = y
      <3>1. \A x, y \in 1 .. n : from[x] = from[y] => x = y
        <4>1. TAKE x, y \in 1 .. n
        <4>2. from[x] \in Int /\ from[y] \in Int
          BY <1>4, <1>5
        <4>. QED  BY <1>5, <1>6, <4>2
      <3>. QED  BY <1>7, <3>1
    <2>4. \A z \in there : \E x \in here : f[x] = z
      BY <1>5, <1>7, <2>1
    <2>5. IsFiniteSet(here)
      BY <1>6, NewerBounded
    <2>. HIDE DEF here, there, f
    <2>6. Cardinality(there) = Cardinality(here)
      BY <2>2, <2>3, <2>4, <2>5, Matched
    <2>. QED  BY <2>6 DEF Newer, here, there
  <1>10. \A k \in DOMAIN L : from[k] \in DOMAIN s /\ L[k] = s[from[k]]
    <2>. HIDE DEF at, n
    <2>. QED  BY <1>4, <1>5, <1>7
  <1>11. ASSUME \A i, j \in DOMAIN s : i <= j => s[i] <= s[j],
                NEW i \in DOMAIN L, NEW j \in DOMAIN L, i <= j
         PROVE  L[i] <= L[j]
    <2>. HIDE DEF at, n
    <2>1. from[i] <= from[j]
      <3>1. from[i] \in Int /\ from[j] \in Int
        BY <1>10
      <3>. QED  BY <1>5, <1>6, <1>7, <1>11, <3>1
    <2>. QED  BY <1>10, <1>11, <2>1
  <1>. QED  BY <1>6, <1>8, <1>9, <1>10, <1>11 DEF L

-----------------------------------------------------------------------------
(* The table. *)

\* A table of windows: no pair has two.
Table(tb) ==
    /\ tb \in Seq([pair : Pairs, stamps : Seq(Nat)])
    /\ \A i, j \in DOMAIN tb : tb[i].pair = tb[j].pair => i = j

\* Every pair of the table has met those behind it.
Ordered(tb, met) == \A i, j \in DOMAIN tb : i < j => tb[j].pair \in met[tb[i].pair]

\* The stamps of a pair are those of its window.
LEMMA StampsAre ==
  ASSUME NEW tb, Table(tb), NEW p
  PROVE  /\ \A i \in DOMAIN tb : tb[i].pair = p => Detector!StampsOf(tb, p) = tb[i].stamps
         /\ (\A i \in DOMAIN tb : tb[i].pair # p) => Detector!StampsOf(tb, p) = <<>>
         /\ Detector!StampsOf(tb, p) \in Seq(Nat)
  <1>. DEFINE S == {i \in DOMAIN tb : tb[i].pair = p}
  <1>1. CASE S = {}
    <2>1. Detector!StampsOf(tb, p) = <<>>
      BY <1>1 DEF Detector!StampsOf
    <2>. QED  BY <1>1, <2>1
  <1>2. ASSUME NEW i \in S PROVE Detector!StampsOf(tb, p) = tb[i].stamps /\ tb[i].stamps \in Seq(Nat)
    <2>1. S = {i}
      BY DEF Table
    <2>2. Detector!StampsOf(tb, p) = tb[CHOOSE j \in S : TRUE].stamps
      BY DEF Detector!StampsOf
    <2>3. (CHOOSE j \in S : TRUE) = i
      BY <2>1
    <2>4. tb[i] \in [pair : Pairs, stamps : Seq(Nat)]
      <3>. DEFINE R == [pair : Pairs, stamps : Seq(Nat)]
      <3>1. tb \in Seq(R) /\ i \in DOMAIN tb
        BY DEF Table
      <3>. HIDE DEF R
      <3>2. tb[i] \in R
        BY <3>1
      <3>. QED  BY <3>2 DEF R
    <2>. QED  BY <2>2, <2>3, <2>4
  <1>. QED  BY <1>1, <1>2

\* What is kept of a table is a table, in its order.
LEMMA KeptOfTable ==
  ASSUME NEW tb, Table(tb), NEW at \in SUBSET DOMAIN tb
  PROVE  LET kept == Detector!Kept(tb, at)
         IN  /\ Table(kept) /\ Len(kept) <= Len(tb)
             /\ \A met : Ordered(tb, met) => Ordered(kept, met)
             /\ \A k \in DOMAIN kept : \E i \in at : kept[k] = tb[i]
             /\ \A i \in DOMAIN tb :
                    Detector!StampsOf(kept, tb[i].pair) = IF i \in at THEN tb[i].stamps ELSE <<>>
  <1>. DEFINE R == [pair : Pairs, stamps : Seq(Nat)]
              kept == Detector!Kept(tb, at)
              n == Cardinality(at)
  <1>1. tb \in Seq(R) /\ \A i, j \in DOMAIN tb : tb[i].pair = tb[j].pair => i = j
    BY DEF Table
  <1>. HIDE DEF R
  <1>2. n \in Nat /\ n <= Len(tb) /\ kept \in Seq(R) /\ Len(kept) = n
    BY <1>1, KeptIs
  <1>3. PICK from : Picks(from, tb, at)
    BY <1>1, KeptIs
  <1>. HIDE DEF kept, n
  <1>4. /\ from \in [1 .. n -> at]
        /\ \A k \in 1 .. n : kept[k] = tb[from[k]]
        /\ \A k, l \in 1 .. n : k < l => from[k] < from[l]
        /\ \A i \in at : \E k \in 1 .. n : from[k] = i
    BY <1>3 DEF Picks, kept, n
  <1>5. DOMAIN kept = 1 .. n /\ DOMAIN tb = 1 .. Len(tb) /\ Len(tb) \in Nat
    BY <1>1, <1>2
  <1>6. \A k \in DOMAIN kept : from[k] \in at /\ from[k] \in DOMAIN tb /\ kept[k] = tb[from[k]]
    BY <1>4, <1>5
  <1>7. Table(kept)
    <2>1. ASSUME NEW k \in 1 .. n, NEW l \in 1 .. n, kept[k].pair = kept[l].pair PROVE k = l
      <3>1. from[k] = from[l] /\ from[k] \in Int
        BY <1>1, <1>5, <1>6, <2>1
      <3>. QED  BY <1>2, <1>4, <3>1
    <2>. QED  BY <1>2, <1>5, <2>1 DEF Table, R
  <1>8. ASSUME NEW met, Ordered(tb, met) PROVE Ordered(kept, met)
    BY <1>4, <1>5, <1>6, <1>8 DEF Ordered
  <1>9. ASSUME NEW i \in at PROVE Detector!StampsOf(kept, tb[i].pair) = tb[i].stamps
    <2>1. PICK k \in DOMAIN kept : from[k] = i
      BY <1>4, <1>5
    <2>2. kept[k] = tb[i]
      BY <1>6, <2>1
    <2>. QED  BY <1>7, <2>2, StampsAre
  <1>10. ASSUME NEW i \in DOMAIN tb, i \notin at PROVE Detector!StampsOf(kept, tb[i].pair) = <<>>
    <2>1. \A k \in DOMAIN kept : kept[k].pair # tb[i].pair
      BY <1>1, <1>6, <1>10
    <2>. QED  BY <1>7, <2>1, StampsAre
  <1>. QED  BY <1>2, <1>6, <1>7, <1>8, <1>9, <1>10 DEF kept

\* The sweep leaves every pair what is live of its window.
LEMMA SweptIs ==
  ASSUME Table(windows), now \in Nat
  PROVE  /\ Table(Detector!Swept) /\ Len(Detector!Swept) <= Len(windows)
         /\ \A met : Ordered(windows, met) => Ordered(Detector!Swept, met)
         /\ \A p \in Pairs : Detector!StampsOf(Detector!Swept, p)
                                = Detector!Live(Detector!StampsOf(windows, p))
  <1>. DEFINE R == [pair : Pairs, stamps : Seq(Nat)]
              cut == [i \in DOMAIN windows |->
                         [windows[i] EXCEPT !.stamps = Detector!Live(windows[i].stamps)]]
              at == {i \in DOMAIN cut : cut[i].stamps # <<>>}
  <1>1. Detector!Swept = Detector!Kept(cut, at)
    BY DEF Detector!Swept
  <1>2. /\ windows \in Seq(R) /\ DOMAIN windows = 1 .. Len(windows) /\ Len(windows) \in Nat
        /\ \A i \in DOMAIN windows : windows[i] \in R
    <2>1. windows \in Seq(R)
      BY DEF Table
    <2>. HIDE DEF R
    <2>. QED  BY <2>1
  <1>3. \A i \in DOMAIN windows : /\ cut[i] \in R /\ cut[i].pair = windows[i].pair
                                  /\ cut[i].stamps = Detector!Live(windows[i].stamps)
    <2>1. TAKE i \in DOMAIN windows
    <2>2. windows[i] \in R /\ windows[i].stamps \in Seq(Nat)
      BY <1>2
    <2>3. Detector!Live(windows[i].stamps) \in Seq(Nat)
      BY <2>2, LiveIs
    <2>. QED  BY <2>2, <2>3
  <1>4. Table(cut) /\ Len(cut) = Len(windows) /\ DOMAIN cut = DOMAIN windows
    <2>1. cut \in [1 .. Len(windows) -> R]
      BY <1>2, <1>3
    <2>2. DOMAIN cut = DOMAIN windows
      OBVIOUS
    <2>. HIDE DEF cut, R
    <2>3. cut \in Seq(R) /\ Len(cut) = Len(windows)
      BY <1>2, <2>1, SeqOfTyped
    <2>4. \A i, j \in DOMAIN cut : cut[i].pair = cut[j].pair => i = j
      BY <1>3, <2>2 DEF Table
    <2>. QED  BY <2>2, <2>3, <2>4 DEF Table, R
  <1>5. ASSUME NEW met, Ordered(windows, met) PROVE Ordered(cut, met)
    <2>. HIDE DEF cut
    <2>. QED  BY <1>3, <1>4, <1>5 DEF Ordered
  <1>6. at \in SUBSET DOMAIN cut
    OBVIOUS
  <1>7. ASSUME NEW p \in Pairs
        PROVE  Detector!StampsOf(Detector!Swept, p) = Detector!Live(Detector!StampsOf(windows, p))
    <2>. DEFINE none == \A i \in DOMAIN windows : windows[i].pair # p
    <2>1. CASE none
      <3>1. Detector!StampsOf(windows, p) = <<>>
        BY <2>1, StampsAre
      <3>2. Detector!Live(<<>>) = <<>>
        <4>1. <<>> \in Seq(Nat) /\ Len(<<>>) = 0
          OBVIOUS
        <4>2. Detector!Live(<<>>) \in Seq(Nat) /\ Len(Detector!Live(<<>>)) = 0
          BY <4>1, LiveIs, NewerOfNone
        <4>. QED  BY <4>2
      <3>3. Table(Detector!Swept) /\ \A k \in DOMAIN Detector!Swept : \E i \in at : Detector!Swept[k] = cut[i]
        <4>. HIDE DEF at, cut
        <4>. QED  BY <1>1, <1>4, <1>6, KeptOfTable
      <3>4. \A k \in DOMAIN Detector!Swept : Detector!Swept[k].pair # p
        <4>. HIDE DEF cut
        <4>. QED  BY <1>3, <1>4, <2>1, <3>3
      <3>. QED  BY <3>1, <3>2, <3>3, <3>4, StampsAre
    <2>2. CASE ~none
      <3>1. PICK i \in DOMAIN windows : windows[i].pair = p
        BY <2>2
      <3>2. Detector!StampsOf(windows, p) = windows[i].stamps
        BY <3>1, StampsAre
      <3>3. Detector!StampsOf(Detector!Kept(cut, at), cut[i].pair) = IF i \in at THEN cut[i].stamps ELSE <<>>
        <4>. HIDE DEF at, cut
        <4>. QED  BY <1>4, <1>6, KeptOfTable
      <3>4. (IF i \in at THEN cut[i].stamps ELSE <<>>) = cut[i].stamps
        BY <1>4
      <3>. HIDE DEF at, cut
      <3>. QED  BY <1>1, <1>3, <3>1, <3>2, <3>3, <3>4
    <2>. QED  BY <2>1, <2>2
  <1>. HIDE DEF cut, at
  <1>8. /\ Table(Detector!Swept) /\ Len(Detector!Swept) <= Len(cut)
        /\ \A met : Ordered(cut, met) => Ordered(Detector!Swept, met)
    BY <1>1, <1>4, <1>6, KeptOfTable
  <1>. QED  BY <1>4, <1>5, <1>7, <1>8

\* Without a pair, the others keep their windows.
LEMMA WithoutIs ==
  ASSUME NEW tb, Table(tb), NEW p \in Pairs
  PROVE  LET less == Detector!Without(tb, p)
         IN  /\ Table(less) /\ Len(less) <= Len(tb)
             /\ \A met : Ordered(tb, met) => Ordered(less, met)
             /\ \A k \in DOMAIN less : less[k].pair # p
             /\ Detector!StampsOf(less, p) = <<>>
             /\ \A q \in Pairs \ {p} : Detector!StampsOf(less, q) = Detector!StampsOf(tb, q)
  <1>. DEFINE at == {i \in DOMAIN tb : tb[i].pair # p}
              less == Detector!Without(tb, p)
  <1>1. less = Detector!Kept(tb, at)
    BY DEF Detector!Without
  <1>2. at \in SUBSET DOMAIN tb /\ \A i \in DOMAIN tb : i \in at <=> tb[i].pair # p
    OBVIOUS
  <1>. HIDE DEF at, less
  <1>3. /\ Table(less) /\ Len(less) <= Len(tb)
        /\ \A met : Ordered(tb, met) => Ordered(less, met)
        /\ \A k \in DOMAIN less : \E i \in at : less[k] = tb[i]
        /\ \A i \in DOMAIN tb :
               Detector!StampsOf(less, tb[i].pair) = IF i \in at THEN tb[i].stamps ELSE <<>>
    BY <1>1, <1>2, KeptOfTable
  <1>4. \A k \in DOMAIN less : less[k].pair # p
    BY <1>2, <1>3
  <1>5. Detector!StampsOf(less, p) = <<>>
    BY <1>3, <1>4, StampsAre
  <1>6. ASSUME NEW q \in Pairs \ {p} PROVE Detector!StampsOf(less, q) = Detector!StampsOf(tb, q)
    <2>1. CASE \E i \in DOMAIN tb : tb[i].pair = q
      <3>1. PICK i \in DOMAIN tb : tb[i].pair = q
        BY <2>1
      <3>2. Detector!StampsOf(tb, q) = tb[i].stamps
        BY <3>1, StampsAre
      <3>. QED  BY <1>2, <1>3, <3>1, <3>2
    <2>2. CASE \A i \in DOMAIN tb : tb[i].pair # q
      <3>1. \A k \in DOMAIN less : less[k].pair # q
        BY <1>2, <1>3, <2>2
      <3>. QED  BY <1>3, <2>2, <3>1, StampsAre
    <2>. QED  BY <2>1, <2>2
  <1>. QED  BY <1>3, <1>4, <1>5, <1>6 DEF less

\* A pair that comes last keeps the order if every other has met it.
LEMMA AddedIs ==
  ASSUME NEW tb, Table(tb), NEW p \in Pairs, \A i \in DOMAIN tb : tb[i].pair # p,
         NEW stamps \in Seq(Nat)
  PROVE  LET more == Append(tb, [pair |-> p, stamps |-> stamps])
         IN  /\ Table(more) /\ Len(more) = Len(tb) + 1
             /\ \A met : Ordered(tb, met) /\ (\A q \in Pairs \ {p} : p \in met[q]) => Ordered(more, met)
             /\ Detector!StampsOf(more, p) = stamps
             /\ \A q \in Pairs \ {p} : Detector!StampsOf(more, q) = Detector!StampsOf(tb, q)
  <1>. DEFINE R == [pair : Pairs, stamps : Seq(Nat)]
              w == [pair |-> p, stamps |-> stamps]
              more == Append(tb, w)
              n == Len(tb)
  <1>1. tb \in Seq(R) /\ (\A i, j \in DOMAIN tb : tb[i].pair = tb[j].pair => i = j)
    BY DEF Table
  <1>2. w \in R /\ w.pair = p /\ w.stamps = stamps
    OBVIOUS
  <1>3. \A r \in R : r.pair \in Pairs
    OBVIOUS
  <1>. HIDE DEF R, w
  <1>4. /\ n \in Nat /\ DOMAIN tb = 1 .. n /\ DOMAIN more = 1 .. n + 1
        /\ more \in Seq(R) /\ Len(more) = n + 1
        /\ \A i \in 1 .. n : more[i] = tb[i] /\ tb[i] \in R
        /\ more[n + 1] = w
    BY <1>1, <1>2
  <1>. HIDE DEF n, more
  <1>5. Table(more)
    <2>1. ASSUME NEW i \in 1 .. n + 1, NEW j \in 1 .. n + 1, more[i].pair = more[j].pair PROVE i = j
      <3>1. CASE i \in 1 .. n /\ j \in 1 .. n
        BY <1>1, <1>4, <2>1, <3>1
      <3>2. CASE i = n + 1 /\ j \in 1 .. n
        BY <1>2, <1>4, <2>1, <3>2
      <3>3. CASE i \in 1 .. n /\ j = n + 1
        BY <1>2, <1>4, <2>1, <3>3
      <3>. QED  BY <1>4, <3>1, <3>2, <3>3
    <2>. QED  BY <1>4, <2>1 DEF Table, R
  <1>6. ASSUME NEW met, Ordered(tb, met), \A q \in Pairs \ {p} : p \in met[q] PROVE Ordered(more, met)
    <2>1. ASSUME NEW i \in 1 .. n + 1, NEW j \in 1 .. n + 1, i < j
          PROVE  more[j].pair \in met[more[i].pair]
      <3>1. CASE j \in 1 .. n
        <4>1. i \in 1 .. n
          BY <1>4, <2>1, <3>1
        <4>2. tb[j].pair \in met[tb[i].pair]
          BY <1>4, <1>6, <2>1, <3>1, <4>1 DEF Ordered
        <4>. QED  BY <1>4, <3>1, <4>1, <4>2
      <3>2. CASE j = n + 1
        <4>1. i \in 1 .. n
          BY <1>4, <2>1, <3>2
        <4>2. tb[i].pair \in Pairs \ {p} /\ more[i] = tb[i]
          BY <1>3, <1>4, <4>1
        <4>3. more[j] = w /\ p \in met[tb[i].pair]
          BY <1>4, <1>6, <3>2, <4>2
        <4>4. more[j].pair = p /\ more[i].pair = tb[i].pair
          BY <1>2, <4>2, <4>3
        <4>. QED  BY <4>3, <4>4
      <3>. QED  BY <1>4, <3>1, <3>2
    <2>. QED  BY <1>4, <2>1 DEF Ordered
  <1>7. Detector!StampsOf(more, p) = stamps
    <2>1. n + 1 \in DOMAIN more
      BY <1>4
    <2>. QED  BY <1>2, <1>4, <1>5, <2>1, StampsAre
  <1>8. ASSUME NEW q \in Pairs \ {p} PROVE Detector!StampsOf(more, q) = Detector!StampsOf(tb, q)
    <2>1. CASE \E i \in 1 .. n : tb[i].pair = q
      <3>1. PICK i \in 1 .. n : tb[i].pair = q
        BY <2>1
      <3>2. i \in DOMAIN more /\ i \in DOMAIN tb /\ more[i] = tb[i]
        BY <1>4
      <3>3. Detector!StampsOf(tb, q) = tb[i].stamps
        BY <3>1, <3>2, StampsAre
      <3>4. Detector!StampsOf(more, q) = more[i].stamps
        BY <1>5, <3>1, <3>2, StampsAre
      <3>. QED  BY <3>2, <3>3, <3>4
    <2>2. CASE \A i \in 1 .. n : tb[i].pair # q
      <3>1. \A i \in DOMAIN more : more[i].pair # q
        BY <1>2, <1>4, <2>2
      <3>2. Detector!StampsOf(more, q) = <<>>
        BY <1>5, <3>1, StampsAre
      <3>3. Detector!StampsOf(tb, q) = <<>>
        BY <1>4, <2>2, StampsAre
      <3>. QED  BY <3>2, <3>3
    <2>. QED  BY <2>1, <2>2
  <1>. QED  BY <1>4, <1>5, <1>6, <1>7, <1>8 DEF more, n, w

\* The first of a table is the one that is evicted.
LEMMA TailIs ==
  ASSUME NEW tb, Table(tb), tb # <<>>
  PROVE  /\ Table(Tail(tb)) /\ Len(Tail(tb)) = Len(tb) - 1
         /\ tb[1].pair \in Pairs
         /\ \A met : Ordered(tb, met) => Ordered(Tail(tb), met)
         /\ Detector!StampsOf(Tail(tb), tb[1].pair) = <<>>
         /\ \A q \in Pairs \ {tb[1].pair} : Detector!StampsOf(Tail(tb), q) = Detector!StampsOf(tb, q)
  <1>. DEFINE R == [pair : Pairs, stamps : Seq(Nat)]
              rest == Tail(tb)
              n == Len(tb)
  <1>1. tb \in Seq(R) /\ (\A i, j \in DOMAIN tb : tb[i].pair = tb[j].pair => i = j)
    BY DEF Table
  <1>2. \A r \in R : r.pair \in Pairs
    OBVIOUS
  <1>. HIDE DEF R
  <1>3. /\ n \in Nat \ {0} /\ DOMAIN tb = 1 .. n /\ DOMAIN rest = 1 .. n - 1
        /\ rest \in Seq(R) /\ Len(rest) = n - 1
        /\ \A i \in 1 .. n - 1 : rest[i] = tb[i + 1]
        /\ \A i \in 1 .. n : tb[i] \in R
    BY <1>1
  <1>. HIDE DEF n, rest
  <1>4. \A i \in 1 .. n - 1 : i + 1 \in 1 .. n
    BY <1>3
  <1>5. Table(rest)
    <2>1. ASSUME NEW i \in 1 .. n - 1, NEW j \in 1 .. n - 1, rest[i].pair = rest[j].pair PROVE i = j
      <3>1. i + 1 \in DOMAIN tb /\ j + 1 \in DOMAIN tb
        BY <1>3, <1>4
      <3>2. tb[i + 1].pair = tb[j + 1].pair
        BY <1>3, <2>1
      <3>3. i + 1 = j + 1
        BY <1>1, <3>1, <3>2
      <3>. QED  BY <3>3
    <2>. QED  BY <1>3, <2>1 DEF Table, R
  <1>6. ASSUME NEW met, Ordered(tb, met) PROVE Ordered(rest, met)
    <2>1. ASSUME NEW i \in 1 .. n - 1, NEW j \in 1 .. n - 1, i < j
          PROVE  rest[j].pair \in met[rest[i].pair]
      <3>1. i + 1 \in 1 .. n /\ j + 1 \in 1 .. n /\ i + 1 < j + 1
        BY <1>4, <2>1
      <3>. QED  BY <1>3, <1>6, <3>1 DEF Ordered
    <2>. QED  BY <1>3, <2>1 DEF Ordered
  <1>7. 1 \in DOMAIN tb
    BY <1>3
  <1>8. Detector!StampsOf(rest, tb[1].pair) = <<>>
    <2>1. \A i \in 1 .. n - 1 : rest[i].pair # tb[1].pair
      <3>1. TAKE i \in 1 .. n - 1
      <3>2. i + 1 \in 1 .. n /\ i + 1 # 1
        BY <1>4
      <3>. QED  BY <1>1, <1>3, <1>7, <3>2
    <2>. QED  BY <1>3, <1>5, <2>1, StampsAre
  <1>9. ASSUME NEW q \in Pairs \ {tb[1].pair}
        PROVE  Detector!StampsOf(rest, q) = Detector!StampsOf(tb, q)
    <2>1. CASE \E i \in 1 .. n : tb[i].pair = q
      <3>1. PICK i \in 1 .. n : tb[i].pair = q
        BY <2>1
      <3>2. i - 1 \in 1 .. n - 1
        BY <1>3, <1>9, <3>1
      <3>3. rest[i - 1] = tb[i]
        BY <1>3, <3>2
      <3>4. Detector!StampsOf(tb, q) = tb[i].stamps
        BY <1>3, <3>1, StampsAre
      <3>5. Detector!StampsOf(rest, q) = rest[i - 1].stamps
        BY <1>3, <1>5, <3>1, <3>2, <3>3, StampsAre
      <3>. QED  BY <3>3, <3>4, <3>5
    <2>2. CASE \A i \in 1 .. n : tb[i].pair # q
      <3>1. \A i \in DOMAIN rest : rest[i].pair # q
        BY <1>3, <1>4, <2>2
      <3>2. Detector!StampsOf(rest, q) = <<>>
        BY <1>5, <3>1, StampsAre
      <3>3. Detector!StampsOf(tb, q) = <<>>
        BY <1>3, <2>2, StampsAre
      <3>. QED  BY <3>2, <3>3
    <2>. QED  BY <2>1, <2>2
  <1>. QED  BY <1>2, <1>3, <1>5, <1>6, <1>7, <1>8, <1>9 DEF rest, n

\* The first of a table has met as many pairs as there are behind it.
LEMMA FirstHasMet ==
  ASSUME NEW tb, Table(tb), tb # <<>>, NEW met, Ordered(tb, met), IsFiniteSet(met[tb[1].pair])
  PROVE  Cardinality(met[tb[1].pair]) >= Len(tb) - 1
  <1>. DEFINE n == Len(tb)
              M == met[tb[1].pair]
              behind == [j \in 2 .. n |-> tb[j].pair]
  <1>1. /\ n \in Nat \ {0} /\ DOMAIN tb = 1 .. n
        /\ \A i, j \in DOMAIN tb : tb[i].pair = tb[j].pair => i = j
    BY DEF Table
  <1>2. \A j \in 2 .. n : tb[j].pair \in M
    BY <1>1 DEF Ordered
  <1>3. behind \in Injection(2 .. n, M)
    <2>1. behind \in [2 .. n -> M]
      BY <1>2
    <2>2. \A i, j \in 2 .. n : behind[i] = behind[j] => i = j
      BY <1>1
    <2>. HIDE DEF behind
    <2>. QED  BY <2>1, <2>2 DEF Injection, IsInjective
  <1>. HIDE DEF n, behind, M
  <1>4. Cardinality(2 .. n) <= Cardinality(M)
    BY <1>3, FS_Injection DEF M
  <1>5. Cardinality(2 .. n) = n - 1
    BY <1>1, FS_Interval
  <1>6. Cardinality(M) \in Nat
    BY FS_CardinalityType DEF M
  <1>. QED  BY <1>1, <1>4, <1>5, <1>6 DEF n, M

-----------------------------------------------------------------------------
(* A denial is counted. *)

\* The last stamps of a pair, in the order of the clock.
Recorded(s) ==
    /\ s \in Seq(Nat) /\ Len(s) <= Threshold
    /\ \A i, j \in DOMAIN s : i <= j => s[i] <= s[j]
    /\ \A i \in DOMAIN s : s[i] <= now

\* One more denial: the count that keeps the last Threshold ones still holds what
\* the table holds, and the same if it held the same.
LEMMA OneMoreDenial ==
  ASSUME now \in Nat, NEW a \in Seq(Nat), NEW d, Recorded(d), Len(a) + 1 < Threshold,
         NEW t \in Int, Newer(a, t) <= Newer(d, t)
  PROVE  LET live == Append(d, now)
             kept == IF Len(live) > Threshold THEN Tail(live) ELSE live
         IN  /\ Recorded(kept)
             /\ Newer(Append(a, now), t) <= Newer(kept, t)
             /\ Newer(a, t) = Newer(d, t) /\ Len(a) = Len(d)
                   => Newer(Append(a, now), t) = Newer(kept, t)
  <1>. DEFINE live == Append(d, now)
              one == IF now > t THEN 1 ELSE 0
  <1>1. /\ d \in Seq(Nat) /\ Len(d) <= Threshold /\ Threshold \in Nat \ {0}
        /\ \A i, j \in DOMAIN d : i <= j => d[i] <= d[j]
        /\ \A i \in DOMAIN d : d[i] <= now
    BY ProbeAssumption DEF Recorded, Detector!ProbingAssumption
  <1>2. /\ live \in Seq(Nat) /\ Len(live) = Len(d) + 1 /\ DOMAIN live = 1 .. Len(d) + 1
        /\ \A i \in 1 .. Len(d) : live[i] = d[i]
        /\ live[Len(d) + 1] = now
        /\ DOMAIN d = 1 .. Len(d) /\ Len(d) \in Nat /\ Len(a) \in Nat
    BY <1>1
  <1>3. /\ \A i, j \in DOMAIN live : i <= j => live[i] <= live[j]
        /\ \A i \in DOMAIN live : live[i] <= now
    BY <1>1, <1>2
  <1>4. Newer(Append(a, now), t) = Newer(a, t) + one /\ Newer(live, t) = Newer(d, t) + one
    BY <1>1, NewerAppended
  <1>5. Newer(a, t) \in 0 .. Len(a) /\ Newer(d, t) \in 0 .. Len(d) /\ one \in 0 .. 1
    <2>1. Newer(a, t) \in 0 .. Len(a)
      BY NewerBounded
    <2>2. Newer(d, t) \in 0 .. Len(d)
      BY <1>1, NewerBounded
    <2>3. one \in 0 .. 1
      OBVIOUS
    <2>. HIDE DEF one
    <2>. QED  BY <2>1, <2>2, <2>3
  <1>. HIDE DEF live, one
  <1>6. Threshold \in Nat /\ Len(d) \in Nat /\ Len(a) \in Nat /\ Len(live) = Len(d) + 1
        /\ Len(d) <= Threshold
    BY <1>1, <1>2
  <1>7. CASE Len(live) <= Threshold
    <2>1. Recorded(live)
      BY <1>2, <1>3, <1>7 DEF Recorded
    <2>2. /\ Newer(Append(a, now), t) <= Newer(live, t)
          /\ Newer(a, t) = Newer(d, t) => Newer(Append(a, now), t) = Newer(live, t)
      BY <1>4, <1>5, <1>6
    <2>3. (IF Len(live) > Threshold THEN Tail(live) ELSE live) = live
      BY <1>6, <1>7
    <2>. QED  BY <2>1, <2>2, <2>3 DEF live
  <1>8. CASE Len(live) > Threshold
    <2>1. Len(d) = Threshold
      BY <1>6, <1>8
    <2>2. /\ Tail(live) \in Seq(Nat) /\ Len(Tail(live)) = Threshold /\ live # <<>>
          /\ DOMAIN Tail(live) = 1 .. Len(d)
          /\ \A i \in 1 .. Len(d) : Tail(live)[i] = live[i + 1]
      <3>1. live \in Seq(Nat) /\ Len(live) \in Nat /\ Len(live) # 0 /\ Len(live) - 1 = Len(d)
        BY <1>2, <1>6
      <3>2. live # <<>>
        BY <3>1
      <3>3. /\ Tail(live) \in Seq(Nat) /\ Len(Tail(live)) = Len(live) - 1
            /\ \A i \in 1 .. Len(live) - 1 : Tail(live)[i] = live[i + 1]
        BY <3>1, <3>2
      <3>4. DOMAIN Tail(live) = 1 .. Len(Tail(live))
        BY <3>3
      <3>. QED  BY <2>1, <3>1, <3>2, <3>3, <3>4
    <2>3. Recorded(Tail(live))
      <3>1. \A i \in 1 .. Len(d) : i + 1 \in DOMAIN live
        <4>1. \A i \in 1 .. Len(d) : i + 1 \in 1 .. Len(d) + 1
          BY <1>6
        <4>. QED  BY <1>2, <4>1
      <3>2. ASSUME NEW i \in 1 .. Len(d), NEW j \in 1 .. Len(d), i <= j
            PROVE  Tail(live)[i] <= Tail(live)[j]
        <4>1. i + 1 \in DOMAIN live /\ j + 1 \in DOMAIN live /\ i + 1 <= j + 1
          BY <1>6, <3>1, <3>2
        <4>2. live[i + 1] <= live[j + 1]
          BY <1>3, <4>1
        <4>. QED  BY <2>2, <4>2
      <3>3. \A i \in 1 .. Len(d) : Tail(live)[i] <= now
        BY <1>3, <2>2, <3>1
      <3>4. Len(Tail(live)) <= Threshold
        BY <1>6, <2>2
      <3>. QED  BY <2>2, <3>2, <3>3, <3>4 DEF Recorded
    <2>4. IF live[1] > t THEN Newer(Tail(live), t) = Len(live) - 1 ELSE Newer(Tail(live), t) = Newer(live, t)
      BY <1>2, <1>3, <2>2, NewerOfTail
    <2>5. Newer(Append(a, now), t) <= Newer(Tail(live), t)
      BY <1>4, <1>5, <1>6, <2>1, <2>4
    <2>6. Len(a) # Len(d)
      BY <1>6, <2>1
    <2>7. (IF Len(live) > Threshold THEN Tail(live) ELSE live) = Tail(live)
      BY <1>8
    <2>. QED  BY <2>3, <2>5, <2>6, <2>7 DEF live
  <1>. QED  BY <1>6, <1>7, <1>8

\* A pair is not counted more often than it was denied, and less often only if the
\* table was full of others since it crossed.
Counted(p) ==
    \A t \in Int : t >= now - Window =>
        LET seen == Newer(Detector!StampsOf(windows, p), t)
            true == Newer(denials[p], t)
        IN  seen <= true /\ (p \notin crowded => seen = true)

\* The inductive invariant of the detector: the table is in the order of last use,
\* so that the pairs behind the one it evicts have all been denied since.
ProbeInv ==
    /\ now \in Nat
    /\ Table(windows) /\ Len(windows) <= MaxTracked
    /\ others \in [Pairs -> SUBSET Pairs] /\ \A p \in Pairs : IsFiniteSet(others[p])
    /\ Ordered(windows, others)
    /\ denials \in [Pairs -> Seq(Nat)]
    /\ \A p \in Pairs : /\ Recorded(denials[p])
                        /\ Len(Detector!StampsOf(windows, p)) < Threshold
                        /\ Counted(p)
    /\ fired => due

\* Nothing has been denied at first.
LEMMA ProbeInit == Detector!Init => ProbeInv
  <1>. SUFFICES ASSUME Detector!Init PROVE ProbeInv
    OBVIOUS
  <1>1. Threshold \in Nat \ {0} /\ MaxTracked \in Nat /\ Window \in Nat
    BY ProbeAssumption DEF Detector!ProbingAssumption
  <1>2. /\ now = 0 /\ windows = <<>> /\ fired = FALSE
        /\ denials = [p \in Pairs |-> <<>>] /\ others = [p \in Pairs |-> {}]
    BY DEF Detector!Init
  <1>3. <<>> \in Seq(Nat) /\ <<>> \in Seq([pair : Pairs, stamps : Seq(Nat)]) /\ Len(<<>>) = 0
        /\ DOMAIN <<>> = {}
    OBVIOUS
  <1>4. Table(windows) /\ Ordered(windows, others)
    BY <1>2, <1>3 DEF Table, Ordered
  <1>5. \A p \in Pairs : Detector!StampsOf(windows, p) = <<>>
    BY <1>2, <1>3, <1>4, StampsAre
  <1>6. \A p \in Pairs : denials[p] = <<>> /\ others[p] = {}
    BY <1>2
  <1>7. \A p \in Pairs : Recorded(denials[p])
    <2>1. Recorded(<<>>)
      BY <1>1, <1>3 DEF Recorded
    <2>. QED  BY <1>6, <2>1
  <1>8. \A p \in Pairs : Counted(p)
    BY <1>5, <1>6, NewerOfNone DEF Counted
  <1>9. IsFiniteSet({})
    BY FS_EmptySet
  <1>10. denials \in [Pairs -> Seq(Nat)] /\ others \in [Pairs -> SUBSET Pairs]
    BY <1>2, <1>3
  <1>. QED  BY <1>1, <1>2, <1>3, <1>4, <1>5, <1>6, <1>7, <1>8, <1>9, <1>10 DEF ProbeInv

\* Time takes nothing from what is counted.
LEMMA TickKeeps == ProbeInv /\ Detector!Tick => ProbeInv'
  <1>. SUFFICES ASSUME ProbeInv, Detector!Tick PROVE ProbeInv'
    OBVIOUS
  <1>1. /\ now' = now + 1 /\ windows' = windows /\ fired' = fired /\ denials' = denials
        /\ others' = others /\ crowded' = crowded /\ due' = due
    BY DEF Detector!Tick
  <1>2. Window \in Nat /\ now \in Nat
    BY ProbeAssumption DEF Detector!ProbingAssumption, ProbeInv
  <1>3. ASSUME NEW p \in Pairs
        PROVE  Recorded(denials[p])' /\ (Len(Detector!StampsOf(windows, p)) < Threshold)' /\ Counted(p)'
    <2>1. Recorded(denials[p]) /\ Counted(p) /\ Len(Detector!StampsOf(windows, p)) < Threshold
      BY DEF ProbeInv
    <2>2. Recorded(denials[p])'
      <3>1. \A i \in DOMAIN denials[p] : denials[p][i] \in Nat
        BY <2>1 DEF Recorded
      <3>. QED  BY <1>1, <1>2, <2>1, <3>1 DEF Recorded
    <2>3. Detector!StampsOf(windows, p)' = Detector!StampsOf(windows, p)
      BY <1>1 DEF Detector!StampsOf
    <2>4. \A t \in Int : t >= now' - Window => t >= now - Window
      BY <1>1, <1>2
    <2>5. Counted(p)'
      BY <1>1, <2>1, <2>3, <2>4 DEF Counted, Newer
    <2>. QED  BY <2>1, <2>2, <2>3, <2>5
  <1>. QED  BY <1>1, <1>2, <1>3 DEF ProbeInv, Table, Ordered

\* What a denial of p finds: the live stamps of every pair, as the table has them and
\* as they were.
LEMMA FoundAre ==
  ASSUME ProbeInv, NEW p \in Pairs
  PROVE  LET seen == Detector!StampsOf(Detector!Swept, p)
             true == Detector!Live(denials[p])
         IN  /\ seen \in Seq(Nat) /\ true \in Seq(Nat)
             /\ Recorded(true) /\ Len(seen) < Threshold
             /\ Len(seen) <= Len(true) /\ (p \notin crowded => Len(seen) = Len(true))
             /\ \A t \in Int : t >= now - Window =>
                    /\ Newer(seen, t) <= Newer(true, t)
                    /\ p \notin crowded => Newer(seen, t) = Newer(true, t)
                    /\ Newer(seen, t) = Newer(Detector!StampsOf(windows, p), t)
  <1>. DEFINE a == Detector!StampsOf(windows, p)
              d == denials[p]
              seen == Detector!StampsOf(Detector!Swept, p)
              true == Detector!Live(d)
  <1>1. /\ now \in Nat /\ Table(windows) /\ Recorded(d) /\ Len(a) < Threshold /\ Counted(p)
        /\ Window \in Nat /\ Threshold \in Nat
    BY ProbeAssumption DEF Detector!ProbingAssumption, ProbeInv
  <1>2. a \in Seq(Nat) /\ d \in Seq(Nat)
    BY <1>1, StampsAre DEF Recorded
  <1>3. seen = Detector!Live(a)
    BY <1>1, SweptIs
  <1>. HIDE DEF a, d, seen
  <1>4. /\ seen \in Seq(Nat) /\ Len(seen) = Newer(a, now - Window)
        /\ \A t \in Int : t >= now - Window => Newer(seen, t) = Newer(a, t)
    BY <1>1, <1>2, <1>3, LiveIs
  <1>5. /\ true \in Seq(Nat) /\ Len(true) = Newer(d, now - Window)
        /\ \A t \in Int : t >= now - Window => Newer(true, t) = Newer(d, t)
        /\ \A k \in DOMAIN true : \E i \in DOMAIN d : true[k] = d[i]
        /\ (\A i, j \in DOMAIN d : i <= j => d[i] <= d[j])
              => \A i, j \in DOMAIN true : i <= j => true[i] <= true[j]
    BY <1>1, <1>2, LiveIs
  <1>. HIDE DEF true
  <1>6. \A t \in Int : t >= now - Window =>
            Newer(a, t) <= Newer(d, t) /\ (p \notin crowded => Newer(a, t) = Newer(d, t))
    BY <1>1 DEF Counted, a, d
  <1>7. now - Window \in Int /\ now - Window >= now - Window
    BY <1>1
  <1>8. Newer(a, now - Window) \in 0 .. Len(a) /\ Newer(d, now - Window) \in 0 .. Len(d)
    BY <1>2, <1>7, NewerBounded
  <1>9. Len(seen) < Threshold /\ Len(true) <= Threshold
    <2>1. Len(a) \in Nat /\ Len(d) \in Nat /\ Len(d) <= Threshold
      BY <1>1, <1>2 DEF Recorded
    <2>. QED  BY <1>1, <1>4, <1>5, <1>8, <2>1
  <1>10. Recorded(true)
    BY <1>1, <1>5, <1>9 DEF Recorded
  <1>11. Len(seen) <= Len(true) /\ (p \notin crowded => Len(seen) = Len(true))
    BY <1>4, <1>5, <1>6, <1>7
  <1>. QED  BY <1>4, <1>5, <1>6, <1>9, <1>10, <1>11 DEF a, d, seen, true

\* A denial of p leaves the others their counts, except the one the table evicts: it
\* has met as many pairs as the table holds.
LEMMA RecordKeeps ==
  ASSUME ProbeInv, NEW p \in Pairs, Detector!RecordDenial(p)
  PROVE  ProbeInv'
  <1>. DEFINE table == Detector!Swept
              seen == Detector!StampsOf(table, p)
              stamps == Append(seen, now)
              crosses == Len(stamps) >= Threshold
              less == Detector!Without(table, p)
              more == Append(less, [pair |-> p, stamps |-> stamps])
              true == Detector!Live(denials[p])
              live == Append(true, now)
              kept == IF Len(live) > Threshold THEN Tail(live) ELSE live
  <1>1. /\ now \in Nat /\ Table(windows) /\ Len(windows) <= MaxTracked /\ Ordered(windows, others)
        /\ others \in [Pairs -> SUBSET Pairs] /\ \A q \in Pairs : IsFiniteSet(others[q])
        /\ denials \in [Pairs -> Seq(Nat)]
        /\ Window \in Nat /\ Threshold \in Nat \ {0} /\ MaxTracked \in Nat
    BY ProbeAssumption DEF Detector!ProbingAssumption, ProbeInv
  <1>2. /\ fired' = crosses /\ now' = now
        /\ windows' = IF crosses THEN less ELSE Detector!Bounded(more)
        /\ others' = [q \in Pairs |-> IF q = p THEN {} ELSE others[q] \cup {p}]
        /\ crowded' = {q \in crowded \cup {r \in Pairs : Cardinality(others'[r]) >= MaxTracked} :
                          q # p \/ ~crosses}
        /\ denials' = [denials EXCEPT ![p] = IF crosses THEN <<>> ELSE kept]
        /\ due' = (Len(live) >= Threshold)
    BY SameSize DEF Detector!RecordDenial, Detector!Watch, Detector!ResetAt, Detector!Touched
  <1>3. /\ seen \in Seq(Nat) /\ true \in Seq(Nat) /\ Recorded(true) /\ Len(seen) < Threshold
        /\ Len(seen) <= Len(true) /\ (p \notin crowded => Len(seen) = Len(true))
        /\ \A t \in Int : t >= now - Window =>
               Newer(seen, t) <= Newer(true, t) /\ (p \notin crowded => Newer(seen, t) = Newer(true, t))
    BY FoundAre
  <1>4. Table(table) /\ Len(table) <= MaxTracked /\ Ordered(table, others)
    <2>1. Table(table) /\ Len(table) <= Len(windows) /\ Ordered(table, others)
      BY <1>1, SweptIs
    <2>2. Len(table) \in Nat /\ Len(windows) \in Nat
      BY <1>1, <2>1 DEF Table
    <2>. QED  BY <1>1, <2>1, <2>2
  <1>. HIDE DEF table
  <1>5. /\ Table(less) /\ Len(less) <= MaxTracked /\ Ordered(less, others)
        /\ \A k \in DOMAIN less : less[k].pair # p
        /\ Detector!StampsOf(less, p) = <<>>
        /\ \A q \in Pairs \ {p} : Detector!StampsOf(less, q) = Detector!StampsOf(table, q)
    <2>1. Table(less) /\ Len(less) <= Len(table) /\ Ordered(less, others)
      BY <1>4, WithoutIs
    <2>2. Len(table) \in Nat /\ Len(less) \in Nat
      BY <1>4, <2>1 DEF Table
    <2>. QED  BY <1>1, <1>4, <2>1, <2>2, WithoutIs
  <1>6. /\ stamps \in Seq(Nat) /\ Len(stamps) = Len(seen) + 1
        /\ live \in Seq(Nat) /\ Len(live) = Len(true) + 1 /\ Len(true) \in Nat /\ Len(seen) \in Nat
    BY <1>1, <1>3
  <1>. HIDE DEF seen, less, true
  <1>7. Ordered(less, others')
    <2>1. less \in Seq([pair : Pairs, stamps : Seq(Nat)])
      BY <1>5 DEF Table
    <2>2. \A k \in DOMAIN less : less[k].pair \in Pairs \ {p}
      <3>. DEFINE R == [pair : Pairs, stamps : Seq(Nat)]
      <3>1. less \in Seq(R) /\ \A r \in R : r.pair \in Pairs
        BY <2>1
      <3>. HIDE DEF R
      <3>2. \A k \in DOMAIN less : less[k] \in R
        BY <3>1
      <3>. QED  BY <1>5, <3>1, <3>2
    <2>3. \A q \in Pairs \ {p} : others[q] \subseteq others'[q]
      BY <1>2
    <2>. QED  BY <1>5, <2>2, <2>3 DEF Ordered
  <1>8. /\ Table(more) /\ Len(more) = Len(less) + 1 /\ Ordered(more, others')
        /\ Detector!StampsOf(more, p) = stamps
        /\ \A q \in Pairs \ {p} : Detector!StampsOf(more, q) = Detector!StampsOf(table, q)
    <2>1. \A q \in Pairs \ {p} : p \in others'[q]
      BY <1>2
    <2>. HIDE DEF stamps
    <2>. QED  BY <1>5, <1>6, <1>7, <2>1, AddedIs
  <1>. HIDE DEF stamps, live, more
  <1>9. others' \in [Pairs -> SUBSET Pairs] /\ \A q \in Pairs : IsFiniteSet(others'[q])
    <2>1. others' \in [Pairs -> SUBSET Pairs]
      BY <1>1, <1>2
    <2>2. ASSUME NEW q \in Pairs PROVE IsFiniteSet(others'[q])
      <3>1. others'[q] = {} \/ others'[q] = others[q] \cup {p}
        BY <1>2
      <3>2. IsFiniteSet({}) /\ IsFiniteSet(others[q])
        BY <1>1, FS_EmptySet
      <3>3. IsFiniteSet(others[q] \cup {p})
        BY <3>2, FS_AddElement
      <3>. QED  BY <3>1, <3>2, <3>3
    <2>. QED  BY <2>1, <2>2
  <1>10. /\ Table(windows') /\ Len(windows') <= MaxTracked /\ Ordered(windows', others')
         /\ \A q \in Pairs \ {p} :
                \/ Detector!StampsOf(windows', q) = Detector!StampsOf(table, q)
                \/ Detector!StampsOf(windows', q) = <<>> /\ q \in crowded'
         /\ ~crosses => \/ Detector!StampsOf(windows', p) = stamps
                        \/ Detector!StampsOf(windows', p) = <<>> /\ p \in crowded'
         /\ crosses => Detector!StampsOf(windows', p) = <<>>
    <2>0. Len(more) \in Nat /\ Len(less) \in Nat
      BY <1>5, <1>8 DEF Table
    <2>1. CASE crosses
      BY <1>2, <1>5, <1>7, <2>1
    <2>2. CASE ~crosses /\ ~(Len(more) > MaxTracked)
      <3>1. windows' = more
        BY <1>2, <2>2 DEF Detector!Bounded
      <3>. QED  BY <1>1, <1>8, <2>0, <2>2, <3>1
    <2>3. CASE ~crosses /\ Len(more) > MaxTracked
      <3>1. windows' = Tail(more)
        BY <1>2, <2>3 DEF Detector!Bounded
      <3>2. Len(more) = MaxTracked + 1 /\ more # <<>>
        BY <1>1, <1>5, <1>8, <2>0, <2>3
      <3>. DEFINE q == more[1].pair
      <3>3. /\ Table(windows') /\ Len(windows') = MaxTracked /\ Ordered(windows', others')
            /\ q \in Pairs /\ Detector!StampsOf(windows', q) = <<>>
            /\ \A r \in Pairs \ {q} : Detector!StampsOf(windows', r) = Detector!StampsOf(more, r)
        BY <1>1, <1>8, <3>1, <3>2, TailIs
      <3>4. q \in crowded'
        <4>1. Cardinality(others'[q]) >= Len(more) - 1
          BY <1>8, <1>9, <3>2, <3>3, FirstHasMet
        <4>2. Cardinality(others'[q]) >= MaxTracked
          BY <1>1, <3>2, <4>1
        <4>. HIDE DEF q
        <4>. QED  BY <1>2, <2>3, <3>3, <4>2
      <3>. HIDE DEF q
      <3>. QED  BY <1>1, <1>8, <2>3, <3>3, <3>4
    <2>. QED  BY <2>1, <2>2, <2>3
  <1>11. ASSUME NEW q \in Pairs \ {p}
         PROVE  Recorded(denials[q])' /\ (Len(Detector!StampsOf(windows, q)) < Threshold)' /\ Counted(q)'
    <2>. DEFINE then == Detector!StampsOf(windows', q)
                found == Detector!StampsOf(table, q)
    <2>1. Recorded(denials[q]) /\ Counted(q)
      BY DEF ProbeInv
    <2>2. /\ found \in Seq(Nat) /\ Len(found) < Threshold
          /\ \A t \in Int : t >= now - Window => Newer(found, t) = Newer(Detector!StampsOf(windows, q), t)
      BY FoundAre DEF table
    <2>3. denials'[q] = denials[q] /\ (q \notin crowded' => q \notin crowded)
      BY <1>1, <1>2
    <2>4. Recorded(denials[q])'
      BY <1>2, <2>1, <2>3 DEF Recorded
    <2>5. Detector!StampsOf(windows, q)' = then
      BY DEF Detector!StampsOf
    <2>6. \/ then = found
          \/ then = <<>> /\ q \in crowded'
      BY <1>10
    <2>. HIDE DEF then, found
    <2>7. Len(then) < Threshold
      BY <1>1, <2>2, <2>6
    <2>8. ASSUME NEW t \in Int, t >= now - Window
          PROVE  Newer(then, t) <= Newer(denials[q], t)
                    /\ (q \notin crowded' => Newer(then, t) = Newer(denials[q], t))
      <3>1. /\ Newer(found, t) <= Newer(denials[q], t)
            /\ q \notin crowded => Newer(found, t) = Newer(denials[q], t)
        BY <2>1, <2>2, <2>8 DEF Counted
      <3>2. denials[q] \in Seq(Nat)
        BY <1>1
      <3>3. Newer(denials[q], t) \in 0 .. Len(denials[q])
        BY <3>2, NewerBounded
      <3>4. 0 <= Newer(denials[q], t)
        BY <3>2, <3>3
      <3>. QED  BY <2>3, <2>6, <3>1, <3>4, NewerOfNone
    <2>9. Counted(q)'
      <3>1. \A t : Newer(Detector!StampsOf(windows, q), t)' = Newer(then, t)
                     /\ Newer(denials[q], t)' = Newer(denials[q], t)
        BY <2>3, <2>5 DEF Newer
      <3>. QED  BY <1>2, <2>8, <3>1 DEF Counted
    <2>. QED  BY <2>4, <2>5, <2>7, <2>9
  <1>12. Recorded(denials[p])' /\ (Len(Detector!StampsOf(windows, p)) < Threshold)' /\ Counted(p)'
    <2>. DEFINE then == Detector!StampsOf(windows', p)
    <2>1. Detector!StampsOf(windows, p)' = then
      BY DEF Detector!StampsOf
    <2>2. denials'[p] = IF crosses THEN <<>> ELSE kept
      BY <1>1, <1>2
    <2>. HIDE DEF then
    <2>3. \A t, s : denials'[p] = s => Newer(Detector!StampsOf(windows, p), t)' = Newer(then, t)
                                         /\ Newer(denials[p], t)' = Newer(s, t)
      BY <2>1 DEF Newer
    <2>4. CASE crosses
      <3>1. then = <<>> /\ denials'[p] = <<>>
        BY <1>10, <2>2, <2>4 DEF then
      <3>2. Recorded(denials[p])'
        <4>1. <<>> \in Seq(Nat) /\ Len(<<>>) = 0 /\ DOMAIN <<>> = {}
          OBVIOUS
        <4>. QED  BY <1>1, <3>1, <4>1 DEF Recorded
      <3>3. Counted(p)'
        <4>1. \A t : /\ Newer(Detector!StampsOf(windows, p), t)' = 0
                     /\ Newer(denials[p], t)' = 0
          BY <2>3, <3>1, NewerOfNone
        <4>. QED  BY <4>1 DEF Counted
      <3>. QED  BY <1>1, <2>1, <3>1, <3>2, <3>3
    <2>5. CASE ~crosses
      <3>1. Len(seen) + 1 < Threshold
        BY <1>1, <1>6, <2>5
      <3>2. ASSUME NEW t \in Int, t >= now - Window
            PROVE  /\ Recorded(kept) /\ Newer(stamps, t) <= Newer(kept, t)
                   /\ p \notin crowded => Newer(stamps, t) = Newer(kept, t)
        BY <1>1, <1>3, <3>1, <3>2, OneMoreDenial DEF stamps, live
      <3>3. denials'[p] = kept
        BY <2>2, <2>5
      <3>. HIDE DEF kept
      <3>4. \/ then = stamps
            \/ then = <<>> /\ p \in crowded'
        BY <1>10, <2>5 DEF then
      <3>5. p \notin crowded' => p \notin crowded
        BY <1>2, <2>5
      <3>6. Recorded(kept)
        <4>1. now - Window \in Int /\ now - Window >= now - Window
          BY <1>1
        <4>. QED  BY <3>2, <4>1
      <3>7. Recorded(denials[p])'
        BY <1>2, <3>3, <3>6 DEF Recorded
      <3>8. Len(then) < Threshold
        BY <1>1, <1>6, <3>1, <3>4
      <3>9. ASSUME NEW t \in Int, t >= now - Window
            PROVE  Newer(then, t) <= Newer(kept, t) /\ (p \notin crowded' => Newer(then, t) = Newer(kept, t))
        <4>1. kept \in Seq(Nat)
          BY <3>6 DEF Recorded
        <4>2. Newer(kept, t) \in 0 .. Len(kept)
          BY <4>1, NewerBounded
        <4>3. 0 <= Newer(kept, t)
          BY <4>1, <4>2
        <4>. QED  BY <3>2, <3>4, <3>5, <3>9, <4>3, NewerOfNone
      <3>10. Counted(p)'
        BY <1>2, <2>3, <3>3, <3>9 DEF Counted
      <3>. QED  BY <2>1, <3>7, <3>8, <3>10
    <2>. QED  BY <2>4, <2>5
  <1>13. fired' => due'
    <2>1. Len(stamps) <= Len(live) /\ Len(stamps) \in Nat /\ Len(live) \in Nat
      BY <1>3, <1>6
    <2>2. fired' => Len(stamps) >= Threshold
      BY <1>2
    <2>3. Len(live) >= Threshold => due'
      BY <1>2
    <2>. QED  BY <1>1, <2>1, <2>2, <2>3
  <1>14. denials' \in [Pairs -> Seq(Nat)]
    <2>1. ASSUME NEW q \in Pairs PROVE denials'[q] \in Seq(Nat)
      BY <1>11, <1>12 DEF Recorded
    <2>2. denials' = [q \in Pairs |-> denials'[q]]
      BY <1>1, <1>2
    <2>. QED  BY <2>1, <2>2
  <1>15. \A q \in Pairs : Recorded(denials[q])' /\ (Len(Detector!StampsOf(windows, q)) < Threshold)' /\ Counted(q)'
    BY <1>11, <1>12
  <1>16. Table(windows)' /\ (Len(windows) <= MaxTracked)' /\ Ordered(windows, others)'
    BY <1>10 DEF Table, Ordered
  <1>. QED  BY <1>1, <1>2, <1>9, <1>13, <1>14, <1>15, <1>16 DEF ProbeInv

\* Every step of the detector.
LEMMA ProbeNext == ProbeInv /\ [Detector!Next]_Detector!vars => ProbeInv'
  <1>. SUFFICES ASSUME ProbeInv, [Detector!Next]_Detector!vars PROVE ProbeInv'
    OBVIOUS
  <1>1. CASE UNCHANGED Detector!vars
    <2>1. /\ now' = now /\ windows' = windows /\ fired' = fired /\ denials' = denials
          /\ others' = others /\ crowded' = crowded /\ due' = due
      BY <1>1 DEF Detector!vars
    <2>2. \A p : Detector!StampsOf(windows, p)' = Detector!StampsOf(windows, p)
      BY <2>1 DEF Detector!StampsOf
    <2>3. ASSUME NEW p \in Pairs
          PROVE  Recorded(denials[p])' /\ (Len(Detector!StampsOf(windows, p)) < Threshold)' /\ Counted(p)'
      <3>1. Recorded(denials[p]) /\ Counted(p) /\ Len(Detector!StampsOf(windows, p)) < Threshold
        BY DEF ProbeInv
      <3>. QED  BY <2>1, <2>2, <3>1 DEF Recorded, Counted, Newer
    <2>. QED  BY <2>1, <2>3 DEF ProbeInv, Table, Ordered
  <1>. QED  BY <1>1, TickKeeps, RecordKeeps DEF Detector!Next

\* The count in the window, from the invariant at the window's edge.
LEMMA ProbeCounts == ProbeInv => CountsTruly
  <1>. SUFFICES ASSUME ProbeInv PROVE CountsTruly
    OBVIOUS
  <1>1. ASSUME NEW p \in Pairs
        PROVE  LET counted == Len(Detector!Live(Detector!StampsOf(windows, p)))
                   true    == Len(Detector!Live(denials[p]))
               IN  counted <= true /\ (p \notin crowded => counted = true /\ true < Threshold)
    <2>1. Detector!StampsOf(Detector!Swept, p) = Detector!Live(Detector!StampsOf(windows, p))
      BY SweptIs DEF ProbeInv
    <2>. QED  BY <2>1, FoundAre
  <1>. QED  BY <1>1 DEF CountsTruly, Detector!CountsTruly, ProbeInv

\* For any pairs, window, threshold and size of the table: the detector never fires
\* early, and misses a denial only of a pair that was not denied while as many others
\* as the table holds were (createProbingDetector of probing.ts).
THEOREM CountsAreTrue == AllSpec => []CountsTruly
  <1>1. AllSpec => Detector!Spec
    <2>1. AllInit => Detector!Init
      BY DEF AllInit
    <2>2. [AllNext]_allVars => [Detector!Next]_Detector!vars
      BY DEF AllNext, DecideCall, PresentGrant, Over, SetUp, Pass, Probe, allVars, probingVars,
             Detector!vars
    <2>. QED  BY <2>1, <2>2, PTL DEF AllSpec, Detector!Spec
  <1>. QED  BY <1>1, ProbeInit, ProbeNext, ProbeCounts, PTL DEF Detector!Spec
=============================================================================
