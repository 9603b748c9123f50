------------------------------ MODULE Credential ------------------------------
(***************************************************************************)
(* A grant as a signed credential: what mintGrant accepts and writes       *)
(* (packages/grants/src/mint.ts), the wire form (claims.ts), the hash that *)
(* binds an ephemeral grant to one call (callhash.ts) and the offline      *)
(* verifier with its fixed order of checks (verify.ts).  Pure, as that     *)
(* code is.  The SHA-256 of a value is the value, a signature names its    *)
(* signer, and base64 and JSON lose nothing.                               *)
(*                                                                         *)
(*   token  header and wire claims in one record; Absent where an optional *)
(*          member is missing, Bad where one has the wrong shape           *)
(*   call   [principal, agent, tool, type, id, properties, arguments,      *)
(*          tier, now, keys]                                               *)
(* Tools and resource ids are [space, name]; a pattern has "*" for a name, *)
(* or for both.                                                            *)
(***************************************************************************)
EXTENDS Precedence

CONSTANTS
    Absent,  \* an optional member that is not there
    Bad,     \* a member of the wrong shape
    Any      \* the agent pattern "*"

\* A value that is there and has its shape.
Proper(value) == value \notin {Absent, Bad}

Kinds == {"durable", "ephemeral"}

\* The two marks differ, and no number, truth value or text of a token is one.
ASSUME CredentialAssumption ==
    /\ Absent # Bad /\ {Absent, Bad} \cap Int = {} /\ {Absent, Bad} \cap BOOLEAN = {}
    /\ {Absent, Bad} \cap (Kinds \cup Tiers \cup {"EdDSA", "knotrust-grant", "empty", "some"}) = {}

-----------------------------------------------------------------------------
(* The call-hash. *)

\* sarcNormalForm and computeCallHash: the type of the subject and of the agent
\* are not part of it.
CallHash(call) ==
    <<1, call.principal.id, call.tool, call.type, call.id, call.properties, call.agent.id,
      call.arguments>>

-----------------------------------------------------------------------------
(* Minting. *)

Refused == "refused"

SingleUse(input) == IF input.singleUse = Absent THEN input.kind = "ephemeral" ELSE input.singleUse

\* mintGrant: an ephemeral grant is bound to a call and used once, a durable one
\* is never bound.
Mintable(input) ==
    /\ input.ttl > 0
    /\ input.nbf # Absent => input.nbf >= 0
    /\ input.kind = "ephemeral" => input.callHash # Absent /\ SingleUse(input)
    /\ input.kind = "durable" => input.callHash = Absent

\* claimsToWire: empty conditions are left off like absent ones.
Wired(conditions) == IF conditions = "empty" THEN Absent ELSE conditions

\* The header, the claims and the signature of a new grant.
Mint(input, kid, now) ==
    IF ~Mintable(input) THEN Refused
    ELSE [segments |-> 3, size |-> "short", alg |-> "EdDSA", typ |-> "knotrust-grant", crit |-> Absent,
          kid |-> kid, signer |-> kid, v |-> 1, exp |-> now + input.ttl, nbf |-> input.nbf,
          kind |-> input.kind, singleUse |-> SingleUse(input), principal |-> input.principal,
          agent |-> input.agent, tool |-> input.tool, type |-> input.type, id |-> input.id,
          conditions |-> Wired(input.conditions), tier |-> input.tier, callHash |-> input.callHash]

-----------------------------------------------------------------------------
(* Verification. *)

\* parseJwsHeader: one algorithm, one type, a key id, and no critical extension.
HeaderOk(token) ==
    /\ token.alg = "EdDSA" /\ token.typ = "knotrust-grant"
    /\ token.kid # Bad
    /\ token.crit = Absent

Required == {"exp", "kind", "singleUse", "principal", "agent", "tool", "tier"}

\* parseWireClaims: every member has its shape, and a call-hash is there exactly
\* on ephemeral grants.
ClaimsOk(token) ==
    /\ token.v = 1
    /\ \A member \in Required : token[member] \notin {Absent, Bad}
    /\ \A member \in {"nbf", "type", "id", "conditions", "callHash"} : token[member] # Bad
    /\ token.kind = "ephemeral" <=> token.callHash # Absent

AgentMatches(pattern, agent) == pattern = Any \/ pattern = agent

\* toolMatches, and an idPattern as well.
Matches(pattern, thing) ==
    \/ pattern = [space |-> "*", name |-> "*"]
    \/ pattern.name = "*" /\ pattern.space = thing.space
    \/ pattern = thing

\* scopeMatches: an absent member is no constraint.
ScopeMatches(token, call) ==
    /\ token.type # Absent => token.type = call.type
    /\ token.id # Absent => Matches(token.id, call.id)

Bound(token, call) == token.callHash # Absent => token.callHash = CallHash(call)

Capped(token, call) == Rank(token.tier) < Rank(call.tier)

\* Variant: the cap is checked before the call-hash.
CapAndCall(token, call) ==
    IF Capped(token, call) THEN "tier_cap_violation"
    ELSE IF ~Bound(token, call) THEN "grant_call_mismatch"
    ELSE "ok"

\* The last two checks: a cap that is too low is only held against a grant for
\* this very call.
CallAndCap(token, call) ==
    IF ~Bound(token, call) THEN "grant_call_mismatch"
    ELSE IF Capped(token, call) THEN "tier_cap_violation"
    ELSE "ok"

\* verifyGrant: the first check that fails gives the reason.
Verify(token, call) ==
    IF token.segments # 3 \/ token.size = "oversized" \/ ~HeaderOk(token) \/ ~ClaimsOk(token)
    THEN "grant_malformed"
    ELSE IF token.kid \notin call.keys THEN "grant_unknown_key"
    ELSE IF token.signer # token.kid THEN "grant_invalid_signature"
    ELSE IF call.now >= token.exp THEN "grant_expired"
    ELSE IF token.nbf # Absent /\ call.now < token.nbf THEN "grant_not_yet_valid"
    ELSE IF token.principal # call.principal THEN "grant_principal_mismatch"
    ELSE IF ~AgentMatches(token.agent, call.agent) THEN "grant_agent_mismatch"
    ELSE IF ~Matches(token.tool, call.tool) THEN "grant_tool_mismatch"
    ELSE IF ~ScopeMatches(token, call) THEN "grant_scope_mismatch"
    ELSE IF token.conditions = "some" THEN "conditions_unsupported"
    ELSE CallAndCap(token, call)

\* collectCoveringGrants hands a grant to the precedence in both cases.
HandedOn(token, call) == Verify(token, call) \in {"ok", "tier_cap_violation"}

=============================================================================
