----------------------------- MODULE PresentedGrant -----------------------------
(***************************************************************************)
(* One grant, minted, perhaps damaged, and presented with one call         *)
(* (Credential): collectCoveringGrants verifies it, and the precedence     *)
(* decides with it or without it.                                          *)
(*                                                                         *)
(*   paper  [input, call, damaged]: what the grant is minted from, the     *)
(*          call an ephemeral one is minted for, and the member of the     *)
(*          token that a hand or a disk has spoiled since                  *)
(***************************************************************************)
EXTENDS Credential

CONSTANTS
    Papers,    \* the grants there may be
    Presented, \* the calls they may be presented with
    MintedAt,  \* the time of the mint
    SignedBy   \* the key of this home directory

\* A name, and a pattern: "*" stands for a name, or for all there is.
IsName(thing) == thing = [space |-> thing.space, name |-> thing.name]
IsPattern(pattern) == IsName(pattern) /\ (pattern.space = "*" => pattern.name = "*")

\* A call, as CallOf makes one.
IsCall(made) ==
    /\ made = [principal |-> made.principal, agent |-> made.agent, tool |-> made.tool,
               type |-> made.type, id |-> made.id, properties |-> made.properties,
               arguments |-> made.arguments, tier |-> made.tier, now |-> made.now,
               keys |-> made.keys]
    /\ IsName(made.tool) /\ IsName(made.id)
    /\ made.tier \in Tiers /\ made.now \in Nat

\* What a grant is minted from, as the type of the input lets it.
IsInput(input) ==
    /\ input.kind \in Kinds /\ input.singleUse \in BOOLEAN \cup {Absent}
    /\ input.ttl \in Nat /\ input.nbf \in Nat \cup {Absent}
    /\ Proper(input.principal) /\ Proper(input.agent)
    /\ Proper(input.tool) /\ IsPattern(input.tool)
    /\ input.type # Bad /\ input.id # Bad /\ (input.id # Absent => IsPattern(input.id))
    /\ input.conditions \in {Absent, "empty", "some"}
    /\ input.tier \in Tiers

NoDamage == "none"

Members ==
    {"segments", "alg", "typ", "crit", "kid", "signer", "v", "exp", "nbf", "kind", "singleUse",
     "principal", "agent", "tool", "type", "id", "conditions", "tier", "callHash"}

\* A paper is minted, an ephemeral one for its call; and an id says whose it is:
\* the hash leaves the types out.
ASSUME PaperAssumption ==
    /\ MintedAt \in Nat /\ SignedBy # Bad
    /\ \A made \in Presented : IsCall(made) /\ Proper(CallHash(made))
    /\ \A one, two \in Presented :
          /\ one.principal.id = two.principal.id => one.principal = two.principal
          /\ one.agent.id = two.agent.id => one.agent = two.agent
    /\ \A p \in Papers :
          /\ IsInput(p.input) /\ Mintable(p.input) /\ p.damaged \in Members \cup {NoDamage}
          /\ p.input.kind = "ephemeral" => p.call \in Presented /\ p.input.callHash = CallHash(p.call)

VARIABLES paper, call, verdict

paperVars == <<paper, call, verdict>>

TokenOf(p) ==
    LET token == Mint(p.input, SignedBy, MintedAt)
    IN  IF p.damaged = NoDamage THEN token ELSE [token EXCEPT ![p.damaged] = Bad]

\* The policy of a tool of a tier; a sensitive one has the user's standing
\* allow, which an under-capped grant for the call takes away.
PolicyOfTier(t) ==
    [entry |-> [tier |-> t, source |-> "user", allow |-> TRUE, deny |-> FALSE],
     unknown |-> "sensitive", destructive |-> FALSE]

\* The grant as the precedence sees it: an absent nbf is no bound.
Listed(p) ==
    <<[jti |-> "g1", cap |-> p.input.tier, exp |-> MintedAt + p.input.ttl,
       nbf |-> IF p.input.nbf = Absent THEN 0 ELSE p.input.nbf]>>

WithGrants(c, listing) == Evaluate(PolicyOfTier(c.tier), OpenEnvelope, listing, c.now)

NoVerdict == Answer("none", "none", 0, NoGrant)

PaperInit == paper \in Papers /\ call \in Presented /\ verdict = NoVerdict

Present ==
    /\ verdict = NoVerdict
    /\ verdict' = WithGrants(call, IF HandedOn(TokenOf(paper), call) THEN Listed(paper) ELSE <<>>)
    /\ UNCHANGED <<paper, call>>

-----------------------------------------------------------------------------
(* Properties. *)

\* The calls a paper was minted for, member by member.
Meant(p, made) ==
    LET i == p.input
    IN  /\ p.damaged = NoDamage
        /\ SignedBy \in made.keys
        /\ made.now < MintedAt + i.ttl /\ (i.nbf # Absent => i.nbf <= made.now)
        /\ made.principal = i.principal
        /\ i.agent \in {Any, made.agent}
        /\ i.tool.space \in {"*", made.tool.space} /\ i.tool.name \in {"*", made.tool.name}
        /\ i.type \in {Absent, made.type}
        /\ i.id # Absent => i.id.space \in {"*", made.id.space} /\ i.id.name \in {"*", made.id.name}
        /\ i.conditions # "some"
        /\ i.kind = "ephemeral" =>
              \A f \in DOMAIN made \ {"tier", "now", "keys"} : made[f] = p.call[f]

\* A grant bears on exactly the calls it was minted for: for any other call,
\* and once it is damaged, expired or its key withdrawn, the decision is the one
\* without it, be it an allow that an under-capped grant would take away
\* (mintGrant, computeCallHash, verifyGrant's order of checks, the precedence).
GrantBearsOnItsCalls ==
    verdict # NoVerdict =>
        verdict = WithGrants(call, IF Meant(paper, call) THEN Listed(paper) ELSE <<>>)

=============================================================================
