------------------------------- MODULE Pipeline -------------------------------
(***************************************************************************)
(* createDecisionPipeline (packages/core/src/pipeline.ts): a cache in      *)
(* front of any PdpAdapter (pdp-port.ts; packages/pdp/src/l0.ts is the one *)
(* there is).  Unlike the decider it is told the policy, the envelope and  *)
(* the covering grants anew with every call, and it waits for the adapter, *)
(* so calls under different policies interleave over one cache.            *)
(*                                                                         *)
(* The calls are of one subject, tool, resource and arguments; what the    *)
(* server says of the tool (destructive, in the policy record) comes with  *)
(* the call and is no part of its cache key.  An entry may be gone at any  *)
(* time: that stands for the TTL and for the bound of the cache.           *)
(***************************************************************************)
EXTENDS Precedence

CONSTANTS
    Callers,    \* calls of decide() under way
    Inputs,     \* [policy, envelope, grants] a caller may pass
    NoInput,
    AskedAt     \* the clock, in seconds: the grants of Inputs are in or out of their windows

\* An input is its three members, and NoInput is none.
PipelineAssumption ==
    /\ NoInput \notin Inputs
    /\ \A input \in Inputs :
          input = [policy |-> input.policy, envelope |-> input.envelope, grants |-> input.grants]

VARIABLES
    asked,   \* per caller: the input whose adapter has not answered yet
    entries, \* the decision cache
    answer   \* the last response

vars == <<asked, entries, answer>>

Fresh == [hit |-> FALSE]

Init ==
    /\ asked = [c \in Callers |-> NoInput]
    /\ entries = {}
    /\ answer = Fresh

\* resolveTierWithEnvelope, once per call.
TierFor(input) == TierOf(input.policy, input.envelope)

\* Variant: the key has the tier and the configured policyVersion alone.
KeyOfTier(input, tier) == <<tier>>

\* computeEffectivePolicyVersion: the contents of the policy and of the
\* envelope; what the server says of the tool is in neither.
EffectivePolicyVersion(input) == <<input.policy.entry, input.policy.unknown, input.envelope>>

\* computeCacheKey.
Key(input, tier) == <<tier, EffectivePolicyVersion(input)>>

\* The adapter: the L0 evaluator, whose claim of a tier is not to be trusted.
Decided(input) == Evaluate(input.policy, input.envelope, input.grants, AskedAt)

\* toCacheBridgeDecision: the tier resolved here.
TierStored(resolved, claimed) == resolved

\* What set() stores: the decision, and the grants it was made with (history).
Entry(input, tier, decision) ==
    [key |-> Key(input, tier), decision |-> decision, grants |-> input.grants]

\* assembleResponse, off an entry; of an answer of the adapter's own nothing is kept.
Response(input, entry) == [hit |-> TRUE, input |-> input, entry |-> entry]

Cacheable(tier, outcome) == tier # "critical" /\ outcome \in {"allow", "deny"}

\* The cache lookup, under the tier of this call; critical is never looked up.
Ask(c, input) ==
    /\ asked[c] = NoInput
    /\ LET hits == {e \in entries : e.key = Key(input, TierFor(input))}
       IN  IF TierFor(input) # "critical" /\ hits # {}
           THEN /\ answer' = Response(input, CHOOSE e \in hits : TRUE)
                /\ UNCHANGED asked
           ELSE asked' = [asked EXCEPT ![c] = input] /\ UNCHANGED answer
    /\ UNCHANGED entries

\* The adapter's promise resolves: set() if the decision may be cached, over
\* what another call has stored meanwhile, and the response.
AdapterAnswers(c) ==
    /\ asked[c] # NoInput
    /\ \E claimed \in Tiers :
          LET input    == asked[c]
              decision == Decided(input)
              tier     == TierStored(TierFor(input), claimed)
              entry    == Entry(input, tier, decision)
          IN  entries' = IF Cacheable(tier, decision.outcome)
                         THEN {e \in entries : e.key # entry.key} \cup {entry}
                         ELSE entries
    /\ answer' = Fresh
    /\ asked' = [asked EXCEPT ![c] = NoInput]

\* The adapter's promise rejects: decide() throws.
AdapterThrows(c) ==
    /\ asked[c] # NoInput
    /\ asked' = [asked EXCEPT ![c] = NoInput]
    /\ UNCHANGED <<entries, answer>>

Forget ==
    /\ \E e \in entries : entries' = entries \ {e}
    /\ UNCHANGED <<asked, answer>>

Next ==
    \/ \E c \in Callers :
          \/ \E input \in Inputs : Ask(c, input)
          \/ AdapterAnswers(c) \/ AdapterThrows(c)
    \/ Forget

Spec == Init /\ [][Next]_vars

-----------------------------------------------------------------------------
(* Properties. *)

\* A hit is what the adapter would say under the policy and the envelope of
\* this very call, had it the grants the entry was made with, and is never of
\* a critical call: whatever other policies were asked about in between, and
\* whatever tier the adapter claimed (decide() and the cache read together).
HitIsThisPolicy ==
    answer.hit =>
        /\ TierFor(answer.input) # "critical"
        /\ answer.entry.decision = Decided([answer.input EXCEPT !.grants = answer.entry.grants])

=============================================================================
