------------------------------- MODULE MCPolicy -------------------------------
(***************************************************************************)
(* Policy for TLC: every call of a small world, every grant of another,    *)
(* two servers and one pack, two calls at a time over one cache, and three *)
(* pairs in a table for two.                                               *)
(***************************************************************************)
EXTENDS Policy

-----------------------------------------------------------------------------
(* The calls: the windows put the clock on each side of both of their ends. *)

SomeEntries == [tier : Tiers, source : {"user", "pack"}, allow : BOOLEAN, deny : BOOLEAN]

SomePolicies ==
    [entry : SomeEntries, unknown : {"sensitive"}, destructive : {FALSE}]
        \cup [entry : {NoEntry}, unknown : {"sensitive", "critical"}, destructive : BOOLEAN]

SomeEnvelopes ==
    [denied : {FALSE}, forced : {FALSE}, forcedTiers : {{}, {"sensitive"}, {"critical"}},
     floor : Tiers \cup {NoTier}, ceiling : Tiers \cup {NoTier}]
        \cup {[OpenEnvelope EXCEPT !.denied = TRUE, !.floor = f] : f \in Tiers}
        \cup {[OpenEnvelope EXCEPT !.forced = TRUE, !.floor = f] : f \in Tiers}

\* Live in its first second and in its last, expired, and not valid yet.
Windows == {<<Clock, Clock + 1>>, <<0, Clock>>, <<Clock + 1, Clock + 2>>}

Grant(id, cap, window) == [jti |-> id, cap |-> cap, nbf |-> window[1], exp |-> window[2]]

Listings ==
    {<<>>}
        \cup {<<Grant("g1", c, w)>> : c \in Tiers, w \in Windows}
        \cup {<<Grant("g1", c, w), Grant("g2", d, v)>> :
                  c \in Tiers, w \in Windows, d \in Tiers, v \in Windows}

-----------------------------------------------------------------------------
(* The grants and the calls they are presented with. *)

Name(space, name) == [space |-> space, name |-> name]
Value(shape, text) == [shape |-> shape, text |-> text]

BaseMessage ==
    [method |-> "tools/call", id |-> 1, name |-> Name("github", "push"),
     arguments |-> [repo |-> Value("string", Name("acme", "web")), branch |-> Value("string", "main")]]

Mapped ==
    [type |-> Literal("repo"), id |-> Ref("repo"),
     properties |-> [visibility |-> Ref("visibility"), branch |-> Ref("branch")]]

Somebody == [type |-> "user", id |-> "kai"]

BaseSetting == [identity |-> Somebody, agent |-> "claude", mapping |-> Mapped, server |-> "github"]

BaseWire ==
    [message |-> BaseMessage, tier |-> "sensitive", now |-> Clock, keys |-> {"k1"},
     setting |-> BaseSetting]

\* base, and what differs from a member of bases in one field.
Variants(bases, values) ==
    bases \cup UNION {{[b EXCEPT ![f] = v] : b \in bases, v \in values[f]} : f \in DOMAIN values}

OtherArguments ==
    {Absent, Bad}
        \cup {[BaseMessage.arguments EXCEPT !.repo = v] :
                  v \in {Value("string", Name("acme", "api")), Value("string", Name("other", "web")),
                         Value("object", Name("acme", "web"))}}
        \cup {[BaseMessage.arguments EXCEPT !.branch = v] :
                  v \in {Value("string", "dev"), Value("object", "main")}}
        \cup {[repo |-> BaseMessage.arguments.repo, branch |-> BaseMessage.arguments.branch,
                 visibility |-> Value("string", "private")]}

OtherWires ==
    [message |-> Variants({BaseMessage},
        [id |-> {Absent}, name |-> {Bad, Name("github", "pull"), Name("files", "push")},
         arguments |-> OtherArguments]),
     setting |-> Variants({BaseSetting},
        [identity |-> {[type |-> "user", id |-> "eve"], [type |-> Absent, id |-> Absent]},
         agent |-> {"cursor", Absent},
         mapping |-> {Unconfigured, [Mapped EXCEPT !.type = Literal("org")],
                      [Mapped EXCEPT !.properties = Unconfigured.properties]},
         server |-> {Absent}]),
     tier |-> {"routine", "critical"}, now |-> {Clock + 1, Clock + 2}, keys |-> {{}, {"k1", "k2"}}]

\* The calls of the wire that come to be decided, and with what.
CallOn(w) == CallOf(w.message, w.setting, w.tier, w.now, w.keys)

BaseCall == CallOn(BaseWire)

CallsMade ==
    {CallOn(w) : w \in {v \in Variants({BaseWire}, OtherWires) : Parse(v.message) # Malformed}}

BaseInput ==
    [kind |-> "durable", callHash |-> Absent, singleUse |-> Absent, ttl |-> 2, nbf |-> Absent,
     principal |-> Somebody, agent |-> BaseCall.agent, tool |-> BaseCall.tool,
     type |-> Absent, id |-> Absent, conditions |-> Absent, tier |-> "sensitive"]

OtherInputs ==
    [singleUse |-> BOOLEAN, ttl |-> {0, 1}, nbf |-> {Clock, Clock + 1}, agent |-> {Any},
     tool |-> {Name("github", "*"), Name("*", "*")}, type |-> {"repo"},
     id |-> {Name("acme", "web"), Name("acme", "*"), Name("*", "*")},
     conditions |-> {"empty", "some"}, tier |-> {"routine", "critical"}]

\* The flags of knotrust grant, two of them at a time other than usual.
BaseFlags ==
    [tool |-> Name("github", "push"), server |-> "github", agent |-> Absent, cap |-> Absent,
     expires |-> Absent, resource |-> Absent, understood |-> TRUE]

OtherFlags ==
    [tool |-> {Absent, Name("github", "*")}, agent |-> {Bad, "claude"}, cap |-> {Bad, "routine", "critical"},
     expires |-> {Bad, <<>>, <<[count |-> 0, unit |-> "d"], [count |-> 1, unit |-> "s"]>>},
     resource |-> {[colon |-> FALSE, before |-> Name("acme", "web"), behind |-> Absent],
                   [colon |-> TRUE, before |-> "repo", behind |-> Name("acme", "*")]},
     understood |-> {FALSE}]

GrantsAsked ==
    {MintInput(GrantArgs(f), Somebody) :
        f \in {g \in Variants(Variants({BaseFlags}, OtherFlags), OtherFlags) : GrantOk(g)}}

\* Durable and ephemeral ones, and one damaged in each of its members.
SomePapers ==
    LET durable   == Variants(Variants({BaseInput}, OtherInputs), OtherInputs)
        ephemeral == Variants({[BaseInput EXCEPT !.kind = "ephemeral"]}, OtherInputs)
        sound     ==
            [input : durable \cup GrantsAsked, call : {BaseCall}, damaged : {NoDamage}]
                \cup {[input |-> [i EXCEPT !.callHash = CallHash(c)], call |-> c, damaged |-> NoDamage] :
                         i \in ephemeral, c \in CallsMade}
                \cup {[input |-> i, call |-> BaseCall, damaged |-> NoDamage] : i \in ephemeral}
        spoiled   ==
            {[input |-> BaseInput, call |-> BaseCall, damaged |-> f] :
                f \in Members}
    IN  {p \in sound \cup spoiled : Mintable(p.input)}

\* Every name is shown as it is.
Shown(name) == TRUE

-----------------------------------------------------------------------------
(* The configurations, the edits and the packs of Setup. *)

CONSTANTS github, files, path

Entry(tier, source, allow, deny) ==
    [tier |-> tier, source |-> source, allow |-> allow, deny |-> deny, mapping |-> path]

Config(g, f) == [DefaultConfig EXCEPT !.servers[github] = g, !.servers[files] = f]

SomeConfigs ==
    {Config(e, NoServer) : e \in
        {NoServer, Entry("sensitive", "pack", FALSE, FALSE), Entry("critical", "annotation", TRUE, TRUE),
         Entry("sensitive", "user", TRUE, FALSE), Entry("routine", "user", FALSE, TRUE)}}

ByHand == {Entry("critical", "user", FALSE, FALSE)}

SomeHints == {[s \in Servers |-> IF s = github THEN h ELSE "none"] : h \in {"readOnly", "both"}}

SomePacks == {[server |-> github, tier |-> t, mapping |-> NoMapping] : t \in {"routine", "critical"}}

-----------------------------------------------------------------------------
(* The inputs of the pipeline: two that differ in the grants alone, two that
   differ in what the server says, in the policy, and in the envelope.       *)

UnlistedTool(destructive) == [entry |-> NoEntry, unknown |-> "sensitive", destructive |-> destructive]

Asking(policyAsked, envelopeAsked, grantsAsked) ==
    [policy |-> policyAsked, envelope |-> envelopeAsked, grants |-> grantsAsked]

Covering == <<Grant("g1", "sensitive", <<0, Clock + 1>>)>>

SomeInputs ==
    {Asking(UnlistedTool(FALSE), OpenEnvelope, <<>>), Asking(UnlistedTool(FALSE), OpenEnvelope, Covering),
     Asking(UnlistedTool(TRUE), OpenEnvelope, Covering),
     Asking([UnlistedTool(FALSE) EXCEPT !.entry =
                [tier |-> "sensitive", source |-> "user", allow |-> FALSE, deny |-> TRUE]],
            OpenEnvelope, <<>>),
     Asking(UnlistedTool(FALSE), [OpenEnvelope EXCEPT !.ceiling = "routine"], Covering)}

=============================================================================
