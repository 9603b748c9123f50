------------------------------ MODULE PolicyFile ------------------------------
(***************************************************************************)
(* What a knotrust.config says and what the commands make of it: the       *)
(* schema and the normalisers of packages/store/src/config.ts, the         *)
(* suggestions of tool-inventory.ts and init/config-generate.ts, and the   *)
(* merge of a pack (add/pack-merge.ts).  Pure, as that code is.            *)
(*                                                                         *)
(* Every server has one tool: entries do not depend on each other.         *)
(*   config  [servers, unknown, envelope]                                  *)
(*   servers server -> entry, NoTool (no entry) or NoServer (no such key)  *)
(*   entry   [tier, source, allow, deny, mapping]                          *)
(* envelope stands for every field that no command writes.                 *)
(***************************************************************************)
EXTENDS Precedence

CONSTANTS
    Servers,    \* keys of config.servers
    Mappings,   \* what a mapping may be
    NoServer, NoTool, NoMapping

\* A file may name any source, and set the explicit flags on any of them.
ToolEntries ==
    [tier : Tiers, source : {"user", "pack", "annotation"}, allow : BOOLEAN, deny : BOOLEAN,
     mapping : Mappings \cup {NoMapping}]

ASSUME PolicyFileAssumption ==
    NoServer # NoTool /\ NoMapping \notin Mappings /\ {NoServer, NoTool} \cap ToolEntries = {}

Configs ==
    [servers : [Servers -> ToolEntries \cup {NoTool, NoServer}],
     unknown : {"sensitive", "critical"}, envelope : Envelopes]

\* What runs without a file, and what init starts a new one from.
DefaultConfig ==
    [servers |-> [s \in Servers |-> NoServer], unknown |-> "sensitive", envelope |-> OpenEnvelope]

IsEntry(e) == e \notin {NoTool, NoServer}

\* toTierPolicy: an unconfigured server has an empty policy, a mapping is dropped.
PolicyFor(config, s) ==
    LET e == config.servers[s]
    IN  [entry |-> IF IsEntry(e)
                   THEN [tier |-> e.tier, source |-> e.source, allow |-> e.allow, deny |-> e.deny]
                   ELSE NoEntry,
         unknown |-> config.unknown, destructive |-> FALSE]

\* toAdminEnvelope: a copy of the envelope; the scope it adds decides nothing.
EnvelopeFor(config) == config.envelope

-----------------------------------------------------------------------------
(* Suggestions from what a server says of its tool. *)

\* The hints of the tool, or that the server lists no tool.
Hints == {"none", "readOnly", "destructive", "both", "noTool"}

\* seedTierEntriesFromAnnotations: a contradiction takes the higher tier.
SeedTier(hint, unknown) ==
    IF hint \in {"destructive", "both"} THEN "sensitive"
    ELSE IF hint = "readOnly" THEN "routine" ELSE unknown

Suggestion(hint, unknown) ==
    [tier |-> SeedTier(hint, unknown), source |-> "annotation", allow |-> FALSE,
     deny |-> FALSE, mapping |-> NoMapping]

\* fromConfigToolEntries and toConfigToolEntries know no mapping, and leave a
\* server without entries an empty table.
Unmapped(e) == IF IsEntry(e) THEN [e EXCEPT !.mapping = NoMapping] ELSE NoTool

\* mergeSeededTiers: only an older suggestion gives way to a new one.
Seeded(e, hint, unknown) ==
    IF hint # "noTool" /\ (IsEntry(e) => e.source = "annotation")
    THEN Suggestion(hint, unknown) ELSE Unmapped(e)

\* A capture that failed leaves the entry of the server as it is.
Skeleton(e) == IF e = NoServer THEN NoTool ELSE e

\* buildGeneratedConfig; captured maps the servers of this run to what they
\* say of their tool, or to "failed".
Generated(config, captured) ==
    [config EXCEPT !.servers =
        [s \in Servers |->
            IF s \notin DOMAIN captured THEN config.servers[s]
            ELSE IF captured[s] = "failed" THEN Skeleton(config.servers[s])
            ELSE Seeded(config.servers[s], captured[s], config.unknown)]]

-----------------------------------------------------------------------------
(* Packs. *)

\* PackSchema: a tier and a mapping; the explicit flags are refused.
Packs == [server : Servers, tier : Tiers, mapping : Mappings \cup {NoMapping}]

\* toPackToolEntry.
PackEntry(pack) ==
    [tier |-> pack.tier, source |-> "pack", allow |-> FALSE, deny |-> FALSE,
     mapping |-> pack.mapping]

\* Variant: a pack that raises the tier replaces the user's entry.
PackedOverUser(e, pack) ==
    IF IsEntry(e) /\ e.source = "user" /\ Rank(e.tier) >= Rank(pack.tier)
    THEN e ELSE PackEntry(pack)

\* mergePackIntoTools: never over the user.
Packed(e, pack) == IF IsEntry(e) /\ e.source = "user" THEN e ELSE PackEntry(pack)

Applied(config, pack) ==
    [config EXCEPT !.servers[pack.server] = Packed(config.servers[pack.server], pack)]

=============================================================================
