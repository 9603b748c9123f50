------------------------------- MODULE ToolCall -------------------------------
(***************************************************************************)
(* From a tools/call on the wire to the request that is decided            *)
(* (packages/proxy-stdio/src/enforce.ts).  Pure, as that code is.          *)
(*                                                                         *)
(*   message  [method, id, name, arguments]; Absent or Bad where params    *)
(*            lack a member or have another shape                          *)
(*   arguments  a function from argument paths to values                   *)
(*   value    [shape, text]: the JSON shape, and its text; 42 and "42"     *)
(*            differ in the first only                                     *)
(*   setting  [identity, agent, mapping, server]: what the proxy knows     *)
(***************************************************************************)
EXTENDS Credential

CONSTANT NoRef  \* the mapping says nothing of this member

\* One text, or the argument at a path.
Literal(text) == [from |-> "literal", at |-> text]
Ref(path)     == [from |-> "arguments", at |-> path]

\* A tool without a mapping.
Unconfigured == [type |-> NoRef, id |-> NoRef, properties |-> [k \in {} |-> NoRef]]

OrElse(value, default) == IF value = Absent THEN default ELSE value

-----------------------------------------------------------------------------
(* Parsing. *)

\* null: the message is passed on as it is, for the child to refuse.
Malformed == [name |-> Bad, arguments |-> Absent]

\* isToolsCallRequest: only these are held for a decision.
IsToolsCall(message) == message.method = "tools/call" /\ message.id \notin {Absent, Bad}

\* parseToolsCall: arguments that are not a plain object count as none, though
\* the message that may go to the child still has them.
Parse(message) ==
    IF IsToolsCall(message) /\ message.name \notin {Absent, Bad}
    THEN [name |-> message.name,
          arguments |-> IF message.arguments = Bad THEN Absent ELSE message.arguments]
    ELSE Malformed

-----------------------------------------------------------------------------
(* The mapping of the tool, resolved. *)

\* resolveMappingRef: a path that leads nowhere resolves to nothing.
Resolved(ref, arguments) ==
    IF ref.from = "literal" THEN [shape |-> "string", text |-> ref.at]
    ELSE IF arguments # Absent /\ ref.at \in DOMAIN arguments THEN arguments[ref.at]
    ELSE Absent

\* refToString: only a primitive has a text.
TextOf(ref, arguments) ==
    LET found == IF ref = NoRef THEN Absent ELSE Resolved(ref, arguments)
    IN  IF found # Absent /\ found.shape # "object" THEN found.text ELSE Absent

\* resolveResource: the server stands in for the type, the tool for the id, and
\* a property that does not resolve is left out.
Resource(parsed, mapping, server) ==
    LET arguments == parsed.arguments
        found     == {k \in DOMAIN mapping.properties :
                         Resolved(mapping.properties[k], arguments) # Absent}
    IN  [type       |-> OrElse(TextOf(mapping.type, arguments), OrElse(server, "tool")),
         id         |-> OrElse(TextOf(mapping.id, arguments), parsed.name),
         properties |-> [k \in found |-> Resolved(mapping.properties[k], arguments)]]

-----------------------------------------------------------------------------
(* The request. *)

\* The subject of the configuration, in the proxy and in the commands alike.
Principal(identity) ==
    [type |-> OrElse(identity.type, "user"), id |-> OrElse(identity.id, "local-user")]

Agent(id) == [type |-> "ai_agent", id |-> id]

\* buildDecisionRequest, as far as a decision or a grant looks at it.
Request(parsed, setting) ==
    LET resource == Resource(parsed, setting.mapping, setting.server)
    IN  [principal  |-> Principal(setting.identity),
         agent      |-> Agent(OrElse(setting.agent, "unknown-agent")),
         tool       |-> parsed.name,
         type       |-> resource.type,
         id         |-> resource.id,
         properties |-> resource.properties,
         arguments  |-> parsed.arguments]

\* The call as every listed grant is held against it: the request, the tier it
\* is resolved to, the time, and the key ids that have a public key.
CallOf(message, setting, tier, now, keys) ==
    LET request == Request(Parse(message), setting)
    IN  [principal |-> request.principal, agent |-> request.agent, tool |-> request.tool,
         type |-> request.type, id |-> request.id, properties |-> request.properties,
         arguments |-> request.arguments, tier |-> tier, now |-> now, keys |-> keys]

=============================================================================
