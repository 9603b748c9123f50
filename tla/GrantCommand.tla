----------------------------- MODULE GrantCommand -----------------------------
(***************************************************************************)
(* knotrust grant: what its flags say (packages/cli/src/grant/argv.ts,     *)
(* duration.ts, format.ts) and the durable grant it asks for               *)
(* (mint-command.ts).  Pure: what the mint does to the store and the audit *)
(* log is GrantStore's.                                                    *)
(*                                                                         *)
(*   flags  [tool, server, agent, cap, expires, resource, understood]      *)
(*          Absent where a flag is not given, Bad where it has no value,   *)
(*          and for a tier that there is not                               *)
(*   run    [confirmed, locked]: whether the user says yes, and whether    *)
(*          another process, a governed proxy for one, has the audit log   *)
(***************************************************************************)
EXTENDS ToolCall, Functions

-----------------------------------------------------------------------------
(* --expires: a sequence of tokens [count, unit], or Bad. *)

Minute == 60
Hour   == 60 * Minute
Day    == 24 * Hour

UnitSeconds == [w |-> 7 * Day, d |-> Day, h |-> Hour, m |-> Minute, s |-> 1]

Seconds(tokens) ==
    FoldFunction(LAMBDA token, sum : sum + token.count * UnitSeconds[token.unit], 0, tokens)

\* parseDuration: nothing at all, and no time at all, are refused.
DurationOk(tokens) == tokens # Bad /\ Seconds(tokens) > 0

DefaultExpires == <<[count |-> 30, unit |-> "d"]>>

-----------------------------------------------------------------------------
(* --resource: what is before the first colon and behind it, either of which
   may be Absent, or [colon |-> FALSE] and one text.                         *)

\* parseResourceScope.
ScopeOf(resource) ==
    IF resource = Absent THEN [type |-> Absent, id |-> Absent]
    ELSE IF resource.colon THEN [type |-> resource.before, id |-> resource.behind]
    ELSE [type |-> Absent, id |-> resource.before]

-----------------------------------------------------------------------------
(* The command. *)

\* Variant: a grant without --tier-cap covers routine calls.
LowestCap(cap) == OrElse(cap, "routine")

CapAsked(cap) == OrElse(cap, "sensitive")

ExpiresAsked(expires) == OrElse(expires, DefaultExpires)

\* parseGrantMintArgs accepts the flags: a standing grant for critical calls has
\* to be asked for twice.
GrantOk(flags) ==
    /\ \A f \in {"tool", "server", "agent", "cap", "expires", "resource"} : flags[f] # Bad
    /\ flags.tool # Absent /\ flags.server # Absent
    /\ CapAsked(flags.cap) = "critical" => flags.understood
    /\ DurationOk(ExpiresAsked(flags.expires))

GrantArgs(flags) ==
    [tool |-> flags.tool, agent |-> OrElse(flags.agent, Any), cap |-> CapAsked(flags.cap),
     ttl |-> Seconds(ExpiresAsked(flags.expires)), scope |-> ScopeOf(flags.resource)]

\* runGrantMint comes to the mint: the user confirms, and createAuditLog() gets the
\* writer lock, which it does not while a proxy that serves holds it.  What else may
\* fail (a disk, a key store) is GrantStore's, AuditLog's and Identity's.
ReachesMint(run) == run.confirmed /\ ~run.locked

\* What it asks mintDurableGrant for then: the server is not part of it, and an
\* agent is taken to be an AI agent.
MintInput(args, identity) ==
    [kind |-> "durable", callHash |-> Absent, singleUse |-> Absent, ttl |-> args.ttl,
     nbf |-> Absent, principal |-> Principal(identity),
     agent |-> IF args.agent = Any THEN Any ELSE Agent(args.agent),
     tool |-> args.tool, type |-> args.scope.type, id |-> args.scope.id,
     conditions |-> Absent, tier |-> args.cap]

=============================================================================
