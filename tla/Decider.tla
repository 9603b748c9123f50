-------------------------------- MODULE Decider --------------------------------
(***************************************************************************)
(* The governed decision: createDecider of packages/grants/src/decider.ts  *)
(* over decideCore (lifecycle.ts), the decision cache of                   *)
(* packages/core/src/decision-cache.ts and the shared grant directory.     *)
(*                                                                         *)
(* Each proxy has a cache of its own; proxies mint what is approved and    *)
(* revoke orphans, the CLI mints and revokes.  All of them first take the  *)
(* writer lock of the audit log (packages/store/src/audit-log.ts) and keep *)
(* it until they exit, so that they exclude each other unless two          *)
(* takeovers of a stale lock race.                                         *)
(*                                                                         *)
(* decide() never awaits, so within a process it is one step; to another   *)
(* process, if the takeover race let one in, it is as many steps as it     *)
(* makes looks at the directory: the tombstones, the grant files, and the  *)
(* exclusive create that consumes a single-use grant.  A lock file left    *)
(* empty by a crash between its creation and the write of the pid is not   *)
(* modelled: nobody ever gets past it.                                     *)
(***************************************************************************)
EXTENDS Precedence, FiniteSets

Seqs == INSTANCE SequencesExt

CONSTANTS
    Proxies,     \* governed proxies, each started again after it ends
    Clis,        \* invocations of knotrust grant and knotrust revoke
    Requests,    \* calls, up to the decision-cache key
    Grants,      \* grants that may be minted, each under a jti of its own
    SingleUse,   \* those consumed by the decision they allow
    BoundTo,     \* the requests a grant matches: principal, agent, tool, scope, call hash
    Cap,         \* the tier claim of a grant
    Exp,         \* its expiry
    PolicyOf,    \* what the configuration says of the tool of a request
    Envelope,    \* the admin envelope
    Ttl,         \* seconds a cached decision lives, by tier
    MaxEntries,  \* bound of a decision cache
    Slack,       \* bound on the seconds one decision takes
    Horizon      \* bound on the clock

ASSUME DeciderAssumption ==
    /\ IsFiniteSet(Grants) /\ SingleUse \subseteq Grants
    /\ BoundTo \in [Grants -> SUBSET Requests]
    /\ Cap \in [Grants -> Tiers]
    /\ Exp \in [Grants -> Nat]
    /\ (\A q \in Requests : PolicyOf[q] \in Policies) /\ Envelope \in Envelopes
    /\ Ttl \in [{"routine", "sensitive"} -> Nat]
    /\ MaxEntries \in Nat \ {0} /\ Slack \in Nat /\ Horizon \in Nat
    /\ NoGrant \notin Grants
    /\ Proxies \cap Clis = {} /\ {"free", "stale"} \cap (Proxies \cup Clis) = {}

Processes == Proxies \cup Clis
NoRequest == "noRequest"

VARIABLES
    jws,      \* grants with a <jti>.jws file
    tombs,    \* grants with a tombstone
    marks,    \* grants with a marker in consumed/
    now,
    lock,     \* audit/.lock: "free", "stale" (names a dead pid), or the process it names
    cache,    \* per proxy, least recently used first: [key, decision, expires]
    pc,       \* per process: where it is in taking the lock, a proxy's decide() included
    asked,    \* per proxy: the request
    since,    \* per proxy: nowSec, read when the decision started
    revoked,  \* per proxy: the tombstones its listing has seen
    listing,  \* per proxy: the covering grants collected, less the replayed ones
    replayed, \* per proxy: a deciding grant was already consumed
    verdict,  \* per proxy: the decision, and the grant it consumed
    answer,   \* what the last step told a client, if it told one anything
    addedAt,  \* when a grant was persisted      (history)
    endedAt,  \* when a grant was revoked        (history)
    raced,    \* a takeover has removed the lock of a live process (history)
    spends    \* allows answered off a grant     (history)

store   == <<jws, tombs, marks>>
local   == <<asked, since, revoked, listing, replayed, verdict>>
history == <<addedAt, endedAt, spends, raced>>
vars    == <<store, now, lock, cache, pc, local, answer, history>>

Never    == Horizon + 1
NoAnswer == [outcome |-> "none"]
Undecided == Answer("none", "none", 0, NoGrant)
Tier(q)  == TierOf(PolicyOf[q], Envelope)

Starting    == {"down", "takingOver", "creating"}
Deciding(p) == pc[p] \in {"listing", "deciding", "auditing"}
Up(p)       == pc[p] \notin Starting

Init ==
    /\ jws = {} /\ tombs = {} /\ marks = {}
    /\ now = 0
    /\ lock = "free"
    /\ cache = [p \in Proxies |-> <<>>]
    /\ pc = [p \in Processes |-> "down"]
    /\ asked = [p \in Proxies |-> NoRequest]
    /\ since = [p \in Proxies |-> 0]
    /\ revoked = [p \in Proxies |-> {}]
    /\ listing = [p \in Proxies |-> <<>>]
    /\ replayed = [p \in Proxies |-> FALSE]
    /\ verdict = [p \in Proxies |-> Undecided]
    /\ answer = NoAnswer
    /\ addedAt = [g \in Grants |-> Never]
    /\ endedAt = [g \in Grants |-> Never]
    /\ spends = [g \in SingleUse |-> 0]
    /\ raced = FALSE

-----------------------------------------------------------------------------
(* The decision cache. *)

IsLive(entry) == now < entry.expires

Without(entries, q) ==
    LET at == {i \in DOMAIN entries : entries[i].key = q}
    IN  IF at = {} THEN entries ELSE Seqs!RemoveAt(entries, CHOOSE i \in at : TRUE)

\* get(): a live entry moves to the recent end; an expired one is dropped.
\* A critical tier neither hits nor drops anything.
CachedFor(p, q) ==
    {i \in DOMAIN cache[p] :
        Tier(q) # "critical" /\ cache[p][i].key = q}

Hits(p, q) == {i \in CachedFor(p, q) : IsLive(cache[p][i])}

\* Variant: a hit also prolongs the life of the entry it touches.
TouchedAndProlonged(p, q, i) ==
    Append(Without(cache[p], q), [cache[p][i] EXCEPT !.expires = now + Ttl[Tier(q)]])

Touched(p, q, i) == Append(Without(cache[p], q), cache[p][i])

\* evictOverflow: one insertion overflows by at most one.
Evicted(entries) == IF Len(entries) > MaxEntries THEN Tail(entries) ELSE entries

Stored(p, q, decision) ==
    Evicted(Append(Without(cache[p], q),
                   [key |-> q, decision |-> decision, expires |-> now + Ttl[Tier(q)]]))

\* isCacheableDecision, and the cache's own isCacheableTier/isCacheableOutcome.
Cacheable(decision, q) ==
    /\ decision.outcome \in {"allow", "deny"}
    /\ Tier(q) # "critical"
    /\ decision.reason \notin {"grant_replayed", "audit_unavailable"}
    /\ ~(decision.outcome = "allow" /\ decision.grantRef \in SingleUse)

-----------------------------------------------------------------------------
(* Answers. *)

\* The locals of a decide() that is over.
Forget(p) ==
    /\ asked' = [asked EXCEPT ![p] = NoRequest]
    /\ since' = [since EXCEPT ![p] = 0]
    /\ revoked' = [revoked EXCEPT ![p] = {}]
    /\ listing' = [listing EXCEPT ![p] = <<>>]
    /\ replayed' = [replayed EXCEPT ![p] = FALSE]
    /\ verdict' = [verdict EXCEPT ![p] = Undecided]

\* The client is answered; known is what was revoked when the decision began.
Respond(q, decision, hit, known) ==
    /\ answer' = [outcome |-> decision.outcome, reason |-> decision.reason,
                  grantRef |-> decision.grantRef, request |-> q, hit |-> hit, known |-> known]
    /\ spends' = [g \in SingleUse |->
            IF decision.outcome = "allow" /\ decision.grantRef = g THEN spends[g] + 1 ELSE spends[g]]

Silent == answer' = NoAnswer /\ UNCHANGED spends

\* auditDecision: the decision as it is answered, given whether its line (and
\* the grant_consumed line before it) could be written.
Audited(decision, written) ==
    IF written THEN decision
    ELSE Answer("deny", "audit_unavailable", decision.layer, NoGrant)

-----------------------------------------------------------------------------
(* decide(). *)

Hit(p, q) ==
    /\ pc[p] = "idle"
    /\ \E i \in Hits(p, q), written \in BOOLEAN :
        /\ cache' = [cache EXCEPT ![p] = Touched(p, q, i)]
        /\ Respond(q, Audited(cache[p][i].decision, written), TRUE, tombs)
    /\ UNCHANGED <<store, now, lock, pc, local, addedAt, endedAt, raced>>

\* A miss starts decideCore, whose listing reads the tombstones first.
Miss(p, q) ==
    /\ pc[p] = "idle"
    /\ Hits(p, q) = {}
    /\ cache' = [cache EXCEPT ![p] = IF CachedFor(p, q) = {} THEN @ ELSE Without(@, q)]
    /\ pc' = [pc EXCEPT ![p] = "listing"]
    /\ asked' = [asked EXCEPT ![p] = q]
    /\ since' = [since EXCEPT ![p] = now]
    /\ revoked' = [revoked EXCEPT ![p] = tombs]
    /\ replayed' = [replayed EXCEPT ![p] = FALSE]
    /\ Silent
    /\ UNCHANGED <<store, now, lock, listing, verdict, addedAt, endedAt, raced>>

Orders(S) == {s \in [1..Cardinality(S) -> S] : \A i, j \in DOMAIN s : s[i] = s[j] => i = j}

\* verifyGrant against the request, at the time the decision started; an
\* under-capped grant passes through for the precedence layers to refuse.
Verified(g, p) == asked[p] \in BoundTo[g] /\ since[p] < Exp[g]

\* Variant: a lingering grant file is read although its tombstone was seen.
UnfilteredGrants(p) == {g \in jws : Verified(g, p)}

ListedGrants(p) == {g \in jws \ revoked[p] : Verified(g, p)}

\* Then the grant files are read, in the order of the directory.
ReadGrants(p) ==
    /\ pc[p] = "listing"
    /\ \E order \in Orders(ListedGrants(p)) : listing' = [listing EXCEPT ![p] = order]
    /\ pc' = [pc EXCEPT ![p] = "deciding"]
    /\ Silent
    /\ UNCHANGED <<store, now, lock, cache, asked, since, revoked, replayed, verdict, addedAt, endedAt, raced>>

AsGrant(g) == [jti |-> g, cap |-> Cap[g], nbf |-> 0, exp |-> Exp[g]]

Evaluated(p) ==
    Evaluate(PolicyOf[asked[p]], Envelope,
             [i \in DOMAIN listing[p] |-> AsGrant(listing[p][i])], since[p])

Replay(decision) == Answer("deny", "grant_replayed", 3, NoGrant)

\* The decision needs no single-use grant, or has none left to need.
Stand(p) ==
    LET decision == Evaluated(p)
    IN  /\ pc[p] = "deciding"
        /\ decision.grantRef \notin SingleUse
        /\ verdict' = [verdict EXCEPT ![p] =
                IF replayed[p] /\ decision.outcome # "allow" THEN Replay(decision) ELSE decision]
        /\ pc' = [pc EXCEPT ![p] = "auditing"]
        /\ Silent
        /\ UNCHANGED <<store, now, lock, cache, asked, since, revoked, listing, replayed, addedAt, endedAt, raced>>

\* Variant: the marker is looked for and then written, in two steps: a proxy
\* that did not see it wins, whoever has written it since.
ConsumesUnchecked(g) == marks' = marks \cup {g}

\* consumeOnce: one exclusive create.
Consumes(g) == g \notin marks /\ marks' = marks \cup {g}

Consume(p) ==
    LET decision == Evaluated(p)
    IN  /\ pc[p] = "deciding"
        /\ decision.grantRef \in SingleUse
        /\ Consumes(decision.grantRef)
        /\ verdict' = [verdict EXCEPT ![p] = decision]
        /\ pc' = [pc EXCEPT ![p] = "auditing"]
        /\ Silent
        /\ UNCHANGED <<jws, tombs, now, lock, cache, asked, since, revoked, listing, replayed, addedAt, endedAt, raced>>

\* The grant is spent already: exclude it and decide again.
LoseRace(p) ==
    LET spent == Evaluated(p).grantRef
    IN  /\ pc[p] = "deciding"
        /\ spent \in SingleUse \cap marks
        /\ listing' = [listing EXCEPT ![p] =
                Seqs!RemoveAt(@, CHOOSE i \in DOMAIN @ : @[i] = spent)]
        /\ replayed' = [replayed EXCEPT ![p] = TRUE]
        /\ Silent
        /\ UNCHANGED <<store, now, lock, cache, pc, asked, since, revoked, verdict, addedAt, endedAt, raced>>

\* The decision is audited, cached if it may be, and answered.
Conclude(p) ==
    /\ pc[p] = "auditing"
    /\ \E written \in BOOLEAN :
        LET decision == Audited(verdict[p], written)
        IN  /\ cache' = [cache EXCEPT ![p] =
                    IF Cacheable(decision, asked[p]) THEN Stored(p, asked[p], decision) ELSE @]
            /\ Respond(asked[p], decision, FALSE, revoked[p])
    /\ pc' = [pc EXCEPT ![p] = "idle"]
    /\ Forget(p)
    /\ UNCHANGED <<store, now, lock, addedAt, endedAt, raced>>

-----------------------------------------------------------------------------
(* The other writers of the directory. *)

\* A fresh jti appears with one rename.  No mint invalidates a cache.
Mint(g) ==
    /\ g \notin jws \cup tombs
    /\ addedAt[g] = Never
    /\ now < Exp[g]
    /\ jws' = jws \cup {g}
    /\ addedAt' = [addedAt EXCEPT ![g] = now]
    /\ answer' = NoAnswer
    /\ UNCHANGED <<tombs, marks, now, lock, cache, pc, local, endedAt, spends, raced>>

\* knotrust grant.
MintByCli(c, g) == pc[c] = "idle" /\ g \notin SingleUse /\ Mint(g)

\* What a user is asked to approve: a call that pends without a grant.
Approvable(q) == Evaluate(PolicyOf[q], Envelope, <<>>, now).outcome = "pending_approval"

\* The approval path of a proxy: a single-use grant for the call approved, and
\* a standing one for its tool if the page was told "always".
MintOnApproval(p, g) == pc[p] = "idle" /\ (\A q \in BoundTo[g] : Approvable(q)) /\ Mint(g)

Entomb(g) ==
    /\ g \in jws \ tombs
    /\ tombs' = tombs \cup {g}
    /\ endedAt' = [endedAt EXCEPT ![g] = now]
    /\ answer' = NoAnswer
    /\ UNCHANGED <<jws, marks, now, lock, pc, local, addedAt, spends, raced>>

\* knotrust revoke, in a process of its own: no proxy's cache is told.
RevokeByCli(c, g) == pc[c] = "idle" /\ Entomb(g) /\ UNCHANGED cache

\* bumpGrantSetVersion: every entry goes.
BumpGrantSetVersion(p) == cache' = [cache EXCEPT ![p] = <<>>]

\* A proxy revokes the orphan it minted, and invalidates its own cache.
RevokeInProxy(p, g) ==
    /\ pc[p] = "idle"
    /\ g \in SingleUse
    /\ Entomb(g)
    /\ BumpGrantSetVersion(p)

\* The best-effort unlink that follows a tombstone, if it ever succeeds.
Unlink(g) ==
    /\ g \in jws \cap tombs
    /\ jws' = jws \ {g}
    /\ answer' = NoAnswer
    /\ UNCHANGED <<tombs, marks, now, lock, cache, pc, local, addedAt, endedAt, spends, raced>>

-----------------------------------------------------------------------------
(* The writer lock: acquireLock before anything else, releaseLock at the end. *)

\* Everything a lock step leaves alone.
OnlyLock == UNCHANGED <<store, now, local, addedAt, endedAt, spends>>

Moves(p, place) == pc' = [pc EXCEPT ![p] = place]

\* Variant: the lock file is created without the exclusive flag.
AcquireHeld(p) ==
    /\ pc[p] \in {"down", "creating"}
    /\ lock' = p
    /\ Moves(p, "idle")
    /\ answer' = NoAnswer
    /\ OnlyLock /\ UNCHANGED <<cache, raced>>

\* The exclusive create of the lock file, at once or after a takeover.
Acquire(p) ==
    /\ pc[p] \in {"down", "creating"}
    /\ lock = "free"
    /\ lock' = p
    /\ Moves(p, "idle")
    /\ answer' = NoAnswer
    /\ OnlyLock /\ UNCHANGED <<cache, raced>>

\* The file exists and names a pid that is no longer running.
FindStale(p) ==
    /\ pc[p] = "down"
    /\ lock = "stale"
    /\ Moves(p, "takingOver")
    /\ answer' = NoAnswer
    /\ OnlyLock /\ UNCHANGED <<lock, cache, raced>>

\* It is unlinked, whatever it names by now.
RemoveStale(p) ==
    /\ pc[p] = "takingOver"
    /\ lock' = "free"
    /\ raced' = (raced \/ lock \in Processes)
    /\ Moves(p, "creating")
    /\ answer' = NoAnswer
    /\ OnlyLock /\ UNCHANGED cache

\* createAuditLog throws, and the process exits: a live process holds the lock,
\* or somebody created it first.
Refused(p) ==
    /\ \/ pc[p] = "down" /\ lock \in Processes
       \/ pc[p] = "creating" /\ lock # "free"
    /\ Moves(p, "down")
    /\ answer' = [outcome |-> "refused", by |-> p]
    /\ OnlyLock /\ UNCHANGED <<lock, cache, raced>>

\* A process and what it remembers are gone.
Gone(p) ==
    /\ Moves(p, "down")
    /\ cache' = [q \in Proxies |-> IF q = p THEN <<>> ELSE cache[q]]
    /\ answer' = NoAnswer

\* It exits: close() unlinks the lock file, whatever it names.
Release(p) ==
    /\ pc[p] = "idle"
    /\ lock' = "free"
    /\ Gone(p)
    /\ OnlyLock /\ UNCHANGED raced

\* Or it dies, and what it had written stays.
Crash(p) ==
    /\ pc[p] # "down"
    /\ lock' = IF lock = p THEN "stale" ELSE lock
    /\ Gone(p)
    /\ IF p \in Proxies THEN Forget(p) ELSE UNCHANGED local
    /\ UNCHANGED <<store, now, addedAt, endedAt, spends, raced>>

-----------------------------------------------------------------------------

Tick ==
    /\ now < Horizon
    /\ \A p \in Proxies : Deciding(p) => now < since[p] + Slack
    /\ now' = now + 1
    /\ answer' = NoAnswer
    /\ UNCHANGED <<store, lock, cache, pc, local, history>>

Proxy(p) ==
    \/ \E q \in Requests : Hit(p, q) \/ Miss(p, q)
    \/ ReadGrants(p) \/ Stand(p) \/ Consume(p) \/ LoseRace(p) \/ Conclude(p)
    \/ \E g \in Grants : MintOnApproval(p, g) \/ RevokeInProxy(p, g)

Cli(c) == \E g \in Grants : MintByCli(c, g) \/ RevokeByCli(c, g)

Lock(p) ==
    \/ Acquire(p) \/ FindStale(p) \/ RemoveStale(p) \/ Refused(p)
    \/ Release(p) \/ Crash(p)

Next ==
    \/ \E p \in Proxies : Proxy(p)
    \/ \E c \in Clis : Cli(c)
    \/ \E p \in Processes : Lock(p)
    \/ \E g \in Grants : Unlink(g)
    \/ Tick

Spec == Init /\ [][Next]_vars

-----------------------------------------------------------------------------
(* Properties. *)

Decisions ==
    [outcome : Outcomes, reason : Reasons \cup {"grant_replayed", "audit_unavailable"},
     layer : 1..4, grantRef : Grants \cup {NoGrant}]

\* The cache of a proxy never holds two entries for one call, nor more than it
\* is bounded by.
TypeOK ==
    /\ jws \subseteq Grants /\ tombs \subseteq Grants /\ marks \subseteq SingleUse
    /\ now \in 0..Horizon
    /\ lock \in {"free", "stale"} \cup Processes
    /\ \A c \in Clis : pc[c] \in Starting \cup {"idle"}
    /\ \A p \in Proxies :
          /\ pc[p] \in Starting \cup {"idle", "listing", "deciding", "auditing"}
          /\ asked[p] \in IF Deciding(p) THEN Requests ELSE {NoRequest}
          /\ since[p] \in 0..now
          /\ revoked[p] \subseteq tombs
          /\ listing[p] \in Seq(Grants)
          /\ verdict[p] \in IF pc[p] = "auditing" THEN Decisions ELSE {Undecided}
          /\ Len(cache[p]) <= MaxEntries
          /\ \A i, j \in DOMAIN cache[p] :
                /\ cache[p][i].decision \in Decisions
                /\ cache[p][i].key = cache[p][j].key => i = j

Allows == answer.outcome = "allow" /\ answer.grantRef # NoGrant

\* The time a grant stopped being good: its expiry or its revocation.
EndOf(g) == IF Exp[g] < endedAt[g] THEN Exp[g] ELSE endedAt[g]

\* One approval, one call: over all proxies, crashes, restarts and caches, at
\* most one answer is an allow off a given single-use grant.
SingleUseAllowsOnce == \A g \in SingleUse : spends[g] <= 1

\* "A cached decision can never outlive a revocation by more than one TTL
\* window" (docs/02-product/revocation-claims.md), nor an expiry: an allow off
\* a grant comes at most the duration of a decision after the grant ended, or
\* that and one TTL if it comes from a cache.
AllowStalenessBounded ==
    Allows =>
        \/ now <= EndOf(answer.grantRef) + Slack
        \/ answer.hit /\ now < EndOf(answer.grantRef) + Slack + Ttl[Tier(answer.request)]

\* The other way round: a call is not told "no grant" for longer than that
\* after a standing grant that covers it was added.
DenialStalenessBounded ==
    answer.outcome = "deny" /\ answer.reason \in {"no_grant_sensitive", "grant_replayed"} =>
        \A g \in (jws \ tombs) \ SingleUse :
            /\ answer.request \in BoundTo[g]
            /\ Covers(CappedBy(Cap[g], Envelope.ceiling), Tier(answer.request))
            /\ now < Exp[g]
            =>  \/ now <= addedAt[g] + Slack
                \/ /\ answer.hit
                   /\ answer.reason = "no_grant_sensitive"
                   /\ now < addedAt[g] + Slack + Ttl[Tier(answer.request)]

\* What the two say together: neither kind of decision is staler than the
\* duration of a decision and one TTL.
StalenessBounded == AllowStalenessBounded /\ DenialStalenessBounded

\* "P0 does not support multiple processes appending to the same log
\* concurrently" (audit-log.ts): unless takeovers raced, whoever is past the
\* lock is alone, through crashes, restarts and takeovers.
OneWriterUnlessRaced ==
    ~raced => \A p, q \in Processes : Up(p) /\ Up(q) => p = q

\* "Revocation takes effect on the next decision" (revocation-claims.md): no
\* allow rests on a grant that was revoked when its decision began.  A
\* revocation by the CLI does not reach the cache of a proxy: this holds
\* because the lock lets none run beside it.
RevokedByNextDecision ==
    ~raced /\ Allows => answer.grantRef \notin answer.known

\* The same of a grant that was added: no call that it covers is told that
\* there is none.
GrantedByNextDecision ==
    ~raced /\ answer.outcome = "deny" /\ answer.reason = "no_grant_sensitive" =>
        \A g \in (jws \ tombs) \ SingleUse :
            answer.request \in BoundTo[g] => Exp[g] <= now

\* Of critical calls the claim on revocation is true even when proxies race, whoever
\* revokes: critical calls never meet a cache.
CriticalRevokedByNextDecision ==
    Allows /\ Tier(answer.request) = "critical" => answer.grantRef \notin answer.known

\* "No process restart is involved, ever" (revocation-claims.md): knotrust
\* revoke is not turned away because a proxy is serving.
RevokeReachesLiveProxy ==
    answer.outcome = "refused" /\ answer.by \in Clis => \A p \in Proxies : ~Up(p)

=============================================================================
