# KnoTrust: models and proofs

KnoTrust is a proxy that stands between an MCP client and the MCP server it
wraps. Every `tools/call` is held until a local policy has decided it; a call
may need a *grant* (a signed token in a directory) or the approval of a person.
This directory holds TLA+ models of that code, translated from
`src/packages/`, the TLC runs that check them on small instances, and TLAPS
proofs of what matters most for every instance. `PROJECT.json` maps every
definition to the lines it models.

## The system

| Component | State it keeps | Operations | What is hard | What makes it correct |
|---|---|---|---|---|
| Approval lifecycle (`approval/src/lifecycle.ts`) | one record per approval: state, latch, deadline, the deferred the held call waits on | `request`, `status`, `resolve`, `cancel`, `onResolved`, `sweepExpired` | `resolve` awaits twice; votes, cancels and expiry interleave with it; audit, mint, re-evaluation and revoke may each fail | one winner per click; an approval rests on a vote *and* a later re-evaluation; fail closed; the trail tells the outcome; every hold ends |
| Held calls (`approval/src/channel.ts`, `channels/block-and-wait.ts`, `proxy-stdio/src/cancellation.ts`) | request-id to approval map, a scheduler and a pending file per call | `requestApproval`, `present`, `cancel` | a cancel before the mapping exists, a notification that throws, ids used again | a cancel reaches its call; a held call is answered |
| Approval page (`channels/local-page/server.ts`) | one-shot links, form nonces | GET of a link, POST of a form | two tabs, replays, a mint between the click and the vote | a person is behind every authority; a link acts once |
| Decision core (`core/src/precedence.ts`, `l0-evaluator.ts`) | none | `evaluatePrecedence` | four layers with fall-throughs, clamps and ceilings | allows are authorised; the order of the listing is irrelevant; an envelope only restricts |
| Decider and decision cache (`grants/src/decider.ts`, `lifecycle.ts`, `core/src/decision-cache.ts`) | an LRU cache with a TTL per tier, per process | `decide`, mints, revokes | stale entries, single-use grants, crashes between consuming and answering | one approval, one call; bounded staleness |
| Pipeline (`core/src/pipeline.ts`) | a cache keyed by the contents of the policy | `decide`, over an adapter that answers later | calls under several policies over one cache | a hit is what this policy says |
| Grant store (`store/src/grant-store.ts`), revocation (`grants/src/revoke.ts`) | `.jws` files, tombstones, consumed markers | `put`, `get`, `list`, `remove`, `revoke`, `consumeOnce`, `revokeGrants` | unlocked scans across processes, a crash between two files | regular looks, final revocation, exclusive consumption |
| Grants as credentials (`grants/src/mint.ts`, `claims.ts`, `verify.ts`, `callhash.ts`) | none | mint, verify | six bindings checked in an order, two kinds of grant | a grant bears on its calls and no other |
| Key store (`grants/src/keys.ts`) | the seed in a file or in the keychain, published keys | `ensureIdentity`, `sign` | racing first uses, crashes and failures between two writes | what was minted verifies, or it is known why not |
| Stdio proxy (`proxy-stdio/src/proxy.ts`, `enforce.ts`) | requests in flight, teardown | `relay`, `forward`, `enforceToolsCall`, `teardown` | the child dies at any moment, a decision throws, a stop races both | denied never runs; what runs was allowed or logged; every forwarded request is answered |
| Tool inventory (`proxy-stdio/src/tool-inventory.ts`) | a baseline on disk, the listing under way | `tools/list` and its pages | a crash between the report and the new baseline, a listing begun anew | no change goes unreported; a baseline is one listing |
| Probing detector, denial envelope (`probing.ts`, `denial-envelope.ts`) | a table of windows; none | denials | a bounded table | counts are true; the advised command helps |
| Audit log (`store/src/audit-log.ts`) | chain head, open file, writer lock | `append`, `flush`, `close`, `verify`, rotation, recovery | torn writes, rotation failures, lock takeover, loss of power | one verifiable chain; what was acknowledged is kept |
| `init`, `add pack` (`cli/src/init`, `cli/src/add`) | `knotrust.config`, the client's configuration | the two commands | both files are edited, and the servers change, between a load and a write | no command decides for the user |
| A run (`cli/src/run.ts`, `enforcement.ts`, `otel/src/exporter.ts`) | lock, exporter, handlers, exit code | build, serve, tear down | every step may fail, a fatal error races the close | the exit code tells how it ended |

The proxy calls the decider for every `tools/call`; the decider reads the grant
store and appends to the audit log; an approval calls back into the decider and
mints through the store. Processes share only the directory: the grant store,
which works without a lock, and the audit log, whose writer lock a governed
proxy, `knotrust grant` and `knotrust revoke` all take before anything else.

## Modules

**ApprovalRecord** is what the lifecycle promises its callers about one record.
**ApprovalLifecycle** models `createApprovalOrchestrator` and implements it. An
action is what runs between two awaits: `ResolveApproved` is `resolve` up to
the await of the mint, `MintReturns`/`MintThrows` that await, `DecideAllows`/
`DecideRefuses`/`DecideThrows` the await of the re-evaluation, `RevokeDone`/
`RevokeFails` the revocation of the orphan. `Log`, `AuditTerminal` and
`FailClosed` are `safeAudit` and `forceFailClosedDeny`: every append may throw.
`state`, `resolving`, `requestedAt` and `settled` are fields of the record,
`trail` its audit events; `pc`, `target` and `grant` are the locals of the
concurrent calls.

**HeldCall** extends ApprovalRecord with its users: the adapter (`phase`,
`answer`, `byId`), the block-and-wait channel (`probing`, `onDisk`) and the
page (`link`, `csrf`, and per tab where it is, the call of its link and the
button it posted). `RouteReason`, `LinkReason` and `ActionReason` are the
checks of a request in the order of the code. Since every step of it is one the
record allows (proved) and ApprovalLifecycle implements the record (proved), the
two compose at that interface.

**Precedence** is the evaluation as pure operators over a policy, an envelope,
a list of grants and a clock, with `Authorised`, a definition of what a
decision may rest on that follows no layer.

**Decider** extends Precedence with time, caches, grants and processes. `Hit`
and `Miss` are the two ways `decide()` starts; `ReadGrants`, `Stand`,
`Consume`, `LoseRace` are `decideCore`; `Conclude` audits, caches and answers.
`MintByCli`, `MintOnApproval`, `RevokeByCli`, `RevokeInProxy`, `Unlink` change
the directory. `Acquire`, `FindStale`, `RemoveStale`, `Refused`, `Release` are
the writer lock of the audit log, step by step, and `Crash` leaves it stale. A
decision never awaits, so its steps are visible only to another process, and
another process exists beside it only if two takeovers of a stale lock raced;
`raced` remembers that one removed a live process's lock. The listing is two
looks here (tombstones, then files); that entry-by-entry scans are no worse is
what GrantStore shows. Which calls a grant bears on is a constant here
(`BoundTo`); where that comes from is Credential.

**GrantLedger** is what the directory promises its callers, and **GrantStore**
the directory: one action per system call that another process can tell from
its neighbours, with `revokeGrants` on top. `steady`, `ever`, `reply` and `wins`
are history: what was in force all along, or at some moment, since a look
began. Several processes are modelled because the store's header
(`grant-store.ts:48-57`) promises its operations across independent processes
without a lock file.

**Credential** is a grant from what is asked of `mintGrant` over its wire
claims to the verifier, check by check; **ToolCall** how a message becomes a
request with a principal, an agent and a resource; **GrantCommand** the flags
of `knotrust grant`. All three are pure. **DenialEnvelope** is what the agent is
told of a denial, and reads the command it advises back through GrantCommand,
whose mint is reached only if the user confirms and the writer lock is free
(`ReachesMint`).
Two modules of one step each set them to work: **DecidedCall** decides one call
and looks at what the agent is told, **PresentedGrant** presents one grant,
sound or damaged, with one call. What such a grant, call or policy may be is an
assumption of those modules, and the types of the code justify it.

**PolicyFile** is `knotrust.config` as data: normalising an entry, seeding it
from hints, merging a pack. **Setup** extends it with `init` and `add pack`, a
user who edits and servers that change.

**Pipeline** and **Probing** are the objects of the same names, one action per
callback. **Identity** is the key store by system call, **ToolInventory** the
classifier of listings by step of `finalize()`, **Supervisor** one run of the
proxy command.

**ProxyRelay** models the relay, the enforcement of a held call and the
teardown between a client and an external child. `stage` is where the proxy is
with a request, `pending` is `pendingChildRequests`, `phase` is `runTeardown`.
The decision and the approval appear by what they may answer, since Decider,
ApprovalLifecycle and HeldCall are about how they come to it. `FailsOpen` is
the recovery of `enforce.ts:744`, whose audit line must be written. A write to a
dead child may be lost silently or reject.

**AuditTrail** is an append-only sequence, one or two entries at a time, that a
loss of power may shorten, but not below what is known to be on the disk. **AuditLog** is the files, the lock
and the sinks of any number of processes: an append is one step, because it is
synchronous and holds the lock, but each of its system calls may fail or be the
last one (`AppendOutcomes`); the lock is one step per system call. A hash is the
history it stands for.

**Policy** (DecidedCall, PresentedGrant, Setup, Pipeline, Probing) and **Home**
(GrantStore, ToolInventory, Identity, Supervisor) hold components that do not
interact in one specification each: `part` is chosen at first and never changes,
and only the actions of that part are enabled. They have every constant of their
components, so that what is proved of them is proved for all values.

An `MCX` gives the constants of `X` values for TLC, and defines nothing else.
Definitions commented "Variant" are a plausible bug
away from the code: every checked property fails if one of them is put in place
(`mutants` in `PROJECT.json`).

## Runs

| Run | Bounds | What it shows |
|---|---|---|
| `approval` | 2 approvals of one call, 3 votes, timeout 2, clock up to 4 | Votes, cancels, probes and expiry in any order, every dependency failing at any step: the record is the abstract one (`ImplementsRecord`), the waiter and the trail tell its outcome (`OutcomeIsTold`), `SingleWinner`, `ApprovedIsEarned`, `NoLingeringGrant`, `EveryHoldEnds` |
| `held_calls` | 2 calls under one id, 2 tabs, a notification that may throw, timeout 1, clock up to 2 | `AuthorityNeedsAPerson`, `LinkActsOnce`, `CancelFindsItsCall`, `HeldCallIsAnswered` |
| `policy` | part `call`: every entry and envelope, at most 2 grants in windows on each side of the clock | `AllowIsAuthorised`, `OrderIsIrrelevant`, `EnvelopeOnlyRestricts`; of the denials, `AdvisedCommandHelps` |
| | part `credential`: grants whose fields are right, wrong or absent one or two at a time, against calls that differ in each field | `GrantBearsOnItsCalls` |
| | part `setup`: 2 servers, 1 pack at a time, 1 edit by the user or a server | `AuthorityStands` |
| | part `pipeline`: 2 calls at a time, policies that differ in one thing | `HitIsThisPolicy` |
| | part `probing`: 3 pairs, a table of 2, window 2, threshold 3, clock up to 3 | `CountsTruly` |
| `decider_cache` | 1 proxy, 1 CLI, 2 calls, a standing grant, cache of 1, TTL 2, clock up to 5 | `RevokedByNextDecision`, `GrantedByNextDecision` while the lock holds; `StalenessBounded` even when it does not |
| `decider_race` | 2 proxies, 1 CLI, a critical call, a standing and a single-use grant, clock up to 1 | `SingleUseAllowsOnce`, `CriticalRevokedByNextDecision` |
| `decider_revoke` | 1 proxy, 1 CLI | violated, finding 1 |
| `home` | part `grants`: 2 callers, 2 grants, looks for all grants or for one; entries visited in any order | `ImplementsLedger` (refinement), `RevokeLeavesNothing` |
| | part `tools`: 2 tools on 2 pages, 2 changes, 3 listings | `NoSilentDrift`, `BaselineIsOneListing` |
| | part `identity`: 2 mints in one process, 1 in another, 3 seeds | `MintedVerifies` |
| | part `run`: one run | `ExitIsHonest` |
| `proxy_relay` | 3 requests: a routine call that may fail open, a call that may not, and a request that is not governed | `GovernedRuns`, `ExactlyOneAnswer`, `CrashIsTold`, `TeardownEnds` |
| `proxy_hanging` | as above | violated, finding 2 |
| `audit_log` | 3 processes, 2 months, 2 appends, one loss of power | the chain is one and verifies (`ChainIntact`), also to a reader beside the writer (`ReaderSeesNoBreak`), and keeps what was acknowledged (`AckedIsKept`); `ImplementsTrail` (refinement) |
| `audit_rotation` | 1 process | violated, finding 3 |

Why the bounds are enough. A record of the lifecycle is touched by no other, so
two approvals are there only for two identical calls that can spend each
other's grant; two votes are what a race needs, the third is one to be rejected
while they run; a clock of twice the timeout puts every step before, at and
after the deadline. A request id can confuse two calls, and a link two tabs.
An order of grants needs two. A cache of one entry with two keys is always at
its bound; a TTL of 2 and an expiry inside the clock put hits before, at and
after both. A race for a marker, for a key file or for a stale lock needs two
processes; in `audit_log` the third is the one that comes after them, in
`identity` the second mint of one process shares its memoized store. A month
has to end once; a second append is the one after a failure. A baseline can go
wrong between two listings and is seen to by a third. A relayed request does not
influence another one but through a teardown. A lost edit needs one edit, and
one server that is not the one at work. `Horizon` (in ApprovalRecord, ApprovalLifecycle,
HeldCall and Decider), `MaxTime`, `MaxMonth`, `MaxEvents`, `MaxEdits`,
`MaxChanges`, `MaxListings` and `Slack` (how long a decision may take) are
constants and bound the counters where they grow; `Request` and `Open` respect
`Horizon` too, so that every deadline is reached.

`decider_race`, `home` (of the grant store's clients and grants) and `audit_log`
use symmetry; they check safety and step refinement only, and nothing in the
models orders the elements of those sets.

Deadlock is checked in every run. ApprovalLifecycle, HeldCall and ProxyRelay
stutter explicitly (`Quiet`, `Over`) where everything has ended, and Policy
and Home where the one decision has been made or the run is over, and only
there.

### Fairness

`approval` assumes that time passes, that the scheduler of
`block-and-wait.ts` goes on probing `status()`, and that the mint and the
re-evaluation settle; never that anybody votes or cancels. `held_calls` assumes
that time passes, that timers that were started go on, and that a promise whose
result is there is carried on with (`RequestApproval`, `Present`, `Answer`,
`StopProbing`); not that the mint returns, that a page is opened, or that
anybody votes or cancels. `proxy_relay` assumes that the event loop runs what is
ready: decisions return, approvals settle (which `EveryHoldEnds` and
`HeldCallIsAnswered` are about), a child's output is read, the ladder of the
teardown goes on and its SIGKILL ends the child. Nothing makes a client ask, a
child answer, or anybody stop the proxy.

### Assumptions that show in a property

- Clocks do not run back across the end of a month, and power is lost only after
  the kernel has written earlier files back (`Unsettled` lets it be otherwise).
- The count that `writeSync` returns is ignored at `audit-log.ts:1092`. With
  `ShortWrites` the model lets write(2) stop short without an error, and
  `AckedIsKept` does not hold; local file systems do so only when they fill up.
- A lost lock race (`raced`) is possible, as the comment at
  `audit-log.ts:483` knows; the properties of the chain are stated until it
  happens, those of single use and of critical calls beyond it.
- The agent's client uses a request id once at a time, as MCP demands, and
  pages one listing at a time.
- SHA-256 and Ed25519 are what they are meant to be.

## Findings

1. `decider_revoke`: with a proxy running, `knotrust revoke` is refused by the
   writer lock before it revokes anything, against
   `cli/src/grant/revoke-command.ts:12-16` and
   `docs/02-product/revocation-claims.md`. What these say of the next decision
   does hold (`RevokedByNextDecision`), and the lock is the reason: the cache
   of a proxy would not learn of a revocation by another process. `knotrust
   grant` is refused in the same way (`mint-command.ts:147`), so that a command
   that a denial advises (the repository's `README.md:97`) mints nothing until
   the proxy that denied has stopped; `AdvisedCommandHelps` says what it does in
   either case.
2. `proxy_hanging`: a call held for approval when the child exits is never
   answered, against `proxy.ts:22-24`.
3. `audit_rotation`: a rotation that cannot open the new month's file leaves a
   closed descriptor behind, and every later append fails on it, against
   `audit-log.ts:84-85`, which has the next append start from scratch.

Seen while modelling, in the models, and without a run of their own:

- A mint that throws after it persisted its grant (the audit line comes second)
  leaves the grant active beside a denied approval. The comments of
  `approval/src/lifecycle.ts` promise a revocation where the mint had returned
  before the re-evaluation threw, which `NoLingeringGrant` checks; this case is
  its exception, since `resolve` is never given the jti.
- At a graceful teardown a request is told that the server is gone, and may
  then get its answer (`ExactlyOneAnswer` excludes it).
- A notification that throws before the scheduler is started leaves a hold that
  nothing expires. A standing grant of "always allow" is minted before the vote
  and may outlive an approval that ended meanwhile.
- `init` and `add` write the whole file back: an edit made after their load is
  lost. `init` ends early once all servers are wrapped, so what an earlier run
  could not capture is never seeded again, although its note says it will be
  (`init/command.ts:188-197`, 313), and it drops the `mapping` of entries it
  carries over.
- A denial says that a person may approve it even where an envelope or an
  explicit entry denies; under a ceiling below the tier the grant it advises
  would not help. The name in the advised command is reduced to printable
  characters, and the grant it asks for is not bound to the server.
- Every mint rewrites the public key in place. Between the truncation and the
  write, and after a crash or a failed write there until a later mint succeeds,
  the file is empty and no grant verifies. The keychain backend creates a seed
  without exclusion, and may displace one that a grant has been signed with.
  `MintedVerifies` excepts these two and nothing else. An empty lock file is
  never taken over.
- Arguments of the wrong shape count as none in the decision, and are forwarded
  as they came.

## Proofs

TLAPS 1.4.5 proves the following for every value of the constants.

**ApprovalLifecycleProofs.** From `TimeAssumption` and `NobodyAssumption`.
None of the properties is inductive: that a vote is alone at the mint depends
on the latch, which depends on who set it and on the record being pending; what
the trail says of a record depends on where its call is. `Invariance` proves the
strengthening as a conjunction of named parts, one proof step per action; from
it follow `TypeCorrect`, `OutcomeTold`, `WaiterTold`, `OneWinner`,
`FailsClosed`, `ApprovalIsEarned`, `GrantIsRevoked`, `TrailTells`, and the
action properties `VoteCounts` and `Final`. `Implements` is the refinement to
ApprovalRecord.

**HeldCallProofs.** From `HeldCallAssumption`. `OneInFlight` (an id has one call
in flight) makes the map of ids exact; `Links` and `Acted` tie a tab that acts
to a link that is spent, which is why a second one cannot; `ApprovedByPerson`
gives every approved record the tab that voted. From these follow
`CancelIsRouted`, `LinkIsSpent` and `PersonDecides`. `RespectsRecord` shows that
the adapter, the channel and the page do with the record only what
ApprovalRecord allows.

**HomeProofs**, of the four components of Home. From `ScopesAssumption`,
`NoGrantAssumption`, and the assumptions that the constants of ToolInventory and
Identity that stand for nothing are no tools, definitions or seeds.

- The grant store: the invariant relates what a scan has still to visit, has
  seen and has found to what was in force since it began: whatever is steady is
  still to be visited or has been found, and whatever was found was in force at
  some moment. `Implements` is the refinement to GrantLedger: each system call
  maps to one step of the ledger or to none, and `BatchIsComplete` is
  `RevokeLeavesNothing`.
- The tool inventory: `NothingLost` accounts for every difference between the
  baseline and the listing at hand, which is still to be reported, reported,
  synced or failed depending on where `finalize()` is; `OneListing` keeps what
  was collected of a listing equal to what the client was shown of it. From
  these follow `DriftIsReported` and `BaselineIsWhole`, for any tools on any
  pages and any number of listings, crashes and losses of power.
- The signing identity: that a grant verifies depends on whose seed signs.
  `OnItsWay` says which backend a mint may be at, `OneFills` that one mint at a
  time fills the key file, `SeedInHand` that the seed in hand is the one on the
  disk or in the keychain, or was displaced there, `EmptyIsOpen` that a public
  key is empty only while a mint is about to write it or since one was cut short.
  `GrantsVerify` follows, for any number of mints in any number of processes: the
  resolver finds the key, but for these two cases, and it is the signer's, but for
  a displaced seed.
- A run: `InOrder` says what lies behind each stage of it. `ExitTells` follows.
- `PartsRun` shows that a behaviour of Home is a behaviour of each of its
  components, whence `AllTypesCorrect` and `HomeHolds`, which states the
  properties of all four of the composition.

**PrecedenceProofs.** From no assumption, for every policy, envelope and clock
and a listing of any length: an allow rests on an authority
(`AllowedIsAuthorised`), what is authorised is allowed unless an under-capped
live grant refuses it (`AuthorisedIsAllowed`), the order of the listing decides
nothing (`OrderDoesNotDecide`), an envelope only restricts
(`EnvelopeRestricts`). That the first covering grant exists at all comes from
the well-foundedness of the naturals.

**PolicyProofs**, of the components of Policy, all as theorems of `AllSpec`
(`PartsRun` and `CallPart` say that only the part that runs takes steps).

- `CallInv` keeps what a call is decided by, so that the decision is the
  evaluation of it. With `DecidedAssumption` (policies, envelopes and listings
  have the types of the code, however many and however long),
  `DecisionsAreAuthorised`, `DecisionsIgnoreTheOrder` and `EnvelopesRestrict`
  follow from PrecedenceProofs.
- `GrantsBearOnTheirCalls`, from `PaperAssumption`: a grant that was minted and
  not damaged is handed on by the nine checks of the verifier if and only if the
  call is one it was meant for (`HandedOnIfMeant`), and a damaged one never.
  The assumption says that what is minted has the types of the input, that an
  ephemeral grant carries the hash of some call, and that an id identifies: the
  hash leaves the types of the principal and the agent out, and without the last
  conjunct two calls of a `user` and a `service` of one id would share it.
- `AdvisedCommandsHelp`, from `AdviceAssumption`: the flags that a denial
  suggests parse (`CommandAccepted`), the grant they mint bears on the call
  (`SuggestedBears`) and turns its denial into an allow unless the envelope caps
  it (`SuggestedAllows`), provided that the user confirms and that no process
  holds the writer lock; otherwise the decision stays as it was (`TurnedAway`).
  A retry is advised only where something waits or failed (`ToldTruly`). That a
  person may approve a call is not part of it: see Findings. The assumption is
  that the call is one that is held for a decision and that its name is printable:
  a name that is reduced for the terminal is advised wrongly (see Findings).
- `HitsAnswerThisPolicy`: every entry of the pipeline's cache, and with it every
  answer off one, is what the adapter says under the contents its key is made
  of. The key leaves out what the server says of its tool, which matters only
  through the tier, and the tier is in the key (`TierStandsForHints`).
- `UsersAuthorityStands`, an action property: what `init` and `add` are about to
  write (`ProposalRespects`) respects the file they have loaded, and the step
  that writes it finds that very file or one a user has edited since, which is
  what `AuthorityStands` allows for.
- `CountsAreTrue`, from `ProbeAssumption`, for any number of pairs and a window,
  a threshold and a table of any size. `ProbeInv` keeps the table in the order of
  last use (`Ordered`: behind a pair are only pairs denied since it was), so that
  the pair that is evicted has met as many others as the table holds
  (`FirstHasMet`), and compares every window with the true count at every moment
  from which a later sweep may count (`Counted`).

**DeciderProofs.** From `DeciderAssumption`, for any number of proxies, CLI
invocations, grants and cache entries. The first invariant has a part for each
thing the properties are about: `Locked` (who is past the lock is who it names,
until a takeover raced), `Current` (until then, nothing is revoked behind the
back of a decision under way or of a cache entry), `Locals` (a decision under
way names nothing that was revoked when it began), `Caches` (bounded, one entry
per call, no allow off a single-use grant), `Spent` (an allow off a single-use
grant, answered or about to be, has its marker, and is the only one). The parts
need each other: a cache stays current because whoever revokes is past the lock,
and so the proxy whose cache it is. `OneAllowPerApproval`, `OneWriter`,
`TypeCorrect` follow from it, `RevocationIsObeyed` and
`CriticalRevocationIsObeyed` from the two steps that can answer an allow.

The second invariant, `TInv`, is about time and builds on the first. `Underway`
says what a decision that began at `since` can have missed, `Judged` what its
verdict therefore says of the grants it collected, and `Timely` what a cache
entry says of the time it was made: it ends one TTL after that at the latest,
no grant in it ended longer ago than a decision takes, and if it is a denial for
want of a grant, then no standing grant for the call has been there all along
unless a takeover raced. `StalenessIsBounded` and `GrantIsObeyed` follow for
any TTLs and any `Slack`, in particular without the clock bound of the run.

**AuditLogProofs.** From `ProcAssumption` and `BoundAssumption`, for any number
of processes, months and appends. `Typed` holds whatever fails
(`TypeCorrect`). Until two takeovers race, `Excludes` gives the log one writer
and `Keeps` has that writer append to the newest file, behind no fragment, so
that what was acknowledged stays where it is: `AcknowledgedIsKept`. `CInv` adds
the chain: `Whole` (each line carries on from its predecessor, and nothing comes
after a fragment), `Linked` (the sink of the writer carries on from the last
line, unless it is broken) and `Follows` (a reader without the lock carries on
from the line before the one it looks at, though files grow, rotate and are
recovered meanwhile). From these follow `ChainStaysIntact` and
`ReaderIsNotAlarmed`.

`TrailIsImplemented` is the refinement to AuditTrail. The trail puts the lines of
all files in order: the k-th is the one that has k lines up to it, which is the
same line in any files that begin with these (`Initial`). `Adds` says that a
step leaves such a beginning behind, with so many entries after it and no less
flushed; the operations are shown to add none, one or two (`AppendAdds`), because
the writer that `Keeps` speaks of writes to the newest file, behind no fragment.
`PowerLossImplements` is the one step that goes back.

The theorems have `ShortWrites = FALSE` and, for the chain and the trail,
`Unsettled = FALSE` as hypotheses, because the code does not keep its promises
otherwise (see the assumptions above); both are FALSE in the run.

**ProxyRelayProofs.** From `RelayAssumption`. `Shape` says for each stage of a
request what may have been answered and whether it may have reached the child,
that `pendingChildRequests` is what was passed on and not answered, and what a
teardown leaves of both; that a refusal is true, for instance, depends on no
request being refused after it was passed on, which depends on the stage.
`TypeCorrect`, `RefusalIsTrue`, `NoneForgotten`, `OneAnswer`, `OneAnswerEach`,
`Governed` and `RunsAreGoverned` follow.

Only model-checked, and why:

- `EveryHoldEnds`, `HeldCallIsAnswered`, `CrashIsTold`, `TeardownEnds`: liveness
  rests on fairness and `ENABLED`, which are beyond the prover.

## Not modelled

- Signatures, the bytes of a call hash, canonical JSON, ULIDs, schemas,
  rendering, the mapping of events to spans: data transformation without state.
- Notifications and a request id used twice in the relay; a grandchild that
  keeps the pipes open; listings that overlap, which comment C-3 of
  `tool-inventory.ts` excludes.
- The listeners of `onAppend`, which cannot change an append.
- `knotrust list`, `audit query` and `tail`, the texts of prompts, diffs and dry
  runs, which only display.
- A grant put again under the same jti (a mint draws a fresh one), and files
  that do not parse, which the store counts and skips.
- `cacheTtlOverrides` and `approvalTimeoutSeconds`, which the schema of the
  configuration accepts and nothing passes on.

The pipeline is modelled although no command uses it yet: the proxy has its own
decider.

## Plan

Done: the approval (ApprovalLifecycle, HeldCall), the decision (Precedence,
Decider, Credential, Pipeline), the state on disk (GrantStore, AuditLog,
Identity, ToolInventory), the proxy (ProxyRelay, ToolCall, Supervisor) and the
configuration (PolicyFile, Setup). What is left, in order:

1. ProxyRelay: notifications, and the composition with HeldCall at the hold.
2. AuditLog with a clock that may run back, and its listeners.
