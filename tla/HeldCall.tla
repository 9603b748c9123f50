-------------------------------- MODULE HeldCall --------------------------------
(***************************************************************************)
(* A tools/call that needs a human, from the adapter that holds it         *)
(* (packages/approval/src/channel.ts) through the block-and-wait channel   *)
(* (channels/block-and-wait.ts) and the local page                         *)
(* (channels/local-page/server.ts, registry.ts) to the answer, with the    *)
(* client's notifications/cancelled (packages/proxy-stdio/src/             *)
(* cancellation.ts).  The approval record itself is ApprovalRecord; every  *)
(* call has the approval of its name.                                      *)
(*                                                                         *)
(* The client: MCP forbids it a request id that is still in flight, so two *)
(* calls with one id follow each other.  A tab is one use of the page: one *)
(* GET of a link and one POST of the form it rendered, with the headers    *)
(* and fields a browser, or anything else on the machine, may send.        *)
(***************************************************************************)
EXTENDS ApprovalRecord, FiniteSets

CONSTANTS
    Tabs,          \* uses of the page
    Ids,           \* JSON-RPC ids
    IdOf,          \* the id of each call
    None,          \* no call, no tab
    NotifyMayFail  \* notify() may throw before it starts the scheduler

Calls == Approvals

ASSUME HeldCallAssumption ==
    /\ IdOf \in [Calls -> Ids]
    /\ None \notin Calls \cup Tabs
    /\ NotifyMayFail \in BOOLEAN
    /\ Timeout \in Nat \ {0} /\ Horizon \in Nat

VARIABLES
    phase,     \* where requestApproval() of the call is
    answer,    \* what the adapter resolved with
    byId,      \* pendingByJsonRpcId
    probing,   \* the call's heartbeat scheduler runs
    onDisk,    \* $KNOTRUST_HOME/pending/<id>.json exists
    link,      \* the page's PendingEntry: none, fresh or used
    csrf,      \* PendingEntry.csrfToken, as the tab it was rendered for
    tab,       \* where the tab is
    on,        \* the call its link names
    act,       \* the button it posted
    standing   \* a durable grant was minted off the call's page

adapter == <<phase, answer, byId>>
channel == <<probing, onDisk>>
page    == <<link, csrf, tab, on, act, standing>>
vars    == <<record, adapter, channel, page>>

Phases     == {"new", "deciding", "opened", "held", "answered"}
Answers    == {"none", "allow", "approval_denied", "approval_timeout", "approval_cancelled"}
Over       == {"refused", "gone", "malformed", "done", "failed"}
TabSteps   == {"closed", "open", "granting", "resolving"} \cup Over
Buttons    == {"approve", "always_allow", "deny"}

TypeOK ==
    /\ state \in [Calls -> {"absent", "pending"} \cup Terminal]
    /\ resolving \in [Calls -> BOOLEAN]
    /\ requestedAt \in [Calls -> Nat]
    /\ now \in Nat
    /\ phase \in [Calls -> Phases]
    /\ answer \in [Calls -> Answers]
    /\ byId \in [Ids -> Calls \cup {None}]
    /\ probing \in [Calls -> BOOLEAN]
    /\ onDisk \in [Calls -> BOOLEAN]
    /\ link \in [Calls -> {"none", "fresh", "used"}]
    /\ csrf \in [Calls -> Tabs \cup {None}]
    /\ tab \in [Tabs -> TabSteps]
    /\ on \in [Tabs -> Calls \cup {None}]
    /\ act \in [Tabs -> Buttons \cup {"none"}]
    /\ standing \in [Calls -> BOOLEAN]

Init ==
    /\ RecordInit
    /\ phase = [c \in Calls |-> "new"]
    /\ answer = [c \in Calls |-> "none"]
    /\ byId = [i \in Ids |-> None]
    /\ probing = [c \in Calls |-> FALSE]
    /\ onDisk = [c \in Calls |-> FALSE]
    /\ link = [c \in Calls |-> "none"]
    /\ csrf = [c \in Calls |-> None]
    /\ tab = [t \in Tabs |-> "closed"]
    /\ on = [t \in Tabs |-> None]
    /\ act = [t \in Tabs |-> "none"]
    /\ standing = [c \in Calls |-> FALSE]

-----------------------------------------------------------------------------
(* The adapter: createDispatchingApprovalOrchestrator. *)

InFlight(c) == phase[c] \in {"deciding", "opened", "held"}

\* The client calls; the decider's pending_approval is on its way.
Arrive(c) ==
    /\ phase[c] = "new"
    /\ \A d \in Calls : IdOf[d] = IdOf[c] => ~InFlight(d)
    /\ phase' = [phase EXCEPT ![c] = "deciding"]
    /\ UNCHANGED <<record, answer, byId, channel, page>>

\* orchestrator.request(), through the registry, which remembers the request
\* of a denied handle too.
RequestApproval(c) ==
    /\ phase[c] = "deciding"
    /\ Open(c)
    /\ phase' = [phase EXCEPT ![c] = "opened"]
    /\ UNCHANGED <<answer, byId, channel, page>>

\* The lazy expiry any touch of the record runs first (checkExpiry).
Touch(c) == IF Due(c) THEN Lapse(c) ELSE UNCHANGED record

\* pageServer.url(): a fresh, unused link for the approval.
Register(c) == link' = [link EXCEPT ![c] = "fresh"]

\* writePendingRecord(): best effort.
WritePending(c) == \E written \in BOOLEAN : onDisk' = [onDisk EXCEPT ![c] = written]

\* Variant: the scheduler is there for the heartbeats only, and this client
\* gave no progress token.
HeartbeatsOnly(c) == UNCHANGED probing

\* scheduler.start(): from now on every tick probes the record.
StartProbing(c) == probing' = [probing EXCEPT ![c] = TRUE]

\* presentApprovalToHuman() throws at the mint of the link, before or after
\* the page has it, or at the prompt: notify() ends there.
PresentThrows(c) ==
    /\ NotifyMayFail
    /\ Register(c) \/ UNCHANGED link
    /\ UNCHANGED channel

\* notify() of block-and-wait.
Notify(c) ==
    \/ Register(c) /\ WritePending(c) /\ StartProbing(c)
    \/ PresentThrows(c)

\* Variant: the id is mapped only for the presentation.
PresentUnmapped(c) ==
    /\ phase[c] = "opened"
    /\ phase' = [phase EXCEPT ![c] = "held"]
    /\ Notify(c)
    /\ Touch(c)
    /\ UNCHANGED <<answer, byId, csrf, tab, on, act, standing>>

\* The id is mapped, dispatcher.present() notifies every available channel
\* and swallows what they throw, and the call waits on onResolved().
Present(c) ==
    /\ phase[c] = "opened"
    /\ phase' = [phase EXCEPT ![c] = "held"]
    /\ byId' = [byId EXCEPT ![IdOf[c]] = c]
    /\ Notify(c)
    /\ Touch(c)
    /\ UNCHANGED <<answer, csrf, tab, on, act, standing>>

\* Variant: an expired hold is answered like an approved one.
ResolutionLenient(s) ==
    [approved |-> "allow", denied |-> "approval_denied",
     expired |-> "allow", cancelled |-> "approval_cancelled"][s]

\* toResolution().
Resolution(s) ==
    [approved |-> "allow", denied |-> "approval_denied",
     expired |-> "approval_timeout", cancelled |-> "approval_cancelled"][s]

\* onResolved() settles, the mapping goes, the call is answered.
Answer(c) ==
    /\ phase[c] = "held"
    /\ state[c] \in Terminal
    /\ phase' = [phase EXCEPT ![c] = "answered"]
    /\ answer' = [answer EXCEPT ![c] = Resolution(state[c])]
    /\ byId' = [byId EXCEPT ![IdOf[c]] = None]
    /\ UNCHANGED <<record, channel, page>>

\* The adapter's cancel(): the lifecycle cancels, or throws at a record that
\* is over, latched or due (which expires it), and the throw is swallowed.
CancelMapped(c) == Claim(c, "cancelled") \/ Lapse(c)

\* A notifications/cancelled of the client, after it has been forwarded.  Too
\* early and too late its id is not mapped, and nothing happens.
Cancelled(i) ==
    /\ byId[i] # None
    /\ CancelMapped(byId[i])
    /\ UNCHANGED <<adapter, channel, page>>

-----------------------------------------------------------------------------
(* The block-and-wait channel in the background. *)

\* A tick of the scheduler: status() expires what is due.
Probe(c) ==
    /\ probing[c]
    /\ Lapse(c)
    /\ UNCHANGED <<adapter, channel, page>>

RemovePending(c) == onDisk' = [onDisk EXCEPT ![c] = FALSE]

\* The continuation of onResolved(): the scheduler stops, the file goes.
StopProbing(c) ==
    /\ probing[c]
    /\ state[c] \in Terminal
    /\ probing' = [probing EXCEPT ![c] = FALSE]
    /\ RemovePending(c)
    /\ UNCHANGED <<record, adapter, page>>

-----------------------------------------------------------------------------
(* The page.  What a request carries, as the checks see it. *)

Requests == [host: BOOLEAN, method: BOOLEAN, origin: BOOLEAN, token: BOOLEAN, csrf: BOOLEAN]

\* route(): the host first, then the one method of the path.
RouteReason(q) ==
    IF ~q.host THEN "bad_host" ELSE IF ~q.method THEN "wrong_method" ELSE "ok"

LinkReason(q, c) ==
    IF link[c] = "none" \/ ~q.token THEN "bad_token"
    ELSE IF link[c] = "used" THEN "replayed_token" ELSE "ok"

RenderReason(q, c) ==
    IF RouteReason(q) # "ok" THEN RouteReason(q) ELSE LinkReason(q, c)

\* handleAction(): origin, then the link, then the nonce of the last render.
ActionReason(q, c, t) ==
    CASE RouteReason(q) # "ok"           -> RouteReason(q)
      [] RouteReason(q) = "ok" /\ ~q.origin -> "bad_origin"
      [] OTHER -> IF LinkReason(q, c) # "ok" THEN LinkReason(q, c)
                  ELSE IF ~q.csrf \/ csrf[c] # t THEN "bad_csrf" ELSE "ok"

\* 403, 404, 405 or 410, and an approval_channel_violation in the audit log.
Refuse(t) ==
    /\ tab' = [tab EXCEPT ![t] = "refused"]
    /\ UNCHANGED <<record, link, csrf, act, standing>>

\* handleRenderApprove() behind its checks: a link whose approval has ended
\* by another way is burnt, the others get the form and a fresh nonce.
Render(t, c) ==
    /\ Touch(c)
    /\ \/ /\ state'[c] = "pending"
          /\ tab' = [tab EXCEPT ![t] = "open"]
          /\ csrf' = [csrf EXCEPT ![c] = t]
          /\ UNCHANGED link
       \/ /\ state'[c] # "pending"
          /\ tab' = [tab EXCEPT ![t] = "gone"]
          /\ link' = [link EXCEPT ![c] = "used"]
          /\ UNCHANGED csrf

Get(t, c, q) ==
    /\ tab[t] = "closed"
    /\ on' = [on EXCEPT ![t] = c]
    /\ LET reason == RenderReason(q, c)
       IN  IF reason = "ok"
             THEN Render(t, c) /\ UNCHANGED <<act, standing>>
             ELSE Refuse(t)
    /\ UNCHANGED <<adapter, channel>>

\* orchestrator.resolve(): a denial is over at once, an approval waits for
\* the mint, and a record that cannot be claimed throws (the page says 500).
Resolve(t, c, vote) ==
    \/ /\ vote = "denied"
       /\ Claim(c, "denied")
       /\ tab' = [tab EXCEPT ![t] = "done"]
    \/ /\ vote = "approved"
       /\ Accept(c)
       /\ tab' = [tab EXCEPT ![t] = IF state'[c] = "pending" THEN "resolving" ELSE "done"]
    \/ /\ ~Claimable(c)
       /\ Touch(c)
       /\ tab' = [tab EXCEPT ![t] = "failed"]

\* Variant: the token is claimed when the action is over.
BurnLate(c) == UNCHANGED link

\* entry.used = true, before any await.
Burn(c) == link' = [link EXCEPT ![c] = "used"]

\* 400: an unreadable body, a missing field or an unknown button.
Malformed(t) ==
    /\ tab' = [tab EXCEPT ![t] = "malformed"]
    /\ UNCHANGED <<record, link, act>>

\* Behind the checks: an unknown button is turned away before the link is
\* burnt, "always allow" mints first, the rest goes to resolve().
Carry(t, c) ==
    \/ Malformed(t)
    \/ \E b \in Buttons :
          /\ act' = [act EXCEPT ![t] = b]
          /\ Burn(c)
          /\ IF b = "always_allow"
               THEN tab' = [tab EXCEPT ![t] = "granting"] /\ UNCHANGED record
               ELSE Resolve(t, c, IF b = "deny" THEN "denied" ELSE "approved")

Post(t, q) ==
    /\ tab[t] = "open"
    /\ LET c == on[t]
           reason == ActionReason(q, c, t)
       IN  IF reason = "ok"
             THEN Carry(t, c) /\ UNCHANGED <<csrf, standing>>
             ELSE Refuse(t)
    /\ UNCHANGED <<adapter, channel, on>>

\* The grant minted off a page is for the tool and the resource of its call.
Keep(c, stored) == standing' = [standing EXCEPT ![c] = stored]

\* mintDurableGrant() is over: then, and only then, the approval is resolved,
\* whatever has become of it meanwhile.
GrantMinted(t) ==
    /\ tab[t] = "granting"
    /\ Keep(on[t], TRUE)
    /\ Resolve(t, on[t], "approved")
    /\ UNCHANGED <<adapter, channel, link, csrf, on, act>>

\* It throws: before it stored the grant, or at the audit line after.
GrantFails(t) ==
    /\ tab[t] = "granting"
    /\ \E stored \in BOOLEAN : Keep(on[t], stored)
    /\ tab' = [tab EXCEPT ![t] = "failed"]
    /\ UNCHANGED <<record, adapter, channel, link, csrf, on, act>>

\* The accepted vote has been carried out (ApprovalLifecycle says how).
VoteCarriedOut(t) ==
    /\ tab[t] = "resolving"
    /\ Conclude(on[t])
    /\ tab' = [tab EXCEPT ![t] = "done"]
    /\ UNCHANGED <<adapter, channel, link, csrf, on, act, standing>>

-----------------------------------------------------------------------------

Time == Tick /\ UNCHANGED <<adapter, channel, page>>

\* The clock is at its bound and nobody does anything any more.
Quiet ==
    /\ now = Horizon
    /\ \A c \in Calls : phase[c] \in {"new", "deciding", "answered"} \/ ~probing[c]
    /\ \A t \in Tabs : tab[t] \notin {"granting", "resolving"}
    /\ UNCHANGED vars

OnCall(c) ==
    Arrive(c) \/ RequestApproval(c) \/ Present(c) \/ Answer(c) \/ Probe(c) \/ StopProbing(c)

OnTab(t) ==
    \/ \E q \in Requests : Post(t, q) \/ \E c \in Calls : Get(t, c, q)
    \/ GrantMinted(t) \/ GrantFails(t) \/ VoteCarriedOut(t)

Next ==
    \/ \E c \in Calls : OnCall(c)
    \/ \E i \in Ids : Cancelled(i)
    \/ \E t \in Tabs : OnTab(t)
    \/ Time
    \/ Quiet

Spec == Init /\ [][Next]_vars

(***************************************************************************)
(* The event loop runs the continuations of the adapter and of the channel *)
(* and the timers; time passes.  Nobody makes a human open the page, a     *)
(* client cancel, or the key store answer a mint.                          *)
(***************************************************************************)
Fairness ==
    /\ WF_vars(Time)
    /\ \A c \in Calls :
          /\ WF_vars(RequestApproval(c)) /\ WF_vars(Present(c)) /\ WF_vars(Answer(c))
          /\ WF_vars(Probe(c)) /\ WF_vars(StopProbing(c))

FairSpec == Spec /\ Fairness

-----------------------------------------------------------------------------
(* Properties. *)

\* Authority comes from a person: the agent is told "allow", and a standing
\* grant is left behind, only after a button was pressed for this very call on
\* its own page, and the vote was carried out.  No expiry, cancel, stale tab or
\* replayed form stands in for it.  (The standing grant of an "always allow"
\* may outlive an approval that ended under the page: it is minted first.)
AuthorityNeedsAPerson ==
    \A c \in Calls :
        /\ answer[c] = "allow" =>
              \E t \in Tabs : on[t] = c /\ tab[t] = "done" /\ act[t] \in {"approve", "always_allow"}
        /\ standing[c] => \E t \in Tabs : on[t] = c /\ act[t] = "always_allow"

\* The link acts once: of all the tabs on a call's page one at most gets past
\* the checks, although the actions of two may be in flight together.
LinkActsOnce ==
    \A t, u \in Tabs : on[t] = on[u] /\ act[t] # "none" /\ act[u] # "none" => t = u

\* A cancellation finds the call the client means: as long as a call is held
\* its id leads to it, and an id leads to no call that is not held.
CancelFindsItsCall ==
    \A i \in Ids, c \in Calls :
        byId[i] = c <=> IdOf[c] = i /\ phase[c] = "held"

\* The call is answered, or an accepted vote still waits for its mint.
AnsweredOrMinting(c) ==
    phase[c] = "answered" \/ (state[c] = "pending" /\ resolving[c])

\* A held call whose notification got as far as the timers is answered,
\* whoever looks away: the human, the client and the audit log.  Only the
\* promise of a mint that a vote has started can hold it for good, and when it
\* is over no timer and no pending file is left.  (A notification that throws
\* before that starts no timer, and nothing expires the call.)
HeldCallIsAnswered ==
    \A c \in Calls :
        /\ onDisk[c] \/ probing[c] ~> AnsweredOrMinting(c)
        /\ state[c] \in Terminal ~> (~probing[c] /\ ~onDisk[c])

=============================================================================
