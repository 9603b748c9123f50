----------------------------- MODULE HeldCallProofs -----------------------------
(***************************************************************************)
(* Proofs about HeldCall, for any number of calls, ids and tabs.           *)
(*                                                                         *)
(* None of the properties is inductive.  That an id leads to its call needs *)
(* the client to keep to one call in flight per id (OneInFlight); that a   *)
(* link acts once needs it to be used up by whoever acted, and never       *)
(* registered again (Links, Acted); that an allow rests on a person needs  *)
(* every approved record to have a tab whose vote was carried out          *)
(* (ApprovedByPerson).                                                     *)
(***************************************************************************)
EXTENDS HeldCall, TLAPS

\* What the client keeps to: two calls with one id are not in flight together.
OneInFlight ==
    \A c, d \in Calls : IdOf[c] = IdOf[d] /\ InFlight(c) /\ InFlight(d) => c = d

\* A link exists only once its call is presented.
Links == \A c \in Calls : link[c] # "none" => phase[c] \in {"held", "answered"}

\* A tab acts after its form was rendered, which took a link, and uses it up.
Acted ==
    \A t \in Tabs :
        /\ tab[t] \in {"closed", "open"} => act[t] = "none"
        /\ tab[t] \in {"open", "granting", "resolving"} => on[t] \in Calls
        /\ tab[t] = "granting" => act[t] = "always_allow"
        /\ tab[t] = "resolving" => act[t] \in {"approve", "always_allow"}
        /\ act[t] # "none" => on[t] \in Calls /\ link[on[t]] = "used"

\* An approved record has a tab whose vote was carried out.
ApprovedByPerson ==
    \A c \in Calls : state[c] = "approved" =>
        \E t \in Tabs : on[t] = c /\ tab[t] = "done" /\ act[t] \in {"approve", "always_allow"}

IInv ==
    /\ TypeOK
    /\ OneInFlight
    /\ CancelFindsItsCall
    /\ Links
    /\ Acted
    /\ LinkActsOnce
    /\ ApprovedByPerson
    /\ AuthorityNeedsAPerson

-----------------------------------------------------------------------------
(* The initial states. *)

\* Nothing has been asked, opened or clicked.
LEMMA InitHolds == Init => IInv
<1> SUFFICES ASSUME Init PROVE IInv
    OBVIOUS
<1> USE HeldCallAssumption DEF Init, RecordInit, Calls
<1>1. TypeOK
    BY DEF TypeOK, Terminal, Phases, Answers, TabSteps, Over, Buttons
<1>2. OneInFlight /\ CancelFindsItsCall
    BY DEF OneInFlight, InFlight, CancelFindsItsCall
<1>3. Links /\ Acted /\ LinkActsOnce
    BY DEF Links, Acted, LinkActsOnce
<1>4. ApprovedByPerson /\ AuthorityNeedsAPerson
    BY DEF ApprovedByPerson, AuthorityNeedsAPerson
<1> QED BY <1>1, <1>2, <1>3, <1>4 DEF IInv

-----------------------------------------------------------------------------
(* The record: what the other components may do to it. *)

\* Steps that leave every call's record alone or end it without an approval.
Unapproving ==
    /\ state' \in [Calls -> {"absent", "pending"} \cup Terminal]
    /\ resolving' \in [Calls -> BOOLEAN]
    /\ requestedAt' \in [Calls -> Nat]
    /\ now' \in Nat
    /\ \A c \in Calls : state'[c] = "approved" => state[c] = "approved"

\* An unchanged record is a case of it.
LEMMA StillUnapproving == ASSUME TypeOK, UNCHANGED record PROVE Unapproving
BY DEF TypeOK, Unapproving, record

\* A lapse, a claim and an accepted vote approve nothing.
LEMMA LapseUnapproving ==
    ASSUME TypeOK, NEW c \in Calls, Lapse(c) PROVE Unapproving
BY DEF TypeOK, Lapse, End, Unapproving, Terminal, Calls

LEMMA TouchUnapproving ==
    ASSUME TypeOK, NEW c \in Calls, Touch(c) PROVE Unapproving
BY StillUnapproving, LapseUnapproving DEF Touch

LEMMA ClaimUnapproving ==
    ASSUME TypeOK, NEW c \in Calls, NEW s \in {"denied", "cancelled"}, Claim(c, s)
    PROVE  Unapproving
BY DEF TypeOK, Claim, Latch, End, Unapproving, Terminal, Calls

LEMMA AcceptUnapproving ==
    ASSUME TypeOK, NEW c \in Calls, Accept(c) PROVE Unapproving
BY DEF TypeOK, Accept, Latch, End, Unapproving, Terminal, Calls

\* resolve() in any of its three ways out.
LEMMA ResolveUnapproving ==
    ASSUME TypeOK, NEW t \in Tabs, NEW c \in Calls, NEW vote \in {"denied", "approved"},
           Resolve(t, c, vote)
    PROVE  /\ Unapproving
           /\ \E s \in {"resolving", "done", "failed"} :
                 /\ tab' = [tab EXCEPT ![t] = s]
                 /\ s = "resolving" => vote = "approved"
<1>1. CASE vote = "denied" /\ Claim(c, "denied") /\ tab' = [tab EXCEPT ![t] = "done"]
    BY <1>1, ClaimUnapproving
<1>2. CASE /\ vote = "approved"
           /\ Accept(c)
           /\ tab' = [tab EXCEPT ![t] = IF state'[c] = "pending" THEN "resolving" ELSE "done"]
    BY <1>2, AcceptUnapproving
<1>3. CASE ~Claimable(c) /\ Touch(c) /\ tab' = [tab EXCEPT ![t] = "failed"]
    BY <1>3, TouchUnapproving
<1> QED BY <1>1, <1>2, <1>3 DEF Resolve

-----------------------------------------------------------------------------
(* The steps of the adapter and of the channel. *)

\* A step that leaves the page alone but for fresh links, and approves nothing.
LEMMA OffPage ==
    ASSUME IInv, Unapproving, UNCHANGED <<csrf, tab, on, act, standing>>,
           link' \in [Calls -> {"none", "fresh", "used"}],
           phase' \in [Calls -> Phases],
           answer' \in [Calls -> Answers],
           \A c \in Calls : link'[c] # link[c] => link[c] = "none" /\ phase'[c] = "held",
           \A c \in Calls : phase[c] \in {"held", "answered"} => phase'[c] \in {"held", "answered"},
           \A c \in Calls : answer'[c] = "allow" => answer[c] = "allow" \/ state[c] = "approved"
    PROVE  Links' /\ Acted' /\ LinkActsOnce' /\ ApprovedByPerson' /\ AuthorityNeedsAPerson'
<1>1. Links'
    BY DEF IInv, Links
<1>2. Acted'
    BY DEF IInv, Acted
<1>3. LinkActsOnce'
    BY DEF IInv, LinkActsOnce
<1>4. ApprovedByPerson'
    BY DEF IInv, ApprovedByPerson, Unapproving
<1>5. AuthorityNeedsAPerson'
    BY DEF IInv, AuthorityNeedsAPerson, ApprovedByPerson
<1> QED BY <1>1, <1>2, <1>3, <1>4, <1>5

\* What the adapter's maps owe the client depends on the adapter alone.
LEMMA SameAdapter ==
    ASSUME IInv, UNCHANGED <<phase, byId>> PROVE OneInFlight' /\ CancelFindsItsCall'
BY DEF IInv, OneInFlight, InFlight, CancelFindsItsCall

LEMMA ArriveKeeps == ASSUME IInv, NEW c \in Calls, Arrive(c) PROVE IInv'
<1> USE DEF Arrive, channel, page
<1>1. Unapproving
    BY StillUnapproving DEF IInv
<1>2. TypeOK'
    BY <1>1 DEF IInv, TypeOK, Unapproving, Phases
<1>3. OneInFlight'
    BY DEF IInv, TypeOK, OneInFlight, InFlight
<1>4. CancelFindsItsCall'
    BY DEF IInv, TypeOK, CancelFindsItsCall
<1>5. Links' /\ Acted' /\ LinkActsOnce' /\ ApprovedByPerson' /\ AuthorityNeedsAPerson'
    BY <1>1, <1>2, OffPage DEF IInv, TypeOK
<1> QED BY <1>2, <1>3, <1>4, <1>5 DEF IInv

LEMMA RequestKeeps == ASSUME IInv, NEW c \in Calls, RequestApproval(c) PROVE IInv'
<1> USE DEF RequestApproval, channel, page
<1>1. Unapproving
    BY DEF IInv, TypeOK, Open, End, Unapproving, Terminal, Calls
<1>2. TypeOK'
    BY <1>1 DEF IInv, TypeOK, Unapproving, Phases
<1>3. OneInFlight'
    BY DEF IInv, TypeOK, OneInFlight, InFlight
<1>4. CancelFindsItsCall'
    BY DEF IInv, TypeOK, CancelFindsItsCall
<1>5. Links' /\ Acted' /\ LinkActsOnce' /\ ApprovedByPerson' /\ AuthorityNeedsAPerson'
    BY <1>1, <1>2, OffPage DEF IInv, TypeOK
<1> QED BY <1>2, <1>3, <1>4, <1>5 DEF IInv

LEMMA PresentKeeps == ASSUME IInv, NEW c \in Calls, Present(c) PROVE IInv'
<1> USE DEF Present
<1>1. Unapproving
    BY TouchUnapproving DEF IInv
<1>2. /\ link' \in {link, [link EXCEPT ![c] = "fresh"]}
      /\ probing' \in [Calls -> BOOLEAN]
      /\ onDisk' \in [Calls -> BOOLEAN]
    BY DEF IInv, TypeOK, Notify, Register, WritePending, StartProbing, PresentThrows, channel
<1>3. TypeOK'
    BY <1>1, <1>2, HeldCallAssumption DEF IInv, TypeOK, Unapproving, Phases, Calls
<1>4. OneInFlight'
    BY DEF IInv, TypeOK, OneInFlight, InFlight
<1>5. CancelFindsItsCall'
  <2> SUFFICES ASSUME NEW i \in Ids, NEW d \in Calls
               PROVE  byId'[i] = d <=> IdOf[d] = i /\ phase'[d] = "held"
      BY DEF CancelFindsItsCall
  <2>1. IdOf[c] \in Ids /\ IdOf[d] \in Ids
      BY HeldCallAssumption
  <2>2. CASE i = IdOf[c]
    <3>1. IdOf[d] = i /\ phase[d] = "held" => d = c
        BY <2>2 DEF IInv, OneInFlight, InFlight
    <3> QED BY <2>1, <2>2, <3>1 DEF IInv, TypeOK
  <2>3. CASE i # IdOf[c]
      BY <2>1, <2>3 DEF IInv, TypeOK, CancelFindsItsCall
  <2> QED BY <2>2, <2>3
<1>6. Links' /\ Acted' /\ LinkActsOnce' /\ ApprovedByPerson' /\ AuthorityNeedsAPerson'
  <2>1. link[c] = "none"
      BY DEF IInv, Links, TypeOK
  <2> QED BY <1>1, <1>2, <1>3, <2>1, OffPage DEF IInv, TypeOK
<1> QED BY <1>3, <1>4, <1>5, <1>6 DEF IInv

\* Only an approved record is answered "allow".
LEMMA ResolutionAllows ==
    \A s \in Terminal : Resolution(s) \in Answers /\ (Resolution(s) = "allow" => s = "approved")
BY DEF Resolution, Terminal, Answers

LEMMA AnswerKeeps == ASSUME IInv, NEW c \in Calls, Answer(c) PROVE IInv'
<1> USE DEF Answer, channel, page
<1>1. Unapproving
    BY StillUnapproving DEF IInv
<1>2. TypeOK'
    BY <1>1, ResolutionAllows, HeldCallAssumption DEF IInv, TypeOK, Unapproving, Phases
<1>3. OneInFlight'
    BY DEF IInv, TypeOK, OneInFlight, InFlight
<1>4. CancelFindsItsCall'
  <2> SUFFICES ASSUME NEW i \in Ids, NEW d \in Calls
               PROVE  byId'[i] = d <=> IdOf[d] = i /\ phase'[d] = "held"
      BY DEF CancelFindsItsCall
  <2>1. IdOf[c] \in Ids /\ IdOf[d] \in Ids /\ None \notin Calls
      BY HeldCallAssumption
  <2>2. CASE i = IdOf[c]
    <3>1. IdOf[d] = i /\ phase[d] = "held" => d = c
        BY <2>2 DEF IInv, OneInFlight, InFlight
    <3> QED BY <2>1, <2>2, <3>1 DEF IInv, TypeOK
  <2>3. CASE i # IdOf[c]
      BY <2>1, <2>3 DEF IInv, TypeOK, CancelFindsItsCall
  <2> QED BY <2>2, <2>3
<1>5. Links' /\ Acted' /\ LinkActsOnce' /\ ApprovedByPerson' /\ AuthorityNeedsAPerson'
    BY <1>1, <1>2, ResolutionAllows, OffPage DEF IInv, TypeOK
<1> QED BY <1>2, <1>3, <1>4, <1>5 DEF IInv

\* A cancellation, a tick of the scheduler and the passing of time change the
\* record only; the end of the probing does not even that.
LEMMA BackgroundKeeps ==
    ASSUME IInv, Unapproving, UNCHANGED <<adapter, page>>,
           probing' \in [Calls -> BOOLEAN], onDisk' \in [Calls -> BOOLEAN]
    PROVE  IInv'
<1> USE DEF adapter, page
<1>1. TypeOK'
    BY DEF IInv, TypeOK, Unapproving
<1>2. OneInFlight' /\ CancelFindsItsCall'
    BY SameAdapter
<1>3. Links' /\ Acted' /\ LinkActsOnce' /\ ApprovedByPerson' /\ AuthorityNeedsAPerson'
    BY <1>1, OffPage DEF IInv, TypeOK
<1> QED BY <1>1, <1>2, <1>3 DEF IInv

LEMMA CancelledKeeps == ASSUME IInv, NEW i \in Ids, Cancelled(i) PROVE IInv'
<1>1. byId[i] \in Calls
    BY DEF IInv, TypeOK, Cancelled
<1>2. Unapproving
    BY <1>1, ClaimUnapproving, LapseUnapproving DEF IInv, Cancelled, CancelMapped
<1> QED BY <1>2, BackgroundKeeps DEF IInv, TypeOK, Cancelled, channel

LEMMA ProbeKeeps == ASSUME IInv, NEW c \in Calls, Probe(c) PROVE IInv'
<1>1. Unapproving
    BY LapseUnapproving DEF IInv, Probe
<1> QED BY <1>1, BackgroundKeeps DEF IInv, TypeOK, Probe, channel

LEMMA StopKeeps == ASSUME IInv, NEW c \in Calls, StopProbing(c) PROVE IInv'
<1>1. Unapproving
    BY StillUnapproving DEF IInv, StopProbing
<1> QED BY <1>1, BackgroundKeeps DEF IInv, TypeOK, StopProbing, RemovePending

LEMMA TimeKeeps == ASSUME IInv, Time PROVE IInv'
<1>1. Unapproving
    BY DEF IInv, TypeOK, Time, Tick, Unapproving
<1> QED BY <1>1, BackgroundKeeps DEF IInv, TypeOK, Time, channel

-----------------------------------------------------------------------------
(* The steps of the page. *)

\* A request that is turned away, at the tab it was made from.
LEMMA RefusedKeeps ==
    ASSUME IInv, NEW t \in Tabs, NEW s \in {"refused", "gone", "malformed"},
           tab[t] \in {"closed", "open"}, tab' = [tab EXCEPT ![t] = s],
           link' \in [Calls -> {"none", "fresh", "used"}],
           \A c \in Calls : link'[c] # link[c] =>
                                link'[c] = "used" /\ phase[c] \in {"held", "answered"},
           on' \in [Tabs -> Calls \cup {None}], \A u \in Tabs \ {t} : on'[u] = on[u],
           csrf' = csrf, act' = act, standing' = standing,
           Unapproving, UNCHANGED <<adapter, channel>>
    PROVE  IInv'
<1> USE DEF adapter, channel
<1>1. TypeOK'
    BY DEF IInv, TypeOK, Unapproving, TabSteps, Over
<1>2. OneInFlight' /\ CancelFindsItsCall'
    BY SameAdapter
<1>3. act[t] = "none"
    BY DEF IInv, Acted
<1>4. Links'
    BY DEF IInv, Links
<1>5. Acted'
    BY <1>3 DEF IInv, Acted, TypeOK, Over
<1>6. LinkActsOnce'
    BY <1>3 DEF IInv, LinkActsOnce
<1>7. ApprovedByPerson'
    BY <1>3 DEF IInv, ApprovedByPerson, Unapproving, TypeOK
<1>8. AuthorityNeedsAPerson'
    BY <1>3 DEF IInv, AuthorityNeedsAPerson, TypeOK
<1> QED BY <1>1, <1>2, <1>4, <1>5, <1>6, <1>7, <1>8 DEF IInv

LEMMA GetKeeps ==
    ASSUME IInv, NEW t \in Tabs, NEW c \in Calls, NEW q \in Requests, Get(t, c, q)
    PROVE  IInv'
<1> USE DEF Get
<1>1. on' \in [Tabs -> Calls \cup {None}] /\ \A u \in Tabs \ {t} : on'[u] = on[u]
    BY DEF IInv, TypeOK
<1>2. CASE Refuse(t)
  <2>1. Unapproving /\ link' = link
      BY <1>2, StillUnapproving DEF IInv, TypeOK, Refuse
  <2> QED BY <1>1, <1>2, <2>1, RefusedKeeps DEF Refuse, IInv, TypeOK
<1>3. CASE RenderReason(q, c) = "ok" /\ Render(t, c) /\ UNCHANGED <<act, standing>>
  <2>1. link[c] = "fresh" /\ phase[c] \in {"held", "answered"}
    <3>1. LinkReason(q, c) = "ok"
        BY <1>3 DEF RenderReason
    <3> QED BY <3>1 DEF LinkReason, IInv, TypeOK, Links
  <2>2. Unapproving
      BY <1>3, TouchUnapproving DEF IInv, Render
  <2>3. CASE tab' = [tab EXCEPT ![t] = "gone"] /\ link' = [link EXCEPT ![c] = "used"]
             /\ UNCHANGED csrf
    <3>1. /\ link' \in [Calls -> {"none", "fresh", "used"}]
          /\ \A d \in Calls : link'[d] # link[d] => d = c /\ link'[d] = "used"
        BY <2>3 DEF IInv, TypeOK
    <3> QED BY <1>1, <1>3, <2>1, <2>2, <2>3, <3>1, RefusedKeeps
  <2>4. CASE tab' = [tab EXCEPT ![t] = "open"] /\ csrf' = [csrf EXCEPT ![c] = t]
             /\ UNCHANGED link
    <3> USE <2>4, <1>3 DEF adapter, channel
    <3>1. TypeOK'
        BY <1>1, <2>2 DEF IInv, TypeOK, Unapproving, TabSteps
    <3>2. OneInFlight' /\ CancelFindsItsCall'
        BY SameAdapter
    <3>3. act[t] = "none" /\ on'[t] = c
        BY DEF IInv, Acted, TypeOK
    <3>4. Links'
        BY DEF IInv, Links
    <3>5. Acted'
        BY <1>1, <3>3 DEF IInv, Acted, TypeOK
    <3>6. LinkActsOnce'
        BY <1>1, <3>3 DEF IInv, LinkActsOnce
    <3>7. ApprovedByPerson'
        BY <1>1, <2>2, <3>3 DEF IInv, ApprovedByPerson, Unapproving, TypeOK
    <3>8. AuthorityNeedsAPerson'
        BY <1>1, <3>3 DEF IInv, AuthorityNeedsAPerson, TypeOK
    <3> QED BY <3>1, <3>2, <3>4, <3>5, <3>6, <3>7, <3>8 DEF IInv
  <2> QED BY <1>3, <2>3, <2>4 DEF Render
<1> QED BY <1>2, <1>3

\* A button takes effect at its own tab alone, whose link it has used up.
LEMMA PressKeeps ==
    ASSUME IInv, NEW t \in Tabs, NEW s \in TabSteps \ {"closed", "open"}, NEW b \in Buttons,
           on[t] \in Calls, link'[on[t]] = "used", link' \in [Calls -> {"none", "fresh", "used"}],
           \A c \in Calls : link'[c] # link[c] => c = on[t] /\ link[c] = "fresh",
           \A u \in Tabs \ {t} : on[u] = on[t] => act[u] = "none",
           tab[t] \in {"open", "granting"}, tab' = [tab EXCEPT ![t] = s],
           act' = [act EXCEPT ![t] = b], act[t] \in {"none", b},
           s = "granting" => b = "always_allow",
           s = "resolving" => b \in {"approve", "always_allow"},
           standing' \in [Calls -> BOOLEAN],
           \A c \in Calls : standing'[c] => standing[c] \/ (c = on[t] /\ b = "always_allow"),
           Unapproving, UNCHANGED <<adapter, channel, csrf, on>>
    PROVE  IInv'
<1> USE DEF adapter, channel
<1>1. TypeOK'
    BY DEF IInv, TypeOK, Unapproving
<1>2. OneInFlight' /\ CancelFindsItsCall'
    BY SameAdapter
<1>3. Links'
    BY DEF IInv, Links
<1>4. Acted'
    BY DEF IInv, Acted, TypeOK
<1>5. LinkActsOnce'
    BY DEF IInv, LinkActsOnce, TypeOK
<1>6. ApprovedByPerson'
    BY DEF IInv, ApprovedByPerson, Unapproving, TypeOK
<1>7. AuthorityNeedsAPerson'
    BY DEF IInv, AuthorityNeedsAPerson, TypeOK, Buttons
<1> QED BY <1>1, <1>2, <1>3, <1>4, <1>5, <1>6, <1>7 DEF IInv

LEMMA PostKeeps ==
    ASSUME IInv, NEW t \in Tabs, NEW q \in Requests, Post(t, q) PROVE IInv'
<1> DEFINE c == on[t]
<1>1. tab[t] = "open" /\ c \in Calls /\ act[t] = "none" /\ UNCHANGED <<adapter, channel, on>>
    BY DEF Post, IInv, Acted
<1>2. CASE Refuse(t)
  <2>1. Unapproving /\ link' = link
      BY <1>2, StillUnapproving DEF IInv, TypeOK, Refuse
  <2> QED BY <1>1, <1>2, <2>1, RefusedKeeps DEF Refuse, IInv, TypeOK
<1>3. CASE ActionReason(q, c, t) = "ok" /\ Carry(t, c) /\ UNCHANGED <<csrf, standing>>
  <2>1. link[c] = "fresh"
    <3>1. LinkReason(q, c) = "ok"
        BY <1>3, ZenonT(60) DEF ActionReason
    <3> QED BY <1>1, <3>1 DEF LinkReason, IInv, TypeOK
  <2>2. \A u \in Tabs \ {t} : on[u] = c => act[u] = "none"
      BY <2>1 DEF IInv, Acted
  <2>3. CASE Malformed(t)
    <3>1. Unapproving /\ link' = link
        BY <2>3, StillUnapproving DEF IInv, TypeOK, Malformed
    <3> QED BY <1>1, <1>3, <2>3, <3>1, RefusedKeeps DEF Malformed, IInv, TypeOK
  <2>4. ASSUME NEW b \in Buttons, act' = [act EXCEPT ![t] = b], Burn(c),
               IF b = "always_allow"
                 THEN tab' = [tab EXCEPT ![t] = "granting"] /\ UNCHANGED record
                 ELSE Resolve(t, c, IF b = "deny" THEN "denied" ELSE "approved")
        PROVE  IInv'
    <3>1. /\ Unapproving
          /\ \E s \in TabSteps \ {"closed", "open"} :
                /\ tab' = [tab EXCEPT ![t] = s]
                /\ s = "granting" => b = "always_allow"
                /\ s = "resolving" => b \in {"approve", "always_allow"}
      <4>1. CASE b = "always_allow"
          BY <2>4, <4>1, StillUnapproving DEF IInv, TabSteps
      <4>2. CASE b = "deny"
        <5>1. Resolve(t, c, IF b = "deny" THEN "denied" ELSE "approved")
            BY <2>4, <4>2
        <5> QED BY <1>1, <4>2, <5>1, ResolveUnapproving DEF IInv, TabSteps, Over
      <4>3. CASE b = "approve"
        <5>1. Resolve(t, c, IF b = "deny" THEN "denied" ELSE "approved")
            BY <2>4, <4>3
        <5> QED BY <1>1, <4>3, <5>1, ResolveUnapproving DEF IInv, TabSteps, Over
      <4> QED BY <4>1, <4>2, <4>3 DEF Buttons
    <3>2. PICK s \in TabSteps \ {"closed", "open"} :
                /\ tab' = [tab EXCEPT ![t] = s]
                /\ s = "granting" => b = "always_allow"
                /\ s = "resolving" => b \in {"approve", "always_allow"}
        BY <3>1
    <3>3. /\ link' \in [Calls -> {"none", "fresh", "used"}]
          /\ link'[c] = "used"
          /\ \A d \in Calls : link'[d] # link[d] => d = c /\ link[d] = "fresh"
        BY <1>1, <2>1, <2>4 DEF Burn, IInv, TypeOK
    <3>4. /\ standing' \in [Calls -> BOOLEAN]
          /\ \A d \in Calls : standing'[d] => standing[d]
        BY <1>3 DEF IInv, TypeOK
    <3>5. act' = [act EXCEPT ![t] = b] /\ UNCHANGED <<adapter, channel, csrf, on>>
        BY <1>1, <1>3, <2>4
    <3>6. \A d \in Calls : standing'[d] => standing[d] \/ (d = on[t] /\ b = "always_allow")
        BY <3>4
    <3>7. tab[t] \in {"open", "granting"} /\ act[t] \in {"none", b}
        BY <1>1
    <3>8. \A d \in Calls : link'[d] # link[d] => d = on[t] /\ link[d] = "fresh"
        BY <3>3
    <3> QED BY <1>1, <2>2, <3>1, <3>2, <3>3, <3>4, <3>5, <3>6, <3>7, <3>8, PressKeeps, Zenon
  <2> QED BY <1>3, <2>3, <2>4 DEF Carry
<1> QED BY <1>2, <1>3 DEF Post

LEMMA GrantMintedKeeps == ASSUME IInv, NEW t \in Tabs, GrantMinted(t) PROVE IInv'
<1> USE DEF GrantMinted, Keep
<1>1. on[t] \in Calls /\ act[t] = "always_allow" /\ link[on[t]] = "used"
    BY DEF IInv, Acted
<1>2. Unapproving
    BY <1>1, ResolveUnapproving DEF IInv
<1>3. PICK s \in {"resolving", "done", "failed"} : tab' = [tab EXCEPT ![t] = s]
    BY <1>1, ResolveUnapproving DEF IInv
<1>4. \A u \in Tabs \ {t} : on[u] = on[t] => act[u] = "none"
    BY <1>1 DEF IInv, LinkActsOnce, TypeOK
<1>5. act' = [act EXCEPT ![t] = "always_allow"] /\ s \in TabSteps \ {"closed", "open"}
    BY <1>1 DEF IInv, TypeOK, TabSteps, Over
<1> QED BY <1>1, <1>2, <1>3, <1>4, <1>5, PressKeeps DEF Buttons, IInv, TypeOK

LEMMA GrantFailsKeeps == ASSUME IInv, NEW t \in Tabs, GrantFails(t) PROVE IInv'
<1> USE DEF GrantFails, Keep
<1>1. on[t] \in Calls /\ act[t] = "always_allow" /\ link[on[t]] = "used"
    BY DEF IInv, Acted
<1>2. Unapproving
    BY StillUnapproving DEF IInv
<1>3. \A u \in Tabs \ {t} : on[u] = on[t] => act[u] = "none"
    BY <1>1 DEF IInv, LinkActsOnce, TypeOK
<1>4. act' = [act EXCEPT ![t] = "always_allow"] /\ "failed" \in TabSteps \ {"closed", "open"}
    BY <1>1 DEF IInv, TypeOK, TabSteps, Over
<1>5. /\ standing' \in [Calls -> BOOLEAN]
      /\ \A c \in Calls : standing'[c] => standing[c] \/ c = on[t]
    BY <1>1 DEF IInv, TypeOK
<1>6. link' = link /\ link \in [Calls -> {"none", "fresh", "used"}] /\ "always_allow" \in Buttons
    BY DEF IInv, TypeOK, Buttons
<1> QED BY <1>1, <1>2, <1>3, <1>4, <1>5, <1>6, PressKeeps

\* The one step that approves: it leaves its tab behind as the witness.
LEMMA VoteKeeps == ASSUME IInv, NEW t \in Tabs, VoteCarriedOut(t) PROVE IInv'
<1> USE DEF VoteCarriedOut, Conclude, End, adapter, channel
<1>1. on[t] \in Calls /\ act[t] \in {"approve", "always_allow"} /\ link[on[t]] = "used"
    BY DEF IInv, Acted
<1>2. TypeOK'
    BY <1>1 DEF IInv, TypeOK, Terminal, TabSteps, Over, Calls
<1>3. OneInFlight' /\ CancelFindsItsCall'
    BY SameAdapter
<1>4. Links' /\ LinkActsOnce'
    BY DEF IInv, Links, LinkActsOnce
<1>5. Acted'
    BY DEF IInv, Acted, TypeOK
<1>6. tab'[t] = "done" /\ \A u \in Tabs : tab[u] = "done" => tab'[u] = "done"
    BY DEF IInv, TypeOK
<1>7. ApprovedByPerson'
    BY <1>1, <1>6 DEF IInv, ApprovedByPerson, TypeOK
<1>8. AuthorityNeedsAPerson'
    BY <1>6 DEF IInv, AuthorityNeedsAPerson
<1> QED BY <1>2, <1>3, <1>4, <1>5, <1>7, <1>8 DEF IInv

-----------------------------------------------------------------------------
(* The theorems. *)

LEMMA StutterKeeps == ASSUME IInv, UNCHANGED vars PROVE IInv'
<1>1. Unapproving
    BY StillUnapproving DEF IInv, vars
<1> QED BY <1>1, BackgroundKeeps DEF IInv, TypeOK, vars, channel

\* The invariant that everything else here follows from.
THEOREM Invariance == Spec => []IInv
<1>1. Init => IInv
    BY InitHolds
<1>2. IInv /\ [Next]_vars => IInv'
  <2> SUFFICES ASSUME IInv, [Next]_vars PROVE IInv'
      OBVIOUS
  <2>1. ASSUME NEW c \in Calls, OnCall(c) PROVE IInv'
      BY <2>1, ArriveKeeps, RequestKeeps, PresentKeeps, AnswerKeeps, ProbeKeeps, StopKeeps
      DEF OnCall
  <2>2. ASSUME NEW i \in Ids, Cancelled(i) PROVE IInv'
      BY <2>2, CancelledKeeps
  <2>3. ASSUME NEW t \in Tabs, OnTab(t) PROVE IInv'
      BY <2>3, PostKeeps, GetKeeps, GrantMintedKeeps, GrantFailsKeeps, VoteKeeps DEF OnTab
  <2>4. CASE Time
      BY <2>4, TimeKeeps
  <2>5. CASE Quiet \/ UNCHANGED vars
      BY <2>5, StutterKeeps DEF Quiet
  <2> QED BY <2>1, <2>2, <2>3, <2>4, <2>5 DEF Next
<1> QED BY <1>1, <1>2, PTL DEF Spec

\* Every variable keeps to its type.
THEOREM TypeCorrect == Spec => []TypeOK
<1>1. IInv => TypeOK
    BY DEF IInv
<1> QED BY <1>1, Invariance, PTL

\* An allow and a standing grant rest on a button that a person pressed for
\* this call, on its own page.
THEOREM PersonDecides == Spec => []AuthorityNeedsAPerson
<1>1. IInv => AuthorityNeedsAPerson
    BY DEF IInv
<1> QED BY <1>1, Invariance, PTL

\* Of all the tabs on a call's page one at most acts.
THEOREM LinkIsSpent == Spec => []LinkActsOnce
<1>1. IInv => LinkActsOnce
    BY DEF IInv
<1> QED BY <1>1, Invariance, PTL

\* An id leads to the call that is held under it, and to no other.
THEOREM CancelIsRouted == Spec => []CancelFindsItsCall
<1>1. IInv => CancelFindsItsCall
    BY DEF IInv
<1> QED BY <1>1, Invariance, PTL

-----------------------------------------------------------------------------
(* What the adapter, the channel and the page do together is what callers of  *)
(* the lifecycle may do: HeldCall is a use of ApprovalRecord, which           *)
(* ApprovalLifecycle implements.                                              *)

LEMMA ResolveIsRecord ==
    ASSUME NEW t, NEW c \in Calls, NEW vote, Resolve(t, c, vote)
    PROVE  [RecordNext]_record
BY DEF Resolve, Touch, RecordNext, Calls

\* Every behaviour of the held calls is, of their records, one of the record's
\* specification.
THEOREM RespectsRecord == Spec => RecordSpec
<1>1. Init => RecordInit
    BY DEF Init
<1>2. IInv /\ [Next]_vars => [RecordNext]_record
  <2> SUFFICES ASSUME IInv, [Next]_vars PROVE [RecordNext]_record
      OBVIOUS
  <2>1. ASSUME NEW c \in Calls, OnCall(c) PROVE [RecordNext]_record
      BY <2>1 DEF OnCall, Arrive, RequestApproval, Present, Touch, Answer, Probe, StopProbing,
                  RecordNext, Calls
  <2>2. ASSUME NEW i \in Ids, Cancelled(i) PROVE [RecordNext]_record
    <3>1. byId[i] \in Calls
        BY <2>2 DEF IInv, TypeOK, Cancelled
    <3> QED BY <2>2, <3>1 DEF Cancelled, CancelMapped, RecordNext, Calls
  <2>3. ASSUME NEW t \in Tabs, OnTab(t) PROVE [RecordNext]_record
    <3>1. ASSUME NEW q \in Requests, Post(t, q) PROVE [RecordNext]_record
      <4>1. on[t] \in Calls
          BY <3>1 DEF Post, IInv, Acted
      <4>2. Refuse(t) \/ Carry(t, on[t])
          BY <3>1 DEF Post
      <4> QED BY <4>1, <4>2, ResolveIsRecord DEF Refuse, Carry, Malformed
    <3>2. ASSUME NEW q \in Requests, NEW c \in Calls, Get(t, c, q) PROVE [RecordNext]_record
        BY <3>2 DEF Get, Refuse, Render, Touch, RecordNext, Calls
    <3>3. CASE GrantMinted(t)
      <4>1. on[t] \in Calls
          BY <3>3 DEF GrantMinted, IInv, Acted
      <4> QED BY <3>3, <4>1, ResolveIsRecord DEF GrantMinted
    <3>4. CASE GrantFails(t)
        BY <3>4 DEF GrantFails
    <3>5. CASE VoteCarriedOut(t)
      <4>1. on[t] \in Calls
          BY <3>5 DEF VoteCarriedOut, IInv, Acted
      <4> QED BY <3>5, <4>1 DEF VoteCarriedOut, RecordNext, Calls
    <3> QED BY <2>3, <3>1, <3>2, <3>3, <3>4, <3>5 DEF OnTab
  <2>4. CASE Time
      BY <2>4 DEF Time, RecordNext
  <2>5. CASE Quiet \/ UNCHANGED vars
      BY <2>5 DEF Quiet, vars, record
  <2> QED BY <2>1, <2>2, <2>3, <2>4, <2>5 DEF Next
<1> QED BY <1>1, <1>2, Invariance, PTL DEF Spec, RecordSpec

=============================================================================
