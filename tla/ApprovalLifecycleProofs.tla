------------------------ MODULE ApprovalLifecycleProofs ------------------------
(***************************************************************************)
(* Proofs about ApprovalLifecycle for every set of approvals and of        *)
(* resolve() calls, every timeout and every bound on the clock.            *)
(***************************************************************************)
EXTENDS ApprovalLifecycle, SequenceTheorems, TLAPS

-----------------------------------------------------------------------------
(* The shape of the state. *)

\* Appending events to a trail gives a trail.
LEMMA ConcatTyped ==
    ASSUME NEW s \in Seq(Events), NEW t \in Seq(Events)
    PROVE  s \o t \in Seq(Events)
  BY ConcatProperties

\* Every list of events an action logs is a sequence of events.
LEMMA LoggedTyped ==
    /\ <<>> \in Seq(Events)
    /\ \A e \in Events : <<e>> \in Seq(Events)
    /\ \A d, e \in Events : <<d, e>> \in Seq(Events)
  OBVIOUS

\* Logging events of the alphabet keeps the audit variables typed.
LEMMA LogTyped ==
    ASSUME TypeOK, NEW a \in Approvals, NEW es \in Seq(Events), NEW threw \in BOOLEAN,
           Log(a, es, threw)
    PROVE  trail' \in [Approvals -> Seq(Events)] /\ lost' \in [Approvals -> BOOLEAN]
  <1>1. trail[a] \o es \in Seq(Events)
    BY ConcatTyped DEF TypeOK
  <1> QED BY <1>1 DEF Log, TypeOK

\* So does the best-effort append of a terminal event.
LEMMA AuditTerminalTyped ==
    ASSUME TypeOK, NEW a \in Approvals, NEW e \in Events, AuditTerminal(a, e)
    PROVE  trail' \in [Approvals -> Seq(Events)] /\ lost' \in [Approvals -> BOOLEAN]
  BY LogTyped, LoggedTyped DEF AuditTerminal

\* Writing a terminal state keeps the record typed.
LEMMA FinishTyped ==
    ASSUME TypeOK, NEW a \in Approvals, NEW s \in Terminal, Finish(a, s)
    PROVE  /\ state' \in [Approvals -> States]
           /\ settled' \in [Approvals -> Terminal \cup {Unsettled}]
  BY DEF Finish, TypeOK, States

\* So does the fail-closed denial, with either of its prefixes.
LEMMA FailClosedTyped ==
    ASSUME TypeOK, NEW a \in Approvals, NEW es \in Seq(Events), FailClosed(a, es)
    PROVE  /\ state' \in [Approvals -> States]
           /\ settled' \in [Approvals -> Terminal \cup {Unsettled}]
           /\ trail' \in [Approvals -> Seq(Events)] /\ lost' \in [Approvals -> BOOLEAN]
  <1>1. "denied" \in Terminal /\ "denied" \in Events
    BY DEF Terminal, Events
  <1>2. es \o <<"denied">> \in Seq(Events)
    BY <1>1, ConcatTyped, LoggedTyped
  <1>3. trail' \in [Approvals -> Seq(Events)] /\ lost' \in [Approvals -> BOOLEAN]
    BY <1>2, LogTyped DEF FailClosed
  <1> QED BY <1>1, <1>3, FinishTyped DEF FailClosed
-----------------------------------------------------------------------------
(* Type correctness.  A call that is under way has an approval: without   *)
(* that, nothing would be known of the record it writes.                  *)

Aimed == \A r \in Resolvers : pc[r] # "idle" => target[r] \in Approvals

\* Every step keeps the types, and a call that was made has an approval.
LEMMA TypeStep == ASSUME TypeOK, Aimed, [Next]_vars PROVE TypeOK' /\ Aimed'
  <1> USE DEF record, audit, calls
  <1>e. /\ \A e \in Terminal : e \in Events
        /\ "requested" \in Events /\ "pending" \in Events
        /\ {"approved", "denied", "expired", "cancelled"} \subseteq Terminal
    BY DEF Events, Terminal
  <1>p. /\ InFlight \cup Over \cup {"idle", "revoking"} = PCs
        /\ {"minting", "deciding"} \subseteq InFlight
        /\ {"rejected", "returned", "mintThrew", "revokeFailed"} \subseteq Over
    BY DEF PCs, InFlight, Over
  <1>g. \A r \in Resolvers, there \in PCs : Go(r, there) => pc' \in [Resolvers -> PCs]
    BY DEF Go, TypeOK
  <1>t. \A r \in Resolvers, a \in Approvals :
          Aim(r, a) => target' \in [Resolvers -> Approvals \cup {Nobody}]
    BY DEF Aim, TypeOK
  <1>c. \A a \in Approvals : Claim(a) => resolving' \in [Approvals -> BOOLEAN]
    BY DEF Claim, TypeOK
  <1>1. ASSUME NEW a \in Approvals, Request(a) PROVE TypeOK' /\ Aimed'
    <2>1. LeaveRequested(a) /\ UNCHANGED <<resolving, now, calls>>
      BY <1>1 DEF Request
    <2>2. requestedAt' \in [Approvals -> Nat]
      BY <1>1 DEF Request, TypeOK
    <2>3. CASE /\ state' = [state EXCEPT ![a] = "pending"]
               /\ Log(a, <<"requested", "pending">>, FALSE)
               /\ UNCHANGED settled
      <3>1. trail' \in [Approvals -> Seq(Events)] /\ lost' \in [Approvals -> BOOLEAN]
        BY <2>3, <1>e, LoggedTyped, LogTyped
      <3> QED BY <2>1, <2>2, <2>3, <3>1 DEF TypeOK, States, Aimed
    <2>4. ASSUME NEW es \in Seq(Events), FailClosed(a, es) PROVE TypeOK' /\ Aimed'
      BY <2>1, <2>2, <2>4, FailClosedTyped DEF TypeOK, Aimed
    <2> QED BY <2>1, <2>3, <2>4, <1>e, LoggedTyped DEF LeaveRequested
  <1>2. ASSUME NEW a \in Approvals, Expire(a)
        PROVE  /\ state' \in [Approvals -> States]
               /\ settled' \in [Approvals -> Terminal \cup {Unsettled}]
               /\ trail' \in [Approvals -> Seq(Events)] /\ lost' \in [Approvals -> BOOLEAN]
    BY <1>2, <1>e, FinishTyped, AuditTerminalTyped DEF Expire
  <1>3. ASSUME NEW a \in Approvals, Probe(a) PROVE TypeOK' /\ Aimed'
    BY <1>2, <1>3 DEF Probe, TypeOK, Aimed
  <1>4. ASSUME NEW a \in Approvals, Cancel(a) PROVE TypeOK' /\ Aimed'
    BY <1>4, <1>c, <1>e, FinishTyped, AuditTerminalTyped DEF Cancel, TypeOK, Aimed
  <1>5. ASSUME NEW a \in Approvals, NEW r \in Resolvers, ResolveDenied(r, a) PROVE TypeOK' /\ Aimed'
    BY <1>5, <1>c, <1>e, <1>g, <1>p, <1>t, FinishTyped, AuditTerminalTyped
       DEF ResolveDenied, TypeOK, Aimed, Go, Aim
  <1>6. ASSUME NEW a \in Approvals, NEW r \in Resolvers, ResolveApproved(r, a) PROVE TypeOK' /\ Aimed'
    <2>1. /\ resolving' \in [Approvals -> BOOLEAN]
          /\ target' \in [Resolvers -> Approvals \cup {Nobody}]
          /\ pc' \in [Resolvers -> PCs]
          /\ UNCHANGED <<requestedAt, now, grant>>
      BY <1>6, <1>c, <1>g, <1>p, <1>t DEF ResolveApproved
    <2>2. CASE Log(a, <<"approved">>, FALSE) /\ UNCHANGED <<state, settled>>
      BY <1>6, <2>1, <2>2, <1>e, LoggedTyped, LogTyped
         DEF ResolveApproved, TypeOK, Aimed, Go, Aim
    <2>3. CASE FailClosed(a, <<>>)
      BY <1>6, <2>1, <2>3, LoggedTyped, FailClosedTyped
         DEF ResolveApproved, TypeOK, Aimed, Go, Aim
    <2> QED BY <1>6, <2>2, <2>3 DEF ResolveApproved, VoteStands
  <1>7. ASSUME NEW a \in Approvals, NEW r \in Resolvers, ResolveRejected(r, a) PROVE TypeOK' /\ Aimed'
    <2>1. CASE Due(a)
      BY <1>7, <1>2, <1>g, <1>p, <1>t, <2>1 DEF ResolveRejected, TypeOK, Aimed, Go, Aim
    <2>2. CASE ~Due(a)
      BY <1>7, <1>g, <1>p, <1>t, <2>2 DEF ResolveRejected, TypeOK, Aimed, Go, Aim
    <2> QED BY <2>1, <2>2
  <1>8. ASSUME NEW a \in Approvals, DenyOnThrow(a)
        PROVE  /\ state' \in [Approvals -> States]
               /\ settled' \in [Approvals -> Terminal \cup {Unsettled}]
               /\ trail' \in [Approvals -> Seq(Events)] /\ lost' \in [Approvals -> BOOLEAN]
    <2>1. CASE state[a] \in Terminal BY <1>8, <2>1 DEF DenyOnThrow, TypeOK
    <2>2. CASE state[a] \notin Terminal
      BY <1>8, <1>e, <2>2, FinishTyped, AuditTerminalTyped DEF DenyOnThrow
    <2> QED BY <2>1, <2>2
  <1>9. ASSUME NEW r \in Resolvers, MintReturns(r) PROVE TypeOK' /\ Aimed'
    BY <1>9, <1>g, <1>p DEF MintReturns, TypeOK, Aimed, Go, GrantStates
  <1>10. ASSUME NEW r \in Resolvers, MintThrows(r) PROVE TypeOK' /\ Aimed'
    <2>1. target[r] \in Approvals BY <1>10 DEF MintThrows, Aimed
    <2>2. grant' \in [Resolvers -> GrantStates]
      BY <1>10 DEF MintThrows, TypeOK, GrantStates
    <2> QED BY <1>10, <1>8, <1>g, <1>p, <2>1, <2>2 DEF MintThrows, TypeOK, Aimed, Go
  <1>11. ASSUME NEW r \in Resolvers,
                \/ \E g \in Spendable(r) : grant' = [grant EXCEPT ![g] = "consumed"]
                \/ UNCHANGED grant
         PROVE  grant' \in [Resolvers -> GrantStates]
    BY <1>11 DEF TypeOK, GrantStates
  <1>12. ASSUME NEW r \in Resolvers, DecideAllows(r) PROVE TypeOK' /\ Aimed'
    <2>1. target[r] \in Approvals BY <1>12 DEF DecideAllows, Aimed
    <2> QED BY <1>12, <1>11, <1>e, <1>g, <1>p, <2>1, FinishTyped
            DEF DecideAllows, TypeOK, Aimed, Go
  <1>13. ASSUME NEW r \in Resolvers, DecideRefuses(r) PROVE TypeOK' /\ Aimed'
    <2>1. target[r] \in Approvals BY <1>13 DEF DecideRefuses, Aimed
    <2> QED BY <1>13, <1>e, <1>g, <1>p, <2>1, FinishTyped, AuditTerminalTyped
            DEF DecideRefuses, TypeOK, Aimed, Go
  <1>14. ASSUME NEW r \in Resolvers, DecideThrows(r) PROVE TypeOK' /\ Aimed'
    <2>1. target[r] \in Approvals BY <1>14 DEF DecideThrows, Aimed
    <2> QED BY <1>14, <1>8, <1>11, <1>g, <1>p, <2>1 DEF DecideThrows, TypeOK, Aimed, Go
  <1>15. ASSUME NEW r \in Resolvers, Revoke(r) PROVE TypeOK' /\ Aimed'
    BY <1>15, <1>g, <1>p DEF Revoke, RevokeDone, RevokeFails, TypeOK, Aimed, Go, GrantStates
  <1>16. CASE Tick
    BY <1>16 DEF Tick, TypeOK, Aimed
  <1>17. CASE UNCHANGED vars
    BY <1>17 DEF vars, TypeOK, Aimed
  <1> QED BY <1>1, <1>3, <1>4, <1>5, <1>6, <1>7, <1>9, <1>10, <1>12, <1>13, <1>14,
             <1>15, <1>16, <1>17 DEF Next, OnApproval, Mint, Decide, Quiet
-----------------------------------------------------------------------------
(* The latch.  A resolve() call that got past the guard latched its record, *)
(* so no other call, expiry or cancel touches that record until it is done; *)
(* that is why the record is still pending while the call is in flight.     *)

Past(r) == pc[r] \notin {"idle", "rejected"}

Stages == \A r \in Resolvers :
    /\ pc[r] \in {"idle", "rejected", "minting"} => grant[r] = "none"
    /\ pc[r] = "deciding" => grant[r] # "none"

Latched == \A r \in Resolvers :
    /\ Past(r) => resolving[target[r]]
    /\ pc[r] \in InFlight => state[target[r]] = "pending"

OneClaim == \A r1, r2 \in Resolvers :
    Past(r1) /\ Past(r2) /\ target[r1] = target[r2] => r1 = r2

Fresh ==
    /\ \A a \in Approvals :
          state[a] = "absent" => ~resolving[a] /\ ~lost[a] /\ trail[a] = <<>>
    /\ \A r \in Resolvers : pc[r] # "idle" => state[target[r]] # "absent"

Claims == Stages /\ Latched /\ OneClaim /\ Fresh

\* Writing one entry of the tables an approval's record is kept in.
LEMMA Wrote ==
    ASSUME TypeOK, NEW a \in Approvals, NEW s \in Terminal, Finish(a, s)
    PROVE  /\ state'[a] = s
           /\ \A b \in Approvals : b # a => state'[b] = state[b] /\ settled'[b] = settled[b]
           /\ settled'[a] = IF settled[a] = Unsettled THEN s ELSE settled[a]
  BY DEF TypeOK, Finish

\* What one Log call does to each trail.
LEMMA Appended ==
    ASSUME TypeOK, NEW a \in Approvals, NEW es, NEW threw \in BOOLEAN, Log(a, es, threw)
    PROVE  /\ trail'[a] = trail[a] \o es /\ lost'[a] = (lost[a] \/ threw)
           /\ \A b \in Approvals : b # a => trail'[b] = trail[b] /\ lost'[b] = lost[b]
  BY DEF TypeOK, Log

\* What one Go does to each pc.
LEMMA Moved ==
    ASSUME TypeOK, NEW r \in Resolvers, NEW there, Go(r, there)
    PROVE  pc'[r] = there /\ \A q \in Resolvers : q # r => pc'[q] = pc[q]
  BY DEF TypeOK, Go

\* What one Aim does to each target.
LEMMA Pointed ==
    ASSUME TypeOK, NEW r \in Resolvers, NEW a \in Approvals, Aim(r, a)
    PROVE  target'[r] = a /\ \A q \in Resolvers : q # r => target'[q] = target[q]
  BY DEF TypeOK, Aim

\* What one Claim does to each latch.
LEMMA Took ==
    ASSUME TypeOK, NEW a \in Approvals, Claim(a)
    PROVE  resolving'[a] /\ \A b \in Approvals : b # a => resolving'[b] = resolving[b]
  BY DEF TypeOK, Claim

\* What leaves a pc alone and ends, at most, a record nobody has latched or
\* one that is new keeps the claims as they are.
LEMMA ClaimsKept ==
    ASSUME TypeOK, Aimed, Claims, UNCHANGED <<resolving, calls>>,
           NEW a \in Approvals, ~resolving[a],
           \A b \in Approvals : b # a =>
               state'[b] = state[b] /\ lost'[b] = lost[b] /\ trail'[b] = trail[b],
           state'[a] # "absent"
    PROVE  Claims'
  <1> USE DEF calls, Past
  <1>1. Stages' BY DEF Claims, Stages
  <1>2. \A r \in Resolvers : pc[r] \in InFlight => Past(r)
    BY DEF InFlight
  <1>3. Latched'
    <2> SUFFICES ASSUME NEW r \in Resolvers, Past(r) PROVE resolving[target[r]] /\ target[r] # a /\ target[r] \in Approvals
      BY <1>2 DEF Claims, Latched
    <2> QED BY DEF Claims, Latched, Aimed
  <1>4. OneClaim' BY DEF Claims, OneClaim
  <1>5. Fresh' BY DEF Claims, Fresh, Aimed
  <1> QED BY <1>1, <1>3, <1>4, <1>5 DEF Claims

\* Every step keeps the claims: a call past the guard holds its record's latch.
LEMMA ClaimsStep ==
    ASSUME TypeOK, Aimed, Claims, [Next]_vars
    PROVE  Claims'
  <1> USE DEF record, audit, calls
  <1>1. ASSUME NEW a \in Approvals, Request(a) PROVE Claims'
    <2>1. /\ ~resolving[a] /\ UNCHANGED <<resolving, calls>>
          /\ state'[a] # "absent"
          /\ \A b \in Approvals : b # a => 
                state'[b] = state[b] /\ lost'[b] = lost[b] /\ trail'[b] = trail[b]
      BY <1>1 DEF Request, LeaveRequested, FailClosed, Finish, Log, TypeOK, Claims, Fresh
    <2> QED BY <2>1, ClaimsKept
  <1>2. ASSUME NEW a \in Approvals, Expire(a)
        PROVE  /\ state'[a] = "expired"
               /\ \A b \in Approvals : b # a =>
                     state'[b] = state[b] /\ lost'[b] = lost[b] /\ trail'[b] = trail[b]
    BY <1>2 DEF Expire, AuditTerminal, Finish, Log, TypeOK
  <1>3. ASSUME NEW a \in Approvals, Probe(a) PROVE Claims'
    BY <1>2, <1>3, ClaimsKept DEF Probe, Due
  \* A claim latches the record, and finds it unlatched.
  <1>4. ASSUME NEW a \in Approvals, Cancel(a) PROVE Claims'
    <2>1. /\ state[a] = "pending" /\ ~resolving[a] /\ UNCHANGED calls
          /\ state'[a] = "cancelled"
          /\ resolving'[a] /\ \A b \in Approvals : b # a => resolving'[b] = resolving[b]
          /\ \A b \in Approvals : b # a => 
                state'[b] = state[b] /\ lost'[b] = lost[b] /\ trail'[b] = trail[b]
      BY <1>4, Took DEF Cancel, Claimable, AuditTerminal, Finish, Log, TypeOK
    <2>2. \A r \in Resolvers : pc[r] \in InFlight => Past(r)
      BY DEF InFlight, Past
    <2>3. \A r \in Resolvers : Past(r) => target[r] # a /\ target[r] \in Approvals
      BY <2>1 DEF Claims, Latched, Aimed, Past
    <2>4. Stages' BY <2>1 DEF Claims, Stages
    <2>5. Latched' BY <2>1, <2>2, <2>3 DEF Claims, Latched, Past
    <2>6. OneClaim' BY <2>1 DEF Claims, OneClaim, Past
    <2>7. Fresh' BY <2>1 DEF Claims, Fresh, Aimed
    <2> QED BY <2>4, <2>5, <2>6, <2>7 DEF Claims
  \* The same for a call that resolves, with its pc and target.
  <1>5. ASSUME NEW a \in Approvals, NEW r \in Resolvers, NEW there \in PCs,
               there \notin {"idle", "deciding"},
               pc[r] = "idle", Claimable(a), Claim(a), Go(r, there), Aim(r, a), UNCHANGED grant,
               state'[a] # "absent", there \in InFlight => state'[a] = "pending",
               \A b \in Approvals : b # a =>
                   state'[b] = state[b] /\ lost'[b] = lost[b] /\ trail'[b] = trail[b]
        PROVE  Claims'
    <2>1. /\ state[a] = "pending" /\ ~resolving[a] BY <1>5 DEF Claimable
    <2>2. /\ resolving'[a] /\ \A b \in Approvals : b # a => resolving'[b] = resolving[b]
          /\ pc'[r] = there /\ \A q \in Resolvers : q # r => pc'[q] = pc[q]
          /\ target'[r] = a /\ \A q \in Resolvers : q # r => target'[q] = target[q]
      BY <1>5, Took, Moved, Pointed
    <2>3. \A q \in Resolvers : pc[q] \in InFlight => Past(q)
      BY DEF InFlight, Past
    <2>4. \A q \in Resolvers : Past(q) => q # r /\ target[q] # a /\ target[q] \in Approvals
      BY <1>5, <2>1 DEF Claims, Latched, Aimed, Past
    <2>5. Stages' BY <1>5, <2>2 DEF Claims, Stages
    <2>6. Latched' BY <1>5, <2>2, <2>3, <2>4 DEF Claims, Latched, Past
    <2>7. OneClaim' BY <2>2, <2>4 DEF Claims, OneClaim, Past
    <2>8. Fresh' BY <1>5, <2>1, <2>2 DEF Claims, Fresh, Aimed
    <2> QED BY <2>5, <2>6, <2>7, <2>8 DEF Claims
  <1>6. ASSUME NEW a \in Approvals, NEW r \in Resolvers, ResolveDenied(r, a) PROVE Claims'
    <2>1. /\ state'[a] # "absent"
          /\ \A b \in Approvals : b # a =>
                 state'[b] = state[b] /\ lost'[b] = lost[b] /\ trail'[b] = trail[b]
      BY <1>6 DEF ResolveDenied, AuditTerminal, Finish, Log, TypeOK
    <2> QED BY <1>5, <1>6, <2>1 DEF ResolveDenied, PCs, Over, InFlight
  <1>7. ASSUME NEW a \in Approvals, NEW r \in Resolvers, ResolveApproved(r, a) PROVE Claims'
    <2>1. CASE Log(a, <<"approved">>, FALSE) /\ VoteStands(a) /\ Go(r, "minting")
      <3>1. /\ state'[a] = "pending"
            /\ \A b \in Approvals : b # a =>
                   state'[b] = state[b] /\ lost'[b] = lost[b] /\ trail'[b] = trail[b]
        BY <1>7, <2>1 DEF ResolveApproved, Claimable, VoteStands, Log, TypeOK
      <3> QED BY <1>5, <1>7, <2>1, <3>1 DEF ResolveApproved, PCs, Over, InFlight
    <2>2. CASE FailClosed(a, <<>>) /\ Go(r, "returned")
      <3>1. /\ state'[a] # "absent"
            /\ \A b \in Approvals : b # a =>
                   state'[b] = state[b] /\ lost'[b] = lost[b] /\ trail'[b] = trail[b]
        BY <2>2 DEF FailClosed, Finish, Log, TypeOK
      <3> QED BY <1>5, <1>7, <2>2, <3>1 DEF ResolveApproved, PCs, Over, InFlight
    <2> QED BY <1>7, <2>1, <2>2 DEF ResolveApproved
  <1>8. ASSUME NEW a \in Approvals, NEW r \in Resolvers, ResolveRejected(r, a) PROVE Claims'
    <2>1. /\ pc'[r] = "rejected" /\ pc[r] = "idle" /\ \A q \in Resolvers : q # r => pc'[q] = pc[q]
          /\ target'[r] = a /\ \A q \in Resolvers : q # r => target'[q] = target[q]
          /\ UNCHANGED <<resolving, grant>>
      BY <1>8, Moved, Pointed DEF ResolveRejected
    <2>2. /\ state'[a] # "absent"
          /\ state'[a] = state[a] \/ ~resolving[a]
          /\ \A b \in Approvals : b # a =>
                state'[b] = state[b] /\ lost'[b] = lost[b] /\ trail'[b] = trail[b]
      BY <1>2, <1>8 DEF ResolveRejected, Due
    <2>3. \A q \in Resolvers : pc[q] \in InFlight => Past(q)
      BY DEF InFlight, Past
    <2>4. ~Past(r)' /\ pc'[r] \notin InFlight BY <2>1 DEF Past, InFlight
    <2>5. \A q \in Resolvers : Past(q) => q # r /\ target[q] \in Approvals /\ resolving[target[q]]
      BY <2>1 DEF Claims, Latched, Aimed, Past
    <2>6. Stages' BY <2>1 DEF Claims, Stages
    <2>7. Latched' BY <2>1, <2>2, <2>3, <2>4, <2>5 DEF Claims, Latched, Past
    <2>8. OneClaim' BY <2>1, <2>4 DEF Claims, OneClaim, Past
    <2>9. Fresh' BY <2>1, <2>2 DEF Claims, Fresh, Aimed
    <2> QED BY <2>6, <2>7, <2>8, <2>9 DEF Claims
  \* From there a call moves on its own: its record may end, and a grant of
  \* any call may be spent or revoked, but no grant appears or disappears.
  <1>9. ASSUME NEW r \in Resolvers, NEW there \in PCs \ {"idle", "rejected", "minting"},
               Past(r), Go(r, there), UNCHANGED <<resolving, target>>,
               \A q \in Resolvers : q # r => (grant'[q] = "none" <=> grant[q] = "none"),
               there = "deciding" => grant'[r] # "none",
               there \in InFlight => state'[target[r]] = "pending",
               state'[target[r]] # "absent",
               \A b \in Approvals : b # target[r] =>
                   state'[b] = state[b] /\ lost'[b] = lost[b] /\ trail'[b] = trail[b]
        PROVE  Claims'
    <2>1. pc'[r] = there /\ \A q \in Resolvers : q # r => pc'[q] = pc[q]
      BY <1>9, Moved
    <2>2. \A q \in Resolvers : pc[q] \in InFlight => Past(q)
      BY DEF InFlight, Past
    <2>3. \A q \in Resolvers : Past(q) /\ q # r => target[q] # target[r] /\ target[q] \in Approvals
      BY <1>9 DEF Claims, OneClaim, Aimed, Past
    <2>4. resolving[target[r]] /\ target[r] \in Approvals /\ state[target[r]] # "absent"
      BY <1>9 DEF Claims, Latched, Fresh, Aimed, Past
    <2>5. Stages' BY <1>9, <2>1 DEF Claims, Stages
    <2>6. Latched' BY <1>9, <2>1, <2>2, <2>3, <2>4 DEF Claims, Latched, Past
    <2>7. OneClaim' BY <1>9, <2>1 DEF Claims, OneClaim, Past
    <2>8. Fresh' BY <1>9, <2>1, <2>4 DEF Claims, Fresh, Aimed
    <2> QED BY <2>5, <2>6, <2>7, <2>8 DEF Claims
  <1>10. \A r \in Resolvers :
            pc[r] \in InFlight \cup {"revoking"} =>
               Past(r) /\ target[r] \in Approvals /\ state[target[r]] # "absent"
    BY DEF Past, InFlight, Claims, Fresh, Aimed
  <1>11. ASSUME NEW r \in Resolvers, MintReturns(r) PROVE Claims'
    <2>1. state[target[r]] = "pending" BY <1>11 DEF MintReturns, Claims, Latched, InFlight
    <2> QED BY <1>9, <1>10, <1>11, <2>1 DEF MintReturns, PCs, InFlight, TypeOK
  <1>12. ASSUME NEW r \in Resolvers, target[r] \in Approvals, DenyOnThrow(target[r])
         PROVE  /\ state'[target[r]] # "absent"
                /\ \A b \in Approvals : b # target[r] =>
                       state'[b] = state[b] /\ lost'[b] = lost[b] /\ trail'[b] = trail[b]
    BY <1>12 DEF DenyOnThrow, AuditTerminal, Finish, Log, TypeOK, Terminal
  <1>13. ASSUME NEW r \in Resolvers, MintThrows(r) PROVE Claims'
    <2>1. \A q \in Resolvers : q # r => grant'[q] = grant[q]
      BY <1>13 DEF MintThrows, TypeOK
    <2> QED BY <1>9, <1>10, <1>12, <1>13, <2>1 DEF MintThrows, PCs, InFlight, Over
  <1>14. ASSUME NEW r \in Resolvers,
                \/ \E g \in Spendable(r) : grant' = [grant EXCEPT ![g] = "consumed"]
                \/ UNCHANGED grant
         PROVE  \A q \in Resolvers : grant'[q] = "none" <=> grant[q] = "none"
    BY <1>14 DEF Spendable, TypeOK
  <1>15. ASSUME NEW r \in Resolvers, DecideAllows(r) PROVE Claims'
    <2>1. /\ state'[target[r]] # "absent"
          /\ \A b \in Approvals : b # target[r] =>
                 state'[b] = state[b] /\ lost'[b] = lost[b] /\ trail'[b] = trail[b]
      BY <1>10, <1>15 DEF DecideAllows, Finish, InFlight, TypeOK
    <2> QED BY <1>9, <1>10, <1>14, <1>15, <2>1 DEF DecideAllows, PCs, InFlight, Over
  <1>16. ASSUME NEW r \in Resolvers, DecideRefuses(r) PROVE Claims'
    <2>1. /\ state'[target[r]] # "absent"
          /\ \A b \in Approvals : b # target[r] =>
                 state'[b] = state[b] /\ lost'[b] = lost[b] /\ trail'[b] = trail[b]
      BY <1>10, <1>16 DEF DecideRefuses, AuditTerminal, Finish, Log, InFlight, TypeOK
    <2> QED BY <1>9, <1>10, <1>16, <2>1 DEF DecideRefuses, PCs, InFlight, Over
  <1>17. ASSUME NEW r \in Resolvers, DecideThrows(r) PROVE Claims'
    BY <1>9, <1>10, <1>12, <1>14, <1>17 DEF DecideThrows, PCs, InFlight, Over
  <1>18. ASSUME NEW r \in Resolvers, Revoke(r) PROVE Claims'
    <2>1. \A q \in Resolvers : q # r => grant'[q] = grant[q]
      BY <1>18 DEF Revoke, RevokeDone, RevokeFails, TypeOK
    <2> QED BY <1>9, <1>10, <1>18, <2>1 DEF Revoke, RevokeDone, RevokeFails, PCs, InFlight, Over
  <1>19. CASE Tick
    BY <1>19 DEF Tick, Claims, Stages, Latched, OneClaim, Fresh, Past
  <1>20. CASE UNCHANGED vars
    BY <1>20 DEF vars, Claims, Stages, Latched, OneClaim, Fresh, Past
  <1> QED BY <1>1, <1>3, <1>4, <1>6, <1>7, <1>8, <1>11, <1>13, <1>15, <1>16, <1>17, <1>18,
             <1>19, <1>20 DEF Next, OnApproval, Mint, Decide, Quiet

-----------------------------------------------------------------------------
(* What one step may do to one approval. *)

Same(a) ==
    /\ state'[a] = state[a] /\ settled'[a] = settled[a]
    /\ trail'[a] = trail[a] /\ lost'[a] = lost[a] /\ resolving'[a] = resolving[a]

Opens(a) ==
    /\ state[a] = "absent" /\ state'[a] = "pending" /\ settled'[a] = settled[a]
    /\ trail'[a] = trail[a] \o <<"requested", "pending">>
    /\ lost'[a] = lost[a] /\ resolving'[a] = resolving[a]

Votes(a) ==
    /\ state[a] = "pending" /\ state'[a] = "pending" /\ settled'[a] = settled[a]
    /\ trail'[a] = trail[a] \o <<"approved">> /\ lost'[a] = lost[a]
    /\ ~resolving[a] /\ resolving'[a]

\* Approved by the re-evaluation of a call that has its grant.
Approves(a) ==
    /\ trail'[a] = trail[a] /\ lost'[a] = lost[a] /\ state[a] = "pending" /\ resolving[a]
    /\ \E r \in Resolvers : /\ target[r] = a /\ target'[r] = a
                            /\ pc[r] = "deciding" /\ pc'[r] = "returned" /\ grant'[r] # "none"

Ends(a) ==
    /\ state[a] \in {"absent", "pending"} /\ state'[a] \in Terminal
    /\ settled'[a] = IF settled[a] = Unsettled THEN state'[a] ELSE settled[a]
    /\ lost[a] => lost'[a]
    /\ state'[a] \in {"expired", "cancelled"} => ~resolving[a]
    /\ state[a] = "absent" => lost'[a]
    /\ IF state'[a] = "approved"
         THEN Approves(a)
         ELSE lost'[a] \/ trail'[a] = trail[a] \o <<state'[a]>>

Shape(a) == Same(a) \/ Opens(a) \/ Votes(a) \/ Ends(a)

\* A terminal write with its best-effort append is an end of the record.
LEMMA EndsWith ==
    ASSUME TypeOK, NEW a \in Approvals, NEW s \in Terminal, s # "approved",
           state[a] = "pending", Finish(a, s), AuditTerminal(a, s),
           s \in {"expired", "cancelled"} => ~resolving[a]
    PROVE  Ends(a) /\ \A b \in Approvals : b # a =>
              /\ state'[b] = state[b] /\ settled'[b] = settled[b]
              /\ trail'[b] = trail[b] /\ lost'[b] = lost[b]
  <1>1. /\ state'[a] = s
        /\ settled'[a] = IF settled[a] = Unsettled THEN s ELSE settled[a]
        /\ \A b \in Approvals : b # a => state'[b] = state[b] /\ settled'[b] = settled[b]
    BY Wrote
  <1>2. /\ lost[a] => lost'[a]
        /\ lost'[a] \/ trail'[a] = trail[a] \o <<s>>
        /\ \A b \in Approvals : b # a => trail'[b] = trail[b] /\ lost'[b] = lost[b]
    BY Appended DEF AuditTerminal
  <1> QED BY <1>1, <1>2 DEF Ends

\* So is a fail-closed denial.
LEMMA EndsFailed ==
    ASSUME TypeOK, NEW a \in Approvals, NEW es \in Seq(Events),
           state[a] \in {"absent", "pending"}, FailClosed(a, es)
    PROVE  Ends(a) /\ \A b \in Approvals : b # a =>
              /\ state'[b] = state[b] /\ settled'[b] = settled[b]
              /\ trail'[b] = trail[b] /\ lost'[b] = lost[b]
  <1>1. /\ state'[a] = "denied" /\ "denied" \in Terminal
        /\ settled'[a] = IF settled[a] = Unsettled THEN "denied" ELSE settled[a]
        /\ \A b \in Approvals : b # a => state'[b] = state[b] /\ settled'[b] = settled[b]
    BY Wrote DEF FailClosed, Terminal
  <1>2. lost'[a] /\ \A b \in Approvals : b # a => trail'[b] = trail[b] /\ lost'[b] = lost[b]
    BY Appended DEF FailClosed
  <1> QED BY <1>1, <1>2 DEF Ends

\* What a step does to one approval: nothing, open it, record a vote, or end it.
LEMMA StepShape ==
    ASSUME TypeOK, Aimed, Claims, [Next]_vars
    PROVE  \A a \in Approvals : Shape(a)
  <1> USE DEF record, audit, calls
  <1>e. Terminal = {"approved", "denied", "expired", "cancelled"} BY DEF Terminal
  <1>1. ASSUME NEW a \in Approvals, Request(a) PROVE \A b \in Approvals : Shape(b)
    <2>1. state[a] = "absent" /\ UNCHANGED resolving BY <1>1 DEF Request
    <2>2. CASE /\ state' = [state EXCEPT ![a] = "pending"]
               /\ Log(a, <<"requested", "pending">>, FALSE)
               /\ UNCHANGED settled
      <3>1. /\ trail'[a] = trail[a] \o <<"requested", "pending">> /\ lost'[a] = lost[a]
            /\ \A b \in Approvals : b # a => trail'[b] = trail[b] /\ lost'[b] = lost[b]
        BY <2>2, Appended DEF TypeOK
      <3>2. Opens(a) BY <2>1, <2>2, <3>1 DEF Opens, TypeOK
      <3>3. \A b \in Approvals : b # a => Same(b) BY <2>1, <2>2, <3>1 DEF Same, TypeOK
      <3> QED BY <3>2, <3>3 DEF Shape
    <2>3. ASSUME NEW es \in Seq(Events), FailClosed(a, es) PROVE \A b \in Approvals : Shape(b)
      BY <2>1, <2>3, EndsFailed DEF Shape, Same
    <2>4. <<>> \in Seq(Events) /\ <<"requested">> \in Seq(Events)
      BY LoggedTyped DEF Events
    <2> QED BY <1>1, <2>2, <2>3, <2>4 DEF Request, LeaveRequested
  <1>2. ASSUME NEW a \in Approvals, Due(a), Expire(a), UNCHANGED resolving
        PROVE  \A b \in Approvals : Shape(b)
    BY <1>2, <1>e, EndsWith DEF Due, Expire, Shape, Same
  <1>3. ASSUME NEW a \in Approvals, NEW s \in {"denied", "cancelled"},
               Claimable(a), Claim(a), Finish(a, s), AuditTerminal(a, s)
        PROVE  \A b \in Approvals : Shape(b)
    BY <1>3, <1>e, EndsWith, Took DEF Claimable, Shape, Same
  <1>4. ASSUME NEW a \in Approvals, NEW r \in Resolvers, ResolveApproved(r, a)
        PROVE  \A b \in Approvals : Shape(b)
    <2>1. /\ state[a] = "pending" /\ ~resolving[a]
          /\ resolving'[a] /\ \A b \in Approvals : b # a => resolving'[b] = resolving[b]
      BY <1>4, Took DEF ResolveApproved, Claimable
    <2>2. CASE Log(a, <<"approved">>, FALSE) /\ UNCHANGED <<state, settled>>
      <3>1. /\ trail'[a] = trail[a] \o <<"approved">> /\ lost'[a] = lost[a]
            /\ \A b \in Approvals : b # a => trail'[b] = trail[b] /\ lost'[b] = lost[b]
        BY <2>2, Appended DEF TypeOK
      <3> QED BY <2>1, <2>2, <3>1 DEF Shape, Votes, Same
    <2>3. CASE FailClosed(a, <<>>)
      BY <2>1, <2>3, EndsFailed, LoggedTyped DEF Shape, Same
    <2> QED BY <1>4, <2>2, <2>3 DEF ResolveApproved, VoteStands
  <1>5. ASSUME NEW a \in Approvals, NEW r \in Resolvers, ResolveRejected(r, a)
        PROVE  \A b \in Approvals : Shape(b)
    <2>1. CASE Due(a) BY <1>2, <1>5, <2>1 DEF ResolveRejected
    <2>2. CASE ~Due(a) BY <1>5, <2>2 DEF ResolveRejected, Shape, Same
    <2> QED BY <2>1, <2>2
  <1>6. ASSUME NEW r \in Resolvers, pc[r] \in InFlight, DenyOnThrow(target[r]), UNCHANGED resolving
        PROVE  \A b \in Approvals : Shape(b)
    <2>1. target[r] \in Approvals /\ state[target[r]] = "pending"
      BY <1>6 DEF Aimed, Claims, Latched, InFlight
    <2> QED BY <1>6, <1>e, <2>1, EndsWith DEF DenyOnThrow, Shape, Same
  <1>7. ASSUME NEW r \in Resolvers, DecideRefuses(r)
        PROVE  \A b \in Approvals : Shape(b)
    <2>1. target[r] \in Approvals /\ state[target[r]] = "pending"
      BY <1>7 DEF DecideRefuses, Aimed, Claims, Latched, InFlight
    <2> QED BY <1>7, <1>e, <2>1, EndsWith DEF DecideRefuses, Shape, Same
  <1>8. ASSUME NEW r \in Resolvers, DecideAllows(r)
        PROVE  \A b \in Approvals : Shape(b)
    <2>1. /\ target[r] \in Approvals /\ state[target[r]] = "pending"
          /\ resolving[target[r]] /\ grant[r] # "none"
      BY <1>8 DEF DecideAllows, Aimed, Claims, Latched, Stages, InFlight, Past
    <2>2. grant'[r] # "none"
      BY <1>8, <2>1 DEF DecideAllows, Spendable, TypeOK
    <2>3. pc'[r] = "returned"
      BY <1>8, Moved DEF DecideAllows
    <2>4. /\ state'[target[r]] = "approved"
          /\ settled'[target[r]] = IF settled[target[r]] = Unsettled THEN "approved" ELSE settled[target[r]]
          /\ \A b \in Approvals : b # target[r] => state'[b] = state[b] /\ settled'[b] = settled[b]
      BY <1>8, <1>e, <2>1, Wrote DEF DecideAllows
    <2>5. Approves(target[r])
      BY <1>8, <2>1, <2>2, <2>3 DEF DecideAllows, Approves
    <2>6. Ends(target[r])
      BY <1>8, <1>e, <2>1, <2>4, <2>5 DEF DecideAllows, Ends
    <2> QED BY <1>8, <2>4, <2>6 DEF DecideAllows, Shape, Same
  <1>9. CASE Tick \/ UNCHANGED vars \/ \E r \in Resolvers : MintReturns(r) \/ Revoke(r)
    BY <1>9 DEF Tick, vars, MintReturns, Revoke, RevokeDone, RevokeFails, Shape, Same
  <1> QED BY <1>1, <1>2, <1>3, <1>4, <1>5, <1>6, <1>7, <1>8, <1>9
          DEF Next, OnApproval, Mint, Decide, Quiet, Probe, Cancel, ResolveDenied, MintThrows,
              DecideThrows, InFlight

-----------------------------------------------------------------------------
(* The inductive invariant.  Trails refines TrailTellsOutcome: the trail of *)
(* a pending record tells whether a vote has claimed it.                    *)

Asked == <<"requested", "pending">>
Voted == Asked \o <<"approved">>

Trails == \A a \in Approvals : ~lost[a] =>
    /\ state[a] = "absent"   => trail[a] = <<>>
    /\ state[a] = "pending"  => trail[a] = IF resolving[a] THEN Voted ELSE Asked
    /\ state[a] = "approved" => trail[a] = Voted
    /\ state[a] = "denied"   => trail[a] \in {Asked \o <<"denied">>, Voted \o <<"denied">>}
    /\ state[a] \in {"expired", "cancelled"} => trail[a] = Asked \o <<state[a]>>

IInv ==
    /\ TypeOK /\ Aimed /\ Claims
    /\ WaiterSeesOutcome
    /\ HoleNeverAuthorizes
    /\ Trails
    /\ ApprovedIsEarned
    /\ AcceptedVoteIsNotOvertaken
    /\ NoLingeringGrant

\* The invariant holds initially.
LEMMA InitIInv == Init => IInv
  <1> SUFFICES ASSUME Init PROVE IInv
    OBVIOUS
  <1> USE DEF Init
  <1>1. TypeOK
    BY LoggedTyped DEF TypeOK, States, PCs, GrantStates
  <1>2. Claims /\ Aimed
    BY NobodyAssumption DEF Claims, Aimed, Stages, Latched, OneClaim, Fresh, Past, InFlight
  <1>3. WaiterSeesOutcome /\ HoleNeverAuthorizes /\ ApprovedIsEarned
    BY DEF WaiterSeesOutcome, HoleNeverAuthorizes, ApprovedIsEarned, Terminal, Unsettled
  <1>4. Trails /\ AcceptedVoteIsNotOvertaken /\ NoLingeringGrant
    BY DEF Trails, AcceptedVoteIsNotOvertaken, NoLingeringGrant
  <1> QED BY <1>1, <1>2, <1>3, <1>4 DEF IInv

\* Every step keeps the waiter's value and the fail-closed rule.
LEMMA OutcomeStep ==
    ASSUME IInv, [Next]_vars
    PROVE  WaiterSeesOutcome' /\ HoleNeverAuthorizes'
  <1>1. \A a \in Approvals : Shape(a)
    BY StepShape DEF IInv
  <1>2. "pending" \notin Terminal /\ "absent" \notin Terminal
    BY DEF Terminal
  <1>3. ASSUME NEW a \in Approvals
        PROVE  settled'[a] = IF state'[a] \in Terminal THEN state'[a] ELSE Unsettled
    <2>1. settled[a] = IF state[a] \in Terminal THEN state[a] ELSE Unsettled
      BY DEF IInv, WaiterSeesOutcome
    <2> QED BY <1>1, <1>2, <2>1 DEF Shape, Same, Opens, Votes, Ends
  <1>4. ASSUME NEW a \in Approvals, lost'[a] PROVE state'[a] \notin {"pending", "approved"}
    <2>1. lost[a] => state[a] \notin {"pending", "approved"}
      BY DEF IInv, HoleNeverAuthorizes
    <2>2. state[a] = "absent" => ~lost[a]
      BY DEF IInv, Claims, Fresh
    <2> QED BY <1>1, <1>2, <1>4, <2>1, <2>2 DEF Shape, Same, Opens, Votes, Ends, Approves
  <1> QED BY <1>3, <1>4 DEF WaiterSeesOutcome, HoleNeverAuthorizes

\* Every step keeps the audit trails of the records legal.
LEMMA TrailStep == ASSUME IInv, [Next]_vars PROVE Trails'
  <1> SUFFICES ASSUME NEW a \in Approvals, ~lost'[a]
      PROVE  /\ state'[a] = "absent"   => trail'[a] = <<>>
             /\ state'[a] = "pending"  => trail'[a] = IF resolving'[a] THEN Voted ELSE Asked
             /\ state'[a] = "approved" => trail'[a] = Voted
             /\ state'[a] = "denied"   => trail'[a] \in {Asked \o <<"denied">>, Voted \o <<"denied">>}
             /\ state'[a] \in {"expired", "cancelled"} => trail'[a] = Asked \o <<state'[a]>>
    BY DEF Trails
  <1>1. Shape(a)
    BY StepShape DEF IInv
  <1>2. ~lost[a] => /\ state[a] = "absent"  => trail[a] = <<>> /\ ~resolving[a]
                    /\ state[a] = "pending" => trail[a] = IF resolving[a] THEN Voted ELSE Asked
    BY DEF IInv, Trails, Claims, Fresh
  <1>3. CASE Same(a)
    BY <1>3 DEF Same, IInv, Trails
  <1>4. CASE Opens(a)
    <2>1. <<>> \o <<"requested", "pending">> = Asked
      BY DEF Asked
    <2> QED BY <1>2, <1>4, <2>1 DEF Opens
  <1>5. CASE Votes(a)
    BY <1>2, <1>5 DEF Votes, Voted
  <1>6. CASE Ends(a)
    <2>1. state[a] = "pending" /\ ~lost[a]
      BY <1>6 DEF Ends
    <2> QED BY <1>2, <1>6, <2>1 DEF Ends, Approves, Terminal
  <1> QED BY <1>1, <1>3, <1>4, <1>5, <1>6 DEF Shape

\* A call that has returned stays so, with its target and its grant.
LEMMA ReturnedStays ==
    ASSUME TypeOK, [Next]_vars, NEW r \in Resolvers, pc[r] = "returned", grant[r] # "none"
    PROVE  pc'[r] = "returned" /\ target'[r] = target[r] /\ grant'[r] # "none"
  BY DEF Next, OnApproval, Mint, Decide, Revoke, Quiet, Tick, Request, Probe, Cancel, ResolveDenied,
         ResolveApproved, ResolveRejected, MintReturns, MintThrows, DecideAllows, DecideRefuses,
         DecideThrows, RevokeDone, RevokeFails, Spendable, Go, Aim, vars, calls, TypeOK

\* Every step keeps an approval earned.
LEMMA EarnedStep == ASSUME IInv, [Next]_vars PROVE ApprovedIsEarned'
  <1> SUFFICES ASSUME NEW a \in Approvals, state'[a] = "approved"
      PROVE  /\ \E i \in DOMAIN trail'[a] : trail'[a][i] = "approved"
             /\ \E r \in Resolvers : target'[r] = a /\ pc'[r] = "returned" /\ grant'[r] # "none"
    BY DEF ApprovedIsEarned
  <1>1. Shape(a)
    BY StepShape DEF IInv
  <1>2. CASE Same(a)
    BY <1>2, ReturnedStays DEF Same, IInv, ApprovedIsEarned
  <1>3. CASE Ends(a)
    <2>1. Approves(a)
      BY <1>3 DEF Ends
    <2>2. ~lost[a]
      BY <2>1 DEF Approves, IInv, HoleNeverAuthorizes
    <2>3. trail'[a] = Voted
      BY <2>1, <2>2 DEF Approves, IInv, Trails
    <2>4. 3 \in DOMAIN Voted /\ Voted[3] = "approved"
      BY DEF Voted, Asked
    <2> QED BY <2>1, <2>3, <2>4 DEF Approves
  <1> QED BY <1>1, <1>2, <1>3 DEF Shape, Opens, Votes

\* No step overtakes a vote that was accepted.
LEMMA OvertakenStep == ASSUME IInv, [Next]_vars PROVE AcceptedVoteIsNotOvertaken'
  <1> SUFFICES ASSUME NEW r \in Resolvers, pc'[r] \notin {"idle", "rejected"}
      PROVE  state'[target'[r]] \in {"pending", "approved", "denied"}
    BY DEF AcceptedVoteIsNotOvertaken
  <1> USE DEF record, audit, calls, IInv
  \* The call was past the guard already: its record is latched.
  <1>1. CASE Past(r)
    <2>1. target[r] \in Approvals /\ resolving[target[r]]
      BY <1>1 DEF Aimed, Claims, Latched, Past
    <2>2. target'[r] = target[r]
      BY <1>1 DEF Next, OnApproval, Mint, Decide, Revoke, Quiet, Tick, Request, Probe, Cancel,
            ResolveDenied, ResolveApproved, ResolveRejected, MintReturns, MintThrows, DecideAllows,
            DecideRefuses, DecideThrows, RevokeDone, RevokeFails, Aim, vars, TypeOK, Past
    <2>3. state[target[r]] \in {"pending", "approved", "denied"}
      BY <1>1 DEF AcceptedVoteIsNotOvertaken, Past
    <2> QED BY <2>1, <2>2, <2>3, StepShape DEF Shape, Same, Opens, Votes, Ends, Terminal
  \* It passes the guard in this step.
  <1>2. CASE ~Past(r)
    <2>1. PICK a \in Approvals : ResolveDenied(r, a) \/ ResolveApproved(r, a)
      BY <1>2 DEF Next, OnApproval, Mint, Decide, Revoke, Quiet, Tick, Request, Probe, Cancel,
            ResolveDenied, ResolveApproved, ResolveRejected, MintReturns, MintThrows, DecideAllows,
            DecideRefuses, DecideThrows, RevokeDone, RevokeFails, Go, vars, TypeOK, Past
    <2>2. target'[r] = a
      BY <2>1, Pointed DEF ResolveDenied, ResolveApproved
    <2>3. state'[a] \in {"pending", "denied"}
      BY <2>1 DEF ResolveDenied, ResolveApproved, Claimable, VoteStands, FailClosed, Finish, TypeOK
    <2> QED BY <2>2, <2>3
  <1> QED BY <1>1, <1>2

\* No step leaves the grant of a refused vote spendable behind a call that returned.
LEMMA LingeringStep == ASSUME IInv, [Next]_vars PROVE NoLingeringGrant'
  <1> SUFFICES ASSUME NEW r \in Resolvers, pc'[r] = "returned", grant'[r] = "active"
      PROVE  state'[target'[r]] = "approved"
    BY DEF NoLingeringGrant
  <1> USE DEF record, audit, calls, IInv
  <1>1. CASE pc[r] = "returned"
    <2>1. grant[r] = "active" /\ target'[r] = target[r] /\ target[r] \in Approvals
      BY <1>1 DEF Next, OnApproval, Mint, Decide, Revoke, Quiet, Tick, Request, Probe, Cancel,
            ResolveDenied, ResolveApproved, ResolveRejected, MintReturns, MintThrows, DecideAllows,
            DecideRefuses, DecideThrows, RevokeDone, RevokeFails, Spendable, Aim, vars, TypeOK, Aimed
    <2>2. state[target[r]] = "approved"
      BY <1>1, <2>1 DEF NoLingeringGrant
    <2> QED BY <2>1, <2>2, StepShape DEF Shape, Same, Opens, Votes, Ends
  <1>2. CASE pc[r] # "returned"
    <2>1. \/ DecideAllows(r)
          \/ RevokeDone(r)
          \/ \E a \in Approvals : ResolveDenied(r, a) \/ ResolveApproved(r, a)
      BY <1>2 DEF Next, OnApproval, Mint, Decide, Revoke, Quiet, Tick, Request, Probe, Cancel,
            ResolveDenied, ResolveApproved, ResolveRejected, MintReturns, MintThrows, DecideAllows,
            DecideRefuses, DecideThrows, RevokeDone, RevokeFails, Go, vars, TypeOK
    <2>2. CASE DecideAllows(r)
      <3>1. target'[r] = target[r] /\ target[r] \in Approvals
        BY <2>2 DEF DecideAllows, Aimed
      <3> QED BY <2>2, <3>1, Wrote DEF DecideAllows, Terminal
    <2>3. ~RevokeDone(r)
      BY DEF RevokeDone, TypeOK
    <2>4. ASSUME NEW a \in Approvals, ResolveDenied(r, a) \/ ResolveApproved(r, a) PROVE FALSE
      BY <2>4 DEF ResolveDenied, ResolveApproved, Claims, Stages
    <2> QED BY <2>1, <2>2, <2>3, <2>4
  <1> QED BY <1>1, <1>2

\* The inductive invariant holds in every reachable state.
THEOREM Invariance == Spec => []IInv
  <1>1. IInv /\ [Next]_vars => IInv'
    <2> SUFFICES ASSUME IInv, [Next]_vars PROVE IInv'
      OBVIOUS
    <2> QED BY TypeStep, ClaimsStep, OutcomeStep, TrailStep, EarnedStep, OvertakenStep,
               LingeringStep DEF IInv
  <1> QED BY InitIInv, <1>1, PTL DEF Spec

-----------------------------------------------------------------------------
(* What follows. *)

\* Every variable of the lifecycle keeps its type.
THEOREM TypeCorrect == Spec => []TypeOK
  <1>1. IInv => TypeOK
    BY DEF IInv
  <1> QED BY <1>1, Invariance, PTL

\* A held call is told the outcome that is in the record, and none before it.
THEOREM WaiterTold == Spec => []WaiterSeesOutcome
  <1>1. IInv => WaiterSeesOutcome
    BY DEF IInv
  <1> QED BY <1>1, Invariance, PTL

\* However many resolve() calls race on a record, one reaches the mint.
THEOREM OneWinner == Spec => []SingleWinner
  <1>1. IInv => SingleWinner
    BY DEF IInv, Claims, Stages, OneClaim, SingleWinner, Won, Past, InFlight
  <1> QED BY <1>1, Invariance, PTL

\* An approval with a hole in its audit trail never authorises.
THEOREM FailsClosed == Spec => []HoleNeverAuthorizes
  <1>1. IInv => HoleNeverAuthorizes
    BY DEF IInv
  <1> QED BY <1>1, Invariance, PTL

\* An approved record has its vote in the trail, and a minted grant and a
\* completed re-evaluation behind it.
THEOREM ApprovalIsEarned == Spec => []ApprovedIsEarned
  <1>1. IInv => ApprovedIsEarned
    BY DEF IInv
  <1> QED BY <1>1, Invariance, PTL

\* Neither the deadline nor a cancel overtakes a vote that was accepted.
THEOREM VoteCounts == Spec => []AcceptedVoteIsNotOvertaken
  <1>1. IInv => AcceptedVoteIsNotOvertaken
    BY DEF IInv
  <1> QED BY <1>1, Invariance, PTL

\* A grant whose vote did not approve is not left spendable by a call that
\* returned.
THEOREM GrantIsRevoked == Spec => []NoLingeringGrant
  <1>1. IInv => NoLingeringGrant
    BY DEF IInv
  <1> QED BY <1>1, Invariance, PTL

\* Where no append failed, the audit trail tells the outcome.
THEOREM TrailTells == Spec => []TrailTellsOutcome
  <1>1. IInv => TrailTellsOutcome
    <2> SUFFICES ASSUME IInv, NEW a \in Approvals, ~lost[a] PROVE trail[a] \in LegalTrails(state[a])
      BY DEF TrailTellsOutcome
    <2>1. /\ LegalTrails("absent") = {<<>>}
          /\ LegalTrails("pending") = {Asked, Voted}
          /\ LegalTrails("approved") = {Voted}
          /\ LegalTrails("denied") = {Asked \o <<"denied">>, Voted \o <<"denied">>}
          /\ LegalTrails("expired") = {Asked \o <<"expired">>}
          /\ LegalTrails("cancelled") = {Asked \o <<"cancelled">>}
      BY DEF LegalTrails, Asked, Voted
    <2>2. state[a] \in {"absent", "pending", "approved", "denied", "expired", "cancelled"}
      BY DEF IInv, TypeOK, States, Terminal
    <2>3. /\ state[a] = "absent"   => trail[a] = <<>>
          /\ state[a] = "pending"  => trail[a] \in {Asked, Voted}
          /\ state[a] = "approved" => trail[a] = Voted
          /\ state[a] = "denied"   => trail[a] \in {Asked \o <<"denied">>, Voted \o <<"denied">>}
          /\ state[a] \in {"expired", "cancelled"} => trail[a] = Asked \o <<state[a]>>
      BY DEF IInv, Trails
    <2> QED BY <2>1, <2>2, <2>3
  <1> QED BY <1>1, Invariance, PTL

\* A terminal record is final.
THEOREM Final == Spec => TerminalIsFinal
  <1>1. IInv /\ [Next]_vars => [\A a \in Approvals : state[a] \in Terminal => state'[a] = state[a]]_vars
    <2> SUFFICES ASSUME IInv, [Next]_vars, NEW a \in Approvals, state[a] \in Terminal
        PROVE  state'[a] = state[a]
      OBVIOUS
    <2>1. Shape(a)
      BY StepShape DEF IInv
    <2> QED BY <2>1 DEF Shape, Same, Opens, Votes, Ends, Terminal
  <1> QED BY <1>1, Invariance, PTL DEF Spec, TerminalIsFinal

\* The held call, the audit log and the record agree on the outcome.
THEOREM OutcomeTold == Spec => []OutcomeIsTold
  <1>1. WaiterSeesOutcome /\ HoleNeverAuthorizes /\ TrailTellsOutcome => OutcomeIsTold
    BY DEF OutcomeIsTold
  <1> QED BY <1>1, WaiterTold, FailsClosed, TrailTells, PTL

-----------------------------------------------------------------------------
(* The refinement.  The latch is what makes it one: a call in flight holds *)
(* the latch of a pending record, so what it writes concludes that record. *)

\* Both modules have the same guards.
LEMMA SameGuards ==
    \A a \in Approvals :
        /\ Record!Due(a) <=> Due(a)
        /\ Record!Claimable(a) <=> Claimable(a)
  BY DEF Record!Due, Record!Claimable, Due, Claimable

\* Every step of the lifecycle is a step of the record, or leaves it alone.
LEMMA RecordStep ==
    ASSUME IInv, [Next]_vars
    PROVE  Record!RecordNext \/ UNCHANGED Record!record
  <1> USE DEF record, audit, calls
  <1>t. TypeOK /\ Aimed /\ Latched
    BY DEF IInv, Claims
  <1>1. ASSUME NEW a \in Approvals, Request(a) PROVE Record!Open(a)
    BY <1>1 DEF Request, LeaveRequested, FailClosed, Finish, Record!Open, Record!End
  <1>2. ASSUME NEW a \in Approvals, Due(a), Expire(a), UNCHANGED <<resolving, requestedAt, now>>
        PROVE  Record!Lapse(a)
    BY <1>2, SameGuards DEF Expire, Finish, Record!Lapse, Record!End
  <1>3. ASSUME NEW a \in Approvals, Cancel(a) PROVE Record!Claim(a, "cancelled")
    BY <1>3, SameGuards DEF Cancel, Claim, Finish, Record!Claim, Record!Latch, Record!End
  <1>4. ASSUME NEW a \in Approvals, NEW r \in Resolvers, ResolveDenied(r, a)
        PROVE  Record!Claim(a, "denied")
    BY <1>4, SameGuards DEF ResolveDenied, Claim, Finish, Record!Claim, Record!Latch, Record!End
  <1>5. ASSUME NEW a \in Approvals, NEW r \in Resolvers, ResolveApproved(r, a)
        PROVE  Record!Accept(a)
    BY <1>5, SameGuards
       DEF ResolveApproved, VoteStands, FailClosed, Claim, Finish, Record!Accept, Record!Latch,
           Record!End
  <1>6. ASSUME NEW a \in Approvals, NEW r \in Resolvers, ResolveRejected(r, a)
        PROVE  Record!Lapse(a) \/ UNCHANGED Record!record
    <2>1. CASE Due(a) BY <1>2, <1>6, <2>1 DEF ResolveRejected
    <2>2. CASE ~Due(a) BY <1>6, <2>2 DEF ResolveRejected, Record!record
    <2> QED BY <2>1, <2>2
  <1>7. ASSUME NEW r \in Resolvers, pc[r] \in InFlight, NEW s \in {"approved", "denied"},
               Finish(target[r], s), UNCHANGED <<resolving, requestedAt, now>>
        PROVE  target[r] \in Approvals /\ Record!Conclude(target[r])
    <2>1. Past(r) /\ pc[r] # "idle"
      BY <1>7 DEF Past, InFlight
    <2>2. target[r] \in Approvals /\ resolving[target[r]] /\ state[target[r]] = "pending"
      BY <1>7, <1>t, <2>1 DEF Aimed, Latched
    <2> QED BY <1>7, <2>2 DEF Finish, Record!Conclude, Record!End
  <1>8. ASSUME NEW r \in Resolvers, pc[r] \in InFlight, DenyOnThrow(target[r]),
               UNCHANGED <<resolving, requestedAt, now>>
        PROVE  (\E a \in Approvals : Record!Conclude(a)) \/ UNCHANGED Record!record
    <2>1. CASE state[target[r]] \in Terminal
      BY <1>8, <2>1 DEF DenyOnThrow, Record!record
    <2>2. CASE state[target[r]] \notin Terminal
      BY <1>7, <1>8, <2>2 DEF DenyOnThrow
    <2> QED BY <2>1, <2>2
  <1>9. ASSUME NEW r \in Resolvers, Mint(r) \/ Decide(r)
        PROVE  (\E a \in Approvals : Record!Conclude(a)) \/ UNCHANGED Record!record
    <2>1. CASE MintReturns(r)
      BY <2>1 DEF MintReturns, Record!record
    <2>2. CASE MintThrows(r)
      BY <1>8, <2>2 DEF MintThrows, InFlight
    <2>3. CASE DecideAllows(r)
      BY <1>7, <2>3 DEF DecideAllows, InFlight
    <2>4. CASE DecideRefuses(r)
      BY <1>7, <2>4 DEF DecideRefuses, InFlight
    <2>5. CASE DecideThrows(r)
      BY <1>8, <2>5 DEF DecideThrows, InFlight
    <2> QED BY <1>9, <2>1, <2>2, <2>3, <2>4, <2>5 DEF Mint, Decide
  <1>10. ASSUME NEW r \in Resolvers, Revoke(r) PROVE UNCHANGED Record!record
    BY <1>10 DEF Revoke, RevokeDone, RevokeFails, Record!record
  <1>11. CASE Tick
    BY <1>11 DEF Tick, Record!RecordNext, Record!Tick
  <1>12. CASE UNCHANGED vars
    BY <1>12 DEF vars, Record!record
  <1>13. ASSUME NEW a \in Approvals, OnApproval(a)
         PROVE  Record!RecordNext \/ UNCHANGED Record!record
    <2>1. CASE Request(a) BY <1>1, <2>1 DEF Record!RecordNext
    <2>2. CASE Probe(a) BY <1>2, <2>2 DEF Probe, Record!RecordNext
    <2>3. CASE Cancel(a) BY <1>3, <2>3 DEF Record!RecordNext
    <2>4. CASE \E r \in Resolvers : ResolveDenied(r, a) BY <1>4, <2>4 DEF Record!RecordNext
    <2>5. CASE \E r \in Resolvers : ResolveApproved(r, a) BY <1>5, <2>5 DEF Record!RecordNext
    <2>6. CASE \E r \in Resolvers : ResolveRejected(r, a) BY <1>6, <2>6 DEF Record!RecordNext
    <2> QED BY <1>13, <2>1, <2>2, <2>3, <2>4, <2>5, <2>6 DEF OnApproval
  <1> QED
    BY <1>9, <1>10, <1>11, <1>12, <1>13 DEF Next, Quiet, Record!RecordNext

\* The state machine with its awaits implements the record it promises.
THEOREM Implements == Spec => ImplementsRecord
  <1>1. Init => Record!RecordInit
    BY DEF Init, Record!RecordInit
  <1>2. IInv /\ [Next]_vars => [Record!RecordNext]_(Record!record)
    BY RecordStep
  <1> QED BY <1>1, <1>2, Invariance, PTL DEF Spec, ImplementsRecord, Record!RecordSpec

=============================================================================
