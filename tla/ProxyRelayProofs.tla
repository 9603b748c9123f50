---------------------------- MODULE ProxyRelayProofs ----------------------------
(***************************************************************************)
(* Proofs about ProxyRelay, for any requests and whatever fails open.      *)
(*                                                                         *)
(* The invariant says what may have been answered at each stage of a       *)
(* request: nothing before it was passed on or refused, a refusal and only *)
(* that if it was refused, and otherwise what the child wrote, the crash   *)
(* error, or the one after the other.  pendingChildRequests holds exactly  *)
(* the requests passed on and not answered.                                *)
(***************************************************************************)
EXTENDS ProxyRelay, SequenceTheorems, TLAPS

\* The crash error of a graceful teardown, then the answer of the child.
Twice   == Append(<<"crashed">>, "child")
Relayed == {<<>>, <<"child">>, <<"crashed">>, Twice}
Refusal == {<<"denied">>, <<"internal">>}

Typed ==
    /\ stage \in [Requests -> Stages]
    /\ pending \subseteq Requests
    /\ answers \in [Requests -> Relayed \cup Refusal]
    /\ reached \subseteq Requests
    /\ outbox \subseteq reached
    /\ child \in {"up", "down"}
    /\ phase \in Phases /\ reason \in Reasons
    /\ failOpens \subseteq Requests /\ allowed \subseteq Requests

\* Nothing has happened yet to a request that waits for its decision.
Waiting ==
    \A q \in Requests : stage[q] \in {"unsent", "deciding", "held"} =>
        answers[q] = <<>> /\ q \notin pending /\ q \notin reached

\* What was passed on is tracked until it is answered.
Tracked ==
    \A q \in Requests : stage[q] \in {"forwarded", "rejecting"} =>
        answers[q] \in Relayed /\ (q \in pending <=> answers[q] = <<>>)

\* A send that was rejected reached nobody.
Unsent == \A q \in Requests : stage[q] = "rejecting" => q \notin reached

\* What was refused got the refusal only.
Refused ==
    \A q \in Requests : stage[q] = "answered" =>
        answers[q] \in Refusal /\ q \notin pending /\ q \notin reached

\* What the child wrote has not been relayed before.
Fresh == \A q \in outbox : answers[q] \in {<<>>, <<"crashed">>}

\* Before a teardown nothing the child may still answer was given up, and after
\* the end of the child it writes no more.
GivenUp ==
    /\ reason = "none" <=> phase = "running"
    /\ reason = "none" => \A q \in reached : answers[q] # <<"crashed">>
    /\ reason = "child_exit" => child = "down" /\ outbox = {}
    /\ reason \in {"none", "child_exit"} => \A q \in Requests : answers[q] # Twice

\* A teardown leaves only sends that are being rejected.
Drained == phase # "running" => \A q \in pending : stage[q] = "rejecting"

Shape ==
    /\ Typed /\ Waiting /\ Tracked /\ Unsent /\ Refused /\ Fresh /\ GivenUp /\ Drained

IInv == Shape /\ GovernedOrLogged

-----------------------------------------------------------------------------
(* What the handlers keep. *)

\* The lists of answers a request may get, one Append at a time (forward() of a
\* response).
LEMMA FirstAnswer == \A kind \in Kinds : Append(<<>>, kind) = <<kind>>
  BY DEF Kinds

LEMMA TwiceProperties ==
  /\ Twice \in Seq(Kinds)
  /\ Len(Twice) = 2 /\ Twice[1] = "crashed" /\ Twice[2] = "child"
  /\ Twice \notin Refusal \cup {<<>>, <<"child">>, <<"crashed">>}
  <1>1. <<"crashed">> \in Seq(Kinds) /\ "child" \in Kinds /\ Len(<<"crashed">>) = 1
    BY DEF Kinds
  <1>2. /\ Twice \in Seq(Kinds)
        /\ Len(Twice) = 2 /\ Twice[1] = "crashed" /\ Twice[2] = "child"
    BY <1>1, AppendProperties DEF Twice
  <1>3. Len(<<>>) = 0 /\ \A kind \in Kinds : Len(<<kind>>) = 1
    OBVIOUS
  <1>. QED  BY <1>2, <1>3 DEF Refusal, Kinds

\* Passing on a request that waited keeps the shape of things (forward() of a
\* request, whatever becomes of the send).
LEMMA ForwardKeepsShape ==
  ASSUME NEW q \in Requests, Shape, stage[q] \in {"unsent", "deciding", "held"},
         Forward(q), failOpens' \subseteq Requests, allowed' \subseteq Requests
  PROVE  Shape'
  <1>. USE DEF Shape, Forward, Enter
  <1>1. Typed'
    BY DEF Typed, Stages, close
  <1>2. Waiting' /\ Tracked' /\ Unsent' /\ Refused'
    BY DEF Typed, Waiting, Tracked, Unsent, Refused, Relayed, Stages, close
  <1>3. Fresh' /\ GivenUp' /\ Drained'
    BY DEF Typed, Waiting, Fresh, GivenUp, Drained, close
  <1>. QED  BY <1>1, <1>2, <1>3

\* So does refusing one (the answer of enforceToolsCall).
LEMMA RespondKeepsShape ==
  ASSUME NEW q \in Requests, NEW kind \in {"denied", "internal"}, Shape,
         stage[q] \in {"deciding", "held"}, Respond(q, kind), UNCHANGED audit
  PROVE  Shape'
  <1>1. answers' = [answers EXCEPT ![q] = <<kind>>] /\ pending' = pending
    BY FirstAnswer DEF Shape, Typed, Waiting, Respond, Answer, Kinds
  <1>2. <<kind>> \in Refusal /\ <<kind>> # <<>> /\ <<kind>> # <<"crashed">> /\ <<kind>> # Twice
    BY TwiceProperties DEF Refusal
  <1>3. /\ stage' = [stage EXCEPT ![q] = "answered"]
        /\ UNCHANGED <<reached, outbox, child, phase, reason, failOpens, allowed>>
    BY DEF Respond, Enter, wire, close, audit
  <1>. USE <1>1, <1>2, <1>3 DEF Shape
  <1>4. Typed'
    BY DEF Typed, Stages
  <1>5. Waiting' /\ Tracked' /\ Unsent' /\ Refused'
    BY DEF Typed, Waiting, Tracked, Unsent, Refused
  <1>6. Fresh' /\ GivenUp' /\ Drained'
    BY DEF Typed, Waiting, Fresh, GivenUp, Drained
  <1>. QED  BY <1>4, <1>5, <1>6

\* Moving a request from one waiting stage to another disturbs nothing.
LEMMA EnterKeepsShape ==
  ASSUME NEW q \in Requests, NEW there \in {"deciding", "held"}, Shape,
         stage[q] \in {"unsent", "deciding"}, Enter(q, there),
         UNCHANGED <<pending, answers, wire, close, audit>>
  PROVE  Shape'
  BY DEF Shape, Typed, Waiting, Tracked, Unsent, Refused, Fresh, GivenUp, Drained,
         Enter, Stages, wire, close, audit

\* A teardown answers for all that is in flight.
LEMMA TeardownKeepsShape ==
  ASSUME Shape, NEW why \in {"child_exit", "client_eof", "stopped"},
         NEW next \in {"closingChild", "closingClient"}, Teardown(why, next),
         why = "child_exit" => child = "down" /\ outbox = {}
  PROVE  Shape'
  <1>1. /\ answers' = [q \in Requests |-> IF q \in pending THEN <<"crashed">> ELSE answers[q]]
        /\ pending' = {}
    <2>1. \A q \in pending : answers[q] = <<>>
      BY DEF Shape, Typed, Waiting, Tracked, Refused, Stages
    <2>. QED  BY <2>1, FirstAnswer DEF Teardown, FailPending, Kinds
  <1>2. /\ reason' = why /\ phase' = next /\ phase = "running"
        /\ UNCHANGED <<stage, reached, outbox, child, failOpens, allowed>>
    BY DEF Teardown, wire, audit
  <1>3. <<"crashed">> # <<>> /\ <<"crashed">> # Twice
    BY TwiceProperties
  <1>4. \A q \in pending : stage[q] \in {"forwarded", "rejecting"}
    BY DEF Shape, Typed, Waiting, Refused, Stages
  <1>. USE <1>1, <1>2, <1>3, <1>4 DEF Shape
  <1>5. Typed'
    BY DEF Typed, Relayed, Reasons, Phases
  <1>6. Waiting' /\ Tracked' /\ Unsent' /\ Refused'
    BY DEF Typed, Waiting, Tracked, Unsent, Refused, Relayed
  <1>7. Fresh' /\ GivenUp' /\ Drained'
    BY DEF Typed, Fresh, GivenUp, Drained
  <1>. QED  BY <1>5, <1>6, <1>7

-----------------------------------------------------------------------------
(* The invariant. *)

\* A rejected send is answered unless the teardown has answered for it.
LEMMA SendRejectedKeepsShape ==
  ASSUME NEW q \in Requests, Shape, SendRejected(q)
  PROVE  Shape'
  <1>1. /\ stage[q] = "rejecting" /\ stage' = [stage EXCEPT ![q] = "forwarded"]
        /\ UNCHANGED <<reached, outbox, child, phase, reason, failOpens, allowed>>
    BY DEF SendRejected, Enter, wire, close, audit
  <1>2. /\ answers[q] \in Relayed /\ q \notin reached
        /\ q \in pending <=> answers[q] = <<>>
    BY <1>1 DEF Shape, Tracked, Unsent
  <1>3. <<"crashed">> # <<>> /\ <<"crashed">> # Twice
    BY TwiceProperties
  <1>4. CASE q \in pending
    <2>1. answers' = [answers EXCEPT ![q] = <<"crashed">>] /\ pending' = pending \ {q}
      BY <1>2, <1>4, FirstAnswer DEF Shape, Typed, SendRejected, Answer, Kinds
    <2>. USE <1>1, <1>2, <1>3, <2>1 DEF Shape
    <2>2. Typed'
      BY DEF Typed, Relayed, Stages
    <2>3. Waiting' /\ Tracked' /\ Unsent' /\ Refused'
      BY DEF Typed, Waiting, Tracked, Unsent, Refused, Relayed
    <2>4. Fresh' /\ GivenUp' /\ Drained'
      BY DEF Typed, Fresh, GivenUp, Drained
    <2>. QED  BY <2>2, <2>3, <2>4
  <1>5. CASE q \notin pending
    <2>1. UNCHANGED <<answers, pending>>
      BY <1>5 DEF SendRejected
    <2>. QED
      BY <1>1, <1>2, <1>5, <2>1
         DEF Shape, Typed, Waiting, Tracked, Unsent, Refused, Fresh, GivenUp, Drained, Stages
  <1>. QED  BY <1>4, <1>5

\* What the child wrote is relayed once, after the crash error at most.
LEMMA RelayKeepsShape ==
  ASSUME NEW q \in Requests, Shape, RelayResponse(q)
  PROVE  Shape'
  <1>1. /\ q \in outbox /\ q \in reached /\ outbox' = outbox \ {q} /\ pending' = pending \ {q}
        /\ UNCHANGED <<stage, reached, child, phase, reason, failOpens, allowed>>
    BY DEF RelayResponse, Answer, Shape, Typed, close, audit
  <1>2. answers[q] \in {<<>>, <<"crashed">>} /\ stage[q] = "forwarded"
    BY <1>1 DEF Shape, Typed, Waiting, Unsent, Refused, Fresh, Stages
  <1>3. PICK after \in {<<"child">>, Twice} :
          /\ answers' = [answers EXCEPT ![q] = after]
          /\ answers[q] = <<>> => after = <<"child">>
    BY <1>2, FirstAnswer DEF RelayResponse, Answer, Twice, Kinds
  <1>4. /\ after \in Relayed /\ after \notin {<<>>, <<"crashed">>}
        /\ <<"child">> # Twice
        /\ reason = "none" => answers[q] = <<>>
        /\ reason # "child_exit"
    <2>1. reason = "none" => answers[q] # <<"crashed">>
      BY <1>1 DEF Shape, GivenUp
    <2>2. reason # "child_exit"
      BY <1>1 DEF Shape, GivenUp
    <2>3. /\ after \in Relayed /\ after \notin {<<>>, <<"crashed">>}
          /\ <<"child">> # Twice
      <3>1. <<"child">> \notin {<<>>, <<"crashed">>}
        OBVIOUS
      <3>2. Twice \notin {<<>>, <<"child">>, <<"crashed">>}
        BY TwiceProperties
      <3>. QED  BY <3>1, <3>2 DEF Relayed
    <2>. QED  BY <1>2, <2>1, <2>2, <2>3
  <1>. USE <1>1, <1>2, <1>3, <1>4 DEF Shape
  <1>5. Typed'
    BY DEF Typed
  <1>6. Waiting' /\ Tracked' /\ Unsent' /\ Refused'
    BY DEF Typed, Waiting, Tracked, Unsent, Refused
  <1>7. Fresh' /\ GivenUp' /\ Drained'
    BY DEF Typed, Fresh, GivenUp, Drained
  <1>. QED  BY <1>5, <1>6, <1>7

\* The child writes a response only once, and only to what it has not answered.
LEMMA ChildWritesKeepsShape ==
  ASSUME NEW q \in Requests, Shape, ChildWrites(q)
  PROVE  Shape'
  <1>1. stage[q] \in {"forwarded", "rejecting"}
    BY DEF ChildWrites, Shape, Typed, Waiting, Refused, Stages
  <1>2. answers[q] \in {<<>>, <<"crashed">>}
    <2>1. answers[q] # <<"child">>
      BY DEF ChildWrites
    <2>2. answers[q] # Twice
      BY TwiceProperties DEF ChildWrites
    <2>. QED  BY <1>1, <2>1, <2>2 DEF Shape, Tracked, Relayed
  <1>. QED
    BY <1>2 DEF ChildWrites, Shape, Typed, Waiting, Tracked, Unsent, Refused, Fresh,
       GivenUp, Drained, close, audit

\* The handlers that write nothing to the child keep governance: a call reaches
\* the child only through Forward.
LEMMA ForwardReaches ==
  ASSUME NEW q \in Requests, Forward(q)
  PROVE  reached' \subseteq reached \cup {q}
  BY DEF Forward

LEMMA ShapeInit == Init => Shape
  <1>. SUFFICES ASSUME Init PROVE Shape
    OBVIOUS
  <1>. QED
    BY TwiceProperties
       DEF Init, Shape, Typed, Stages, Phases, Reasons, Waiting, Tracked, Unsent, Refused,
           Relayed, Fresh, GivenUp, Drained

\* Every step of a request keeps the shape of things.
LEMMA RequestKeepsShape ==
  ASSUME Shape, NEW q \in Requests, OnRequest(q)
  PROVE  Shape'
  <1>. /\ failOpens \subseteq Requests /\ allowed \subseteq Requests
    BY DEF Shape, Typed
  <1>1. CASE Receive(q)
    <2>1. CASE q \in ToolCalls
      BY <1>1, <2>1, EnterKeepsShape DEF Receive
    <2>2. CASE q \notin ToolCalls
      BY <1>1, <2>2, ForwardKeepsShape DEF Receive, audit
    <2>. QED  BY <2>1, <2>2
  <1>2. CASE DecideAllows(q)
    BY <1>2, ForwardKeepsShape DEF DecideAllows, Deciding, Allow
  <1>3. CASE DecideDenies(q)
    BY <1>3, RespondKeepsShape DEF DecideDenies, Deciding
  <1>4. CASE DecideHolds(q)
    BY <1>4, EnterKeepsShape DEF DecideHolds, Deciding
  <1>5. CASE DecideThrows(q)
    <2>1. CASE FailsOpen(q)
      BY <1>5, <2>1, ForwardKeepsShape DEF DecideThrows, Deciding, FailsOpen
    <2>2. CASE FailsClosed(q)
      BY <1>5, <2>2, RespondKeepsShape DEF DecideThrows, Deciding, FailsClosed
    <2>. QED  BY <1>5, <2>1, <2>2 DEF DecideThrows
  <1>6. CASE HoldAllows(q)
    BY <1>6, ForwardKeepsShape DEF HoldAllows, Held, Allow
  <1>7. CASE HoldDenies(q) \/ HoldRejects(q)
    BY <1>7, RespondKeepsShape DEF HoldDenies, HoldRejects, Held
  <1>8. CASE SendRejected(q)
    BY <1>8, SendRejectedKeepsShape
  <1>9. CASE ChildWrites(q)
    BY <1>9, ChildWritesKeepsShape
  <1>10. CASE RelayResponse(q)
    BY <1>10, RelayKeepsShape
  <1>. QED
    BY <1>1, <1>2, <1>3, <1>4, <1>5, <1>6, <1>7, <1>8, <1>9, <1>10
       DEF OnRequest, Decide, Settle

\* So does the end of the child, and every step of the teardown.
LEMMA EndKeepsShape ==
  ASSUME Shape, ChildDies \/ Shutdown
  PROVE  Shape'
  <1>1. CASE ChildDies \/ Kill
    BY <1>1 DEF ChildDies, Kill, close, audit, Shape, Typed, Waiting, Tracked, Unsent,
                Refused, Fresh, GivenUp, Drained
  <1>2. CASE ChildCloses
    BY <1>2, TeardownKeepsShape DEF ChildCloses
  <1>3. CASE ClientHangsUp \/ Stop
    BY <1>3, TeardownKeepsShape DEF ClientHangsUp, Stop
  <1>4. CASE Reap \/ CloseClient \/ Exit
    BY <1>4 DEF Reap, CloseClient, Exit, wire, audit, Shape, Typed, Phases, Waiting,
                Tracked, Unsent, Refused, Fresh, GivenUp, Drained
  <1>. QED  BY <1>1, <1>2, <1>3, <1>4 DEF Shutdown

\* A call that reaches the child has been allowed or has failed open.
LEMMA GovernanceKept ==
  ASSUME GovernedOrLogged, [Next]_vars
  PROVE  GovernedOrLogged'
  <1>1. allowed \subseteq allowed' /\ failOpens \subseteq failOpens'
    <2>1. ASSUME NEW q \in Requests, OnRequest(q)
          PROVE  allowed \subseteq allowed' /\ failOpens \subseteq failOpens'
      BY <2>1 DEF OnRequest, Receive, Decide, Settle, DecideAllows, DecideDenies, DecideHolds,
                  DecideThrows, FailsOpen, FailsClosed, HoldAllows, HoldDenies, HoldRejects,
                  Allow, SendRejected, ChildWrites, RelayResponse, audit
    <2>2. CASE ChildDies \/ Shutdown
      BY <2>2 DEF ChildDies, Shutdown, ChildCloses, ClientHangsUp, Stop, Teardown, Kill, Reap,
                  CloseClient, Exit, audit
    <2>. QED  BY <2>1, <2>2 DEF Next, Over, vars
  <1>2. ASSUME NEW q \in (reached' \ reached) \cap ToolCalls
        PROVE  q \in allowed' \/ (FailOpen /\ q \in Routine \cap failOpens')
    <2>1. PICK r \in Requests : OnRequest(r)
      BY <1>2 DEF Next, ChildDies, Shutdown, ChildCloses, ClientHangsUp, Stop, Teardown, Kill,
                  Reap, CloseClient, Exit, Over, vars, wire
    <2>2. CASE Receive(r)
      BY <1>2, <2>2, ForwardReaches DEF Receive, wire
    <2>3. CASE DecideAllows(r) \/ HoldAllows(r)
      BY <1>2, <2>3, ForwardReaches DEF DecideAllows, HoldAllows, Allow
    <2>4. CASE DecideThrows(r)
      BY <1>2, <2>4, ForwardReaches
         DEF DecideThrows, FailsOpen, FailsClosed, MayFailOpen, Respond, wire
    <2>5. CASE DecideDenies(r) \/ DecideHolds(r) \/ HoldDenies(r) \/ HoldRejects(r)
      BY <1>2, <2>5 DEF DecideDenies, DecideHolds, HoldDenies, HoldRejects, Respond, wire
    <2>6. CASE SendRejected(r) \/ ChildWrites(r) \/ RelayResponse(r)
      BY <1>2, <2>6 DEF SendRejected, ChildWrites, RelayResponse, wire
    <2>. QED  BY <2>1, <2>2, <2>3, <2>4, <2>5, <2>6 DEF OnRequest, Decide, Settle
  <1>. QED  BY <1>1, <1>2 DEF GovernedOrLogged

\* The invariant of the relay: what was answered, tracked and written to the
\* child agree at every stage of every request (proxy.ts, enforce.ts).
THEOREM Invariance == Spec => []IInv
  <1>1. Init => IInv
    BY ShapeInit DEF IInv, Init, GovernedOrLogged
  <1>2. IInv /\ [Next]_vars => IInv'
    <2>. SUFFICES ASSUME IInv, [Next]_vars PROVE IInv'
      OBVIOUS
    <2>1. Shape'
      <3>1. CASE \E q \in Requests : OnRequest(q)
        BY <3>1, RequestKeepsShape DEF IInv
      <3>2. CASE ChildDies \/ Shutdown
        BY <3>2, EndKeepsShape DEF IInv
      <3>3. CASE UNCHANGED vars
        BY <3>3 DEF IInv, vars, Shape, Typed, Waiting, Tracked, Unsent, Refused, Fresh,
                    GivenUp, Drained
      <3>. QED  BY <3>1, <3>2, <3>3 DEF Next, Over
    <2>2. GovernedOrLogged'
      BY GovernanceKept DEF IInv
    <2>. QED  BY <2>1, <2>2 DEF IInv
  <1>. QED  BY <1>1, <1>2, PTL DEF Spec

-----------------------------------------------------------------------------
(* What it says. *)

\* What may be in a list of answers.
LEMMA AnswersListed ==
  ASSUME Shape, NEW q \in Requests
  PROVE  /\ answers[q] \in UNION {[1..n -> Kinds] : n \in 0..2}
         /\ answers[q] \in Relayed =>
              ~AnsweredAs(q, "denied") /\ ~AnsweredAs(q, "internal")
         /\ answers[q] \in Refusal => Len(answers[q]) = 1
         /\ answers[q] # Twice => Len(answers[q]) <= 1
  <1>1. answers[q] \in {<<>>, <<"child">>, <<"crashed">>, <<"denied">>, <<"internal">>, Twice}
    BY DEF Shape, Typed, Relayed, Refusal
  <1>2. Twice \in [1..2 -> Kinds] /\ DOMAIN Twice = 1..2
    BY TwiceProperties
  <1>3. <<>> \in [1..0 -> Kinds] /\ Len(<<>>) = 0
    OBVIOUS
  <1>4. ASSUME NEW kind \in Kinds
        PROVE  <<kind>> \in [1..1 -> Kinds] /\ Len(<<kind>>) = 1
    BY <1>4
  <1>5. /\ answers[q] \in UNION {[1..n -> Kinds] : n \in 0..2}
        /\ answers[q] \in Refusal => Len(answers[q]) = 1
        /\ answers[q] # Twice => Len(answers[q]) <= 1
    <2>0. ASSUME NEW n \in 0..2, NEW f \in [1..n -> Kinds]
          PROVE  f \in UNION {[1..m -> Kinds] : m \in 0..2}
      OBVIOUS
    <2>1. CASE answers[q] = Twice
      <3>1. Twice \in UNION {[1..m -> Kinds] : m \in 0..2}
        BY <1>2, <2>0
      <3>2. Twice \notin Refusal
        BY TwiceProperties, <1>4 DEF Refusal, Kinds
      <3>. QED  BY <2>1, <3>1, <3>2
    <2>2. CASE answers[q] = <<>>
      <3>1. answers[q] \in UNION {[1..m -> Kinds] : m \in 0..2}
        BY <1>3, <2>0, <2>2
      <3>2. answers[q] \notin Refusal
        BY <2>2 DEF Refusal
      <3>. QED  BY <1>3, <2>2, <3>1, <3>2
    <2>3. ASSUME NEW kind \in Kinds, answers[q] = <<kind>>
          PROVE  /\ answers[q] \in UNION {[1..m -> Kinds] : m \in 0..2}
                 /\ Len(answers[q]) = 1
      <3>1. <<kind>> \in UNION {[1..m -> Kinds] : m \in 0..2}
        BY <1>4, <2>0
      <3>. QED  BY <1>4, <2>3, <3>1
    <2>4. \/ answers[q] = Twice \/ answers[q] = <<>>
          \/ \E kind \in Kinds : answers[q] = <<kind>>
      BY <1>1 DEF Kinds
    <2>. QED  BY <2>1, <2>2, <2>3, <2>4
  <1>6. answers[q] \in Relayed => ~AnsweredAs(q, "denied") /\ ~AnsweredAs(q, "internal")
    <2>1. CASE answers[q] = Twice
      BY <1>2, <2>1, TwiceProperties DEF AnsweredAs
    <2>2. CASE answers[q] \in {<<>>, <<"child">>, <<"crashed">>}
      BY <2>2 DEF AnsweredAs
    <2>. QED  BY <2>1, <2>2 DEF Relayed
  <1>. QED  BY <1>5, <1>6

\* Types, and a request is tracked only between being forwarded and answered.
THEOREM TypeCorrect == Spec => []TypeOK
  <1>1. IInv => TypeOK
    <2>. SUFFICES ASSUME IInv PROVE TypeOK
      OBVIOUS
    <2>1. pending \subseteq {q \in Requests : stage[q] \in {"forwarded", "rejecting"}}
      BY DEF IInv, Shape, Typed, Waiting, Refused, Stages
    <2>2. answers \in [Requests -> UNION {[1..n -> Kinds] : n \in 0..2}]
      BY AnswersListed DEF IInv, Shape, Typed
    <2>. QED  BY <2>1, <2>2 DEF IInv, Shape, Typed, TypeOK
  <1>. QED  BY <1>1, Invariance, PTL

\* A call whose client was told it was refused never reaches the child.
THEOREM RefusalIsTrue == Spec => []DeniedNeverRuns
  <1>1. IInv => DeniedNeverRuns
    BY AnswersListed
       DEF IInv, DeniedNeverRuns, AnsweredAs, Shape, Typed, Waiting, Tracked, Refused, Stages, Relayed
  <1>. QED  BY <1>1, Invariance, PTL

\* A tools/call that reaches the child was allowed, or failed open on record.
THEOREM Governed == Spec => []GovernedOrLogged
  <1>1. IInv => GovernedOrLogged
    BY DEF IInv
  <1>. QED  BY <1>1, Invariance, PTL

\* What was passed on is answered when the process ends.
THEOREM NoneForgotten == Spec => []ForwardedIsAnswered
  <1>1. IInv => ForwardedIsAnswered
    BY DEF IInv, ForwardedIsAnswered, Shape, Tracked, Drained
  <1>. QED  BY <1>1, Invariance, PTL

\* One answer per request, unless the proxy is told to end.
THEOREM OneAnswer == Spec => []AnsweredOnce
  <1>1. IInv => AnsweredOnce
    BY AnswersListed DEF IInv, AnsweredOnce, Shape, GivenUp
  <1>. QED  BY <1>1, Invariance, PTL

\* Refusals are true and what runs is governed.
THEOREM RunsAreGoverned == Spec => []GovernedRuns
  <1>1. DeniedNeverRuns /\ GovernedOrLogged => GovernedRuns
    BY DEF GovernedRuns
  <1>. QED  BY <1>1, RefusalIsTrue, Governed, PTL

\* No request is forgotten, none is answered twice.
THEOREM OneAnswerEach == Spec => []ExactlyOneAnswer
  <1>1. ForwardedIsAnswered /\ AnsweredOnce => ExactlyOneAnswer
    BY DEF ExactlyOneAnswer
  <1>. QED  BY <1>1, NoneForgotten, OneAnswer, PTL

=============================================================================
