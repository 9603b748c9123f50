---------------------------- MODULE DeciderProofs ----------------------------
(***************************************************************************)
(* The governed decision for any number of proxies and CLI invocations,    *)
(* any grants, bindings and policies, any size and lifetime of the caches: *)
(* one writer of the audit log at a time, one allow per single-use grant,  *)
(* grants and revocations obeyed by the next decision, and no decision     *)
(* staler than one look and one TTL.                                       *)
(***************************************************************************)
EXTENDS Decider, PrecedenceProofs, SequenceTheorems, FiniteSetTheorems

Places == Starting \cup {"idle", "listing", "deciding", "auditing"}

CacheEntries == [key : Requests, decision : Decisions, expires : Nat]

Typed ==
    /\ jws \subseteq Grants /\ tombs \subseteq Grants /\ marks \subseteq SingleUse
    /\ now \in 0..Horizon
    /\ lock \in {"free", "stale"} \cup Processes
    /\ raced \in BOOLEAN
    /\ pc \in [Processes -> Places]
    /\ \A c \in Clis : pc[c] \in Starting \cup {"idle"}
    /\ asked \in [Proxies -> Requests \cup {NoRequest}]
    /\ since \in [Proxies -> Nat]
    /\ revoked \in [Proxies -> SUBSET Grants]
    /\ listing \in [Proxies -> Seq(Grants)]
    /\ replayed \in [Proxies -> BOOLEAN]
    /\ verdict \in [Proxies -> Decisions \cup {Undecided}]
    /\ cache \in [Proxies -> Seq(CacheEntries)]
    /\ spends \in [SingleUse -> 0..1]

\* The locals of a decide() are there only while it runs, and name nothing that
\* was revoked when it began.
Locals ==
    \A p \in Proxies :
        /\ Deciding(p) => asked[p] \in Requests
        /\ ~Deciding(p) => asked[p] = NoRequest
        /\ pc[p] \notin {"deciding", "auditing"} => listing[p] = <<>>
        /\ pc[p] = "auditing" => verdict[p] \in Decisions
        /\ pc[p] # "auditing" => verdict[p] = Undecided
        /\ since[p] <= now
        /\ revoked[p] \subseteq tombs
        /\ \A i \in DOMAIN listing[p] : listing[p][i] \notin revoked[p]
        /\ verdict[p].grantRef \notin revoked[p]

\* A cache is bounded, has one entry per call, and none that it may not have.
Caches ==
    \A p \in Proxies :
        /\ Len(cache[p]) <= MaxEntries
        /\ \A i, j \in DOMAIN cache[p] : cache[p][i].key = cache[p][j].key => i = j
        /\ \A i \in DOMAIN cache[p] :
              LET decision == cache[p][i].decision
              IN  decision.outcome = "allow" => decision.grantRef \notin SingleUse
        /\ ~Up(p) => cache[p] = <<>>

\* The allow that a proxy is about to answer off a single-use grant.
Holds(p, g) ==
    pc[p] = "auditing" /\ verdict[p].outcome = "allow" /\ verdict[p].grantRef = g

\* Every allow off a single-use grant, answered or about to be, has its marker.
Spent ==
    \A g \in SingleUse :
        /\ g \notin marks => spends[g] = 0
        /\ \A p \in Proxies : Holds(p, g) =>
              /\ g \in marks /\ spends[g] = 0
              /\ \A q \in Proxies : Holds(q, g) => p = q

\* Without a race, who is past the lock is who it names.
Locked == ~raced => \A p \in Processes : Up(p) => lock = p

\* Without a race, nothing is revoked behind the back of a running proxy.
Current ==
    ~raced => \A p \in Proxies :
        /\ Deciding(p) => revoked[p] = tombs
        /\ \A i \in DOMAIN cache[p] : cache[p][i].decision.grantRef \notin tombs

IInv == Typed /\ Locals /\ Caches /\ Spent /\ Locked /\ Current

-----------------------------------------------------------------------------
(* Sequences less an element, and the entries of a cache. *)

Keyed(s) == \A i, j \in DOMAIN s : s[i].key = s[j].key => i = j

LEMMA RemoveAtProperties ==
  ASSUME NEW S, NEW s \in Seq(S), NEW k \in DOMAIN s
  PROVE  /\ Seqs!RemoveAt(s, k) \in Seq(S)
         /\ Len(Seqs!RemoveAt(s, k)) = Len(s) - 1
         /\ \A i \in DOMAIN Seqs!RemoveAt(s, k) :
              /\ i < k => i \in DOMAIN s /\ Seqs!RemoveAt(s, k)[i] = s[i]
              /\ i >= k => i + 1 \in DOMAIN s /\ Seqs!RemoveAt(s, k)[i] = s[i + 1]
  <1>. DEFINE left  == SubSeq(s, 1, k - 1)
              right == SubSeq(s, k + 1, Len(s))
  <1>1. k \in 1..Len(s) /\ Len(s) \in Nat /\ DOMAIN s = 1..Len(s)
    OBVIOUS
  <1>2. /\ left \in Seq(S) /\ Len(left) = k - 1
        /\ \A i \in 1..(k - 1) : left[i] = s[i]
    BY <1>1, SubSeqProperties
  <1>3. /\ right \in Seq(S) /\ Len(right) = Len(s) - k
        /\ \A i \in 1..(Len(s) - k) : right[i] = s[k + i]
    <2>1. \A i \in (k + 1)..Len(s) : s[i] \in S
      BY <1>1
    <2>2. right \in Seq(S) /\ Len(right) = IF k + 1 <= Len(s) THEN Len(s) - (k + 1) + 1 ELSE 0
      BY <1>1, <2>1, SubSeqProperties
    <2>3. \A i \in 1..(Len(s) - (k + 1) + 1) : right[i] = s[(k + 1) + i - 1]
      BY <1>1, <2>1, SubSeqProperties
    <2>4. Len(right) = Len(s) - k
      BY <1>1, <2>2
    <2>5. ASSUME NEW i \in 1..(Len(s) - k) PROVE right[i] = s[k + i]
      <3>1. i \in 1..(Len(s) - (k + 1) + 1) /\ (k + 1) + i - 1 = k + i
        BY <1>1
      <3>. QED  BY <2>3, <3>1
    <2>. QED  BY <2>2, <2>4, <2>5
  <1>. HIDE DEF left, right
  <1>. DEFINE w == left \o right
  <1>4. /\ w \in Seq(S) /\ Len(w) = Len(left) + Len(right)
        /\ \A i \in 1..(Len(left) + Len(right)) :
              w[i] = IF i <= Len(left) THEN left[i] ELSE right[i - Len(left)]
    BY <1>2, <1>3, ConcatProperties
  <1>5. Seqs!RemoveAt(s, k) = w
    BY DEF Seqs!RemoveAt, left, right
  <1>. HIDE DEF w
  <1>6. Len(w) = Len(s) - 1 /\ DOMAIN w = 1..(Len(s) - 1)
    BY <1>1, <1>2, <1>3, <1>4
  <1>7. ASSUME NEW i \in DOMAIN w
        PROVE  /\ i < k => i \in DOMAIN s /\ w[i] = s[i]
               /\ i >= k => i + 1 \in DOMAIN s /\ w[i] = s[i + 1]
    <2>1. i \in 1..(Len(left) + Len(right)) /\ i \in Nat
      BY <1>1, <1>2, <1>3, <1>6
    <2>2. w[i] = IF i <= Len(left) THEN left[i] ELSE right[i - Len(left)]
      BY <1>4, <2>1
    <2>3. CASE i < k
      BY <1>1, <1>2, <1>6, <2>2, <2>3
    <2>4. CASE i >= k
      <3>1. /\ i - (k - 1) \in 1..(Len(s) - k) /\ k + (i - (k - 1)) = i + 1
            /\ ~(i <= k - 1) /\ i + 1 \in DOMAIN s
        BY <1>1, <1>6, <2>1, <2>4
      <3>2. w[i] = right[i - (k - 1)]
        BY <1>2, <2>2, <3>1
      <3>3. right[i - (k - 1)] = s[k + (i - (k - 1))]
        BY <1>3, <3>1
      <3>. QED  BY <1>1, <2>1, <2>4, <3>1, <3>2, <3>3
    <2>. QED  BY <2>3, <2>4
  <1>. QED  BY <1>4, <1>5, <1>6, <1>7

\* Without removes the entry of a call and keeps the others, in their order.
LEMMA WithoutProperties ==
  ASSUME NEW s \in Seq(CacheEntries), Keyed(s), NEW q
  PROVE  /\ Without(s, q) \in Seq(CacheEntries)
         /\ Len(Without(s, q)) <= Len(s)
         /\ (\E i \in DOMAIN s : s[i].key = q) => Len(Without(s, q)) = Len(s) - 1
         /\ Keyed(Without(s, q))
         /\ \A i \in DOMAIN Without(s, q) :
              /\ Without(s, q)[i].key # q
              /\ \E j \in DOMAIN s : Without(s, q)[i] = s[j]
  <1>. DEFINE at == {i \in DOMAIN s : s[i].key = q}
              w  == Without(s, q)
  <1>1. CASE at = {}
    <2>1. w = s
      BY <1>1 DEF Without
    <2>. QED  BY <1>1, <2>1 DEF Keyed
  <1>2. CASE at # {}
    <2>. DEFINE k == CHOOSE i \in at : TRUE
    <2>1. k \in DOMAIN s /\ s[k].key = q /\ w = Seqs!RemoveAt(s, k)
      BY <1>2 DEF Without
    <2>. HIDE DEF w, k
    <2>2. /\ w \in Seq(CacheEntries) /\ Len(w) = Len(s) - 1
          /\ \A i \in DOMAIN w :
               /\ i < k => i \in DOMAIN s /\ w[i] = s[i]
               /\ i >= k => i + 1 \in DOMAIN s /\ w[i] = s[i + 1]
      BY <2>1, RemoveAtProperties
    <2>3. k \in Nat /\ DOMAIN w \subseteq Nat /\ DOMAIN s \subseteq Nat
      BY <2>1, <2>2
    <2>4. ASSUME NEW i \in DOMAIN w
          PROVE  \E j \in DOMAIN s : w[i] = s[j] /\ j # k /\ (i < k <=> j = i) /\ (i >= k <=> j = i + 1)
      BY <2>2, <2>3
    <2>5. Keyed(w)
      BY <2>3, <2>4 DEF Keyed
    <2>6. \A i \in DOMAIN w : w[i].key # q
      BY <2>1, <2>4 DEF Keyed
    <2>7. Len(s) \in Nat
      OBVIOUS
    <2>. QED  BY <2>2, <2>4, <2>5, <2>6, <2>7 DEF w
  <1>. QED  BY <1>1, <1>2

LEMMA AppendKeyed ==
  ASSUME NEW s \in Seq(CacheEntries), Keyed(s), NEW e \in CacheEntries,
         \A i \in DOMAIN s : s[i].key # e.key
  PROVE  /\ Append(s, e) \in Seq(CacheEntries)
         /\ Len(Append(s, e)) = Len(s) + 1
         /\ Keyed(Append(s, e))
         /\ \A i \in DOMAIN Append(s, e) :
              Append(s, e)[i] = e \/ \E j \in DOMAIN s : Append(s, e)[i] = s[j]
  <1>. DEFINE a == Append(s, e)
  <1>1. /\ a \in Seq(CacheEntries) /\ Len(a) = Len(s) + 1
        /\ \A i \in 1..Len(s) : a[i] = s[i]
        /\ a[Len(s) + 1] = e
    BY AppendProperties
  <1>2. DOMAIN a = 1..(Len(s) + 1) /\ DOMAIN s = 1..Len(s) /\ Len(s) \in Nat
    BY <1>1
  <1>. HIDE DEF a
  <1>3. \A i \in DOMAIN a : (i \in DOMAIN s /\ a[i] = s[i]) \/ (i = Len(s) + 1 /\ a[i] = e)
    BY <1>1, <1>2
  <1>4. Keyed(a)
    BY <1>2, <1>3 DEF Keyed
  <1>. QED  BY <1>1, <1>3, <1>4 DEF a

\* get() moves a live entry and changes none.
LEMMA TouchedProperties ==
  ASSUME Typed, Caches, NEW p \in Proxies, NEW q, NEW i \in CachedFor(p, q)
  PROVE  /\ Touched(p, q, i) \in Seq(CacheEntries)
         /\ Len(Touched(p, q, i)) <= MaxEntries
         /\ Keyed(Touched(p, q, i))
         /\ \A k \in DOMAIN Touched(p, q, i) :
              \E j \in DOMAIN cache[p] : Touched(p, q, i)[k] = cache[p][j]
  <1>. DEFINE s == cache[p]
              w == Without(s, q)
              e == s[i]
  <1>1. /\ s \in Seq(CacheEntries) /\ Keyed(s) /\ Len(s) <= MaxEntries
        /\ i \in DOMAIN s /\ e.key = q
    BY DEF Typed, Caches, Keyed, CachedFor
  <1>. HIDE DEF s
  <1>2. /\ w \in Seq(CacheEntries) /\ Len(w) = Len(s) - 1 /\ Keyed(w)
        /\ \A k \in DOMAIN w : w[k].key # q /\ \E j \in DOMAIN s : w[k] = s[j]
    BY <1>1, WithoutProperties
  <1>3. e \in CacheEntries
    BY <1>1
  <1>. HIDE DEF w, e
  <1>4. /\ Append(w, e) \in Seq(CacheEntries) /\ Len(Append(w, e)) = Len(w) + 1
        /\ Keyed(Append(w, e))
        /\ \A k \in DOMAIN Append(w, e) :
             Append(w, e)[k] = e \/ \E j \in DOMAIN w : Append(w, e)[k] = w[j]
    BY <1>1, <1>2, <1>3, AppendKeyed
  <1>5. Touched(p, q, i) = Append(w, e)
    BY DEF Touched, w, e, s
  <1>6. Len(Append(w, e)) <= MaxEntries
    <2>1. Len(s) \in Nat /\ MaxEntries \in Nat
      BY <1>1, DeciderAssumption
    <2>. QED  BY <1>1, <1>2, <1>4, <2>1
  <1>7. \A k \in DOMAIN Append(w, e) : \E j \in DOMAIN s : Append(w, e)[k] = s[j]
    BY <1>1, <1>2, <1>4 DEF e
  <1>. QED  BY <1>4, <1>5, <1>6, <1>7 DEF s

\* set() adds one entry, and evicts at most one.
LEMMA StoredProperties ==
  ASSUME Typed, Caches, NEW p \in Proxies, NEW q \in Requests, NEW decision \in Decisions,
         now + Ttl[Tier(q)] \in Nat
  PROVE  /\ Stored(p, q, decision) \in Seq(CacheEntries)
         /\ Len(Stored(p, q, decision)) <= MaxEntries
         /\ Keyed(Stored(p, q, decision))
         /\ \A k \in DOMAIN Stored(p, q, decision) :
              \/ /\ Stored(p, q, decision)[k].key = q
                 /\ Stored(p, q, decision)[k].decision = decision
                 /\ Stored(p, q, decision)[k].expires = now + Ttl[Tier(q)]
              \/ \E j \in DOMAIN cache[p] : Stored(p, q, decision)[k] = cache[p][j]
  <1>. DEFINE s == cache[p]
              w == Without(s, q)
              e == [key |-> q, decision |-> decision, expires |-> now + Ttl[Tier(q)]]
              a == Append(w, e)
  <1>1. s \in Seq(CacheEntries) /\ Keyed(s) /\ Len(s) <= MaxEntries
    BY DEF Typed, Caches, Keyed
  <1>2. e \in CacheEntries /\ e.key = q /\ e.decision = decision /\ e.expires = now + Ttl[Tier(q)]
    BY DEF CacheEntries
  <1>. HIDE DEF s, e
  <1>3. /\ w \in Seq(CacheEntries) /\ Len(w) <= Len(s) /\ Keyed(w)
        /\ \A k \in DOMAIN w : w[k].key # q /\ \E j \in DOMAIN s : w[k] = s[j]
    BY <1>1, WithoutProperties
  <1>. HIDE DEF w
  <1>4. /\ a \in Seq(CacheEntries) /\ Len(a) = Len(w) + 1 /\ Keyed(a)
        /\ \A k \in DOMAIN a : a[k] = e \/ \E j \in DOMAIN w : a[k] = w[j]
    BY <1>2, <1>3, AppendKeyed
  <1>. HIDE DEF a
  <1>5. Len(s) \in Nat /\ Len(w) \in Nat /\ Len(a) \in Nat /\ MaxEntries \in Nat /\ MaxEntries > 0
    BY <1>1, <1>3, <1>4, DeciderAssumption
  <1>6. \A k \in DOMAIN a :
          \/ a[k].key = q /\ a[k].decision = decision /\ a[k].expires = now + Ttl[Tier(q)]
          \/ \E j \in DOMAIN s : a[k] = s[j]
    BY <1>2, <1>3, <1>4
  <1>7. Stored(p, q, decision) = Evicted(a)
    BY DEF Stored, a, w, e, s
  <1>8. CASE Len(a) > MaxEntries
    <2>1. a # <<>> /\ Evicted(a) = Tail(a)
      BY <1>5, <1>8 DEF Evicted
    <2>2. /\ Tail(a) \in Seq(CacheEntries) /\ Len(Tail(a)) = Len(a) - 1
          /\ \A k \in 1..Len(Tail(a)) : Tail(a)[k] = a[k + 1]
      BY <1>4, <2>1, HeadTailProperties
    <2>3. Len(Tail(a)) <= MaxEntries
      BY <1>1, <1>3, <1>4, <1>5, <2>2
    <2>4. \A k \in DOMAIN Tail(a) : k \in Nat /\ k + 1 \in DOMAIN a /\ Tail(a)[k] = a[k + 1]
      BY <1>4, <1>5, <2>2
    <2>5. Keyed(Tail(a))
      BY <1>4, <2>4 DEF Keyed
    <2>. QED  BY <1>6, <1>7, <2>1, <2>2, <2>3, <2>4, <2>5 DEF s
  <1>9. CASE ~(Len(a) > MaxEntries)
    <2>1. Evicted(a) = a
      BY <1>9 DEF Evicted
    <2>. QED  BY <1>4, <1>5, <1>6, <1>7, <1>9, <2>1 DEF s
  <1>. QED  BY <1>8, <1>9

-----------------------------------------------------------------------------
(* The decision over the listing. *)

LEMMA EvaluatedTyped ==
  ASSUME Typed, Locals, NEW p \in Proxies, pc[p] = "deciding"
  PROVE  /\ Evaluated(p) \in Decisions
         /\ \/ Evaluated(p).grantRef = NoGrant
            \/ \E i \in DOMAIN listing[p] : Evaluated(p).grantRef = listing[p][i]
  <1>. DEFINE grants == [i \in DOMAIN listing[p] |-> AsGrant(listing[p][i])]
              d == Evaluate(PolicyOf[asked[p]], Envelope, grants, since[p])
  <1>1. /\ asked[p] \in Requests /\ since[p] \in Nat
        /\ PolicyOf[asked[p]] \in Policies /\ Envelope \in Envelopes
    BY DeciderAssumption DEF Typed, Locals, Deciding
  <1>2. listing[p] \in Seq(Grants)
    BY DEF Typed
  <1>3. \A g \in Grants : AsGrant(g) \in GrantsOf(Grants) /\ AsGrant(g).jti = g
    BY DeciderAssumption DEF AsGrant, GrantsOf
  <1>4. grants \in Seq(GrantsOf(Grants)) /\ DOMAIN grants = DOMAIN listing[p]
    BY <1>2, <1>3
  <1>5. \A i \in DOMAIN listing[p] : grants[i].jti = listing[p][i]
    BY <1>2, <1>3
  <1>. HIDE DEF grants
  <1>6. /\ d \in DecisionsOn(Grants)
        /\ d.grantRef = NoGrant \/ \E i \in DOMAIN grants : d.grantRef = grants[i].jti
    BY <1>1, <1>4, EvaluateTyped
  <1>7. DecisionsOn(Grants) \subseteq Decisions
    BY DEF DecisionsOn, Decisions
  <1>8. Evaluated(p) = d
    BY DEF Evaluated, grants
  <1>. QED  BY <1>4, <1>5, <1>6, <1>7, <1>8

-----------------------------------------------------------------------------
(* The steps. *)

LEMMA InitEstablishes == Init => IInv
  <1>. SUFFICES ASSUME Init PROVE IInv
    OBVIOUS
  <1>. USE DEF Init
  <1>1. Typed
    <2>1. <<>> \in Seq(Grants) /\ <<>> \in Seq(CacheEntries)
      OBVIOUS
    <2>2. /\ listing \in [Proxies -> Seq(Grants)] /\ cache \in [Proxies -> Seq(CacheEntries)]
          /\ verdict \in [Proxies -> Decisions \cup {Undecided}]
      BY <2>1
    <2>3. /\ pc \in [Processes -> Places]
          /\ \A c \in Clis : pc[c] \in Starting \cup {"idle"}
      BY DEF Places, Starting, Processes
    <2>4. now \in 0..Horizon
      BY DeciderAssumption
    <2>5. raced \in BOOLEAN /\ replayed \in [Proxies -> BOOLEAN]
      OBVIOUS
    <2>6. since \in [Proxies -> Nat] /\ spends \in [SingleUse -> 0..1]
      OBVIOUS
    <2>. QED  BY <2>2, <2>3, <2>4, <2>5, <2>6 DEF Typed
  <1>2. Locals
    BY DeciderAssumption DEF Locals, Deciding, Undecided, Answer, Processes
  <1>3. Caches
    BY DeciderAssumption DEF Caches
  <1>4. Spent
    BY DEF Spent, Holds, Processes
  <1>5. Locked /\ Current
    BY DEF Locked, Current, Up, Starting, Deciding, Processes
  <1>. QED  BY <1>1, <1>2, <1>3, <1>4, <1>5 DEF IInv

\* Taking the lock, or failing to, changes neither the store nor a decision.
LEMMA TakingKeeps ==
  ASSUME IInv, NEW p \in Processes,
         Acquire(p) \/ FindStale(p) \/ RemoveStale(p) \/ Refused(p)
  PROVE  IInv'
  <1>. USE DEF IInv
  <1>1. /\ UNCHANGED <<jws, tombs, marks, now, asked, since, revoked, listing, replayed,
                       verdict, addedAt, endedAt, spends, cache>>
        /\ pc[p] \in Starting
        /\ pc' = [pc EXCEPT ![p] = pc'[p]]
        /\ pc'[p] \in Starting \cup {"idle"}
        /\ lock' \in {"free", "stale"} \cup Processes
        /\ raced' \in BOOLEAN
    BY DEF Acquire, FindStale, RemoveStale, Refused, OnlyLock, store, local, Moves, Starting,
           Typed
  <1>2. ~Deciding(p) /\ pc[p] \notin {"deciding", "auditing"} /\ ~Up(p)
    BY <1>1 DEF Deciding, Up, Starting
  <1>3. pc'[p] \notin {"listing", "deciding", "auditing"}
    BY <1>1 DEF Starting
  <1>4. \A q \in Processes : q # p => pc'[q] = pc[q]
    BY <1>1 DEF Typed
  <1>5. Typed'
    <2>1. pc' \in [Processes -> Places]
      BY <1>1 DEF Typed, Places
    <2>2. \A c \in Clis : pc'[c] \in Starting \cup {"idle"}
      BY <1>1, <1>4 DEF Typed, Processes
    <2>. QED  BY <1>1, <2>1, <2>2 DEF Typed
  <1>6. Locals'
    BY <1>1, <1>2, <1>3, <1>4 DEF Locals, Deciding, Processes
  <1>7. Caches'
    BY <1>1, <1>2, <1>4 DEF Caches, Up, Processes
  <1>8. Spent'
    BY <1>1, <1>2, <1>3, <1>4 DEF Spent, Holds, Processes
  <1>9. raced' \/ ~raced
    BY DEF Acquire, FindStale, RemoveStale, Refused
  <1>10. Locked'
    <2>. SUFFICES ASSUME ~raced' PROVE \A q \in Processes : Up(q)' => lock' = q
      BY DEF Locked
    <2>1. \A q \in Processes : Up(q) => lock = q
      BY <1>9 DEF Locked
    <2>2. CASE Acquire(p)
      BY <1>4, <2>1, <2>2, DeciderAssumption DEF Acquire, Up, Processes
    <2>3. CASE RemoveStale(p)
      BY <1>4, <2>1, <2>3 DEF RemoveStale, Up, Moves, Typed, Starting
    <2>4. CASE FindStale(p) \/ Refused(p)
      BY <1>4, <2>1, <2>4 DEF FindStale, Refused, Up, Moves, Typed, Starting
    <2>. QED  BY <2>2, <2>3, <2>4
  <1>11. Current'
    BY <1>1, <1>3, <1>4, <1>9 DEF Current, Deciding, Processes
  <1>. QED  BY <1>5, <1>6, <1>7, <1>8, <1>10, <1>11

\* A process that ends, with or without its lock.
LEMMA EndingKeeps ==
  ASSUME IInv, NEW p \in Processes, Release(p) \/ Crash(p)
  PROVE  IInv'
  <1>. USE DEF IInv
  <1>1. /\ UNCHANGED <<jws, tombs, marks, now, addedAt, endedAt, spends, raced>>
        /\ pc' = [pc EXCEPT ![p] = "down"]
        /\ cache' = [q \in Proxies |-> IF q = p THEN <<>> ELSE cache[q]]
        /\ lock' \in {"free", "stale"} \cup Processes
    BY DEF Release, Crash, Gone, Moves, OnlyLock, store, Typed
  <1>2. \/ Release(p) /\ UNCHANGED local /\ pc[p] = "idle"
        \/ p \in Proxies /\ Forget(p)
        \/ p \notin Proxies /\ UNCHANGED local
    BY DEF Release, Crash, OnlyLock
  <1>3. /\ pc' \in [Processes -> Places] /\ pc'[p] = "down"
        /\ \A q \in Processes : q # p => pc'[q] = pc[q]
    BY <1>1 DEF Typed, Places, Starting
  <1>4. /\ cache' \in [Proxies -> Seq(CacheEntries)]
        /\ \A q \in Proxies : IF q = p THEN cache'[q] = <<>> ELSE cache'[q] = cache[q]
    BY <1>1 DEF Typed
  <1>5. \A q \in Proxies :
           IF q = p
             THEN /\ asked'[q] = NoRequest /\ since'[q] \in Nat /\ since'[q] <= now
                  /\ revoked'[q] \subseteq tombs /\ listing'[q] = <<>> /\ verdict'[q] = Undecided
                  /\ replayed'[q] \in BOOLEAN
             ELSE /\ asked'[q] = asked[q] /\ since'[q] = since[q] /\ revoked'[q] = revoked[q]
                  /\ listing'[q] = listing[q] /\ verdict'[q] = verdict[q]
                  /\ replayed'[q] = replayed[q]
    <2>1. CASE UNCHANGED local /\ (p \in Proxies => pc[p] = "idle")
      BY <2>1 DEF local, Typed, Locals, Deciding
    <2>2. CASE p \in Proxies /\ Forget(p)
      BY <2>2 DEF Forget, Typed, Locals
    <2>. QED  BY <1>2, <2>1, <2>2
  <1>6. /\ asked' = [q \in Proxies |-> asked'[q]] /\ since' = [q \in Proxies |-> since'[q]]
        /\ revoked' = [q \in Proxies |-> revoked'[q]] /\ listing' = [q \in Proxies |-> listing'[q]]
        /\ verdict' = [q \in Proxies |-> verdict'[q]] /\ replayed' = [q \in Proxies |-> replayed'[q]]
    BY <1>2 DEF Forget, local, Typed
  <1>7. Typed'
    <2>1. <<>> \in Seq(Grants)
      OBVIOUS
    <2>2. /\ asked' \in [Proxies -> Requests \cup {NoRequest}]
          /\ since' \in [Proxies -> Nat]
          /\ revoked' \in [Proxies -> SUBSET Grants]
          /\ listing' \in [Proxies -> Seq(Grants)]
          /\ verdict' \in [Proxies -> Decisions \cup {Undecided}]
          /\ replayed' \in [Proxies -> BOOLEAN]
      BY <1>5, <1>6, <2>1 DEF Typed
    <2>3. \A c \in Clis : pc'[c] \in Starting \cup {"idle"}
      BY <1>3 DEF Typed, Processes, Starting
    <2>. QED  BY <1>1, <1>3, <1>4, <2>2, <2>3 DEF Typed
  <1>8. Locals'
    BY <1>1, <1>3, <1>5, DeciderAssumption
       DEF Locals, Deciding, Processes, Undecided, Answer, Typed
  <1>9. Caches'
    <2>1. Len(<<>>) <= MaxEntries /\ DOMAIN <<>> = {}
      BY DeciderAssumption
    <2>2. \A q \in Proxies : q # p /\ ~Up(q)' => ~Up(q)
      BY <1>3 DEF Up, Processes
    <2>. QED  BY <1>4, <2>1, <2>2 DEF Caches
  <1>10. Spent'
    BY <1>1, <1>3, <1>5 DEF Spent, Holds, Processes
  <1>11. Locked'
    <2>. SUFFICES ASSUME ~raced, NEW q \in Processes, Up(q)' PROVE lock' = q
      BY <1>1 DEF Locked
    <2>1. q # p /\ Up(q)
      BY <1>3 DEF Up, Starting
    <2>2. lock = q
      BY <2>1 DEF Locked
    <2>3. ~Release(p)
      BY <2>1, <2>2 DEF Release, Locked, Up, Starting
    <2>. QED  BY <2>1, <2>2, <2>3 DEF Crash
  <1>12. Current'
    BY <1>1, <1>3, <1>4, <1>5 DEF Current, Deciding, Processes
  <1>. QED  BY <1>7, <1>8, <1>9, <1>10, <1>11, <1>12

\* What an answer adds to the allows answered off each single-use grant.
LEMMA RespondSpends ==
  ASSUME Typed, NEW q, NEW decision, NEW hit, NEW known, Respond(q, decision, hit, known),
         decision.outcome = "allow" => \A g \in SingleUse : decision.grantRef = g => spends[g] = 0
  PROVE  /\ spends' \in [SingleUse -> 0..1]
         /\ \A g \in SingleUse :
              spends'[g] = IF decision.outcome = "allow" /\ decision.grantRef = g THEN 1 ELSE spends[g]
  <1>1. spends' = [g \in SingleUse |->
            IF decision.outcome = "allow" /\ decision.grantRef = g THEN spends[g] + 1 ELSE spends[g]]
    BY DEF Respond
  <1>2. \A g \in SingleUse : spends[g] \in 0..1
    BY DEF Typed
  <1>. QED  BY <1>1, <1>2

LEMMA AuditedProperties ==
  ASSUME NEW decision \in Decisions, NEW written \in BOOLEAN
  PROVE  /\ Audited(decision, written) \in Decisions
         /\ \/ Audited(decision, written) = decision
            \/ /\ Audited(decision, written).outcome = "deny"
               /\ Audited(decision, written).grantRef = NoGrant
  <1>1. CASE written
    BY <1>1 DEF Audited
  <1>2. CASE ~written
    <2>1. decision.layer \in 1..4
      BY DEF Decisions
    <2>2. Audited(decision, written) = Answer("deny", "audit_unavailable", decision.layer, NoGrant)
      BY <1>2 DEF Audited
    <2>3. /\ Answer("deny", "audit_unavailable", decision.layer, NoGrant) \in Decisions
          /\ Answer("deny", "audit_unavailable", decision.layer, NoGrant).outcome = "deny"
          /\ Answer("deny", "audit_unavailable", decision.layer, NoGrant).grantRef = NoGrant
      BY <2>1 DEF Answer, Decisions, Outcomes
    <2>. QED  BY <2>2, <2>3
  <1>. QED  BY <1>1, <1>2

\* A cached decision is served.
LEMMA HitKeeps ==
  ASSUME IInv, NEW p \in Proxies, NEW q \in Requests, Hit(p, q)
  PROVE  IInv'
  <1>. USE DEF IInv
  <1>1. PICK i \in Hits(p, q), written \in BOOLEAN :
          /\ cache' = [cache EXCEPT ![p] = Touched(p, q, i)]
          /\ Respond(q, Audited(cache[p][i].decision, written), TRUE, tombs)
    BY DEF Hit
  <1>2. pc[p] = "idle" /\ UNCHANGED <<jws, tombs, marks, now, lock, pc, asked, since, revoked, listing,
                     replayed, verdict, addedAt, endedAt, raced>>
    BY DEF Hit, store, local
  <1>3. /\ i \in CachedFor(p, q) /\ i \in DOMAIN cache[p]
        /\ cache[p][i] \in CacheEntries /\ cache[p][i].decision \in Decisions
    <2>1. i \in CachedFor(p, q) /\ i \in DOMAIN cache[p] /\ cache[p] \in Seq(CacheEntries)
      BY DEF Hits, CachedFor, Typed
    <2>2. cache[p][i] \in CacheEntries
      BY <2>1
    <2>. QED  BY <2>1, <2>2 DEF CacheEntries
  <1>4. \A g \in SingleUse :
          ~(/\ Audited(cache[p][i].decision, written).outcome = "allow"
            /\ Audited(cache[p][i].decision, written).grantRef = g)
    <2>1. cache[p][i].decision.outcome = "allow" => cache[p][i].decision.grantRef \notin SingleUse
      BY <1>3 DEF Caches
    <2>. QED  BY <1>3, <2>1, AuditedProperties
  <1>5. /\ spends' \in [SingleUse -> 0..1]
        /\ \A g \in SingleUse : spends'[g] = spends[g]
    BY <1>1, <1>4, RespondSpends
  <1>6. /\ Touched(p, q, i) \in Seq(CacheEntries)
        /\ Len(Touched(p, q, i)) <= MaxEntries
        /\ Keyed(Touched(p, q, i))
        /\ \A k \in DOMAIN Touched(p, q, i) :
             \E j \in DOMAIN cache[p] : Touched(p, q, i)[k] = cache[p][j]
    BY <1>3, TouchedProperties
  <1>7. /\ cache' \in [Proxies -> Seq(CacheEntries)] /\ cache'[p] = Touched(p, q, i)
        /\ \A other \in Proxies : other # p => cache'[other] = cache[other]
    BY <1>1, <1>6 DEF Typed
  <1>8. Typed'
    BY <1>2, <1>5, <1>7 DEF Typed
  <1>9. Locals'
    BY <1>2 DEF Locals, Deciding
  <1>10. Caches'
    <2>. SUFFICES ASSUME NEW r \in Proxies
                  PROVE  /\ Len(cache'[r]) <= MaxEntries
                         /\ Keyed(cache'[r])
                         /\ \A k \in DOMAIN cache'[r] :
                              cache'[r][k].decision.outcome = "allow" =>
                                cache'[r][k].decision.grantRef \notin SingleUse
                         /\ ~Up(r)' => cache'[r] = <<>>
      BY DEF Caches, Keyed
    <2>1. CASE r = p
      BY <1>2, <1>6, <1>7, <2>1 DEF Caches, Up, Starting
    <2>2. CASE r # p
      BY <1>2, <1>7, <2>2 DEF Caches, Keyed, Up
    <2>. QED  BY <2>1, <2>2
  <1>11. Spent'
    BY <1>2, <1>5 DEF Spent, Holds
  <1>12. Locked'
    BY <1>2 DEF Locked, Up
  <1>13. Current'
    BY <1>2, <1>6, <1>7 DEF Current, Deciding
  <1>. QED  BY <1>8, <1>9, <1>10, <1>11, <1>12, <1>13

\* A miss drops what had expired and looks at the tombstones.
LEMMA MissKeeps ==
  ASSUME IInv, NEW p \in Proxies, NEW q \in Requests, Miss(p, q)
  PROVE  IInv'
  <1>. USE DEF IInv
  <1>1. /\ pc[p] = "idle"
        /\ cache' = [cache EXCEPT ![p] = IF CachedFor(p, q) = {} THEN @ ELSE Without(@, q)]
        /\ pc' = [pc EXCEPT ![p] = "listing"]
        /\ asked' = [asked EXCEPT ![p] = q]
        /\ since' = [since EXCEPT ![p] = now]
        /\ revoked' = [revoked EXCEPT ![p] = tombs]
        /\ replayed' = [replayed EXCEPT ![p] = FALSE]
        /\ UNCHANGED <<jws, tombs, marks, now, lock, listing, verdict, spends, addedAt, endedAt, raced>>
    BY DEF Miss, Silent, store
  <1>2. /\ Without(cache[p], q) \in Seq(CacheEntries) /\ Len(Without(cache[p], q)) <= Len(cache[p])
        /\ Keyed(Without(cache[p], q))
        /\ \A i \in DOMAIN Without(cache[p], q) :
             \E j \in DOMAIN cache[p] : Without(cache[p], q)[i] = cache[p][j]
    <2>1. cache[p] \in Seq(CacheEntries) /\ Keyed(cache[p])
      BY DEF Typed, Caches, Keyed
    <2>. QED  BY <2>1, WithoutProperties
  <1>3. /\ cache' \in [Proxies -> Seq(CacheEntries)]
        /\ Len(cache'[p]) <= Len(cache[p]) /\ Keyed(cache'[p])
        /\ \A i \in DOMAIN cache'[p] : \E j \in DOMAIN cache[p] : cache'[p][i] = cache[p][j]
        /\ \A r \in Proxies : r # p => cache'[r] = cache[r]
    <2>1. CASE cache'[p] = Without(cache[p], q)
      BY <1>1, <1>2, <2>1 DEF Typed
    <2>2. CASE cache' = cache
      BY <2>2 DEF Typed, Caches, Keyed
    <2>. QED  BY <1>1, <2>1, <2>2 DEF Typed
  <1>4. /\ pc' \in [Processes -> Places] /\ pc'[p] = "listing"
        /\ \A r \in Processes : r # p => pc'[r] = pc[r]
        /\ p \in Processes /\ p \notin Clis
    BY <1>1, DeciderAssumption DEF Typed, Processes, Places
  <1>5. Typed'
    <2>1. now \in Nat
      BY DeciderAssumption DEF Typed
    <2>2. /\ asked' \in [Proxies -> Requests \cup {NoRequest}] /\ since' \in [Proxies -> Nat]
          /\ revoked' \in [Proxies -> SUBSET Grants]
      BY <1>1, <2>1 DEF Typed
    <2>3. replayed' \in [Proxies -> BOOLEAN]
      BY <1>1 DEF Typed
    <2>4. \A c \in Clis : pc'[c] \in Starting \cup {"idle"}
      BY <1>4 DEF Typed, Processes
    <2>. QED  BY <1>1, <1>3, <1>4, <2>2, <2>3, <2>4 DEF Typed
  <1>6. /\ asked'[p] = q /\ since'[p] = now /\ revoked'[p] = tombs
        /\ \A r \in Proxies : r # p =>
             asked'[r] = asked[r] /\ since'[r] = since[r] /\ revoked'[r] = revoked[r]
    BY <1>1 DEF Typed
  <1>7. Locals'
    <2>1. /\ listing[p] = <<>> /\ DOMAIN listing[p] = {}
          /\ verdict[p] = Undecided /\ verdict[p].grantRef \notin Grants
      <3>1. listing[p] = <<>> /\ verdict[p] = Undecided
        BY <1>1 DEF Locals
      <3>2. Undecided.grantRef = NoGrant
        BY DEF Undecided, Answer
      <3>. QED  BY <3>1, <3>2, DeciderAssumption
    <2>2. now <= now /\ tombs \subseteq Grants
      BY DeciderAssumption DEF Typed
    <2>. QED  BY <1>1, <1>4, <1>6, <2>1, <2>2 DEF Locals, Deciding, Processes
  <1>8. Caches'
    <2>1. Len(cache'[p]) <= MaxEntries
      <3>1. Len(cache'[p]) \in Nat /\ Len(cache[p]) \in Nat /\ Len(cache[p]) <= MaxEntries /\ MaxEntries \in Nat
        BY <1>3, DeciderAssumption DEF Typed, Caches
      <3>. QED  BY <1>3, <3>1
    <2>2. Up(p)'
      BY <1>4 DEF Up, Starting
    <2>3. \A r \in Proxies : r # p /\ ~Up(r)' => ~Up(r)
      BY <1>4 DEF Up, Processes
    <2>. QED  BY <1>3, <2>1, <2>2, <2>3 DEF Caches, Keyed
  <1>9. Spent'
    BY <1>1, <1>4 DEF Spent, Holds, Processes
  <1>10. Locked'
    BY <1>1, <1>4 DEF Locked, Up, Starting, Processes
  <1>11. Current'
    BY <1>1, <1>3, <1>4, <1>6 DEF Current, Deciding, Processes
  <1>. QED  BY <1>5, <1>7, <1>8, <1>9, <1>10, <1>11

\* What the steps between the two looks and the answer leave to be shown.
LEMMA ThinkingKeeps ==
  ASSUME IInv, NEW p \in Proxies, pc[p] \in {"listing", "deciding"},
         UNCHANGED <<jws, tombs, now, lock, cache, asked, since, revoked, spends, raced>>,
         NEW place \in {"deciding", "auditing"}, pc' = [pc EXCEPT ![p] = place],
         NEW grants \in Seq(Grants), listing' = [listing EXCEPT ![p] = grants],
         \A i \in DOMAIN grants : grants[i] \notin revoked[p],
         NEW again \in BOOLEAN, replayed' = [replayed EXCEPT ![p] = again],
         NEW decision \in Decisions \cup {Undecided}, verdict' = [verdict EXCEPT ![p] = decision],
         decision \in IF place = "auditing" THEN Decisions ELSE {Undecided},
         decision.grantRef \notin revoked[p],
         marks' \subseteq SingleUse, marks \subseteq marks',
         \A g \in SingleUse : place = "auditing" /\ decision.outcome = "allow" /\ decision.grantRef = g
           => g \in marks' \ marks
  PROVE  IInv'
  <1>. USE DEF IInv
  <1>1. /\ pc' \in [Processes -> Places] /\ pc'[p] = place
        /\ \A r \in Processes : r # p => pc'[r] = pc[r]
        /\ p \in Processes /\ p \notin Clis
    BY DeciderAssumption DEF Typed, Processes, Places
  <1>2. /\ listing'[p] = grants /\ verdict'[p] = decision
        /\ \A r \in Proxies : r # p => listing'[r] = listing[r] /\ verdict'[r] = verdict[r]
    BY DEF Typed
  <1>3. Typed'
    <2>1. \A c \in Clis : pc'[c] \in Starting \cup {"idle"}
      BY <1>1 DEF Typed, Processes
    <2>2. listing' \in [Proxies -> Seq(Grants)] /\ verdict' \in [Proxies -> Decisions \cup {Undecided}]
      BY DEF Typed
    <2>3. replayed' \in [Proxies -> BOOLEAN]
      BY DEF Typed
    <2>. QED  BY <1>1, <2>1, <2>2, <2>3 DEF Typed
  <1>4. Locals'
    BY <1>1, <1>2 DEF Locals, Deciding, Processes
  <1>5. Caches'
    <2>1. Up(p) /\ \A r \in Proxies : ~Up(r)' => ~Up(r)
      BY <1>1 DEF Up, Starting, Processes
    <2>. QED  BY <2>1 DEF Caches
  <1>6. ASSUME NEW g \in SingleUse, NEW r \in Proxies, Holds(r, g)'
        PROVE  IF r = p THEN g \in marks' \ marks ELSE Holds(r, g)
    BY <1>1, <1>2, <1>6 DEF Holds, Processes
  <1>7. Spent'
    <2>1. \A g \in SingleUse : g \notin marks' => spends[g] = 0
      BY DEF Spent
    <2>2. ASSUME NEW g \in SingleUse, NEW r \in Proxies, Holds(r, g)'
          PROVE  g \in marks' /\ spends[g] = 0
      BY <1>6, <2>2 DEF Spent
    <2>3. ASSUME NEW g \in SingleUse, NEW r \in Proxies, Holds(r, g)',
                 NEW other \in Proxies, Holds(other, g)'
          PROVE  r = other
      BY <1>6, <2>3 DEF Spent
    <2>. QED  BY <2>1, <2>2, <2>3 DEF Spent
  <1>8. Locked'
    BY <1>1 DEF Locked, Up, Starting, Processes
  <1>9. Current'
    BY <1>1 DEF Current, Deciding, Processes
  <1>. QED  BY <1>3, <1>4, <1>5, <1>7, <1>8, <1>9

\* The grant files are read less those whose tombstone was seen.
LEMMA ReadGrantsKeeps ==
  ASSUME IInv, NEW p \in Proxies, ReadGrants(p)
  PROVE  IInv'
  <1>1. PICK order \in Orders(ListedGrants(p)) : listing' = [listing EXCEPT ![p] = order]
    BY DEF ReadGrants
  <1>2. ListedGrants(p) \subseteq Grants \ revoked[p] /\ Cardinality(ListedGrants(p)) \in Nat
    <2>1. ListedGrants(p) \subseteq Grants \ revoked[p]
      BY DEF ListedGrants, IInv, Typed
    <2>2. IsFiniteSet(ListedGrants(p))
      BY <2>1, DeciderAssumption, FS_Subset
    <2>. QED  BY <2>1, <2>2, FS_CardinalityType
  <1>3. order \in Seq(Grants) /\ \A i \in DOMAIN order : order[i] \notin revoked[p]
    <2>1. order \in [1..Cardinality(ListedGrants(p)) -> ListedGrants(p)]
      BY DEF Orders
    <2>. QED  BY <1>2, <2>1
  <1>4. /\ pc[p] = "listing" /\ pc' = [pc EXCEPT ![p] = "deciding"]
        /\ UNCHANGED <<jws, tombs, marks, now, lock, cache, asked, since, revoked, replayed, verdict,
                       spends, raced>>
    BY DEF ReadGrants, Silent, store
  <1>5. /\ verdict[p] = Undecided /\ verdict[p].grantRef \notin revoked[p]
        /\ replayed[p] \in BOOLEAN
        /\ replayed' = [replayed EXCEPT ![p] = replayed[p]]
        /\ verdict' = [verdict EXCEPT ![p] = Undecided]
        /\ marks \subseteq SingleUse
    BY <1>4 DEF IInv, Typed, Locals
  <1>. QED  BY <1>1, <1>3, <1>4, <1>5, ThinkingKeeps

\* The decision is on what was listed, and so on nothing that was revoked.
LEMMA EvaluatedUnrevoked ==
  ASSUME IInv, NEW p \in Proxies, pc[p] = "deciding"
  PROVE  Evaluated(p) \in Decisions /\ Evaluated(p).grantRef \notin revoked[p]
  <1>1. Evaluated(p) \in Decisions
    BY EvaluatedTyped DEF IInv
  <1>2. CASE Evaluated(p).grantRef = NoGrant
    BY <1>1, <1>2, DeciderAssumption DEF IInv, Typed
  <1>3. CASE \E i \in DOMAIN listing[p] : Evaluated(p).grantRef = listing[p][i]
    BY <1>1, <1>3 DEF IInv, Locals
  <1>. QED  BY <1>1, <1>2, <1>3, EvaluatedTyped DEF IInv

LEMMA StandKeeps ==
  ASSUME IInv, NEW p \in Proxies, Stand(p)
  PROVE  IInv'
  <1>. DEFINE decision == IF replayed[p] /\ Evaluated(p).outcome # "allow"
                            THEN Replay(Evaluated(p)) ELSE Evaluated(p)
  <1>1. /\ pc[p] = "deciding" /\ pc' = [pc EXCEPT ![p] = "auditing"]
        /\ Evaluated(p).grantRef \notin SingleUse
        /\ verdict' = [verdict EXCEPT ![p] = decision]
        /\ UNCHANGED <<jws, tombs, marks, now, lock, cache, asked, since, revoked, listing, replayed,
                       spends, raced>>
    BY DEF Stand, Silent, store
  <1>2. Replay(Evaluated(p)) \in Decisions /\ Replay(Evaluated(p)).grantRef = NoGrant
    BY DEF Replay, Answer, Decisions, Outcomes
  <1>3. revoked[p] \subseteq Grants /\ NoGrant \notin Grants /\ SingleUse \subseteq Grants
    BY DeciderAssumption DEF IInv, Typed
  <1>4. /\ decision \in Decisions /\ decision.grantRef \notin revoked[p]
        /\ decision.grantRef \notin SingleUse
    BY <1>1, <1>2, <1>3, EvaluatedUnrevoked
  <1>5. /\ listing[p] \in Seq(Grants) /\ \A i \in DOMAIN listing[p] : listing[p][i] \notin revoked[p]
        /\ listing' = [listing EXCEPT ![p] = listing[p]]
        /\ marks \subseteq SingleUse
    BY <1>1 DEF IInv, Typed, Locals
  <1>6. replayed[p] \in BOOLEAN /\ replayed' = [replayed EXCEPT ![p] = replayed[p]]
    BY <1>1 DEF IInv, Typed
  <1>. HIDE DEF decision
  <1>. QED  BY <1>1, <1>4, <1>5, <1>6, ThinkingKeeps

LEMMA ConsumeKeeps ==
  ASSUME IInv, NEW p \in Proxies, Consume(p)
  PROVE  IInv'
  <1>. DEFINE decision == Evaluated(p)
  <1>1. /\ pc[p] = "deciding" /\ pc' = [pc EXCEPT ![p] = "auditing"]
        /\ decision.grantRef \in SingleUse /\ decision.grantRef \notin marks
        /\ marks' = marks \cup {decision.grantRef}
        /\ verdict' = [verdict EXCEPT ![p] = decision]
        /\ UNCHANGED <<jws, tombs, now, lock, cache, asked, since, revoked, listing, replayed,
                       spends, raced>>
    BY DEF Consume, Consumes, Silent
  <1>2. decision \in Decisions /\ decision.grantRef \notin revoked[p]
    BY <1>1, EvaluatedUnrevoked
  <1>3. /\ listing[p] \in Seq(Grants) /\ \A i \in DOMAIN listing[p] : listing[p][i] \notin revoked[p]
        /\ listing' = [listing EXCEPT ![p] = listing[p]]
        /\ marks' \subseteq SingleUse
    BY <1>1 DEF IInv, Typed, Locals
  <1>4. replayed[p] \in BOOLEAN /\ replayed' = [replayed EXCEPT ![p] = replayed[p]]
    BY <1>1 DEF IInv, Typed
  <1>5. marks \subseteq marks' /\ decision.grantRef \in marks' \ marks
    BY <1>1
  <1>6. pc[p] \in {"listing", "deciding"}
    BY <1>1
  <1>. HIDE DEF decision
  <1>. QED  BY <1>1, <1>2, <1>3, <1>4, <1>5, <1>6, ThinkingKeeps

LEMMA LoseRaceKeeps ==
  ASSUME IInv, NEW p \in Proxies, LoseRace(p)
  PROVE  IInv'
  <1>. DEFINE spent == Evaluated(p).grantRef
              k     == CHOOSE i \in DOMAIN listing[p] : listing[p][i] = spent
              rest  == Seqs!RemoveAt(listing[p], k)
  <1>1. /\ pc[p] = "deciding" /\ spent \in SingleUse
        /\ listing' = [listing EXCEPT ![p] = rest]
        /\ replayed' = [replayed EXCEPT ![p] = TRUE]
        /\ UNCHANGED <<jws, tombs, marks, now, lock, cache, pc, asked, since, revoked, verdict,
                       spends, raced>>
    BY DEF LoseRace, Silent, store, IInv, Typed
  <1>2. listing[p] \in Seq(Grants) /\ \A i \in DOMAIN listing[p] : listing[p][i] \notin revoked[p]
    BY DEF IInv, Typed, Locals
  <1>3. k \in DOMAIN listing[p]
    BY <1>1, EvaluatedTyped, DeciderAssumption DEF IInv
  <1>. HIDE DEF k
  <1>4. /\ rest \in Seq(Grants)
        /\ \A i \in DOMAIN rest : \E j \in DOMAIN listing[p] : rest[i] = listing[p][j]
    <2>1. /\ rest \in Seq(Grants)
          /\ \A i \in DOMAIN rest :
               /\ i < k => i \in DOMAIN listing[p] /\ rest[i] = listing[p][i]
               /\ i >= k => i + 1 \in DOMAIN listing[p] /\ rest[i] = listing[p][i + 1]
      BY <1>2, <1>3, RemoveAtProperties
    <2>2. k \in Nat /\ DOMAIN rest \subseteq Nat
      BY <1>2, <1>3, <2>1
    <2>. QED  BY <2>1, <2>2
  <1>. HIDE DEF rest
  <1>5. /\ pc' = [pc EXCEPT ![p] = "deciding"]
        /\ verdict[p] = Undecided /\ verdict[p].grantRef \notin revoked[p]
        /\ verdict' = [verdict EXCEPT ![p] = Undecided]
        /\ marks \subseteq SingleUse
    BY <1>1 DEF IInv, Typed, Locals
  <1>6. \A i \in DOMAIN rest : rest[i] \notin revoked[p]
    BY <1>2, <1>4
  <1>. QED  BY <1>1, <1>4, <1>5, <1>6, ThinkingKeeps

\* The decision is answered: an allow off a single-use grant is the only one.
LEMMA ConcludeKeeps ==
  ASSUME IInv, NEW p \in Proxies, Conclude(p)
  PROVE  IInv'
  <1>. USE DEF IInv
  <1>1. PICK written \in BOOLEAN :
          /\ cache' = [cache EXCEPT ![p] =
               IF Cacheable(Audited(verdict[p], written), asked[p])
               THEN Stored(p, asked[p], Audited(verdict[p], written)) ELSE @]
          /\ Respond(asked[p], Audited(verdict[p], written), FALSE, revoked[p])
    BY DEF Conclude
  <1>. DEFINE decision == Audited(verdict[p], written)
  <1>2. /\ pc[p] = "auditing" /\ pc' = [pc EXCEPT ![p] = "idle"]
        /\ asked' = [asked EXCEPT ![p] = NoRequest] /\ since' = [since EXCEPT ![p] = 0]
        /\ revoked' = [revoked EXCEPT ![p] = {}] /\ listing' = [listing EXCEPT ![p] = <<>>]
        /\ replayed' = [replayed EXCEPT ![p] = FALSE]
        /\ verdict' = [verdict EXCEPT ![p] = Undecided]
        /\ UNCHANGED <<jws, tombs, marks, now, lock, addedAt, endedAt, raced>>
    BY DEF Conclude, Forget, store
  <1>3. /\ verdict[p] \in Decisions /\ asked[p] \in Requests /\ verdict[p].grantRef \notin revoked[p]
    BY <1>2 DEF Locals, Deciding
  <1>4. /\ decision \in Decisions
        /\ decision = verdict[p] \/ (decision.outcome = "deny" /\ decision.grantRef = NoGrant)
    BY <1>3, AuditedProperties
  <1>. HIDE DEF decision
  <1>5. ASSUME NEW g \in SingleUse, decision.outcome = "allow", decision.grantRef = g
        PROVE  Holds(p, g) /\ spends[g] = 0 /\ g \in marks
    BY <1>2, <1>4, <1>5 DEF Holds, Spent
  <1>6. /\ spends' \in [SingleUse -> 0..1]
        /\ \A g \in SingleUse :
             spends'[g] = IF decision.outcome = "allow" /\ decision.grantRef = g THEN 1 ELSE spends[g]
    <2>1. Respond(asked[p], decision, FALSE, revoked[p])
      BY <1>1 DEF decision
    <2>2. decision.outcome = "allow" => \A g \in SingleUse : decision.grantRef = g => spends[g] = 0
      BY <1>5
    <2>. QED  BY <2>1, <2>2, RespondSpends
  <1>7. /\ cache' \in [Proxies -> Seq(CacheEntries)]
        /\ Len(cache'[p]) <= MaxEntries /\ Keyed(cache'[p])
        /\ \A k \in DOMAIN cache'[p] :
             \/ /\ cache'[p][k].decision = decision
                /\ decision.outcome = "allow" => decision.grantRef \notin SingleUse
             \/ \E j \in DOMAIN cache[p] : cache'[p][k] = cache[p][j]
        /\ \A r \in Proxies : r # p => cache'[r] = cache[r]
    <2>. DEFINE stored == Stored(p, asked[p], decision)
    <2>1. CASE Cacheable(decision, asked[p])
      <3>1. Tier(asked[p]) # "critical" /\ (decision.outcome = "allow" => decision.grantRef \notin SingleUse)
        BY <2>1 DEF Cacheable
      <3>2. now + Ttl[Tier(asked[p])] \in Nat
        <4>1. PolicyOf[asked[p]] \in Policies /\ Envelope \in Envelopes
          BY <1>3, DeciderAssumption
        <4>2. Tier(asked[p]) \in Tiers
          BY <4>1, TierTyped DEF Tier
        <4>3. Tier(asked[p]) \in {"routine", "sensitive"}
          BY <3>1, <4>2 DEF Tiers
        <4>4. Ttl[Tier(asked[p])] \in Nat /\ now \in Nat
          BY <4>3, DeciderAssumption DEF Typed
        <4>. QED  BY <4>4
      <3>3. /\ stored \in Seq(CacheEntries) /\ Len(stored) <= MaxEntries /\ Keyed(stored)
            /\ \A k \in DOMAIN stored :
                 stored[k].decision = decision \/ \E j \in DOMAIN cache[p] : stored[k] = cache[p][j]
        BY <1>3, <1>4, <3>2, StoredProperties
      <3>4. cache' = [cache EXCEPT ![p] = stored]
        BY <1>1, <2>1 DEF decision
      <3>. HIDE DEF stored
      <3>5. cache'[p] = stored
        BY <3>4 DEF Typed
      <3>. QED  BY <3>1, <3>3, <3>4, <3>5 DEF Typed
    <2>2. CASE ~Cacheable(decision, asked[p])
      <3>1. cache' = cache
        BY <1>1, <2>2 DEF decision, Typed
      <3>. QED  BY <3>1 DEF Typed, Caches, Keyed
    <2>. QED  BY <2>1, <2>2
  <1>8. /\ pc' \in [Processes -> Places] /\ pc'[p] = "idle"
        /\ \A r \in Processes : r # p => pc'[r] = pc[r]
        /\ p \in Processes /\ p \notin Clis
    BY <1>2, DeciderAssumption DEF Typed, Processes, Places
  <1>9. /\ asked'[p] = NoRequest /\ since'[p] = 0 /\ revoked'[p] = {} /\ listing'[p] = <<>>
        /\ verdict'[p] = Undecided
        /\ \A r \in Proxies : r # p =>
             /\ asked'[r] = asked[r] /\ since'[r] = since[r] /\ revoked'[r] = revoked[r]
             /\ listing'[r] = listing[r] /\ verdict'[r] = verdict[r]
    BY <1>2 DEF Typed
  <1>10. Typed'
    <2>1. \A c \in Clis : pc'[c] \in Starting \cup {"idle"}
      BY <1>8 DEF Typed, Processes
    <2>2. <<>> \in Seq(Grants)
      OBVIOUS
    <2>3. /\ listing' \in [Proxies -> Seq(Grants)] /\ verdict' \in [Proxies -> Decisions \cup {Undecided}]
          /\ asked' \in [Proxies -> Requests \cup {NoRequest}] /\ since' \in [Proxies -> Nat]
          /\ revoked' \in [Proxies -> SUBSET Grants]
      BY <1>2, <2>2 DEF Typed
    <2>4. replayed' \in [Proxies -> BOOLEAN]
      BY <1>2 DEF Typed
    <2>. QED  BY <1>2, <1>6, <1>7, <1>8, <2>1, <2>3, <2>4 DEF Typed
  <1>11. Locals'
    <2>1. 0 <= now /\ DOMAIN <<>> = {} /\ Undecided.grantRef \notin {}
      BY DeciderAssumption DEF Typed
    <2>. QED  BY <1>2, <1>8, <1>9, <2>1 DEF Locals, Deciding, Processes
  <1>12. Caches'
    <2>1. Up(p)' /\ \A r \in Proxies : r # p /\ ~Up(r)' => ~Up(r)
      BY <1>8 DEF Up, Starting, Processes
    <2>. QED  BY <1>7, <2>1 DEF Caches, Keyed
  <1>13. Spent'
    <2>1. ASSUME NEW g \in SingleUse, NEW r \in Proxies, Holds(r, g)'
          PROVE  r # p /\ Holds(r, g)
      BY <1>8, <1>9, <2>1 DEF Holds, Processes
    <2>2. ASSUME NEW g \in SingleUse, g \notin marks PROVE spends'[g] = 0
      BY <1>5, <1>6, <2>2 DEF Spent
    <2>3. ASSUME NEW g \in SingleUse, NEW r \in Proxies, Holds(r, g)'
          PROVE  g \in marks /\ spends'[g] = 0
      <3>1. r # p /\ Holds(r, g) /\ g \in marks /\ spends[g] = 0
        BY <2>1, <2>3 DEF Spent
      <3>2. ~Holds(p, g)
        BY <3>1 DEF Spent
      <3>. QED  BY <1>5, <1>6, <3>1, <3>2
    <2>. QED  BY <1>2, <2>1, <2>2, <2>3 DEF Spent
  <1>14. Locked'
    BY <1>2, <1>8 DEF Locked, Up, Starting, Processes
  <1>15. Current'
    <2>. SUFFICES ASSUME ~raced, NEW r \in Proxies
                  PROVE  /\ Deciding(r)' => revoked'[r] = tombs
                         /\ \A k \in DOMAIN cache'[r] : cache'[r][k].decision.grantRef \notin tombs
      BY <1>2 DEF Current
    <2>1. CASE r # p
      BY <1>7, <1>8, <1>9, <2>1 DEF Current, Deciding, Processes
    <2>2. CASE r = p
      <3>1. revoked[p] = tombs /\ NoGrant \notin tombs
        BY <1>2, DeciderAssumption DEF Current, Deciding, Typed
      <3>2. decision.grantRef \notin tombs
        BY <1>3, <1>4, <3>1
      <3>3. \A j \in DOMAIN cache[p] : cache[p][j].decision.grantRef \notin tombs
        BY DEF Current
      <3>4. ~Deciding(p)'
        BY <1>8 DEF Deciding
      <3>. QED  BY <1>7, <2>2, <3>2, <3>3, <3>4
    <2>. QED  BY <2>1, <2>2
  <1>. QED  BY <1>10, <1>11, <1>12, <1>13, <1>14, <1>15

\* The writers of the directory: what they do to the decisions under way.
LEMMA MintKeeps ==
  ASSUME IInv, NEW g \in Grants, Mint(g)
  PROVE  IInv'
  <1>. USE DEF IInv
  <1>1. /\ jws' \subseteq Grants
        /\ UNCHANGED <<tombs, marks, now, lock, cache, pc, asked, since, revoked, listing, replayed,
                       verdict, spends, raced>>
    BY DEF Mint, local, Typed
  <1>2. Typed' /\ Locals' /\ Caches'
    BY <1>1 DEF Typed, Locals, Caches, Deciding, Up
  <1>3. Spent' /\ Locked' /\ Current'
    BY <1>1 DEF Spent, Holds, Locked, Current, Deciding, Up
  <1>. QED  BY <1>2, <1>3

\* A revocation, by a process that is past the lock and forgets what it cached.
LEMMA EntombKeeps ==
  ASSUME IInv, NEW p \in Processes, pc[p] = "idle", NEW g \in Grants, Entomb(g),
         \/ p \in Clis /\ UNCHANGED cache
         \/ p \in Proxies /\ cache' = [cache EXCEPT ![p] = <<>>]
  PROVE  IInv'
  <1>. USE DEF IInv
  <1>1. /\ g \in Grants /\ tombs' = tombs \cup {g}
        /\ UNCHANGED <<jws, marks, now, lock, pc, asked, since, revoked, listing, replayed, verdict,
                       spends, raced>>
    BY DEF Entomb, local
  <1>2. /\ cache' \in [Proxies -> Seq(CacheEntries)]
        /\ \A r \in Proxies : cache'[r] = cache[r] \/ (r = p /\ cache'[r] = <<>>)
        /\ p \in Proxies => cache'[p] = <<>>
    <2>1. <<>> \in Seq(CacheEntries)
      OBVIOUS
    <2>. QED  BY <2>1, DeciderAssumption DEF Typed
  <1>3. Len(<<>>) <= MaxEntries /\ DOMAIN <<>> = {}
    BY DeciderAssumption
  <1>4. Typed'
    BY <1>1, <1>2 DEF Typed
  <1>5. Locals'
    BY <1>1 DEF Locals, Deciding
  <1>6. Caches'
    BY <1>1, <1>2, <1>3 DEF Caches, Up
  <1>7. Spent' /\ Locked'
    BY <1>1 DEF Spent, Holds, Locked, Up
  <1>8. Current'
    <2>. SUFFICES ASSUME ~raced, NEW r \in Proxies
                  PROVE  /\ Deciding(r)' => revoked'[r] = tombs'
                         /\ \A k \in DOMAIN cache'[r] : cache'[r][k].decision.grantRef \notin tombs'
      BY <1>1 DEF Current
    <2>1. Up(p) /\ lock = p
      BY DEF Up, Starting, Locked
    <2>2. CASE r = p
      BY <1>1, <1>2, <1>3, <2>2 DEF Deciding
    <2>3. CASE r # p
      <3>1. ~Up(r)
        BY <2>1, <2>3 DEF Locked, Processes
      <3>2. cache'[r] = <<>> /\ ~Deciding(r)'
        BY <1>1, <1>2, <3>1 DEF Caches, Deciding, Up, Starting
      <3>. QED  BY <1>3, <3>2
    <2>. QED  BY <2>2, <2>3
  <1>. QED  BY <1>4, <1>5, <1>6, <1>7, <1>8

LEMMA OutsideKeeps ==
  ASSUME IInv, Tick \/ (\E g \in Grants : Unlink(g)) \/ UNCHANGED vars
  PROVE  IInv'
  <1>. USE DEF IInv
  <1>1. /\ jws' \subseteq Grants /\ now' \in 0..Horizon /\ now' >= now
        /\ UNCHANGED <<tombs, marks, lock, cache, pc, asked, since, revoked, listing, replayed,
                       verdict, spends, raced>>
    <2>1. CASE Tick
      BY <2>1, DeciderAssumption DEF Tick, store, local, history, Typed
    <2>2. CASE \E g \in Grants : Unlink(g)
      BY <2>2, DeciderAssumption DEF Unlink, local, Typed
    <2>3. CASE UNCHANGED vars
      BY <2>3, DeciderAssumption DEF vars, store, local, history, Typed
    <2>. QED  BY <2>1, <2>2, <2>3
  <1>2. Typed' /\ Caches'
    BY <1>1 DEF Typed, Caches, Up
  <1>3. Locals'
    <2>1. \A p \in Proxies : since[p] <= now'
      <3>1. now \in Int /\ now' \in Int
        BY <1>1, DeciderAssumption DEF Typed
      <3>. QED  BY <1>1, <3>1 DEF Typed, Locals
    <2>. QED  BY <1>1, <2>1 DEF Locals, Deciding
  <1>4. Spent' /\ Locked' /\ Current'
    BY <1>1 DEF Spent, Holds, Locked, Current, Deciding, Up
  <1>. QED  BY <1>2, <1>3, <1>4

-----------------------------------------------------------------------------
(* The theorems. *)

LEMMA NextKeeps ==
  ASSUME IInv, [Next]_vars
  PROVE  IInv'
  <1>1. ASSUME NEW p \in Proxies, Proxy(p) PROVE IInv'
    <2>1. CASE \E q \in Requests : Hit(p, q) \/ Miss(p, q)
      BY <2>1, HitKeeps, MissKeeps
    <2>2. CASE ReadGrants(p) \/ Stand(p) \/ Consume(p) \/ LoseRace(p) \/ Conclude(p)
      BY <2>2, ReadGrantsKeeps, StandKeeps, ConsumeKeeps, LoseRaceKeeps, ConcludeKeeps
    <2>3. ASSUME NEW g \in Grants, MintOnApproval(p, g) PROVE IInv'
      BY <2>3, MintKeeps DEF MintOnApproval
    <2>4. ASSUME NEW g \in Grants, RevokeInProxy(p, g) PROVE IInv'
      BY <2>4, EntombKeeps DEF RevokeInProxy, BumpGrantSetVersion, Processes
    <2>. QED  BY <1>1, <2>1, <2>2, <2>3, <2>4 DEF Proxy
  <1>2. ASSUME NEW c \in Clis, NEW g \in Grants, MintByCli(c, g) \/ RevokeByCli(c, g) PROVE IInv'
    BY <1>2, MintKeeps, EntombKeeps DEF MintByCli, RevokeByCli, Processes
  <1>3. ASSUME NEW p \in Processes, Lock(p) PROVE IInv'
    BY <1>3, TakingKeeps, EndingKeeps DEF Lock
  <1>4. CASE Tick \/ (\E g \in Grants : Unlink(g)) \/ UNCHANGED vars
    BY <1>4, OutsideKeeps
  <1>. QED  BY <1>1, <1>2, <1>3, <1>4 DEF Next, Cli

\* The invariant of the governed decision: what each process holds, what the
\* caches remember and what the directory says agree (decider.ts,
\* lifecycle.ts, decision-cache.ts, audit-log.ts).
THEOREM Invariance == Spec => []IInv
  <1>1. Init => IInv
    BY InitEstablishes
  <1>2. IInv /\ [Next]_vars => IInv'
    BY NextKeeps
  <1>. QED  BY <1>1, <1>2, PTL DEF Spec

\* Types; and a cache never holds two entries for one call, nor more entries
\* than it is bounded by.
THEOREM TypeCorrect == Spec => []TypeOK
  <1>1. IInv => TypeOK
    <2>. SUFFICES ASSUME IInv, NEW p \in Proxies
                  PROVE  /\ jws \subseteq Grants /\ tombs \subseteq Grants /\ marks \subseteq SingleUse
                         /\ now \in 0..Horizon
                         /\ lock \in {"free", "stale"} \cup Processes
                         /\ \A c \in Clis : pc[c] \in Starting \cup {"idle"}
                         /\ pc[p] \in Starting \cup {"idle", "listing", "deciding", "auditing"}
                         /\ asked[p] \in IF Deciding(p) THEN Requests ELSE {NoRequest}
                         /\ since[p] \in 0..now
                         /\ revoked[p] \subseteq tombs
                         /\ listing[p] \in Seq(Grants)
                         /\ verdict[p] \in IF pc[p] = "auditing" THEN Decisions ELSE {Undecided}
                         /\ Len(cache[p]) <= MaxEntries
                         /\ \A i, j \in DOMAIN cache[p] :
                               /\ cache[p][i].decision \in Decisions
                               /\ cache[p][i].key = cache[p][j].key => i = j
      BY DEF TypeOK, IInv, Typed
    <2>1. pc[p] \in Starting \cup {"idle", "listing", "deciding", "auditing"}
      BY DEF IInv, Typed, Places, Processes
    <2>2. since[p] \in 0..now
      BY DeciderAssumption DEF IInv, Typed, Locals
    <2>3. \A i \in DOMAIN cache[p] : cache[p][i].decision \in Decisions
      <3>1. \A i \in DOMAIN cache[p] : cache[p][i] \in CacheEntries
        BY DEF IInv, Typed
      <3>. QED  BY <3>1 DEF CacheEntries
    <2>. QED  BY <2>1, <2>2, <2>3 DEF IInv, Typed, Locals, Caches
  <1>. QED  BY <1>1, Invariance, PTL

\* One approval, one call: however many proxies look at a single-use grant,
\* crash over it and cache decisions, at most one allow is answered off it.
THEOREM OneAllowPerApproval == Spec => []SingleUseAllowsOnce
  <1>1. IInv => SingleUseAllowsOnce
    <2>. SUFFICES ASSUME IInv, NEW g \in SingleUse PROVE spends[g] <= 1
      BY DEF SingleUseAllowsOnce
    <2>1. spends[g] \in 0..1
      BY DEF IInv, Typed
    <2>. QED  BY <2>1
  <1>. QED  BY <1>1, Invariance, PTL

\* The writer lock of the audit log excludes, however many processes take it,
\* leave it and die with it, unless two takeovers of a stale lock have raced.
THEOREM OneWriter == Spec => []OneWriterUnlessRaced
  <1>1. IInv => OneWriterUnlessRaced
    BY DEF IInv, Locked, OneWriterUnlessRaced
  <1>. QED  BY <1>1, Invariance, PTL

\* What a client is told: a decision, as audited, and what was asked.
Tells(d, q, hit, known) ==
    /\ answer'.outcome = d.outcome /\ answer'.reason = d.reason /\ answer'.grantRef = d.grantRef
    /\ answer'.request = q /\ answer'.hit = hit /\ answer'.known = known
    /\ UNCHANGED <<store, now, addedAt, endedAt, raced>>

\* An answer comes out of a cache or out of a decision on what was listed.
LEMMA AnswersRest ==
  ASSUME IInv, Next, answer'.outcome \in Outcomes
  PROVE  \/ \E p \in Proxies, q \in Requests : \E i \in Hits(p, q), written \in BOOLEAN :
              pc[p] = "idle" /\ Tells(Audited(cache[p][i].decision, written), q, TRUE, tombs)
         \/ \E p \in Proxies : \E written \in BOOLEAN :
              pc[p] = "auditing" /\ Tells(Audited(verdict[p], written), asked[p], FALSE, revoked[p])
  <1>1. answer' # NoAnswer /\ answer'.outcome # "refused"
    BY DEF Outcomes, NoAnswer
  <1>2. ASSUME NEW p \in Proxies, NEW q \in Requests, Hit(p, q)
        PROVE  \E i \in Hits(p, q), written \in BOOLEAN :
                 pc[p] = "idle" /\ Tells(Audited(cache[p][i].decision, written), q, TRUE, tombs)
    <2>1. PICK i \in Hits(p, q), written \in BOOLEAN :
            Respond(q, Audited(cache[p][i].decision, written), TRUE, tombs)
      BY <1>2 DEF Hit
    <2>2. Tells(Audited(cache[p][i].decision, written), q, TRUE, tombs)
      BY <1>2, <2>1 DEF Respond, Hit, Tells
    <2>. QED  BY <1>2, <2>2 DEF Hit
  <1>3. ASSUME NEW p \in Proxies, Conclude(p)
        PROVE  \E written \in BOOLEAN :
                 pc[p] = "auditing" /\ Tells(Audited(verdict[p], written), asked[p], FALSE, revoked[p])
    <2>1. PICK written \in BOOLEAN :
            Respond(asked[p], Audited(verdict[p], written), FALSE, revoked[p])
      BY <1>3 DEF Conclude
    <2>2. Tells(Audited(verdict[p], written), asked[p], FALSE, revoked[p])
      BY <1>3, <2>1 DEF Respond, Conclude, Tells
    <2>. QED  BY <1>3, <2>2 DEF Conclude
  <1>4. ASSUME NEW p \in Proxies, Proxy(p)
        PROVE  (\E q \in Requests : Hit(p, q)) \/ Conclude(p)
    BY <1>1, <1>4
       DEF Proxy, Miss, ReadGrants, Stand, Consume, LoseRace, Silent, MintOnApproval, Mint,
           RevokeInProxy, BumpGrantSetVersion, Entomb
  <1>5. ASSUME NEW c \in Clis PROVE ~Cli(c)
    BY <1>1 DEF Cli, MintByCli, RevokeByCli, Mint, Entomb
  <1>6. ASSUME NEW p \in Processes PROVE ~Lock(p)
    BY <1>1 DEF Lock, Acquire, FindStale, RemoveStale, Refused, Release, Crash, Gone
  <1>7. ~Tick /\ \A g \in Grants : ~Unlink(g)
    BY <1>1 DEF Tick, Unlink
  <1>. QED  BY <1>2, <1>3, <1>4, <1>5, <1>6, <1>7 DEF Next

\* An allow is what the cache or the listing said: a denial for want of an
\* audit line is none.
LEMMA AllowsRest ==
  ASSUME IInv, Next, Allows'
  PROVE  \/ \E p \in Proxies, q \in Requests : \E i \in Hits(p, q) :
              pc[p] = "idle" /\ Tells(cache[p][i].decision, q, TRUE, tombs)
         \/ \E p \in Proxies :
              pc[p] = "auditing" /\ Tells(verdict[p], asked[p], FALSE, revoked[p])
  <1>1. ASSUME NEW d \in Decisions, NEW written \in BOOLEAN, answer'.outcome = Audited(d, written).outcome
        PROVE  Audited(d, written) = d
    BY <1>1, AuditedProperties DEF Allows
  <1>2. ASSUME NEW p \in Proxies, NEW q \in Requests, NEW i \in Hits(p, q)
        PROVE  cache[p][i].decision \in Decisions
    <2>1. cache[p] \in Seq(CacheEntries) /\ i \in DOMAIN cache[p]
      BY DEF IInv, Typed, Hits, CachedFor
    <2>2. cache[p][i] \in CacheEntries
      BY <2>1
    <2>. QED  BY <2>2 DEF CacheEntries
  <1>3. ASSUME NEW p \in Proxies, pc[p] = "auditing" PROVE verdict[p] \in Decisions
    BY <1>3 DEF IInv, Locals
  <1>4. answer'.outcome \in Outcomes
    BY DEF Allows, Outcomes
  <1>. QED  BY <1>1, <1>2, <1>3, <1>4, AnswersRest DEF Tells

\* "Revocation takes effect on the next decision" (revocation-claims.md), from
\* a cache or not, for as long as the lock keeps other writers out.
THEOREM RevocationIsObeyed == Spec => []RevokedByNextDecision
  <1>1. Init => RevokedByNextDecision
    BY DEF Init, RevokedByNextDecision, Allows, NoAnswer
  <1>2. IInv /\ RevokedByNextDecision /\ [Next]_vars => RevokedByNextDecision'
    <2>. SUFFICES ASSUME IInv, RevokedByNextDecision, [Next]_vars, ~raced', Allows'
                  PROVE  answer'.grantRef \notin answer'.known
      BY DEF RevokedByNextDecision
    <2>1. CASE UNCHANGED vars
      BY <2>1 DEF RevokedByNextDecision, Allows, vars, history
    <2>2. ASSUME NEW p \in Proxies, NEW q \in Requests, NEW i \in Hits(p, q),
                 Tells(cache[p][i].decision, q, TRUE, tombs)
          PROVE  answer'.grantRef \notin answer'.known
      BY <2>2 DEF Tells, IInv, Current, Hits, CachedFor
    <2>3. ASSUME NEW p \in Proxies, Tells(verdict[p], asked[p], FALSE, revoked[p])
          PROVE  answer'.grantRef \notin answer'.known
      BY <2>3 DEF Tells, IInv, Locals
    <2>. QED  BY <2>1, <2>2, <2>3, AllowsRest
  <1>. QED  BY <1>1, <1>2, Invariance, PTL DEF Spec

\* And for critical calls whoever else writes: they never meet a cache.
THEOREM CriticalRevocationIsObeyed == Spec => []CriticalRevokedByNextDecision
  <1>1. Init => CriticalRevokedByNextDecision
    BY DEF Init, CriticalRevokedByNextDecision, Allows, NoAnswer
  <1>2. IInv /\ CriticalRevokedByNextDecision /\ [Next]_vars => CriticalRevokedByNextDecision'
    <2>. SUFFICES ASSUME IInv, CriticalRevokedByNextDecision, [Next]_vars,
                         Allows', Tier(answer'.request) = "critical"
                  PROVE  answer'.grantRef \notin answer'.known
      BY DEF CriticalRevokedByNextDecision, Tier
    <2>1. CASE UNCHANGED vars
      BY <2>1 DEF CriticalRevokedByNextDecision, Allows, vars
    <2>2. ASSUME NEW p \in Proxies, NEW q \in Requests, NEW i \in Hits(p, q),
                 Tells(cache[p][i].decision, q, TRUE, tombs)
          PROVE  FALSE
      BY <2>2 DEF Tells, Hits, CachedFor
    <2>3. ASSUME NEW p \in Proxies, Tells(verdict[p], asked[p], FALSE, revoked[p])
          PROVE  answer'.grantRef \notin answer'.known
      BY <2>3 DEF Tells, IInv, Locals
    <2>. QED  BY <2>1, <2>2, <2>3, AllowsRest
  <1>. QED  BY <1>1, <1>2, Invariance, PTL DEF Spec

-----------------------------------------------------------------------------
(* How stale a decision can be: the second invariant relates the clock, the *)
(* times a grant was added and ended, and the decisions and entries that    *)
(* were made in between.                                                    *)

\* The grants a call could rest on now, however often it is made.
Standing(q) == {g \in (jws \ tombs) \ SingleUse : q \in BoundTo[g]}

Collected(p, g) == \E i \in DOMAIN listing[p] : listing[p][i] = g

\* When grants were added and ended.
Dated ==
    /\ addedAt \in [Grants -> Nat] /\ endedAt \in [Grants -> Nat]
    /\ \A g \in Grants \ tombs : endedAt[g] = Never

\* A decision under way is not slow, rests on nothing that had ended when it
\* began, and misses no standing grant that was there by then.
Underway(p) ==
    Deciding(p) =>
        /\ now <= since[p] + Slack
        /\ \A g \in Grants \ revoked[p] : since[p] <= endedAt[g]
        /\ \A i \in DOMAIN listing[p] : since[p] < Exp[listing[p][i]]
        /\ replayed[p] => LeftToGrants(PolicyOf[asked[p]], Envelope)
        /\ pc[p] # "listing" =>
              \A g \in Standing(asked[p]) :
                 since[p] < Exp[g] => Collected(p, g) \/ (raced /\ since[p] <= addedAt[g])

\* A denial for want of a grant, which no mint on approval can be about.
Wanting(q, decision) ==
    decision.reason = "no_grant_sensitive" => LeftToGrants(PolicyOf[q], Envelope) /\ Tier(q) = "sensitive"

\* What the verdict says of the listing.
Judged(p) ==
    pc[p] = "auditing" =>
        /\ verdict[p].grantRef # NoGrant => Collected(p, verdict[p].grantRef)
        /\ Wanting(asked[p], verdict[p])
        /\ verdict[p].reason = "no_grant_sensitive" => listing[p] = <<>>
        /\ verdict[p].reason = "grant_replayed" =>
              \A i \in DOMAIN listing[p] :
                 ~Covers(CappedBy(Cap[listing[p][i]], Envelope.ceiling), Tier(asked[p]))

\* An entry of a cache lives one TTL, and that no longer than it may.
Timely(e) ==
    LET life == Ttl[Tier(e.key)]
    IN  /\ Tier(e.key) \in {"routine", "sensitive"}
        /\ e.expires <= now + life
        /\ e.decision.outcome = "allow" /\ e.decision.grantRef # NoGrant =>
              e.expires <= EndOf(e.decision.grantRef) + Slack + life
        /\ e.decision.reason # "grant_replayed"
        /\ Wanting(e.key, e.decision)
        /\ e.decision.reason = "no_grant_sensitive" =>
              \A g \in Standing(e.key) :
                 now < Exp[g] => raced /\ e.expires <= addedAt[g] + Slack + life

Timed(p) == Underway(p) /\ Judged(p) /\ \A i \in DOMAIN cache[p] : Timely(cache[p][i])

TInv == Dated /\ \A p \in Proxies : Timed(p)

LEMMA DatedInit == Init => TInv
  <1>. SUFFICES ASSUME Init PROVE TInv
    OBVIOUS
  <1>1. Never \in Nat
    BY DeciderAssumption DEF Never
  <1>2. Dated
    BY <1>1 DEF Init, Dated
  <1>3. \A p \in Proxies : ~Deciding(p) /\ pc[p] # "auditing" /\ DOMAIN cache[p] = {}
    BY DEF Init, Deciding, Processes
  <1>. QED  BY <1>2, <1>3 DEF TInv, Timed, Underway, Judged

\* A proxy that a step leaves alone, or ends, or that forgets entries, while
\* the store and the clock stay as they are.
LEMMA StillTimed ==
  ASSUME NEW p \in Proxies, Timed(p),
         UNCHANGED <<jws, tombs, now, addedAt, endedAt>>, raced => raced',
         \/ ~Deciding(p)'
         \/ /\ pc'[p] = pc[p] /\ asked'[p] = asked[p] /\ since'[p] = since[p]
            /\ revoked'[p] = revoked[p] /\ listing'[p] = listing[p]
            /\ replayed'[p] = replayed[p] /\ verdict'[p] = verdict[p],
         \A i \in DOMAIN cache'[p] : \E j \in DOMAIN cache[p] : cache'[p][i] = cache[p][j]
  PROVE  Timed(p)'
  <1>1. Underway(p)'
    BY DEF Timed, Underway, Deciding, Standing, Collected
  <1>2. Judged(p)'
    BY DEF Timed, Judged, Deciding, Wanting, Collected
  <1>3. ASSUME NEW i \in DOMAIN cache'[p] PROVE Timely(cache[p][i])'
    <2>1. PICK j \in DOMAIN cache[p] : cache'[p][i] = cache[p][j]
      OBVIOUS
    <2>2. Timely(cache[p][j])
      BY DEF Timed
    <2>. QED  BY <2>1, <2>2 DEF Timely, Wanting, Standing, EndOf
  <1>. QED  BY <1>1, <1>2, <1>3 DEF Timed

\* Every time the proofs compare is a natural number.
LEMMA Times ==
  ASSUME IInv, Dated
  PROVE  /\ now \in Nat /\ now <= Never /\ Slack \in Nat
         /\ \A g \in Grants : addedAt[g] \in Nat /\ endedAt[g] \in Nat /\ Exp[g] \in Nat
         /\ \A p \in Proxies : since[p] \in Nat /\ since[p] <= now
         /\ \A q \in Requests : Tier(q) \in {"routine", "sensitive"} => Ttl[Tier(q)] \in Nat
         /\ \A p \in Proxies : cache[p] \in Seq(CacheEntries) /\
               \A i \in DOMAIN cache[p] : /\ cache[p][i].key \in Requests
                                          /\ cache[p][i].expires \in Nat
                                          /\ cache[p][i].decision \in Decisions
  <1>1. now \in Nat /\ now <= Never /\ Slack \in Nat
    BY DeciderAssumption DEF IInv, Typed, Never
  <1>2. \A g \in Grants : addedAt[g] \in Nat /\ endedAt[g] \in Nat /\ Exp[g] \in Nat
    BY DeciderAssumption DEF Dated
  <1>3. \A p \in Proxies : since[p] \in Nat /\ since[p] <= now
    BY DEF IInv, Typed, Locals
  <1>4. \A q \in Requests : Tier(q) \in {"routine", "sensitive"} => Ttl[Tier(q)] \in Nat
    BY DeciderAssumption
  <1>5. ASSUME NEW p \in Proxies
        PROVE  /\ cache[p] \in Seq(CacheEntries)
               /\ \A i \in DOMAIN cache[p] : /\ cache[p][i].key \in Requests
                                             /\ cache[p][i].expires \in Nat
                                             /\ cache[p][i].decision \in Decisions
    <2>1. cache[p] \in Seq(CacheEntries)
      BY DEF IInv, Typed
    <2>2. \A i \in DOMAIN cache[p] : cache[p][i] \in CacheEntries
      BY <2>1
    <2>. QED  BY <2>1, <2>2 DEF CacheEntries
  <1>. QED  BY <1>1, <1>2, <1>3, <1>4, <1>5

\* A step of one proxy leaves the others' decisions and caches as they are.
LEMMA OthersTimed ==
  ASSUME IInv, TInv, NEW p \in Proxies, Timed(p)',
         UNCHANGED <<jws, tombs, now, addedAt, endedAt, raced>>,
         \A r \in Proxies : r # p =>
            /\ pc'[r] = pc[r] /\ asked'[r] = asked[r] /\ since'[r] = since[r]
            /\ revoked'[r] = revoked[r] /\ listing'[r] = listing[r]
            /\ replayed'[r] = replayed[r] /\ verdict'[r] = verdict[r] /\ cache'[r] = cache[r]
  PROVE  TInv'
  <1>1. Dated'
    BY DEF TInv, Dated
  <1>2. ASSUME NEW r \in Proxies, r # p PROVE Timed(r)'
    BY <1>2, StillTimed DEF TInv
  <1>. QED  BY <1>1, <1>2 DEF TInv

LEMMA HitTimed ==
  ASSUME IInv, TInv, NEW p \in Proxies, NEW q \in Requests, Hit(p, q)
  PROVE  TInv'
  <1>1. PICK i \in Hits(p, q) : cache' = [cache EXCEPT ![p] = Touched(p, q, i)]
    BY DEF Hit
  <1>2. UNCHANGED <<jws, tombs, now, pc, asked, since, revoked, listing, replayed, verdict, addedAt,
                    endedAt, raced>>
    BY DEF Hit, store, local
  <1>3. \A k \in DOMAIN Touched(p, q, i) :
          \E j \in DOMAIN cache[p] : Touched(p, q, i)[k] = cache[p][j]
    BY TouchedProperties DEF IInv, Hits
  <1>4. cache'[p] = Touched(p, q, i) /\ \A r \in Proxies : r # p => cache'[r] = cache[r]
    BY <1>1 DEF IInv, Typed
  <1>5. Timed(p)'
    BY <1>2, <1>3, <1>4, StillTimed DEF TInv
  <1>. QED  BY <1>2, <1>4, <1>5, OthersTimed

\* A decision begins: it has seen every tombstone there is.
LEMMA MissTimed ==
  ASSUME IInv, TInv, NEW p \in Proxies, NEW q \in Requests, Miss(p, q)
  PROVE  TInv'
  <1>1. /\ pc[p] = "idle" /\ pc' = [pc EXCEPT ![p] = "listing"]
        /\ cache' = [cache EXCEPT ![p] = IF CachedFor(p, q) = {} THEN @ ELSE Without(@, q)]
        /\ asked' = [asked EXCEPT ![p] = q]
        /\ since' = [since EXCEPT ![p] = now]
        /\ revoked' = [revoked EXCEPT ![p] = tombs]
        /\ replayed' = [replayed EXCEPT ![p] = FALSE]
        /\ UNCHANGED <<jws, tombs, now, listing, verdict, addedAt, endedAt, raced>>
    BY DEF Miss, store
  <1>2. /\ pc'[p] = "listing" /\ since'[p] = now /\ revoked'[p] = tombs /\ replayed'[p] = FALSE
        /\ listing[p] = <<>>
    BY <1>1 DEF IInv, Typed, Locals, Processes
  <1>3. \A r \in Proxies : r # p =>
          /\ pc'[r] = pc[r] /\ asked'[r] = asked[r] /\ since'[r] = since[r]
          /\ revoked'[r] = revoked[r] /\ replayed'[r] = replayed[r] /\ cache'[r] = cache[r]
    BY <1>1 DEF IInv, Typed, Processes
  <1>4. Underway(p)'
    <2>1. now <= now + Slack
      BY Times DEF TInv
    <2>2. \A g \in Grants \ tombs : now <= endedAt[g]
      BY Times DEF TInv, Dated
    <2>3. DOMAIN listing[p] = {}
      BY <1>2
    <2>. QED  BY <1>1, <1>2, <2>1, <2>2, <2>3 DEF Underway
  <1>5. Judged(p)'
    BY <1>2 DEF Judged
  <1>6. \A i \in DOMAIN cache'[p] : \E j \in DOMAIN cache[p] : cache'[p][i] = cache[p][j]
    <2>1. \A i \in DOMAIN Without(cache[p], q) :
            \E j \in DOMAIN cache[p] : Without(cache[p], q)[i] = cache[p][j]
      <3>1. cache[p] \in Seq(CacheEntries) /\ Keyed(cache[p])
        BY DEF IInv, Typed, Caches, Keyed
      <3>. QED  BY <3>1, WithoutProperties
    <2>2. cache'[p] = cache[p] \/ cache'[p] = Without(cache[p], q)
      BY <1>1 DEF IInv, Typed
    <2>. QED  BY <2>1, <2>2
  <1>7. ASSUME NEW i \in DOMAIN cache'[p] PROVE Timely(cache[p][i])'
    <2>1. PICK j \in DOMAIN cache[p] : cache'[p][i] = cache[p][j]
      BY <1>6
    <2>2. Timely(cache[p][j])
      BY DEF TInv, Timed
    <2>. QED  BY <1>1, <2>1, <2>2 DEF Timely, Wanting, Standing, EndOf
  <1>8. Timed(p)'
    BY <1>4, <1>5, <1>7 DEF Timed
  <1>. QED  BY <1>1, <1>3, <1>8, OthersTimed

\* An order of a set lists all of it.
LEMMA OrderIsOnto ==
  ASSUME NEW S, IsFiniteSet(S), NEW s \in Orders(S), NEW e \in S
  PROVE  \E i \in DOMAIN s : s[i] = e
  <1>. SUFFICES ASSUME \A i \in DOMAIN s : s[i] # e PROVE FALSE
    OBVIOUS
  <1>. DEFINE n == Cardinality(S)
  <1>1. n \in Nat /\ s \in [1..n -> S] /\ \A i, j \in DOMAIN s : s[i] = s[j] => i = j
    BY FS_CardinalityType DEF Orders
  <1>2. IsFiniteSet(S \ {e}) /\ Cardinality(S \ {e}) = n - 1
    BY FS_RemoveElement
  <1>3. IsFiniteSet(1..n) /\ Cardinality(1..n) = n
    BY <1>1, FS_Interval
  <1>4. s \in [1..n -> S \ {e}]
    BY <1>1
  <1>. DEFINE T == S \ {e}
              I == 1..n
  <1>5. Cardinality(T) < Cardinality(I) /\ IsFiniteSet(I) /\ IsFiniteSet(T) /\ s \in [I -> T]
    BY <1>1, <1>2, <1>3, <1>4
  <1>. HIDE DEF n, T, I
  <1>6. \E i, j \in I : i # j /\ s[i] = s[j]
    BY <1>5, FS_PigeonHole
  <1>7. DOMAIN s = I
    BY <1>5
  <1>. QED  BY <1>1, <1>6, <1>7

\* The listing has every standing grant that verifies.
LEMMA ReadGrantsTimed ==
  ASSUME IInv, TInv, NEW p \in Proxies, ReadGrants(p)
  PROVE  TInv'
  <1>1. PICK order \in Orders(ListedGrants(p)) : listing' = [listing EXCEPT ![p] = order]
    BY DEF ReadGrants
  <1>2. /\ pc[p] = "listing" /\ pc' = [pc EXCEPT ![p] = "deciding"]
        /\ UNCHANGED <<jws, tombs, now, cache, asked, since, revoked, replayed, verdict, addedAt, endedAt, raced>>
    BY DEF ReadGrants, store
  <1>3. /\ pc'[p] = "deciding" /\ listing'[p] = order
        /\ \A r \in Proxies : r # p => pc'[r] = pc[r] /\ listing'[r] = listing[r]
    BY <1>1, <1>2 DEF IInv, Typed, Processes
  <1>4. IsFiniteSet(ListedGrants(p)) /\ ListedGrants(p) \subseteq Grants
    <2>1. ListedGrants(p) \subseteq Grants
      BY DEF ListedGrants, IInv, Typed
    <2>. QED  BY <2>1, DeciderAssumption, FS_Subset
  <1>5. \A i \in DOMAIN order : order[i] \in ListedGrants(p)
    BY DEF Orders
  <1>6. Underway(p)'
    <2>1. Underway(p) /\ Deciding(p)
      BY <1>2 DEF TInv, Timed, Deciding
    <2>2. \A i \in DOMAIN order : since[p] < Exp[order[i]]
      BY <1>5 DEF ListedGrants, Verified
    <2>3. ASSUME NEW g \in Standing(asked[p]), since[p] < Exp[g] PROVE \E i \in DOMAIN order : order[i] = g
      <3>1. revoked[p] \subseteq tombs
        BY DEF IInv, Locals
      <3>2. g \in ListedGrants(p)
        BY <2>3, <3>1 DEF Standing, ListedGrants, Verified
      <3>. QED  BY <1>4, <3>2, OrderIsOnto
    <2>. QED  BY <1>2, <1>3, <2>1, <2>2, <2>3 DEF Underway, Standing, Collected
  <1>7. Judged(p)'
    BY <1>3 DEF Judged
  <1>8. ASSUME NEW i \in DOMAIN cache[p] PROVE Timely(cache[p][i])'
    <2>1. Timely(cache[p][i])
      BY DEF TInv, Timed
    <2>. QED  BY <1>2, <2>1 DEF Timely, Wanting, Standing, EndOf
  <1>9. Timed(p)'
    BY <1>2, <1>6, <1>7, <1>8 DEF Timed
  <1>. QED  BY <1>2, <1>3, <1>9, OthersTimed

\* What a decision says of the listing it was made on.
LEMMA EvaluatedJudged ==
  ASSUME IInv, TInv, NEW p \in Proxies, pc[p] = "deciding"
  PROVE  /\ Evaluated(p).grantRef # NoGrant =>
               Collected(p, Evaluated(p).grantRef) /\ LeftToGrants(PolicyOf[asked[p]], Envelope)
         /\ Wanting(asked[p], Evaluated(p))
         /\ Evaluated(p).reason = "no_grant_sensitive" => listing[p] = <<>>
         /\ Evaluated(p).reason # "grant_replayed"
         /\ LeftToGrants(PolicyOf[asked[p]], Envelope) /\ Evaluated(p).outcome # "allow" =>
              \A i \in DOMAIN listing[p] :
                 ~Covers(CappedBy(Cap[listing[p][i]], Envelope.ceiling), Tier(asked[p]))
  <1>. DEFINE policy == PolicyOf[asked[p]]
              grants == [i \in DOMAIN listing[p] |-> AsGrant(listing[p][i])]
              d      == Evaluate(policy, Envelope, grants, since[p])
  <1>1. /\ asked[p] \in Requests /\ since[p] \in Nat
        /\ policy \in Policies /\ Envelope \in Envelopes
    BY DeciderAssumption DEF IInv, Typed, Locals, Deciding
  <1>2. listing[p] \in Seq(Grants)
    BY DEF IInv, Typed
  <1>3. /\ grants \in Seq(GrantsOf(Grants)) /\ DOMAIN grants = DOMAIN listing[p]
    <2>1. \A g \in Grants : AsGrant(g) \in GrantsOf(Grants)
      BY DeciderAssumption DEF AsGrant, GrantsOf
    <2>. QED  BY <1>2, <2>1
  <1>4. Evaluated(p) = d
    BY DEF Evaluated
  <1>5. ASSUME NEW i \in DOMAIN listing[p]
        PROVE  grants[i].cap = Cap[listing[p][i]] /\ InWindow(grants[i], since[p])
    <2>1. since[p] < Exp[listing[p][i]]
      BY DEF TInv, Timed, Underway, Deciding
    <2>2. grants[i] = AsGrant(listing[p][i])
      OBVIOUS
    <2>. QED  BY <1>1, <2>1, <2>2 DEF AsGrant, InWindow
  <1>6. TierOf(policy, Envelope) = Tier(asked[p])
    BY DEF Tier
  <1>. HIDE DEF policy, grants
  <1>7. d \in DecisionsOn(Grants)
    BY <1>1, <1>3, EvaluateTyped
  <1>8. d.reason # "grant_replayed"
    BY <1>7 DEF DecisionsOn, Reasons
  <1>9. ASSUME d.reason = "no_grant_sensitive"
        PROVE  /\ LeftToGrants(policy, Envelope) /\ TierOf(policy, Envelope) = "sensitive"
               /\ listing[p] = <<>>
    <2>1. /\ LeftToGrants(policy, Envelope) /\ TierOf(policy, Envelope) = "sensitive"
          /\ \A i \in DOMAIN grants : ~InWindow(grants[i], since[p])
      BY <1>1, <1>3, <1>9, NoGrantMeansNone
    <2>2. DOMAIN listing[p] = {}
      BY <1>3, <1>5, <2>1
    <2>3. listing[p] = <<>>
      <3>1. Len(listing[p]) \in Nat /\ DOMAIN listing[p] = 1..Len(listing[p])
        BY <1>2
      <3>2. Len(listing[p]) = 0
        BY <2>2, <3>1
      <3>. QED  BY <1>2, <3>2, EmptySeq
    <2>. QED  BY <2>1, <2>3
  <1>10. ASSUME LeftToGrants(policy, Envelope), d.outcome # "allow", NEW i \in DOMAIN listing[p]
         PROVE  ~Covers(CappedBy(Cap[listing[p][i]], Envelope.ceiling), Tier(asked[p]))
    <2>1. Allowing(grants, TierOf(policy, Envelope), Envelope.ceiling, since[p]) = {}
      BY <1>10, CoveredIsAllowed
    <2>2. i \in DOMAIN grants
      BY <1>3
    <2>. QED  BY <1>5, <1>6, <2>1, <2>2 DEF Allowing
  <1>11. d.grantRef # NoGrant => LeftToGrants(policy, Envelope)
    BY <1>1, GrantAnswers
  <1>12. Evaluated(p).grantRef # NoGrant => Collected(p, Evaluated(p).grantRef)
    BY EvaluatedTyped DEF IInv, Collected
  <1>. QED  BY <1>4, <1>6, <1>8, <1>9, <1>10, <1>11, <1>12 DEF Wanting, policy

\* The verdict is the decision, or the replay that the race turned it into.
LEMMA JudgingTimed ==
  ASSUME IInv, TInv, NEW p \in Proxies, pc[p] = "deciding",
         pc' = [pc EXCEPT ![p] = "auditing"],
         NEW decision, verdict' = [verdict EXCEPT ![p] = decision],
         decision = Evaluated(p)
           \/ (replayed[p] /\ Evaluated(p).outcome # "allow" /\ decision = Replay(Evaluated(p))),
         UNCHANGED <<jws, tombs, now, cache, asked, since, revoked, listing, replayed, addedAt,
                     endedAt, raced>>
  PROVE  TInv'
  <1>1. /\ pc'[p] = "auditing" /\ verdict'[p] = decision
        /\ \A r \in Proxies : r # p => pc'[r] = pc[r] /\ verdict'[r] = verdict[r]
    BY DEF IInv, Typed, Processes
  <1>2. Underway(p) /\ Deciding(p)
    BY DEF TInv, Timed, Deciding
  <1>3. Underway(p)'
    BY <1>2 DEF Underway, Standing, Collected
  <1>4. Judged(p)'
    <2>1. CASE decision = Evaluated(p)
      BY <1>1, <2>1, EvaluatedJudged DEF Judged, Wanting, Collected, Tier
    <2>2. CASE replayed[p] /\ Evaluated(p).outcome # "allow" /\ decision = Replay(Evaluated(p))
      <3>1. decision.grantRef = NoGrant /\ decision.reason = "grant_replayed"
        BY <2>2 DEF Replay, Answer
      <3>2. LeftToGrants(PolicyOf[asked[p]], Envelope)
        BY <1>2, <2>2 DEF Underway
      <3>3. \A i \in DOMAIN listing[p] :
               ~Covers(CappedBy(Cap[listing[p][i]], Envelope.ceiling), Tier(asked[p]))
        BY <2>2, <3>2, EvaluatedJudged
      <3>. QED  BY <1>1, <3>1, <3>3 DEF Judged, Wanting, Tier
    <2>. QED  BY <2>1, <2>2
  <1>5. ASSUME NEW i \in DOMAIN cache[p] PROVE Timely(cache[p][i])'
    <2>1. Timely(cache[p][i])
      BY DEF TInv, Timed
    <2>. QED  BY <2>1 DEF Timely, Wanting, Standing, EndOf
  <1>6. Timed(p)'
    BY <1>3, <1>4, <1>5 DEF Timed
  <1>. QED  BY <1>1, <1>6, OthersTimed

LEMMA StandTimed ==
  ASSUME IInv, TInv, NEW p \in Proxies, Stand(p) \/ Consume(p)
  PROVE  TInv'
  <1>1. CASE Stand(p)
    BY <1>1, JudgingTimed DEF Stand, store
  <1>2. CASE Consume(p)
    BY <1>2, JudgingTimed DEF Consume
  <1>. QED  BY <1>1, <1>2

\* A spent grant is excluded, and no other.
LEMMA LoseRaceTimed ==
  ASSUME IInv, TInv, NEW p \in Proxies, LoseRace(p)
  PROVE  TInv'
  <1>. DEFINE spent == Evaluated(p).grantRef
              k     == CHOOSE i \in DOMAIN listing[p] : listing[p][i] = spent
              rest  == Seqs!RemoveAt(listing[p], k)
  <1>1. /\ pc[p] = "deciding" /\ spent \in SingleUse
        /\ listing' = [listing EXCEPT ![p] = rest]
        /\ replayed' = [replayed EXCEPT ![p] = TRUE]
        /\ UNCHANGED <<jws, tombs, now, cache, pc, asked, since, revoked, verdict, addedAt, endedAt, raced>>
    BY DEF LoseRace, store
  <1>2. listing[p] \in Seq(Grants)
    BY DEF IInv, Typed
  <1>3. k \in DOMAIN listing[p] /\ listing[p][k] = spent
    BY <1>1, EvaluatedTyped, DeciderAssumption DEF IInv
  <1>. HIDE DEF k
  <1>4. /\ \A i \in DOMAIN rest : \E j \in DOMAIN listing[p] : rest[i] = listing[p][j]
        /\ \A j \in DOMAIN listing[p] : j # k => \E i \in DOMAIN rest : rest[i] = listing[p][j]
    <2>1. /\ rest \in Seq(Grants) /\ Len(rest) = Len(listing[p]) - 1
          /\ \A i \in DOMAIN rest :
               /\ i < k => i \in DOMAIN listing[p] /\ rest[i] = listing[p][i]
               /\ i >= k => i + 1 \in DOMAIN listing[p] /\ rest[i] = listing[p][i + 1]
      BY <1>2, <1>3, RemoveAtProperties
    <2>2. /\ k \in 1..Len(listing[p]) /\ Len(listing[p]) \in Nat
          /\ DOMAIN listing[p] = 1..Len(listing[p]) /\ DOMAIN rest = 1..(Len(listing[p]) - 1)
      BY <1>2, <1>3, <2>1
    <2>3. \A i \in DOMAIN rest : \E j \in DOMAIN listing[p] : rest[i] = listing[p][j]
      BY <2>1, <2>2
    <2>4. ASSUME NEW j \in DOMAIN listing[p], j # k
          PROVE  \E i \in DOMAIN rest : rest[i] = listing[p][j]
      <3>1. CASE j < k
        <4>1. j \in DOMAIN rest
          BY <2>2, <3>1
        <4>. QED  BY <2>1, <3>1, <4>1
      <3>2. CASE j > k
        <4>1. j - 1 \in DOMAIN rest /\ j - 1 >= k /\ (j - 1) + 1 = j
          BY <2>2, <3>2
        <4>2. rest[j - 1] = listing[p][(j - 1) + 1]
          BY <2>1, <4>1
        <4>. QED  BY <4>1, <4>2
      <3>. QED  BY <2>2, <2>4, <3>1, <3>2
    <2>. QED  BY <2>3, <2>4
  <1>. HIDE DEF rest
  <1>5. /\ listing'[p] = rest /\ replayed'[p] = TRUE
        /\ \A r \in Proxies : r # p => listing'[r] = listing[r] /\ replayed'[r] = replayed[r]
    BY <1>1 DEF IInv, Typed
  <1>6. LeftToGrants(PolicyOf[asked[p]], Envelope)
    BY <1>1, EvaluatedJudged, DeciderAssumption
  <1>. HIDE DEF spent
  <1>7. Underway(p)'
    <2>1. Underway(p) /\ Deciding(p)
      BY <1>1 DEF TInv, Timed, Deciding
    <2>2. \A i \in DOMAIN rest : since[p] < Exp[rest[i]]
      BY <1>4, <2>1 DEF Underway
    <2>3. ASSUME NEW g \in Standing(asked[p]), Collected(p, g) PROVE \E i \in DOMAIN rest : rest[i] = g
      <3>1. PICK j \in DOMAIN listing[p] : listing[p][j] = g
        BY <2>3 DEF Collected
      <3>2. j # k
        BY <1>1, <1>3, <3>1 DEF Standing
      <3>. QED  BY <1>4, <3>1, <3>2
    <2>4. ASSUME NEW g \in Standing(asked[p]), since[p] < Exp[g]
          PROVE  (\E i \in DOMAIN rest : rest[i] = g) \/ (raced /\ since[p] <= addedAt[g])
      BY <1>1, <2>1, <2>3, <2>4 DEF Underway
    <2>. QED  BY <1>1, <1>5, <1>6, <2>1, <2>2, <2>4 DEF Underway, Standing, Collected
  <1>8. Judged(p)'
    BY <1>1 DEF Judged
  <1>9. ASSUME NEW i \in DOMAIN cache[p] PROVE Timely(cache[p][i])'
    <2>1. Timely(cache[p][i])
      BY DEF TInv, Timed
    <2>. QED  BY <1>1, <2>1 DEF Timely, Wanting, Standing, EndOf
  <1>10. Timed(p)'
    BY <1>1, <1>7, <1>8, <1>9 DEF Timed
  <1>. QED  BY <1>1, <1>5, <1>10, OthersTimed

\* What an audited decision may be cached with.
LEMMA ConcludedTimely ==
  ASSUME IInv, TInv, NEW p \in Proxies, pc[p] = "auditing", Cacheable(verdict[p], asked[p]),
         NEW e, e.key = asked[p], e.decision = verdict[p], e.expires = now + Ttl[Tier(asked[p])]
  PROVE  Timely(e)
  <1>. DEFINE q    == asked[p]
              life == Ttl[Tier(q)]
              d    == verdict[p]
  <1>1. /\ Underway(p) /\ Judged(p) /\ Deciding(p)
        /\ q \in Requests /\ d \in Decisions /\ d.grantRef \notin revoked[p]
    BY DEF TInv, Timed, Deciding, IInv, Locals
  <1>2. Tier(q) \in {"routine", "sensitive"}
    <2>1. PolicyOf[q] \in Policies /\ Envelope \in Envelopes
      BY <1>1, DeciderAssumption
    <2>2. Tier(q) \in Tiers
      BY <2>1, TierTyped DEF Tier
    <2>. QED  BY <2>2 DEF Cacheable, Tiers
  <1>3. now \in Nat /\ Slack \in Nat /\ since[p] \in Nat /\ life \in Nat /\ since[p] <= now
    BY <1>1, <1>2, Times DEF TInv
  <1>4. now <= since[p] + Slack
    BY <1>1 DEF Underway
  <1>5. d.reason # "grant_replayed"
    BY DEF Cacheable
  <1>6. Wanting(q, d)
    BY <1>1 DEF Judged
  <1>7. ASSUME d.outcome = "allow", d.grantRef # NoGrant
        PROVE  now + life <= EndOf(d.grantRef) + Slack + life
    <2>1. PICK i \in DOMAIN listing[p] : listing[p][i] = d.grantRef
      BY <1>1, <1>7 DEF Judged, Collected
    <2>2. since[p] < Exp[d.grantRef]
      BY <1>1, <2>1 DEF Underway
    <2>3. d.grantRef \in Grants
      BY <1>1, <1>7 DEF Decisions
    <2>4. since[p] <= endedAt[d.grantRef]
      BY <1>1, <2>3 DEF Underway
    <2>5. Exp[d.grantRef] \in Nat /\ endedAt[d.grantRef] \in Nat
      BY <2>3, Times DEF TInv
    <2>6. since[p] <= EndOf(d.grantRef) /\ EndOf(d.grantRef) \in Nat
      BY <1>3, <2>2, <2>4, <2>5 DEF EndOf
    <2>. QED  BY <1>3, <1>4, <2>6
  <1>8. ASSUME d.reason = "no_grant_sensitive", NEW g \in Standing(q), now < Exp[g]
        PROVE  raced /\ now + life <= addedAt[g] + Slack + life
    <2>1. listing[p] = <<>>
      BY <1>1, <1>8 DEF Judged
    <2>2. ~Collected(p, g)
      BY <2>1 DEF Collected
    <2>3. g \in Grants
      BY DEF Standing, IInv, Typed
    <2>4. Exp[g] \in Nat /\ addedAt[g] \in Nat
      BY <2>3, Times DEF TInv
    <2>5. since[p] < Exp[g]
      BY <1>3, <1>8, <2>4
    <2>6. raced /\ since[p] <= addedAt[g]
      BY <1>1, <2>2, <2>5 DEF Underway
    <2>. QED  BY <1>3, <1>4, <2>4, <2>6
  <1>9. now + life <= now + life
    BY <1>3
  <1>. QED  BY <1>2, <1>5, <1>6, <1>7, <1>8, <1>9 DEF Timely

LEMMA ConcludeTimed ==
  ASSUME IInv, TInv, NEW p \in Proxies, Conclude(p)
  PROVE  TInv'
  <1>1. PICK written \in BOOLEAN :
          cache' = [cache EXCEPT ![p] =
               IF Cacheable(Audited(verdict[p], written), asked[p])
               THEN Stored(p, asked[p], Audited(verdict[p], written)) ELSE @]
    BY DEF Conclude
  <1>2. /\ pc[p] = "auditing" /\ pc' = [pc EXCEPT ![p] = "idle"]
        /\ asked' = [asked EXCEPT ![p] = NoRequest] /\ since' = [since EXCEPT ![p] = 0]
        /\ revoked' = [revoked EXCEPT ![p] = {}] /\ listing' = [listing EXCEPT ![p] = <<>>]
        /\ replayed' = [replayed EXCEPT ![p] = FALSE]
        /\ verdict' = [verdict EXCEPT ![p] = Undecided]
        /\ UNCHANGED <<jws, tombs, now, addedAt, endedAt, raced>>
    BY DEF Conclude, Forget, store
  <1>3. /\ pc'[p] = "idle"
        /\ \A r \in Proxies : r # p =>
             /\ pc'[r] = pc[r] /\ asked'[r] = asked[r] /\ since'[r] = since[r]
             /\ revoked'[r] = revoked[r] /\ listing'[r] = listing[r]
             /\ replayed'[r] = replayed[r] /\ verdict'[r] = verdict[r] /\ cache'[r] = cache[r]
    BY <1>1, <1>2 DEF IInv, Typed, Processes
  <1>4. ASSUME NEW i \in DOMAIN cache'[p] PROVE Timely(cache[p][i])'
    <2>. DEFINE d == Audited(verdict[p], written)
    <2>1. CASE \E j \in DOMAIN cache[p] : cache'[p][i] = cache[p][j]
      <3>1. PICK j \in DOMAIN cache[p] : cache'[p][i] = cache[p][j]
        BY <2>1
      <3>2. Timely(cache[p][j])
        BY DEF TInv, Timed
      <3>. QED  BY <1>2, <3>1, <3>2 DEF Timely, Wanting, Standing, EndOf
    <2>2. CASE Cacheable(d, asked[p])
      <3>1. verdict[p] \in Decisions /\ asked[p] \in Requests
        BY <1>2 DEF IInv, Locals, Deciding
      <3>2. d \in Decisions
        BY <3>1, AuditedProperties
      <3>3. d = verdict[p]
        BY <2>2 DEF Cacheable, Audited, Answer
      <3>4. now + Ttl[Tier(asked[p])] \in Nat
        <4>1. PolicyOf[asked[p]] \in Policies /\ Envelope \in Envelopes
          BY <3>1, DeciderAssumption
        <4>2. Tier(asked[p]) \in Tiers
          BY <4>1, TierTyped DEF Tier
        <4>3. Tier(asked[p]) \in {"routine", "sensitive"}
          BY <2>2, <4>2 DEF Cacheable, Tiers
        <4>. QED  BY <3>1, <4>3, Times DEF TInv
      <3>5. cache'[p] = Stored(p, asked[p], d)
        BY <1>1, <2>2 DEF IInv, Typed
      <3>6. \/ \E j \in DOMAIN cache[p] : cache'[p][i] = cache[p][j]
            \/ /\ cache'[p][i].key = asked[p] /\ cache'[p][i].decision = d
               /\ cache'[p][i].expires = now + Ttl[Tier(asked[p])]
        BY <3>1, <3>2, <3>4, <3>5, StoredProperties DEF IInv
      <3>7. ASSUME NEW e, e.key = asked[p], e.decision = verdict[p],
                   e.expires = now + Ttl[Tier(asked[p])]
            PROVE  Timely(e)
        BY <1>2, <2>2, <3>3, <3>7, ConcludedTimely
      <3>8. CASE /\ cache'[p][i].key = asked[p] /\ cache'[p][i].decision = d
                 /\ cache'[p][i].expires = now + Ttl[Tier(asked[p])]
        <4>1. PICK e : e = cache'[p][i]
          OBVIOUS
        <4>2. Timely(e)
          BY <3>3, <3>7, <3>8, <4>1
        <4>. QED  BY <1>2, <4>1, <4>2 DEF Timely, Wanting, Standing, EndOf
      <3>. QED  BY <2>1, <3>6, <3>8
    <2>3. CASE ~Cacheable(d, asked[p])
      BY <1>1, <2>1, <2>3 DEF IInv, Typed
    <2>. QED  BY <2>2, <2>3
  <1>5. Timed(p)'
    BY <1>3, <1>4 DEF Timed, Underway, Judged, Deciding
  <1>. QED  BY <1>2, <1>3, <1>5, OthersTimed

\* Taking the lock and losing it touch no decision but those of a process that ends.
LEMMA LockTimed ==
  ASSUME IInv, TInv, NEW p \in Processes, Lock(p)
  PROVE  TInv'
  <1>1. /\ UNCHANGED <<jws, tombs, now, addedAt, endedAt>>
        /\ (raced => raced')
        /\ pc' = [pc EXCEPT ![p] = pc'[p]] /\ pc'[p] \in Starting \cup {"idle"}
        /\ cache' = cache \/ cache' = [q \in Proxies |-> IF q = p THEN <<>> ELSE cache[q]]
        /\ UNCHANGED local \/ (p \in Proxies /\ Forget(p))
    BY DEF Lock, Acquire, FindStale, RemoveStale, Refused, Release, Crash, Gone, OnlyLock, store,
           Moves, Starting, IInv, Typed
  <1>2. ASSUME NEW r \in Proxies PROVE Timed(r)'
    <2>1. \A i \in DOMAIN cache'[r] : \E j \in DOMAIN cache[r] : cache'[r][i] = cache[r][j]
      BY <1>1
    <2>2. CASE r = p
      <3>1. ~Deciding(r)'
        BY <1>1, <2>2 DEF IInv, Typed, Processes, Deciding, Starting
      <3>. QED  BY <1>1, <2>1, <3>1, StillTimed DEF TInv
    <2>3. CASE r # p
      <3>1. /\ pc'[r] = pc[r] /\ asked'[r] = asked[r] /\ since'[r] = since[r]
            /\ revoked'[r] = revoked[r] /\ listing'[r] = listing[r]
            /\ replayed'[r] = replayed[r] /\ verdict'[r] = verdict[r]
        BY <1>1, <2>3 DEF IInv, Typed, Processes, local, Forget
      <3>. QED  BY <1>1, <2>1, <3>1, StillTimed DEF TInv
    <2>. QED  BY <2>2, <2>3
  <1>3. Dated'
    BY <1>1 DEF TInv, Dated
  <1>. QED  BY <1>2, <1>3 DEF TInv

\* A process past the lock is alone with it, or there was a race.
LEMMA AloneUnlessRaced ==
  ASSUME IInv, NEW p \in Processes, pc[p] = "idle", NEW r \in Proxies, r # p
  PROVE  raced \/ (~Deciding(r) /\ DOMAIN cache[r] = {})
  <1>. SUFFICES ASSUME ~raced PROVE ~Deciding(r) /\ DOMAIN cache[r] = {}
    OBVIOUS
  <1>1. Up(p) /\ lock = p
    BY DEF IInv, Locked, Up, Starting
  <1>2. ~Up(r)
    BY <1>1 DEF IInv, Locked, Processes
  <1>. QED  BY <1>2 DEF IInv, Caches, Up, Deciding, Starting

\* A grant is added: by another process only in a race, and by this one only
\* for calls of which the cache does not say that they want a grant.
LEMMA MintTimed ==
  ASSUME IInv, TInv, NEW p \in Processes, pc[p] = "idle", NEW g \in Grants, Mint(g),
         p \in Proxies => \A q \in BoundTo[g] : Approvable(q)
  PROVE  TInv'
  <1>1. /\ g \notin jws \cup tombs
        /\ jws' = jws \cup {g}
        /\ addedAt' = [addedAt EXCEPT ![g] = now]
        /\ UNCHANGED <<tombs, now, cache, pc, asked, since, revoked, listing, replayed, verdict, endedAt, raced>>
    BY DEF Mint, local
  <1>2. now \in Nat /\ Slack \in Nat
    BY Times DEF TInv
  <1>3. /\ addedAt'[g] = now /\ \A h \in Grants : h # g => addedAt'[h] = addedAt[h]
        /\ Dated'
    BY <1>1, <1>2 DEF TInv, Dated
  <1>4. \A q : Standing(q)' \subseteq Standing(q) \cup (IF q \in BoundTo[g] THEN {g} ELSE {})
    BY <1>1 DEF Standing
  <1>5. \A q : Standing(q)' \subseteq Grants
    BY <1>1 DEF Standing, IInv, Typed
  <1>6. ASSUME NEW r \in Proxies PROVE Underway(r)'
    <2>. SUFFICES ASSUME Deciding(r) PROVE Underway(r)'
      BY <1>1 DEF Underway, Deciding
    <2>1. Underway(r) /\ since[r] \in Nat /\ since[r] <= now
      BY Times DEF TInv, Timed
    <2>2. raced
      BY AloneUnlessRaced DEF Deciding
    <2>3. ASSUME pc[r] # "listing", NEW h \in Standing(asked[r])', since[r] < Exp[h]
          PROVE  Collected(r, h) \/ (raced /\ since[r] <= addedAt'[h])
      <3>1. CASE h = g
        BY <1>3, <2>1, <2>2, <3>1
      <3>2. CASE h # g
        BY <1>1, <1>3, <1>4, <1>5, <2>1, <2>3, <3>2 DEF Underway
      <3>. QED  BY <3>1, <3>2
    <2>. QED  BY <1>1, <2>1, <2>3 DEF Underway, Collected
  <1>7. ASSUME NEW r \in Proxies PROVE Judged(r)'
    BY <1>1 DEF TInv, Timed, Judged, Wanting, Collected
  <1>8. ASSUME NEW r \in Proxies, NEW i \in DOMAIN cache[r] PROVE Timely(cache[r][i])'
    <2>. DEFINE e    == cache[r][i]
                life == Ttl[Tier(e.key)]
    <2>1. /\ Timely(e) /\ e.key \in Requests /\ e.expires \in Nat
          /\ life \in Nat
      BY Times DEF TInv, Timed, Timely
    <2>2. ASSUME e.decision.reason = "no_grant_sensitive", NEW h \in Standing(e.key)', now < Exp[h]
          PROVE  raced /\ e.expires <= addedAt'[h] + Slack + life
      <3>1. CASE h # g
        BY <1>1, <1>3, <1>4, <1>5, <2>1, <2>2, <3>1 DEF Timely
      <3>2. CASE h = g /\ r = p
        <4>1. /\ LeftToGrants(PolicyOf[e.key], Envelope) /\ Tier(e.key) = "sensitive"
          BY <2>1, <2>2 DEF Timely, Wanting
        <4>2. PolicyOf[e.key] \in Policies /\ Envelope \in Envelopes
          BY <2>1, DeciderAssumption
        <4>3. ~Approvable(e.key)
          BY <4>1, <4>2, SensitiveDoesNotPend DEF Approvable, Tier
        <4>4. e.key \in BoundTo[g]
          BY <1>1, <2>2, <3>2 DEF Standing
        <4>. QED  BY <3>2, <4>3, <4>4
      <3>3. CASE h = g /\ r # p
        <4>1. raced
          BY <3>3, AloneUnlessRaced
        <4>2. e.expires <= now + life
          BY <2>1 DEF Timely
        <4>. QED  BY <1>2, <1>3, <2>1, <3>3, <4>1, <4>2
      <3>. QED  BY <3>1, <3>2, <3>3
    <2>. QED  BY <1>1, <2>1, <2>2 DEF Timely, Wanting, EndOf
  <1>. QED  BY <1>1, <1>3, <1>6, <1>7, <1>8 DEF TInv, Timed

\* A grant is revoked: what rests on it was fresh until now.
LEMMA EntombTimed ==
  ASSUME IInv, TInv, NEW g \in Grants, Entomb(g),
         \A r \in Proxies : \A i \in DOMAIN cache'[r] :
            \E j \in DOMAIN cache[r] : cache'[r][i] = cache[r][j]
  PROVE  TInv'
  <1>1. /\ g \notin tombs /\ tombs' = tombs \cup {g}
        /\ endedAt' = [endedAt EXCEPT ![g] = now]
        /\ UNCHANGED <<jws, now, pc, asked, since, revoked, listing, replayed, verdict, addedAt, raced>>
    BY DEF Entomb, local, history
  <1>2. now \in Nat /\ Slack \in Nat
    BY Times DEF TInv
  <1>3. /\ endedAt'[g] = now /\ \A h \in Grants : h # g => endedAt'[h] = endedAt[h]
        /\ Dated'
    BY <1>1, <1>2 DEF TInv, Dated
  <1>4. \A q : Standing(q)' \subseteq Standing(q)
    BY <1>1 DEF Standing
  <1>5. ASSUME NEW r \in Proxies PROVE Underway(r)'
    <2>. SUFFICES ASSUME Deciding(r) PROVE Underway(r)'
      BY <1>1 DEF Underway, Deciding
    <2>1. Underway(r) /\ since[r] \in Nat /\ since[r] <= now
      BY Times DEF TInv, Timed
    <2>2. \A h \in Grants \ revoked[r] : since[r] <= endedAt'[h]
      BY <1>3, <2>1 DEF Underway
    <2>. QED  BY <1>1, <1>4, <2>1, <2>2 DEF Underway, Collected
  <1>6. ASSUME NEW r \in Proxies PROVE Judged(r)'
    BY <1>1 DEF TInv, Timed, Judged, Wanting, Collected
  <1>7. ASSUME NEW r \in Proxies, NEW i \in DOMAIN cache'[r] PROVE Timely(cache[r][i])'
    <2>1. PICK j \in DOMAIN cache[r] : cache'[r][i] = cache[r][j]
      OBVIOUS
    <2>2. PICK e, life : e = cache[r][j] /\ life = Ttl[Tier(e.key)]
      OBVIOUS
    <2>3. /\ Timely(e) /\ e.key \in Requests /\ e.expires \in Nat /\ e.decision \in Decisions
          /\ life \in Nat /\ e.expires <= now + life
      BY <2>2, Times DEF TInv, Timed, Timely
    <2>4. ASSUME NEW h, h = e.decision.grantRef, e.decision.outcome = "allow", h # NoGrant
          PROVE  e.expires <= EndOf(h)' + Slack + life
      <3>1. h \in Grants
        BY <2>3, <2>4 DEF Decisions
      <3>2. e.expires <= EndOf(h) + Slack + life
        BY <2>2, <2>3, <2>4 DEF Timely
      <3>3. Exp[h] \in Nat /\ endedAt[h] \in Nat /\ (endedAt'[h] = endedAt[h] \/ endedAt'[h] = now)
        BY <1>3, <3>1, Times DEF TInv
      <3>. QED  BY <1>2, <2>3, <3>2, <3>3 DEF EndOf
    <2>5. Timely(e)'
      BY <1>1, <1>4, <2>2, <2>3, <2>4 DEF Timely, Wanting
    <2>. QED  BY <2>1, <2>2, <2>5 DEF Timely, Wanting, Standing, EndOf
  <1>. QED  BY <1>3, <1>5, <1>6, <1>7 DEF TInv, Timed

LEMMA OutsideTimed ==
  ASSUME IInv, TInv, Tick \/ (\E g \in Grants : Unlink(g)) \/ UNCHANGED vars
  PROVE  TInv'
  <1>1. /\ tombs' = tombs /\ jws' \subseteq jws /\ now' \in Nat /\ now <= now'
        /\ \A p \in Proxies : Deciding(p) => now' <= since[p] + Slack
        /\ UNCHANGED <<cache, pc, asked, since, revoked, listing, replayed, verdict, addedAt, endedAt, raced>>
    <2>1. now \in Nat /\ Slack \in Nat /\ \A p \in Proxies : since[p] \in Nat
      BY Times DEF TInv
    <2>2. \A p \in Proxies : Deciding(p) => now <= since[p] + Slack
      BY DEF TInv, Timed, Underway
    <2>3. CASE Tick
      BY <2>1, <2>3 DEF Tick, store, local, history
    <2>4. CASE \E g \in Grants : Unlink(g)
      BY <2>1, <2>2, <2>4 DEF Unlink, local
    <2>5. CASE UNCHANGED vars
      BY <2>1, <2>2, <2>5 DEF vars, store, local, history
    <2>. QED  BY <2>3, <2>4, <2>5
  <1>2. \A q : Standing(q)' \subseteq Standing(q)
    BY <1>1 DEF Standing
  <1>3. now \in Nat /\ \A q : Standing(q) \subseteq Grants
    BY Times DEF TInv, Standing, IInv, Typed
  <1>4. Dated'
    BY <1>1 DEF TInv, Dated
  <1>5. ASSUME NEW r \in Proxies PROVE Underway(r)'
    BY <1>1, <1>2 DEF TInv, Timed, Underway, Collected, Deciding
  <1>6. ASSUME NEW r \in Proxies PROVE Judged(r)'
    BY <1>1 DEF TInv, Timed, Judged, Wanting, Collected
  <1>7. ASSUME NEW r \in Proxies, NEW i \in DOMAIN cache[r] PROVE Timely(cache[r][i])'
    <2>. DEFINE e    == cache[r][i]
                life == Ttl[Tier(e.key)]
    <2>1. Timely(e) /\ e.expires \in Nat /\ life \in Nat
      BY Times DEF TInv, Timed, Timely
    <2>2. e.expires <= now' + life
      BY <1>1, <1>3, <2>1 DEF Timely
    <2>3. \A g \in Standing(e.key)' : now' < Exp[g] => g \in Standing(e.key) /\ now < Exp[g]
      <3>1. \A g \in Grants : Exp[g] \in Nat
        BY Times DEF TInv
      <3>. QED  BY <1>1, <1>2, <1>3, <3>1
    <2>. QED  BY <1>1, <2>1, <2>2, <2>3 DEF Timely, Wanting, EndOf
  <1>. QED  BY <1>1, <1>4, <1>5, <1>6, <1>7 DEF TInv, Timed

LEMMA NextTimed ==
  ASSUME IInv, TInv, [Next]_vars
  PROVE  TInv'
  <1>1. ASSUME NEW p \in Proxies, Proxy(p) PROVE TInv'
    <2>1. CASE \E q \in Requests : Hit(p, q) \/ Miss(p, q)
      BY <2>1, HitTimed, MissTimed
    <2>2. CASE ReadGrants(p) \/ Stand(p) \/ Consume(p) \/ LoseRace(p) \/ Conclude(p)
      BY <2>2, ReadGrantsTimed, StandTimed, LoseRaceTimed, ConcludeTimed
    <2>3. ASSUME NEW g \in Grants, MintOnApproval(p, g) PROVE TInv'
      BY <2>3, MintTimed DEF MintOnApproval, Processes
    <2>4. ASSUME NEW g \in Grants, RevokeInProxy(p, g) PROVE TInv'
      <3>1. cache' = [cache EXCEPT ![p] = <<>>]
        BY <2>4 DEF RevokeInProxy, BumpGrantSetVersion
      <3>2. \A r \in Proxies : cache'[r] = cache[r] \/ cache'[r] = <<>>
        BY <3>1 DEF IInv, Typed
      <3>. QED  BY <2>4, <3>2, EntombTimed DEF RevokeInProxy
    <2>. QED  BY <1>1, <2>1, <2>2, <2>3, <2>4 DEF Proxy
  <1>2. ASSUME NEW c \in Clis, NEW g \in Grants, MintByCli(c, g) PROVE TInv'
    BY <1>2, MintTimed, DeciderAssumption DEF MintByCli, Processes
  <1>3. ASSUME NEW c \in Clis, NEW g \in Grants, RevokeByCli(c, g) PROVE TInv'
    BY <1>3, EntombTimed DEF RevokeByCli
  <1>4. ASSUME NEW p \in Processes, Lock(p) PROVE TInv'
    BY <1>4, LockTimed
  <1>5. CASE Tick \/ (\E g \in Grants : Unlink(g)) \/ UNCHANGED vars
    BY <1>5, OutsideTimed
  <1>. QED  BY <1>1, <1>2, <1>3, <1>4, <1>5 DEF Next, Cli

\* The second invariant: no decision under way, no verdict and no cache entry
\* is older than it may be, and none has missed a grant it had to see.
THEOREM TimesKept == Spec => []TInv
  <1>1. Init => TInv
    BY DatedInit
  <1>2. IInv /\ TInv /\ [Next]_vars => TInv'
    BY NextTimed
  <1>. QED  BY <1>1, <1>2, Invariance, PTL DEF Spec

\* A denial is what the cache or the listing said, too, unless it is for want
\* of an audit line.
LEMMA DenialsRest ==
  ASSUME IInv, Next, answer'.outcome = "deny", answer'.reason # "audit_unavailable"
  PROVE  \/ \E p \in Proxies, q \in Requests : \E i \in Hits(p, q) :
              Tells(cache[p][i].decision, q, TRUE, tombs)
         \/ \E p \in Proxies :
              pc[p] = "auditing" /\ Tells(verdict[p], asked[p], FALSE, revoked[p])
  <1>1. ASSUME NEW d, NEW written \in BOOLEAN, answer'.reason = Audited(d, written).reason
        PROVE  Audited(d, written) = d
    BY <1>1 DEF Audited, Answer
  <1>2. answer'.outcome \in Outcomes
    BY DEF Outcomes
  <1>. QED  BY <1>1, <1>2, AnswersRest DEF Tells

\* What a listing that was said to have nothing for a call had missed.
LEMMA MissedMeansRaced ==
  ASSUME IInv, TInv, NEW p \in Proxies, pc[p] = "auditing",
         verdict[p].reason \in {"no_grant_sensitive", "grant_replayed"},
         NEW g \in Standing(asked[p]), now < Exp[g],
         Covers(CappedBy(Cap[g], Envelope.ceiling), Tier(asked[p]))
           \/ verdict[p].reason = "no_grant_sensitive"
  PROVE  raced /\ now <= addedAt[g] + Slack
  <1>1. Underway(p) /\ Judged(p) /\ Deciding(p)
    BY DEF TInv, Timed, Deciding
  <1>2. ~Collected(p, g)
    <2>1. CASE verdict[p].reason = "no_grant_sensitive"
      BY <1>1, <2>1 DEF Judged, Collected
    <2>2. CASE verdict[p].reason = "grant_replayed"
      BY <1>1, <2>2 DEF Judged, Collected
    <2>. QED  BY <2>1, <2>2
  <1>3. g \in Grants
    BY DEF Standing, IInv, Typed
  <1>4. /\ now \in Nat /\ Slack \in Nat /\ since[p] \in Nat /\ since[p] <= now
        /\ Exp[g] \in Nat /\ addedAt[g] \in Nat
    BY <1>3, Times DEF TInv
  <1>5. raced /\ since[p] <= addedAt[g]
    BY <1>1, <1>2, <1>4 DEF Underway
  <1>6. now <= since[p] + Slack
    BY <1>1 DEF Underway
  <1>. QED  BY <1>4, <1>5, <1>6

\* "A cached decision can never outlive a revocation by more than one TTL
\* window" (revocation-claims.md), nor an expiry, nor the arrival of a grant,
\* whoever else writes and however the caches are filled.
THEOREM StalenessIsBounded == Spec => []StalenessBounded
  <1>1. Init => StalenessBounded
    BY DEF Init, StalenessBounded, AllowStalenessBounded, DenialStalenessBounded, Allows, NoAnswer
  <1>2. ASSUME IInv, TInv, Next, Allows' PROVE AllowStalenessBounded'
    <2>1. UNCHANGED <<now, endedAt>>
      BY <1>2, AllowsRest DEF Tells
    <2>2. ASSUME NEW p \in Proxies, NEW q \in Requests, NEW i \in Hits(p, q),
                 Tells(cache[p][i].decision, q, TRUE, tombs)
          PROVE  answer'.hit /\ now < EndOf(answer.grantRef)' + Slack + Ttl[Tier(answer'.request)]
      <3>. DEFINE e == cache[p][i]
      <3>1. /\ i \in DOMAIN cache[p] /\ e.key = q /\ now < e.expires
            /\ answer'.grantRef = e.decision.grantRef
            /\ answer'.hit = TRUE /\ answer'.request = q /\ answer'.outcome = e.decision.outcome
        BY <2>2 DEF Hits, CachedFor, IsLive, Tells
      <3>2. Timely(e) /\ e.expires \in Nat /\ now \in Nat /\ Slack \in Nat /\ e.decision \in Decisions
        BY <1>2, <3>1, Times DEF TInv, Timed
      <3>3. e.decision.outcome = "allow" /\ e.decision.grantRef # NoGrant
        BY <1>2, <3>1 DEF Allows
      <3>4. e.expires <= EndOf(e.decision.grantRef) + Slack + Ttl[Tier(q)]
        BY <3>1, <3>2, <3>3 DEF Timely
      <3>5. Tier(q) \in {"routine", "sensitive"} /\ e.decision.grantRef \in Grants
        BY <3>1, <3>2, <3>3 DEF Timely, Decisions
      <3>6. /\ EndOf(e.decision.grantRef) \in Nat /\ Ttl[Tier(q)] \in Nat
        BY <1>2, <3>5, Times DEF TInv, EndOf
      <3>7. now < EndOf(e.decision.grantRef) + Slack + Ttl[Tier(q)]
        BY <3>1, <3>2, <3>4, <3>6
      <3>8. EndOf(answer.grantRef)' = EndOf(e.decision.grantRef)
        BY <2>1, <3>1 DEF EndOf
      <3>. QED  BY <3>1, <3>7, <3>8 DEF Tier
    <2>3. ASSUME NEW p \in Proxies, pc[p] = "auditing", Tells(verdict[p], asked[p], FALSE, revoked[p])
          PROVE  now <= EndOf(answer.grantRef)' + Slack
      <3>. DEFINE g == verdict[p].grantRef
      <3>1. /\ Underway(p) /\ Judged(p) /\ Deciding(p)
            /\ verdict[p] \in Decisions /\ g \notin revoked[p]
            /\ answer'.grantRef = g
        BY <1>2, <2>3 DEF TInv, Timed, Deciding, IInv, Locals, Tells
      <3>2. g \in Grants /\ g # NoGrant
        BY <1>2, <3>1 DEF Allows, Decisions
      <3>3. Collected(p, g)
        BY <2>3, <3>1, <3>2 DEF Judged
      <3>4. now <= since[p] + Slack /\ since[p] <= endedAt[g] /\ since[p] < Exp[g]
        BY <3>1, <3>2, <3>3 DEF Underway, Collected
      <3>5. /\ now \in Nat /\ Slack \in Nat /\ since[p] \in Nat
            /\ Exp[g] \in Nat /\ endedAt[g] \in Nat
        BY <1>2, <3>2, Times DEF TInv
      <3>6. now <= EndOf(g) + Slack
        BY <3>4, <3>5 DEF EndOf
      <3>7. EndOf(answer.grantRef)' = EndOf(g)
        BY <2>1, <3>1 DEF EndOf
      <3>. QED  BY <3>6, <3>7
    <2>4. \/ answer'.hit /\ now < EndOf(answer.grantRef)' + Slack + Ttl[Tier(answer'.request)]
          \/ now <= EndOf(answer.grantRef)' + Slack
      BY <1>2, <2>2, <2>3, AllowsRest
    <2>. QED  BY <2>1, <2>4 DEF AllowStalenessBounded, Tier
  <1>3. ASSUME IInv, TInv, Next, answer'.outcome = "deny",
               answer'.reason \in {"no_grant_sensitive", "grant_replayed"}
        PROVE  DenialStalenessBounded'
    <2>1. UNCHANGED <<store, now, addedAt>>
      BY <1>3, DenialsRest DEF Tells
    <2>. SUFFICES ASSUME NEW g \in (jws \ tombs) \ SingleUse,
                         answer'.request \in BoundTo[g],
                         Covers(CappedBy(Cap[g], Envelope.ceiling), Tier(answer'.request)),
                         now < Exp[g]
                  PROVE  \/ now <= addedAt[g] + Slack
                         \/ /\ answer'.hit
                            /\ answer'.reason = "no_grant_sensitive"
                            /\ now < addedAt[g] + Slack + Ttl[Tier(answer'.request)]
      BY <2>1 DEF DenialStalenessBounded, Tier, store
    <2>2. g \in Standing(answer'.request) /\ g \in Grants
      BY <1>3 DEF Standing, IInv, Typed
    <2>3. ASSUME NEW p \in Proxies, NEW q \in Requests, NEW i \in Hits(p, q),
                 Tells(cache[p][i].decision, q, TRUE, tombs)
          PROVE  /\ answer'.hit /\ answer'.reason = "no_grant_sensitive"
                 /\ now < addedAt[g] + Slack + Ttl[Tier(answer'.request)]
      <3>. DEFINE e == cache[p][i]
      <3>1. /\ i \in DOMAIN cache[p] /\ e.key = q /\ now < e.expires
            /\ answer'.hit = TRUE /\ answer'.request = q /\ answer'.reason = e.decision.reason
        BY <2>3 DEF Hits, CachedFor, IsLive, Tells
      <3>2. Timely(e) /\ e.expires \in Nat /\ now \in Nat /\ Slack \in Nat
        BY <1>3, <3>1, Times DEF TInv, Timed
      <3>3. e.decision.reason = "no_grant_sensitive"
        BY <1>3, <3>1, <3>2 DEF Timely
      <3>4. e.expires <= addedAt[g] + Slack + Ttl[Tier(q)]
        BY <2>2, <3>1, <3>2, <3>3 DEF Timely
      <3>5. addedAt[g] \in Nat /\ Ttl[Tier(q)] \in Nat
        BY <1>3, <2>2, <3>1, <3>2, Times DEF TInv, Timely
      <3>6. now < addedAt[g] + Slack + Ttl[Tier(q)]
        BY <3>1, <3>2, <3>4, <3>5
      <3>. QED  BY <3>1, <3>3, <3>6
    <2>4. ASSUME NEW p \in Proxies, pc[p] = "auditing", Tells(verdict[p], asked[p], FALSE, revoked[p])
          PROVE  now <= addedAt[g] + Slack
      <3>1. answer'.request = asked[p] /\ answer'.reason = verdict[p].reason
        BY <2>4 DEF Tells
      <3>. QED  BY <1>3, <2>2, <2>4, <3>1, MissedMeansRaced
    <2>. QED  BY <1>3, <2>3, <2>4, DenialsRest
  <1>4. ASSUME UNCHANGED vars, StalenessBounded PROVE StalenessBounded'
    BY <1>4 DEF StalenessBounded, AllowStalenessBounded, DenialStalenessBounded, Allows, Tier, EndOf,
                vars, store, history
  <1>5. IInv /\ TInv /\ StalenessBounded /\ [Next]_vars => StalenessBounded'
    BY <1>2, <1>3, <1>4 DEF StalenessBounded, AllowStalenessBounded, DenialStalenessBounded
  <1>. QED  BY <1>1, <1>5, Invariance, TimesKept, PTL DEF Spec

\* A grant that was added is obeyed by the next decision, from a cache or not,
\* for as long as the lock keeps other writers out.
THEOREM GrantIsObeyed == Spec => []GrantedByNextDecision
  <1>1. Init => GrantedByNextDecision
    BY DEF Init, GrantedByNextDecision, NoAnswer
  <1>2. ASSUME IInv, TInv, Next, ~raced', answer'.outcome = "deny",
               answer'.reason = "no_grant_sensitive"
        PROVE  GrantedByNextDecision'
    <2>1. UNCHANGED <<store, now, raced>>
      BY <1>2, DenialsRest DEF Tells
    <2>. SUFFICES ASSUME NEW g \in (jws \ tombs) \ SingleUse, answer'.request \in BoundTo[g],
                         ~(Exp[g] <= now)
                  PROVE  FALSE
      BY <2>1 DEF GrantedByNextDecision, store
    <2>2. g \in Standing(answer'.request) /\ g \in Grants
      BY <1>2 DEF Standing, IInv, Typed
    <2>3. now < Exp[g]
      BY <1>2, <2>2, Times DEF TInv
    <2>4. ASSUME NEW p \in Proxies, NEW q \in Requests, NEW i \in Hits(p, q),
                 Tells(cache[p][i].decision, q, TRUE, tombs)
          PROVE  FALSE
      <3>1. i \in DOMAIN cache[p] /\ cache[p][i].key = q /\ answer'.request = q
            /\ answer'.reason = cache[p][i].decision.reason
        BY <2>4 DEF Hits, CachedFor, Tells
      <3>2. Timely(cache[p][i])
        BY <1>2, <3>1 DEF TInv, Timed
      <3>. QED  BY <1>2, <2>1, <2>2, <2>3, <3>1, <3>2 DEF Timely
    <2>5. ASSUME NEW p \in Proxies, pc[p] = "auditing", Tells(verdict[p], asked[p], FALSE, revoked[p])
          PROVE  FALSE
      <3>1. answer'.request = asked[p] /\ answer'.reason = verdict[p].reason
        BY <2>5 DEF Tells
      <3>. QED  BY <1>2, <2>1, <2>2, <2>3, <2>5, <3>1, MissedMeansRaced
    <2>. QED  BY <1>2, <2>4, <2>5, DenialsRest
  <1>3. ASSUME UNCHANGED vars, GrantedByNextDecision PROVE GrantedByNextDecision'
    BY <1>3 DEF GrantedByNextDecision, vars, store, history
  <1>4. IInv /\ TInv /\ GrantedByNextDecision /\ [Next]_vars => GrantedByNextDecision'
    BY <1>2, <1>3 DEF GrantedByNextDecision
  <1>. QED  BY <1>1, <1>4, Invariance, TimesKept, PTL DEF Spec
=============================================================================
