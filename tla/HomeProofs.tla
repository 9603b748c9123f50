----------------------------- MODULE HomeProofs -----------------------------
(***************************************************************************)
(* Proofs about the parts around the proxy, each of them alone, and about  *)
(* the types of them all (Home).                                           *)
(***************************************************************************)
EXTENDS Home, TLAPS

-----------------------------------------------------------------------------
(* The grant store: what a look returns is a regular reading of the ledger   
   although it is three unlocked passes, and revokeGrants leaves nothing in
   force.                                                                    *)


(***************************************************************************)
(* The inductive invariant.  Fresh and Marked tie the history to the disk; *)
(* the others follow a look through its passes: what it may return was in  *)
(* force at some moment of it (Sighted), what was in force all along is    *)
(* still on its way to being returned (Kept).                              *)
(***************************************************************************)
Fresh ==
    /\ files \subseteq used /\ tombs \subseteq used
    /\ \A c \in Clients : names[c] \subseteq used /\ found[c] \subseteq used

Marked == \A g \in Grants : g \in marks <=> wins[g] = 1

Witnesses(c) ==
    /\ steady[c] \subseteq Active
    /\ steady[c] \subseteq scope[c]
    /\ Active \cap scope[c] \subseteq ever[c]

\* A file whose tombstone this look has looked for and not found was in force
\* when it looked; what it has listed so far was too.
Sighted(c) ==
    /\ pc[c] \in Looking => seen[c] \subseteq tombs
    /\ pc[c] = "tombstones" => (files \cap scope[c]) \ (left[c] \cup seen[c]) \subseteq ever[c]
    /\ pc[c] \in {"filenames", "reading"} => (files \cap scope[c]) \ seen[c] \subseteq ever[c]
    /\ pc[c] = "filenames" => left[c] \subseteq scope[c]
    /\ pc[c] \in Looking => names[c] \subseteq ever[c] /\ found[c] \subseteq ever[c]

Kept(c) ==
    /\ pc[c] = "filenames" => steady[c] \subseteq names[c] \cup left[c]
    /\ pc[c] = "reading" => steady[c] \subseteq names[c] \cup found[c]
    /\ pc[c] \in {"returned", "unlinking"} => steady[c] \subseteq found[c]
    /\ pc[c] = "revoked" => steady[c] = {}
    /\ pc[c] = "unlinking" => current[c] \in tombs

IInv ==
    /\ TypeOK
    /\ Fresh
    /\ Marked
    /\ \A c \in Clients : Witnesses(c) /\ Sighted(c) /\ Kept(c)

\* Put preserves the invariant.
LEMMA PutKeeps ==
    ASSUME NEW g \in Grants, IInv, Put(g)
    PROVE  IInv'
<1>1. TypeOK'
  BY NoGrantAssumption DEF IInv, TypeOK, Looking, Told, Put, Witnessed, Active, disk, look, history
<1>2. Fresh'
  BY DEF IInv, TypeOK, Fresh, Put, Witnessed, Active, disk, look, history
<1>3. Marked'
  BY DEF IInv, TypeOK, Marked, Put, Witnessed, Active, disk, look, history
<1>4. ASSUME NEW d \in Clients
      PROVE  Witnesses(d)'
  BY DEF IInv, TypeOK, Fresh, Witnesses, Active, Put, Witnessed, Active, disk, look, history
<1>5. ASSUME NEW d \in Clients
      PROVE  Sighted(d)'
  BY <1>4 DEF IInv, TypeOK, Fresh, Witnesses, Sighted, Active, Looking, Put, Witnessed, Active, disk, look, history
<1>6. ASSUME NEW d \in Clients
      PROVE  Kept(d)'
  BY <1>4 DEF IInv, TypeOK, Fresh, Witnesses, Sighted, Kept, Active, Looking, Told, Put, Witnessed, Active, disk, look, history
<1>7. QED
  BY <1>1, <1>2, <1>3, <1>4, <1>5, <1>6 DEF IInv

\* Remove preserves the invariant.
LEMMA RemoveKeeps ==
    ASSUME NEW g \in Grants, IInv, Remove(g)
    PROVE  IInv'
<1>1. TypeOK'
  BY NoGrantAssumption DEF IInv, TypeOK, Looking, Told, Remove, Witnessed, Active, disk, look, history
<1>2. Fresh'
  BY DEF IInv, TypeOK, Fresh, Remove, Witnessed, Active, disk, look, history
<1>3. Marked'
  BY DEF IInv, TypeOK, Marked, Remove, Witnessed, Active, disk, look, history
<1>4. ASSUME NEW d \in Clients
      PROVE  Witnesses(d)'
  BY DEF IInv, TypeOK, Fresh, Witnesses, Active, Remove, Witnessed, Active, disk, look, history
<1>5. ASSUME NEW d \in Clients
      PROVE  Sighted(d)'
  BY <1>4 DEF IInv, TypeOK, Fresh, Witnesses, Sighted, Active, Looking, Remove, Witnessed, Active, disk, look, history
<1>6. ASSUME NEW d \in Clients
      PROVE  Kept(d)'
  BY <1>4 DEF IInv, TypeOK, Fresh, Witnesses, Sighted, Kept, Active, Looking, Told, Remove, Witnessed, Active, disk, look, history
<1>7. QED
  BY <1>1, <1>2, <1>3, <1>4, <1>5, <1>6 DEF IInv

\* ConsumeOnce preserves the invariant.
LEMMA ConsumeOnceKeeps ==
    ASSUME NEW g \in Grants, IInv, ConsumeOnce(g)
    PROVE  IInv'
<1>1. TypeOK'
  BY NoGrantAssumption DEF IInv, TypeOK, Marked, Looking, Told, ConsumeOnce, MarkedFirst, disk, look, history
<1>2. Fresh'
  BY DEF IInv, TypeOK, Fresh, ConsumeOnce, MarkedFirst, disk, look, history
<1>3. Marked'
  BY DEF IInv, TypeOK, Marked, ConsumeOnce, MarkedFirst, disk, look, history
<1>4. ASSUME NEW d \in Clients
      PROVE  Witnesses(d)'
  BY DEF IInv, TypeOK, Fresh, Witnesses, Active, ConsumeOnce, MarkedFirst, disk, look, history
<1>5. ASSUME NEW d \in Clients
      PROVE  Sighted(d)'
  BY <1>4 DEF IInv, TypeOK, Fresh, Witnesses, Sighted, Active, Looking, ConsumeOnce, MarkedFirst, disk, look, history
<1>6. ASSUME NEW d \in Clients
      PROVE  Kept(d)'
  BY <1>4 DEF IInv, TypeOK, Fresh, Witnesses, Sighted, Kept, Active, Looking, Told, ConsumeOnce, MarkedFirst, disk, look, history
<1>7. QED
  BY <1>1, <1>2, <1>3, <1>4, <1>5, <1>6 DEF IInv

\* StartLook preserves the invariant.
LEMMA StartLookKeeps ==
    ASSUME NEW c \in Clients, NEW S \in Scopes, IInv, StartLook(c, S)
    PROVE  IInv'
<1>1. TypeOK'
  BY ScopesAssumption, NoGrantAssumption DEF IInv, TypeOK, Looking, Told, StartLook, Goto, disk, look, history
<1>2. Fresh'
  BY DEF IInv, TypeOK, Fresh, StartLook, Goto, disk, look, history
<1>3. Marked'
  BY DEF IInv, TypeOK, Marked, StartLook, Goto, disk, look, history
<1>4. ASSUME NEW d \in Clients
      PROVE  Witnesses(d)'
  BY DEF IInv, TypeOK, Fresh, Witnesses, Active, StartLook, Goto, disk, look, history
<1>5. ASSUME NEW d \in Clients
      PROVE  Sighted(d)'
  BY <1>4 DEF IInv, TypeOK, Fresh, Witnesses, Sighted, Active, Looking, StartLook, Goto, disk, look, history
<1>6. ASSUME NEW d \in Clients
      PROVE  Kept(d)'
  BY <1>4 DEF IInv, TypeOK, Fresh, Witnesses, Sighted, Kept, Active, Looking, Told, StartLook, Goto, disk, look, history
<1>7. QED
  BY <1>1, <1>2, <1>3, <1>4, <1>5, <1>6 DEF IInv

\* SeeTombstone preserves the invariant.
LEMMA SeeTombstoneKeeps ==
    ASSUME NEW c \in Clients, NEW g \in Grants, IInv, SeeTombstone(c, g)
    PROVE  IInv'
<1>1. TypeOK'
  BY NoGrantAssumption DEF IInv, TypeOK, Looking, Told, SeeTombstone, Visit, disk, look, history
<1>2. Fresh'
  BY DEF IInv, TypeOK, Fresh, SeeTombstone, Visit, disk, look, history
<1>3. Marked'
  BY DEF IInv, TypeOK, Marked, SeeTombstone, Visit, disk, look, history
<1>4. ASSUME NEW d \in Clients
      PROVE  Witnesses(d)'
  BY DEF IInv, TypeOK, Fresh, Witnesses, Active, SeeTombstone, Visit, disk, look, history
<1>5. ASSUME NEW d \in Clients
      PROVE  Sighted(d)'
  BY <1>4 DEF IInv, TypeOK, Fresh, Witnesses, Sighted, Active, Looking, SeeTombstone, Visit, disk, look, history
<1>6. ASSUME NEW d \in Clients
      PROVE  Kept(d)'
  BY <1>4 DEF IInv, TypeOK, Fresh, Witnesses, Sighted, Kept, Active, Looking, Told, SeeTombstone, Visit, disk, look, history
<1>7. QED
  BY <1>1, <1>2, <1>3, <1>4, <1>5, <1>6 DEF IInv

\* TombstonesSeen preserves the invariant.
LEMMA TombstonesSeenKeeps ==
    ASSUME NEW c \in Clients, IInv, TombstonesSeen(c)
    PROVE  IInv'
<1>1. TypeOK'
  BY NoGrantAssumption DEF IInv, TypeOK, Looking, Told, TombstonesSeen, Goto, disk, look, history
<1>2. Fresh'
  BY DEF IInv, TypeOK, Fresh, TombstonesSeen, Goto, disk, look, history
<1>3. Marked'
  BY DEF IInv, TypeOK, Marked, TombstonesSeen, Goto, disk, look, history
<1>4. ASSUME NEW d \in Clients
      PROVE  Witnesses(d)'
  BY DEF IInv, TypeOK, Fresh, Witnesses, Active, TombstonesSeen, Goto, disk, look, history
<1>5. ASSUME NEW d \in Clients
      PROVE  Sighted(d)'
  BY <1>4 DEF IInv, TypeOK, Fresh, Witnesses, Sighted, Active, Looking, TombstonesSeen, Goto, disk, look, history
<1>6. ASSUME NEW d \in Clients
      PROVE  Kept(d)'
  BY <1>4 DEF IInv, TypeOK, Fresh, Witnesses, Sighted, Kept, Active, Looking, Told, TombstonesSeen, Goto, disk, look, history
<1>7. QED
  BY <1>1, <1>2, <1>3, <1>4, <1>5, <1>6 DEF IInv

\* SeeFilename preserves the invariant.
LEMMA SeeFilenameKeeps ==
    ASSUME NEW c \in Clients, NEW g \in Grants, IInv, SeeFilename(c, g)
    PROVE  IInv'
<1>1. TypeOK'
  BY NoGrantAssumption DEF IInv, TypeOK, Looking, Told, SeeFilename, Visit, Listed, disk, look, history
<1>2. Fresh'
  BY DEF IInv, TypeOK, Fresh, SeeFilename, Visit, Listed, disk, look, history
<1>3. Marked'
  BY DEF IInv, TypeOK, Marked, SeeFilename, Visit, Listed, disk, look, history
<1>4. ASSUME NEW d \in Clients
      PROVE  Witnesses(d)'
  BY DEF IInv, TypeOK, Fresh, Witnesses, Active, SeeFilename, Visit, Listed, disk, look, history
<1>5. ASSUME NEW d \in Clients
      PROVE  Sighted(d)'
  BY <1>4 DEF IInv, TypeOK, Fresh, Witnesses, Sighted, Active, Looking, SeeFilename, Visit, Listed, disk, look, history
<1>6. ASSUME NEW d \in Clients
      PROVE  Kept(d)'
  BY <1>4 DEF IInv, TypeOK, Fresh, Witnesses, Sighted, Kept, Active, Looking, Told, SeeFilename, Visit, Listed, disk, look, history
<1>7. QED
  BY <1>1, <1>2, <1>3, <1>4, <1>5, <1>6 DEF IInv

\* FilenamesSeen preserves the invariant.
LEMMA FilenamesSeenKeeps ==
    ASSUME NEW c \in Clients, IInv, FilenamesSeen(c)
    PROVE  IInv'
<1>1. TypeOK'
  BY NoGrantAssumption DEF IInv, TypeOK, Looking, Told, FilenamesSeen, Goto, disk, look, history
<1>2. Fresh'
  BY DEF IInv, TypeOK, Fresh, FilenamesSeen, Goto, disk, look, history
<1>3. Marked'
  BY DEF IInv, TypeOK, Marked, FilenamesSeen, Goto, disk, look, history
<1>4. ASSUME NEW d \in Clients
      PROVE  Witnesses(d)'
  BY DEF IInv, TypeOK, Fresh, Witnesses, Active, FilenamesSeen, Goto, disk, look, history
<1>5. ASSUME NEW d \in Clients
      PROVE  Sighted(d)'
  BY <1>4 DEF IInv, TypeOK, Fresh, Witnesses, Sighted, Active, Looking, FilenamesSeen, Goto, disk, look, history
<1>6. ASSUME NEW d \in Clients
      PROVE  Kept(d)'
  BY <1>4 DEF IInv, TypeOK, Fresh, Witnesses, Sighted, Kept, Active, Looking, Told, FilenamesSeen, Goto, disk, look, history
<1>7. QED
  BY <1>1, <1>2, <1>3, <1>4, <1>5, <1>6 DEF IInv

\* Read preserves the invariant.
LEMMA ReadKeeps ==
    ASSUME NEW c \in Clients, NEW g \in Grants, IInv, Read(c, g)
    PROVE  IInv'
<1>1. TypeOK'
  BY NoGrantAssumption DEF IInv, TypeOK, Looking, Told, Read, disk, look, history
<1>2. Fresh'
  BY DEF IInv, TypeOK, Fresh, Read, disk, look, history
<1>3. Marked'
  BY DEF IInv, TypeOK, Marked, Read, disk, look, history
<1>4. ASSUME NEW d \in Clients
      PROVE  Witnesses(d)'
  BY DEF IInv, TypeOK, Fresh, Witnesses, Active, Read, disk, look, history
<1>5. ASSUME NEW d \in Clients
      PROVE  Sighted(d)'
  BY <1>4 DEF IInv, TypeOK, Fresh, Witnesses, Sighted, Active, Looking, Read, disk, look, history
<1>6. ASSUME NEW d \in Clients
      PROVE  Kept(d)'
  BY <1>4 DEF IInv, TypeOK, Fresh, Witnesses, Sighted, Kept, Active, Looking, Told, Read, disk, look, history
<1>7. QED
  BY <1>1, <1>2, <1>3, <1>4, <1>5, <1>6 DEF IInv

\* Return preserves the invariant.
LEMMA ReturnKeeps ==
    ASSUME NEW c \in Clients, IInv, Return(c)
    PROVE  IInv'
<1>1. TypeOK'
  BY NoGrantAssumption DEF IInv, TypeOK, Looking, Told, Return, Goto, disk, look, history
<1>2. Fresh'
  BY DEF IInv, TypeOK, Fresh, Return, Goto, disk, look, history
<1>3. Marked'
  BY DEF IInv, TypeOK, Marked, Return, Goto, disk, look, history
<1>4. ASSUME NEW d \in Clients
      PROVE  Witnesses(d)'
  BY DEF IInv, TypeOK, Fresh, Witnesses, Active, Return, Goto, disk, look, history
<1>5. ASSUME NEW d \in Clients
      PROVE  Sighted(d)'
  BY <1>4 DEF IInv, TypeOK, Fresh, Witnesses, Sighted, Active, Looking, Return, Goto, disk, look, history
<1>6. ASSUME NEW d \in Clients
      PROVE  Kept(d)'
  BY <1>4 DEF IInv, TypeOK, Fresh, Witnesses, Sighted, Kept, Active, Looking, Told, Return, Goto, disk, look, history
<1>7. QED
  BY <1>1, <1>2, <1>3, <1>4, <1>5, <1>6 DEF IInv

\* Entomb preserves the invariant.
LEMMA EntombKeeps ==
    ASSUME NEW c \in Clients, NEW g \in Grants, IInv, Entomb(c, g)
    PROVE  IInv'
<1>1. TypeOK'
  BY NoGrantAssumption DEF IInv, TypeOK, Looking, Told, Entomb, Goto, Witnessed, disk, look, history
<1>2. Fresh'
  BY DEF IInv, TypeOK, Fresh, Entomb, Goto, Witnessed, disk, look, history
<1>3. Marked'
  BY DEF IInv, TypeOK, Marked, Entomb, Goto, Witnessed, disk, look, history
<1>4. ASSUME NEW d \in Clients
      PROVE  Witnesses(d)'
  BY DEF IInv, TypeOK, Fresh, Witnesses, Active, Entomb, Goto, Witnessed, disk, look, history
<1>5. ASSUME NEW d \in Clients
      PROVE  Sighted(d)'
  BY <1>4 DEF IInv, TypeOK, Fresh, Witnesses, Sighted, Active, Looking, Entomb, Goto, Witnessed, disk, look, history
<1>6. ASSUME NEW d \in Clients
      PROVE  Kept(d)'
  BY <1>4 DEF IInv, TypeOK, Fresh, Witnesses, Sighted, Kept, Active, Looking, Told, Entomb, Goto, Witnessed, disk, look, history
<1>7. QED
  BY <1>1, <1>2, <1>3, <1>4, <1>5, <1>6 DEF IInv

\* UnlinkAndAudit preserves the invariant.
LEMMA UnlinkAndAuditKeeps ==
    ASSUME NEW c \in Clients, IInv, UnlinkAndAudit(c)
    PROVE  IInv'
<1>1. TypeOK'
  BY NoGrantAssumption DEF IInv, TypeOK, Looking, Told, UnlinkAndAudit, Goto, ThrowEscapes, Witnessed, disk, look, history
<1>2. Fresh'
  BY DEF IInv, TypeOK, Fresh, UnlinkAndAudit, Goto, ThrowEscapes, Witnessed, disk, look, history
<1>3. Marked'
  BY DEF IInv, TypeOK, Marked, UnlinkAndAudit, Goto, ThrowEscapes, Witnessed, disk, look, history
<1>4. ASSUME NEW d \in Clients
      PROVE  Witnesses(d)'
  BY DEF IInv, TypeOK, Fresh, Witnesses, Active, UnlinkAndAudit, Goto, ThrowEscapes, Witnessed, disk, look, history
<1>5. ASSUME NEW d \in Clients
      PROVE  Sighted(d)'
  BY <1>4 DEF IInv, TypeOK, Fresh, Witnesses, Sighted, Active, Looking, UnlinkAndAudit, Goto, ThrowEscapes, Witnessed, disk, look, history
<1>6. ASSUME NEW d \in Clients
      PROVE  Kept(d)'
  BY <1>4 DEF IInv, TypeOK, Fresh, Witnesses, Sighted, Kept, Active, Looking, Told, UnlinkAndAudit, Goto, ThrowEscapes, Witnessed, disk, look, history
<1>7. QED
  BY <1>1, <1>2, <1>3, <1>4, <1>5, <1>6 DEF IInv

\* Revoked preserves the invariant.
LEMMA RevokedKeeps ==
    ASSUME NEW c \in Clients, IInv, Revoked(c)
    PROVE  IInv'
<1>1. TypeOK'
  BY NoGrantAssumption DEF IInv, TypeOK, Looking, Told, Revoked, Goto, disk, look, history
<1>2. Fresh'
  BY DEF IInv, TypeOK, Fresh, Revoked, Goto, disk, look, history
<1>3. Marked'
  BY DEF IInv, TypeOK, Marked, Revoked, Goto, disk, look, history
<1>4. ASSUME NEW d \in Clients
      PROVE  Witnesses(d)'
  BY DEF IInv, TypeOK, Fresh, Witnesses, Active, Revoked, Goto, disk, look, history
<1>5. ASSUME NEW d \in Clients
      PROVE  Sighted(d)'
  BY <1>4 DEF IInv, TypeOK, Fresh, Witnesses, Sighted, Active, Looking, Revoked, Goto, disk, look, history
<1>6. ASSUME NEW d \in Clients
      PROVE  Kept(d)'
  BY <1>4 DEF IInv, TypeOK, Fresh, Witnesses, Sighted, Kept, Active, Looking, Told, Revoked, Goto, disk, look, history
<1>7. QED
  BY <1>1, <1>2, <1>3, <1>4, <1>5, <1>6 DEF IInv

\* Leave preserves the invariant.
LEMMA LeaveKeeps ==
    ASSUME NEW c \in Clients, IInv, Leave(c)
    PROVE  IInv'
<1>1. TypeOK'
  BY NoGrantAssumption DEF IInv, TypeOK, Looking, Told, Leave, Goto, disk, look, history
<1>2. Fresh'
  BY DEF IInv, TypeOK, Fresh, Leave, Goto, disk, look, history
<1>3. Marked'
  BY DEF IInv, TypeOK, Marked, Leave, Goto, disk, look, history
<1>4. ASSUME NEW d \in Clients
      PROVE  Witnesses(d)'
  BY DEF IInv, TypeOK, Fresh, Witnesses, Active, Leave, Goto, disk, look, history
<1>5. ASSUME NEW d \in Clients
      PROVE  Sighted(d)'
  BY <1>4 DEF IInv, TypeOK, Fresh, Witnesses, Sighted, Active, Looking, Leave, Goto, disk, look, history
<1>6. ASSUME NEW d \in Clients
      PROVE  Kept(d)'
  BY <1>4 DEF IInv, TypeOK, Fresh, Witnesses, Sighted, Kept, Active, Looking, Told, Leave, Goto, disk, look, history
<1>7. QED
  BY <1>1, <1>2, <1>3, <1>4, <1>5, <1>6 DEF IInv

\* The invariant holds in every reachable state of GrantStore.
THEOREM Invariance == Spec => []IInv
<1>1. Init => IInv
  BY NoGrantAssumption
     DEF Init, IInv, TypeOK, Fresh, Marked, Witnesses, Sighted, Kept, Active, Looking, Told
<1>2. IInv /\ [Next]_vars => IInv'
  <2>1. CASE UNCHANGED vars
    BY <2>1 DEF IInv, TypeOK, Fresh, Marked, Witnesses, Sighted, Kept, Active, vars
  <2>2. ASSUME IInv, NEW g \in Grants, Put(g) \/ Remove(g) \/ ConsumeOnce(g)
        PROVE  IInv'
    BY <2>2, PutKeeps, RemoveKeeps, ConsumeOnceKeeps
  <2>3. ASSUME IInv, NEW c \in Clients, Client(c)
        PROVE  IInv'
    <3>1. ASSUME NEW S \in Scopes, StartLook(c, S)
          PROVE  IInv'
      BY <2>3, <3>1, StartLookKeeps
    <3>2. ASSUME NEW g \in Grants,
                 SeeTombstone(c, g) \/ SeeFilename(c, g) \/ Read(c, g) \/ Entomb(c, g)
          PROVE  IInv'
      BY <2>3, <3>2, SeeTombstoneKeeps, SeeFilenameKeeps, ReadKeeps, EntombKeeps
    <3>3. CASE TombstonesSeen(c) \/ FilenamesSeen(c) \/ Return(c)
      BY <2>3, <3>3, TombstonesSeenKeeps, FilenamesSeenKeeps, ReturnKeeps
    <3>4. CASE UnlinkAndAudit(c) \/ Revoked(c) \/ Leave(c)
      BY <2>3, <3>4, UnlinkAndAuditKeeps, RevokedKeeps, LeaveKeeps
    <3>5. QED
      BY <2>3, <3>1, <3>2, <3>3, <3>4 DEF Client
  <2>4. QED
    BY <2>1, <2>2, <2>3 DEF Next
<1>3. QED
  BY <1>1, <1>2, PTL DEF Spec

\* No grant is ever reported consumed twice, and every variable keeps its type.
THEOREM TypeCorrect == Spec => []TypeOK
<1>1. IInv => TypeOK
  BY DEF IInv
<1>2. QED
  BY <1>1, Invariance, PTL

\* A revokeGrants that returned without throwing left nothing of its selector
\* that was there all along in force, whatever the other processes did.
THEOREM BatchIsComplete == Spec => []RevokeLeavesNothing
<1>1. IInv => RevokeLeavesNothing
  BY DEF IInv, Kept, RevokeLeavesNothing
<1>2. QED
  BY <1>1, Invariance, PTL

-----------------------------------------------------------------------------
(* The directory implements the ledger. *)

\* A file that is put makes its grant active: it cannot have a tombstone yet.
LEMMA PutIssues ==
    ASSUME NEW g \in Grants, IInv, Put(g)
    PROVE  Ledger!Issue(g)
BY DEF IInv, Fresh, Put, Witnessed, Active, look, Ledger!Issue, Ledger!Witnessed

\* The unlink of remove() takes its grant out of force.
LEMMA RemoveRemoves ==
    ASSUME NEW g \in Grants, IInv, Remove(g)
    PROVE  Ledger!Remove(g)
BY DEF Remove, Witnessed, Active, look, Ledger!Remove, Ledger!Witnessed

\* The exclusive create wins only if nobody has won yet.
LEMMA ConsumeConsumes ==
    ASSUME NEW g \in Grants, IInv, ConsumeOnce(g)
    PROVE  Ledger!Consume(g)
<1>1. wins[g] = 0
  BY DEF IInv, TypeOK, Marked, ConsumeOnce, MarkedFirst
<1>2. wins' = [wins EXCEPT ![g] = 1]
  BY <1>1 DEF IInv, TypeOK, ConsumeOnce
<1>3. UNCHANGED <<used, Active, tombs, pc, scope, steady, ever, reply>>
  BY DEF ConsumeOnce, Active, look
<1>4. QED
  BY <1>1, <1>2, <1>3 DEF Ledger!Consume

\* The start of a look is the ledger's.
LEMMA StartBegins ==
    ASSUME NEW c \in Clients, NEW S \in Scopes, IInv, StartLook(c, S)
    PROVE  Ledger!Begin(c, S)
BY DEF IInv, TypeOK, StartLook, Goto, Active, disk, Looking, Ledger!Begin

\* What the three passes leave is a regular reading.
LEMMA ReturnTells ==
    ASSUME NEW c \in Clients, NEW S \in SUBSET Grants, S = found[c], IInv, Return(c)
    PROVE  Ledger!Tell(c, S)
BY DEF IInv, TypeOK, Sighted, Kept, Return, Goto, Active, disk, look, Looking, Ledger!Tell

\* The tombstone is the revocation.
LEMMA EntombRevokes ==
    ASSUME NEW c \in Clients, NEW g \in Grants, IInv, Entomb(c, g)
    PROVE  Ledger!Revoke(g)
BY DEF IInv, TypeOK, Fresh, Entomb, Goto, Witnessed, Active, look, Looking,
       Ledger!Revoke, Ledger!Witnessed

\* A call that is over, died or not, is closed.
LEMMA LeaveCloses ==
    ASSUME NEW c \in Clients, IInv, Leave(c)
    PROVE  Ledger!Close(c)
BY DEF IInv, TypeOK, Leave, Goto, Active, disk, Looking, Ledger!Close

\* The passes themselves are no steps of the ledger.
LEMMA PassesStutter ==
    ASSUME NEW c \in Clients, IInv,
           \/ TombstonesSeen(c) \/ FilenamesSeen(c) \/ Revoked(c)
           \/ \E g \in Grants : SeeTombstone(c, g) \/ SeeFilename(c, g) \/ Read(c, g)
    PROVE  UNCHANGED Ledger!vars
BY DEF IInv, TypeOK, TombstonesSeen, FilenamesSeen, Revoked, SeeTombstone, SeeFilename, Read,
       Visit, Goto, Active, disk, look, history, Looking, Ledger!vars

\* Nor is the unlink: the grant has its tombstone.
LEMMA UnlinkStutters ==
    ASSUME NEW c \in Clients, IInv, UnlinkAndAudit(c)
    PROVE  UNCHANGED Ledger!vars
<1>1. Active' = Active
  BY DEF IInv, Kept, UnlinkAndAudit, Active
<1>2. steady' = steady /\ ever' = ever
  BY <1>1 DEF IInv, TypeOK, Witnesses, UnlinkAndAudit, Witnessed, look
<1>3. QED
  BY <1>1, <1>2 DEF IInv, TypeOK, UnlinkAndAudit, Goto, ThrowEscapes, look, Looking, Ledger!vars

\* The directory implements the ledger: whatever processes put, remove, revoke,
\* consume and look at once, and wherever they die, every look is regular,
\* revocation is for good, and consumption is granted once.
THEOREM Implements == Spec => ImplementsLedger
<1>1. Init => Ledger!Init
  BY DEF Init, Active, Looking, Ledger!Init
<1>2. IInv /\ [Next]_vars => [Ledger!Next]_Ledger!vars
  <2>1. CASE UNCHANGED vars
    BY <2>1 DEF vars, Active, Ledger!vars
  <2>2. ASSUME IInv, NEW g \in Grants, Put(g) \/ Remove(g) \/ ConsumeOnce(g)
        PROVE  Ledger!Next
    BY <2>2, PutIssues, RemoveRemoves, ConsumeConsumes DEF Ledger!Next
  <2>3. ASSUME IInv, NEW c \in Clients, Client(c)
        PROVE  Ledger!Next \/ UNCHANGED Ledger!vars
    <3>1. ASSUME NEW S \in Scopes, StartLook(c, S)
          PROVE  Ledger!Next
      BY <2>3, <3>1, StartBegins DEF Ledger!Next
    <3>2. ASSUME NEW g \in Grants, Entomb(c, g)
          PROVE  Ledger!Next
      BY <2>3, <3>2, EntombRevokes DEF Ledger!Next
    <3>3. CASE Return(c)
      <4>1. PICK S \in SUBSET Grants : S = found[c]
        BY <2>3 DEF IInv, TypeOK
      <4>2. Ledger!Tell(c, S)
        BY <2>3, <3>3, <4>1, ReturnTells
      <4>3. QED
        BY <4>2 DEF Ledger!Next
    <3>4. CASE Leave(c)
      BY <2>3, <3>4, LeaveCloses DEF Ledger!Next
    <3>5. CASE UnlinkAndAudit(c)
      BY <2>3, <3>5, UnlinkStutters
    <3>6. CASE \/ TombstonesSeen(c) \/ FilenamesSeen(c) \/ Revoked(c)
               \/ \E g \in Grants : SeeTombstone(c, g) \/ SeeFilename(c, g) \/ Read(c, g)
      BY <2>3, <3>6, PassesStutter
    <3>7. QED
      BY <2>3, <3>1, <3>2, <3>3, <3>4, <3>5, <3>6 DEF Client
  <2>4. QED
    BY <2>1, <2>2, <2>3 DEF Next
<1>3. QED
  BY <1>1, <1>2, Invariance, PTL DEF Spec, ImplementsLedger, Ledger!Spec

-----------------------------------------------------------------------------
(* The tool inventory. *)

\* What the hook has done by each of its steps: a difference between the baseline
\* and the snapshot is to be reported, has been, or could not be; after the flush
\* the report is there to stay.
NothingLost ==
    /\ hookAt = "reporting" => Watch!Diff(baseline, snapshot) \subseteq todo \cup lines \cup failed
    /\ hookAt = "flushing"  => Watch!Diff(baseline, snapshot) \subseteq lines \cup failed
    /\ hookAt = "saving"    => Watch!Diff(baseline, snapshot) \subseteq synced \cup failed
    /\ owed \subseteq synced \cup failed

\* The snapshot is what the client was shown of the listing, and so is what was
\* collected of one that goes on.
OneListing ==
    /\ baseline = listed
    /\ hookAt # "idle" => snapshot = shown /\ asked = "none" /\ page = 1
    /\ asked = "fresh" => page = 1 /\ shown = Watch!Empty
    /\ asked = "next" => page = 2
    /\ page = 2 => accumulator = shown

\* The inductive invariant of the hook.
WatchInv == Watch!TypeOK /\ NothingLost /\ OneListing

\* What the operators of the hook return.
LEMMA DiffIsOfReports ==
  ASSUME NEW prior \in Watch!Inventories \cup {NoBaseline}, NEW after \in Watch!Inventories,
         version \in Nat
  PROVE  Watch!Diff(prior, after) \subseteq Watch!Reports
  BY DEF Watch!Diff, Watch!Report, Watch!KindOf, Watch!Kinds, Watch!Reports, Watch!Inventories

LEMMA OverIsAnInventory ==
  ASSUME NEW before \in Watch!Inventories, NEW tools \in Watch!Inventories
  PROVE  Watch!Over(before, tools) \in Watch!Inventories
  BY DEF Watch!Over, Watch!Inventories

LEMMA AnswerIsAnInventory ==
  ASSUME served \in Watch!Inventories, NEW whole
  PROVE  Watch!Answered(whole) \in Watch!Inventories
  BY DEF Watch!Answered, Watch!Inventories

LEMMA EmptyIsAnInventory == Watch!Empty \in Watch!Inventories
  BY DEF Watch!Empty, Watch!Inventories

\* The first state of the hook.
LEMMA WatchInit == Watch!Init => WatchInv
  BY EmptyIsAnInventory
  DEF Watch!Init, WatchInv, NothingLost, OneListing, Watch!TypeOK, Watch!Pages

\* One step for each action of the hook.
LEMMA WatchNext == WatchInv /\ [Watch!Next]_Watch!vars => WatchInv'
  <1>. SUFFICES ASSUME WatchInv, [Watch!Next]_Watch!vars PROVE WatchInv'
    OBVIOUS
  <1>0. Watch!TypeOK /\ NothingLost /\ OneListing
    BY DEF WatchInv
  <1>. USE DEF Watch!server, Watch!client, Watch!hook, Watch!audit, Watch!disk, Watch!Idle
  <1>1. ASSUME NEW t \in Tools, Watch!Redefine(t) PROVE WatchInv'
    <2>1. Watch!TypeOK'
      BY <1>0, <1>1 DEF Watch!Redefine, Watch!TypeOK, Watch!Inventories
    <2>. QED  BY <1>0, <1>1, <2>1
              DEF Watch!Redefine, WatchInv, NothingLost, OneListing, Watch!Diff, Watch!Report
  <1>2. CASE Watch!ListTools \/ Watch!NextPage \/ Watch!ListError
    <2>1. Watch!TypeOK'
      BY <1>0, <1>2, EmptyIsAnInventory
      DEF Watch!ListTools, Watch!NextPage, Watch!ListError, Watch!TypeOK, Watch!Pages
    <2>2. NothingLost'
      BY <1>0, <1>2
      DEF Watch!ListTools, Watch!NextPage, Watch!ListError, NothingLost, Watch!Diff, Watch!Report
    <2>3. OneListing'
      BY <1>0, <1>2 DEF Watch!ListTools, Watch!NextPage, Watch!ListError, OneListing
    <2>. QED  BY <2>1, <2>2, <2>3 DEF WatchInv
  <1>3. CASE Watch!PageArrives
    <2>1. Watch!Collected = Watch!Empty /\ shown = Watch!Empty
      BY <1>0, <1>3 DEF Watch!PageArrives, Watch!Collected, OneListing, Watch!TypeOK
    <2>2. Watch!TypeOK'
      <3>1. accumulator' \in Watch!Inventories /\ shown' \in Watch!Inventories
        BY <1>0, <1>3, <2>1, EmptyIsAnInventory, AnswerIsAnInventory, OverIsAnInventory
        DEF Watch!PageArrives, Watch!TypeOK
      <3>. QED  BY <1>0, <1>3, <3>1 DEF Watch!PageArrives, Watch!TypeOK, Watch!Pages
    <2>3. NothingLost'
      BY <1>0, <1>3 DEF Watch!PageArrives, NothingLost, Watch!Diff, Watch!Report
    <2>4. OneListing'
      BY <1>0, <1>3, <2>1 DEF Watch!PageArrives, OneListing
    <2>. QED  BY <2>2, <2>3, <2>4 DEF WatchInv
  <1>4. CASE Watch!LastPageArrives
    <2>1. PICK whole \in BOOLEAN :
            /\ snapshot' = Watch!Over(Watch!Collected, Watch!Answered(whole))
            /\ todo' = Watch!Diff(baseline, snapshot')
            /\ shown' = Watch!Over(shown, Watch!Answered(whole))
      BY <1>4 DEF Watch!LastPageArrives
    <2>2. Watch!Collected = shown
      BY <1>0, <1>4 DEF Watch!LastPageArrives, Watch!Collected, OneListing, Watch!TypeOK
    <2>3. Watch!TypeOK'
      <3>1. shown' \in Watch!Inventories /\ snapshot' \in Watch!Inventories
        BY <1>0, <2>1, <2>2, AnswerIsAnInventory, OverIsAnInventory DEF Watch!TypeOK
      <3>2. todo' \subseteq Watch!Reports
        BY <1>0, <2>1, <3>1, DiffIsOfReports DEF Watch!TypeOK
      <3>. QED  BY <1>0, <1>4, <3>1, <3>2, EmptyIsAnInventory
                DEF Watch!LastPageArrives, Watch!TypeOK, Watch!Pages
    <2>4. NothingLost'
      BY <1>0, <1>4, <2>1 DEF Watch!LastPageArrives, NothingLost, Watch!Diff, Watch!Report
    <2>5. OneListing'
      BY <1>0, <1>4, <2>1, <2>2 DEF Watch!LastPageArrives, OneListing
    <2>. QED  BY <2>3, <2>4, <2>5 DEF WatchInv
  <1>5. CASE Watch!EmitReport
    <2>1. PICK r \in todo :
            /\ todo' = todo \ {r}
            /\ \/ lines' = lines \cup {r} /\ UNCHANGED failed
               \/ failed' = failed \cup {r} /\ UNCHANGED lines
      BY <1>5 DEF Watch!EmitReport
    <2>2. Watch!TypeOK'
      BY <1>0, <1>5, <2>1 DEF Watch!EmitReport, Watch!TypeOK
    <2>3. Watch!Diff(baseline, snapshot)' = Watch!Diff(baseline, snapshot)
      BY <1>5 DEF Watch!EmitReport, Watch!Diff, Watch!Report
    <2>4. NothingLost' /\ OneListing'
      BY <1>0, <1>5, <2>1, <2>3 DEF Watch!EmitReport, NothingLost, OneListing
    <2>. QED  BY <2>2, <2>4 DEF WatchInv
  <1>6. CASE Watch!Reported \/ Watch!FlushReports
    <2>1. Watch!TypeOK'
      BY <1>0, <1>6 DEF Watch!Reported, Watch!FlushReports, Watch!TypeOK
    <2>2. Watch!Diff(baseline, snapshot)' = Watch!Diff(baseline, snapshot)
      BY <1>6 DEF Watch!Reported, Watch!FlushReports, Watch!Diff, Watch!Report
    <2>3. NothingLost' /\ OneListing'
      BY <1>0, <1>6, <2>2
      DEF Watch!Reported, Watch!FlushReports, NothingLost, OneListing, Watch!TypeOK
    <2>. QED  BY <2>1, <2>3 DEF WatchInv
  <1>7. CASE Watch!SaveBaseline
    <2>1. Watch!TypeOK'
      <3>1. Watch!Diff(baseline, snapshot) \subseteq Watch!Reports
        BY <1>0, DiffIsOfReports DEF Watch!TypeOK
      <3>. QED  BY <1>0, <1>7, <3>1 DEF Watch!SaveBaseline, Watch!Replace, Watch!TypeOK
    <2>2. NothingLost' /\ OneListing'
      BY <1>0, <1>7 DEF Watch!SaveBaseline, Watch!Replace, NothingLost, OneListing
    <2>. QED  BY <2>1, <2>2 DEF WatchInv
  <1>8. CASE Watch!FsyncTimer
    BY <1>0, <1>8
    DEF Watch!FsyncTimer, WatchInv, NothingLost, OneListing, Watch!TypeOK
  <1>9. CASE Watch!Crash \/ Watch!PowerLoss
    BY <1>0, <1>9, EmptyIsAnInventory
    DEF Watch!Crash, Watch!PowerLoss, Watch!Restart, WatchInv, NothingLost, OneListing,
        Watch!TypeOK, Watch!Pages
  <1>10. CASE UNCHANGED Watch!vars
    BY <1>0, <1>10
    DEF Watch!vars, WatchInv, NothingLost, OneListing, Watch!TypeOK, Watch!Diff, Watch!Report
  <1>. QED  BY <1>1, <1>2, <1>3, <1>4, <1>5, <1>6, <1>7, <1>8, <1>9, <1>10 DEF Watch!Next

\* The invariant of the tool inventory, for the theorems below.
LEMMA WatchAlways == Watch!Spec => []WatchInv
  BY WatchInit, WatchNext, PTL DEF Watch!Spec

\* The variables of the tool inventory keep their types, and a line is flushed only
\* once it is there.
THEOREM WatchTypeCorrect == Watch!Spec => []Watch!TypeOK
  <1>1. WatchInv => Watch!TypeOK
    BY DEF WatchInv
  <1>. QED  BY <1>1, WatchAlways, PTL

\* For any tools, definitions and pages, and any number of changes, listings, crashes
\* and power losses: what the baseline has moved on from was reported for good, or the
\* audit log threw (createToolInventoryClassifier, comment C-2).
THEOREM DriftIsReported == Watch!Spec => []NoSilentDrift
  <1>1. WatchInv => NoSilentDrift
    BY DEF WatchInv, NothingLost, NoSilentDrift, Watch!NoSilentDrift
  <1>. QED  BY <1>1, WatchAlways, PTL

\* No page of an abandoned listing, of a failed one or of an earlier run is ever in the
\* baseline (comment C-3).
THEOREM BaselineIsWhole == Watch!Spec => []BaselineIsOneListing
  <1>1. WatchInv => BaselineIsOneListing
    BY DEF WatchInv, OneListing, BaselineIsOneListing, Watch!BaselineIsOneListing
  <1>. QED  BY <1>1, WatchAlways, PTL

-----------------------------------------------------------------------------
(* The signing identity. *)

\* Once the call of m is at one of these places, its process has one of these backends.
Placed(m, places, backends) == at[m] \in places => backend[ProcessOf[m]] \in backends

WithSeed == {"creating", "filling", "storing", "publishing", "published", "signing"}
Known    == {"publishing", "published", "signing"}

\* Where a mint is says which backend it went by, unless its process is gone, and
\* from the draw or the read on it has a seed in hand.
OnItsWay ==
    \A m \in Minters :
        /\ Placed(m, {"reading", "publishing", "published", "signing"}, {"file", "keychain", "gone"})
        /\ Placed(m, {"creating", "filling"}, {"file", "gone"})
        /\ Placed(m, {"storing"}, {"keychain", "gone"})
        /\ at[m] \in WithSeed => held[m] \in Seeds

\* One mint at a time fills the key file, and it is empty until then.
OneFills ==
    \A m \in Minters : at[m] = "filling" =>
        keyfile = "empty" /\ \A n \in Minters : at[n] = "filling" => n = m

\* The seed in hand is the one that signs, or was displaced in the keychain, and its
\* public key is there before it signs.
SeedInHand ==
    \A m \in Minters :
        /\ at[m] \in Known /\ backend[ProcessOf[m]] = "file" => keyfile = held[m]
        /\ at[m] \in Known /\ backend[ProcessOf[m]] = "keychain" =>
              held[m] = keychain \/ held[m] \in displaced
        /\ at[m] \in {"published", "signing"} => jwks[held[m]] # "absent"

\* An empty public key is being written, or that was cut short.
EmptyIsOpen ==
    \A kid \in Seeds : jwks[kid] = "empty" => Key!BeingRewritten(kid) \/ kid \in cutShort

\* What was minted names a key that was published, and that signed it or was displaced.
TokensStand ==
    \A token \in tokens :
        /\ jwks[token.kid] # "absent"
        /\ token.signer = token.kid \/ token.kid \in displaced

\* The inductive invariant of the first mints.
KeyInv == Key!TypeOK /\ OnItsWay /\ OneFills /\ SeedInHand /\ EmptyIsOpen /\ TokensStand

\* Nothing is minted at first.
LEMMA KeyInit == Key!Init => KeyInv
  BY DEF Key!Init, KeyInv, Key!TypeOK, OnItsWay, OneFills, SeedInHand, EmptyIsOpen, TokensStand,
         Placed, WithSeed, Known

\* One step for each action of a mint, of a process and of the world.
LEMMA KeyNext ==
  ASSUME KeyInv, [Key!Next]_Key!vars
  PROVE  KeyInv'
  <1>0. Key!TypeOK /\ OnItsWay /\ OneFills /\ SeedInHand /\ EmptyIsOpen /\ TokensStand
    BY DEF KeyInv
  <1>. USE KeyAssumption
       DEF Key!disk, Key!history, Key!Backends, Key!Goes, Key!Holds, Key!Ends, Key!Alive, Key!Uses,
           Placed, WithSeed, Known, Key!IdentityAssumption
  <1>a. \A m \in Minters : ProcessOf[m] \in Key!Processes
    BY DEF Key!Processes
  <1>1. ASSUME NEW m \in Minters, Key!Begin(m) PROVE KeyInv'
    <2>1. Key!TypeOK'
      BY <1>0, <1>1 DEF Key!Begin, Key!TypeOK
    <2>2. OnItsWay' /\ OneFills' /\ SeedInHand'
      BY <1>0, <1>1 DEF Key!Begin, Key!TypeOK, OnItsWay, OneFills, SeedInHand
    <2>3. TokensStand'
      BY <1>0, <1>1 DEF Key!Begin, TokensStand
    <2>4. EmptyIsOpen'
      BY <1>0, <1>1 DEF Key!Begin, Key!TypeOK, EmptyIsOpen, Key!BeingRewritten, OnItsWay
    <2>. QED  BY <2>1, <2>2, <2>3, <2>4 DEF KeyInv
  <1>2. ASSUME NEW m \in Minters, Key!ReadKeyFile(m) \/ Key!ReadSecret(m) PROVE KeyInv'
    <2>. USE DEF Key!ReadKeyFile, Key!ReadSecret, Key!Draw, Key!Readable
    <2>1. Key!TypeOK'
      BY <1>0, <1>2 DEF Key!TypeOK
    <2>2. OnItsWay'
      BY <1>0, <1>2 DEF Key!TypeOK, OnItsWay
    <2>3. OneFills'
      BY <1>0, <1>2 DEF Key!TypeOK, OneFills
    <2>4. SeedInHand'
      BY <1>0, <1>2 DEF Key!TypeOK, SeedInHand
    <2>5. TokensStand'
      BY <1>0, <1>2 DEF TokensStand
    <2>6. EmptyIsOpen'
      BY <1>0, <1>2 DEF Key!TypeOK, EmptyIsOpen, Key!BeingRewritten, OnItsWay
    <2>. QED  BY <2>1, <2>2, <2>3, <2>4, <2>5, <2>6 DEF KeyInv
  <1>3. ASSUME NEW m \in Minters, Key!CreateKeyFile(m) PROVE KeyInv'
    <2>. USE DEF Key!CreateKeyFile, Key!Readable
    <2>1. Key!TypeOK'
      BY <1>0, <1>3 DEF Key!TypeOK
    <2>2. OnItsWay'
      BY <1>0, <1>3 DEF Key!TypeOK, OnItsWay
    <2>3. OneFills'
      BY <1>0, <1>3 DEF Key!TypeOK, OneFills
    <2>4. SeedInHand'
      BY <1>0, <1>3 DEF Key!TypeOK, SeedInHand, OnItsWay
    <2>5. TokensStand'
      BY <1>0, <1>3 DEF TokensStand
    <2>6. EmptyIsOpen'
      BY <1>0, <1>3 DEF Key!TypeOK, EmptyIsOpen, Key!BeingRewritten, OnItsWay
    <2>. QED  BY <2>1, <2>2, <2>3, <2>4, <2>5, <2>6 DEF KeyInv
  <1>4. ASSUME NEW m \in Minters, Key!FillKeyFile(m) PROVE KeyInv'
    <2>. USE DEF Key!FillKeyFile
    <2>1. keyfile = "empty" /\ held[m] \in Seeds
      BY <1>0, <1>4 DEF OneFills, OnItsWay
    <2>2. Key!TypeOK' /\ OnItsWay'
      BY <1>0, <1>4, <2>1 DEF Key!TypeOK, OnItsWay
    <2>3. OneFills'
      BY <1>0, <1>4 DEF Key!TypeOK, OneFills
    <2>4. SeedInHand'
      BY <1>0, <1>4, <2>1 DEF Key!TypeOK, SeedInHand, OnItsWay
    <2>5. TokensStand'
      BY <1>0, <1>4 DEF TokensStand
    <2>6. EmptyIsOpen'
      BY <1>0, <1>4 DEF Key!TypeOK, EmptyIsOpen, Key!BeingRewritten, OnItsWay
    <2>. QED  BY <2>2, <2>3, <2>4, <2>5, <2>6 DEF KeyInv
  <1>5. ASSUME NEW m \in Minters, Key!StoreSecret(m) PROVE KeyInv'
    <2>. USE DEF Key!StoreSecret
    <2>1. held[m] \in Seeds /\ keychain \in Seeds \cup {NoSeed}
      BY <1>0, <1>5 DEF OnItsWay, Key!TypeOK
    <2>2. Key!TypeOK'
      BY <1>0, <1>5, <2>1 DEF Key!TypeOK
    <2>3. OnItsWay' /\ OneFills'
      BY <1>0, <1>5, <2>1 DEF Key!TypeOK, OnItsWay, OneFills
    <2>4. SeedInHand'
      BY <1>0, <1>5, <2>1 DEF Key!TypeOK, SeedInHand, OnItsWay
    <2>5. TokensStand'
      BY <1>0, <1>5 DEF TokensStand
    <2>6. EmptyIsOpen'
      BY <1>0, <1>5 DEF Key!TypeOK, EmptyIsOpen, Key!BeingRewritten, OnItsWay
    <2>. QED  BY <2>2, <2>3, <2>4, <2>5, <2>6 DEF KeyInv
  <1>6. ASSUME NEW m \in Minters, Key!OpenJwk(m) \/ Key!WriteJwk(m) PROVE KeyInv'
    <2>. USE DEF Key!OpenJwk, Key!WriteJwk
    <2>1. held[m] \in Seeds
      BY <1>0, <1>6 DEF OnItsWay
    <2>2. Key!TypeOK'
      BY <1>0, <1>6, <2>1 DEF Key!TypeOK
    <2>3. OnItsWay' /\ OneFills'
      BY <1>0, <1>6, <2>1 DEF Key!TypeOK, OnItsWay, OneFills
    <2>4. \A s \in Seeds : jwks[s] # "absent" => jwks'[s] # "absent"
      BY <1>0, <1>6, <2>1 DEF Key!TypeOK
    <2>5. jwks'[held[m]] # "absent"
      BY <1>0, <1>6, <2>1 DEF Key!TypeOK
    <2>6. SeedInHand'
      BY <1>0, <1>6, <2>1, <2>4, <2>5 DEF Key!TypeOK, SeedInHand, OnItsWay
    <2>7. TokensStand'
      BY <1>0, <1>6, <2>4 DEF TokensStand, Key!TypeOK
    <2>8. EmptyIsOpen'
      BY <1>0, <1>6 DEF Key!TypeOK, EmptyIsOpen, Key!BeingRewritten, OnItsWay
    <2>. QED  BY <2>2, <2>3, <2>6, <2>7, <2>8 DEF KeyInv
  <1>7. ASSUME NEW m \in Minters, Key!Sign(m) PROVE KeyInv'
    <2>. USE DEF Key!Sign
    <2>1. held[m] \in Seeds /\ jwks[held[m]] # "absent"
      BY <1>0, <1>7 DEF OnItsWay, SeedInHand
    <2>2. \/ UNCHANGED tokens
          \/ \E seed \in Seeds :
                /\ tokens' = tokens \cup {[kid |-> held[m], signer |-> seed]}
                /\ seed = held[m] \/ held[m] \in displaced
      <3>1. CASE backend[ProcessOf[m]] = "file"
        BY <1>0, <1>7, <3>1 DEF SeedInHand, Key!SignWithFile, Key!Readable, Key!Signs
      <3>2. CASE backend[ProcessOf[m]] = "keychain"
        BY <1>0, <1>7, <3>2 DEF SeedInHand, Key!SignWithKeychain, Key!Signs, Key!TypeOK
      <3>. QED  BY <1>0, <1>7, <3>1, <3>2 DEF OnItsWay
    <2>3. Key!TypeOK'
      BY <1>0, <1>7, <2>1, <2>2 DEF Key!TypeOK
    <2>4. OnItsWay' /\ OneFills'
      BY <1>0, <1>7 DEF Key!TypeOK, OnItsWay, OneFills
    <2>5. SeedInHand'
      BY <1>0, <1>7 DEF Key!TypeOK, SeedInHand
    <2>6. TokensStand'
      BY <1>0, <1>7, <2>1, <2>2 DEF TokensStand
    <2>7. EmptyIsOpen'
      BY <1>0, <1>7 DEF Key!TypeOK, EmptyIsOpen, Key!BeingRewritten, OnItsWay
    <2>. QED  BY <2>3, <2>4, <2>5, <2>6, <2>7 DEF KeyInv
  <1>8. ASSUME NEW p \in Key!Processes, Key!CreateKeyStore(p) \/ Key!Crash(p) PROVE KeyInv'
    <2>. USE DEF Key!CreateKeyStore, Key!Crash
    <2>1. PICK b \in {"file", "keychain", "rejected", "gone"} :
            /\ backend' = [backend EXCEPT ![p] = b]
            /\ b = "gone" \/ backend[p] = "none"
      BY <1>0, <1>8
    <2>2. /\ cutShort \subseteq cutShort' /\ cutShort' \subseteq Seeds
          /\ b = "gone" => \A m \in Minters :
                ProcessOf[m] = p /\ at[m] = "published" /\ jwks[held[m]] = "empty" => held[m] \in cutShort'
      <3>1. CASE Key!CreateKeyStore(p)
        BY <1>0, <1>a, <2>1, <3>1 DEF Key!TypeOK
      <3>2. CASE Key!Crash(p)
        BY <1>0, <3>2 DEF Key!TypeOK, OnItsWay, Key!Truncated
      <3>. QED  BY <1>8, <3>1, <3>2
    <2>3. UNCHANGED <<keychain, usable, keyfile, private, jwks, at, held, drawn, tokens, displaced>>
      BY <1>8
    <2>4. Key!TypeOK'
      BY <1>0, <2>1, <2>2, <2>3 DEF Key!TypeOK
    <2>5. OnItsWay'
      BY <1>0, <1>8, <1>a, <2>1 DEF Key!TypeOK, OnItsWay
    <2>6. OneFills' /\ TokensStand'
      BY <1>0, <2>3 DEF OneFills, TokensStand
    <2>7. SeedInHand'
      BY <1>0, <1>8, <1>a, <2>1 DEF Key!TypeOK, SeedInHand, OnItsWay
    <2>8. EmptyIsOpen'
      <3>. SUFFICES ASSUME NEW kid \in Seeds, jwks[kid] = "empty", kid \notin cutShort'
                    PROVE  Key!BeingRewritten(kid)'
        BY <2>3 DEF EmptyIsOpen
      <3>1. PICK m \in Minters : at[m] = "published" /\ backend[ProcessOf[m]] # "gone" /\ held[m] = kid
        BY <1>0, <2>2 DEF EmptyIsOpen, Key!BeingRewritten
      <3>2. backend'[ProcessOf[m]] # "gone"
        BY <1>0, <1>a, <2>1, <2>2, <3>1 DEF Key!TypeOK
      <3>. QED  BY <2>3, <3>1, <3>2 DEF Key!BeingRewritten
    <2>. QED  BY <2>4, <2>5, <2>6, <2>7, <2>8 DEF KeyInv
  <1>9. CASE Key!Changes
    <2>1. Key!TypeOK'
      BY <1>0, <1>9 DEF Key!Changes, Key!TypeOK
    <2>2. EmptyIsOpen'
      BY <1>0, <1>9 DEF Key!Changes, EmptyIsOpen, Key!BeingRewritten
    <2>. QED  BY <1>0, <1>9, <2>1, <2>2
              DEF Key!Changes, KeyInv, OnItsWay, OneFills, SeedInHand, TokensStand
  <1>10. CASE UNCHANGED Key!vars
    <2>1. EmptyIsOpen'
      BY <1>0, <1>10 DEF Key!vars, EmptyIsOpen, Key!BeingRewritten
    <2>. QED  BY <1>0, <1>10, <2>1
              DEF Key!vars, KeyInv, Key!TypeOK, OnItsWay, OneFills, SeedInHand, TokensStand
  <1>11. ASSUME NEW m \in Minters, Key!WriteFails(m) PROVE KeyInv'
    <2>. USE DEF Key!WriteFails
    <2>1. /\ cutShort' \subseteq Seeds /\ cutShort \subseteq cutShort'
          /\ at[m] = "published" /\ jwks[held[m]] = "empty" => held[m] \in cutShort'
      BY <1>0, <1>11 DEF Key!TypeOK, OnItsWay, Key!Truncated
    <2>2. Key!TypeOK'
      BY <1>0, <1>11, <2>1 DEF Key!TypeOK
    <2>3. OnItsWay' /\ OneFills' /\ SeedInHand'
      BY <1>0, <1>11 DEF Key!TypeOK, OnItsWay, OneFills, SeedInHand
    <2>4. EmptyIsOpen'
      BY <1>0, <1>11, <2>1 DEF Key!TypeOK, EmptyIsOpen, Key!BeingRewritten
    <2>5. TokensStand'
      BY <1>0, <1>11 DEF TokensStand
    <2>. QED  BY <2>2, <2>3, <2>4, <2>5 DEF KeyInv
  <1>. QED  BY <1>1, <1>2, <1>3, <1>4, <1>5, <1>6, <1>7, <1>8, <1>9, <1>10, <1>11 DEF Key!Next

\* The invariant of the first mints.
LEMMA KeyAlways == Key!Spec => []KeyInv
  <1>1. KeyInv /\ [Key!Next]_Key!vars => KeyInv'
    BY KeyNext
  <1>. QED  BY KeyInit, <1>1, PTL DEF Key!Spec

\* The variables of the first mints keep their types (Identity).
THEOREM KeyTypeCorrect == Key!Spec => []Key!TypeOK
  <1>1. KeyInv => Key!TypeOK
    BY DEF KeyInv
  <1>. QED  BY <1>1, KeyAlways, PTL

\* For any number of mints in any number of processes: a grant is signed by the key its
\* header names, unless a first mint displaced that key in the keychain, and the resolver
\* finds that key, unless a mint is rewriting it or the last rewrite was cut short
\* (ensureIdentity, writeIdentityJwk, sign and createDiskPublicKeyResolver).
THEOREM GrantsVerify == Key!Spec => []MintedVerifies
  <1>1. KeyInv => MintedVerifies
    BY DEF KeyInv, Key!TypeOK, EmptyIsOpen, TokensStand, MintedVerifies, Key!MintedVerifies, Key!Resolves
  <1>. QED  BY <1>1, KeyAlways, PTL

-----------------------------------------------------------------------------
(* The run of the proxy command. *)

\* What a run has behind it: nothing is closed before the proxy is torn down, and
\* zero is said last of all.
InOrder ==
    /\ stage \in Command!Building \cup {"starting", "running", "tearing"} =>
          closing = "no" /\ code = Command!Unset
    /\ stage \in Command!Building \cup {"starting", "running"} => cause = "none"
    /\ stage = "tearing" => cause \in Command!Causes
    /\ stage \notin {"loading", "locking", "gone"} => lock # "others"
    /\ closing # "no" => cause \in Command!Causes /\ lock # "others"
    /\ closing \in {"audit", "done"} => exporter # "on"
    /\ closing = "done" => lock = "free"
    /\ code = 0 => closing = "done" /\ ~fatal /\ cause # "child_exit"

\* The inductive invariant of a run.
RunInv == Command!TypeOK /\ InOrder

\* The first state of a run.
LEMMA RunInit == Command!Init => RunInv
  <1>. SUFFICES ASSUME Command!Init PROVE RunInv
    OBVIOUS
  <1>. USE DEF Command!Init, Command!Unset, Command!Building, Command!Proxying, Command!Exporters,
           Command!Closings, Command!Causes
  <1>1. /\ enforcing \in BOOLEAN /\ handlers \in BOOLEAN /\ fatal \in BOOLEAN
        /\ ~fatal
    BY Zenon
  <1>2. Command!TypeOK
    BY <1>1 DEF Command!TypeOK
  <1>3. InOrder
    BY <1>1 DEF InOrder
  <1>. QED  BY <1>2, <1>3 DEF RunInv

\* One step for each action of a run.
LEMMA RunNext == RunInv /\ [Command!Next]_Command!vars => RunInv'
  <1>. SUFFICES ASSUME RunInv, [Command!Next]_Command!vars PROVE RunInv'
    OBVIOUS
  <1>. USE DEF RunInv, InOrder, Command!TypeOK, Command!Unset, Command!Building, Command!Killed,
           Command!Proxying, Command!Exporters, Command!Closings, Command!Causes
  <1>1. CASE Command!LoadConfig
    BY <1>1 DEF Command!LoadConfig, Command!Refuse, Command!Gone, Command!Abandoned, Command!Continue
  <1>2. CASE Command!TakeLock
    BY <1>2 DEF Command!TakeLock, Command!Refuse, Command!Gone, Command!Abandoned, Command!Continue
  <1>3. CASE Command!Attach \/ Command!Listen
    BY <1>3 DEF Command!Attach, Command!Listen, Command!Refuse, Command!Gone, Command!Abandoned,
                Command!Continue
  <1>4. CASE Command!Start
    <2>1. handlers' \in BOOLEAN
      BY <1>4, Zenon DEF Command!Start, Command!RemoveProcessHandlers
    <2>2. Command!TypeOK'
      BY <1>4, <2>1 DEF Command!Start, Command!Finish
    <2>3. InOrder'
      BY <1>4 DEF Command!Start, Command!Finish
    <2>. QED  BY <2>2, <2>3
  <1>5. ASSUME NEW why \in Command!Causes, Command!Ends(why) PROVE RunInv'
    BY <1>5 DEF Command!Ends
  <1>6. CASE Command!Fatal \/ Command!TornDown
    <2>1. handlers' \in BOOLEAN /\ fatal' \in BOOLEAN
      BY <1>6, Zenon DEF Command!Fatal, Command!TornDown, Command!RemoveProcessHandlers
    <2>2. Command!TypeOK'
      BY <1>6, <2>1 DEF Command!Fatal, Command!TornDown
    <2>3. InOrder'
      BY <1>6 DEF Command!Fatal, Command!TornDown
    <2>. QED  BY <2>2, <2>3
  <1>7. CASE Command!FatalFinishes \/ Command!CloseFinishes
    BY <1>7 DEF Command!FatalFinishes, Command!CloseFinishes, Command!Finish, Command!CodeOfRun
  <1>8. CASE Command!CloseExporter \/ Command!CloseAudit
    BY <1>8 DEF Command!CloseExporter, Command!CloseAudit
  <1>9. CASE Command!Exit \/ Command!Die
    BY <1>9 DEF Command!Exit, Command!Die, Command!Gone, Command!Abandoned
  <1>10. CASE UNCHANGED Command!vars
    BY <1>10 DEF Command!vars
  <1>. QED  BY <1>1, <1>2, <1>3, <1>4, <1>5, <1>6, <1>7, <1>8, <1>9, <1>10 DEF Command!Next

\* The variables of a run keep their types (Supervisor).
THEOREM RunTypeCorrect == Command!Spec => []Command!TypeOK
  BY RunInit, RunNext, PTL DEF RunInv, Command!Spec

\* Zero is said only of a run that ended in order, and nobody else's lock is
\* released (onFatal, onClose and bundle.close() read together).
THEOREM ExitTells == Command!Spec => []ExitIsHonest
  <1>1. RunInv => ExitIsHonest
    BY DEF RunInv, InOrder, ExitIsHonest, Command!ExitIsHonest, Command!Causes, Command!Building, Command!TypeOK,
           Command!Proxying
  <1>. QED  BY <1>1, RunInit, RunNext, PTL DEF Command!Spec

-----------------------------------------------------------------------------
(* All of them. *)

\* Whatever part runs, each of the parts takes a step of its own or none.
LEMMA PartsRun ==
  AllSpec => Spec /\ Watch!Spec /\ Key!Spec /\ Command!Spec
  <1>1. AllInit => Init /\ Watch!Init /\ Key!Init /\ Command!Init
    BY DEF AllInit
  <1>2. [AllNext]_<<part, vars, toolVars, identityVars, runVars>> =>
          [Next]_vars /\ [Watch!Next]_Watch!vars /\ [Key!Next]_Key!vars /\ [Command!Next]_Command!vars
    BY DEF AllNext, Store, List, MintFirst, RunOnce, Over, vars, toolVars, identityVars, runVars,
           Watch!vars, Watch!server, Watch!client, Watch!hook, Watch!audit, Watch!disk,
           Key!vars, Command!vars
  <1>. QED  BY <1>1, <1>2, PTL DEF AllSpec, Spec, Watch!Spec, Key!Spec, Command!Spec

\* The variables of every part keep their types.
THEOREM AllTypesCorrect == AllSpec => []AllTypeOK
  <1>1. TypeOK /\ Watch!TypeOK /\ Key!TypeOK /\ Command!TypeOK => AllTypeOK
    BY DEF AllTypeOK
  <1>. QED  BY <1>1, PartsRun, TypeCorrect, WatchTypeCorrect, KeyTypeCorrect, RunTypeCorrect, PTL

\* Every property of the grant store, the tool inventory, the signing identity and the
\* run, of the four of them together.
THEOREM HomeHolds ==
  AllSpec => /\ [](RevokeLeavesNothing /\ NoSilentDrift /\ BaselineIsOneListing)
             /\ [](MintedVerifies /\ ExitIsHonest)
             /\ ImplementsLedger
  BY PartsRun, BatchIsComplete, DriftIsReported, BaselineIsWhole, GrantsVerify, ExitTells, Implements,
     PTL

=============================================================================
