------------------------------- MODULE GrantStore -------------------------------
(***************************************************************************)
(* The file-backed grant directory of packages/store/src/grant-store.ts,   *)
(* and revokeGrants of packages/grants/src/revoke.ts on top of it, one     *)
(* action per system call that another process can tell from its           *)
(* neighbours: the rename that commits a grant or a tombstone, the unlink, *)
(* the exclusive create of a consumed marker, each directory entry of a    *)
(* readdir, each read.  There is no lock: processes interleave anywhere    *)
(* and die anywhere.                                                       *)
(*                                                                         *)
(* A temporary file is seen by nobody (its name has neither suffix), so    *)
(* writing it is no step and dying before its rename leaves nothing.  The  *)
(* directories are made before their first use and never deleted.          *)
(***************************************************************************)
EXTENDS Integers

CONSTANTS
    Clients,  \* concurrent callers, in any process
    Grants,   \* grants, each with a freshly generated jti
    Scopes    \* list(): every grant; listBy(): those of one tool; get(): one jti

ASSUME ScopesAssumption == Scopes \subseteq SUBSET Grants

VARIABLES
    files,   \* grants with a <jti>.jws
    tombs,   \* grants with a tombstones/<jti>.json
    marks,   \* grants with a consumed/<jti>
    pc,      \* per client: where its call is
    scope,   \* per client: what it asks for
    left,    \* per client: directory entries the pass under way has still to visit
    seen,    \* per client: readRevokedJtiSet
    names,   \* per client: file names listed, not yet read
    found,   \* per client: the grants read; then those still to revoke
    current, \* per client: the grant being revoked
    used,    \* jtis ever generated                              (history)
    steady,  \* per client: active ever since its look began     (history)
    ever,    \* per client: active at some moment since then     (history)
    reply,   \* per client: what its look returned               (history)
    wins     \* per grant: times consumeOnce returned "consumed" (history)

disk    == <<files, tombs, marks>>
look    == <<scope, left, seen, names>>
history == <<used, steady, ever, reply, wins>>
vars    == <<files, tombs, marks, pc, scope, left, seen, names, found, current,
             used, steady, ever, reply, wins>>

NoGrant == "noGrant"
ASSUME NoGrantAssumption == NoGrant \notin Grants

Looking == {"tombstones", "filenames", "reading"}
Told    == {"returned", "unlinking", "threw", "revoked"}

\* get(), list(): the tombstone wins, whether or not the file lingers.
Active == files \ tombs

Init ==
    /\ files = {} /\ tombs = {} /\ marks = {}
    /\ pc = [c \in Clients |-> "idle"]
    /\ scope = [c \in Clients |-> {}]
    /\ left = [c \in Clients |-> {}]
    /\ seen = [c \in Clients |-> {}]
    /\ names = [c \in Clients |-> {}]
    /\ found = [c \in Clients |-> {}]
    /\ current = [c \in Clients |-> NoGrant]
    /\ used = {}
    /\ steady = [c \in Clients |-> {}]
    /\ ever = [c \in Clients |-> {}]
    /\ reply = [c \in Clients |-> {}]
    /\ wins = [g \in Grants |-> 0]

Witnessed ==
    /\ steady' = [c \in Clients |-> steady[c] \cap Active']
    /\ ever' = [c \in Clients |-> ever[c] \cup (Active' \cap scope[c])]

Goto(c, there) == pc' = [pc EXCEPT ![c] = there]

-----------------------------------------------------------------------------
(* Writers. *)

\* put(), of a token just minted: one rename.
Put(g) ==
    /\ g \notin used
    /\ used' = used \cup {g}
    /\ files' = files \cup {g}
    /\ UNCHANGED <<tombs, marks, pc, look, found, current, reply, wins>>
    /\ Witnessed

\* remove(): one unlink, of a file that may be gone already.
Remove(g) ==
    /\ files' = files \ {g}
    /\ UNCHANGED <<tombs, marks, pc, look, found, current, used, reply, wins>>
    /\ Witnessed

\* Variant: the marker is looked for first and written afterwards, so that a
\* call may win whose look came before another's write.
MarkedBlindly(g) == marks' = marks \cup {g}

\* The open with "wx".
MarkedFirst(g) == g \notin marks /\ marks' = marks \cup {g}

\* consumeOnce(), in any process, that returns "consumed"; one that returns
\* "already_consumed" changes nothing.
ConsumeOnce(g) ==
    /\ g \in used
    /\ MarkedFirst(g)
    /\ wins' = [wins EXCEPT ![g] = @ + 1]
    /\ UNCHANGED <<files, tombs, pc, look, found, current, used, steady, ever, reply>>

-----------------------------------------------------------------------------
(* A look: the tombstones, then the file names, then the files.  get() makes *)
(* the same three looks at the files of one jti.                           *)

StartLook(c, S) ==
    /\ pc[c] = "idle"
    /\ Goto(c, "tombstones")
    /\ scope' = [scope EXCEPT ![c] = S]
    /\ left' = [left EXCEPT ![c] = S]
    /\ seen' = [seen EXCEPT ![c] = {}]
    /\ names' = [names EXCEPT ![c] = {}]
    /\ found' = [found EXCEPT ![c] = {}]
    /\ steady' = [steady EXCEPT ![c] = Active \cap S]
    /\ ever' = [ever EXCEPT ![c] = Active \cap S]
    /\ UNCHANGED <<disk, current, used, reply, wins>>

\* One entry of the directory: files come and go while it is read.
Visit(c, g) == g \in left[c] /\ left' = [left EXCEPT ![c] = @ \ {g}]

SeeTombstone(c, g) ==
    /\ pc[c] = "tombstones"
    /\ Visit(c, g)
    /\ seen' = [seen EXCEPT ![c] = @ \cup ({g} \cap tombs)]
    /\ UNCHANGED <<disk, pc, scope, names, found, current, history>>

TombstonesSeen(c) ==
    /\ pc[c] = "tombstones"
    /\ left[c] = {}
    /\ Goto(c, "filenames")
    /\ left' = [left EXCEPT ![c] = scope[c]]
    /\ UNCHANGED <<disk, scope, seen, names, found, current, history>>

\* Variant: a listed file is read although its tombstone was seen.
ListedRevoked(c, g) == {g} \cap files

\* A file name that is there, and whose tombstone was not seen.
Listed(c, g) == ({g} \cap files) \ seen[c]

SeeFilename(c, g) ==
    /\ pc[c] = "filenames"
    /\ Visit(c, g)
    /\ names' = [names EXCEPT ![c] = @ \cup Listed(c, g)]
    /\ UNCHANGED <<disk, pc, scope, seen, found, current, history>>

FilenamesSeen(c) ==
    /\ pc[c] = "filenames"
    /\ left[c] = {}
    /\ Goto(c, "reading")
    /\ UNCHANGED <<disk, look, found, current, history>>

\* A file that is gone by now (ENOENT) is skipped.
Read(c, g) ==
    /\ pc[c] = "reading"
    /\ g \in names[c]
    /\ names' = [names EXCEPT ![c] = @ \ {g}]
    /\ found' = [found EXCEPT ![c] = @ \cup ({g} \cap files)]
    /\ UNCHANGED <<disk, pc, scope, left, seen, current, history>>

\* The look returns: to a decision or a listing, which are content with it, or
\* to revokeGrants.
Return(c) ==
    /\ pc[c] = "reading"
    /\ names[c] = {}
    /\ reply' = [reply EXCEPT ![c] = found[c]]
    /\ Goto(c, "returned")
    /\ UNCHANGED <<disk, look, found, current, used, steady, ever, wins>>

-----------------------------------------------------------------------------
(* revokeGrants: each grant found is revoked in turn, tombstone first. *)

Entomb(c, g) ==
    /\ pc[c] = "returned"
    /\ g \in found[c]
    /\ tombs' = tombs \cup {g}
    /\ found' = [found EXCEPT ![c] = @ \ {g}]
    /\ current' = [current EXCEPT ![c] = g]
    /\ Goto(c, "unlinking")
    /\ UNCHANGED <<files, marks, look, used, reply, wins>>
    /\ Witnessed

\* Variant: an append of grant_revoked that throws ends the loop silently.
ThrowSwallowed(c) == Goto(c, "revoked")

\* The append throws out of revokeGrants: what is still to revoke stays.
ThrowEscapes(c) == Goto(c, "threw")

\* The best-effort unlink, and the append of grant_revoked.
UnlinkAndAudit(c) ==
    /\ pc[c] = "unlinking"
    /\ files' = files \ {current[c]} \/ files' = files
    /\ current' = [current EXCEPT ![c] = NoGrant]
    /\ Goto(c, "returned") \/ ThrowEscapes(c)
    /\ UNCHANGED <<tombs, marks, look, found, used, reply, wins>>
    /\ Witnessed

\* revokeGrants returns.
Revoked(c) ==
    /\ pc[c] = "returned"
    /\ found[c] = {}
    /\ Goto(c, "revoked")
    /\ UNCHANGED <<disk, look, found, current, history>>

\* The call is over: its caller has what it wanted, or it threw, or the process
\* died somewhere in it.
Leave(c) ==
    /\ pc[c] # "idle"
    /\ Goto(c, "idle")
    /\ scope' = [scope EXCEPT ![c] = {}]
    /\ left' = [left EXCEPT ![c] = {}]
    /\ seen' = [seen EXCEPT ![c] = {}]
    /\ names' = [names EXCEPT ![c] = {}]
    /\ found' = [found EXCEPT ![c] = {}]
    /\ current' = [current EXCEPT ![c] = NoGrant]
    /\ steady' = [steady EXCEPT ![c] = {}]
    /\ ever' = [ever EXCEPT ![c] = {}]
    /\ reply' = [reply EXCEPT ![c] = {}]
    /\ UNCHANGED <<disk, used, wins>>

-----------------------------------------------------------------------------

Client(c) ==
    \/ \E S \in Scopes : StartLook(c, S)
    \/ \E g \in Grants :
          SeeTombstone(c, g) \/ SeeFilename(c, g) \/ Read(c, g) \/ Entomb(c, g)
    \/ TombstonesSeen(c) \/ FilenamesSeen(c) \/ Return(c)
    \/ UnlinkAndAudit(c) \/ Revoked(c) \/ Leave(c)

Next ==
    \/ \E g \in Grants : Put(g) \/ Remove(g) \/ ConsumeOnce(g)
    \/ \E c \in Clients : Client(c)

Spec == Init /\ [][Next]_vars

-----------------------------------------------------------------------------
(* Properties. *)

\* No grant is reported consumed twice (wins), and the sets are sets of grants.
TypeOK ==
    /\ files \subseteq Grants /\ tombs \subseteq Grants /\ marks \subseteq Grants
    /\ pc \in [Clients -> {"idle"} \cup Looking \cup Told]
    /\ scope \in [Clients -> SUBSET Grants]
    /\ left \in [Clients -> SUBSET Grants]
    /\ seen \in [Clients -> SUBSET Grants]
    /\ names \in [Clients -> SUBSET Grants]
    /\ found \in [Clients -> SUBSET Grants]
    /\ current \in [Clients -> Grants \cup {NoGrant}]
    /\ used \subseteq Grants
    /\ steady \in [Clients -> SUBSET Grants]
    /\ ever \in [Clients -> SUBSET Grants]
    /\ reply \in [Clients -> SUBSET Grants]
    /\ wins \in [Grants -> 0..1]

Ledger ==
    INSTANCE GrantLedger WITH
        issued <- used,
        active <- Active,
        revoked <- tombs,
        phase <- [c \in Clients |->
                    IF pc[c] \in Looking THEN "looking" ELSE IF pc[c] = "idle" THEN "closed" ELSE "told"]

\* The directory implements the ledger: three unlocked passes over files that
\* other processes rename, unlink and leave behind are still one regular look
\* (nothing revoked before it began is returned, nothing in force all along is
\* missed), a revocation or a removed file never comes back, and no two callers
\* of consumeOnce are told they won.
ImplementsLedger == Ledger!Spec

\* A revokeGrants that returned without throwing left nothing of its selector
\* that was there all along in force, however it interleaved with other
\* revokes, removals and mints (a look that misses a grant, an unlink without
\* a tombstone, or a batch given up half way would).
RevokeLeavesNothing == \A c \in Clients : pc[c] = "revoked" => steady[c] = {}

=============================================================================
