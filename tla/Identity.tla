------------------------------- MODULE Identity -------------------------------
(***************************************************************************)
(* The signing identity (packages/grants/src/keys.ts) and the part of      *)
(* mintGrant that uses it (mint.ts): which backend holds the seed, how the *)
(* first mint of all makes it, how the public key is published and what a  *)
(* grant is signed with.  Processes share the home directory and the OS    *)
(* keychain and interleave at every system call and every await; each may  *)
(* die anywhere.                                                           *)
(*                                                                         *)
(* A key id is the seed it derives from.  A file is written in two steps,  *)
(* because open() truncates or creates it before the bytes are there.      *)
(***************************************************************************)
CONSTANTS
    Minters,    \* calls of mintGrant, in any process
    ProcessOf,  \* the process of each
    Seeds,      \* what generateSeed may draw, each at most once
    NoSeed

\* A seed is none of the other things that are found in its place.
IdentityAssumption == NoSeed \notin Seeds /\ {"absent", "empty"} \cap Seeds = {}

Processes == {ProcessOf[m] : m \in Minters}

Backends == {"file", "keychain"}

VARIABLES
    keychain,   \* the secret of the OS keychain
    usable,     \* whether the OS keychain answers
    keyfile,    \* identity.key: a seed, "absent" or "empty"
    private,    \* whether identity.key is readable by its owner alone
    jwks,       \* keys/<kid>.jwk.json: "absent", "empty" or "written"
    backend,    \* per process: the memoized key store
    at,         \* per minter: where its call is
    held,       \* per minter: the seed in hand, then the kid of the header
    drawn,      \* seeds drawn                                       (history)
    tokens,     \* grants minted                                     (history)
    displaced,  \* seeds that another took the place of              (history)
    cutShort    \* kids whose public key was truncated and not written (history)

disk    == <<keychain, usable, keyfile, private, jwks>>
history == <<tokens, displaced, cutShort>>
vars    ==
    <<keychain, usable, keyfile, private, jwks, backend, at, held, drawn, tokens, displaced, cutShort>>

TypeOK ==
    /\ keychain \in Seeds \cup {NoSeed}
    /\ usable \in BOOLEAN /\ private \in BOOLEAN
    /\ keyfile \in Seeds \cup {"absent", "empty"}
    /\ jwks \in [Seeds -> {"absent", "empty", "written"}]
    /\ backend \in [Processes -> Backends \cup {"none", "rejected", "gone"}]
    /\ at \in [Minters -> {"idle", "reading", "creating", "filling", "storing", "publishing",
                           "published", "signing", "done"}]
    /\ held \in [Minters -> Seeds \cup {NoSeed}]
    /\ drawn \subseteq Seeds /\ displaced \subseteq Seeds /\ cutShort \subseteq Seeds
    /\ tokens \subseteq [kid : Seeds, signer : Seeds]

Init ==
    /\ keychain = NoSeed /\ keyfile = "absent" /\ private = TRUE
    /\ usable \in BOOLEAN
    /\ jwks = [s \in Seeds |-> "absent"]
    /\ backend = [p \in Processes |-> "none"]
    /\ at = [m \in Minters |-> "idle"] /\ held = [m \in Minters |-> NoSeed]
    /\ drawn = {} /\ tokens = {} /\ displaced = {} /\ cutShort = {}

Goes(m, place) == at' = [at EXCEPT ![m] = place]
Holds(m, seed) == held' = [held EXCEPT ![m] = seed]

\* The call throws, or is over.
Ends(m) == Goes(m, "done") /\ UNCHANGED held

Draw(m) ==
    \E seed \in Seeds \ drawn : Holds(m, seed) /\ drawn' = drawn \cup {seed}

Alive(m, place) == at[m] = place /\ backend[ProcessOf[m]] # "gone"
Uses(m, kind)   == backend[ProcessOf[m]] = kind

-----------------------------------------------------------------------------
(* The key store of a process. *)

\* getKeyStore() and createKeyStore(): the first mint of the process decides,
\* by the backend asked for and by a probe of the keychain, and what it gets,
\* a failure too, is what every later mint of the process gets.
CreateKeyStore(p) ==
    /\ backend[p] = "none"
    /\ \E asked \in Backends \cup {"auto", "invalid"} :
          backend' = [backend EXCEPT ![p] =
                         IF asked = "file" THEN "file"
                         ELSE IF asked = "invalid" \/ (asked = "keychain" /\ ~usable) THEN "rejected"
                         ELSE IF usable THEN "keychain" ELSE "file"]
    /\ UNCHANGED <<disk, at, held, drawn, history>>

Begin(m) ==
    /\ at[m] = "idle"
    /\ \/ backend[ProcessOf[m]] \in Backends /\ Goes(m, "reading") /\ UNCHANGED held
       \/ Uses(m, "rejected") /\ Ends(m)
    /\ UNCHANGED <<disk, backend, drawn, history>>

-----------------------------------------------------------------------------
(* ensureIdentity. *)

\* readFileSeed refuses a key file that others may read, and one without a
\* whole seed in it.
Readable == private /\ keyfile \in Seeds

ReadKeyFile(m) ==
    /\ Alive(m, "reading") /\ Uses(m, "file")
    /\ \/ keyfile = "absent" /\ Goes(m, "creating") /\ Draw(m)
       \/ Readable /\ Goes(m, "publishing") /\ Holds(m, keyfile) /\ UNCHANGED drawn
       \/ keyfile # "absent" /\ ~Readable /\ Ends(m) /\ UNCHANGED drawn
    /\ UNCHANGED <<disk, backend, history>>

\* Variant: without the "wx" flag the loser of a race truncates the winner's file.
OpenClobbering(m) ==
    /\ Alive(m, "creating")
    /\ keyfile' = "empty" /\ Goes(m, "filling") /\ UNCHANGED held
    /\ UNCHANGED <<keychain, usable, private, jwks, backend, drawn, history>>

\* The open() of the exclusive create: EEXIST sends the loser to what the
\* winner wrote, which may not be there yet.
CreateKeyFile(m) ==
    /\ Alive(m, "creating")
    /\ \/ /\ keyfile = "absent"
          /\ keyfile' = "empty" /\ Goes(m, "filling") /\ UNCHANGED held
       \/ /\ Readable
          /\ Goes(m, "publishing") /\ Holds(m, keyfile) /\ UNCHANGED keyfile
       \/ /\ keyfile # "absent" /\ ~Readable
          /\ Ends(m) /\ UNCHANGED keyfile
    /\ UNCHANGED <<keychain, usable, private, jwks, backend, drawn, history>>

FillKeyFile(m) ==
    /\ Alive(m, "filling")
    /\ keyfile' = held[m]
    /\ Goes(m, "publishing")
    /\ UNCHANGED <<keychain, usable, private, jwks, backend, held, drawn, history>>

\* readSeed of the keychain, an await of its own.
ReadSecret(m) ==
    /\ Alive(m, "reading") /\ Uses(m, "keychain")
    /\ \/ ~usable /\ Ends(m) /\ UNCHANGED drawn
       \/ usable /\ keychain = NoSeed /\ Goes(m, "storing") /\ Draw(m)
       \/ /\ usable /\ keychain # NoSeed
          /\ Goes(m, "publishing") /\ Holds(m, keychain) /\ UNCHANGED drawn
    /\ UNCHANGED <<disk, backend, history>>

\* setSecret, which replaces whatever is there by now.
StoreSecret(m) ==
    /\ Alive(m, "storing")
    /\ \/ /\ ~usable
          /\ Ends(m) /\ UNCHANGED <<keychain, displaced>>
       \/ /\ usable
          /\ keychain' = held[m]
          /\ displaced' = displaced \cup ({keychain} \ {NoSeed})
          /\ Goes(m, "publishing") /\ UNCHANGED held
    /\ UNCHANGED <<usable, keyfile, private, jwks, backend, drawn, tokens, cutShort>>

\* writeIdentityJwk, on every call: truncated, then written.
OpenJwk(m) ==
    /\ Alive(m, "publishing")
    /\ jwks' = [jwks EXCEPT ![held[m]] = "empty"]
    /\ Goes(m, "published")
    /\ UNCHANGED <<keychain, usable, keyfile, private, backend, held, drawn, history>>

WriteJwk(m) ==
    /\ Alive(m, "published")
    /\ jwks' = [jwks EXCEPT ![held[m]] = "written"]
    /\ cutShort' = cutShort \ {held[m]}
    /\ Goes(m, "signing")
    /\ UNCHANGED <<keychain, usable, keyfile, private, backend, held, drawn, tokens, displaced>>

\* The public keys that these calls have truncated and that nobody has written since.
Truncated(calls) ==
    {held[m] : m \in {n \in calls : at[n] = "published" /\ jwks[held[n]] = "empty"}}

\* write() fails, on a full disk for one, and the call throws: the file stays empty.
WriteFails(m) ==
    /\ Alive(m, "filling") \/ Alive(m, "published")
    /\ Ends(m)
    /\ cutShort' = cutShort \cup Truncated({m})
    /\ UNCHANGED <<disk, backend, drawn, tokens, displaced>>

-----------------------------------------------------------------------------
(* The signature. *)

Signs(m, seed) == tokens' = tokens \cup {[kid |-> held[m], signer |-> seed]}

SignWithFile(m) == IF Readable THEN Signs(m, keyfile) ELSE UNCHANGED tokens

SignWithKeychain(m) ==
    IF usable /\ keychain # NoSeed THEN Signs(m, keychain) ELSE UNCHANGED tokens

\* sign() of either backend reads the seed again: it need not be the one of
\* the header.
Sign(m) ==
    /\ Alive(m, "signing")
    /\ IF Uses(m, "file") THEN SignWithFile(m) ELSE SignWithKeychain(m)
    /\ Ends(m)
    /\ UNCHANGED <<disk, backend, drawn, displaced, cutShort>>

-----------------------------------------------------------------------------
(* The world. *)

\* The process dies; its calls stay where they are, and what one of them has
\* truncated stays empty until another mint writes it.
Crash(p) ==
    /\ backend[p] # "gone"
    /\ backend' = [backend EXCEPT ![p] = "gone"]
    /\ cutShort' = cutShort \cup Truncated({m \in Minters : ProcessOf[m] = p})
    /\ UNCHANGED <<disk, at, held, drawn, tokens, displaced>>

\* The keychain is locked or unlocked, the key file opened up or shut again.
Changes ==
    /\ \/ usable' = ~usable /\ UNCHANGED private
       \/ keyfile # "absent" /\ private' = ~private /\ UNCHANGED usable
    /\ UNCHANGED <<keychain, keyfile, jwks, backend, at, held, drawn, history>>

Next ==
    \/ \E m \in Minters :
          \/ Begin(m) \/ ReadKeyFile(m) \/ CreateKeyFile(m) \/ FillKeyFile(m)
          \/ ReadSecret(m) \/ StoreSecret(m) \/ OpenJwk(m) \/ WriteJwk(m) \/ WriteFails(m)
          \/ Sign(m)
    \/ \E p \in Processes : CreateKeyStore(p) \/ Crash(p)
    \/ Changes

Spec == Init /\ [][Next]_vars

-----------------------------------------------------------------------------
(* Properties. *)

\* The resolver of verify.ts finds the public key: a file that is missing, or that
\* is no JWK yet, is no key.
Resolves(kid) == jwks[kid] = "written"

\* A mint is between the two steps of writeIdentityJwk with this key.
BeingRewritten(kid) == \E m \in Minters : Alive(m, "published") /\ held[m] = kid

\* Every grant ever minted can be verified, whatever raced, whatever died and
\* whichever backend each process had: the key that its header names is found, and
\* is the one that signed it (ensureFileSeed, writeIdentityJwk, mintGrant and the
\* resolver read together).  Since every mint truncates the public key first, it is
\* not found while one rewrites it, nor, where a crash or a failed write cut that
\* short, until a later one has; nothing else takes it away.  And since the keychain
\* creates without exclusion, a grant may name a seed that an overlapping first mint
\* displaced.
MintedVerifies ==
    \A token \in tokens :
        /\ Resolves(token.kid) \/ BeingRewritten(token.kid) \/ token.kid \in cutShort
        /\ token.signer = token.kid \/ token.kid \in displaced

=============================================================================
