------------------------------ MODULE GrantLedger ------------------------------
(***************************************************************************)
(* What the grant directory promises its callers, whichever process they   *)
(* run in (the header of packages/store/src/grant-store.ts): a grant is    *)
(* active from the moment it is put until it is revoked or removed, for    *)
(* good; it is consumed at most once; and a look at the directory, which   *)
(* takes time, returns at least what was active all along and at most what *)
(* was active at some moment of it.                                        *)
(***************************************************************************)
EXTENDS Integers

CONSTANTS
    Clients,  \* callers: decisions, revoke calls, the CLI
    Grants,   \* grants, each under a jti of its own
    Scopes    \* what a look may ask for: every grant, one tool's, one jti

VARIABLES
    issued,   \* grants ever put
    active,   \* grants in force
    revoked,  \* grants revoked
    wins,     \* per grant: how many callers were told they consumed it
    phase,    \* per client: "closed", "looking" or, once it has its reply, "told"
    scope,    \* per client: what its call asks for
    steady,   \* per client: in force ever since its call began
    ever,     \* per client: in force at some moment since then
    reply     \* per client: what it was told

vars == <<issued, active, revoked, wins, phase, scope, steady, ever, reply>>

Init ==
    /\ issued = {} /\ active = {} /\ revoked = {}
    /\ wins = [g \in Grants |-> 0]
    /\ phase = [c \in Clients |-> "closed"]
    /\ scope = [c \in Clients |-> {}]
    /\ steady = [c \in Clients |-> {}]
    /\ ever = [c \in Clients |-> {}]
    /\ reply = [c \in Clients |-> {}]

\* Every call under way witnesses the change.
Witnessed ==
    /\ steady' = [c \in Clients |-> steady[c] \cap active']
    /\ ever' = [c \in Clients |-> ever[c] \cup (active' \cap scope[c])]

Issue(g) ==
    /\ g \notin issued
    /\ issued' = issued \cup {g}
    /\ active' = active \cup {g}
    /\ UNCHANGED <<revoked, wins, phase, scope, reply>>
    /\ Witnessed

\* For good: no action takes a grant out of revoked or issues it again.
Revoke(g) ==
    /\ g \in issued
    /\ active' = active \ {g}
    /\ revoked' = revoked \cup {g}
    /\ UNCHANGED <<issued, wins, phase, scope, reply>>
    /\ Witnessed

Remove(g) ==
    /\ active' = active \ {g}
    /\ UNCHANGED <<issued, revoked, wins, phase, scope, reply>>
    /\ Witnessed

Consume(g) ==
    /\ wins[g] = 0
    /\ wins' = [wins EXCEPT ![g] = 1]
    /\ UNCHANGED <<issued, active, revoked, phase, scope, steady, ever, reply>>

Begin(c, S) ==
    /\ phase[c] = "closed"
    /\ phase' = [phase EXCEPT ![c] = "looking"]
    /\ scope' = [scope EXCEPT ![c] = S]
    /\ steady' = [steady EXCEPT ![c] = active \cap S]
    /\ ever' = [ever EXCEPT ![c] = active \cap S]
    /\ UNCHANGED <<issued, active, revoked, wins, reply>>

Tell(c, S) ==
    /\ phase[c] = "looking"
    /\ steady[c] \subseteq S /\ S \subseteq ever[c]
    /\ phase' = [phase EXCEPT ![c] = "told"]
    /\ reply' = [reply EXCEPT ![c] = S]
    /\ UNCHANGED <<issued, active, revoked, wins, scope, steady, ever>>

Close(c) ==
    /\ phase' = [phase EXCEPT ![c] = "closed"]
    /\ scope' = [scope EXCEPT ![c] = {}]
    /\ steady' = [steady EXCEPT ![c] = {}]
    /\ ever' = [ever EXCEPT ![c] = {}]
    /\ reply' = [reply EXCEPT ![c] = {}]
    /\ UNCHANGED <<issued, active, revoked, wins>>

Next ==
    \/ \E g \in Grants : Issue(g) \/ Revoke(g) \/ Remove(g) \/ Consume(g)
    \/ \E c \in Clients : \E S \in Scopes : Begin(c, S)
    \/ \E c \in Clients : \E S \in SUBSET Grants : Tell(c, S)
    \/ \E c \in Clients : Close(c)

Spec == Init /\ [][Next]_vars

=============================================================================
