--------------------------------- MODULE Home ---------------------------------
(***************************************************************************)
(* The parts around the proxy that keep a state of their own in the home   *)
(* directory or in a process, in one specification: one of them is chosen  *)
(* at first and runs; the others stay as they begin.                       *)
(*   "grants"    the grant directory and its clients (GrantStore)          *)
(*   "tools"     the watch over a server's tools (ToolInventory)           *)
(*   "identity"  the signing identity and its first mints (Identity)       *)
(*   "run"       one run of the proxy command (Supervisor)                 *)
(***************************************************************************)
EXTENDS GrantStore

Parts == {"grants", "tools", "identity", "run"}

CONSTANTS
    Tools, Defs, NoTool, NoBaseline, PageOf, MaxChanges, MaxListings, \* ToolInventory
    Minters, ProcessOf, Seeds, NoSeed                                 \* Identity

VARIABLES
    part,
    served, changes, asked, page, accumulator, shown, listings, hookAt, snapshot, todo,
    lines, synced, failed, baseline, version, owed, listed,
    keychain, usable, keyfile, private, jwks, backend, at, held, drawn, tokens, displaced, cutShort,
    stage, enforcing, lock, exporter, handlers, cause, fatal, closing, code

toolVars ==
    <<served, changes, asked, page, accumulator, shown, listings, hookAt, snapshot, todo,
      lines, synced, failed, baseline, version, owed, listed>>
identityVars ==
    <<keychain, usable, keyfile, private, jwks, backend, at, held, drawn, tokens, displaced, cutShort>>
runVars == <<stage, enforcing, lock, exporter, handlers, cause, fatal, closing, code>>

Watch == INSTANCE ToolInventory WITH pc <- hookAt, next <- snapshot

Key == INSTANCE Identity

Command == INSTANCE Supervisor

ASSUME WatchAssumption == Watch!ToolInventoryAssumption
ASSUME KeyAssumption == Key!IdentityAssumption

AllInit ==
    /\ part \in Parts
    /\ Init
    /\ Watch!Init /\ (part # "tools" => served = [t \in Tools |-> CHOOSE d \in Defs : TRUE])
    /\ Key!Init /\ (part # "identity" => usable)
    /\ Command!Init /\ (part # "run" => lock = "free")

Store ==
    /\ part = "grants" /\ Next
    /\ UNCHANGED <<part, toolVars, identityVars, runVars>>

List ==
    /\ part = "tools" /\ Watch!Next
    /\ UNCHANGED <<part, vars, identityVars, runVars>>

MintFirst ==
    /\ part = "identity" /\ Key!Next
    /\ UNCHANGED <<part, vars, toolVars, runVars>>

RunOnce ==
    /\ part = "run" /\ Command!Next
    /\ UNCHANGED <<part, vars, toolVars, identityVars>>

\* The run is over.
Over ==
    /\ stage = "gone"
    /\ UNCHANGED <<part, vars, toolVars, identityVars, runVars>>

AllNext == Store \/ List \/ MintFirst \/ RunOnce \/ Over

AllSpec == AllInit /\ [][AllNext]_<<part, vars, toolVars, identityVars, runVars>>

-----------------------------------------------------------------------------
(* Properties; those of GrantStore are in that module. *)

\* The types of all four.
AllTypeOK == TypeOK /\ Watch!TypeOK /\ Key!TypeOK /\ Command!TypeOK

\* No change of a tool definition is lost by the tool inventory.
NoSilentDrift == Watch!NoSilentDrift

\* The tool inventory's baseline is one whole listing.
BaselineIsOneListing == Watch!BaselineIsOneListing

\* What was minted verifies, but for a public key that is being rewritten or that a
\* crash cut short, and for a seed that was displaced (Identity).
MintedVerifies == Key!MintedVerifies

\* The exit code of a run tells how it ended.
ExitIsHonest == Command!ExitIsHonest

=============================================================================
