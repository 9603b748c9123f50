------------------------------ MODULE ToolInventory ------------------------------
(***************************************************************************)
(* The watch over a server's tool definitions:                             *)
(* packages/proxy-stdio/src/tool-inventory.ts                              *)
(* (createToolInventoryClassifier), between a client that pages through    *)
(* tools/list, a server whose definitions change, the persisted baseline   *)
(* and the audit log.                                                      *)
(*                                                                         *)
(* The hook runs inside one turn of the event loop, so nothing interleaves *)
(* with it but the end of the process or of the machine: its steps are     *)
(* actions, and only a crash comes between them.  An appended audit line   *)
(* survives the process; it survives a power cut once it is flushed.  The  *)
(* client pages one listing at a time and may abandon it for a fresh one   *)
(* (comment C-3); a late page of an abandoned listing is not modelled.     *)
(***************************************************************************)
EXTENDS Integers, FiniteSets

CONSTANTS
    Tools,       \* tool names
    Defs,        \* what a definition may be: its hints and its schema hash
    NoTool,      \* the tool is not there
    NoBaseline,  \* no tool-inventory.json, or one that cannot be read
    PageOf,      \* the page of a listing that carries a tool, when paged
    MaxChanges,  \* bound: how often the server redefines a tool
    MaxListings  \* bound: how many listings are started

Pages == {1, 2}

\* What the constants are.
ToolInventoryAssumption ==
    /\ NoTool \notin Defs
    /\ NoBaseline \notin [Tools -> Defs \cup {NoTool}]
    /\ PageOf \in [Tools -> Pages]
    /\ MaxChanges \in Nat /\ MaxListings \in Nat

Inventories == [Tools -> Defs \cup {NoTool}]
Empty == [t \in Tools |-> NoTool]

Kinds == {"added", "removed", "changed"}
\* A drift report says which baseline it compares with: the same change may
\* come, go and come again.
Reports == [tool : Tools, kind : Kinds, since : Nat]

VARIABLES
    served,       \* the definitions the server has now
    changes,      \* how often it has changed them
    asked,        \* pendingListRequests: "none", "fresh" or "next"
    page,         \* the page the client asked for
    accumulator,  \* the tools collected from the listing under way
    shown,        \* what the client has been shown of it
    listings,     \* listings started
    pc,           \* where finalize() is
    next,         \* its snapshot
    todo,         \* the reports it has still to append
    lines,        \* tool_definition_changed lines in the audit log
    synced,       \* those of them that are flushed
    failed,       \* reports whose append or flush threw
    baseline,     \* tool-inventory.json
    version,      \* how often it has been replaced
    owed,         \* the drift the baselines so far have swallowed
    listed        \* the whole listing the baseline was taken from

server  == <<served, changes>>
client  == <<asked, page, shown, listings>>
hook    == <<accumulator, pc, next, todo>>
audit   == <<lines, synced, failed>>
disk    == <<baseline, version, owed, listed>>
vars    == <<server, client, hook, audit, disk>>

TypeOK ==
    /\ served \in Inventories /\ next \in Inventories
    /\ accumulator \in Inventories /\ shown \in Inventories
    /\ asked \in {"none", "fresh", "next"} /\ page \in Pages
    /\ pc \in {"idle", "reporting", "flushing", "saving"}
    /\ todo \subseteq Reports /\ lines \subseteq Reports
    /\ synced \subseteq lines /\ failed \subseteq Reports /\ owed \subseteq Reports
    /\ baseline \in Inventories \cup {NoBaseline}
    /\ listed \in Inventories \cup {NoBaseline}
    /\ changes \in Nat /\ listings \in Nat /\ version \in Nat

Init ==
    /\ served \in {i \in Inventories : i # Empty}
    /\ changes = 0 /\ listings = 0 /\ version = 0
    /\ asked = "none" /\ page = 1
    /\ accumulator = Empty /\ shown = Empty
    /\ pc = "idle" /\ next = Empty /\ todo = {}
    /\ lines = {} /\ synced = {} /\ failed = {} /\ owed = {}
    /\ baseline = NoBaseline /\ listed = NoBaseline

-----------------------------------------------------------------------------
(* The server, and the client's side of the hook. *)

Redefine(t) ==
    /\ changes < MaxChanges
    /\ \E d \in Defs \cup {NoTool} :
          d # served[t] /\ served' = [served EXCEPT ![t] = d]
    /\ changes' = changes + 1
    /\ UNCHANGED <<client, hook, audit, disk>>

Idle == pc = "idle"

\* A request without a cursor starts a listing, also in the middle of one.
ListTools ==
    /\ Idle /\ asked = "none"
    /\ listings < MaxListings
    /\ asked' = "fresh" /\ page' = 1
    /\ shown' = Empty
    /\ listings' = listings + 1
    /\ UNCHANGED <<server, hook, audit, disk>>

\* A request that carries the nextCursor of the page before.
NextPage ==
    /\ Idle /\ asked = "none" /\ page = 2
    /\ shown # Empty
    /\ asked' = "next"
    /\ UNCHANGED <<server, page, shown, listings, hook, audit, disk>>

\* The tools of one answer: all of them in one, or a page.
Answered(whole) ==
    [t \in Tools |-> IF whole \/ PageOf[t] = page THEN served[t] ELSE NoTool]

\* Later pages are laid over the earlier ones, by tool name.
Over(before, tools) ==
    [t \in Tools |-> IF tools[t] # NoTool THEN tools[t] ELSE before[t]]

\* An error response: the request is forgotten, nothing is captured.
ListError ==
    /\ Idle /\ asked # "none"
    /\ asked' = "none"
    /\ page' = 1 /\ shown' = Empty
    /\ UNCHANGED <<server, listings, hook, audit, disk>>

-----------------------------------------------------------------------------
(* diffToolInventory(), without the wording of a change. *)

KindOf(old, new) ==
    IF old = NoTool THEN "added" ELSE IF new = NoTool THEN "removed" ELSE "changed"

Report(t, before, after) == [tool |-> t, kind |-> KindOf(before[t], after[t]), since |-> version]

\* The first capture has nothing to compare with: no drift.
Diff(prior, after) ==
    IF prior = NoBaseline THEN {}
    ELSE {Report(t, prior, after) : t \in {u \in Tools : prior[u] # after[u]}}

-----------------------------------------------------------------------------
(* The server's side of the hook. *)

\* Variant: an abandoned listing is not cleared away by a fresh one.
CollectedSoFar == accumulator

\* A fresh listing supersedes whatever was collected before.
Collected == IF asked = "fresh" THEN Empty ELSE accumulator

\* A page that is not the last is collected.
PageArrives ==
    /\ Idle /\ asked # "none"
    /\ page = 1
    /\ accumulator' = Over(Collected, Answered(FALSE))
    /\ shown' = Over(shown, Answered(FALSE))
    /\ asked' = "none" /\ page' = 2
    /\ UNCHANGED <<server, listings, pc, next, todo, audit, disk>>

\* The last page, or the only one: the snapshot is built, the baseline read
\* (a file that cannot be read is no baseline), and the two are compared.
LastPageArrives ==
    /\ Idle /\ asked # "none"
    /\ \E whole \in BOOLEAN :
          /\ whole <=> page = 1
          /\ LET all == Over(Collected, Answered(whole))
             IN  /\ next' = all
                 /\ todo' = Diff(baseline, all)
          /\ shown' = Over(shown, Answered(whole))
    /\ accumulator' = Empty
    /\ asked' = "none" /\ page' = 1
    /\ pc' = "reporting"
    /\ UNCHANGED <<server, listings, audit, disk>>

\* emitToolDefinitionChangeEvent(): a throw is logged, and the rest goes on.
EmitReport ==
    /\ pc = "reporting"
    /\ \E r \in todo :
          /\ todo' = todo \ {r}
          /\ \/ lines' = lines \cup {r} /\ UNCHANGED failed
             \/ failed' = failed \cup {r} /\ UNCHANGED lines
    /\ UNCHANGED <<server, client, accumulator, pc, next, synced, disk>>

\* All are appended: on to audit.flush().
Reported ==
    /\ pc = "reporting" /\ todo = {}
    /\ pc' = "flushing"
    /\ UNCHANGED <<server, client, accumulator, next, todo, audit, disk>>

\* Variant: the flush is left to the timer.
FlushLater ==
    /\ pc = "flushing"
    /\ pc' = "saving"
    /\ UNCHANGED <<server, client, accumulator, next, todo, audit, disk>>

\* audit.flush(), best effort as well.
FlushReports ==
    /\ pc = "flushing"
    /\ \/ synced' = lines /\ UNCHANGED failed
       \/ failed' = failed \cup (lines \ synced) /\ UNCHANGED synced
    /\ pc' = "saving"
    /\ UNCHANGED <<server, client, accumulator, next, todo, lines, disk>>

\* atomicWriteFileSync(): a reader sees the old baseline or the new one.
Replace ==
    /\ baseline' = next
    /\ listed' = shown
    /\ owed' = owed \cup Diff(baseline, next)
    /\ version' = version + 1

\* saveToolInventory(): the rename replaces the baseline, or something in it
\* throws and the old one stays.
SaveBaseline ==
    /\ pc = "saving"
    /\ Replace \/ UNCHANGED disk
    /\ pc' = "idle"
    /\ UNCHANGED <<server, client, accumulator, next, todo, audit>>

\* The flush of the audit log runs on its own timer too.
FsyncTimer ==
    /\ Idle /\ lines # synced
    /\ synced' = lines
    /\ UNCHANGED <<server, client, hook, lines, failed, disk>>

-----------------------------------------------------------------------------
(* Faults. *)

\* The proxy, or the machine under it, ends; the next run starts afresh.
Restart ==
    /\ asked' = "none" /\ page' = 1 /\ shown' = Empty
    /\ accumulator' = Empty /\ pc' = "idle" /\ next' = Empty /\ todo' = {}
    /\ UNCHANGED <<server, listings, disk>>

Crash     == Restart /\ UNCHANGED audit
PowerLoss == Restart /\ lines' = synced /\ UNCHANGED <<synced, failed>>

Next ==
    \/ \E t \in Tools : Redefine(t)
    \/ ListTools \/ NextPage \/ ListError
    \/ PageArrives \/ LastPageArrives
    \/ EmitReport \/ Reported \/ FlushReports \/ SaveBaseline
    \/ FsyncTimer
    \/ Crash \/ PowerLoss

Spec == Init /\ [][Next]_vars

-----------------------------------------------------------------------------
(* Properties. *)

\* The rug-pull tripwire: a definition the baseline has moved on from, which
\* no later listing will report again, is reported in the audit log, and the
\* report cannot be lost any more; only an audit log that threw excuses it.
\* A crash between the report, the flush and the new baseline may repeat a
\* report but never loses one (comment C-2).
NoSilentDrift == owed \subseteq synced \cup failed

\* The baseline is the listing the client was shown, whole: pages of an
\* abandoned listing, of a failed one or of an earlier run are never in it.
BaselineIsOneListing == baseline = listed

=============================================================================
