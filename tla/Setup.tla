--------------------------------- MODULE Setup ---------------------------------
(***************************************************************************)
(* knotrust init (packages/cli/src/init/command.ts) and knotrust add pack  *)
(* (packages/cli/src/add/pack-command.ts): two commands that load          *)
(* knotrust.config, work on the copy, may ask the user, and write the      *)
(* whole file back; init first rewrites the client's MCP configuration.    *)
(*                                                                         *)
(* Between a load and the write that rests on it come a child process and  *)
(* a prompt, and meanwhile the user edits both files and the servers       *)
(* change what they say.  Both writes are renames: no reader sees half of  *)
(* one.  Formatting is left out; two texts of one configuration may        *)
(* differ, two configurations never have the same text.  The user keeps    *)
(* one knotrust.config, of one format.                                     *)
(***************************************************************************)
EXTENDS PolicyFile, FiniteSets

CONSTANTS
    FileConfigs,  \* what a knotrust.config may say at first
    UserEntries,  \* the entries a user writes by hand
    OfferedPacks, \* the pack files there are
    FirstHints,   \* what the servers may say at first
    MaxEdits      \* bound: edits by the user, and changes of a server

ASSUME SetupAssumption ==
    /\ FileConfigs \subseteq Configs /\ OfferedPacks \subseteq Packs
    /\ UserEntries \subseteq {e \in ToolEntries : e.source = "user"}
    /\ FirstHints \subseteq [Servers -> Hints]
    /\ MaxEdits \in Nat

Commands == {"init", "add"}

\* knotrust.config.*: none, one the schema refuses, a program, or data.
NoFile   == [form |-> "none", config |-> DefaultConfig]
Broken   == [form |-> "broken", config |-> DefaultConfig]
Data(c)  == [form |-> "data", config |-> c]
Files    == [form : {"none", "broken", "ts", "data"}, config : Configs]

\* How the client starts a server: not at all, itself, through knotrust, or
\* through knotrust through knotrust.
Starts == {"absent", "direct", "wrapped", "nested"}

VARIABLES
    client,   \* mcpServers of the client's configuration
    file,     \* knotrust.config
    says,     \* what each server says of its tool
    edits,
    job       \* the run of each command, at most one of each

world == <<client, file, says, edits>>
vars  == <<client, file, says, edits, job>>

(* at        where the command is                                          *)
(* yes       --yes                                                         *)
(* doc       the client's configuration as init read it                    *)
(* wrapping  plan.wrapped                                                  *)
(* pack      the pack of add                                               *)
(* loaded    knotrust.config as the command loaded it                      *)
(* proposal  the configuration it would write                              *)
Jobs ==
    [at : {"idle", "selecting", "loading", "working", "confirming"}, yes : BOOLEAN,
     doc : [Servers -> Starts], wrapping : SUBSET Servers, pack : Packs,
     loaded : Files, proposal : Configs]

NoJob ==
    [at |-> "idle", yes |-> FALSE, doc |-> [s \in Servers |-> "absent"], wrapping |-> {},
     pack |-> CHOOSE p \in OfferedPacks : TRUE, loaded |-> NoFile, proposal |-> DefaultConfig]

TypeOK ==
    /\ client \in [Servers -> Starts]
    /\ file \in Files
    /\ says \in [Servers -> Hints]
    /\ edits \in 0..MaxEdits
    /\ job \in [Commands -> Jobs]

Init ==
    /\ client \in [Servers -> {"absent", "direct"}]
    /\ file \in {NoFile} \cup {[form |-> f, config |-> c] : f \in {"ts", "data"}, c \in FileConfigs}
    /\ says \in FirstHints
    /\ edits = 0
    /\ job = [c \in Commands |-> NoJob]

-----------------------------------------------------------------------------
(* What both commands do. *)

Job(c, state) == job' = [job EXCEPT ![c] = state]
Ends(c)       == Job(c, NoJob)

\* loadKnotrustConfig(): a file the schema refuses ends the command (init with
\* a notice, add with an error), a program is left to its author.
Load(c) ==
    /\ job[c].at = "loading"
    /\ IF file.form \in {"broken", "ts"} THEN Ends(c)
       ELSE Job(c, [job[c] EXCEPT !.at = "working", !.loaded = file])
    /\ UNCHANGED world

\* atomicWriteFileSync() over the file that was loaded, whatever it says by now.
Write(config) == file' = Data(config)

Propose(c, config, asks) ==
    IF asks
    THEN Job(c, [job[c] EXCEPT !.at = "confirming", !.proposal = config]) /\ UNCHANGED file
    ELSE Write(config) /\ Ends(c)

Confirm(c) ==
    /\ job[c].at = "confirming"
    /\ Write(job[c].proposal)
    /\ Ends(c)
    /\ UNCHANGED <<client, says, edits>>

\* Declined, cancelled, or the command is interrupted, wherever it is.
Abandon(c) ==
    /\ job[c].at # "idle"
    /\ Ends(c)
    /\ UNCHANGED world

-----------------------------------------------------------------------------
(* knotrust init. *)

\* readClientConfig(); which servers to wrap may then be asked for.
InitReads ==
    /\ job["init"].at = "idle"
    /\ \E yes \in BOOLEAN :
          Job("init", [NoJob EXCEPT !.at = "selecting", !.yes = yes, !.doc = client])
    /\ UNCHANGED world

\* partitionServers: declared, and not started through knotrust already.
Wrappable(starts) == {s \in Servers : starts[s] = "direct"}

\* wrapEntry, for the servers of the plan.
Wrap(starts, S) ==
    [s \in Servers |->
        IF s \notin S THEN starts[s] ELSE IF starts[s] = "direct" THEN "wrapped" ELSE "nested"]

\* rewriteClientConfig(): what may be in plan.wrapped, which is all servers,
\* one or none (a server it does not find), or, if asked for, any choice.
Plans(doc, yes) ==
    {S \in SUBSET Wrappable(doc) : yes => S = Wrappable(doc) \/ Cardinality(S) <= 1}

\* The plan and the write of the client's configuration rest on what was read.
\* With nothing to wrap the command ends here, whatever knotrust.config lacks.
InitWraps ==
    /\ job["init"].at = "selecting"
    /\ \E S \in Plans(job["init"].doc, job["init"].yes) :
          IF S = {} THEN Ends("init") /\ UNCHANGED client
          ELSE /\ client' = Wrap(job["init"].doc, S)
               /\ Job("init", [job["init"] EXCEPT !.at = "loading", !.wrapping = S])
    /\ UNCHANGED <<file, says, edits>>

\* What the server says of its tool, if it answers in time.
CaptureOutcomes == Hints \cup {"failed"}

\* captureToolInventory(): best effort.
Captures(S) ==
    {captured \in [S -> CaptureOutcomes] :
        \A s \in S : captured[s] \in {says[s], "failed"}}

\* The captures, buildGeneratedConfig() and the comparison with the text the
\* file has by now.
InitGenerates ==
    /\ job["init"].at = "working"
    /\ \E captured \in Captures(job["init"].wrapping) :
          LET config == Generated(job["init"].loaded.config, captured)
              exists == job["init"].loaded.form # "none"
          IN  \/ /\ exists /\ file = Data(config)
                 /\ Ends("init")
                 /\ UNCHANGED file
              \/ Propose("init", config, exists /\ ~job["init"].yes)
    /\ UNCHANGED <<client, says, edits>>

-----------------------------------------------------------------------------
(* knotrust add pack. *)

\* loadPackFile(), for a pack file the schema accepts.
AddReads ==
    /\ job["add"].at = "idle"
    /\ \E yes \in BOOLEAN, pack \in OfferedPacks :
          Job("add", [NoJob EXCEPT !.at = "loading", !.yes = yes, !.pack = pack])
    /\ UNCHANGED world

\* Every entry is what applying the pack again would make of it.
ToolEntriesEqual(config, merged) == merged = config

\* mergePackIntoTools(); nothing changed, nothing is written.
AddMerges ==
    /\ job["add"].at = "working"
    /\ LET loaded == job["add"].loaded.config
           config == Applied(loaded, job["add"].pack)
       IN  IF ToolEntriesEqual(loaded, config) THEN Ends("add") /\ UNCHANGED file
           ELSE Propose("add", config, ~job["add"].yes)
    /\ UNCHANGED <<client, says, edits>>

-----------------------------------------------------------------------------
(* The user, and the servers. *)

Edit == edits < MaxEdits /\ edits' = edits + 1

\* The user writes an entry of her own, or something the schema refuses.
UserEdits ==
    /\ Edit
    /\ \/ \E s \in Servers, e \in UserEntries :
            /\ file.form \in {"data", "none"}
            /\ file' = Data([file.config EXCEPT !.servers[s] = e])
       \/ file' = Broken
    /\ UNCHANGED <<client, says, job>>

\* The user declares a server, or takes one out of knotrust again.
UserStarts(s) ==
    /\ Edit
    /\ client[s] \in {"absent", "wrapped"}
    /\ client' = [client EXCEPT ![s] = "direct"]
    /\ UNCHANGED <<file, says, job>>

ServerChanges(s) ==
    /\ Edit
    /\ \E h \in Hints \ {says[s]} : says' = [says EXCEPT ![s] = h]
    /\ UNCHANGED <<client, file, job>>

Next ==
    \/ InitReads \/ InitWraps \/ InitGenerates
    \/ AddReads \/ AddMerges
    \/ \E c \in Commands : Load(c) \/ Confirm(c) \/ Abandon(c)
    \/ UserEdits
    \/ \E s \in Servers : UserStarts(s) \/ ServerChanges(s)

Spec == Init /\ [][Next]_vars

-----------------------------------------------------------------------------
(* Properties. *)

\* What the proxy makes of a call without a grant.
Decides(config, s) == Evaluate(PolicyFor(config, s), EnvelopeFor(config), <<>>, 0)

EntryBy(config, s, source) ==
    IsEntry(config.servers[s]) /\ config.servers[s].source = source

\* Command c writes a file that is as c has loaded it.
Rewrites(c) == job'[c] # job[c] /\ file' # file /\ job[c].loaded = file

\* No command decides for the user (mergePackIntoTools, mergeSeededTiers and
\* the normalisers read together): where the user has an entry the proxy
\* decides as before, no write makes a standing allow that was not there, and
\* init does not overrule what a pack decided.  An edit made after the load
\* is the exception: the whole file is written back, and the edit is lost.
AuthorityStands ==
    [][\A c \in Commands, s \in Servers :
          Rewrites(c) =>
              LET before == Decides(file.config, s)
                  after  == Decides(file'.config, s)
              IN  /\ EntryBy(file.config, s, "user") => after = before
                  /\ after.reason = "explicit_config_allow" => after = before
                  /\ c = "init" /\ EntryBy(file.config, s, "pack") => after = before]_vars

=============================================================================
