------------------------------ MODULE Supervisor ------------------------------
(***************************************************************************)
(* One run of knotrust -- <server> around its proxy (packages/cli/src:     *)
(* run.ts, enforcement.ts, bin.ts, and the exporter of packages/otel): the *)
(* order in which the parts are built, what a failure of each leaves       *)
(* behind, and how the end of the proxy, a fatal error and the bounded     *)
(* flush of the exporter settle the exit code between them.  The proxy is  *)
(* one step to start and one to tear down; ProxyRelay has its inside.      *)
(***************************************************************************)
EXTENDS Integers

VARIABLES
    stage,     \* how far the run is
    enforcing, \* whether a configuration was found
    lock,      \* the writer lock of the audit log, as others find it
    exporter,  \* the subscription to the audit stream
    handlers,  \* whether the process handlers are installed
    cause,     \* why the proxy was torn down
    fatal,     \* fatalCode
    closing,   \* how far bundle.close() is
    code       \* the exit code

vars == <<stage, enforcing, lock, exporter, handlers, cause, fatal, closing, code>>

Building == {"loading", "locking", "attaching", "listening"}
Proxying == {"starting", "running", "tearing", "torn"}

Causes == {"client_eof", "child_exit", "stopped"}

\* The handle of the exporter, and how far close() of the bundle is.
Exporters == {"off", "on", "closed"}
Closings  == {"no", "exporter", "audit", "done"}

Unset  == -1
Killed == 128

TypeOK ==
    /\ stage \in Building \cup Proxying \cup {"gone"}
    /\ enforcing \in BOOLEAN /\ handlers \in BOOLEAN /\ fatal \in BOOLEAN
    /\ lock \in {"free", "others", "stale", "ours"}
    /\ exporter \in Exporters
    /\ cause \in Causes \cup {"none"}
    /\ closing \in Closings
    /\ code \in {Unset, 0, 1, Killed}

Init ==
    /\ stage = "loading" /\ enforcing = FALSE
    /\ lock \in {"free", "others", "stale"}
    /\ exporter = "off" /\ handlers = FALSE
    /\ cause = "none" /\ fatal = FALSE
    /\ closing = "no" /\ code = Unset

\* A lock file whose process is gone.
Abandoned == IF lock = "ours" THEN "stale" ELSE lock

\* process.exit(): what is still open goes with the process.
Gone(c) ==
    /\ stage' = "gone" /\ code' = c
    /\ lock' = Abandoned

-----------------------------------------------------------------------------
(* resolveRunBundle: whatever throws here refuses the run. *)

Refuse == Gone(1) /\ UNCHANGED <<enforcing, exporter, handlers, cause, fatal, closing>>

Continue(next) == stage' = next /\ UNCHANGED <<handlers, cause, fatal, closing, code>>

LoadConfig ==
    /\ stage = "loading"
    /\ \/ Refuse
       \/ /\ enforcing' \in BOOLEAN
          /\ Continue("locking") /\ UNCHANGED <<lock, exporter>>

\* createAuditLog(): a lock that nobody holds any more is taken over.  Without
\* a configuration there is nothing else to build.
TakeLock ==
    /\ stage = "locking"
    /\ \/ lock = "others" /\ Refuse
       \/ /\ lock # "others" /\ lock' = "ours"
          /\ Continue(IF enforcing THEN "attaching" ELSE "starting")
          /\ UNCHANGED <<enforcing, exporter>>

\* attachOtelExporter(): off unless enabled, and its imports may fail.
Attach ==
    /\ stage = "attaching"
    /\ \/ Refuse
       \/ exporter' \in {"off", "on"} /\ Continue("listening") /\ UNCHANGED <<enforcing, lock>>

\* pageServer.start(), an await.
Listen ==
    /\ stage = "listening"
    /\ \/ Refuse
       \/ Continue("starting") /\ UNCHANGED <<enforcing, lock, exporter>>

-----------------------------------------------------------------------------
(* runProxy. *)

\* finish(): the first code counts.
Finish(c) == code' = IF code = Unset THEN c ELSE code

RemoveProcessHandlers == handlers' = FALSE

\* proxy.start() with the handlers installed; when it fails the bundle is not
\* closed.
Start ==
    /\ stage = "starting"
    /\ \/ stage' = "running" /\ handlers' = TRUE /\ UNCHANGED code
       \/ stage' = "torn" /\ RemoveProcessHandlers /\ Finish(1)
    /\ UNCHANGED <<enforcing, lock, exporter, cause, fatal, closing>>

\* The client hangs up, the child exits, or a handled signal stops the proxy:
\* one teardown, of the first reason.
Ends(why) ==
    /\ stage = "running"
    /\ why = "stopped" => handlers
    /\ stage' = "tearing" /\ cause' = why
    /\ UNCHANGED <<enforcing, lock, exporter, handlers, fatal, closing, code>>

\* onFatal: the code is claimed before stop() is called.
Fatal ==
    /\ stage \in {"running", "tearing"} /\ handlers
    /\ fatal' = TRUE /\ RemoveProcessHandlers
    /\ stage' = "tearing"
    /\ cause' = IF cause = "none" THEN "stopped" ELSE cause
    /\ UNCHANGED <<enforcing, lock, exporter, closing, code>>

\* The teardown is over: onClose removes the handlers and begins to close.
TornDown ==
    /\ stage = "tearing"
    /\ stage' = "torn" /\ RemoveProcessHandlers
    /\ closing' = "exporter"
    /\ UNCHANGED <<enforcing, lock, exporter, cause, fatal, code>>

\* stop() of onFatal has resolved: finish() does not wait for the close.
FatalFinishes ==
    /\ stage = "torn" /\ fatal /\ code = Unset
    /\ Finish(1)
    /\ UNCHANGED <<stage, enforcing, lock, exporter, handlers, cause, fatal, closing>>

\* close() of the exporter, flushed or given up after SHUTDOWN_TIMEOUT_MS.
CloseExporter ==
    /\ stage = "torn" /\ closing = "exporter"
    /\ exporter' = IF exporter = "on" THEN "closed" ELSE exporter
    /\ closing' = "audit"
    /\ UNCHANGED <<stage, enforcing, lock, handlers, cause, fatal, code>>

CloseAudit ==
    /\ stage = "torn" /\ closing = "audit"
    /\ lock' = "free"
    /\ closing' = "done"
    /\ UNCHANGED <<stage, enforcing, exporter, handlers, cause, fatal, code>>

\* Variant: the code follows from the reason alone.
CodeOfReason == IF cause = "child_exit" THEN 1 ELSE 0

\* A child that exits on its own is a failure, a fatal error overrules all.
CodeOfRun == IF fatal \/ cause = "child_exit" THEN 1 ELSE 0

CloseFinishes ==
    /\ stage = "torn" /\ closing = "done" /\ code = Unset
    /\ Finish(CodeOfRun)
    /\ UNCHANGED <<stage, enforcing, lock, exporter, handlers, cause, fatal, closing>>

Exit ==
    /\ stage = "torn" /\ code # Unset
    /\ Gone(code)
    /\ UNCHANGED <<enforcing, exporter, handlers, cause, fatal, closing>>

\* SIGKILL, or a signal or an exception that nothing handles.
Die ==
    /\ stage # "gone" /\ code = Unset
    /\ Gone(Killed)
    /\ UNCHANGED <<enforcing, exporter, handlers, cause, fatal, closing>>

Next ==
    \/ LoadConfig \/ TakeLock \/ Attach \/ Listen
    \/ Start \/ Fatal \/ TornDown
    \/ \E why \in Causes : Ends(why)
    \/ FatalFinishes \/ CloseExporter \/ CloseAudit \/ CloseFinishes
    \/ Exit \/ Die

Spec == Init /\ [][Next]_vars

-----------------------------------------------------------------------------
(* Properties. *)

\* Zero is only said of a run that was asked to end and ended in order: no
\* fatal error at any moment, even one whose own finish() lost the race, the
\* server not gone by itself, the writer lock released and the last spans
\* flushed or given up (onFatal, onClose and bundle.close() read together).
\* And a lock of somebody else is nobody's to release, however the run ends.
ExitIsHonest ==
    /\ code = 0 =>
          /\ cause \in {"client_eof", "stopped"} /\ ~fatal
          /\ lock = "free" /\ exporter # "on"
    /\ lock = "others" => stage \in {"loading", "locking", "gone"} /\ code # 0

=============================================================================
