------------------------------ MODULE AuditLog ------------------------------
(***************************************************************************)
(* The hash-chained audit log: packages/store/src/audit-log.ts.            *)
(*                                                                         *)
(* Any number of processes open the log of one home: each takes the writer *)
(* lock, finds the end of the chain on the disk and appends.  Appends are  *)
(* synchronous, so one is one step, whatever number of system calls it     *)
(* makes; the system calls of the lock are steps of their own, since they  *)
(* are where two processes meet.  Any system call may fail, a process may  *)
(* die, the machine may lose power, and a reader (knotrust audit verify)   *)
(* walks the files line by line without the lock.                          *)
(*                                                                         *)
(* A file is the sequence of its terminated lines, in the order of the     *)
(* months that name the files; a fragment without an end is in torn.  The  *)
(* hash of a line is the list of what it stands for, which differs         *)
(* whenever the line or one before it differs, as SHA-256 is meant to.     *)
(***************************************************************************)
EXTENDS Naturals, Sequences, FiniteSets

CONSTANTS
    Proc,        \* processes that write the log, each with a pid of its own
    NoProc,      \* no process
    MaxMonth,    \* exploration bound: the months the clock goes through
    MaxEvents,   \* exploration bound: calls of append
    ShortWrites, \* whether write(2) may write a part of a line and say so
    Unsettled    \* whether power may be lost while lines of an earlier file are
                 \* still unflushed (the kernel writes them back in seconds)

ASSUME ProcAssumption == NoProc \notin Proc
ASSUME BoundAssumption == MaxMonth \in Nat \ {0} /\ MaxEvents \in Nat
ASSUME FaultAssumption == ShortWrites \in BOOLEAN /\ Unsettled \in BOOLEAN

Months == 1 .. MaxMonth

VARIABLES
    disk,    \* the files: see Disk
    lock,    \* audit/.lock: who made it, and the pid it holds
    now,     \* the month of the clock, which does not run backwards
    pc,      \* per process: where it is in the lock, open, or gone
    sink,    \* per process: the fields of its sink: see Sink
    reader,  \* a verification under way: see Reader
    issued,  \* calls of append so far
    acked,   \* appends that returned
    hard,    \* appends with fsync "immediate" that returned
    raced,   \* a takeover has removed another lock than the one it read
    lost     \* power has been lost

history == <<issued, acked, hard, raced, lost>>
vars == <<disk, lock, now, pc, sink, reader, history>>

-----------------------------------------------------------------------------
(* Lines and chains. *)

\* AUDIT_GENESIS_PREV_HASH
Genesis == <<>>

ComputeEventHash(seq, prev, body) == Append(prev, <<seq, body>>)

Event(n) == <<"event", n>>
Recovered(lastGood) == <<"audit_recovered", lastGood>>

Line(seq, prev, body) ==
    [seq |-> seq, prev |-> prev, body |-> body, hash |-> ComputeEventHash(seq, prev, body)]

\* Two lines run together by a missing end of line: no event.
Malformed == [seq |-> 0, prev |-> Genesis, body |-> <<"malformed", 0>>, hash |-> Genesis]

IsWellFormed(line) == line.seq # 0

NoLine == [seq |-> 0, prev |-> Genesis, body |-> <<"none", 0>>, hash |-> Genesis]

Positions(files) == UNION {{m} \X (1 .. Len(files[m])) : m \in Months}

\* Where the intact lines of the files are, and the last of them in file order.
Intact(files) == {at \in Positions(files) : IsWellFormed(files[at[1]][at[2]])}

Before(a, b) == a[1] < b[1] \/ (a[1] = b[1] /\ a[2] < b[2])

LastAt(positions) == CHOOSE a \in positions : \A b \in positions : b = a \/ Before(b, a)

LineAt(files, positions) ==
    IF positions = {} THEN NoLine ELSE LET a == LastAt(positions) IN files[a[1]][a[2]]

\* bootstrapChainState: from the newest file back, the last line that parses.
BootstrapNewestOnly(files) ==
    LineAt(files, {at \in Intact(files) : at[1] = now})

BootstrapChainState(files) == LineAt(files, Intact(files))

\* A fragment is cut off when the search comes to its file.
QuarantineWholeLine(d) ==
    IF d.torn = 0 THEN d
    ELSE [d EXCEPT !.torn = 0,
                   !.files[d.torn] = IF @ = <<>> THEN @ ELSE SubSeq(@, 1, Len(@) - 1)]

QuarantineTornTail(d) ==
    IF \E at \in Intact(d.files) : at[1] > d.torn THEN d ELSE [d EXCEPT !.torn = 0]

\* verifyChain: the lines at which the walk over the files would stop.
CarriesOn(line, seq, head) ==
    /\ IsWellFormed(line)
    /\ line.seq = seq + 1
    /\ line.prev = head
    /\ line.hash = ComputeEventHash(line.seq, line.prev, line.body)

Predecessor(files, at) == LineAt(files, {b \in Intact(files) : Before(b, at)})

Breaks(files) ==
    {at \in Positions(files) :
        LET pred == Predecessor(files, at)
        IN  ~CarriesOn(files[at[1]][at[2]], pred.seq, pred.hash)}

-----------------------------------------------------------------------------
(* What one call does.  A world is the disk and the caller's sink (w.d and *)
(* w.s); an operation is the set of its outcomes, one for each system call *)
(* that may fail: the world it leaves, and whether it returned or threw.   *)

Returns(w) == [w |-> w, ok |-> TRUE]
Throws(w) == [w |-> w, ok |-> FALSE]

Fsync(w) == [w EXCEPT !.d.synced[w.s.month] = Len(w.d.files[w.s.month]), !.s.dirty = FALSE]

\* openCurrentFile
OpenCurrentFile(w) == [w EXCEPT !.s.month = now, !.s.fd = "open", !.d.newest = now]

\* rotateIfNeeded: outside the try of writeEventRaw, so that a failure of the
\* close or of the open leaves the sink with a closed descriptor, not broken.
RotateIfNeeded(w) ==
    IF w.s.month = now THEN {Returns(w)}
    ELSE IF w.s.fd = "closed" THEN {Throws(w)}
    ELSE LET fsyncs == {Fsync(w)} \cup IF w.s.dirty THEN {w} ELSE {}
             closed == {[v EXCEPT !.s.dirty = FALSE, !.s.timer = FALSE, !.s.fd = "closed"] : v \in fsyncs}
         IN  {Returns(OpenCurrentFile(v)) : v \in closed} \cup {Throws(v) : v \in closed}

\* The line reaches the file, after the fragment if there is one.
Written(w, line) ==
    LET whole == IF w.d.torn = w.s.month THEN Malformed ELSE line
    IN  [w EXCEPT !.d.files[w.s.month] = Append(@, whole),
                  !.d.torn = IF @ = w.s.month THEN 0 ELSE @,
                  !.s.dirty = TRUE]

\* A part of it does, and the number of bytes written is not looked at.
CutShort(w) == [w EXCEPT !.d.torn = w.s.month, !.s.dirty = TRUE]

Advance(w, line) == [w EXCEPT !.s.seq = line.seq, !.s.head = line.hash]

\* catch: the sink is broken and its file closed.
Break(w) == Throws([w EXCEPT !.s.broken = TRUE, !.s.fd = "closed"])

WriteLine(w, body, immediate) ==
    LET line == Line(w.s.seq + 1, w.s.head, body)
        written == {Written(w, line)} \cup IF ShortWrites THEN {CutShort(w)} ELSE {}
    IN  IF w.s.fd = "closed" THEN {Break(w)}
        ELSE {Break(w)} \cup
             IF immediate
             THEN {Returns(Advance([Fsync(v) EXCEPT !.s.timer = FALSE], line)) : v \in written}
                  \cup {Break(v) : v \in written}
             ELSE {Returns(Advance([v EXCEPT !.s.timer = TRUE], line)) : v \in written}

WriteEventRaw(w, body, immediate) ==
    UNION {IF r.ok THEN WriteLine(r.w, body, immediate) ELSE {r} : r \in RotateIfNeeded(w)}

\* recoverFromBrokenState: it fails at the directory, the search or the open.
RecoverInMemory(w) == {Returns([OpenCurrentFile(w) EXCEPT !.s.broken = FALSE, !.d.torn = 0])}

RecoverFromBrokenState(w) ==
    LET last == BootstrapChainState(w.d.files)
        searched == [w EXCEPT !.d = QuarantineTornTail(@), !.s.seq = last.seq, !.s.head = last.hash]
    IN  {Throws(w), Throws(searched),
         Returns([OpenCurrentFile(searched) EXCEPT !.s.broken = FALSE])}

WriteMarked(w, n, immediate) ==
    UNION {IF r.ok THEN WriteEventRaw(r.w, Event(n), immediate) ELSE {r} :
              r \in WriteEventRaw(w, Recovered(w.s.seq), FALSE)}

AppendOutcomes(w, n, immediate) ==
    IF w.s.broken
    THEN UNION {IF r.ok THEN WriteMarked(r.w, n, immediate) ELSE {r} : r \in RecoverFromBrokenState(w)}
    ELSE WriteEventRaw(w, Event(n), immediate)

World(p) == [d |-> disk, s |-> sink[p]]

-----------------------------------------------------------------------------
(* State. *)

Disk == [files |-> [m \in Months |-> <<>>], torn |-> 0, synced |-> [m \in Months |-> 0],
         newest |-> 0]

NoLock == [by |-> NoProc, pid |-> NoProc]

NoSink == [seq |-> 0, head |-> Genesis, month |-> 1, fd |-> "closed",
           broken |-> FALSE, dirty |-> FALSE, timer |-> FALSE]

\* The next line to look at, the newest of the files listed, what the line must
\* carry on, and the outcome: "walking", "ok", "torn_line", or "break" (seq_gap,
\* prevhash_mismatch, hash_mismatch).
NoReader == [verdict |-> "none", month |-> 1, line |-> 1, newest |-> 0, seq |-> 0, head |-> Genesis]

Init ==
    /\ disk = Disk
    /\ lock = NoLock
    /\ now = 1
    /\ pc = [p \in Proc |-> "off"]
    /\ sink = [p \in Proc |-> NoSink]
    /\ reader = NoReader
    /\ issued = 0 /\ acked = {} /\ hard = {}
    /\ raced = FALSE /\ lost = FALSE

Goto(p, l) == pc' = [pc EXCEPT ![p] = l]

\* Closed, refused or killed.
Dead(p) == pc[p] = "gone"

-----------------------------------------------------------------------------
(* The writer lock: acquireLock, and createAuditLog around it. *)

\* openSync(lockFile, "wx"), the first time and after a takeover.
CreateLock(p) ==
    /\ pc[p] \in {"off", "again"}
    /\ \/ /\ lock = NoLock
          /\ lock' = [by |-> p, pid |-> NoProc]
          /\ Goto(p, "named")
       \/ /\ lock # NoLock
          /\ Goto(p, IF pc[p] = "off" THEN "exists" ELSE "gone")
          /\ UNCHANGED lock
    /\ UNCHANGED <<disk, now, sink, reader, history>>

\* writeSync(fd, pid): into the file this process made, wherever that is now.
WriteLockPid(p) ==
    /\ pc[p] = "named"
    /\ lock' = IF lock.by = p THEN [lock EXCEPT !.pid = p] ELSE lock
    /\ Goto(p, "owner")
    /\ UNCHANGED <<disk, now, sink, reader, history>>

\* readLockPid and isPidAlive: an empty lock, and one that has gone meanwhile,
\* count as held.
ReadLockPid(p) ==
    /\ pc[p] = "exists"
    /\ Goto(p, IF lock.pid # NoProc /\ Dead(lock.pid) THEN "stale" ELSE "gone")
    /\ UNCHANGED <<disk, lock, now, sink, reader, history>>

\* unlinkSync(lockFile), whatever is there by now.
TakeOver(p) ==
    /\ pc[p] = "stale"
    /\ raced' = (raced \/ (lock # NoLock /\ ~(lock.pid # NoProc /\ Dead(lock.pid))))
    /\ lock' = NoLock
    /\ Goto(p, "again")
    /\ UNCHANGED <<disk, now, sink, reader, issued, acked, hard, lost>>

\* bootstrapChainState and openCurrentFile; when one throws, the lock goes.
OpenLog(p) ==
    /\ pc[p] = "owner"
    /\ \/ \E r \in RecoverFromBrokenState(World(p)) :
             /\ r.ok
             /\ disk' = r.w.d
             /\ sink' = [sink EXCEPT ![p] = r.w.s]
             /\ Goto(p, "open")
             /\ UNCHANGED lock
       \/ \E r \in RecoverFromBrokenState(World(p)) :
             /\ ~r.ok
             /\ disk' = r.w.d
             /\ lock' = NoLock
             /\ Goto(p, "gone")
             /\ UNCHANGED sink
    /\ UNCHANGED <<now, reader, issued, acked, hard, raced, lost>>

-----------------------------------------------------------------------------
(* The sink. *)

AppendEvent(p, immediate) ==
    /\ pc[p] = "open"
    /\ issued < MaxEvents
    /\ issued' = issued + 1
    /\ \E r \in AppendOutcomes(World(p), issued + 1, immediate) :
          /\ disk' = r.w.d
          /\ sink' = [sink EXCEPT ![p] = r.w.s]
          /\ acked' = IF r.ok THEN acked \cup {issued + 1} ELSE acked
          /\ hard' = IF r.ok /\ immediate THEN hard \cup {issued + 1} ELSE hard
    /\ UNCHANGED <<lock, now, pc, reader, raced, lost>>

\* fsyncSync of the open file: it fails when the descriptor is closed, and may
\* fail otherwise.
FsyncAttempt(p, after) ==
    \/ /\ after.fd = "open"
       /\ disk' = Fsync(World(p)).d
       /\ sink' = [sink EXCEPT ![p] = [after EXCEPT !.dirty = FALSE]]
    \/ /\ sink' = [sink EXCEPT ![p] = [after EXCEPT !.broken = TRUE]]
       /\ UNCHANGED disk

\* The callback of scheduleFsync.
FsyncTimer(p) ==
    /\ pc[p] = "open" /\ sink[p].timer
    /\ FsyncAttempt(p, [sink[p] EXCEPT !.timer = FALSE])
    /\ UNCHANGED <<lock, now, pc, reader, issued, acked, hard, raced, lost>>

Flush(p) ==
    /\ pc[p] = "open" /\ sink[p].dirty
    /\ FsyncAttempt(p, [sink[p] EXCEPT !.timer = FALSE])
    /\ UNCHANGED <<lock, now, pc, reader, issued, acked, hard, raced, lost>>

\* close: releaseLock unlinks the lock file, whoever made it.
Close(p) ==
    /\ pc[p] = "open"
    /\ \/ UNCHANGED disk
       \/ sink[p].dirty /\ sink[p].fd = "open" /\ disk' = Fsync(World(p)).d
    /\ lock' = NoLock
    /\ Goto(p, "gone")
    /\ sink' = [sink EXCEPT ![p] = NoSink]
    /\ UNCHANGED <<now, reader, issued, acked, hard, raced, lost>>

-----------------------------------------------------------------------------
(* The surroundings. *)

\* The process is killed: anywhere in the steps of the lock, between two
\* appends, or in the middle of one, whose line stays behind in part.
Crash(p) ==
    /\ pc[p] \notin {"off", "gone"}
    /\ \/ UNCHANGED disk
       \/ /\ pc[p] = "open" /\ ~sink[p].broken /\ issued < MaxEvents
          /\ sink[p].fd = "open" /\ sink[p].month = now /\ disk.torn = 0
          /\ disk' = [disk EXCEPT !.torn = now]
    /\ Goto(p, "gone")
    /\ sink' = [sink EXCEPT ![p] = NoSink]
    /\ UNCHANGED <<lock, now, reader, history>>

\* Every process is gone.  Of each file there is left what was flushed and some
\* of what was not, the last of it possibly in part; the lock file may not have
\* reached the disk, nor the pid in it.
PowerLoss ==
    /\ ~lost
    /\ Unsettled \/ \A m, n \in Months :
                       m < n /\ disk.files[n] # <<>> => disk.synced[m] = Len(disk.files[m])
    /\ \E keep \in [Months -> 0 .. 2 * MaxEvents] :
          /\ \A m \in Months : keep[m] \in disk.synced[m] .. Len(disk.files[m])
          /\ \E t \in {0} \cup {m \in Months : keep[m] < Len(disk.files[m]) \/ disk.torn = m} :
                disk' = [disk EXCEPT !.files = [m \in Months |-> SubSeq(disk.files[m], 1, keep[m])],
                                     !.torn = t]
    /\ lock' \in {lock, [lock EXCEPT !.pid = NoProc], NoLock}
    /\ pc' = [p \in Proc |-> IF pc[p] = "off" THEN "off" ELSE "gone"]
    /\ sink' = [p \in Proc |-> NoSink]
    /\ reader' = NoReader
    /\ lost' = TRUE
    /\ UNCHANGED <<now, issued, acked, hard, raced>>

NextMonth ==
    /\ now < MaxMonth
    /\ now' = now + 1
    /\ UNCHANGED <<disk, lock, pc, sink, reader, history>>

-----------------------------------------------------------------------------
(* A reader that takes no lock: verifyAuditChain. *)

StartVerify ==
    /\ reader.verdict # "walking"
    /\ reader' = [NoReader EXCEPT !.verdict = "walking", !.newest = disk.newest]
    /\ UNCHANGED <<disk, lock, now, pc, sink, history>>

\* One line: a terminated one against the running sequence number and hash; at
\* the end of a file its fragment, if there is one or a line is being written;
\* then the next file.
VerifyLine ==
    /\ reader.verdict = "walking"
    /\ LET m == reader.month
           line == disk.files[m][reader.line]
       IN  \/ /\ reader.line <= Len(disk.files[m])
              /\ reader' = IF CarriesOn(line, reader.seq, reader.head)
                           THEN [reader EXCEPT !.line = @ + 1, !.seq = line.seq, !.head = line.hash]
                           ELSE [NoReader EXCEPT !.verdict = "break"]
           \/ /\ reader.line > Len(disk.files[m])
              /\ disk.torn = m \/ \E p \in Proc : pc[p] = "open" /\ sink[p].month = m
              /\ reader' = [NoReader EXCEPT !.verdict = "torn_line"]
           \/ /\ reader.line > Len(disk.files[m]) /\ disk.torn # m
              /\ reader' = IF m < reader.newest
                           THEN [reader EXCEPT !.month = @ + 1, !.line = 1]
                           ELSE [NoReader EXCEPT !.verdict = "ok"]
    /\ UNCHANGED <<disk, lock, now, pc, sink, history>>

-----------------------------------------------------------------------------

Process(p) ==
    \/ CreateLock(p) \/ WriteLockPid(p) \/ ReadLockPid(p) \/ TakeOver(p) \/ OpenLog(p)
    \/ AppendEvent(p, TRUE) \/ AppendEvent(p, FALSE)
    \/ FsyncTimer(p) \/ Flush(p) \/ Close(p) \/ Crash(p)

Next ==
    \/ \E p \in Proc : Process(p)
    \/ PowerLoss \/ NextMonth \/ StartVerify \/ VerifyLine

Spec == Init /\ [][Next]_vars

-----------------------------------------------------------------------------
(* Properties. *)

Chained(files) == Breaks(files) = {}

\* The variables have their types, and no more of a file is flushed than there is.
TypeOK ==
    /\ now \in Months
    /\ disk.newest \in 0 .. now /\ disk.torn \in 0 .. disk.newest
    /\ \A m \in Months : disk.synced[m] \in 0 .. Len(disk.files[m])
    /\ lock \in [by : Proc \cup {NoProc}, pid : Proc \cup {NoProc}]
    /\ pc \in [Proc -> {"off", "named", "exists", "stale", "again", "owner", "open", "gone"}]
    /\ issued \in 0 .. MaxEvents /\ hard \subseteq acked /\ acked \subseteq 1 .. issued

\* The chain on the disk never breaks, across rotations, failed writes and
\* flushes, recoveries, crashes, takeovers and a loss of power: every line
\* carries on from the line before it, in its file or an earlier one.
ChainIntact == raced \/ Chained(disk.files)

\* A verification beside the writer may come upon a line in the making, and never
\* reports the log as tampered with.
ReaderSeesNoBreak == raced \/ reader.verdict # "break"

Recorded(n) == \E at \in Intact(disk.files) : disk.files[at[1]][at[2]].body = Event(n)

\* An append that returned has its event in the log, unless power was lost since;
\* one that asked for an immediate flush has it there for good.
AckedIsKept ==
    raced \/ ((lost \/ \A n \in acked : Recorded(n)) /\ \A n \in hard : Recorded(n))

\* A sink whose calls fail accepts an event again as soon as the disk works
\* ("The NEXT append() call after a failure retries directory/file bootstrap
\* from scratch", audit-log.ts:84).
NextAppendMaySucceed ==
    \A p \in Proc : pc[p] = "open" => \E r \in AppendOutcomes(World(p), issued + 1, FALSE) : r.ok

-----------------------------------------------------------------------------
(* The files as one trail of entries: see AuditTrail. *)

Upto(files, at) == {b \in Positions(files) : b = at \/ Before(b, at)}

\* Where the kth line of the files is.
At(files, k) == CHOOSE at \in Positions(files) : Cardinality(Upto(files, at)) = k

Told(files) ==
    [k \in 1 .. Cardinality(Positions(files)) |->
        LET at == At(files, k) IN files[at[1]][at[2]].body]

\* The lines that are flushed, with every line before them.
Settled(d) == {at \in Positions(d.files) : \A b \in Upto(d.files, at) : b[2] <= d.synced[b[1]]}

Trail == Told(disk.files)
FlushedLines == Cardinality(Settled(disk))

Entries == {"event", "audit_recovered"} \X Nat

AuditTrail == INSTANCE AuditTrail WITH Entry <- Entries, trail <- Trail, hard <- FlushedLines

\* The files implement the trail, as long as no two takeovers have raced: whatever
\* fails, entries are added at the end only, in the order of the appends, and taken
\* back only by a loss of power, from the end and never below the last flush.
ImplementsTrail == AuditTrail!Init /\ [][raced' \/ AuditTrail!Next]_<<Trail, FlushedLines>>

=============================================================================
