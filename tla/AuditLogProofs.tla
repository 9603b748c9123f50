--------------------------- MODULE AuditLogProofs ---------------------------
(***************************************************************************)
(* The audit log for any number of processes, months and appends: as long  *)
(* as no two takeovers of a stale lock have raced, one process appends at  *)
(* a time, and through rotations, failed system calls, recoveries, crashes *)
(* and losses of power an append that returned is kept, the chain on the   *)
(* disk never breaks and no reader reports that it does: to its readers    *)
(* the log is a trail that entries are added to at the end.                *)
(***************************************************************************)
EXTENDS AuditLog, SequenceTheorems, FiniteSetTheorems, WellFoundedInduction, TLAPS

EventBodies == {"event", "audit_recovered", "malformed", "none"} \X Nat
Hashes == Seq(Nat \X EventBodies)
Lines  == [seq : Nat, prev : Hashes, body : EventBodies, hash : Hashes]
Archives == [Months -> Seq(Lines)]
Marks == [Months -> Nat]

Disks ==
    [files : Archives, torn : Nat, synced : Marks, newest : Nat]

Sinks ==
    [seq : Nat, head : Hashes, month : Months, fd : {"open", "closed"},
     broken : BOOLEAN, dirty : BOOLEAN, timer : BOOLEAN]

Readers ==
    [verdict : {"none", "walking", "ok", "torn_line", "break"}, month : Months, line : Nat \ {0},
     newest : 0 .. MaxMonth, seq : Nat, head : Hashes]

Places == {"off", "named", "exists", "stale", "again", "owner", "open", "gone"}

\* The files are those of the months so far, and no more is flushed than there is.
Formed(d) ==
    /\ d \in Disks
    /\ d.torn <= d.newest /\ d.newest <= now
    /\ \A m \in Months : /\ d.synced[m] <= Len(d.files[m])
                         /\ m > d.newest => d.files[m] = <<>>

\* What a call works on.
Worlds == [d : Disks, s : Sinks]
Fit(w) == w \in Worlds /\ Formed(w.d) /\ w.s.month <= w.d.newest

Typed ==
    /\ now \in Months
    /\ Formed(disk)
    /\ lock \in [by : Proc \cup {NoProc}, pid : Proc \cup {NoProc}]
    /\ pc \in [Proc -> Places]
    /\ sink \in [Proc -> Sinks]
    /\ \A p \in Proc : pc[p] = "open" => sink[p].month <= disk.newest
    /\ reader \in Readers
    /\ issued \in 0 .. MaxEvents /\ hard \subseteq acked /\ acked \subseteq 1 .. issued
    /\ raced \in BOOLEAN /\ lost \in BOOLEAN

\* Without a race, who made the lock, or holds it, is who it names.
Excludes ==
    ~raced => \A p \in Proc :
        /\ pc[p] = "named" => lock = [by |-> p, pid |-> NoProc]
        /\ pc[p] \in {"owner", "open"} => lock = [by |-> p, pid |-> p]

\* Whoever appends appends to the newest file, after its fragment.
Solo(w) == w.s.month = w.d.newest /\ w.d.torn < w.s.month

\* An event that is in the files, and one that a loss of power leaves there.
Holds(d, n) ==
    \E m \in Months : \E i \in DOMAIN d.files[m] :
        IsWellFormed(d.files[m][i]) /\ d.files[m][i].body = Event(n)

HoldsHard(d, n) ==
    \E m \in Months : \E i \in DOMAIN d.files[m] :
        /\ i <= d.synced[m]
        /\ IsWellFormed(d.files[m][i]) /\ d.files[m][i].body = Event(n)

Keeps ==
    ~raced =>
        /\ \A p \in Proc : pc[p] = "open" => Solo(World(p))
        /\ lost \/ \A n \in acked : Holds(disk, n)
        /\ \A n \in hard : HoldsHard(disk, n)

AInv == Typed /\ Excludes /\ Keeps

\* The sink carries on from the last line there is.
AtEnd(w) ==
    LET last == LineAt(w.d.files, Intact(w.d.files))
    IN  w.s.seq = last.seq /\ w.s.head = last.hash

Linked(w) == w.d.torn = 0 /\ (~w.s.broken => AtEnd(w))

\* The lines are chained, and nothing follows a fragment.
Whole(d) ==
    /\ Chained(d.files)
    /\ d.torn # 0 => \A m \in Months : m > d.torn => d.files[m] = <<>>

\* The reader carries on from the line before the one it looks at.
Behind(d, rd) ==
    LET pred == Predecessor(d.files, <<rd.month, rd.line>>)
    IN  /\ rd.seq = pred.seq /\ rd.head = pred.hash
        /\ rd.newest <= d.newest
        /\ rd.month <= rd.newest \/ rd.month = 1
        /\ rd.line <= Len(d.files[rd.month]) + 1

Follows == reader.verdict = "walking" => Behind(disk, reader)

CInv ==
    ~raced =>
        /\ Whole(disk)
        /\ \A p \in Proc : pc[p] = "open" => Linked(World(p))
        /\ reader.verdict # "break" /\ Follows
-----------------------------------------------------------------------------
(* Positions, and the last of a set of them. *)

LEMMA PositionsAre ==
  ASSUME NEW files, NEW at
  PROVE  at \in Positions(files) <=>
           /\ at = <<at[1], at[2]>> /\ at[1] \in Months /\ at[2] \in 1 .. Len(files[at[1]])
  <1>1. ASSUME at \in Positions(files)
        PROVE  at = <<at[1], at[2]>> /\ at[1] \in Months /\ at[2] \in 1 .. Len(files[at[1]])
    <2>1. PICK m \in Months : at \in {m} \X (1 .. Len(files[m]))
      BY <1>1 DEF Positions
    <2>. QED  BY <2>1
  <1>2. ASSUME at = <<at[1], at[2]>>, at[1] \in Months, at[2] \in 1 .. Len(files[at[1]])
        PROVE  at \in Positions(files)
    <2>1. at \in {at[1]} \X (1 .. Len(files[at[1]]))
      BY <1>2
    <2>. QED  BY <1>2, <2>1 DEF Positions
  <1>. QED  BY <1>1, <1>2

Less == {p \in Nat \X Nat : p[1] < p[2]}

\* A set of numbers with a bound has a greatest.
LEMMA Greatest ==
  ASSUME NEW S, S \subseteq Nat, S # {}, NEW bound \in Nat, \A k \in S : k <= bound
  PROVE  \E k \in S : \A j \in S : j <= k
  <1>. DEFINE T == {j \in Nat : bound - j \in S}
  <1>1. IsWellFoundedOn(Less, Nat)
    BY NatLessThanWellFounded DEF OpToRel, Less
  <1>2. T \subseteq Nat /\ T # {}
    <2>1. PICK k \in S : TRUE
      OBVIOUS
    <2>2. bound - k \in Nat /\ bound - (bound - k) = k
      BY <2>1
    <2>. QED  BY <2>2
  <1>3. PICK least \in T : \A j \in T : ~(<<j, least>> \in Less)
    BY <1>1, <1>2, WFMin
  <1>4. bound - least \in S
    OBVIOUS
  <1>5. ASSUME NEW j \in S PROVE j <= bound - least
    <2>1. bound - j \in Nat /\ bound - (bound - j) = j
      OBVIOUS
    <2>2. bound - j \in T
      BY <2>1
    <2>3. <<bound - j, least>> \in Nat \X Nat
      BY <1>2, <2>2
    <2>4. ~(bound - j < least)
      BY <1>3, <2>2, <2>3 DEF Less
    <2>. QED  BY <1>2, <2>1, <2>4
  <1>. QED  BY <1>4, <1>5

\* Of any positions there is a last one, and LastAt is it.
LEMMA LastAtIs ==
  ASSUME NEW S, NEW a \in S, S \subseteq Nat \X Nat, \A b \in S : b = a \/ Before(b, a)
  PROVE  LastAt(S) = a
  <1>1. \A c \in S : (\A b \in S : b = c \/ Before(b, c)) => c = a
    <2>. SUFFICES ASSUME NEW c \in S, \A b \in S : b = c \/ Before(b, c), c # a PROVE FALSE
      OBVIOUS
    <2>1. Before(a, c) /\ Before(c, a)
      OBVIOUS
    <2>2. a[1] \in Nat /\ a[2] \in Nat /\ c[1] \in Nat /\ c[2] \in Nat
      OBVIOUS
    <2>. QED  BY <2>1, <2>2 DEF Before
  <1>. QED  BY <1>1 DEF LastAt

LEMMA LastAtIsIn ==
  ASSUME NEW files \in Archives, NEW S, S \subseteq Positions(files), S # {}
  PROVE  /\ LastAt(S) \in S
         /\ \A b \in S : b = LastAt(S) \/ Before(b, LastAt(S))
  <1>0. \A at \in S : /\ at = <<at[1], at[2]>> /\ at[1] \in Months /\ at[2] \in 1 .. Len(files[at[1]])
                      /\ at[1] \in Nat /\ at[2] \in Nat
    <2>. SUFFICES ASSUME NEW at \in S
                  PROVE  /\ at = <<at[1], at[2]>> /\ at[1] \in Months /\ at[2] \in 1 .. Len(files[at[1]])
                         /\ at[1] \in Nat /\ at[2] \in Nat
      OBVIOUS
    <2>1. at = <<at[1], at[2]>> /\ at[1] \in Months /\ at[2] \in 1 .. Len(files[at[1]])
      BY PositionsAre
    <2>2. files[at[1]] \in Seq(Lines) /\ Len(files[at[1]]) \in Nat
      BY <2>1 DEF Archives
    <2>. QED  BY <2>1, <2>2, BoundAssumption DEF Months
  <1>. DEFINE M == {at[1] : at \in S}
  <1>1. PICK m \in M : \A k \in M : k <= m
    <2>1. M \subseteq Nat /\ M # {} /\ (\A k \in M : k <= MaxMonth) /\ MaxMonth \in Nat
      BY <1>0, BoundAssumption DEF Months
    <2>. HIDE DEF M
    <2>. QED  BY <2>1, Greatest
  <1>. DEFINE I == {at[2] : at \in {b \in S : b[1] = m}}
  <1>2. PICK i \in I : \A k \in I : k <= i
    <2>1. files[m] \in Seq(Lines) /\ Len(files[m]) \in Nat
      BY <1>0, <1>1 DEF Archives
    <2>2. I \subseteq Nat /\ I # {} /\ \A k \in I : k <= Len(files[m])
      BY <1>0, <1>1, <2>1
    <2>. HIDE DEF I
    <2>. QED  BY <2>1, <2>2, Greatest
  <1>3. PICK a \in S : a[1] = m /\ a[2] = i
    BY <1>2
  <1>4. \A b \in S : b = a \/ Before(b, a)
    <2>. SUFFICES ASSUME NEW b \in S PROVE b = a \/ Before(b, a)
      OBVIOUS
    <2>1. b[1] <= a[1] /\ (b[1] = a[1] => b[2] <= a[2])
      BY <1>1, <1>2, <1>3
    <2>. QED  BY <1>0, <2>1 DEF Before
  <1>5. S \subseteq Nat \X Nat
    BY <1>0
  <1>6. LastAt(S) = a
    BY <1>4, <1>5, LastAtIs
  <1>. QED  BY <1>4, <1>6

\* The line at the last of the positions, in whichever files have it there.
LEMMA LineAtAgrees ==
  ASSUME NEW files \in Archives, NEW others, NEW S, S \subseteq Positions(files),
         \A at \in S : others[at[1]][at[2]] = files[at[1]][at[2]]
  PROVE  LineAt(others, S) = LineAt(files, S)
  <1>1. CASE S = {}
    BY <1>1 DEF LineAt
  <1>2. CASE S # {}
    BY <1>2, LastAtIsIn DEF LineAt
  <1>. QED  BY <1>1, <1>2

\* A position is a pair of numbers, and the line at it is one of the lines.
LEMMA PositionTyped ==
  ASSUME NEW files \in Archives, NEW at \in Positions(files)
  PROVE  /\ at = <<at[1], at[2]>> /\ at[1] \in Months /\ at[2] \in DOMAIN files[at[1]]
         /\ at[1] \in Nat /\ at[2] \in Nat /\ at \in Nat \X Nat
         /\ files[at[1]][at[2]] \in Lines
  <1>1. at = <<at[1], at[2]>> /\ at[1] \in Months /\ at[2] \in 1 .. Len(files[at[1]])
    BY PositionsAre
  <1>2. files[at[1]] \in Seq(Lines)
    BY <1>1 DEF Archives
  <1>3. Len(files[at[1]]) \in Nat /\ DOMAIN files[at[1]] = 1 .. Len(files[at[1]])
    BY <1>2
  <1>4. at[1] \in Nat /\ at[2] \in Nat
    BY <1>1, <1>3, BoundAssumption DEF Months
  <1>. QED  BY <1>1, <1>2, <1>3, <1>4

-----------------------------------------------------------------------------
(* Chains. *)

\* Every line of a chain is intact and carries on from the one before it.
LEMMA ChainedMeans ==
  ASSUME NEW files, Chained(files)
  PROVE  /\ Intact(files) = Positions(files)
         /\ \A at \in Positions(files) :
              CarriesOn(files[at[1]][at[2]], Predecessor(files, at).seq, Predecessor(files, at).hash)
  BY DEF Chained, Breaks, Intact, CarriesOn

LEMMA MeansChained ==
  ASSUME NEW files,
         \A at \in Positions(files) :
            CarriesOn(files[at[1]][at[2]], Predecessor(files, at).seq, Predecessor(files, at).hash)
  PROVE  Chained(files)
  BY DEF Chained, Breaks

\* One more line in a file, and where it is.
Longer(files, m, line) == [files EXCEPT ![m] = Append(@, line)]
End(files, m) == <<m, Len(files[m]) + 1>>

LEMMA OneMoreLine ==
  ASSUME NEW files \in Archives, NEW m \in Months, NEW line \in Lines
  PROVE  /\ Longer(files, m, line) \in Archives
         /\ Longer(files, m, line)[m] = Append(files[m], line)
         /\ Len(Longer(files, m, line)[m]) = Len(files[m]) + 1
         /\ \A k \in Months : k # m => Longer(files, m, line)[k] = files[k]
         /\ Positions(Longer(files, m, line)) = Positions(files) \cup {End(files, m)}
         /\ Longer(files, m, line)[m][Len(files[m]) + 1] = line
         /\ \A at \in Positions(files) : Longer(files, m, line)[at[1]][at[2]] = files[at[1]][at[2]]
  <1>. PICK longer : longer = Longer(files, m, line)
    OBVIOUS
  <1>. PICK end : end = End(files, m)
    OBVIOUS
  <1>. DEFINE n == Len(files[m])
  <1>1. files[m] \in Seq(Lines) /\ n \in Nat
    BY DEF Archives
  <1>2. /\ Append(files[m], line) \in Seq(Lines) /\ Len(Append(files[m], line)) = n + 1
        /\ \A i \in 1 .. n : Append(files[m], line)[i] = files[m][i]
        /\ Append(files[m], line)[n + 1] = line
    BY <1>1, AppendProperties
  <1>3. /\ longer \in Archives /\ longer[m] = Append(files[m], line)
        /\ \A k \in Months : k # m => longer[k] = files[k]
    BY <1>2 DEF Longer, Archives
  <1>4. end[1] = m /\ end[2] = n + 1 /\ end = <<end[1], end[2]>>
    BY DEF End
  <1>. HIDE DEF n
  <1>5. ASSUME NEW at \in Positions(files)
        PROVE  at \in Positions(longer) /\ longer[at[1]][at[2]] = files[at[1]][at[2]]
    <2>1. at = <<at[1], at[2]>> /\ at[1] \in Months /\ at[2] \in 1 .. Len(files[at[1]])
      BY PositionsAre
    <2>2. CASE at[1] = m
      <3>1. at[2] \in 1 .. n /\ at[2] \in 1 .. (n + 1)
        BY <1>1, <2>1, <2>2 DEF n
      <3>. QED  BY <1>2, <1>3, <2>1, <2>2, <3>1, PositionsAre DEF n
    <2>3. CASE at[1] # m
      BY <1>3, <2>1, <2>3, PositionsAre
    <2>. QED  BY <2>2, <2>3
  <1>6. ASSUME NEW at \in Positions(longer), at \notin Positions(files) PROVE at = end
    <2>1. at = <<at[1], at[2]>> /\ at[1] \in Months /\ at[2] \in 1 .. Len(longer[at[1]])
      BY PositionsAre
    <2>2. at[1] = m
      BY <1>3, <1>6, <2>1, PositionsAre
    <2>3. at[2] \in 1 .. (n + 1) /\ ~(at[2] \in 1 .. n)
      BY <1>2, <1>3, <1>6, <2>1, <2>2, PositionsAre DEF n
    <2>4. at[2] = n + 1
      BY <1>1, <2>3
    <2>. QED  BY <1>4, <2>1, <2>2, <2>4
  <1>7. end \in Positions(longer)
    <2>1. end[2] \in 1 .. Len(longer[end[1]])
      BY <1>1, <1>2, <1>3, <1>4 DEF n
    <2>. QED  BY <1>3, <1>4, <2>1, PositionsAre
  <1>8. longer[end[1]][end[2]] = line
    BY <1>2, <1>3, <1>4
  <1>. QED  BY <1>1, <1>2, <1>3, <1>4, <1>5, <1>6, <1>7, <1>8 DEF n

LEMMA LongerIsLonger ==
  ASSUME NEW files \in Archives, NEW m \in Months, NEW line \in Lines
  PROVE  /\ Longer(files, m, line) \in Archives
         /\ \A k \in Months : /\ Len(files[k]) <= Len(Longer(files, m, line)[k])
                              /\ k # m => Longer(files, m, line)[k] = files[k]
  <1>1. \A k \in Months : Len(files[k]) \in Nat
    BY DEF Archives
  <1>. QED  BY <1>1, OneMoreLine

\* longer is files with the line at the end, after every other position.
Extends(files, longer, end, line) ==
    /\ Positions(longer) = Positions(files) \cup {end} /\ end \in Nat \X Nat
    /\ longer[end[1]][end[2]] = line /\ ~Before(end, end)
    /\ \A at \in Positions(files) : /\ longer[at[1]][at[2]] = files[at[1]][at[2]]
                                    /\ Before(at, end) /\ ~Before(end, at)

CarriesOnFrom(line, files) ==
    LET last == LineAt(files, Intact(files)) IN CarriesOn(line, last.seq, last.hash)

\* A line at the end, carrying on from the last one, makes the chain longer.
LEMMA ChainGrows ==
  ASSUME NEW files \in Archives, Chained(files), NEW longer, NEW end, NEW line,
         Extends(files, longer, end, line), CarriesOnFrom(line, files)
  PROVE  /\ Chained(longer)
         /\ LineAt(longer, Intact(longer)) = line
  <1>. PICK last : last = LineAt(files, Intact(files))
    OBVIOUS
  <1>0. /\ Positions(longer) = Positions(files) \cup {end} /\ end \in Nat \X Nat
        /\ longer[end[1]][end[2]] = line /\ ~Before(end, end)
        /\ \A at \in Positions(files) : /\ longer[at[1]][at[2]] = files[at[1]][at[2]]
                                        /\ Before(at, end) /\ ~Before(end, at)
        /\ CarriesOn(line, last.seq, last.hash)
    BY DEF Extends, CarriesOnFrom
  <1>1. /\ Intact(files) = Positions(files)
        /\ \A at \in Positions(files) :
             CarriesOn(files[at[1]][at[2]], Predecessor(files, at).seq, Predecessor(files, at).hash)
    BY ChainedMeans
  <1>2. Intact(longer) = Positions(files) \cup {end}
    <2>1. IsWellFormed(line) /\ \A at \in Positions(files) : IsWellFormed(files[at[1]][at[2]])
      BY <1>0, <1>1 DEF CarriesOn
    <2>. QED  BY <1>0, <2>1 DEF Intact
  <1>3. Predecessor(longer, end) = last
    <2>1. {b \in Intact(longer) : Before(b, end)} = Positions(files)
      BY <1>0, <1>2
    <2>2. LineAt(longer, Positions(files)) = LineAt(files, Positions(files))
      BY <1>0, LineAtAgrees
    <2>. QED  BY <1>1, <2>1, <2>2 DEF Predecessor
  <1>4. ASSUME NEW at \in Positions(files) PROVE Predecessor(longer, at) = Predecessor(files, at)
    <2>. DEFINE sofar == {b \in Positions(files) : Before(b, at)}
    <2>1. {b \in Intact(longer) : Before(b, at)} = sofar
      BY <1>0, <1>2
    <2>2. {b \in Intact(files) : Before(b, at)} = sofar
      BY <1>1
    <2>3. sofar \subseteq Positions(files)
      OBVIOUS
    <2>. HIDE DEF sofar
    <2>4. LineAt(longer, sofar) = LineAt(files, sofar)
      BY <1>0, <2>3, LineAtAgrees
    <2>. QED  BY <2>1, <2>2, <2>4 DEF Predecessor
  <1>5. Chained(longer)
    <2>1. ASSUME NEW at \in Positions(longer)
          PROVE  CarriesOn(longer[at[1]][at[2]], Predecessor(longer, at).seq, Predecessor(longer, at).hash)
      <3>1. CASE at = end
        BY <1>0, <1>3, <3>1
      <3>2. CASE at \in Positions(files)
        <4>1. longer[at[1]][at[2]] = files[at[1]][at[2]] /\ Predecessor(longer, at) = Predecessor(files, at)
          BY <1>0, <1>4, <3>2
        <4>2. CarriesOn(files[at[1]][at[2]], Predecessor(files, at).seq, Predecessor(files, at).hash)
          BY <1>1, <3>2
        <4>. QED  BY <4>1, <4>2
      <3>. QED  BY <1>0, <3>1, <3>2
    <2>. QED  BY <2>1, MeansChained
  <1>6. LineAt(longer, Intact(longer)) = line
    <2>1. Intact(longer) \subseteq Nat \X Nat
      BY <1>0, <1>2, PositionTyped
    <2>2. \A b \in Intact(longer) : b = end \/ Before(b, end)
      BY <1>0, <1>2
    <2>3. end \in Intact(longer)
      BY <1>2
    <2>4. LastAt(Intact(longer)) = end
      BY <2>1, <2>2, <2>3, LastAtIs
    <2>. QED  BY <1>0, <2>3, <2>4 DEF LineAt
  <1>. QED  BY <1>5, <1>6

LEMMA ChainExtends ==
  ASSUME NEW files \in Archives, Chained(files),
         NEW m \in Months, \A k \in Months : k > m => files[k] = <<>>,
         NEW line \in Lines, CarriesOnFrom(line, files)
  PROVE  /\ Chained(Longer(files, m, line))
         /\ LineAt(Longer(files, m, line), Intact(Longer(files, m, line))) = line
  <1>1. /\ Longer(files, m, line)[m][Len(files[m]) + 1] = line
        /\ Positions(Longer(files, m, line)) = Positions(files) \cup {End(files, m)}
        /\ \A at \in Positions(files) : Longer(files, m, line)[at[1]][at[2]] = files[at[1]][at[2]]
    BY OneMoreLine
  <1>. PICK longer : longer = Longer(files, m, line)
    OBVIOUS
  <1>. PICK end : end = End(files, m)
    OBVIOUS
  <1>2. files[m] \in Seq(Lines) /\ m \in Nat /\ Len(files[m]) \in Nat /\ DOMAIN files[m] = 1 .. Len(files[m])
    BY BoundAssumption DEF Months, Archives
  <1>3. end \in Nat \X Nat /\ end[1] = m /\ end[2] = Len(files[m]) + 1
    BY <1>2 DEF End
  <1>4. ASSUME NEW at \in Positions(files) PROVE Before(at, end) /\ ~Before(end, at)
    <2>1. at[1] \in Months /\ at[2] \in DOMAIN files[at[1]] /\ at[1] \in Nat /\ at[2] \in Nat
      BY PositionTyped
    <2>2. at[1] <= m
      BY <1>2, <2>1
    <2>3. at[1] = m => at[2] <= Len(files[m])
      BY <1>2, <2>1
    <2>. QED  BY <1>2, <1>3, <2>1, <2>2, <2>3 DEF Before
  <1>5. ~Before(end, end)
    BY <1>2, <1>3 DEF Before
  <1>6. /\ longer[end[1]][end[2]] = line
        /\ \A at \in Positions(files) : longer[at[1]][at[2]] = files[at[1]][at[2]]
        /\ Positions(longer) = Positions(files) \cup {end}
    BY <1>1, <1>3
  <1>7. Extends(files, longer, end, line)
    BY <1>3, <1>4, <1>5, <1>6 DEF Extends
  <1>. QED  BY <1>7, ChainGrows

\* The lines of files are the first of those of longer.
Initial(files, longer) ==
    /\ Positions(files) \subseteq Positions(longer)
    /\ \A at \in Positions(files) :
         /\ longer[at[1]][at[2]] = files[at[1]][at[2]]
         /\ \A b \in Positions(longer) : Before(b, at) => b \in Positions(files)

\* What is left of a chain, up to somewhere, is a chain.
LEMMA ChainShrinks ==
  ASSUME NEW files \in Archives, Chained(files), NEW shorter, Initial(shorter, files)
  PROVE  Chained(shorter)
  <1>0. /\ Positions(shorter) \subseteq Positions(files)
        /\ \A at \in Positions(shorter) : shorter[at[1]][at[2]] = files[at[1]][at[2]]
        /\ \A at \in Positions(shorter), b \in Positions(files) : Before(b, at) => b \in Positions(shorter)
    BY DEF Initial
  <1>1. /\ Intact(files) = Positions(files)
        /\ \A at \in Positions(files) :
             CarriesOn(files[at[1]][at[2]], Predecessor(files, at).seq, Predecessor(files, at).hash)
    BY ChainedMeans
  <1>2. Intact(shorter) = Positions(shorter)
    BY <1>0, <1>1 DEF Intact, CarriesOn
  <1>3. ASSUME NEW at \in Positions(shorter) PROVE Predecessor(shorter, at) = Predecessor(files, at)
    <2>. DEFINE sofar == {b \in Intact(files) : Before(b, at)}
    <2>1. {b \in Intact(shorter) : Before(b, at)} = sofar
      BY <1>0, <1>1, <1>2
    <2>2. sofar \subseteq Positions(files) /\ sofar \subseteq Positions(shorter)
      BY <1>0, <1>1
    <2>. HIDE DEF sofar
    <2>3. LineAt(shorter, sofar) = LineAt(files, sofar)
      BY <1>0, <2>2, LineAtAgrees
    <2>. QED  BY <2>1, <2>3 DEF Predecessor, sofar
  <1>. QED  BY <1>0, <1>1, <1>3, MeansChained

-----------------------------------------------------------------------------
(* What a call does to a world. *)

\* Flushed at most: the same lines and the same end.
Steady(w, v) ==
    /\ v \in Worlds
    /\ v.d.files = w.d.files /\ v.d.torn = w.d.torn /\ v.d.newest = w.d.newest
    /\ \A m \in Months : w.d.synced[m] <= v.d.synced[m] /\ v.d.synced[m] <= Len(v.d.files[m])
    /\ v.s.seq = w.s.seq /\ v.s.head = w.s.head
    /\ v.s.month = w.s.month /\ v.s.broken = w.s.broken

LEMMA MonthsAreNat == Months \subseteq Nat
  BY BoundAssumption DEF Months

LEMMA WorldTyped ==
  ASSUME NEW w \in Worlds
  PROVE  /\ w.d \in Disks /\ w.s \in Sinks
         /\ w.d.files \in Archives /\ w.d.synced \in Marks
         /\ w.d.torn \in Nat /\ w.d.newest \in Nat
         /\ w.s.month \in Months /\ w.s.month \in Nat /\ w.s.seq \in Nat /\ w.s.head \in Hashes
         /\ \A m \in Months : /\ w.d.files[m] \in Seq(Lines) /\ Len(w.d.files[m]) \in Nat
                              /\ w.d.synced[m] \in Nat
  <1>1. w.d \in Disks /\ w.s \in Sinks
    BY DEF Worlds
  <1>2. /\ w.d.files \in Archives /\ w.d.synced \in Marks
        /\ w.d.torn \in Nat /\ w.d.newest \in Nat
    BY <1>1 DEF Disks
  <1>3. w.s.month \in Months /\ w.s.month \in Nat /\ w.s.seq \in Nat /\ w.s.head \in Hashes
    BY <1>1, MonthsAreNat DEF Sinks
  <1>4. \A m \in Months : /\ w.d.files[m] \in Seq(Lines) /\ Len(w.d.files[m]) \in Nat
                          /\ w.d.synced[m] \in Nat
    BY <1>2 DEF Archives, Marks
  <1>. QED  BY <1>1, <1>2, <1>3, <1>4

LEMMA FsyncSteady ==
  ASSUME NEW w \in Worlds, \A m \in Months : w.d.synced[m] <= Len(w.d.files[m])
  PROVE  /\ Steady(w, Fsync(w))
         /\ Fsync(w).d.synced[w.s.month] = Len(w.d.files[w.s.month])
  <1>. PICK n : n = Len(w.d.files[w.s.month])
    OBVIOUS
  <1>1. n \in Nat
    BY WorldTyped
  <1>2. Fsync(w).d = [w.d EXCEPT !.synced[w.s.month] = n]
    BY DEF Fsync, Worlds
  <1>3. Fsync(w).s = [w.s EXCEPT !.dirty = FALSE]
    BY DEF Fsync, Worlds
  <1>4. PICK marks : marks = [w.d.synced EXCEPT ![w.s.month] = n]
    OBVIOUS
  <1>5. /\ marks \in Marks /\ marks[w.s.month] = n
        /\ \A m \in Months : w.d.synced[m] <= marks[m] /\ marks[m] <= Len(w.d.files[m])
    BY <1>1, <1>4, WorldTyped DEF Marks
  <1>6. /\ Fsync(w).d \in Disks /\ Fsync(w).d.synced = marks
        /\ Fsync(w).d.files = w.d.files /\ Fsync(w).d.torn = w.d.torn /\ Fsync(w).d.newest = w.d.newest
    BY <1>2, <1>4, <1>5, WorldTyped DEF Disks
  <1>7. /\ Fsync(w).s \in Sinks /\ Fsync(w).s.seq = w.s.seq /\ Fsync(w).s.head = w.s.head
        /\ Fsync(w).s.month = w.s.month /\ Fsync(w).s.broken = w.s.broken
    BY <1>3, WorldTyped DEF Sinks
  <1>8. Fsync(w) \in Worlds
    BY <1>6, <1>7 DEF Fsync, Worlds
  <1>. QED  BY <1>5, <1>6, <1>7, <1>8 DEF Steady

\* Nothing of that looks at the flags of the sink.
LEMMA SteadyTurns ==
  ASSUME NEW w \in Worlds, NEW v, Steady(w, v), NEW to \in BOOLEAN
  PROVE  /\ Steady(w, [v EXCEPT !.s.timer = to])
         /\ Steady(w, [v EXCEPT !.s.dirty = FALSE, !.s.timer = FALSE, !.s.fd = "closed"])
  <1>1. v \in Worlds /\ v.s \in Sinks
    BY WorldTyped DEF Steady
  <1>2. ASSUME NEW t \in Sinks, t.seq = v.s.seq, t.head = v.s.head, t.month = v.s.month,
               t.broken = v.s.broken, NEW u, u = [v EXCEPT !.s = t]
        PROVE  Steady(w, u)
    <2>1. u \in Worlds /\ u.s = t /\ u.d = v.d
      BY <1>1, <1>2 DEF Worlds
    <2>. QED  BY <1>1, <1>2, <2>1 DEF Steady
  <1>3. PICK t : t = [v.s EXCEPT !.timer = to]
    OBVIOUS
  <1>4. [v EXCEPT !.s.timer = to] = [v EXCEPT !.s = t]
    BY <1>1, <1>3 DEF Worlds
  <1>5. /\ t \in Sinks /\ t.seq = v.s.seq /\ t.head = v.s.head /\ t.month = v.s.month
        /\ t.broken = v.s.broken
    BY <1>1, <1>3 DEF Sinks
  <1>6. PICK u : u = [v.s EXCEPT !.dirty = FALSE, !.timer = FALSE, !.fd = "closed"]
    OBVIOUS
  <1>7. [v EXCEPT !.s.dirty = FALSE, !.s.timer = FALSE, !.s.fd = "closed"] = [v EXCEPT !.s = u]
    BY <1>1, <1>6 DEF Worlds
  <1>8. /\ u \in Sinks /\ u.seq = v.s.seq /\ u.head = v.s.head /\ u.month = v.s.month
        /\ u.broken = v.s.broken
    BY <1>1, <1>6 DEF Sinks
  <1>. QED  BY <1>2, <1>4, <1>5, <1>7, <1>8

\* The lines that were there are still there, flushed if they were, and the new
\* ones are in the newest file.
Grows(d, e) ==
    /\ d.newest <= e.newest
    /\ \A m \in Months :
         /\ DOMAIN d.files[m] \subseteq DOMAIN e.files[m]
         /\ \A i \in DOMAIN d.files[m] : e.files[m][i] = d.files[m][i]
         /\ d.synced[m] <= e.synced[m]
         /\ m < d.newest => e.files[m] = d.files[m]

LEMMA GrowsOn ==
  ASSUME NEW d \in Disks, NEW e \in Disks, NEW f \in Disks, Grows(d, e), Grows(e, f)
  PROVE  Grows(d, f)
  <1>1. d.newest \in Nat /\ e.newest \in Nat /\ f.newest \in Nat
    BY DEF Disks
  <1>2. d.newest <= f.newest
    BY <1>1 DEF Grows
  <1>3. ASSUME NEW m \in Months
        PROVE  /\ DOMAIN d.files[m] \subseteq DOMAIN f.files[m]
               /\ \A i \in DOMAIN d.files[m] : f.files[m][i] = d.files[m][i]
    BY DEF Grows
  <1>4. ASSUME NEW m \in Months PROVE d.synced[m] <= f.synced[m]
    <2>1. d.synced[m] \in Nat /\ e.synced[m] \in Nat /\ f.synced[m] \in Nat
      BY DEF Disks, Marks
    <2>. QED  BY <2>1 DEF Grows
  <1>5. ASSUME NEW m \in Months, m < d.newest PROVE f.files[m] = d.files[m]
    <2>1. m < e.newest
      BY <1>1, <1>5, MonthsAreNat DEF Grows
    <2>. QED  BY <1>5, <2>1 DEF Grows
  <1>. QED  BY <1>2, <1>3, <1>4, <1>5 DEF Grows

LEMMA GrownHolds ==
  ASSUME NEW d \in Disks, NEW e \in Disks, Grows(d, e), NEW n
  PROVE  (Holds(d, n) => Holds(e, n)) /\ (HoldsHard(d, n) => HoldsHard(e, n))
  <1>1. ASSUME Holds(d, n) PROVE Holds(e, n)
    <2>0. PICK m \in Months : \E i \in DOMAIN d.files[m] :
             IsWellFormed(d.files[m][i]) /\ d.files[m][i].body = Event(n)
      BY <1>1 DEF Holds
    <2>1. PICK i \in DOMAIN d.files[m] : IsWellFormed(d.files[m][i]) /\ d.files[m][i].body = Event(n)
      BY <2>0
    <2>2. i \in DOMAIN e.files[m] /\ e.files[m][i] = d.files[m][i]
      BY <2>1 DEF Grows
    <2>. QED  BY <2>1, <2>2 DEF Holds
  <1>2. ASSUME HoldsHard(d, n) PROVE HoldsHard(e, n)
    <2>0. PICK m \in Months : \E i \in DOMAIN d.files[m] :
             i <= d.synced[m] /\ IsWellFormed(d.files[m][i]) /\ d.files[m][i].body = Event(n)
      BY <1>2 DEF HoldsHard
    <2>1. PICK i \in DOMAIN d.files[m] :
             i <= d.synced[m] /\ IsWellFormed(d.files[m][i]) /\ d.files[m][i].body = Event(n)
      BY <2>0
    <2>2. d.synced[m] \in Nat /\ e.synced[m] \in Nat /\ i \in Nat
      <3>1. d.files[m] \in Seq(Lines)
        BY DEF Disks, Archives
      <3>. QED  BY <3>1 DEF Disks, Marks
    <2>3. i \in DOMAIN e.files[m] /\ e.files[m][i] = d.files[m][i] /\ i <= e.synced[m]
      BY <2>1, <2>2 DEF Grows
    <2>. QED  BY <2>1, <2>3 DEF HoldsHard
  <1>. QED  BY <1>1, <1>2

-----------------------------------------------------------------------------
(* Opening the file of the month, and rotating to it. *)

Tied(w) == Whole(w.d) /\ Linked(w)

\* The same lines and the same end, in a file that may be newer.
Moves(w, v) ==
    /\ Fit(v)
    /\ v.d.files = w.d.files /\ v.d.torn = w.d.torn
    /\ w.d.newest <= v.d.newest
    /\ \A m \in Months : w.d.synced[m] <= v.d.synced[m]
    /\ v.s.seq = w.s.seq /\ v.s.head = w.s.head /\ v.s.broken = w.s.broken
    /\ Solo(w) => Solo(v)

LEMMA FitIs ==
  ASSUME NEW w, Fit(w)
  PROVE  /\ w \in Worlds /\ \A m \in Months : w.d.synced[m] <= Len(w.d.files[m])
         /\ w.d.torn <= w.d.newest /\ w.d.newest <= now /\ w.s.month <= w.d.newest
         /\ \A m \in Months : m > w.d.newest => w.d.files[m] = <<>>
  BY DEF Fit, Formed

LEMMA SteadyMoves ==
  ASSUME NEW w, Fit(w), NEW v, Steady(w, v)
  PROVE  Moves(w, v)
  <1>1. /\ w.d.torn <= w.d.newest /\ w.d.newest <= now /\ w.s.month <= w.d.newest
        /\ \A m \in Months : m > w.d.newest => w.d.files[m] = <<>>
    BY FitIs
  <1>2. v \in Worlds /\ v.d \in Disks
    BY WorldTyped DEF Steady
  <1>3. Formed(v.d) /\ v.s.month <= v.d.newest
    BY <1>1, <1>2 DEF Formed, Steady
  <1>4. w.d.newest <= v.d.newest
    BY <1>2, WorldTyped DEF Steady
  <1>. QED  BY <1>2, <1>3, <1>4 DEF Moves, Fit, Steady, Solo

LEMMA OpenMoves ==
  ASSUME now \in Months, NEW w \in Worlds, Formed(w.d)
  PROVE  /\ OpenCurrentFile(w).s.month = now
         /\ Moves(w, OpenCurrentFile(w))
         /\ w.d.torn < now => Solo(OpenCurrentFile(w))
  <1>. PICK v : v = OpenCurrentFile(w)
    OBVIOUS
  <1>1. v.d = [w.d EXCEPT !.newest = now] /\ v.s = [w.s EXCEPT !.month = now, !.fd = "open"]
    BY DEF OpenCurrentFile, Worlds
  <1>2. now \in Nat /\ w.d \in Disks /\ w.s \in Sinks
    BY MonthsAreNat, WorldTyped
  <1>3. /\ v.d \in Disks /\ v.d.newest = now
        /\ v.d.files = w.d.files /\ v.d.torn = w.d.torn /\ v.d.synced = w.d.synced
    BY <1>1, <1>2 DEF Disks
  <1>4. /\ v.s \in Sinks /\ v.s.month = now
        /\ v.s.seq = w.s.seq /\ v.s.head = w.s.head /\ v.s.broken = w.s.broken
    BY <1>1, <1>2 DEF Sinks
  <1>5. v \in Worlds
    BY <1>3, <1>4 DEF OpenCurrentFile, Worlds
  <1>6. /\ w.d.torn <= w.d.newest /\ w.d.newest <= now
        /\ \A m \in Months : w.d.synced[m] <= Len(w.d.files[m]) /\ (m > w.d.newest => w.d.files[m] = <<>>)
    BY DEF Formed
  <1>7. Formed(v.d)
    <2>1. v.d.torn <= v.d.newest /\ v.d.newest <= now
      BY <1>2, <1>3, <1>6, WorldTyped
    <2>2. \A m \in Months : m > v.d.newest => v.d.files[m] = <<>>
      BY <1>2, <1>3, <1>6, WorldTyped, MonthsAreNat
    <2>. QED  BY <1>3, <1>6, <2>1, <2>2 DEF Formed
  <1>8. v.s.month <= v.d.newest /\ (w.d.torn < now => Solo(v)) /\ (Solo(w) => Solo(v))
    <2>1. Solo(w) => w.d.torn < now
      BY <1>2, <1>6, WorldTyped DEF Solo
    <2>. QED  BY <1>2, <1>3, <1>4, <2>1 DEF Solo
  <1>9. \A m \in Months : w.d.synced[m] <= v.d.synced[m]
    BY <1>3, WorldTyped
  <1>10. Moves(w, v)
    BY <1>3, <1>4, <1>5, <1>6, <1>7, <1>8, <1>9 DEF Moves, Fit
  <1>. QED  BY <1>4, <1>8, <1>10

LEMMA MovesOn ==
  ASSUME NEW u \in Worlds, NEW v, NEW w, Moves(u, v), Moves(v, w)
  PROVE  Moves(u, w)
  <1>1. v \in Worlds /\ w \in Worlds
    BY DEF Moves, Fit
  <1>2. u.d.newest <= w.d.newest
    BY <1>1, WorldTyped DEF Moves
  <1>3. \A m \in Months : u.d.synced[m] <= w.d.synced[m]
    BY <1>1, WorldTyped DEF Moves
  <1>. QED  BY <1>2, <1>3 DEF Moves

\* So every invariant that is about the lines and the end of them survives.
LEMMA MovesKeeps ==
  ASSUME NEW w \in Worlds, NEW v, Moves(w, v)
  PROVE  Grows(w.d, v.d) /\ (Tied(w) => Tied(v))
  <1>1. \A m \in Months : w.d.synced[m] <= v.d.synced[m]
    BY DEF Moves
  <1>. QED  BY <1>1 DEF Moves, Grows, Tied, Whole, Linked, AtEnd

LEMMA RotateMoves ==
  ASSUME now \in Months, NEW w, Fit(w), NEW r \in RotateIfNeeded(w)
  PROVE  Moves(w, r.w) /\ (r.ok => r.w.s.month = now)
  <1>0. w \in Worlds /\ \A m \in Months : w.d.synced[m] <= Len(w.d.files[m])
    BY FitIs
  <1>1. Steady(w, w)
    <2>1. \A m \in Months : w.d.synced[m] <= w.d.synced[m]
      BY <1>0, WorldTyped
    <2>. QED  BY <1>0, <2>1 DEF Steady
  <1>. DEFINE fsyncs == {Fsync(w)} \cup IF w.s.dirty THEN {w} ELSE {}
              closed == {[v EXCEPT !.s.dirty = FALSE, !.s.timer = FALSE, !.s.fd = "closed"] : v \in fsyncs}
  <1>2. ASSUME NEW v \in closed PROVE Moves(w, v) /\ Formed(v.d)
    <2>1. PICK u \in fsyncs : v = [u EXCEPT !.s.dirty = FALSE, !.s.timer = FALSE, !.s.fd = "closed"]
      OBVIOUS
    <2>2. Steady(w, u)
      BY <1>0, <1>1, FsyncSteady
    <2>. HIDE DEF fsyncs
    <2>3. Steady(w, v)
      BY <1>0, <2>1, <2>2, SteadyTurns
    <2>. QED  BY <2>3, SteadyMoves DEF Moves, Fit
  <1>3. CASE r \in {Returns(w), Throws(w)} /\ (r.ok => w.s.month = now)
    BY <1>1, <1>3, SteadyMoves DEF Returns, Throws
  <1>4. CASE r \in {Returns(OpenCurrentFile(v)) : v \in closed}
    <2>1. PICK v \in closed : r = Returns(OpenCurrentFile(v))
      BY <1>4
    <2>2. Moves(w, v) /\ Formed(v.d) /\ v \in Worlds
      BY <1>2 DEF Moves, Fit
    <2>. HIDE DEF closed
    <2>3. Moves(v, OpenCurrentFile(v)) /\ OpenCurrentFile(v).s.month = now
      BY <2>2, OpenMoves
    <2>4. Moves(w, OpenCurrentFile(v))
      BY <1>0, <2>2, <2>3, MovesOn
    <2>. QED  BY <2>1, <2>3, <2>4 DEF Returns
  <1>5. CASE r \in {Throws(v) : v \in closed}
    <2>1. PICK v \in closed : r = Throws(v)
      BY <1>5
    <2>. QED  BY <1>2, <2>1 DEF Throws
  <1>6. CASE w.s.month = now
    BY <1>3, <1>6 DEF RotateIfNeeded, Returns
  <1>7. CASE w.s.month # now /\ w.s.fd = "closed"
    BY <1>3, <1>7 DEF RotateIfNeeded, Throws
  <1>8. CASE w.s.month # now /\ w.s.fd # "closed"
    <2>1. r \in {Returns(OpenCurrentFile(v)) : v \in closed} \cup {Throws(v) : v \in closed}
      BY <1>8 DEF RotateIfNeeded
    <2>. QED  BY <1>4, <1>5, <2>1
  <1>. QED  BY <1>6, <1>7, <1>8

-----------------------------------------------------------------------------
(* Writing a line. *)

LEMMA LineTyped ==
  ASSUME NEW seq \in Nat, NEW prev \in Hashes, NEW body \in EventBodies
  PROVE  /\ Line(seq, prev, body) \in Lines
         /\ Line(seq, prev, body).seq = seq /\ Line(seq, prev, body).body = body
         /\ Line(seq, prev, body).hash \in Hashes
         /\ seq # 0 => CarriesOn(Line(seq, prev, body), seq - 1, prev)
  <1>1. Append(prev, <<seq, body>>) \in Hashes
    <2>1. <<seq, body>> \in Nat \X EventBodies
      OBVIOUS
    <2>. QED  BY <2>1, AppendProperties DEF Hashes
  <1>. QED  BY <1>1 DEF Line, Lines, ComputeEventHash, CarriesOn, IsWellFormed

LEMMA MalformedTyped == Malformed \in Lines
  <1>1. <<>> \in Hashes
    BY DEF Hashes
  <1>2. <<"malformed", 0>> \in EventBodies
    BY DEF EventBodies
  <1>. QED  BY <1>1, <1>2 DEF Malformed, Lines, Genesis

\* A world after a line was handed to write(2): the line after the others, or after
\* the fragment that there was.
LEMMA WrittenIs ==
  ASSUME NEW w, Fit(w), NEW line \in Lines
  PROVE  /\ Fit(Written(w, line))
         /\ Written(w, line).s.seq = w.s.seq /\ Written(w, line).s.head = w.s.head
         /\ Written(w, line).s.month = w.s.month /\ Written(w, line).s.broken = w.s.broken
         /\ Written(w, line).d.newest = w.d.newest
         /\ Solo(w) => /\ Written(w, line).d.files = Longer(w.d.files, w.s.month, line)
                       /\ Written(w, line).d.torn = w.d.torn
                       /\ Written(w, line).d.synced = w.d.synced
  <1>. PICK v : v = Written(w, line)
    OBVIOUS
  <1>. PICK whole : whole = IF w.d.torn = w.s.month THEN Malformed ELSE line
    OBVIOUS
  <1>. PICK longer : longer = Longer(w.d.files, w.s.month, whole)
    OBVIOUS
  <1>. PICK torn : torn = IF w.d.torn = w.s.month THEN 0 ELSE w.d.torn
    OBVIOUS
  <1>1. w \in Worlds /\ w.d \in Disks /\ w.s \in Sinks /\ w.s.month \in Months /\ w.d.files \in Archives
    BY FitIs, WorldTyped
  <1>2. v.s = [w.s EXCEPT !.dirty = TRUE]
    BY <1>1 DEF Written, Worlds
  <1>3. v.d = [w.d EXCEPT !.files = longer, !.torn = torn]
    BY <1>1 DEF Written, Worlds, Disks, Longer
  <1>4. whole \in Lines /\ torn \in Nat
    BY <1>1, MalformedTyped, WorldTyped
  <1>5. /\ longer \in Archives
        /\ \A m \in Months : Len(w.d.files[m]) <= Len(longer[m]) /\ (m # w.s.month => longer[m] = w.d.files[m])
    BY <1>1, <1>4, LongerIsLonger
  <1>6. /\ v.d \in Disks /\ v.d.files = longer /\ v.d.torn = torn
        /\ v.d.synced = w.d.synced /\ v.d.newest = w.d.newest
    BY <1>1, <1>3, <1>4, <1>5 DEF Disks
  <1>7. /\ v.s \in Sinks /\ v.s.seq = w.s.seq /\ v.s.head = w.s.head
        /\ v.s.month = w.s.month /\ v.s.broken = w.s.broken
    BY <1>1, <1>2 DEF Sinks
  <1>8. v \in Worlds
    BY <1>1, <1>6, <1>7 DEF Written, Worlds
  <1>9. Formed(v.d)
    <2>1. v.d.torn <= v.d.newest /\ v.d.newest <= now
      BY <1>1, <1>6, FitIs, WorldTyped
    <2>2. ASSUME NEW m \in Months PROVE v.d.synced[m] <= Len(v.d.files[m])
      <3>1. Len(longer[m]) \in Nat /\ Len(w.d.files[m]) \in Nat /\ w.d.synced[m] \in Nat
        BY <1>1, <1>5, WorldTyped DEF Archives
      <3>. QED  BY <1>5, <1>6, <3>1, FitIs
    <2>3. ASSUME NEW m \in Months, m > v.d.newest PROVE v.d.files[m] = <<>>
      <3>1. m # w.s.month
        BY <1>1, <1>6, <2>3, FitIs, WorldTyped
      <3>. QED  BY <1>5, <1>6, <2>3, <3>1, FitIs
    <2>. QED  BY <1>6, <2>1, <2>2, <2>3 DEF Formed
  <1>10. Fit(v)
    BY <1>6, <1>7, <1>8, <1>9, FitIs DEF Fit
  <1>11. Solo(w) => whole = line /\ torn = w.d.torn
    BY <1>1, WorldTyped DEF Solo
  <1>. QED  BY <1>6, <1>7, <1>10, <1>11

LEMMA CutShortFits ==
  ASSUME NEW w, Fit(w)
  PROVE  /\ Fit(CutShort(w))
         /\ CutShort(w).s.broken = w.s.broken /\ CutShort(w).d.newest = w.d.newest
  <1>. PICK v : v = CutShort(w)
    OBVIOUS
  <1>1. w \in Worlds /\ w.d \in Disks /\ w.s \in Sinks /\ w.s.month \in Nat
    BY FitIs, WorldTyped
  <1>2. v.s = [w.s EXCEPT !.dirty = TRUE] /\ v.d = [w.d EXCEPT !.torn = w.s.month]
    BY <1>1 DEF CutShort, Worlds
  <1>3. /\ v.d \in Disks /\ v.d.torn = w.s.month
        /\ v.d.files = w.d.files /\ v.d.synced = w.d.synced /\ v.d.newest = w.d.newest
    BY <1>1, <1>2 DEF Disks
  <1>4. v.s \in Sinks /\ v.s.month = w.s.month /\ v.s.broken = w.s.broken
    BY <1>1, <1>2 DEF Sinks
  <1>5. v \in Worlds
    BY <1>1, <1>3, <1>4 DEF CutShort, Worlds
  <1>. QED  BY <1>3, <1>4, <1>5, FitIs DEF Fit, Formed

\* What an operation may do to a fitting world: it leaves one; and while no write is
\* cut short it leaves the lines to whoever appends alone, and the chain whole.
Sound(w, r) ==
    /\ Fit(r.w) /\ w.d.newest <= r.w.d.newest
    /\ r.ok => r.w.s.broken = w.s.broken
    /\ ~ShortWrites /\ Solo(w) => Solo(r.w) /\ Grows(w.d, r.w.d)
    /\ ~ShortWrites /\ Solo(w) /\ Tied(w) /\ ~w.s.broken => Tied(r.w)

\* An append that returns has its event in the log.
Records(r, n, immediate) ==
    r.ok => Holds(r.w.d, n) /\ (immediate => HoldsHard(r.w.d, n))

LEMMA AdvanceIs ==
  ASSUME NEW w \in Worlds, NEW line, line.seq \in Nat, line.hash \in Hashes
  PROVE  /\ Advance(w, line) \in Worlds /\ Advance(w, line).d = w.d
         /\ Advance(w, line).s.seq = line.seq /\ Advance(w, line).s.head = line.hash
         /\ Advance(w, line).s.month = w.s.month /\ Advance(w, line).s.broken = w.s.broken
  <1>1. w.d \in Disks /\ w.s \in Sinks
    BY WorldTyped
  <1>. PICK t : t = [w.s EXCEPT !.seq = line.seq, !.head = line.hash]
    OBVIOUS
  <1>2. /\ t \in Sinks /\ t.seq = line.seq /\ t.head = line.hash
        /\ t.month = w.s.month /\ t.broken = w.s.broken
    BY <1>1 DEF Sinks
  <1>3. Advance(w, line) = [w EXCEPT !.s = t]
    BY <1>1 DEF Advance, Worlds
  <1>4. Advance(w, line) \in Worlds /\ Advance(w, line).d = w.d /\ Advance(w, line).s = t
    BY <1>1, <1>2, <1>3 DEF Worlds
  <1>. QED  BY <1>2, <1>4

LEMMA BreakIs ==
  ASSUME NEW w \in Worlds
  PROVE  /\ Break(w).ok = FALSE /\ Break(w).w \in Worlds /\ Break(w).w.d = w.d
         /\ Break(w).w.s.month = w.s.month /\ Break(w).w.s.broken = TRUE
  <1>. PICK v : v = [w EXCEPT !.s.broken = TRUE, !.s.fd = "closed"]
    OBVIOUS
  <1>1. w.d \in Disks /\ w.s \in Sinks
    BY WorldTyped
  <1>2. /\ v.s = [w.s EXCEPT !.broken = TRUE, !.fd = "closed"] /\ v.d = w.d
        /\ v = [d |-> w.d, s |-> v.s]
    BY DEF Worlds
  <1>3. v.s \in Sinks /\ v.s.month = w.s.month /\ v.s.broken = TRUE
    BY <1>1, <1>2 DEF Sinks
  <1>4. v \in Worlds
    BY <1>1, <1>2, <1>3 DEF Worlds
  <1>. QED  BY <1>2, <1>3, <1>4 DEF Break, Throws

\* The written line, flushed or not.
Wrote(w, x, line) ==
    /\ Fit(x) /\ x.s.broken = w.s.broken /\ x.d.newest = w.d.newest
    /\ Solo(w) => /\ Solo(x) /\ Grows(w.d, x.d)
                  /\ x.s.month = w.s.month /\ x.d.torn = w.d.torn
                  /\ x.d.files = Longer(w.d.files, w.s.month, line)

LEMMA LongerGrows ==
  ASSUME NEW w, Fit(w), Solo(w), NEW line \in Lines, NEW x,
         x.d.files = Longer(w.d.files, w.s.month, line), x.d.newest = w.d.newest,
         \A m \in Months : w.d.synced[m] <= x.d.synced[m]
  PROVE  Grows(w.d, x.d)
  <1>1. /\ w \in Worlds /\ w.d.files \in Archives /\ w.s.month \in Months /\ w.s.month \in Nat
        /\ w.d.newest \in Nat
    BY FitIs, WorldTyped
  <1>. PICK files, month : files = w.d.files /\ month = w.s.month
    OBVIOUS
  <1>2. Longer(files, month, line)[month] = Append(files[month], line)
    BY <1>1, OneMoreLine
  <1>3. ASSUME NEW m \in Months
        PROVE  /\ DOMAIN files[m] \subseteq DOMAIN Longer(files, month, line)[m]
               /\ \A i \in DOMAIN files[m] : Longer(files, month, line)[m][i] = files[m][i]
    <2>1. CASE m = month
      <3>1. files[m] \in Seq(Lines)
        BY <1>1 DEF Archives
      <3>2. /\ Len(Append(files[m], line)) = Len(files[m]) + 1
            /\ \A i \in 1 .. Len(files[m]) : Append(files[m], line)[i] = files[m][i]
            /\ Append(files[m], line) \in Seq(Lines)
        BY <3>1, AppendProperties
      <3>3. /\ DOMAIN files[m] = 1 .. Len(files[m]) /\ Len(files[m]) \in Nat
            /\ DOMAIN Append(files[m], line) = 1 .. (Len(files[m]) + 1)
        BY <3>1, <3>2
      <3>4. 1 .. Len(files[m]) \subseteq 1 .. (Len(files[m]) + 1)
        BY <3>3
      <3>. QED  BY <1>2, <2>1, <3>2, <3>3, <3>4
    <2>2. CASE m # month
      BY <1>1, <2>2, LongerIsLonger
    <2>. QED  BY <2>1, <2>2
  <1>4. ASSUME NEW m \in Months, m < w.d.newest PROVE Longer(files, month, line)[m] = files[m]
    <2>1. m # month
      BY <1>1, <1>4, MonthsAreNat DEF Solo
    <2>. QED  BY <1>1, <2>1, LongerIsLonger
  <1>5. w.d.newest <= x.d.newest
    BY <1>1
  <1>. QED  BY <1>3, <1>4, <1>5 DEF Grows

LEMMA WroteIs ==
  ASSUME NEW w, Fit(w), NEW line \in Lines, NEW x, Steady(Written(w, line), x)
  PROVE  Wrote(w, x, line)
  <1>. PICK v : v = Written(w, line)
    OBVIOUS
  <1>1. /\ Fit(v) /\ v.s.month = w.s.month /\ v.s.broken = w.s.broken
        /\ v.d.newest = w.d.newest
        /\ Solo(w) => /\ v.d.files = Longer(w.d.files, w.s.month, line)
                      /\ v.d.torn = w.d.torn /\ v.d.synced = w.d.synced
    BY WrittenIs
  <1>2. Moves(v, x)
    BY <1>1, SteadyMoves
  <1>3. ASSUME Solo(w) PROVE Solo(x) /\ x.d.files = Longer(w.d.files, w.s.month, line)
    <2>1. Solo(v)
      BY <1>1, <1>3 DEF Solo
    <2>. QED  BY <1>1, <1>2, <1>3, <2>1 DEF Moves
  <1>4. ASSUME Solo(w) PROVE Grows(w.d, x.d)
    <2>1. \A m \in Months : w.d.synced[m] <= x.d.synced[m]
      BY <1>1, <1>4 DEF Steady
    <2>2. x.d.newest = w.d.newest
      BY <1>1, <1>4 DEF Steady
    <2>. QED  BY <1>3, <1>4, <2>1, <2>2, LongerGrows
  <1>. QED  BY <1>1, <1>2, <1>3, <1>4 DEF Moves, Steady, Wrote

\* The chain with the line that the sink makes out of its own end.
LEMMA WroteChained ==
  ASSUME NEW w, Fit(w), Solo(w), Tied(w), ~w.s.broken, NEW body \in EventBodies, NEW line,
         line = Line(w.s.seq + 1, w.s.head, body), NEW x, Wrote(w, x, line)
  PROVE  /\ Whole(x.d) /\ x.d.torn = 0
         /\ LineAt(x.d.files, Intact(x.d.files)) = line
  <1>1. /\ w \in Worlds /\ w.d.files \in Archives /\ w.s.month \in Months
        /\ w.s.seq \in Nat /\ w.s.head \in Hashes /\ w.d.newest = w.s.month
    BY FitIs, WorldTyped DEF Solo
  <1>2. line \in Lines /\ CarriesOn(line, w.s.seq, w.s.head)
    <2>1. w.s.seq + 1 \in Nat /\ w.s.seq + 1 # 0 /\ (w.s.seq + 1) - 1 = w.s.seq
      BY <1>1
    <2>2. /\ Line(w.s.seq + 1, w.s.head, body) \in Lines
          /\ CarriesOn(Line(w.s.seq + 1, w.s.head, body), (w.s.seq + 1) - 1, w.s.head)
      BY <1>1, <2>1, LineTyped
    <2>. QED  BY <2>1, <2>2
  <1>3. CarriesOnFrom(line, w.d.files) /\ Chained(w.d.files) /\ w.d.torn = 0
    BY <1>2 DEF CarriesOnFrom, Tied, Linked, AtEnd, Whole
  <1>4. \A k \in Months : k > w.s.month => w.d.files[k] = <<>>
    BY <1>1, FitIs
  <1>5. /\ Chained(Longer(w.d.files, w.s.month, line))
        /\ LineAt(Longer(w.d.files, w.s.month, line), Intact(Longer(w.d.files, w.s.month, line))) = line
    BY <1>1, <1>2, <1>3, <1>4, ChainExtends
  <1>. QED  BY <1>3, <1>5 DEF Wrote, Whole

LEMMA WroteSound ==
  ASSUME NEW w, Fit(w), NEW body \in EventBodies, NEW line,
         line = Line(w.s.seq + 1, w.s.head, body), NEW x, Wrote(w, x, line)
  PROVE  Sound(w, Returns(Advance(x, line))) /\ Sound(w, Break(x))
  <1>1. /\ x \in Worlds /\ Fit(x)
        /\ w.s.seq + 1 \in Nat /\ w.s.head \in Hashes
    BY FitIs, WorldTyped DEF Wrote
  <1>2. line.seq \in Nat /\ line.hash \in Hashes
    BY <1>1, LineTyped
  <1>. PICK a : a = Advance(x, line)
    OBVIOUS
  <1>. PICK b : b = Break(x).w
    OBVIOUS
  <1>3. /\ a \in Worlds /\ a.d = x.d /\ a.s.seq = line.seq /\ a.s.head = line.hash
        /\ a.s.month = x.s.month /\ a.s.broken = x.s.broken
    BY <1>1, <1>2, AdvanceIs
  <1>4. b \in Worlds /\ b.d = x.d /\ b.s.month = x.s.month /\ b.s.broken = TRUE /\ Break(x).ok = FALSE
    BY <1>1, BreakIs
  <1>5. Fit(a) /\ Fit(b)
    BY <1>1, <1>3, <1>4 DEF Fit
  <1>6. Solo(w) => Solo(a) /\ Solo(b) /\ Grows(w.d, a.d) /\ Grows(w.d, b.d)
    BY <1>3, <1>4 DEF Wrote, Solo
  <1>7. Solo(w) /\ Tied(w) /\ ~w.s.broken => Tied(a) /\ Tied(b)
    <2>. SUFFICES ASSUME Solo(w), Tied(w), ~w.s.broken PROVE Tied(a) /\ Tied(b)
      OBVIOUS
    <2>1. Whole(x.d) /\ x.d.torn = 0 /\ LineAt(x.d.files, Intact(x.d.files)) = line
      BY WroteChained
    <2>. QED  BY <1>3, <1>4, <2>1 DEF Tied, Linked, AtEnd
  <1>8. a.s.broken = w.s.broken /\ w.d.newest <= a.d.newest /\ w.d.newest <= b.d.newest
    BY <1>3, <1>4, FitIs, WorldTyped DEF Wrote
  <1>. QED  BY <1>4, <1>5, <1>6, <1>7, <1>8 DEF Sound, Returns

LEMMA WroteHolds ==
  ASSUME NEW w, Fit(w), Solo(w), NEW n \in Nat, NEW line,
         line = Line(w.s.seq + 1, w.s.head, Event(n)), NEW x, Wrote(w, x, line)
  PROVE  /\ Holds(x.d, n)
         /\ x.d.synced[w.s.month] = Len(x.d.files[w.s.month]) => HoldsHard(x.d, n)
  <1>1. /\ w \in Worlds /\ w.d.files \in Archives /\ w.s.month \in Months
        /\ w.s.seq \in Nat /\ w.s.head \in Hashes
    BY FitIs, WorldTyped
  <1>2. Event(n) \in EventBodies
    BY DEF Event, EventBodies
  <1>3. line \in Lines /\ line.seq = w.s.seq + 1 /\ line.body = Event(n)
    <2>1. w.s.seq + 1 \in Nat
      BY <1>1
    <2>. QED  BY <1>1, <1>2, <2>1, LineTyped
  <1>4. IsWellFormed(line)
    BY <1>1, <1>3 DEF IsWellFormed
  <1>. PICK files, m : files = w.d.files /\ m = w.s.month
    OBVIOUS
  <1>. PICK i : i = Len(files[m]) + 1
    OBVIOUS
  <1>5. /\ Longer(files, m, line)[m] = Append(files[m], line) /\ Longer(files, m, line)[m][i] = line
        /\ Len(Longer(files, m, line)[m]) = i
    BY <1>1, <1>3, OneMoreLine
  <1>6. i \in Nat /\ i \in DOMAIN Append(files[m], line)
    <2>1. files[m] \in Seq(Lines)
      BY <1>1 DEF Archives
    <2>. QED  BY <1>3, <2>1, AppendProperties
  <1>7. x.d.files[m][i] = line /\ i \in DOMAIN x.d.files[m] /\ Len(x.d.files[m]) = i
    BY <1>5, <1>6 DEF Wrote
  <1>8. Holds(x.d, n)
    BY <1>1, <1>3, <1>4, <1>7 DEF Holds
  <1>9. x.d.synced[m] = Len(x.d.files[m]) => HoldsHard(x.d, n)
    <2>. SUFFICES ASSUME x.d.synced[m] = Len(x.d.files[m]) PROVE HoldsHard(x.d, n)
      OBVIOUS
    <2>1. i <= x.d.synced[m]
      BY <1>6, <1>7
    <2>. QED  BY <1>1, <1>3, <1>4, <1>7, <2>1 DEF HoldsHard
  <1>. QED  BY <1>8, <1>9

LEMMA CutSound ==
  ASSUME ShortWrites, NEW w, Fit(w), NEW x, Steady(CutShort(w), x), NEW line,
         line.seq \in Nat, line.hash \in Hashes
  PROVE  Sound(w, Returns(Advance(x, line))) /\ Sound(w, Break(x))
  <1>1. /\ Moves(CutShort(w), x) /\ CutShort(w).s.broken = w.s.broken
        /\ CutShort(w).d.newest = w.d.newest
    BY CutShortFits, SteadyMoves
  <1>2. Fit(x) /\ x \in Worlds /\ x.s.broken = w.s.broken /\ w.d.newest <= x.d.newest
    BY <1>1 DEF Moves, Fit
  <1>3. /\ Advance(x, line) \in Worlds /\ Advance(x, line).d = x.d
        /\ Advance(x, line).s.month = x.s.month /\ Advance(x, line).s.broken = w.s.broken
    BY <1>2, AdvanceIs
  <1>4. /\ Break(x).ok = FALSE /\ Break(x).w \in Worlds /\ Break(x).w.d = x.d
        /\ Break(x).w.s.month = x.s.month
    BY <1>2, BreakIs
  <1>. QED  BY <1>2, <1>3, <1>4 DEF Sound, Returns, Fit

LEMMA BreakSound ==
  ASSUME NEW w, Fit(w)
  PROVE  Sound(w, Break(w))
  <1>. PICK b : b = Break(w).w
    OBVIOUS
  <1>1. w \in Worlds /\ b \in Worlds /\ b.d = w.d /\ b.s.month = w.s.month /\ b.s.broken = TRUE /\ Break(w).ok = FALSE
    BY FitIs, BreakIs
  <1>2. Grows(w.d, w.d)
    <2>1. w.d.newest <= w.d.newest /\ \A m \in Months : w.d.synced[m] <= w.d.synced[m]
      BY <1>1, WorldTyped
    <2>. QED  BY <2>1 DEF Grows
  <1>3. Fit(b) /\ (Solo(w) => Solo(b)) /\ (Tied(w) => Tied(b))
    BY <1>1 DEF Fit, Solo, Tied, Linked
  <1>. QED  BY <1>1, <1>2, <1>3 DEF Sound, Grows

\* Every way in which the write of a line may end.
LEMMA WriteLineIs ==
  ASSUME NEW w, Fit(w), NEW body \in EventBodies, NEW immediate \in BOOLEAN,
         NEW r \in WriteLine(w, body, immediate), NEW line, line = Line(w.s.seq + 1, w.s.head, body)
  PROVE  \/ r = Break(w)
         \/ \E v \in {Written(w, line)} \cup (IF ShortWrites THEN {CutShort(w)} ELSE {}) :
              \E x : /\ Steady(v, x)
                     /\ \/ r = Break(x)
                        \/ /\ r = Returns(Advance(x, line))
                           /\ immediate => x.d.synced[v.s.month] = Len(x.d.files[v.s.month])
  <1>. DEFINE written == {Written(w, line)} \cup (IF ShortWrites THEN {CutShort(w)} ELSE {})
  <1>1. \/ r = Break(w)
        \/ \E v \in written : /\ immediate
                              /\ r = Returns(Advance([Fsync(v) EXCEPT !.s.timer = FALSE], line))
        \/ \E v \in written : immediate /\ r = Break(v)
        \/ \E v \in written : ~immediate /\ r = Returns(Advance([v EXCEPT !.s.timer = TRUE], line))
    BY DEF WriteLine
  <1>2. line \in Lines
    BY FitIs, WorldTyped, LineTyped
  <1>3. ASSUME NEW v \in written
        PROVE  /\ v \in Worlds /\ \A m \in Months : v.d.synced[m] <= Len(v.d.files[m])
               /\ Steady(v, v)
    <2>1. Fit(v)
      BY <1>2, WrittenIs, CutShortFits
    <2>2. v \in Worlds /\ \A m \in Months : v.d.synced[m] <= Len(v.d.files[m]) /\ v.d.synced[m] <= v.d.synced[m]
      BY <2>1, FitIs, WorldTyped
    <2>. QED  BY <2>2 DEF Steady
  <1>4. ASSUME NEW v \in written, r = Returns(Advance([Fsync(v) EXCEPT !.s.timer = FALSE], line))
        PROVE  \E x : /\ Steady(v, x) /\ r = Returns(Advance(x, line))
                      /\ x.d.synced[v.s.month] = Len(x.d.files[v.s.month])
    <2>. PICK x : x = [Fsync(v) EXCEPT !.s.timer = FALSE]
      OBVIOUS
    <2>1. /\ Steady(v, Fsync(v))
          /\ Fsync(v).d.synced[v.s.month] = Len(v.d.files[v.s.month])
      BY <1>3, FsyncSteady
    <2>2. Steady(v, x)
      BY <1>3, <2>1, SteadyTurns
    <2>3. x.d = Fsync(v).d
      BY <2>1 DEF Steady, Worlds
    <2>4. x.d.synced[v.s.month] = Len(x.d.files[v.s.month])
      BY <2>1, <2>3 DEF Steady
    <2>. QED  BY <1>4, <2>2, <2>4
  <1>5. ASSUME NEW v \in written, r = Returns(Advance([v EXCEPT !.s.timer = TRUE], line))
        PROVE  \E x : Steady(v, x) /\ r = Returns(Advance(x, line))
    <2>. PICK x : x = [v EXCEPT !.s.timer = TRUE]
      OBVIOUS
    <2>1. Steady(v, x)
      BY <1>3, SteadyTurns
    <2>. QED  BY <1>5, <2>1
  <1>. HIDE DEF written
  <1>6. \/ r = Break(w)
        \/ \E v \in written :
              \E x : /\ Steady(v, x)
                     /\ \/ r = Break(x)
                        \/ /\ r = Returns(Advance(x, line))
                           /\ immediate => x.d.synced[v.s.month] = Len(x.d.files[v.s.month])
    <2>1. CASE \E v \in written : r = Break(v)
      BY <1>3, <2>1
    <2>2. CASE \E v \in written : r = Returns(Advance([Fsync(v) EXCEPT !.s.timer = FALSE], line))
      BY <1>4, <2>2
    <2>3. CASE \E v \in written : ~immediate /\ r = Returns(Advance([v EXCEPT !.s.timer = TRUE], line))
      BY <1>5, <2>3
    <2>. QED  BY <1>1, <2>1, <2>2, <2>3
  <1>. QED  BY <1>6 DEF written

LEMMA WriteLineSound ==
  ASSUME NEW w, Fit(w), NEW body \in EventBodies, NEW immediate \in BOOLEAN,
         NEW r \in WriteLine(w, body, immediate)
  PROVE  Sound(w, r)
  <1>. PICK line : line = Line(w.s.seq + 1, w.s.head, body)
    OBVIOUS
  <1>1. line \in Lines /\ line.seq \in Nat /\ line.hash \in Hashes
    <2>1. w.s.seq + 1 \in Nat /\ w.s.head \in Hashes
      BY FitIs, WorldTyped
    <2>. QED  BY <2>1, LineTyped
  <1>2. CASE r = Break(w)
    BY <1>2, BreakSound
  <1>3. ASSUME NEW v \in {Written(w, line)} \cup (IF ShortWrites THEN {CutShort(w)} ELSE {}),
               NEW x, Steady(v, x), r = Break(x) \/ r = Returns(Advance(x, line))
        PROVE  Sound(w, r)
    <2>1. CASE v = Written(w, line)
      <3>1. Wrote(w, x, line)
        BY <1>1, <1>3, <2>1, WroteIs
      <3>. QED  BY <1>3, <3>1, WroteSound
    <2>2. CASE ShortWrites /\ v = CutShort(w)
      BY <1>1, <1>3, <2>2, CutSound
    <2>. QED  BY <1>3, <2>1, <2>2
  <1>. QED  BY <1>2, <1>3, WriteLineIs

LEMMA WriteLineRecords ==
  ASSUME NEW w, Fit(w), ~ShortWrites, Solo(w), NEW n \in Nat, NEW immediate \in BOOLEAN,
         NEW r \in WriteLine(w, Event(n), immediate)
  PROVE  Records(r, n, immediate)
  <1>. PICK line : line = Line(w.s.seq + 1, w.s.head, Event(n))
    OBVIOUS
  <1>0. Event(n) \in EventBodies
    BY DEF Event, EventBodies
  <1>1. w \in Worlds /\ line \in Lines /\ line.seq \in Nat /\ line.hash \in Hashes
    <2>1. w \in Worlds /\ w.s.seq + 1 \in Nat /\ w.s.head \in Hashes
      BY FitIs, WorldTyped
    <2>. QED  BY <1>0, <2>1, LineTyped
  <1>2. CASE r = Break(w)
    BY <1>1, <1>2, BreakIs DEF Records
  <1>3. ASSUME NEW v \in {Written(w, line)} \cup (IF ShortWrites THEN {CutShort(w)} ELSE {}),
               NEW x, Steady(v, x), r = Break(x) \/ r = Returns(Advance(x, line)),
               r = Break(x) \/ (immediate => x.d.synced[v.s.month] = Len(x.d.files[v.s.month]))
        PROVE  Records(r, n, immediate)
    <2>1. v = Written(w, line)
      BY <1>3
    <2>2. Wrote(w, x, line) /\ v.s.month = w.s.month
      BY <1>1, <1>3, <2>1, WroteIs, WrittenIs
    <2>3. x \in Worlds
      BY <1>3 DEF Steady
    <2>4. CASE r = Break(x)
      BY <2>3, <2>4, BreakIs DEF Records
    <2>5. CASE r = Returns(Advance(x, line)) /\ r # Break(x)
      <3>1. Holds(x.d, n) /\ (immediate => HoldsHard(x.d, n))
        BY <1>3, <2>2, <2>5, WroteHolds
      <3>2. r.w.d = x.d
        BY <1>1, <2>3, <2>5, AdvanceIs DEF Returns
      <3>. QED  BY <3>1, <3>2 DEF Records, Holds, HoldsHard
    <2>. QED  BY <1>3, <2>4, <2>5
  <1>. QED  BY <1>0, <1>2, <1>3, WriteLineIs

-----------------------------------------------------------------------------
(* One operation after another. *)

LEMMA SoundOn ==
  ASSUME NEW w, Fit(w), NEW q, Sound(w, q), q.ok, NEW r, Sound(q.w, r)
  PROVE  Sound(w, r)
  <1>1. w.d \in Disks /\ q.w.d \in Disks /\ r.w.d \in Disks
    BY FitIs, WorldTyped DEF Sound
  <1>2. ~ShortWrites /\ Solo(w) => Grows(w.d, r.w.d)
    BY <1>1, GrowsOn DEF Sound
  <1>3. w.d.newest <= r.w.d.newest
    <2>1. w.d.newest \in Nat /\ q.w.d.newest \in Nat /\ r.w.d.newest \in Nat
      BY <1>1 DEF Disks
    <2>. QED  BY <2>1 DEF Sound
  <1>. QED  BY <1>2, <1>3 DEF Sound

LEMMA MovesSound ==
  ASSUME NEW w, Fit(w), NEW r, Moves(w, r.w)
  PROVE  Sound(w, r)
  <1>1. Grows(w.d, r.w.d) /\ (Tied(w) => Tied(r.w))
    BY FitIs, MovesKeeps
  <1>. QED  BY <1>1 DEF Sound, Moves

LEMMA WriteEventRawIs ==
  ASSUME now \in Months, NEW w, Fit(w), NEW body, NEW immediate, NEW r \in WriteEventRaw(w, body, immediate)
  PROVE  \E q \in RotateIfNeeded(w) :
            /\ Sound(w, q)
            /\ Fit(q.w) /\ (Solo(w) => Solo(q.w)) /\ q.w.s.broken = w.s.broken
            /\ IF q.ok THEN r \in WriteLine(q.w, body, immediate) ELSE r = q
  <1>1. PICK q \in RotateIfNeeded(w) : r \in IF q.ok THEN WriteLine(q.w, body, immediate) ELSE {q}
    BY DEF WriteEventRaw
  <1>2. Moves(w, q.w)
    BY RotateMoves
  <1>3. Sound(w, q)
    BY <1>2, MovesSound
  <1>. QED  BY <1>1, <1>2, <1>3 DEF Moves

LEMMA WriteEventRawSound ==
  ASSUME now \in Months, NEW w, Fit(w), NEW body \in EventBodies, NEW immediate \in BOOLEAN,
         NEW r \in WriteEventRaw(w, body, immediate)
  PROVE  Sound(w, r)
  <1>1. PICK q \in RotateIfNeeded(w) :
            /\ Sound(w, q) /\ Fit(q.w)
            /\ IF q.ok THEN r \in WriteLine(q.w, body, immediate) ELSE r = q
    BY WriteEventRawIs
  <1>2. CASE q.ok
    BY <1>1, <1>2, WriteLineSound, SoundOn
  <1>. QED  BY <1>1, <1>2

LEMMA WriteEventRawRecords ==
  ASSUME now \in Months, NEW w, Fit(w), ~ShortWrites, Solo(w), NEW n \in Nat, NEW immediate \in BOOLEAN,
         NEW r \in WriteEventRaw(w, Event(n), immediate)
  PROVE  Records(r, n, immediate)
  <1>1. PICK q \in RotateIfNeeded(w) :
            /\ Fit(q.w) /\ Solo(q.w)
            /\ IF q.ok THEN r \in WriteLine(q.w, Event(n), immediate) ELSE r = q
    BY WriteEventRawIs
  <1>2. CASE q.ok
    BY <1>1, <1>2, WriteLineRecords
  <1>3. CASE ~q.ok
    BY <1>1, <1>3 DEF Records
  <1>. QED  BY <1>2, <1>3

-----------------------------------------------------------------------------
(* Recovery, and the whole of an append. *)

LEMMA LineAtTyped ==
  ASSUME NEW files \in Archives, NEW S, S \subseteq Positions(files)
  PROVE  LineAt(files, S) \in Lines
  <1>1. CASE S = {}
    <2>1. NoLine \in Lines
      <3>1. <<"none", 0>> \in EventBodies /\ <<>> \in Hashes
        BY DEF EventBodies, Hashes
      <3>. QED  BY <3>1 DEF NoLine, Lines, Genesis
    <2>. QED  BY <1>1, <2>1 DEF LineAt
  <1>2. CASE S # {}
    <2>1. LastAt(S) \in Positions(files)
      BY <1>2, LastAtIsIn
    <2>. QED  BY <1>2, <2>1, PositionTyped DEF LineAt
  <1>. QED  BY <1>1, <1>2

LEMMA IntactThere ==
  ASSUME NEW files \in Archives, NEW at \in Intact(files)
  PROVE  at \in Positions(files) /\ at[1] \in Months /\ files[at[1]] # <<>>
  <1>1. at \in Positions(files)
    BY DEF Intact
  <1>2. at[1] \in Months /\ at[2] \in DOMAIN files[at[1]]
    BY <1>1, PositionTyped
  <1>3. files[at[1]] # <<>>
    <2>. SUFFICES ASSUME files[at[1]] = <<>> PROVE FALSE
      OBVIOUS
    <2>. QED  BY <1>2
  <1>. QED  BY <1>1, <1>2, <1>3

\* A fragment that the search leaves is one in an earlier file, and it leaves none
\* if nothing follows it.
LEMMA QuarantineIs ==
  ASSUME NEW d, Formed(d)
  PROVE  /\ QuarantineTornTail(d) \in Disks
         /\ QuarantineTornTail(d).files = d.files /\ QuarantineTornTail(d).synced = d.synced
         /\ QuarantineTornTail(d).newest = d.newest
         /\ QuarantineTornTail(d).torn = 0
              \/ (QuarantineTornTail(d).torn = d.torn /\ d.torn < d.newest)
         /\ Whole(d) => QuarantineTornTail(d).torn = 0
  <1>1. d \in Disks /\ d.files \in Archives /\ d.torn \in Nat /\ d.newest \in Nat
    BY DEF Formed, Disks
  <1>2. CASE \E at \in Intact(d.files) : at[1] > d.torn
    <2>1. PICK at \in Intact(d.files) : at[1] > d.torn
      BY <1>2
    <2>. PICK k : k = at[1]
      OBVIOUS
    <2>2. k \in Months /\ d.files[k] # <<>> /\ k > d.torn
      BY <1>1, <2>1, IntactThere
    <2>3. k <= d.newest
      <3>1. ~(k > d.newest)
        BY <2>2 DEF Formed
      <3>. QED  BY <1>1, <2>2, <3>1, MonthsAreNat
    <2>4. d.torn < d.newest
      BY <1>1, <2>2, <2>3, MonthsAreNat
    <2>5. Whole(d) => d.torn = 0
      BY <2>2 DEF Whole
    <2>6. QuarantineTornTail(d) = d
      BY <1>2 DEF QuarantineTornTail
    <2>. QED  BY <1>1, <2>4, <2>5, <2>6
  <1>3. CASE ~\E at \in Intact(d.files) : at[1] > d.torn
    <2>. PICK q : q = [d EXCEPT !.torn = 0]
      OBVIOUS
    <2>1. /\ q \in Disks /\ q.torn = 0
          /\ q.files = d.files /\ q.synced = d.synced /\ q.newest = d.newest
      BY <1>1 DEF Disks
    <2>2. QuarantineTornTail(d) = q
      BY <1>3 DEF QuarantineTornTail
    <2>. QED  BY <2>1, <2>2
  <1>. QED  BY <1>2, <1>3

\* What a recovery does: lines and fragments as it found them, but for a fragment at
\* the end, which goes; and a sink at the end of the chain, unless it failed.
Recovers(w, r) ==
    /\ r.w \in Worlds /\ Formed(r.w.d) /\ Grows(w.d, r.w.d) /\ r.w.d.files = w.d.files
    /\ Whole(w.d) => Whole(r.w.d)
    /\ r.ok => /\ Fit(r.w) /\ Solo(r.w) /\ ~r.w.s.broken
               /\ Whole(w.d) => Linked(r.w)
    /\ ~r.ok => /\ r.w.s.month = w.s.month /\ r.w.s.broken = w.s.broken
                /\ r.w.d.newest = w.d.newest /\ r.w.d.torn <= w.d.torn

LEMMA FormedGrows ==
  ASSUME NEW d, Formed(d)
  PROVE  Grows(d, d)
  <1>1. d.newest <= d.newest /\ \A m \in Months : d.synced[m] <= d.synced[m]
    BY DEF Formed, Disks, Marks
  <1>. QED  BY <1>1 DEF Grows

LEMMA RecoverIs ==
  ASSUME now \in Months, NEW w \in Worlds, Formed(w.d), NEW r \in RecoverFromBrokenState(w)
  PROVE  Recovers(w, r)
  <1>. PICK last : last = BootstrapChainState(w.d.files)
    OBVIOUS
  <1>. PICK d : d = QuarantineTornTail(w.d)
    OBVIOUS
  <1>. PICK searched :
          searched = [w EXCEPT !.d = QuarantineTornTail(@), !.s.seq = last.seq, !.s.head = last.hash]
    OBVIOUS
  <1>. PICK opened : opened = OpenCurrentFile(searched)
    OBVIOUS
  <1>. PICK v : v = [opened EXCEPT !.s.broken = FALSE]
    OBVIOUS
  <1>0. r \in {Throws(w), Throws(searched), Returns(v)}
    BY DEF RecoverFromBrokenState
  <1>1. /\ w.d \in Disks /\ w.s \in Sinks /\ w.d.torn \in Nat /\ w.d.newest \in Nat
        /\ now \in Nat /\ w.d.files \in Archives
    BY WorldTyped, MonthsAreNat
  <1>2. last \in Lines /\ last = LineAt(w.d.files, Intact(w.d.files))
    BY <1>1, LineAtTyped DEF BootstrapChainState, Intact
  <1>3. /\ d \in Disks /\ d.files = w.d.files /\ d.synced = w.d.synced /\ d.newest = w.d.newest
        /\ d.torn = 0 \/ (d.torn = w.d.torn /\ w.d.torn < w.d.newest)
        /\ Whole(w.d) => d.torn = 0
    BY QuarantineIs
  <1>4. /\ searched \in Worlds /\ searched.d = d
        /\ searched.s.seq = last.seq /\ searched.s.head = last.hash
        /\ searched.s.month = w.s.month /\ searched.s.broken = w.s.broken
    <2>. PICK t : t = [w.s EXCEPT !.seq = last.seq, !.head = last.hash]
      OBVIOUS
    <2>1. /\ t \in Sinks /\ t.seq = last.seq /\ t.head = last.hash
          /\ t.month = w.s.month /\ t.broken = w.s.broken
      BY <1>1, <1>2 DEF Sinks, Lines
    <2>2. searched = [w EXCEPT !.d = d, !.s = t]
      BY <1>1 DEF Worlds
    <2>. QED  BY <1>1, <1>3, <2>1, <2>2 DEF Worlds
  <1>5. d.torn < now /\ d.torn <= w.d.torn /\ d.torn <= d.newest /\ d.newest <= now
    <2>1. now > 0
      BY DEF Months
    <2>. QED  BY <1>1, <1>3, <2>1 DEF Formed
  <1>6. Formed(d)
    BY <1>3, <1>5 DEF Formed
  <1>7. Grows(w.d, d) /\ (Whole(w.d) => Whole(d))
    BY <1>3, FormedGrows DEF Grows, Whole
  <1>8. CASE r = Throws(w)
    BY <1>1, <1>8, FormedGrows DEF Recovers, Throws
  <1>9. CASE r = Throws(searched)
    BY <1>3, <1>4, <1>5, <1>6, <1>7, <1>9 DEF Recovers, Throws
  <1>10. CASE r = Returns(v)
    <2>1. Moves(searched, opened) /\ Solo(opened)
      BY <1>4, <1>5, <1>6, OpenMoves
    <2>2. opened \in Worlds /\ Fit(opened)
      BY <2>1 DEF Moves, Fit
    <2>3. /\ v \in Worlds /\ v.d = opened.d /\ v.s.month = opened.s.month
          /\ v.s.seq = opened.s.seq /\ v.s.head = opened.s.head /\ v.s.broken = FALSE
      <3>. PICK t : t = [opened.s EXCEPT !.broken = FALSE]
        OBVIOUS
      <3>1. /\ t \in Sinks /\ t.seq = opened.s.seq /\ t.head = opened.s.head
            /\ t.month = opened.s.month /\ t.broken = FALSE
        BY <2>2, WorldTyped DEF Sinks
      <3>2. v = [opened EXCEPT !.s = t]
        BY <2>2 DEF Worlds
      <3>. QED  BY <2>2, <3>1, <3>2 DEF Worlds
    <2>4. Fit(v) /\ Solo(v) /\ ~v.s.broken
      BY <2>1, <2>2, <2>3 DEF Fit, Solo
    <2>5. Grows(w.d, v.d)
      <3>1. Grows(d, v.d)
        BY <1>4, <2>1, <2>3, MovesKeeps
      <3>. QED  BY <1>1, <1>3, <1>7, <2>3, <3>1, GrowsOn, WorldTyped
    <2>6. v.d.files = w.d.files /\ v.d.torn = d.torn
      BY <1>3, <1>4, <2>1, <2>3 DEF Moves
    <2>7. Whole(w.d) => Whole(v.d) /\ Linked(v)
      <3>1. v.s.seq = last.seq /\ v.s.head = last.hash
        BY <1>4, <2>1, <2>3 DEF Moves
      <3>. QED  BY <1>2, <1>3, <2>6, <3>1 DEF Whole, Linked, AtEnd
    <2>8. r.w = v /\ r.ok = TRUE
      BY <1>10 DEF Returns
    <2>9. v \in Worlds /\ Formed(v.d)
      BY <2>3, <2>4 DEF Fit
    <2>. QED  BY <2>4, <2>5, <2>6, <2>7, <2>8, <2>9 DEF Recovers
  <1>. QED  BY <1>0, <1>8, <1>9, <1>10

LEMMA RecoverySound ==
  ASSUME now \in Months, NEW w, Fit(w), w.s.broken, NEW r \in RecoverFromBrokenState(w)
  PROVE  /\ Fit(r.w) /\ Grows(w.d, r.w.d)
         /\ r.ok => ~r.w.s.broken
         /\ Solo(w) => Solo(r.w)
         /\ Tied(w) => Tied(r.w)
  <1>1. w \in Worlds /\ Formed(w.d)
    BY DEF Fit
  <1>2. Recovers(w, r)
    BY <1>1, RecoverIs
  <1>3. CASE r.ok
    BY <1>2, <1>3 DEF Recovers, Tied
  <1>4. CASE ~r.ok
    <2>1. /\ r.w \in Worlds /\ r.w.s.month = w.s.month /\ r.w.s.broken = w.s.broken
          /\ r.w.d.newest = w.d.newest /\ r.w.d.torn <= w.d.torn
          /\ Grows(w.d, r.w.d) /\ (Whole(w.d) => Whole(r.w.d))
      BY <1>2, <1>4 DEF Recovers
    <2>2. /\ r.w.d.torn \in Nat /\ w.d.torn \in Nat /\ w.s.month \in Nat
      BY <1>1, <2>1, WorldTyped
    <2>3. Solo(w) => Solo(r.w)
      BY <2>1, <2>2 DEF Solo
    <2>4. Tied(w) => Tied(r.w)
      BY <2>1, <2>2 DEF Tied, Linked
    <2>5. Fit(r.w)
      BY <1>2, <2>1, FitIs DEF Recovers, Fit
    <2>. QED  BY <1>4, <2>1, <2>3, <2>4, <2>5
  <1>. QED  BY <1>3, <1>4

LEMMA WriteMarkedSound ==
  ASSUME now \in Months, NEW w, Fit(w), NEW n \in Nat, NEW immediate \in BOOLEAN,
         NEW r \in WriteMarked(w, n, immediate)
  PROVE  Sound(w, r) /\ (~ShortWrites /\ Solo(w) => Records(r, n, immediate))
  <1>1. PICK q \in WriteEventRaw(w, Recovered(w.s.seq), FALSE) :
           r \in IF q.ok THEN WriteEventRaw(q.w, Event(n), immediate) ELSE {q}
    BY DEF WriteMarked
  <1>2. Recovered(w.s.seq) \in EventBodies /\ Event(n) \in EventBodies
    BY FitIs, WorldTyped DEF Recovered, Event, EventBodies
  <1>3. Sound(w, q)
    BY <1>1, <1>2, WriteEventRawSound
  <1>4. CASE q.ok
    <2>1. r \in WriteEventRaw(q.w, Event(n), immediate) /\ Fit(q.w)
      BY <1>1, <1>3, <1>4 DEF Sound
    <2>2. Sound(q.w, r)
      BY <1>2, <2>1, WriteEventRawSound
    <2>3. ~ShortWrites /\ Solo(w) => Records(r, n, immediate)
      BY <1>3, <2>1, WriteEventRawRecords DEF Sound
    <2>. QED  BY <1>3, <1>4, <2>2, <2>3, SoundOn
  <1>5. CASE ~q.ok
    BY <1>1, <1>3, <1>5 DEF Records
  <1>. QED  BY <1>4, <1>5

\* What an append does, whichever of its system calls fail.
LEMMA AppendSound ==
  ASSUME now \in Months, NEW w, Fit(w), NEW n \in Nat, NEW immediate \in BOOLEAN,
         NEW r \in AppendOutcomes(w, n, immediate)
  PROVE  /\ Fit(r.w) /\ w.d.newest <= r.w.d.newest
         /\ ~ShortWrites /\ Solo(w) => /\ Solo(r.w) /\ Grows(w.d, r.w.d)
                                       /\ Records(r, n, immediate)
                                       /\ Tied(w) => Tied(r.w)
  <1>1. CASE w.s.broken
    <2>1. PICK q \in RecoverFromBrokenState(w) :
             r \in IF q.ok THEN WriteMarked(q.w, n, immediate) ELSE {q}
      BY <1>1 DEF AppendOutcomes
    <2>2. /\ Fit(q.w) /\ Grows(w.d, q.w.d)
          /\ q.ok => ~q.w.s.broken
          /\ Solo(w) => Solo(q.w)
          /\ Tied(w) => Tied(q.w)
      BY <1>1, RecoverySound
    <2>3. CASE q.ok
      <3>1. r \in WriteMarked(q.w, n, immediate)
        BY <2>1, <2>3
      <3>2. Sound(q.w, r) /\ (~ShortWrites /\ Solo(q.w) => Records(r, n, immediate))
        BY <2>2, <3>1, WriteMarkedSound
      <3>3. w.d \in Disks /\ q.w.d \in Disks /\ r.w.d \in Disks
        BY <2>2, <3>2, FitIs, WorldTyped DEF Sound
      <3>4. ~ShortWrites /\ Solo(w) => Grows(w.d, r.w.d)
        BY <2>2, <3>2, <3>3, GrowsOn DEF Sound
      <3>5. w.d.newest <= r.w.d.newest
        <4>1. w.d.newest \in Nat /\ q.w.d.newest \in Nat /\ r.w.d.newest \in Nat
          BY <3>3 DEF Disks
        <4>. QED  BY <2>2, <3>2, <4>1 DEF Sound, Grows
      <3>. QED  BY <2>2, <2>3, <3>2, <3>4, <3>5 DEF Sound
    <2>4. CASE ~q.ok
      BY <2>1, <2>2, <2>4 DEF Records, Grows
    <2>. QED  BY <2>3, <2>4
  <1>2. CASE ~w.s.broken
    <2>1. Event(n) \in EventBodies
      BY DEF Event, EventBodies
    <2>2. r \in WriteEventRaw(w, Event(n), immediate)
      BY <1>2 DEF AppendOutcomes
    <2>3. Sound(w, r)
      BY <2>1, <2>2, WriteEventRawSound
    <2>4. ~ShortWrites /\ Solo(w) => Records(r, n, immediate)
      BY <2>2, WriteEventRawRecords
    <2>. QED  BY <1>2, <2>3, <2>4 DEF Sound
  <1>. QED  BY <1>1, <1>2

-----------------------------------------------------------------------------
(* Types. *)

LEMMA WorldsFit ==
  ASSUME Typed, NEW p \in Proc
  PROVE  /\ World(p) \in Worlds /\ World(p).d = disk /\ World(p).s = sink[p]
         /\ disk \in Disks /\ sink[p] \in Sinks /\ now \in Months /\ Formed(World(p).d)
         /\ pc[p] = "open" => Fit(World(p))
  <1>1. disk \in Disks /\ sink[p] \in Sinks /\ Formed(disk)
    BY DEF Typed, Formed
  <1>2. World(p) \in Worlds /\ World(p).d = disk /\ World(p).s = sink[p]
    BY <1>1 DEF World, Worlds
  <1>3. pc[p] = "open" => Fit(World(p))
    BY <1>1, <1>2 DEF Fit, Typed
  <1>. QED  BY <1>1, <1>2, <1>3 DEF Typed

\* What a step of p does to the disk and to the sinks, whatever else it does.
Leaves(p) ==
    /\ now' = now /\ Formed(disk)' /\ disk.newest <= disk'.newest
    /\ \E t \in Sinks : /\ sink' = [sink EXCEPT ![p] = t]
                        /\ pc'[p] = "open" => t.month <= disk'.newest

LEMMA LeavesSame ==
  ASSUME Typed, NEW p \in Proc, UNCHANGED <<disk, sink, now>>, pc'[p] = "open" => pc[p] = "open"
  PROVE  Leaves(p)
  <1>1. Formed(disk)' /\ disk.newest <= disk'.newest
    BY DEF Typed, Formed, Disks
  <1>2. sink' = [sink EXCEPT ![p] = sink[p]] /\ sink[p] \in Sinks
    BY DEF Typed
  <1>. QED  BY <1>1, <1>2 DEF Leaves, Typed

\* A flush leaves the disk that an Fsync leaves, or the one it found.
LEMMA FlushedIs ==
  ASSUME Typed, NEW p \in Proc, pc[p] = "open", now' = now,
         disk' = disk \/ disk' = Fsync(World(p)).d
  PROVE  /\ Formed(disk)' /\ disk'.newest = disk.newest
         /\ disk'.files = disk.files /\ disk'.torn = disk.torn
         /\ Grows(disk, disk')
  <1>. PICK w : w = World(p)
    OBVIOUS
  <1>1. Fit(w) /\ w.d = disk /\ w \in Worlds /\ Formed(disk)
    BY WorldsFit DEF Typed
  <1>2. CASE disk' = disk
    BY <1>1, <1>2, FormedGrows DEF Formed
  <1>3. CASE disk' = Fsync(World(p)).d
    <2>1. Steady(w, Fsync(w))
      BY <1>1, FsyncSteady, FitIs
    <2>2. Moves(w, Fsync(w))
      BY <1>1, <2>1, SteadyMoves
    <2>3. Formed(Fsync(w).d) /\ Grows(w.d, Fsync(w).d)
      BY <1>1, <2>2, MovesKeeps DEF Moves, Fit
    <2>. QED  BY <1>1, <1>3, <2>1, <2>3 DEF Steady, Formed
  <1>. QED  BY <1>2, <1>3

LEMMA FsyncAttemptIs ==
  ASSUME Typed, NEW p \in Proc, pc[p] = "open", now' = now, pc' = pc,
         FsyncAttempt(p, [sink[p] EXCEPT !.timer = FALSE])
  PROVE  /\ Leaves(p)
         /\ disk' = disk \/ disk' = Fsync(World(p)).d
         /\ sink'[p].seq = sink[p].seq /\ sink'[p].head = sink[p].head
         /\ sink'[p].month = sink[p].month
         /\ sink[p].broken => sink'[p].broken
  <1>. PICK after : after = [sink[p] EXCEPT !.timer = FALSE]
    OBVIOUS
  <1>1. PICK t : /\ sink' = [sink EXCEPT ![p] = t]
                 /\ disk' = disk \/ disk' = Fsync(World(p)).d
                 /\ t \in {[after EXCEPT !.dirty = FALSE], [after EXCEPT !.broken = TRUE]}
    BY DEF FsyncAttempt
  <1>2. sink[p] \in Sinks
    BY DEF Typed
  <1>3. /\ after \in Sinks /\ after.seq = sink[p].seq /\ after.head = sink[p].head
        /\ after.month = sink[p].month /\ after.broken = sink[p].broken
    BY <1>2 DEF Sinks
  <1>4. /\ t \in Sinks /\ t.seq = sink[p].seq /\ t.head = sink[p].head
        /\ t.month = sink[p].month /\ (sink[p].broken => t.broken)
    BY <1>1, <1>3 DEF Sinks
  <1>5. sink'[p] = t
    BY <1>1 DEF Typed
  <1>6. Formed(disk)' /\ disk'.newest = disk.newest /\ disk.newest <= disk'.newest
    <2>1. Formed(disk)' /\ disk'.newest = disk.newest
      BY <1>1, FlushedIs
    <2>. QED  BY <2>1 DEF Typed, Formed, Disks
  <1>7. pc[p] = "open" => t.month <= disk'.newest
    BY <1>4, <1>6 DEF Typed
  <1>. QED  BY <1>1, <1>4, <1>5, <1>6, <1>7 DEF Leaves

LEMMA AppendLeaves ==
  ASSUME Typed, NEW p \in Proc, NEW immediate \in BOOLEAN, AppendEvent(p, immediate)
  PROVE  /\ Leaves(p)
         /\ issued + 1 \in 1 .. MaxEvents
         /\ \E r \in AppendOutcomes(World(p), issued + 1, immediate) :
              /\ disk' = r.w.d /\ sink'[p] = r.w.s /\ r.w = [d |-> disk', s |-> sink'[p]]
              /\ acked' = IF r.ok THEN acked \cup {issued + 1} ELSE acked
              /\ hard' = IF r.ok /\ immediate THEN hard \cup {issued + 1} ELSE hard
              /\ Fit(World(p)) /\ now \in Months /\ issued + 1 \in Nat
              /\ Fit(r.w)
  <1>1. PICK r \in AppendOutcomes(World(p), issued + 1, immediate) :
              /\ disk' = r.w.d
              /\ sink' = [sink EXCEPT ![p] = r.w.s]
              /\ acked' = IF r.ok THEN acked \cup {issued + 1} ELSE acked
              /\ hard' = IF r.ok /\ immediate THEN hard \cup {issued + 1} ELSE hard
    BY DEF AppendEvent
  <1>2. /\ pc[p] = "open" /\ issued < MaxEvents /\ now' = now /\ pc' = pc
    BY DEF AppendEvent
  <1>3. issued + 1 \in 1 .. MaxEvents /\ issued + 1 \in Nat
    BY <1>2, BoundAssumption DEF Typed
  <1>4. Fit(World(p)) /\ World(p).d = disk /\ now \in Months
    BY <1>2, WorldsFit
  <1>5. Fit(r.w) /\ disk.newest <= r.w.d.newest
    BY <1>3, <1>4, AppendSound
  <1>6. Formed(disk)' /\ r.w.s \in Sinks /\ r.w.s.month <= disk'.newest
    BY <1>1, <1>2, <1>5, WorldTyped DEF Fit, Formed
  <1>7. sink'[p] = r.w.s
    BY <1>1 DEF Typed
  <1>8. r.w = [d |-> disk', s |-> sink'[p]]
    BY <1>1, <1>5, <1>7 DEF Fit, Worlds
  <1>9. Leaves(p)
    BY <1>1, <1>2, <1>5, <1>6 DEF Leaves
  <1>. QED  BY <1>1, <1>3, <1>4, <1>5, <1>7, <1>8, <1>9

LEMMA OpenLeaves ==
  ASSUME Typed, NEW p \in Proc, OpenLog(p)
  PROVE  /\ Leaves(p)
         /\ \E r \in RecoverFromBrokenState(World(p)) :
              /\ Recovers(World(p), r) /\ disk' = r.w.d
              /\ \/ /\ r.ok /\ pc' = [pc EXCEPT ![p] = "open"] /\ lock' = lock
                    /\ r.w = [d |-> disk', s |-> sink'[p]]
                 \/ pc' = [pc EXCEPT ![p] = "gone"] /\ lock' = NoLock
  <1>1. PICK r \in RecoverFromBrokenState(World(p)) :
              /\ disk' = r.w.d
              /\ \/ /\ r.ok /\ pc' = [pc EXCEPT ![p] = "open"] /\ lock' = lock
                    /\ sink' = [sink EXCEPT ![p] = r.w.s]
                 \/ pc' = [pc EXCEPT ![p] = "gone"] /\ lock' = NoLock /\ sink' = sink
    BY DEF OpenLog, Goto
  <1>2. now' = now /\ pc[p] = "owner"
    BY DEF OpenLog
  <1>3. Recovers(World(p), r) /\ World(p).d = disk
    BY RecoverIs, WorldsFit
  <1>4. /\ r.w \in Worlds /\ Formed(r.w.d) /\ disk.newest <= r.w.d.newest
        /\ r.ok => r.w.s.month <= r.w.d.newest
    BY <1>3 DEF Recovers, Grows, Fit
  <1>5. Formed(disk)' /\ r.w.s \in Sinks /\ sink[p] \in Sinks
    BY <1>1, <1>2, <1>4, WorldTyped DEF Formed, Typed
  <1>6. CASE r.ok /\ pc' = [pc EXCEPT ![p] = "open"] /\ lock' = lock /\ sink' = [sink EXCEPT ![p] = r.w.s]
    <2>1. Leaves(p)
      BY <1>1, <1>2, <1>4, <1>5, <1>6 DEF Leaves
    <2>2. r.w = [d |-> disk', s |-> sink'[p]]
      BY <1>1, <1>4, <1>6 DEF Typed, Worlds
    <2>. QED  BY <1>1, <1>3, <1>6, <2>1, <2>2
  <1>7. CASE pc' = [pc EXCEPT ![p] = "gone"] /\ lock' = NoLock /\ sink' = sink
    <2>1. sink' = [sink EXCEPT ![p] = sink[p]] /\ pc'[p] # "open"
      BY <1>7 DEF Typed
    <2>2. Leaves(p)
      BY <1>1, <1>2, <1>4, <1>5, <2>1 DEF Leaves
    <2>. QED  BY <1>1, <1>3, <1>7, <2>2
  <1>. QED  BY <1>1, <1>6, <1>7

LEMMA NoSinkTyped == NoSink \in Sinks
  <1>1. 1 \in Months /\ <<>> \in Hashes
    BY BoundAssumption DEF Months, Hashes
  <1>. QED  BY <1>1 DEF NoSink, Sinks, Genesis

LEMMA CloseLeaves ==
  ASSUME Typed, NEW p \in Proc, Close(p)
  PROVE  /\ Leaves(p)
         /\ pc[p] = "open" /\ pc' = [pc EXCEPT ![p] = "gone"] /\ lock' = NoLock
         /\ disk' = disk \/ disk' = Fsync(World(p)).d
  <1>1. /\ pc[p] = "open" /\ pc' = [pc EXCEPT ![p] = "gone"] /\ lock' = NoLock /\ now' = now
        /\ disk' = disk \/ disk' = Fsync(World(p)).d
        /\ sink' = [sink EXCEPT ![p] = NoSink]
    BY DEF Close, Goto
  <1>2. Formed(disk)' /\ disk.newest <= disk'.newest
    <2>1. Formed(disk)' /\ disk'.newest = disk.newest
      BY <1>1, FlushedIs
    <2>. QED  BY <2>1 DEF Typed, Formed, Disks
  <1>3. pc'[p] # "open"
    BY <1>1 DEF Typed
  <1>. QED  BY <1>1, <1>2, <1>3, NoSinkTyped DEF Leaves

LEMMA CrashLeaves ==
  ASSUME Typed, NEW p \in Proc, Crash(p)
  PROVE  /\ Leaves(p)
         /\ pc' = [pc EXCEPT ![p] = "gone"]
         /\ \/ disk' = disk
            \/ /\ pc[p] = "open" /\ disk.torn = 0 /\ sink[p].month = now
               /\ disk' = [disk EXCEPT !.torn = now] /\ disk'.torn = now
         /\ disk'.files = disk.files /\ disk'.synced = disk.synced /\ disk'.newest = disk.newest
  <1>1. /\ pc' = [pc EXCEPT ![p] = "gone"] /\ now' = now
        /\ sink' = [sink EXCEPT ![p] = NoSink]
        /\ \/ disk' = disk
           \/ /\ pc[p] = "open" /\ disk.torn = 0 /\ sink[p].month = now
              /\ disk' = [disk EXCEPT !.torn = now]
    BY DEF Crash, Goto
  <1>2. /\ disk \in Disks /\ disk.torn \in Nat /\ disk.newest \in Nat /\ now \in Nat /\ now \in Months
        /\ disk.torn <= disk.newest /\ disk.newest <= now
        /\ \A m \in Months : disk.synced[m] <= Len(disk.files[m]) /\ (m > disk.newest => disk.files[m] = <<>>)
    BY MonthsAreNat DEF Typed, Formed, Disks
  <1>3. pc'[p] # "open"
    BY <1>1 DEF Typed
  <1>4. CASE disk' = disk
    <2>1. Formed(disk)' /\ disk.newest <= disk'.newest
      BY <1>1, <1>2, <1>4 DEF Formed
    <2>. QED  BY <1>1, <1>3, <1>4, <2>1, NoSinkTyped DEF Leaves
  <1>5. CASE pc[p] = "open" /\ disk.torn = 0 /\ sink[p].month = now /\ disk' = [disk EXCEPT !.torn = now]
    <2>1. /\ disk' \in Disks /\ disk'.torn = now
          /\ disk'.files = disk.files /\ disk'.synced = disk.synced /\ disk'.newest = disk.newest
      BY <1>2, <1>5 DEF Disks
    <2>2. now <= disk.newest
      BY <1>5 DEF Typed
    <2>3. Formed(disk)' /\ disk.newest <= disk'.newest
      BY <1>1, <1>2, <2>1, <2>2 DEF Formed
    <2>. QED  BY <1>1, <1>3, <1>5, <2>1, <2>3, NoSinkTyped DEF Leaves
  <1>. QED  BY <1>1, <1>4, <1>5

\* What a loss of power leaves: of each file a beginning, with all that was flushed.
LEMMA PowerLossIs ==
  ASSUME Typed, PowerLoss
  PROVE  \E keep \in Marks :
           /\ disk' \in Disks /\ disk'.synced = disk.synced /\ disk'.newest = disk.newest
           /\ \A m \in Months :
                /\ disk.synced[m] <= keep[m] /\ keep[m] <= Len(disk.files[m])
                /\ DOMAIN disk'.files[m] = 1 .. keep[m] /\ Len(disk'.files[m]) = keep[m]
                /\ \A i \in 1 .. keep[m] : disk'.files[m][i] = disk.files[m][i]
                /\ disk.files[m] = <<>> => disk'.files[m] = <<>>
           /\ \/ disk'.torn \in {0, disk.torn}
              \/ disk'.torn \in Months /\ keep[disk'.torn] < Len(disk.files[disk'.torn])
  <1>1. PICK keep \in [Months -> 0 .. 2 * MaxEvents] :
          /\ \A m \in Months : keep[m] \in disk.synced[m] .. Len(disk.files[m])
          /\ \E t \in {0} \cup {m \in Months : keep[m] < Len(disk.files[m]) \/ disk.torn = m} :
                disk' = [disk EXCEPT !.files = [m \in Months |-> SubSeq(disk.files[m], 1, keep[m])],
                                     !.torn = t]
    BY DEF PowerLoss
  <1>2. PICK t \in {0} \cup {m \in Months : keep[m] < Len(disk.files[m]) \/ disk.torn = m} :
                disk' = [disk EXCEPT !.files = [m \in Months |-> SubSeq(disk.files[m], 1, keep[m])],
                                     !.torn = t]
    BY <1>1
  <1>. PICK files : files = [m \in Months |-> SubSeq(disk.files[m], 1, keep[m])]
    OBVIOUS
  <1>3. keep \in Marks
    BY <1>1, BoundAssumption DEF Marks
  <1>4. disk \in Disks /\ disk.files \in Archives /\ disk.synced \in Marks
    BY DEF Typed, Formed, Disks
  <1>5. ASSUME NEW m \in Months
        PROVE  /\ disk.synced[m] <= keep[m] /\ keep[m] <= Len(disk.files[m])
               /\ DOMAIN files[m] = 1 .. keep[m] /\ Len(files[m]) = keep[m]
               /\ \A i \in 1 .. keep[m] : files[m][i] = disk.files[m][i]
               /\ disk.files[m] = <<>> => files[m] = <<>>
               /\ files[m] \in Seq(Lines)
    <2>1. disk.files[m] \in Seq(Lines) /\ Len(disk.files[m]) \in Nat /\ disk.synced[m] \in Nat /\ keep[m] \in Nat
      BY <1>3, <1>4 DEF Archives, Marks
    <2>2. disk.synced[m] <= keep[m] /\ keep[m] <= Len(disk.files[m])
      BY <1>1, <2>1
    <2>3. files[m] = SubSeq(disk.files[m], 1, keep[m])
      OBVIOUS
    <2>4. /\ \A i \in 1 .. keep[m] : i \in DOMAIN disk.files[m] /\ disk.files[m][i] \in Lines
          /\ DOMAIN disk.files[m] = 1 .. Len(disk.files[m])
      BY <2>1, <2>2
    <2>5. files[m] \in Seq(Lines) /\ Len(files[m]) = keep[m] /\ DOMAIN files[m] = 1 .. keep[m]
          /\ \A i \in 1 .. keep[m] : files[m][i] = disk.files[m][i]
      BY <2>1, <2>2, <2>3, <2>4, SubSeqProperties
    <2>6. disk.files[m] = <<>> => files[m] = <<>>
      BY <2>1, <2>2, <2>5, EmptySeq
    <2>. QED  BY <2>2, <2>5, <2>6
  <1>6. files \in Archives
    BY <1>5 DEF Archives
  <1>7. t \in Nat
    BY <1>2, MonthsAreNat
  <1>8. /\ disk' \in Disks /\ disk'.files = files /\ disk'.torn = t
        /\ disk'.synced = disk.synced /\ disk'.newest = disk.newest
    BY <1>2, <1>4, <1>6, <1>7 DEF Disks
  <1>9. \/ disk'.torn \in {0, disk.torn}
        \/ disk'.torn \in Months /\ keep[disk'.torn] < Len(disk.files[disk'.torn])
    BY <1>2, <1>8
  <1>10. \A m \in Months :
           /\ disk.synced[m] <= keep[m] /\ keep[m] <= Len(disk.files[m])
           /\ DOMAIN disk'.files[m] = 1 .. keep[m] /\ Len(disk'.files[m]) = keep[m]
           /\ \A i \in 1 .. keep[m] : disk'.files[m][i] = disk.files[m][i]
           /\ disk.files[m] = <<>> => disk'.files[m] = <<>>
    BY <1>5, <1>8
  <1>. WITNESS keep \in Marks
  <1>. QED  BY <1>8, <1>9, <1>10

LEMMA PowerLossForms ==
  ASSUME Typed, PowerLoss
  PROVE  Formed(disk)' /\ disk'.newest = disk.newest
  <1>1. PICK keep \in Marks :
           /\ disk' \in Disks /\ disk'.synced = disk.synced /\ disk'.newest = disk.newest
           /\ \A m \in Months :
                /\ disk.synced[m] <= keep[m] /\ keep[m] <= Len(disk.files[m])
                /\ DOMAIN disk'.files[m] = 1 .. keep[m] /\ Len(disk'.files[m]) = keep[m]
                /\ \A i \in 1 .. keep[m] : disk'.files[m][i] = disk.files[m][i]
                /\ disk.files[m] = <<>> => disk'.files[m] = <<>>
           /\ \/ disk'.torn \in {0, disk.torn}
              \/ disk'.torn \in Months /\ keep[disk'.torn] < Len(disk.files[disk'.torn])
    BY PowerLossIs
  <1>2. /\ disk.newest \in Nat /\ disk.torn <= disk.newest /\ disk.newest <= now
        /\ \A m \in Months : m > disk.newest => disk.files[m] = <<>>
    BY DEF Typed, Formed, Disks
  <1>3. disk'.torn <= disk.newest
    <2>1. CASE disk'.torn \in {0, disk.torn}
      BY <1>2, <2>1
    <2>2. ASSUME disk'.torn \in Months, keep[disk'.torn] < Len(disk.files[disk'.torn])
          PROVE  disk'.torn <= disk.newest
      <3>. PICK t : t = disk'.torn
        OBVIOUS
      <3>1. t \in Months /\ t \in Nat /\ keep[t] \in Nat /\ keep[t] < Len(disk.files[t])
        BY <2>2, MonthsAreNat DEF Marks
      <3>2. disk.files[t] # <<>>
        BY <3>1, EmptySeq
      <3>. QED  BY <1>2, <3>1, <3>2
    <2>. QED  BY <1>1, <2>1, <2>2
  <1>4. now' = now
    BY DEF PowerLoss
  <1>. QED  BY <1>1, <1>2, <1>3, <1>4 DEF Formed

LEMMA TypedInit == Init => Typed
  <1>. SUFFICES ASSUME Init PROVE Typed
    OBVIOUS
  <1>1. 1 \in Months /\ 1 \in Nat /\ MaxEvents \in Nat /\ MaxMonth \in Nat
    BY BoundAssumption DEF Months
  <1>2. /\ <<>> \in Seq(Lines) /\ Len(<<>>) = 0
        /\ Disk.files \in Archives /\ Disk.synced \in Marks
        /\ \A m \in Months : Disk.files[m] = <<>> /\ Disk.synced[m] = 0
    BY DEF Disk, Archives, Marks
  <1>3. disk \in Disks /\ disk.torn = 0 /\ disk.newest = 0
    BY <1>2 DEF Init, Disk, Disks
  <1>4. Formed(disk)
    BY <1>1, <1>2, <1>3 DEF Init, Formed
  <1>5. reader \in Readers
    <2>1. <<>> \in Hashes /\ 0 \in 0 .. MaxMonth
      BY <1>1 DEF Hashes
    <2>. QED  BY <1>1, <2>1 DEF Init, NoReader, Readers, Genesis
  <1>6. lock \in [by : Proc \cup {NoProc}, pid : Proc \cup {NoProc}]
    BY DEF Init, NoLock
  <1>7. /\ pc \in [Proc -> Places] /\ sink \in [Proc -> Sinks]
        /\ \A p \in Proc : pc[p] # "open"
    BY NoSinkTyped DEF Init, Places
  <1>8. now \in Months /\ issued \in 0 .. MaxEvents
    BY <1>1 DEF Init
  <1>9. hard \subseteq acked /\ acked \subseteq 1 .. issued /\ raced \in BOOLEAN /\ lost \in BOOLEAN
    BY DEF Init
  <1>. QED  BY <1>4, <1>5, <1>6, <1>7, <1>8, <1>9 DEF Typed

\* The steps of a process but for what they do to its place and its lock.
LEMMA LeavesTyped ==
  ASSUME Typed, NEW p \in Proc, Leaves(p), NEW l \in Places, pc' = [pc EXCEPT ![p] = l]
  PROVE  /\ now' \in Months /\ Formed(disk)' /\ pc' \in [Proc -> Places]
         /\ sink' \in [Proc -> Sinks]
         /\ \A q \in Proc : pc'[q] = "open" => sink'[q].month <= disk'.newest
  <1>1. PICK t \in Sinks : /\ sink' = [sink EXCEPT ![p] = t]
                           /\ pc'[p] = "open" => t.month <= disk'.newest
    BY DEF Leaves
  <1>2. ASSUME NEW q \in Proc, pc'[q] = "open" PROVE sink'[q].month <= disk'.newest
    <2>1. CASE q = p
      BY <1>1, <1>2, <2>1 DEF Typed
    <2>2. CASE q # p
      <3>1. sink'[q] = sink[q] /\ sink[q] \in Sinks /\ pc[q] = "open"
        BY <1>1, <1>2, <2>2 DEF Typed
      <3>2. sink[q].month <= disk.newest /\ disk.newest <= disk'.newest
        BY <3>1 DEF Typed, Leaves
      <3>3. sink[q].month \in Nat /\ disk.newest \in Nat /\ disk'.newest \in Nat
        BY <3>1, MonthsAreNat DEF Sinks, Typed, Leaves, Formed, Disks
      <3>. QED  BY <3>1, <3>2, <3>3
    <2>. QED  BY <2>1, <2>2
  <1>. QED  BY <1>1, <1>2 DEF Typed, Leaves

LEMMA ReaderTyped ==
  ASSUME Typed, StartVerify \/ VerifyLine
  PROVE  reader' \in Readers
  <1>1. /\ disk \in Disks /\ disk.newest \in Nat /\ disk.newest <= now /\ now \in 1 .. MaxMonth
        /\ MaxMonth \in Nat /\ reader \in Readers
    BY BoundAssumption DEF Typed, Formed, Disks, Months
  <1>2. NoReader \in Readers
    <2>1. 1 \in Months /\ <<>> \in Hashes /\ 0 \in 0 .. MaxMonth
      BY <1>1 DEF Hashes, Months
    <2>. QED  BY <2>1 DEF NoReader, Readers, Genesis
  <1>3. CASE StartVerify
    <2>1. disk.newest \in 0 .. MaxMonth
      BY <1>1
    <2>. QED  BY <1>2, <1>3, <2>1 DEF StartVerify, Readers
  <1>4. CASE VerifyLine
    <2>. PICK m : m = reader.month
      OBVIOUS
    <2>. PICK line : line = disk.files[m][reader.line]
      OBVIOUS
    <2>1. \/ /\ reader.line <= Len(disk.files[m])
             /\ reader' = [reader EXCEPT !.line = @ + 1, !.seq = line.seq, !.head = line.hash]
          \/ \E v \in {"break", "torn_line", "ok"} : reader' = [NoReader EXCEPT !.verdict = v]
          \/ m < reader.newest /\ reader' = [reader EXCEPT !.month = @ + 1, !.line = 1]
      BY <1>4 DEF VerifyLine
    <2>2. CASE \E v \in {"break", "torn_line", "ok"} : reader' = [NoReader EXCEPT !.verdict = v]
      BY <1>2, <2>2 DEF Readers
    <2>3. CASE /\ reader.line <= Len(disk.files[m])
               /\ reader' = [reader EXCEPT !.line = @ + 1, !.seq = line.seq, !.head = line.hash]
      <3>1. m \in Months /\ reader.line \in Nat \ {0}
        BY <1>1 DEF Readers
      <3>2. disk.files[m] \in Seq(Lines)
        BY <1>1, <3>1 DEF Disks, Archives
      <3>3. line \in Lines
        BY <2>3, <3>1, <3>2
      <3>. PICK a, b, c : a = reader.line + 1 /\ b = line.seq /\ c = line.hash
        OBVIOUS
      <3>4. a \in Nat \ {0} /\ b \in Nat /\ c \in Hashes
        BY <3>1, <3>3 DEF Lines
      <3>5. reader' = [reader EXCEPT !.line = a, !.seq = b, !.head = c]
        BY <2>3
      <3>. QED  BY <1>1, <3>4, <3>5 DEF Readers
    <2>4. CASE m < reader.newest /\ reader' = [reader EXCEPT !.month = @ + 1, !.line = 1]
      <3>1. m \in 1 .. MaxMonth /\ reader.newest \in 0 .. MaxMonth
        BY <1>1 DEF Readers, Months
      <3>2. m + 1 \in Months
        BY <1>1, <2>4, <3>1 DEF Months
      <3>. PICK a, b : a = m + 1 /\ b = 1
        OBVIOUS
      <3>3. a \in Months /\ b \in Nat \ {0} /\ reader' = [reader EXCEPT !.month = a, !.line = b]
        BY <2>4, <3>2
      <3>. QED  BY <1>1, <3>3 DEF Readers
    <2>. QED  BY <2>1, <2>2, <2>3, <2>4
  <1>. QED  BY <1>3, <1>4

LEMMA TypedNext ==
  ASSUME Typed, [Next]_vars
  PROVE  Typed'
  <1>. DEFINE LockTyped == lock \in [by : Proc \cup {NoProc}, pid : Proc \cup {NoProc}]
              Counted == issued \in 0 .. MaxEvents /\ hard \subseteq acked /\ acked \subseteq 1 .. issued
              Flags == raced \in BOOLEAN /\ lost \in BOOLEAN
              Rest == LockTyped /\ Counted /\ Flags
  <1>0. /\ Rest /\ reader \in Readers /\ NoLock \in [by : Proc \cup {NoProc}, pid : Proc \cup {NoProc}]
        /\ pc \in [Proc -> Places]
    BY DEF Typed, NoLock
  <1>1. ASSUME NEW p \in Proc, Leaves(p), NEW l \in Places, pc' = [pc EXCEPT ![p] = l],
               Rest', reader' = reader
        PROVE  Typed'
    BY <1>0, <1>1, LeavesTyped DEF Typed
  <1>2. ASSUME NEW p \in Proc, Process(p) PROVE Typed'
    <2>0. /\ {"named", "exists", "stale", "again", "owner", "open", "gone"} \subseteq Places
          /\ pc = [pc EXCEPT ![p] = pc[p]] /\ pc[p] \in Places
      BY <1>0 DEF Places
    <2>1. CASE CreateLock(p)
      <3>1. PICK l \in {"named", "exists", "gone"} : pc' = [pc EXCEPT ![p] = l]
        BY <2>1 DEF CreateLock, Goto
      <3>2. lock' \in {lock, [by |-> p, pid |-> NoProc]} /\ UNCHANGED <<disk, now, sink, reader, history>>
        BY <2>1 DEF CreateLock
      <3>3. Leaves(p)
        BY <1>0, <3>1, <3>2, LeavesSame
      <3>4. Rest'
        BY <1>0, <3>2 DEF history
      <3>. QED  BY <1>1, <2>0, <3>1, <3>2, <3>3, <3>4
    <2>2. CASE WriteLockPid(p)
      <3>1. pc' = [pc EXCEPT ![p] = "owner"] /\ UNCHANGED <<disk, now, sink, reader, history>>
        BY <2>2 DEF WriteLockPid, Goto
      <3>2. Leaves(p)
        BY <1>0, <3>1, LeavesSame
      <3>3. Rest'
        BY <1>0, <2>2, <3>1 DEF WriteLockPid, history
      <3>. QED  BY <1>1, <2>0, <3>1, <3>2, <3>3
    <2>3. CASE ReadLockPid(p)
      <3>1. PICK l \in {"stale", "gone"} : pc' = [pc EXCEPT ![p] = l]
        BY <2>3 DEF ReadLockPid, Goto
      <3>2. UNCHANGED <<disk, lock, now, sink, reader, history>>
        BY <2>3 DEF ReadLockPid
      <3>3. Leaves(p)
        BY <1>0, <3>1, <3>2, LeavesSame
      <3>4. Rest'
        BY <1>0, <3>2 DEF history
      <3>. QED  BY <1>1, <2>0, <3>1, <3>2, <3>3, <3>4
    <2>4. CASE TakeOver(p)
      <3>1. /\ pc' = [pc EXCEPT ![p] = "again"] /\ UNCHANGED <<disk, now, sink, reader>>
            /\ lock' = NoLock /\ UNCHANGED <<issued, acked, hard, lost>>
        BY <2>4 DEF TakeOver, Goto
      <3>2. Leaves(p)
        BY <1>0, <3>1, LeavesSame
      <3>3. raced' \in BOOLEAN
        BY <2>4 DEF TakeOver
      <3>. QED  BY <1>0, <1>1, <2>0, <3>1, <3>2, <3>3
    <2>5. CASE OpenLog(p)
      <3>1. Leaves(p) /\ \E l \in {"open", "gone"} : pc' = [pc EXCEPT ![p] = l] /\ lock' \in {lock, NoLock}
        BY <2>5, OpenLeaves
      <3>2. UNCHANGED <<reader, issued, acked, hard, raced, lost>>
        BY <2>5 DEF OpenLog
      <3>3. Rest'
        BY <1>0, <3>1, <3>2
      <3>. QED  BY <1>1, <2>0, <3>1, <3>2, <3>3
    <2>6. ASSUME NEW immediate \in BOOLEAN, AppendEvent(p, immediate) PROVE Typed'
      <3>1. Leaves(p) /\ issued + 1 \in 1 .. MaxEvents
        BY <2>6, AppendLeaves
      <3>2. /\ pc' = pc /\ issued' = issued + 1 /\ UNCHANGED <<lock, reader, raced, lost>>
            /\ acked' \in {acked, acked \cup {issued + 1}} /\ hard' \in {hard, hard \cup {issued + 1}}
            /\ hard' # hard => acked' = acked \cup {issued + 1}
        BY <2>6 DEF AppendEvent
      <3>3. Counted'
        <4>1. issued \in Nat /\ 1 .. issued \subseteq 1 .. (issued + 1) /\ issued + 1 \in 1 .. (issued + 1)
          BY <1>0, BoundAssumption
        <4>2. acked' \subseteq 1 .. (issued + 1) /\ hard' \subseteq acked'
          BY <1>0, <3>2, <4>1
        <4>. QED  BY <3>1, <3>2, <4>2, BoundAssumption
      <3>4. Rest'
        BY <1>0, <3>2, <3>3
      <3>. QED  BY <1>1, <2>0, <3>1, <3>2, <3>4
    <2>7. CASE FsyncTimer(p) \/ Flush(p)
      <3>1. /\ pc[p] = "open" /\ now' = now /\ pc' = pc /\ FsyncAttempt(p, [sink[p] EXCEPT !.timer = FALSE])
            /\ UNCHANGED <<lock, reader, issued, acked, hard, raced, lost>>
        BY <2>7 DEF FsyncTimer, Flush
      <3>2. Leaves(p)
        BY <3>1, FsyncAttemptIs
      <3>3. Rest'
        BY <1>0, <3>1
      <3>. QED  BY <1>1, <2>0, <3>1, <3>2, <3>3
    <2>8. CASE Close(p)
      <3>1. Leaves(p) /\ pc' = [pc EXCEPT ![p] = "gone"] /\ lock' = NoLock
        BY <2>8, CloseLeaves
      <3>2. UNCHANGED <<reader, issued, acked, hard, raced, lost>>
        BY <2>8 DEF Close
      <3>3. Rest'
        BY <1>0, <3>1, <3>2
      <3>. QED  BY <1>1, <2>0, <3>1, <3>2, <3>3
    <2>9. CASE Crash(p)
      <3>1. Leaves(p) /\ pc' = [pc EXCEPT ![p] = "gone"]
        BY <2>9, CrashLeaves
      <3>2. UNCHANGED <<lock, reader, history>>
        BY <2>9 DEF Crash
      <3>3. Rest'
        BY <1>0, <3>2 DEF history
      <3>. QED  BY <1>1, <2>0, <3>1, <3>2, <3>3
    <2>. QED  BY <1>2, <2>1, <2>2, <2>3, <2>4, <2>5, <2>6, <2>7, <2>8, <2>9 DEF Process
  <1>3. CASE PowerLoss
    <2>1. Formed(disk)' /\ disk'.newest = disk.newest
      BY <1>3, PowerLossForms
    <2>2. /\ lock' \in {lock, [lock EXCEPT !.pid = NoProc], NoLock} /\ lost' = TRUE
          /\ reader' = NoReader /\ UNCHANGED <<now, issued, acked, hard, raced>>
          /\ pc' = [p \in Proc |-> IF pc[p] = "off" THEN "off" ELSE "gone"]
          /\ sink' = [p \in Proc |-> NoSink]
      BY <1>3 DEF PowerLoss
    <2>3. Rest'
      BY <1>0, <2>2
    <2>4. /\ pc' \in [Proc -> Places] /\ sink' \in [Proc -> Sinks]
          /\ \A p \in Proc : pc'[p] # "open"
      BY <2>2, NoSinkTyped DEF Places
    <2>5. reader' \in Readers
      <3>1. 1 \in Months /\ <<>> \in Hashes /\ 0 \in 0 .. MaxMonth
        BY BoundAssumption DEF Hashes, Months
      <3>. QED  BY <2>2, <3>1 DEF NoReader, Readers, Genesis
    <2>6. now' \in Months
      BY <2>2 DEF Typed
    <2>. QED  BY <2>1, <2>3, <2>4, <2>5, <2>6 DEF Typed
  <1>4. CASE NextMonth
    <2>1. now < MaxMonth /\ now' = now + 1 /\ UNCHANGED <<disk, lock, pc, sink, reader, history>>
      BY <1>4 DEF NextMonth
    <2>2. now' \in Months /\ Formed(disk)'
      BY <2>1, BoundAssumption DEF Typed, Formed, Months, Disks
    <2>. QED  BY <2>1, <2>2 DEF Typed, history
  <1>5. CASE StartVerify \/ VerifyLine
    <2>1. UNCHANGED <<disk, lock, now, pc, sink, history>>
      BY <1>5 DEF StartVerify, VerifyLine
    <2>2. reader' \in Readers
      BY <1>5, ReaderTyped
    <2>3. Formed(disk)'
      BY <2>1 DEF Typed, Formed
    <2>. QED  BY <2>1, <2>2, <2>3 DEF Typed, history
  <1>6. CASE UNCHANGED vars
    BY <1>6 DEF vars, history, Typed, Formed
  <1>. QED  BY <1>2, <1>3, <1>4, <1>5, <1>6 DEF Next

\* The variables have their types, whatever fails.
THEOREM TypeCorrect == Spec => []TypeOK
  <1>1. Typed => TypeOK
    <2>. SUFFICES ASSUME Typed PROVE TypeOK
      OBVIOUS
    <2>1. /\ disk \in Disks /\ disk.torn \in Nat /\ disk.newest \in Nat /\ now \in Nat
          /\ disk.torn <= disk.newest /\ disk.newest <= now
      BY MonthsAreNat DEF Typed, Formed, Disks
    <2>2. ASSUME NEW m \in Months PROVE disk.synced[m] \in 0 .. Len(disk.files[m])
      <3>1. disk.synced[m] \in Nat /\ Len(disk.files[m]) \in Nat
        BY <2>1 DEF Disks, Archives, Marks
      <3>. QED  BY <3>1 DEF Typed, Formed
    <2>. QED  BY <2>1, <2>2 DEF Typed, TypeOK, Places
  <1>2. Typed /\ [Next]_vars => Typed'
    BY TypedNext
  <1>. QED  BY <1>1, <1>2, TypedInit, PTL DEF Spec

-----------------------------------------------------------------------------
(* The lock. *)

LEMMA ExcludesNext ==
  ASSUME Typed, Excludes, [Next]_vars
  PROVE  Excludes'
  <1>0. pc \in [Proc -> Places] /\ NoProc \notin Proc
    BY ProcAssumption DEF Typed
  <1>. SUFFICES ASSUME ~raced', NEW q \in Proc
                PROVE  /\ pc'[q] = "named" => lock' = [by |-> q, pid |-> NoProc]
                       /\ pc'[q] \in {"owner", "open"} => lock' = [by |-> q, pid |-> q]
    BY DEF Excludes
  <1>1. ASSUME NEW p \in Proc, Process(p)
        PROVE  /\ pc'[q] = "named" => lock' = [by |-> q, pid |-> NoProc]
               /\ pc'[q] \in {"owner", "open"} => lock' = [by |-> q, pid |-> q]
    <2>1. CASE CreateLock(p)
      <3>1. ~raced
        BY <2>1 DEF CreateLock, history
      <3>. QED  BY <1>0, <2>1, <3>1 DEF CreateLock, Goto, Excludes, NoLock
    <2>2. CASE WriteLockPid(p)
      <3>1. ~raced /\ lock = [by |-> p, pid |-> NoProc]
        BY <2>2 DEF WriteLockPid, history, Excludes
      <3>2. lock' = [by |-> p, pid |-> p] /\ pc' = [pc EXCEPT ![p] = "owner"]
        BY <2>2, <3>1 DEF WriteLockPid, Goto
      <3>3. q # p => pc[q] \notin {"named", "owner", "open"}
        BY <3>1 DEF Excludes
      <3>. QED  BY <1>0, <3>2, <3>3
    <2>3. CASE ReadLockPid(p)
      <3>1. ~raced /\ lock' = lock
        BY <2>3 DEF ReadLockPid, history
      <3>. QED  BY <1>0, <2>3, <3>1 DEF ReadLockPid, Goto, Excludes
    <2>4. CASE TakeOver(p)
      <3>1. /\ ~raced /\ (lock = NoLock \/ (lock.pid # NoProc /\ Dead(lock.pid)))
            /\ pc' = [pc EXCEPT ![p] = "again"]
        BY <2>4 DEF TakeOver, Goto
      <3>2. pc[q] \notin {"named", "owner", "open"}
        BY <1>0, <3>1 DEF Excludes, NoLock, Dead
      <3>. QED  BY <1>0, <3>1, <3>2
    <2>5. CASE OpenLog(p)
      <3>1. pc[p] = "owner" /\ ~raced
        BY <2>5 DEF OpenLog
      <3>2. \/ pc' = [pc EXCEPT ![p] = "open"] /\ lock' = lock
            \/ pc' = [pc EXCEPT ![p] = "gone"] /\ lock' = NoLock
        BY <2>5 DEF OpenLog, Goto
      <3>3. q # p => pc[q] \notin {"named", "owner", "open"}
        BY <3>1 DEF Excludes
      <3>. QED  BY <1>0, <3>1, <3>2, <3>3 DEF Excludes
    <2>6. CASE Close(p)
      <3>1. pc[p] = "open" /\ ~raced /\ pc' = [pc EXCEPT ![p] = "gone"]
        BY <2>6 DEF Close, Goto
      <3>2. q # p => pc[q] \notin {"named", "owner", "open"}
        BY <3>1 DEF Excludes
      <3>. QED  BY <1>0, <3>1, <3>2
    <2>7. CASE Crash(p)
      <3>1. ~raced /\ lock' = lock /\ pc' = [pc EXCEPT ![p] = "gone"]
        BY <2>7 DEF Crash, Goto, history
      <3>. QED  BY <1>0, <3>1 DEF Excludes
    <2>8. CASE FsyncTimer(p) \/ Flush(p) \/ \E immediate \in BOOLEAN : AppendEvent(p, immediate)
      <3>1. ~raced /\ lock' = lock /\ pc' = pc
        BY <2>8 DEF FsyncTimer, Flush, AppendEvent
      <3>. QED  BY <3>1 DEF Excludes
    <2>. QED  BY <1>1, <2>1, <2>2, <2>3, <2>4, <2>5, <2>6, <2>7, <2>8 DEF Process
  <1>2. CASE PowerLoss
    BY <1>0, <1>2 DEF PowerLoss
  <1>3. CASE NextMonth \/ StartVerify \/ VerifyLine \/ UNCHANGED vars
    <2>1. ~raced /\ lock' = lock /\ pc' = pc
      BY <1>3 DEF NextMonth, StartVerify, VerifyLine, vars, history
    <2>. QED  BY <2>1 DEF Excludes
  <1>. QED  BY <1>1, <1>2, <1>3 DEF Next

\* Without a race whoever is past the lock is alone.
LEMMA Alone ==
  ASSUME Excludes, ~raced, NEW p \in Proc, NEW q \in Proc,
         pc[p] \in {"owner", "open"}, pc[q] \in {"owner", "open"}
  PROVE  p = q
  BY DEF Excludes

LEMMA RacedStays ==
  ASSUME Typed, [Next]_vars, ~raced'
  PROVE  ~raced
  <1>1. ASSUME NEW p \in Proc, Process(p) PROVE raced' = raced \/ raced' = TRUE \/ ~raced
    BY <1>1 DEF Process, CreateLock, WriteLockPid, ReadLockPid, TakeOver, OpenLog, AppendEvent,
         FsyncTimer, Flush, Close, Crash, history
  <1>2. CASE PowerLoss \/ NextMonth \/ StartVerify \/ VerifyLine \/ UNCHANGED vars
    BY <1>2 DEF PowerLoss, NextMonth, StartVerify, VerifyLine, vars, history
  <1>. QED  BY <1>1, <1>2 DEF Next

-----------------------------------------------------------------------------
(* What is acknowledged is kept. *)

LEMMA WorldNext ==
  ASSUME NEW p
  PROVE  /\ World(p)' = [d |-> disk', s |-> sink'[p]]
         /\ Solo(World(p))' <=> Solo([d |-> disk', s |-> sink'[p]])
         /\ Linked(World(p))' <=> Linked([d |-> disk', s |-> sink'[p]])
  BY DEF World, Solo, Linked, AtEnd

LEMMA SoloIs ==
  ASSUME NEW d, NEW s
  PROVE  Solo([d |-> d, s |-> s]) <=> s.month = d.newest /\ d.torn < s.month
  BY DEF Solo

\* What the growth of the files leaves to show.
LEMMA GrowsKeeps ==
  ASSUME Keeps, ~raced, disk \in Disks, disk' \in Disks, Grows(disk, disk'),
         lost => lost',
         \A n \in acked' : n \in acked \/ Holds(disk', n),
         \A n \in hard' : n \in hard \/ HoldsHard(disk', n),
         \A q \in Proc : pc'[q] = "open" => Solo([d |-> disk', s |-> sink'[q]])
  PROVE  Keeps'
  <1>1. \A n : (Holds(disk, n) => Holds(disk', n)) /\ (HoldsHard(disk, n) => HoldsHard(disk', n))
    BY GrownHolds
  <1>2. lost' \/ \A n \in acked' : Holds(disk', n)
    BY <1>1 DEF Keeps
  <1>3. \A n \in hard' : HoldsHard(disk', n)
    BY <1>1 DEF Keeps
  <1>4. ASSUME NEW q \in Proc, pc'[q] = "open" PROVE Solo(World(q))'
    BY <1>4, WorldNext
  <1>. QED  BY <1>2, <1>3, <1>4 DEF Keeps, Holds, HoldsHard

LEMMA KeepsNext ==
  ASSUME ~ShortWrites, AInv, [Next]_vars
  PROVE  Keeps'
  <1>0. Typed /\ Typed' /\ Excludes /\ Keeps
    BY TypedNext DEF AInv
  <1>. SUFFICES ASSUME ~raced' PROVE Keeps'
    BY DEF Keeps
  <1>1. /\ ~raced /\ disk \in Disks /\ disk' \in Disks /\ Formed(disk)
        /\ pc \in [Proc -> Places] /\ sink \in [Proc -> Sinks]
    BY <1>0, RacedStays DEF Typed, Formed
  <1>2. \A q \in Proc : pc[q] = "open" => sink[q].month = disk.newest /\ disk.torn < sink[q].month
    BY <1>1, <1>0, SoloIs DEF Keeps, World, Solo
  <1>3. ASSUME NEW p \in Proc, Process(p) PROVE Keeps'
    <2>1. CASE CreateLock(p) \/ WriteLockPid(p) \/ ReadLockPid(p) \/ TakeOver(p)
      <3>1. /\ UNCHANGED <<disk, sink, acked, hard, lost>>
            /\ \A q \in Proc : pc'[q] = "open" => pc[q] = "open"
        BY <1>1, <2>1 DEF CreateLock, WriteLockPid, ReadLockPid, TakeOver, Goto, history
      <3>2. Grows(disk, disk')
        BY <1>1, <3>1, FormedGrows
      <3>3. \A q \in Proc : pc'[q] = "open" => Solo([d |-> disk', s |-> sink'[q]])
        BY <1>2, <3>1, SoloIs
      <3>. QED  BY <1>0, <1>1, <3>1, <3>2, <3>3, GrowsKeeps
    <2>2. CASE OpenLog(p)
      <3>1. PICK r \in RecoverFromBrokenState(World(p)) :
              /\ Recovers(World(p), r) /\ disk' = r.w.d
              /\ \/ /\ r.ok /\ pc' = [pc EXCEPT ![p] = "open"] /\ lock' = lock
                    /\ r.w = [d |-> disk', s |-> sink'[p]]
                 \/ pc' = [pc EXCEPT ![p] = "gone"] /\ lock' = NoLock
        BY <1>0, <2>2, OpenLeaves
      <3>2. pc[p] = "owner" /\ UNCHANGED <<acked, hard, lost>>
        BY <2>2 DEF OpenLog
      <3>3. \A q \in Proc : pc[q] # "open"
        BY <1>0, <1>1, <3>2, Alone
      <3>4. Grows(disk, disk')
        BY <1>0, <3>1, WorldsFit DEF Recovers
      <3>5. ASSUME NEW q \in Proc, pc'[q] = "open" PROVE Solo([d |-> disk', s |-> sink'[q]])
        <4>1. q = p /\ r.ok /\ r.w = [d |-> disk', s |-> sink'[p]]
          BY <1>1, <3>1, <3>3, <3>5
        <4>. QED  BY <3>1, <4>1 DEF Recovers
      <3>. QED  BY <1>0, <1>1, <3>2, <3>4, <3>5, GrowsKeeps
    <2>3. ASSUME NEW immediate \in BOOLEAN, AppendEvent(p, immediate) PROVE Keeps'
      <3>1. PICK r \in AppendOutcomes(World(p), issued + 1, immediate) :
              /\ disk' = r.w.d /\ sink'[p] = r.w.s /\ r.w = [d |-> disk', s |-> sink'[p]]
              /\ acked' = IF r.ok THEN acked \cup {issued + 1} ELSE acked
              /\ hard' = IF r.ok /\ immediate THEN hard \cup {issued + 1} ELSE hard
              /\ Fit(World(p)) /\ now \in Months /\ issued + 1 \in Nat
        BY <1>0, <2>3, AppendLeaves
      <3>2. pc[p] = "open" /\ pc' = pc /\ lost' = lost
        BY <2>3 DEF AppendEvent
      <3>3. Solo(World(p)) /\ World(p).d = disk
        BY <1>0, <1>1, <3>2, WorldsFit DEF Keeps
      <3>4. Solo(r.w) /\ Grows(disk, disk') /\ Records(r, issued + 1, immediate)
        BY <3>1, <3>3, AppendSound
      <3>5. /\ \A n \in acked' : n \in acked \/ Holds(disk', n)
            /\ \A n \in hard' : n \in hard \/ HoldsHard(disk', n)
        BY <3>1, <3>4 DEF Records
      <3>6. \A q \in Proc : pc'[q] = "open" => Solo([d |-> disk', s |-> sink'[q]])
        BY <1>0, <1>1, <3>1, <3>2, <3>4, Alone
      <3>. QED  BY <1>0, <1>1, <3>2, <3>4, <3>5, <3>6, GrowsKeeps
    <2>4. CASE FsyncTimer(p) \/ Flush(p)
      <3>1. /\ pc[p] = "open" /\ now' = now /\ pc' = pc /\ FsyncAttempt(p, [sink[p] EXCEPT !.timer = FALSE])
            /\ UNCHANGED <<acked, hard, lost>>
        BY <2>4 DEF FsyncTimer, Flush
      <3>2. /\ disk' = disk \/ disk' = Fsync(World(p)).d
            /\ sink'[p].month = sink[p].month
        BY <1>0, <3>1, FsyncAttemptIs
      <3>3. disk'.newest = disk.newest /\ disk'.torn = disk.torn /\ Grows(disk, disk')
        BY <1>0, <3>1, <3>2, FlushedIs
      <3>4. \A q \in Proc : pc'[q] = "open" => Solo([d |-> disk', s |-> sink'[q]])
        BY <1>0, <1>1, <1>2, <3>1, <3>2, <3>3, Alone, SoloIs
      <3>. QED  BY <1>0, <1>1, <3>1, <3>3, <3>4, GrowsKeeps
    <2>5. CASE Close(p)
      <3>1. /\ pc[p] = "open" /\ pc' = [pc EXCEPT ![p] = "gone"]
            /\ disk' = disk \/ disk' = Fsync(World(p)).d
        BY <1>0, <2>5, CloseLeaves
      <3>2. now' = now /\ UNCHANGED <<acked, hard, lost>>
        BY <2>5 DEF Close
      <3>3. Grows(disk, disk')
        BY <1>0, <3>1, <3>2, FlushedIs
      <3>4. \A q \in Proc : pc'[q] # "open"
        BY <1>0, <1>1, <3>1, Alone
      <3>. QED  BY <1>0, <1>1, <3>2, <3>3, <3>4, GrowsKeeps
    <2>6. CASE Crash(p)
      <3>1. /\ pc' = [pc EXCEPT ![p] = "gone"]
            /\ disk' = disk \/ pc[p] = "open"
            /\ disk'.files = disk.files /\ disk'.synced = disk.synced /\ disk'.newest = disk.newest
        BY <1>0, <2>6, CrashLeaves
      <3>2. UNCHANGED <<acked, hard, lost>> /\ \A q \in Proc : q # p => sink'[q] = sink[q]
        BY <1>1, <2>6 DEF Crash, history
      <3>3. Grows(disk, disk')
        BY <1>1, <3>1, FormedGrows DEF Grows
      <3>4. ASSUME NEW q \in Proc, pc'[q] = "open" PROVE Solo([d |-> disk', s |-> sink'[q]])
        <4>1. q # p /\ pc[q] = "open" /\ sink'[q] = sink[q]
          BY <1>1, <3>1, <3>2, <3>4
        <4>2. disk' = disk
          BY <1>0, <1>1, <3>1, <4>1, Alone
        <4>. QED  BY <1>2, <4>1, <4>2, SoloIs
      <3>. QED  BY <1>0, <1>1, <3>2, <3>3, <3>4, GrowsKeeps
    <2>. QED  BY <1>3, <2>1, <2>2, <2>3, <2>4, <2>5, <2>6 DEF Process
  <1>4. CASE PowerLoss
    <2>1. PICK keep \in Marks :
           /\ disk'.synced = disk.synced
           /\ \A m \in Months :
                /\ disk.synced[m] <= keep[m]
                /\ DOMAIN disk'.files[m] = 1 .. keep[m]
                /\ \A i \in 1 .. keep[m] : disk'.files[m][i] = disk.files[m][i]
      BY <1>0, <1>4, PowerLossIs
    <2>2. /\ lost' = TRUE /\ hard' = hard
          /\ \A q \in Proc : pc'[q] # "open"
      BY <1>4 DEF PowerLoss
    <2>3. ASSUME NEW n \in hard PROVE HoldsHard(disk', n)
      <3>1. HoldsHard(disk, n)
        BY <1>0, <1>1 DEF Keeps
      <3>2. PICK m \in Months : \E i \in DOMAIN disk.files[m] :
                i <= disk.synced[m] /\ IsWellFormed(disk.files[m][i]) /\ disk.files[m][i].body = Event(n)
        BY <3>1 DEF HoldsHard
      <3>3. PICK i \in DOMAIN disk.files[m] :
                i <= disk.synced[m] /\ IsWellFormed(disk.files[m][i]) /\ disk.files[m][i].body = Event(n)
        BY <3>2
      <3>4. i \in 1 .. keep[m] /\ i <= disk'.synced[m]
        <4>1. disk.files[m] \in Seq(Lines) /\ disk.synced[m] \in Nat /\ keep[m] \in Nat
          BY <1>1 DEF Disks, Archives, Marks
        <4>. QED  BY <2>1, <3>3, <4>1
      <3>5. i \in DOMAIN disk'.files[m] /\ disk'.files[m][i] = disk.files[m][i]
        BY <2>1, <3>4
      <3>. QED  BY <3>3, <3>4, <3>5 DEF HoldsHard
    <2>. QED  BY <2>2, <2>3 DEF Keeps, HoldsHard
  <1>5. CASE NextMonth \/ StartVerify \/ VerifyLine \/ UNCHANGED vars
    <2>1. UNCHANGED <<disk, sink, pc, acked, hard, lost>>
      BY <1>5 DEF NextMonth, StartVerify, VerifyLine, vars, history
    <2>2. Grows(disk, disk')
      BY <1>1, <2>1, FormedGrows
    <2>3. \A q \in Proc : pc'[q] = "open" => Solo([d |-> disk', s |-> sink'[q]])
      BY <1>2, <2>1, SoloIs
    <2>. QED  BY <1>0, <1>1, <2>1, <2>2, <2>3, GrowsKeeps
  <1>. QED  BY <1>3, <1>4, <1>5 DEF Next

LEMMA AcknowledgedInit == Init => Excludes /\ Keeps
  BY DEF Init, Excludes, Keeps

\* If no write is cut short without a word, the types, the exclusion of the lock and
\* the events acknowledged are an invariant: whoever is past the lock is alone until
\* two takeovers race (acquireLock), and what it was told is written is in the files.
THEOREM Invariance == (ShortWrites = FALSE) => (Spec => []AInv)
  <1>. SUFFICES ASSUME ShortWrites = FALSE PROVE Spec => []AInv
    OBVIOUS
  <1>1. Init => AInv
    BY TypedInit, AcknowledgedInit DEF AInv
  <1>2. AInv /\ [Next]_vars => AInv'
    <2>. SUFFICES ASSUME AInv, [Next]_vars PROVE AInv'
      OBVIOUS
    <2>. QED  BY TypedNext, ExcludesNext, KeepsNext DEF AInv
  <1>. QED  BY <1>1, <1>2, PTL DEF Spec

LEMMA HeldIsRecorded ==
  ASSUME Typed, NEW n
  PROVE  (Holds(disk, n) => Recorded(n)) /\ (HoldsHard(disk, n) => Holds(disk, n))
  <1>1. ASSUME Holds(disk, n) PROVE Recorded(n)
    <2>1. PICK m \in Months : \E i \in DOMAIN disk.files[m] :
             IsWellFormed(disk.files[m][i]) /\ disk.files[m][i].body = Event(n)
      BY <1>1 DEF Holds
    <2>2. PICK i \in DOMAIN disk.files[m] :
             IsWellFormed(disk.files[m][i]) /\ disk.files[m][i].body = Event(n)
      BY <2>1
    <2>. PICK at : at = <<m, i>>
      OBVIOUS
    <2>3. at[1] = m /\ at[2] = i /\ at = <<at[1], at[2]>>
      OBVIOUS
    <2>4. DOMAIN disk.files[m] = 1 .. Len(disk.files[m])
      BY DEF Typed, Formed, Disks, Archives
    <2>5. at \in Positions(disk.files)
      BY <2>2, <2>3, <2>4, PositionsAre
    <2>6. at \in Intact(disk.files) /\ disk.files[at[1]][at[2]].body = Event(n)
      BY <2>2, <2>3, <2>5 DEF Intact
    <2>. QED  BY <2>6 DEF Recorded
  <1>2. HoldsHard(disk, n) => Holds(disk, n)
    BY DEF Holds, HoldsHard
  <1>. QED  BY <1>1, <1>2

\* For any number of processes, months and appends, and through every failure of a
\* system call, crash and loss of power: an append that returned has its event in
\* the log unless power was lost since, and one that asked for an immediate flush
\* has it for good (append and writeEventRaw of audit-log.ts), if write(2) cuts no
\* line short without an error.
THEOREM AcknowledgedIsKept == (ShortWrites = FALSE) => (Spec => []AckedIsKept)
  <1>1. AInv => AckedIsKept
    <2>. SUFFICES ASSUME AInv, ~raced PROVE AckedIsKept
      BY DEF AckedIsKept
    <2>1. lost \/ \A n \in acked : Recorded(n)
      BY HeldIsRecorded DEF AInv, Keeps
    <2>2. \A n \in hard : Recorded(n)
      BY HeldIsRecorded DEF AInv, Keeps
    <2>. QED  BY <2>1, <2>2 DEF AckedIsKept
  <1>. QED  BY <1>1, Invariance, PTL

-----------------------------------------------------------------------------
(* The chain on the disk, and a reader beside its writer. *)

\* Files that only grow at their end leave every reader where it was.
LEMMA BehindStays ==
  ASSUME NEW d, Formed(d), NEW e \in Disks, Grows(d, e), Whole(d), Whole(e),
         NEW rd \in Readers, Behind(d, rd)
  PROVE  Behind(e, rd)
  <1>. PICK here : here = <<rd.month, rd.line>>
    OBVIOUS
  <1>. DEFINE sofar == {b \in Positions(d.files) : Before(b, here)}
  <1>1. /\ d \in Disks /\ d.files \in Archives /\ e.files \in Archives
        /\ d.newest \in Nat /\ e.newest \in Nat /\ d.newest <= e.newest
    BY DEF Formed, Disks, Grows
  <1>2. /\ rd.month \in Months /\ rd.month \in Nat /\ rd.month >= 1 /\ rd.line \in Nat /\ rd.newest \in Nat
        /\ here[1] = rd.month /\ here[2] = rd.line
    BY BoundAssumption DEF Readers, Months
  <1>3. Intact(d.files) = Positions(d.files) /\ Intact(e.files) = Positions(e.files)
    BY ChainedMeans DEF Whole
  <1>4. \A m \in Months : /\ Len(d.files[m]) \in Nat /\ DOMAIN d.files[m] = 1 .. Len(d.files[m])
                          /\ Len(e.files[m]) \in Nat /\ DOMAIN e.files[m] = 1 .. Len(e.files[m])
    BY <1>1 DEF Archives
  <1>5. ASSUME NEW b \in Positions(d.files)
        PROVE  b \in Positions(e.files) /\ e.files[b[1]][b[2]] = d.files[b[1]][b[2]]
    <2>1. b = <<b[1], b[2]>> /\ b[1] \in Months /\ b[2] \in DOMAIN d.files[b[1]]
      BY <1>1, PositionTyped
    <2>2. b[2] \in DOMAIN e.files[b[1]] /\ e.files[b[1]][b[2]] = d.files[b[1]][b[2]]
      BY <2>1 DEF Grows
    <2>. QED  BY <1>4, <2>1, <2>2, PositionsAre
  <1>6. ASSUME NEW b \in Positions(e.files), Before(b, here) PROVE b \in Positions(d.files)
    <2>1. /\ b = <<b[1], b[2]>> /\ b[1] \in Months /\ b[2] \in DOMAIN e.files[b[1]]
          /\ b[1] \in Nat /\ b[2] \in Nat
      BY <1>1, PositionTyped
    <2>2. CASE b[1] < rd.month
      <3>1. rd.month <= d.newest
        BY <1>1, <1>2, <2>1, <2>2 DEF Behind, Months
      <3>2. b[1] < d.newest
        BY <1>1, <1>2, <2>1, <2>2, <3>1
      <3>3. e.files[b[1]] = d.files[b[1]]
        BY <2>1, <3>2 DEF Grows
      <3>. QED  BY <1>4, <2>1, <3>3, PositionsAre
    <2>3. CASE b[1] = rd.month /\ b[2] < rd.line
      <3>1. rd.line <= Len(d.files[rd.month]) + 1 /\ Len(d.files[rd.month]) \in Nat
        BY <1>2, <1>4 DEF Behind
      <3>2. b[2] \in 1 .. Len(d.files[rd.month])
        BY <1>2, <1>4, <2>1, <2>3, <3>1
      <3>. QED  BY <2>1, <2>3, <3>2, PositionsAre
    <2>. QED  BY <1>2, <1>6, <2>2, <2>3 DEF Before
  <1>7. Predecessor(e.files, here) = Predecessor(d.files, here)
    <2>1. {b \in Intact(d.files) : Before(b, here)} = sofar
      BY <1>3
    <2>2. {b \in Intact(e.files) : Before(b, here)} = sofar
      BY <1>3, <1>5, <1>6
    <2>3. sofar \subseteq Positions(d.files)
      OBVIOUS
    <2>. HIDE DEF sofar
    <2>4. LineAt(e.files, sofar) = LineAt(d.files, sofar)
      BY <1>1, <1>5, <2>3, LineAtAgrees
    <2>. QED  BY <2>1, <2>2, <2>4 DEF Predecessor
  <1>8. rd.newest <= e.newest
    BY <1>1, <1>2 DEF Behind
  <1>9. rd.line <= Len(e.files[rd.month]) + 1
    <2>. PICK k, l : k = Len(d.files[rd.month]) /\ l = Len(e.files[rd.month])
      OBVIOUS
    <2>1. k \in Nat /\ l \in Nat /\ 1 .. k \subseteq 1 .. l /\ rd.line <= k + 1
      BY <1>2, <1>4 DEF Grows, Behind
    <2>2. k = 0 \/ k \in 1 .. l
      BY <2>1
    <2>. QED  BY <1>2, <2>1, <2>2
  <1>. QED  BY <1>7, <1>8, <1>9 DEF Behind

\* A reader that starts has nothing behind it.
LEMMA BehindNothing ==
  ASSUME NEW files \in Archives
  PROVE  Predecessor(files, <<1, 1>>) = NoLine
  <1>1. ASSUME NEW b \in Intact(files) PROVE ~Before(b, <<1, 1>>)
    <2>1. b \in Positions(files)
      BY DEF Intact
    <2>2. b[1] \in Months /\ b[2] \in 1 .. Len(files[b[1]]) /\ b[1] \in Nat /\ b[2] \in Nat
      BY <2>1, PositionsAre, PositionTyped
    <2>3. b[1] >= 1 /\ b[2] >= 1
      BY <2>2, BoundAssumption DEF Months
    <2>. QED  BY <2>2, <2>3 DEF Before
  <1>2. {b \in Intact(files) : Before(b, <<1, 1>>)} = {}
    BY <1>1
  <1>. QED  BY <1>2 DEF Predecessor, LineAt

\* The line before the next one of a file is the one just read.
LEMMA BehindNextLine ==
  ASSUME NEW files \in Archives, Chained(files), NEW m \in Months, NEW i \in 1 .. Len(files[m])
  PROVE  /\ Predecessor(files, <<m, i + 1>>) = files[m][i]
         /\ CarriesOn(files[m][i], Predecessor(files, <<m, i>>).seq, Predecessor(files, <<m, i>>).hash)
  <1>. PICK at : at = <<m, i>>
    OBVIOUS
  <1>. PICK next : next = <<m, i + 1>>
    OBVIOUS
  <1>1. at[1] = m /\ at[2] = i /\ at = <<at[1], at[2]>> /\ next[1] = m /\ next[2] = i + 1
    OBVIOUS
  <1>2. at \in Positions(files)
    BY <1>1, PositionsAre
  <1>3. /\ Intact(files) = Positions(files)
        /\ CarriesOn(files[at[1]][at[2]], Predecessor(files, at).seq, Predecessor(files, at).hash)
    BY <1>2, ChainedMeans
  <1>4. at[1] \in Nat /\ at[2] \in Nat
    BY <1>2, PositionTyped
  <1>. DEFINE sofar == {b \in Intact(files) : Before(b, next)}
  <1>5. \A b \in sofar : /\ b = <<b[1], b[2]>> /\ b[1] \in Nat /\ b[2] \in Nat
                         /\ b \in Nat \X Nat /\ Before(b, next)
    BY <1>3, PositionTyped
  <1>6. at \in sofar
    BY <1>1, <1>2, <1>3, <1>4 DEF Before
  <1>7. ASSUME NEW b \in sofar PROVE b = at \/ Before(b, at)
    <2>1. /\ b = <<b[1], b[2]>> /\ b[1] \in Nat /\ b[2] \in Nat
          /\ b[1] < m \/ (b[1] = m /\ b[2] < i + 1)
      BY <1>1, <1>5 DEF Before
    <2>2. b[1] < m \/ (b[1] = m /\ b[2] < i) \/ (b[1] = m /\ b[2] = i)
      BY <1>1, <1>4, <2>1
    <2>. QED  BY <1>1, <2>1, <2>2 DEF Before
  <1>8. sofar \subseteq Nat \X Nat /\ sofar # {}
    BY <1>5, <1>6
  <1>9. LineAt(files, sofar) = files[m][i]
    <2>. HIDE DEF sofar
    <2>1. LastAt(sofar) = at
      BY <1>6, <1>7, <1>8, LastAtIs
    <2>. QED  BY <1>1, <1>8, <2>1 DEF LineAt
  <1>. QED  BY <1>1, <1>3, <1>9 DEF Predecessor

\* The line before the first one of the next file is the one before the end of this.
LEMMA BehindNextFile ==
  ASSUME NEW files \in Archives, NEW m \in Months, NEW l, l = Len(files[m]) + 1
  PROVE  Predecessor(files, <<m + 1, 1>>) = Predecessor(files, <<m, l>>)
  <1>. PICK here : here = <<m, l>>
    OBVIOUS
  <1>. PICK next : next = <<m + 1, 1>>
    OBVIOUS
  <1>1. here[1] = m /\ here[2] = l /\ next[1] = m + 1 /\ next[2] = 1 /\ m \in Nat /\ Len(files[m]) \in Nat
    BY MonthsAreNat DEF Archives
  <1>2. ASSUME NEW b \in Intact(files) PROVE Before(b, next) <=> Before(b, here)
    <2>1. b \in Positions(files)
      BY DEF Intact
    <2>2. b[1] \in Nat /\ b[2] \in Nat /\ b[2] \in 1 .. Len(files[b[1]])
      BY <2>1, PositionTyped, PositionsAre
    <2>3. b[1] = m => b[2] < l
      BY <1>1, <2>2
    <2>4. ~(b[1] = m + 1 /\ b[2] < 1)
      BY <2>2
    <2>5. b[1] < m + 1 <=> b[1] < m \/ b[1] = m
      BY <1>1, <2>2
    <2>. QED  BY <1>1, <2>3, <2>4, <2>5 DEF Before
  <1>3. {b \in Intact(files) : Before(b, next)} = {b \in Intact(files) : Before(b, here)}
    BY <1>2
  <1>. QED  BY <1>3 DEF Predecessor

LEMMA ReadingFollows ==
  ASSUME Typed, Whole(disk), reader.verdict # "break", Follows, StartVerify \/ VerifyLine
  PROVE  reader'.verdict # "break" /\ Follows'
  <1>1. /\ disk' = disk /\ disk.files \in Archives /\ disk.newest \in Nat
        /\ reader \in Readers /\ Chained(disk.files)
    BY DEF StartVerify, VerifyLine, Typed, Formed, Disks, Whole
  <1>. PICK files : files = disk.files
    OBVIOUS
  <1>2. \A v \in {"torn_line", "ok"} : /\ [NoReader EXCEPT !.verdict = v].verdict # "break"
                                       /\ [NoReader EXCEPT !.verdict = v].verdict # "walking"
    BY DEF NoReader
  <1>3. CASE StartVerify
    <2>1. /\ reader'.verdict = "walking" /\ reader'.newest = disk.newest
          /\ reader'.month = 1 /\ reader'.line = 1 /\ reader'.seq = 0 /\ reader'.head = Genesis
      BY <1>3 DEF StartVerify, NoReader
    <2>2. Predecessor(files, <<1, 1>>) = NoLine
      BY <1>1, BehindNothing
    <2>3. Len(files[1]) \in Nat
      BY <1>1, BoundAssumption DEF Archives, Months
    <2>4. 1 <= Len(files[1]) + 1 /\ disk.newest <= disk.newest
      BY <1>1, <2>3
    <2>5. Behind(disk', reader')
      BY <1>1, <2>1, <2>2, <2>4 DEF Behind, NoLine
    <2>. QED  BY <2>1, <2>5 DEF Follows, Behind
  <1>4. CASE VerifyLine
    <2>. PICK m : m = reader.month
      OBVIOUS
    <2>. PICK i : i = reader.line
      OBVIOUS
    <2>. PICK pred : pred = Predecessor(files, <<m, i>>)
      OBVIOUS
    <2>1. /\ m \in Months /\ m \in Nat /\ i \in Nat /\ i # 0 /\ reader.newest \in Nat
          /\ Len(files[m]) \in Nat /\ files[m] \in Seq(Lines)
      BY <1>1, MonthsAreNat DEF Readers, Archives
    <2>2. /\ reader.verdict = "walking" /\ reader.seq = pred.seq /\ reader.head = pred.hash
          /\ reader.newest <= disk.newest /\ i <= Len(files[m]) + 1
          /\ m <= reader.newest \/ m = 1
      BY <1>4 DEF VerifyLine, Follows, Behind
    <2>3. CASE i <= Len(files[m])
      <3>1. i \in 1 .. Len(files[m])
        BY <2>1, <2>3
      <3>2. /\ Predecessor(files, <<m, i + 1>>) = files[m][i]
            /\ CarriesOn(files[m][i], reader.seq, reader.head)
        BY <1>1, <2>1, <2>2, <3>1, BehindNextLine
      <3>. PICK line : line = files[m][i]
        OBVIOUS
      <3>. PICK next, seq, head : next = i + 1 /\ seq = line.seq /\ head = line.hash
        OBVIOUS
      <3>3. reader' = [reader EXCEPT !.line = next, !.seq = seq, !.head = head]
        BY <1>4, <2>1, <2>3, <3>2 DEF VerifyLine
      <3>4. /\ reader'.verdict = "walking" /\ reader'.newest = reader.newest /\ reader'.month = m
            /\ reader'.line = next /\ reader'.seq = seq /\ reader'.head = head
        BY <1>1, <2>2, <3>3 DEF Readers
      <3>5. next <= Len(files[m]) + 1
        BY <2>1, <2>3
      <3>6. Behind(disk', reader')
        BY <1>1, <2>2, <3>2, <3>4, <3>5 DEF Behind
      <3>. QED  BY <3>4, <3>6 DEF Follows, Behind
    <2>4. CASE ~(i <= Len(files[m])) /\ reader' = [reader EXCEPT !.month = @ + 1, !.line = 1] /\ m < reader.newest
      <3>1. i = Len(files[m]) + 1
        BY <2>1, <2>2, <2>4
      <3>2. Predecessor(files, <<m + 1, 1>>) = pred
        BY <1>1, <2>1, <3>1, BehindNextFile
      <3>. PICK next, one : next = m + 1 /\ one = 1
        OBVIOUS
      <3>3. /\ reader'.verdict = "walking" /\ reader'.newest = reader.newest /\ reader'.month = next
            /\ reader'.line = one /\ reader'.seq = reader.seq /\ reader'.head = reader.head
        BY <1>1, <2>2, <2>4 DEF Readers
      <3>4. next <= reader.newest /\ next \in Months
        <4>1. next <= reader.newest /\ reader.newest \in 0 .. MaxMonth
          BY <1>1, <2>1, <2>4 DEF Readers
        <4>. QED  BY <2>1, <4>1, BoundAssumption DEF Months
      <3>5. one <= Len(files[next]) + 1
        <4>1. Len(files[next]) \in Nat
          BY <1>1, <3>4 DEF Archives
        <4>. QED  BY <4>1
      <3>6. Behind(disk', reader')
        BY <1>1, <2>2, <3>2, <3>3, <3>4, <3>5 DEF Behind
      <3>. QED  BY <3>3, <3>6 DEF Follows, Behind
    <2>5. CASE \E v \in {"torn_line", "ok"} : reader' = [NoReader EXCEPT !.verdict = v]
      BY <1>2, <2>5 DEF Follows
    <2>6. \/ i <= Len(files[m])
          \/ ~(i <= Len(files[m])) /\ \E v \in {"torn_line", "ok"} : reader' = [NoReader EXCEPT !.verdict = v]
          \/ ~(i <= Len(files[m])) /\ reader' = [reader EXCEPT !.month = @ + 1, !.line = 1] /\ m < reader.newest
      BY <1>4, <2>1 DEF VerifyLine
    <2>. QED  BY <2>3, <2>4, <2>5, <2>6
  <1>. QED  BY <1>3, <1>4

\* Once the earlier files are flushed, a loss of power leaves the first of the lines.
LEMMA PowerLossLeaves ==
  ASSUME Typed, ~Unsettled, PowerLoss
  PROVE  Initial(disk'.files, disk.files)
  <1>1. PICK keep \in Marks :
           \A m \in Months :
                /\ disk.synced[m] <= keep[m] /\ keep[m] <= Len(disk.files[m])
                /\ DOMAIN disk'.files[m] = 1 .. keep[m] /\ Len(disk'.files[m]) = keep[m]
                /\ \A i \in 1 .. keep[m] : disk'.files[m][i] = disk.files[m][i]
    BY PowerLossIs
  <1>2. \A m, n \in Months : m < n /\ disk.files[n] # <<>> => disk.synced[m] = Len(disk.files[m])
    BY DEF PowerLoss
  <1>. PICK files : files = disk.files
    OBVIOUS
  <1>. PICK shorter : shorter = disk'.files
    OBVIOUS
  <1>3. /\ files \in Archives
        /\ \A m \in Months : /\ files[m] \in Seq(Lines) /\ keep[m] \in Nat
                             /\ Len(files[m]) \in Nat /\ disk.synced[m] \in Nat
    BY DEF Typed, Formed, Disks, Archives, Marks
  <1>4. \A m, n \in Months : m < n /\ files[n] # <<>> => keep[m] = Len(files[m])
    BY <1>1, <1>2, <1>3
  <1>5. ASSUME NEW at \in Positions(shorter)
        PROVE  /\ at \in Positions(files) /\ shorter[at[1]][at[2]] = files[at[1]][at[2]]
               /\ at[1] \in Months /\ at[1] \in Nat /\ at[2] \in Nat
               /\ at[2] <= keep[at[1]] /\ files[at[1]] # <<>>
    <2>. PICK m, i : m = at[1] /\ i = at[2]
      OBVIOUS
    <2>1. at = <<m, i>> /\ m \in Months /\ i \in 1 .. Len(shorter[m])
      BY PositionsAre
    <2>2. i \in 1 .. keep[m] /\ i \in 1 .. Len(files[m]) /\ i \in Nat /\ m \in Nat
      BY <1>1, <1>3, <2>1, MonthsAreNat
    <2>3. files[m] # <<>>
      BY <2>2, EmptySeq
    <2>4. shorter[m][i] = files[m][i]
      BY <1>1, <2>1, <2>2
    <2>5. keep[m] \in Nat
      BY <1>3, <2>1
    <2>6. i <= keep[m]
      BY <2>2, <2>5
    <2>7. at \in Positions(files)
      BY <2>1, <2>2, PositionsAre
    <2>. QED  BY <2>1, <2>2, <2>3, <2>4, <2>6, <2>7
  <1>6. ASSUME NEW at \in Positions(shorter), NEW b \in Positions(files), Before(b, at)
        PROVE  b \in Positions(shorter)
    <2>. PICK m, i : m = b[1] /\ i = b[2]
      OBVIOUS
    <2>1. b = <<m, i>> /\ m \in Months /\ i \in 1 .. Len(files[m]) /\ m \in Nat
      BY PositionsAre, MonthsAreNat
    <2>2. i \in 1 .. keep[m]
      <3>1. CASE m < at[1]
        BY <1>4, <1>5, <2>1, <3>1
      <3>2. CASE m = at[1] /\ i < at[2]
        <4>1. at[2] <= keep[m] /\ at[2] \in Nat /\ keep[m] \in Nat
          BY <1>3, <1>5, <2>1, <3>2
        <4>. QED  BY <2>1, <3>2, <4>1
      <3>. QED  BY <1>6, <3>1, <3>2 DEF Before
    <2>. QED  BY <1>1, <2>1, <2>2, PositionsAre
  <1>. QED  BY <1>5, <1>6 DEF Initial

\* So what is left of a chain is a chain.
LEMMA PowerLossWhole ==
  ASSUME Typed, ~Unsettled, Whole(disk), PowerLoss
  PROVE  Whole(disk')
  <1>1. PICK keep \in Marks :
           /\ disk' \in Disks
           /\ \A m \in Months :
                /\ disk.synced[m] <= keep[m] /\ keep[m] <= Len(disk.files[m])
                /\ disk.files[m] = <<>> => disk'.files[m] = <<>>
           /\ \/ disk'.torn \in {0, disk.torn}
              \/ disk'.torn \in Months /\ keep[disk'.torn] < Len(disk.files[disk'.torn])
    BY PowerLossIs
  <1>2. \A m, n \in Months : m < n /\ disk.files[n] # <<>> => disk.synced[m] = Len(disk.files[m])
    BY DEF PowerLoss
  <1>. PICK files : files = disk.files
    OBVIOUS
  <1>3. /\ files \in Archives /\ Chained(files)
        /\ \A m \in Months : /\ files[m] \in Seq(Lines) /\ keep[m] \in Nat
                             /\ Len(files[m]) \in Nat /\ disk.synced[m] \in Nat
    BY DEF Typed, Formed, Disks, Whole, Archives, Marks
  <1>4. \A m, n \in Months : m < n /\ files[n] # <<>> => keep[m] = Len(files[m])
    BY <1>1, <1>2, <1>3
  <1>5. Chained(disk'.files)
    BY <1>3, PowerLossLeaves, ChainShrinks
  <1>6. ASSUME disk'.torn # 0, NEW m \in Months, m > disk'.torn PROVE disk'.files[m] = <<>>
    <2>1. CASE disk'.torn = disk.torn
      <3>1. disk.files[m] = <<>>
        BY <1>6, <2>1 DEF Whole
      <3>. QED  BY <1>1, <3>1
    <2>2. ASSUME disk'.torn \in Months, keep[disk'.torn] < Len(disk.files[disk'.torn])
          PROVE  disk'.files[m] = <<>>
      <3>. PICK t : t = disk'.torn
        OBVIOUS
      <3>1. t \in Months /\ t \in Nat /\ m \in Nat /\ t < m /\ keep[t] < Len(files[t])
        BY <1>6, <2>2, MonthsAreNat
      <3>2. files[m] = <<>>
        BY <1>3, <1>4, <3>1
      <3>. QED  BY <1>1, <3>2
    <2>. QED  BY <1>1, <1>6, <2>1, <2>2
  <1>. QED  BY <1>5, <1>6 DEF Whole

\* What the growth of the files leaves to show.
LEMMA GrowsChained ==
  ASSUME Typed, Typed', CInv, ~raced, Grows(disk, disk'), Whole(disk'), reader' = reader,
         \A q \in Proc : pc'[q] = "open" => Linked([d |-> disk', s |-> sink'[q]])
  PROVE  CInv'
  <1>1. Formed(disk) /\ disk' \in Disks /\ reader \in Readers
    BY DEF Typed, Formed
  <1>2. Whole(disk) /\ reader.verdict # "break" /\ Follows
    BY DEF CInv
  <1>3. reader.verdict = "walking" => Behind(disk', reader)
    BY <1>1, <1>2, BehindStays DEF Follows
  <1>4. reader'.verdict # "break" /\ Follows'
    BY <1>2, <1>3 DEF Follows, Behind
  <1>5. \A q \in Proc : pc'[q] = "open" => Linked(World(q))'
    BY WorldNext
  <1>6. Whole(disk)'
    BY DEF Whole
  <1>. QED  BY <1>4, <1>5, <1>6 DEF CInv

LEMMA LinkedIs ==
  ASSUME NEW d, NEW s
  PROVE  Linked([d |-> d, s |-> s]) <=>
            /\ d.torn = 0
            /\ s.broken \/ (/\ s.seq = LineAt(d.files, Intact(d.files)).seq
                            /\ s.head = LineAt(d.files, Intact(d.files)).hash)
  BY DEF Linked, AtEnd

LEMMA ChainNext ==
  ASSUME ~ShortWrites, ~Unsettled, AInv, CInv, [Next]_vars
  PROVE  CInv'
  <1>0. Typed /\ Typed' /\ Excludes /\ Keeps
    BY TypedNext DEF AInv
  <1>. SUFFICES ASSUME ~raced' PROVE CInv'
    BY DEF CInv
  <1>1. /\ ~raced /\ disk \in Disks /\ disk' \in Disks /\ Formed(disk)
        /\ pc \in [Proc -> Places] /\ sink \in [Proc -> Sinks] /\ now' \in Nat /\ now \in Nat
    BY <1>0, RacedStays, MonthsAreNat DEF Typed, Formed
  <1>2. Whole(disk) /\ Grows(disk, disk) /\ reader.verdict # "break" /\ Follows
    BY <1>1, FormedGrows DEF CInv
  <1>3. \A q \in Proc : pc[q] = "open" => Linked([d |-> disk, s |-> sink[q]])
    BY <1>1 DEF CInv, World
  <1>4. ASSUME NEW p \in Proc, Process(p) PROVE CInv'
    <2>1. CASE CreateLock(p) \/ WriteLockPid(p) \/ ReadLockPid(p) \/ TakeOver(p)
      <3>1. /\ UNCHANGED <<disk, sink, reader>>
            /\ \A q \in Proc : pc'[q] = "open" => pc[q] = "open"
        BY <1>1, <2>1 DEF CreateLock, WriteLockPid, ReadLockPid, TakeOver, Goto
      <3>. QED  BY <1>0, <1>1, <1>2, <1>3, <3>1, GrowsChained
    <2>2. CASE OpenLog(p)
      <3>1. PICK r \in RecoverFromBrokenState(World(p)) :
              /\ Recovers(World(p), r) /\ disk' = r.w.d
              /\ \/ /\ r.ok /\ pc' = [pc EXCEPT ![p] = "open"] /\ lock' = lock
                    /\ r.w = [d |-> disk', s |-> sink'[p]]
                 \/ pc' = [pc EXCEPT ![p] = "gone"] /\ lock' = NoLock
        BY <1>0, <2>2, OpenLeaves
      <3>2. pc[p] = "owner" /\ reader' = reader
        BY <2>2 DEF OpenLog
      <3>3. \A q \in Proc : pc[q] # "open"
        BY <1>0, <1>1, <3>2, Alone
      <3>4. Grows(disk, disk') /\ Whole(disk')
        BY <1>0, <1>2, <3>1, WorldsFit DEF Recovers
      <3>5. ASSUME NEW q \in Proc, pc'[q] = "open" PROVE Linked([d |-> disk', s |-> sink'[q]])
        <4>1. q = p /\ r.ok /\ r.w = [d |-> disk', s |-> sink'[p]]
          BY <1>1, <3>1, <3>3, <3>5
        <4>2. Whole(World(p).d)
          BY <1>0, <1>2, WorldsFit
        <4>. QED  BY <3>1, <4>1, <4>2 DEF Recovers
      <3>. QED  BY <1>0, <1>1, <3>2, <3>4, <3>5, GrowsChained
    <2>3. ASSUME NEW immediate \in BOOLEAN, AppendEvent(p, immediate) PROVE CInv'
      <3>1. PICK r \in AppendOutcomes(World(p), issued + 1, immediate) :
              /\ disk' = r.w.d /\ r.w = [d |-> disk', s |-> sink'[p]]
              /\ Fit(World(p)) /\ now \in Months /\ issued + 1 \in Nat
        BY <1>0, <2>3, AppendLeaves
      <3>2. pc[p] = "open" /\ pc' = pc /\ reader' = reader
        BY <2>3 DEF AppendEvent
      <3>3. World(p).d = disk /\ Solo(World(p)) /\ Tied(World(p))
        BY <1>0, <1>1, <1>2, <3>2, WorldsFit DEF Keeps, CInv, Tied
      <3>4. Grows(disk, disk') /\ Tied(r.w)
        BY <3>1, <3>3, AppendSound
      <3>5. ASSUME NEW q \in Proc, pc'[q] = "open" PROVE Linked([d |-> disk', s |-> sink'[q]])
        <4>1. q = p
          BY <1>0, <1>1, <3>2, <3>5, Alone
        <4>. QED  BY <3>1, <3>4, <4>1 DEF Tied
      <3>6. Whole(disk')
        BY <3>1, <3>4 DEF Tied
      <3>. QED  BY <1>0, <1>1, <3>2, <3>4, <3>5, <3>6, GrowsChained
    <2>4. CASE FsyncTimer(p) \/ Flush(p)
      <3>1. /\ pc[p] = "open" /\ now' = now /\ pc' = pc /\ reader' = reader
            /\ FsyncAttempt(p, [sink[p] EXCEPT !.timer = FALSE])
        BY <2>4 DEF FsyncTimer, Flush
      <3>2. /\ disk' = disk \/ disk' = Fsync(World(p)).d
            /\ sink'[p].seq = sink[p].seq /\ sink'[p].head = sink[p].head
            /\ sink[p].broken => sink'[p].broken
        BY <1>0, <3>1, FsyncAttemptIs
      <3>3. disk'.files = disk.files /\ disk'.torn = disk.torn /\ Grows(disk, disk')
        BY <1>0, <3>1, <3>2, FlushedIs
      <3>4. ASSUME NEW q \in Proc, pc'[q] = "open" PROVE Linked([d |-> disk', s |-> sink'[q]])
        <4>1. q = p
          BY <1>0, <1>1, <3>1, <3>4, Alone
        <4>2. Linked([d |-> disk, s |-> sink[p]])
          BY <1>3, <3>1
        <4>3. Linked([d |-> disk', s |-> sink'[p]])
          BY <3>2, <3>3, <4>2, LinkedIs
        <4>. QED  BY <4>1, <4>3
      <3>5. Whole(disk')
        BY <1>2, <3>3 DEF Whole
      <3>. QED  BY <1>0, <1>1, <3>1, <3>3, <3>4, <3>5, GrowsChained
    <2>5. CASE Close(p)
      <3>1. /\ pc[p] = "open" /\ pc' = [pc EXCEPT ![p] = "gone"]
            /\ disk' = disk \/ disk' = Fsync(World(p)).d
        BY <1>0, <2>5, CloseLeaves
      <3>2. now' = now /\ reader' = reader
        BY <2>5 DEF Close
      <3>3. disk'.files = disk.files /\ disk'.torn = disk.torn /\ Grows(disk, disk')
        BY <1>0, <3>1, <3>2, FlushedIs
      <3>4. \A q \in Proc : pc'[q] # "open"
        BY <1>0, <1>1, <3>1, Alone
      <3>5. Whole(disk')
        BY <1>2, <3>3 DEF Whole
      <3>. QED  BY <1>0, <1>1, <3>2, <3>3, <3>4, <3>5, GrowsChained
    <2>6. CASE Crash(p)
      <3>1. /\ pc' = [pc EXCEPT ![p] = "gone"]
            /\ disk' = disk \/ (pc[p] = "open" /\ disk'.torn = now)
            /\ disk'.files = disk.files /\ disk'.synced = disk.synced /\ disk'.newest = disk.newest
        BY <1>0, <2>6, CrashLeaves
      <3>2. reader' = reader /\ \A q \in Proc : q # p => sink'[q] = sink[q]
        BY <1>1, <2>6 DEF Crash
      <3>3. Grows(disk, disk')
        BY <1>2, <3>1 DEF Grows
      <3>4. ASSUME NEW q \in Proc, pc'[q] = "open" PROVE Linked([d |-> disk', s |-> sink'[q]])
        <4>1. q # p /\ pc[q] = "open" /\ sink'[q] = sink[q]
          BY <1>1, <3>1, <3>2, <3>4
        <4>2. disk' = disk
          BY <1>0, <1>1, <3>1, <4>1, Alone
        <4>. QED  BY <1>3, <4>1, <4>2
      <3>5. Whole(disk')
        <4>1. CASE disk' = disk
          BY <1>2, <4>1
        <4>2. CASE disk'.torn = now
          <5>1. disk.newest \in Nat /\ disk.newest <= now
            BY <1>1 DEF Formed, Disks
          <5>2. ASSUME NEW m \in Months, m > now PROVE disk.files[m] = <<>>
            <6>1. m > disk.newest
              BY <1>1, <5>1, <5>2, MonthsAreNat
            <6>. QED  BY <1>1, <6>1 DEF Formed
          <5>. QED  BY <1>2, <3>1, <4>2, <5>2 DEF Whole
        <4>. QED  BY <3>1, <4>1, <4>2
      <3>. QED  BY <1>0, <1>1, <3>2, <3>3, <3>4, <3>5, GrowsChained
    <2>. QED  BY <1>4, <2>1, <2>2, <2>3, <2>4, <2>5, <2>6 DEF Process
  <1>5. CASE PowerLoss
    <2>1. Whole(disk')
      BY <1>0, <1>2, <1>5, PowerLossWhole
    <2>2. reader' = NoReader /\ \A q \in Proc : pc'[q] # "open"
      BY <1>5 DEF PowerLoss
    <2>3. reader'.verdict = "none"
      BY <2>2 DEF NoReader
    <2>4. Whole(disk)' /\ Follows'
      BY <2>1, <2>3 DEF Whole, Follows
    <2>. QED  BY <2>2, <2>3, <2>4 DEF CInv
  <1>6. CASE StartVerify \/ VerifyLine
    <2>1. UNCHANGED <<disk, sink, pc>>
      BY <1>6 DEF StartVerify, VerifyLine
    <2>2. reader'.verdict # "break" /\ Follows'
      BY <1>0, <1>2, <1>6, ReadingFollows
    <2>3. \A q \in Proc : pc'[q] = "open" => Linked(World(q))'
      BY <1>3, <2>1, WorldNext
    <2>4. Whole(disk)'
      BY <1>2, <2>1 DEF Whole
    <2>. QED  BY <2>2, <2>3, <2>4 DEF CInv
  <1>7. CASE NextMonth \/ UNCHANGED vars
    <2>1. UNCHANGED <<disk, sink, pc, reader>>
      BY <1>7 DEF NextMonth, vars
    <2>. QED  BY <1>0, <1>1, <1>2, <1>3, <2>1, GrowsChained
  <1>. QED  BY <1>4, <1>5, <1>6, <1>7 DEF Next

LEMMA ChainInit == Init => CInv
  <1>. SUFFICES ASSUME Init PROVE CInv
    OBVIOUS
  <1>1. /\ disk.torn = 0 /\ reader.verdict = "none" /\ \A p \in Proc : pc[p] # "open"
        /\ \A m \in Months : disk.files[m] = <<>>
    BY DEF Init, Disk, NoReader
  <1>2. Positions(disk.files) = {}
    <2>. SUFFICES ASSUME NEW at \in Positions(disk.files) PROVE FALSE
      OBVIOUS
    <2>1. at[1] \in Months /\ at[2] \in 1 .. Len(disk.files[at[1]])
      BY PositionsAre
    <2>. QED  BY <1>1, <2>1
  <1>3. Whole(disk)
    BY <1>1, <1>2 DEF Whole, Chained, Breaks
  <1>. QED  BY <1>1, <1>3 DEF CInv, Follows

LEMMA ChainAlways ==
  ASSUME ShortWrites = FALSE, Unsettled = FALSE
  PROVE  Spec => [](AInv /\ CInv)
  <1>1. Init => AInv /\ CInv
    BY TypedInit, AcknowledgedInit, ChainInit DEF AInv
  <1>2. AInv /\ CInv /\ [Next]_vars => (AInv /\ CInv)'
    <2>. SUFFICES ASSUME AInv, CInv, [Next]_vars PROVE AInv' /\ CInv'
      OBVIOUS
    <2>. QED  BY TypedNext, ExcludesNext, KeepsNext, ChainNext DEF AInv
  <1>. QED  BY <1>1, <1>2, PTL DEF Spec

\* The chain of hashes on the disk never breaks, for any number of processes, months
\* and appends, across rotations, failed calls, recoveries, crashes and takeovers
\* (writeEventRaw, recoverFromBrokenState and bootstrapChainState of audit-log.ts), if
\* write(2) cuts no line short without an error and power is lost only once the lines
\* of earlier files have been flushed.
THEOREM ChainStaysIntact == ShortWrites = FALSE /\ Unsettled = FALSE => (Spec => []ChainIntact)
  <1>. SUFFICES ASSUME ShortWrites = FALSE, Unsettled = FALSE PROVE Spec => []ChainIntact
    OBVIOUS
  <1>1. CInv => ChainIntact
    BY DEF CInv, Whole, ChainIntact
  <1>. QED  BY <1>1, ChainAlways, PTL

\* Under the same conditions a verification that takes no lock and runs beside the
\* writer never reports the log as tampered with (verifyAuditChain of audit-log.ts).
THEOREM ReaderIsNotAlarmed == ShortWrites = FALSE /\ Unsettled = FALSE => (Spec => []ReaderSeesNoBreak)
  <1>. SUFFICES ASSUME ShortWrites = FALSE, Unsettled = FALSE PROVE Spec => []ReaderSeesNoBreak
    OBVIOUS
  <1>1. CInv => ReaderSeesNoBreak
    BY DEF CInv, ReaderSeesNoBreak
  <1>. QED  BY <1>1, ChainAlways, PTL

-----------------------------------------------------------------------------
(* The lines in their order. *)

\* If every element of a finite set comes with those up to it, the sizes of these
\* are the places 1, 2 and so on of the elements.
LEMMA PlacesAre ==
  ASSUME NEW S, IsFiniteSet(S), NEW down \in [S -> SUBSET S],
         \A x \in S : x \in down[x],
         \A x, y \in S : \/ x = y
                         \/ down[x] \subseteq down[y] /\ y \notin down[x]
                         \/ down[y] \subseteq down[x] /\ x \notin down[y]
  PROVE  /\ Cardinality(S) \in Nat
         /\ \A x \in S : Cardinality(down[x]) \in 1 .. Cardinality(S)
         /\ \A x, y \in S : x # y => Cardinality(down[x]) # Cardinality(down[y])
         /\ \A k \in 1 .. Cardinality(S) : \E x \in S : Cardinality(down[x]) = k
  <1>. DEFINE n == Cardinality(S)
              place == [x \in S |-> Cardinality(down[x])]
  <1>1. n \in Nat
    BY FS_CardinalityType
  <1>2. \A x \in S : IsFiniteSet(down[x]) /\ Cardinality(down[x]) \in 1 .. n
    <2>1. TAKE x \in S
    <2>2. IsFiniteSet(down[x]) /\ Cardinality(down[x]) <= n
      BY FS_Subset
    <2>3. Cardinality(down[x]) \in Nat
      BY <2>2, FS_CardinalityType
    <2>4. Cardinality(down[x]) # 0
      BY <2>2, FS_EmptySet
    <2>. QED  BY <1>1, <2>2, <2>3, <2>4
  <1>3. ASSUME NEW x \in S, NEW y \in S, down[x] \subseteq down[y], y \notin down[x]
        PROVE  Cardinality(down[x]) # Cardinality(down[y])
    <2>1. down[x] \in SUBSET down[y] /\ down[x] # down[y]
      BY <1>3
    <2>. QED  BY <1>2, <2>1, FS_Subset
  <1>4. place \in Injection(S, 1 .. n)
    <2>1. place \in [S -> 1 .. n]
      BY <1>2
    <2>2. \A x, y \in S : place[x] = place[y] => x = y
      BY <1>3
    <2>. HIDE DEF place
    <2>. QED  BY <2>1, <2>2 DEF Injection, IsInjective
  <1>5. place \in Surjection(S, 1 .. n)
    <2>1. IsFiniteSet(1 .. n) /\ Cardinality(1 .. n) = n
      BY <1>1, FS_Interval
    <2>. HIDE DEF place
    <2>. QED  BY <1>4, <2>1, FS_Injection
  <1>6. \A k \in 1 .. n : \E x \in S : place[x] = k
    <2>. HIDE DEF place
    <2>. QED  BY <1>5 DEF Surjection
  <1>. QED  BY <1>1, <1>2, <1>3, <1>6

LEMMA PositionsFinite ==
  ASSUME NEW files \in Archives
  PROVE  IsFiniteSet(Positions(files))
  <1>. DEFINE Of(m) == {m} \X (1 .. Len(files[m]))
              columns == {Of(m) : m \in Months}
              column == [m \in Months |-> Of(m)]
  <1>1. IsFiniteSet(Months)
    BY BoundAssumption, FS_Interval DEF Months
  <1>2. IsFiniteSet(columns)
    <2>1. column \in Surjection(Months, columns)
      BY DEF Surjection
    <2>. QED  BY <1>1, <2>1, FS_Surjection
  <1>3. \A m \in Months : IsFiniteSet(Of(m))
    <2>1. TAKE m \in Months
    <2>2. Len(files[m]) \in Nat
      BY DEF Archives
    <2>3. IsFiniteSet(1 .. Len(files[m]))
      BY <2>2, FS_Interval
    <2>4. IsFiniteSet({m})
      BY FS_Singleton
    <2>. QED  BY <2>3, <2>4, FS_Product
  <1>4. IsFiniteSet(UNION columns)
    <2>1. \A T \in columns : IsFiniteSet(T)
      BY <1>3
    <2>. HIDE DEF columns
    <2>. QED  BY <1>2, <2>1, FS_UNION
  <1>. QED  BY <1>4 DEF Positions

\* The kth line is the one with k lines up to it.
LEMMA AtIs ==
  ASSUME NEW files \in Archives
  PROVE  /\ Cardinality(Positions(files)) \in Nat
         /\ \A at \in Positions(files) :
              /\ Cardinality(Upto(files, at)) \in 1 .. Cardinality(Positions(files))
              /\ At(files, Cardinality(Upto(files, at))) = at
         /\ \A k \in 1 .. Cardinality(Positions(files)) :
              At(files, k) \in Positions(files) /\ Cardinality(Upto(files, At(files, k))) = k
  <1>. PICK S : S = Positions(files)
    OBVIOUS
  <1>. DEFINE down == [at \in S |-> Upto(files, at)]
  <1>1. down \in [S -> SUBSET S] /\ \A at \in S : at \in down[at]
    BY DEF Upto
  <1>2. ASSUME NEW x \in S, NEW y \in S
        PROVE  \/ x = y
               \/ down[x] \subseteq down[y] /\ y \notin down[x]
               \/ down[y] \subseteq down[x] /\ x \notin down[y]
    <2>1. \A at \in S : at = <<at[1], at[2]>> /\ at[1] \in Nat /\ at[2] \in Nat
      BY PositionTyped
    <2>2. ASSUME NEW a \in S, NEW b \in S, Before(a, b)
          PROVE  down[a] \subseteq down[b] /\ b \notin down[a]
      <3>1. \A c \in S : c = a \/ Before(c, a) => Before(c, b)
        BY <2>1, <2>2 DEF Before
      <3>2. ~(b = a \/ Before(b, a))
        BY <2>1, <2>2 DEF Before
      <3>. QED  BY <3>1, <3>2 DEF Upto
    <2>3. x = y \/ Before(x, y) \/ Before(y, x)
      BY <2>1 DEF Before
    <2>. HIDE DEF down
    <2>. QED  BY <2>2, <2>3
  <1>3. IsFiniteSet(S)
    BY PositionsFinite
  <1>4. /\ Cardinality(S) \in Nat
        /\ \A x \in S : Cardinality(down[x]) \in 1 .. Cardinality(S)
        /\ \A x, y \in S : x # y => Cardinality(down[x]) # Cardinality(down[y])
        /\ \A k \in 1 .. Cardinality(S) : \E x \in S : Cardinality(down[x]) = k
    <2>. HIDE DEF down
    <2>. QED  BY <1>1, <1>2, <1>3, PlacesAre
  <1>5. /\ \A x \in S : Cardinality(Upto(files, x)) \in 1 .. Cardinality(S)
        /\ \A x, y \in S : x # y => Cardinality(Upto(files, x)) # Cardinality(Upto(files, y))
        /\ \A k \in 1 .. Cardinality(S) : \E x \in S : Cardinality(Upto(files, x)) = k
    BY <1>4
  <1>. HIDE DEF down
  <1>6. \A k \in 1 .. Cardinality(S) : At(files, k) \in S /\ Cardinality(Upto(files, At(files, k))) = k
    BY <1>5 DEF At
  <1>7. \A at \in S : At(files, Cardinality(Upto(files, at))) = at
    BY <1>5, <1>6
  <1>. QED  BY <1>4, <1>5, <1>6, <1>7

LEMMA ToldTyped ==
  ASSUME NEW files \in Archives
  PROVE  /\ Told(files) \in Seq(EventBodies)
         /\ Len(Told(files)) = Cardinality(Positions(files))
         /\ \A k \in 1 .. Len(Told(files)) :
              Told(files)[k] = files[At(files, k)[1]][At(files, k)[2]].body
  <1>. PICK n \in Nat : n = Cardinality(Positions(files))
    BY AtIs
  <1>. PICK s : s = Told(files)
    OBVIOUS
  <1>1. \A k \in 1 .. n : files[At(files, k)[1]][At(files, k)[2]].body \in EventBodies
    <2>1. TAKE k \in 1 .. n
    <2>2. At(files, k) \in Positions(files)
      BY AtIs
    <2>. QED  BY <2>2, PositionTyped DEF Lines
  <1>2. s = [k \in 1 .. n |-> files[At(files, k)[1]][At(files, k)[2]].body]
    BY DEF Told
  <1>3. s \in [1 .. n -> EventBodies]
    BY <1>1, <1>2
  <1>4. s \in Seq(EventBodies) /\ Len(s) = n
    BY <1>3
  <1>. QED  BY <1>2, <1>4

\* What comes after it is told after it.
LEMMA InitialTold ==
  ASSUME NEW files \in Archives, NEW longer \in Archives, Initial(files, longer)
  PROVE  /\ Len(Told(files)) <= Len(Told(longer))
         /\ Told(files) = SubSeq(Told(longer), 1, Len(Told(files)))
         /\ \A at \in Positions(files) : Upto(longer, at) = Upto(files, at)
         /\ \A k \in Len(Told(files)) + 1 .. Len(Told(longer)) :
              At(longer, k) \in Positions(longer) \ Positions(files)
  <1>. PICK n \in Nat : n = Cardinality(Positions(files)) /\ n = Len(Told(files))
    BY AtIs, ToldTyped
  <1>. PICK m \in Nat : m = Cardinality(Positions(longer)) /\ m = Len(Told(longer))
    BY AtIs, ToldTyped
  <1>1. n <= m
    BY PositionsFinite, FS_Subset DEF Initial
  <1>2. \A at \in Positions(files) : Upto(longer, at) = Upto(files, at)
    BY DEF Initial, Upto
  <1>3. \A k \in 1 .. n : At(longer, k) = At(files, k)
    <2>1. TAKE k \in 1 .. n
    <2>2. At(files, k) \in Positions(files) /\ Cardinality(Upto(files, At(files, k))) = k
      BY AtIs
    <2>3. At(files, k) \in Positions(longer) /\ Cardinality(Upto(longer, At(files, k))) = k
      BY <1>2, <2>2 DEF Initial
    <2>. QED  BY <2>3, AtIs
  <1>4. \A k \in n + 1 .. m : At(longer, k) \in Positions(longer) \ Positions(files)
    <2>1. TAKE k \in n + 1 .. m
    <2>2. k \in 1 .. m /\ k \notin 1 .. n
      OBVIOUS
    <2>3. At(longer, k) \in Positions(longer) /\ Cardinality(Upto(longer, At(longer, k))) = k
      BY <2>2, AtIs
    <2>4. \A at \in Positions(files) : Cardinality(Upto(longer, at)) \in 1 .. n
      BY <1>2, AtIs
    <2>. QED  BY <2>2, <2>3, <2>4
  <1>5. Told(files) = SubSeq(Told(longer), 1, n)
    <2>. PICK s : s = Told(files)
      OBVIOUS
    <2>. PICK t : t = Told(longer)
      OBVIOUS
    <2>1. s \in Seq(EventBodies) /\ t \in Seq(EventBodies) /\ Len(s) = n /\ Len(t) = m
      BY ToldTyped
    <2>2. \A k \in 1 .. n : s[k] = t[k]
      <3>1. TAKE k \in 1 .. n
      <3>2. k \in 1 .. m
        BY <1>1
      <3>3. At(files, k) \in Positions(files) /\ At(longer, k) = At(files, k)
        BY <1>3, AtIs
      <3>4. longer[At(files, k)[1]][At(files, k)[2]] = files[At(files, k)[1]][At(files, k)[2]]
        BY <3>3 DEF Initial
      <3>. QED  BY <3>2, <3>3, <3>4, ToldTyped
    <2>3. s = SubSeq(t, 1, n)
      BY <1>1, <2>1, <2>2
    <2>. QED  BY <2>3
  <1>. QED  BY <1>1, <1>2, <1>4, <1>5

\* e is d with k more entries after its lines, and flushed at least as far.
Adds(d, e, k) ==
    /\ Initial(d.files, e.files)
    /\ Cardinality(Positions(e.files)) = Cardinality(Positions(d.files)) + k
    /\ \A at \in Positions(e.files) :
         at \in Positions(d.files) \/ e.files[at[1]][at[2]].body \in Entries
    /\ \A m \in Months : d.synced[m] <= e.synced[m]

LEMMA AddsNone ==
  ASSUME NEW d \in Disks, NEW e \in Disks, e.files = d.files,
         \A m \in Months : d.synced[m] <= e.synced[m]
  PROVE  Adds(d, e, 0)
  <1>1. Cardinality(Positions(d.files)) \in Nat
    BY AtIs DEF Disks
  <1>. QED  BY <1>1 DEF Adds, Initial

LEMMA AddsOne ==
  ASSUME NEW d \in Disks, NEW e \in Disks, NEW m \in Months, NEW line \in Lines, line.body \in Entries,
         \A k \in Months : k > m => d.files[k] = <<>>,
         e.files = Longer(d.files, m, line),
         \A k \in Months : d.synced[k] <= e.synced[k]
  PROVE  Adds(d, e, 1)
  <1>. PICK files : files = d.files
    OBVIOUS
  <1>. PICK longer : longer = e.files
    OBVIOUS
  <1>. PICK end : end = End(files, m)
    OBVIOUS
  <1>0. files \in Archives /\ longer \in Archives
    BY DEF Disks
  <1>1. /\ Positions(longer) = Positions(files) \cup {end}
        /\ longer[m][Len(files[m]) + 1] = line
        /\ \A at \in Positions(files) : longer[at[1]][at[2]] = files[at[1]][at[2]]
    BY <1>0, OneMoreLine
  <1>2. files[m] \in Seq(Lines) /\ m \in Nat /\ Len(files[m]) \in Nat
    BY <1>0, MonthsAreNat DEF Archives
  <1>3. end[1] = m /\ end[2] = Len(files[m]) + 1
    BY DEF End
  <1>4. ASSUME NEW at \in Positions(files) PROVE at # end /\ ~Before(end, at)
    <2>1. at[1] \in Months /\ at[2] \in DOMAIN files[at[1]] /\ at[1] \in Nat /\ at[2] \in Nat
      BY <1>0, PositionTyped
    <2>2. at[1] <= m
      BY <1>2, <2>1
    <2>3. at[1] = m => at[2] <= Len(files[m])
      BY <1>2, <2>1
    <2>. QED  BY <1>2, <1>3, <2>1, <2>2, <2>3 DEF Before
  <1>5. Initial(files, longer)
    BY <1>1, <1>4 DEF Initial
  <1>6. Cardinality(Positions(longer)) = Cardinality(Positions(files)) + 1
    <2>1. IsFiniteSet(Positions(files)) /\ end \notin Positions(files)
      BY <1>0, <1>4, PositionsFinite
    <2>. QED  BY <1>1, <2>1, FS_AddElement
  <1>7. longer[end[1]][end[2]] = line
    BY <1>1, <1>3
  <1>. QED  BY <1>1, <1>5, <1>6, <1>7 DEF Adds

LEMMA AddsOn ==
  ASSUME NEW d \in Disks, NEW e \in Disks, NEW f \in Disks, NEW j \in Nat, NEW k \in Nat,
         Adds(d, e, j), Adds(e, f, k)
  PROVE  Adds(d, f, j + k)
  <1>1. Initial(d.files, f.files)
    <2>1. Initial(d.files, e.files) /\ Initial(e.files, f.files)
      BY DEF Adds
    <2>. QED  BY <2>1 DEF Initial
  <1>2. Cardinality(Positions(f.files)) = Cardinality(Positions(d.files)) + (j + k)
    <2>1. Cardinality(Positions(d.files)) \in Nat
      BY AtIs DEF Disks
    <2>. QED  BY <2>1 DEF Adds
  <1>3. ASSUME NEW at \in Positions(f.files)
        PROVE  at \in Positions(d.files) \/ f.files[at[1]][at[2]].body \in Entries
    BY DEF Adds, Initial
  <1>4. \A m \in Months : d.synced[m] <= f.synced[m]
    <2>1. \A m \in Months : d.synced[m] \in Nat /\ e.synced[m] \in Nat /\ f.synced[m] \in Nat
      BY DEF Disks, Marks
    <2>. QED  BY <2>1 DEF Adds
  <1>. QED  BY <1>1, <1>2, <1>3, <1>4 DEF Adds

LEMMA SettledAre ==
  ASSUME NEW d \in Disks
  PROVE  Settled(d) \subseteq Positions(d.files) /\ IsFiniteSet(Settled(d))
         /\ Cardinality(Settled(d)) \in 0 .. Len(Told(d.files))
  <1>1. d.files \in Archives
    BY DEF Disks
  <1>2. Settled(d) \in SUBSET Positions(d.files) /\ IsFiniteSet(Positions(d.files))
    BY <1>1, PositionsFinite DEF Settled
  <1>3. IsFiniteSet(Settled(d)) /\ Cardinality(Settled(d)) <= Cardinality(Positions(d.files))
    BY <1>2, FS_Subset
  <1>4. Cardinality(Settled(d)) \in Nat
    BY <1>3, FS_CardinalityType
  <1>. QED  BY <1>1, <1>2, <1>3, <1>4, AtIs, ToldTyped

\* What that is to the trail.
LEMMA AddsTold ==
  ASSUME NEW d \in Disks, NEW e \in Disks, NEW k \in Nat, Adds(d, e, k)
  PROVE  /\ Len(Told(e.files)) = Len(Told(d.files)) + k
         /\ SubSeq(Told(e.files), 1, Len(Told(d.files))) = Told(d.files)
         /\ \A i \in Len(Told(d.files)) + 1 .. Len(Told(e.files)) : Told(e.files)[i] \in Entries
         /\ Cardinality(Settled(e)) \in Cardinality(Settled(d)) .. Len(Told(e.files))
  <1>0. d.files \in Archives /\ e.files \in Archives /\ Initial(d.files, e.files)
    BY DEF Disks, Adds
  <1>1. Len(Told(e.files)) = Len(Told(d.files)) + k
    BY <1>0, ToldTyped DEF Adds
  <1>2. SubSeq(Told(e.files), 1, Len(Told(d.files))) = Told(d.files)
    BY <1>0, InitialTold
  <1>3. ASSUME NEW i \in Len(Told(d.files)) + 1 .. Len(Told(e.files))
        PROVE  Told(e.files)[i] \in Entries
    <2>0. Len(Told(d.files)) \in Nat /\ Len(Told(e.files)) \in Nat
      BY <1>0, AtIs, ToldTyped
    <2>1. At(e.files, i) \in Positions(e.files) \ Positions(d.files)
      BY <1>0, InitialTold
    <2>2. Told(e.files)[i] = e.files[At(e.files, i)[1]][At(e.files, i)[2]].body
      <3>1. i \in 1 .. Len(Told(e.files))
        BY <2>0
      <3>. QED  BY <1>0, <3>1, ToldTyped
    <2>. QED  BY <2>1, <2>2 DEF Adds
  <1>4. Settled(d) \subseteq Settled(e)
    <2>1. \A m \in Months : d.synced[m] \in Nat /\ e.synced[m] \in Nat /\ d.synced[m] <= e.synced[m]
      BY DEF Disks, Marks, Adds
    <2>2. \A b \in Positions(d.files) : b[1] \in Months /\ b[2] \in Nat
      BY <1>0, PositionTyped
    <2>3. ASSUME NEW at \in Settled(d) PROVE at \in Settled(e)
      <3>1. at \in Positions(d.files) /\ \A b \in Upto(d.files, at) : b[2] <= d.synced[b[1]]
        BY DEF Settled
      <3>2. at \in Positions(e.files) /\ Upto(e.files, at) = Upto(d.files, at)
        BY <1>0, <3>1, InitialTold DEF Initial
      <3>3. ASSUME NEW b \in Upto(e.files, at) PROVE b[2] <= e.synced[b[1]]
        <4>1. b \in Positions(d.files) /\ b[2] <= d.synced[b[1]]
          BY <3>1, <3>2 DEF Upto
        <4>. QED  BY <2>1, <2>2, <4>1
      <3>. QED  BY <3>2, <3>3 DEF Settled
    <2>. QED  BY <2>3
  <1>5. Cardinality(Settled(d)) <= Cardinality(Settled(e))
    <2>1. Settled(d) \in SUBSET Settled(e) /\ IsFiniteSet(Settled(e))
      BY <1>4, SettledAre
    <2>. QED  BY <2>1, FS_Subset
  <1>. QED  BY <1>1, <1>2, <1>3, <1>5, <1>0, SettledAre, ToldTyped, AtIs

-----------------------------------------------------------------------------
(* What the operations add. *)

LEMMA MovesAdds ==
  ASSUME NEW w \in Worlds, NEW v, Moves(w, v)
  PROVE  Adds(w.d, v.d, 0)
  <1>1. w.d \in Disks /\ v.d \in Disks
    BY WorldTyped DEF Moves, Fit
  <1>. QED  BY <1>1, AddsNone DEF Moves

\* A line at most, after every line there was: whoever writes it is alone.
LEMMA WriteLineAdds ==
  ASSUME ~ShortWrites, NEW w, Fit(w), Solo(w), NEW body \in EventBodies, body \in Entries,
         NEW immediate \in BOOLEAN, NEW r \in WriteLine(w, body, immediate)
  PROVE  \E k \in 0 .. 1 : Adds(w.d, r.w.d, k)
  <1>. PICK line : line = Line(w.s.seq + 1, w.s.head, body)
    OBVIOUS
  <1>1. /\ w \in Worlds /\ w.d \in Disks /\ w.s.month \in Months
        /\ line \in Lines /\ line.seq \in Nat /\ line.hash \in Hashes /\ line.body = body
    <2>1. /\ w \in Worlds /\ w.d \in Disks /\ w.s.month \in Months
          /\ w.s.seq + 1 \in Nat /\ w.s.head \in Hashes
      BY FitIs, WorldTyped
    <2>. QED  BY <2>1, LineTyped
  <1>2. CASE r = Break(w)
    <2>1. r.w.d = w.d
      BY <1>1, <1>2, BreakIs
    <2>2. \A m \in Months : w.d.synced[m] <= r.w.d.synced[m]
      BY <1>1, <2>1 DEF Disks, Marks
    <2>3. Adds(w.d, r.w.d, 0)
      BY <1>1, <2>1, <2>2, AddsNone
    <2>. QED  BY <2>3
  <1>3. ASSUME NEW v \in {Written(w, line)} \cup (IF ShortWrites THEN {CutShort(w)} ELSE {}),
               NEW x, Steady(v, x), r = Break(x) \/ r = Returns(Advance(x, line))
        PROVE  \E k \in 0 .. 1 : Adds(w.d, r.w.d, k)
    <2>1. Wrote(w, x, line)
      BY <1>1, <1>3, WroteIs
    <2>2. x \in Worlds /\ x.d \in Disks
      BY <2>1, WorldTyped DEF Wrote, Fit
    <2>3. r.w.d = x.d
      <3>1. CASE r = Break(x)
        BY <2>2, <3>1, BreakIs
      <3>2. CASE r = Returns(Advance(x, line))
        BY <1>1, <2>2, <3>2, AdvanceIs DEF Returns
      <3>. QED  BY <1>3, <3>1, <3>2
    <2>4. \A m \in Months : w.d.synced[m] <= x.d.synced[m]
      BY <2>1 DEF Wrote, Grows
    <2>5. \A m \in Months : m > w.s.month => w.d.files[m] = <<>>
      BY FitIs DEF Solo
    <2>6. x.d.files = Longer(w.d.files, w.s.month, line)
      BY <2>1 DEF Wrote
    <2>7. Adds(w.d, x.d, 1)
      BY <1>1, <2>2, <2>4, <2>5, <2>6, AddsOne
    <2>. QED  BY <2>3, <2>7
  <1>. QED  BY <1>2, <1>3, WriteLineIs

LEMMA WriteEventRawAdds ==
  ASSUME ~ShortWrites, now \in Months, NEW w, Fit(w), Solo(w), NEW body \in EventBodies, body \in Entries,
         NEW immediate \in BOOLEAN, NEW r \in WriteEventRaw(w, body, immediate)
  PROVE  \E k \in 0 .. 1 : Adds(w.d, r.w.d, k)
  <1>1. PICK q \in RotateIfNeeded(w) :
            /\ Fit(q.w) /\ Solo(q.w)
            /\ IF q.ok THEN r \in WriteLine(q.w, body, immediate) ELSE r = q
    BY WriteEventRawIs
  <1>2. w.d \in Disks /\ q.w.d \in Disks /\ Adds(w.d, q.w.d, 0)
    BY <1>1, RotateMoves, MovesAdds, FitIs, WorldTyped
  <1>3. CASE q.ok
    <2>1. PICK k \in 0 .. 1 : Adds(q.w.d, r.w.d, k)
      BY <1>1, <1>3, WriteLineAdds
    <2>2. r.w.d \in Disks
      BY <1>1, <1>3, WriteLineSound, WorldTyped DEF Sound, Fit
    <2>3. Adds(w.d, r.w.d, 0 + k)
      BY <1>2, <2>1, <2>2, AddsOn
    <2>. QED  BY <2>1, <2>3
  <1>4. CASE ~q.ok
    BY <1>1, <1>2, <1>4
  <1>. QED  BY <1>3, <1>4

LEMMA RecoversAdds ==
  ASSUME NEW w \in Worlds, NEW r, Recovers(w, r)
  PROVE  Adds(w.d, r.w.d, 0)
  <1>1. w.d \in Disks /\ r.w.d \in Disks
    BY WorldTyped DEF Recovers
  <1>2. \A m \in Months : w.d.synced[m] <= r.w.d.synced[m]
    BY DEF Recovers, Grows
  <1>. QED  BY <1>1, <1>2, AddsNone DEF Recovers

LEMMA WriteMarkedAdds ==
  ASSUME ~ShortWrites, now \in Months, NEW w, Fit(w), Solo(w), NEW n \in Nat,
         NEW immediate \in BOOLEAN, NEW r \in WriteMarked(w, n, immediate)
  PROVE  \E k \in 0 .. 2 : Adds(w.d, r.w.d, k)
  <1>1. PICK q \in WriteEventRaw(w, Recovered(w.s.seq), FALSE) :
           r \in IF q.ok THEN WriteEventRaw(q.w, Event(n), immediate) ELSE {q}
    BY DEF WriteMarked
  <1>2. /\ Recovered(w.s.seq) \in EventBodies /\ Recovered(w.s.seq) \in Entries
        /\ Event(n) \in EventBodies /\ Event(n) \in Entries
    BY FitIs, WorldTyped DEF Recovered, Event, EventBodies, Entries
  <1>3. PICK j \in 0 .. 1 : Adds(w.d, q.w.d, j)
    BY <1>1, <1>2, WriteEventRawAdds
  <1>4. Fit(q.w) /\ Solo(q.w)
    BY <1>1, <1>2, WriteEventRawSound DEF Sound
  <1>5. w.d \in Disks /\ q.w.d \in Disks
    BY <1>4, FitIs, WorldTyped
  <1>6. CASE q.ok
    <2>1. r \in WriteEventRaw(q.w, Event(n), immediate)
      BY <1>1, <1>6
    <2>2. PICK k \in 0 .. 1 : Adds(q.w.d, r.w.d, k)
      BY <1>2, <1>4, <2>1, WriteEventRawAdds
    <2>3. r.w.d \in Disks
      BY <1>2, <1>4, <2>1, WriteEventRawSound, FitIs, WorldTyped DEF Sound
    <2>4. Adds(w.d, r.w.d, j + k)
      BY <1>3, <1>5, <2>2, <2>3, AddsOn
    <2>. QED  BY <2>4
  <1>7. CASE ~q.ok
    BY <1>1, <1>3, <1>7
  <1>. QED  BY <1>6, <1>7

\* An append adds its event and, after a failure, the marker of the gap before it.
LEMMA AppendAdds ==
  ASSUME ~ShortWrites, now \in Months, NEW w, Fit(w), Solo(w), NEW n \in Nat,
         NEW immediate \in BOOLEAN, NEW r \in AppendOutcomes(w, n, immediate)
  PROVE  \E k \in 0 .. 2 : Adds(w.d, r.w.d, k)
  <1>1. CASE w.s.broken
    <2>1. PICK q \in RecoverFromBrokenState(w) :
             r \in IF q.ok THEN WriteMarked(q.w, n, immediate) ELSE {q}
      BY <1>1 DEF AppendOutcomes
    <2>2. Fit(q.w) /\ Solo(q.w)
      BY <1>1, RecoverySound
    <2>3. w \in Worlds /\ Formed(w.d) /\ w.d \in Disks /\ q.w.d \in Disks
      BY <2>2, WorldTyped DEF Fit
    <2>4. Adds(w.d, q.w.d, 0)
      BY <2>3, RecoverIs, RecoversAdds
    <2>5. CASE q.ok
      <3>1. r \in WriteMarked(q.w, n, immediate)
        BY <2>1, <2>5
      <3>2. PICK k \in 0 .. 2 : Adds(q.w.d, r.w.d, k)
        BY <2>2, <3>1, WriteMarkedAdds
      <3>3. r.w.d \in Disks
        BY <2>2, <3>1, WriteMarkedSound, FitIs, WorldTyped DEF Sound
      <3>4. Adds(w.d, r.w.d, 0 + k)
        BY <2>3, <2>4, <3>2, <3>3, AddsOn
      <3>. QED  BY <3>2, <3>4
    <2>6. CASE ~q.ok
      BY <2>1, <2>4, <2>6
    <2>. QED  BY <2>5, <2>6
  <1>2. CASE ~w.s.broken
    <2>1. Event(n) \in EventBodies /\ Event(n) \in Entries
      BY DEF Event, EventBodies, Entries
    <2>2. r \in WriteEventRaw(w, Event(n), immediate)
      BY <1>2 DEF AppendOutcomes
    <2>3. PICK k \in 0 .. 1 : Adds(w.d, r.w.d, k)
      BY <2>1, <2>2, WriteEventRawAdds
    <2>. QED  BY <2>3
  <1>. QED  BY <1>1, <1>2

-----------------------------------------------------------------------------
(* The files implement the trail. *)

LEMMA SameDiskAdds ==
  ASSUME NEW d \in Disks
  PROVE  Adds(d, d, 0)
  <1>1. \A m \in Months : d.synced[m] <= d.synced[m]
    BY DEF Disks, Marks
  <1>. QED  BY <1>1, AddsNone

LEMMA ProcessAdds ==
  ASSUME ~ShortWrites, AInv, ~raced, NEW p \in Proc, Process(p)
  PROVE  \E k \in 0 .. 2 : Adds(disk, disk', k)
  <1>0. Typed /\ Keeps /\ disk \in Disks /\ Formed(disk)
    BY DEF AInv, Typed, Formed
  <1>1. ASSUME disk' = disk PROVE Adds(disk, disk', 0)
    BY <1>0, <1>1, SameDiskAdds
  <1>2. CASE CreateLock(p) \/ WriteLockPid(p) \/ ReadLockPid(p) \/ TakeOver(p)
    <2>1. disk' = disk
      BY <1>2 DEF CreateLock, WriteLockPid, ReadLockPid, TakeOver
    <2>. QED  BY <1>1, <2>1
  <1>3. CASE OpenLog(p)
    <2>1. PICK r \in RecoverFromBrokenState(World(p)) : Recovers(World(p), r) /\ disk' = r.w.d
      BY <1>0, <1>3, OpenLeaves
    <2>2. Adds(disk, disk', 0)
      BY <1>0, <2>1, WorldsFit, RecoversAdds
    <2>. QED  BY <2>2
  <1>4. ASSUME NEW immediate \in BOOLEAN, AppendEvent(p, immediate)
        PROVE  \E k \in 0 .. 2 : Adds(disk, disk', k)
    <2>1. PICK r \in AppendOutcomes(World(p), issued + 1, immediate) :
            disk' = r.w.d /\ Fit(World(p)) /\ now \in Months /\ issued + 1 \in Nat
      BY <1>0, <1>4, AppendLeaves
    <2>2. pc[p] = "open"
      BY <1>4 DEF AppendEvent
    <2>3. Solo(World(p)) /\ World(p).d = disk
      BY <1>0, <2>2, WorldsFit DEF Keeps
    <2>. QED  BY <2>1, <2>3, AppendAdds
  <1>5. ASSUME pc[p] = "open", now' = now, disk' = disk \/ disk' = Fsync(World(p)).d
        PROVE  Adds(disk, disk', 0)
    <2>1. disk' \in Disks /\ disk'.files = disk.files /\ Grows(disk, disk')
      BY <1>0, <1>5, FlushedIs DEF Formed
    <2>. QED  BY <1>0, <2>1, AddsNone DEF Grows
  <1>6. CASE FsyncTimer(p) \/ Flush(p)
    <2>1. /\ pc[p] = "open" /\ now' = now /\ pc' = pc /\ FsyncAttempt(p, [sink[p] EXCEPT !.timer = FALSE])
      BY <1>6 DEF FsyncTimer, Flush
    <2>. QED  BY <1>0, <1>5, <2>1, FsyncAttemptIs
  <1>7. CASE Close(p)
    <2>1. now' = now
      BY <1>7 DEF Close
    <2>. QED  BY <1>0, <1>5, <1>7, <2>1, CloseLeaves
  <1>8. CASE Crash(p)
    <2>1. disk'.files = disk.files /\ disk'.synced = disk.synced /\ Formed(disk)'
      BY <1>0, <1>8, CrashLeaves DEF Leaves
    <2>2. disk' \in Disks /\ \A m \in Months : disk.synced[m] <= disk'.synced[m]
      BY <1>0, <2>1 DEF Formed, Disks, Marks
    <2>3. Adds(disk, disk', 0)
      BY <1>0, <2>1, <2>2, AddsNone
    <2>. QED  BY <2>3
  <1>. QED  BY <1>2, <1>3, <1>4, <1>6, <1>7, <1>8 DEF Process

\* The next trail, as a function of the next disk.
LEMMA TrailNext ==
  /\ Trail = Told(disk.files) /\ Trail' = Told(disk'.files)
  /\ FlushedLines = Cardinality(Settled(disk)) /\ FlushedLines' = Cardinality(Settled(disk'))
  BY DEF Trail, FlushedLines, Told, At, Upto, Settled, Positions, Before

\* What adds no entry hardens some; what adds one or two is an addition.
LEMMA AddsImplements ==
  ASSUME disk \in Disks, disk' \in Disks, NEW k \in 0 .. 2, Adds(disk, disk', k)
  PROVE  AuditTrail!Next
  <1>1. /\ Len(Trail') = Len(Trail) + k /\ SubSeq(Trail', 1, Len(Trail)) = Trail
        /\ \A i \in Len(Trail) + 1 .. Len(Trail') : Trail'[i] \in Entries
        /\ FlushedLines' \in FlushedLines .. Len(Trail')
    BY AddsTold, TrailNext
  <1>2. Trail \in Seq(EventBodies) /\ Trail' \in Seq(EventBodies)
    BY ToldTyped, TrailNext DEF Disks
  <1>3. CASE k = 0
    <2>1. Trail' = SubSeq(Trail', 1, Len(Trail'))
      BY <1>2
    <2>2. Trail' = Trail
      BY <1>1, <1>2, <1>3, <2>1
    <2>3. AuditTrail!Harden
      BY <1>1, <2>2 DEF AuditTrail!Harden
    <2>. QED  BY <2>3 DEF AuditTrail!Next
  <1>4. CASE k # 0
    <2>1. Len(Trail') \in Len(Trail) + 1 .. Len(Trail) + 2
      BY <1>1, <1>2, <1>4
    <2>2. AuditTrail!Add
      BY <1>1, <2>1 DEF AuditTrail!Add
    <2>. QED  BY <2>2 DEF AuditTrail!Next
  <1>. QED  BY <1>3, <1>4

\* A loss of power takes entries from the end, and none that are flushed.
LEMMA PowerLossImplements ==
  ASSUME Typed, ~Unsettled, PowerLoss
  PROVE  AuditTrail!Next
  <1>1. PICK keep \in Marks :
           /\ disk' \in Disks /\ disk'.synced = disk.synced
           /\ \A m \in Months : disk.synced[m] <= keep[m] /\ Len(disk'.files[m]) = keep[m]
    BY PowerLossIs
  <1>. PICK files : files = disk.files
    OBVIOUS
  <1>. PICK shorter : shorter = disk'.files
    OBVIOUS
  <1>2. disk \in Disks /\ files \in Archives /\ shorter \in Archives /\ Initial(shorter, files)
    BY <1>1, PowerLossLeaves DEF Typed, Formed, Disks
  <1>3. /\ Len(Told(shorter)) <= Len(Told(files))
        /\ Told(shorter) = SubSeq(Told(files), 1, Len(Told(shorter)))
        /\ \A at \in Positions(shorter) : Upto(files, at) = Upto(shorter, at)
    BY <1>2, InitialTold
  <1>4. \A at \in Positions(shorter) : at \in Settled(disk) <=> at \in Settled(disk')
    BY <1>1, <1>2, <1>3 DEF Settled, Initial
  <1>5. ASSUME NEW at \in Settled(disk) PROVE at \in Positions(shorter)
    <2>1. at \in Positions(files) /\ at \in Upto(files, at)
      BY DEF Settled, Upto
    <2>. PICK m, i : m = at[1] /\ i = at[2]
      OBVIOUS
    <2>2. at = <<m, i>> /\ m \in Months /\ i \in 1 .. Len(files[m]) /\ i \in Nat
      BY <1>2, <2>1, PositionsAre, PositionTyped
    <2>3. i <= disk.synced[m]
      BY <2>1, <2>2 DEF Settled
    <2>4. disk.synced[m] \in Nat /\ keep[m] \in Nat
      BY <1>2, <2>2 DEF Disks, Marks
    <2>5. i \in 1 .. Len(shorter[m])
      BY <1>1, <2>2, <2>3, <2>4
    <2>. QED  BY <2>2, <2>5, PositionsAre
  <1>6. Settled(disk') = Settled(disk)
    <2>1. Settled(disk') \subseteq Positions(shorter)
      BY <1>1, SettledAre
    <2>. QED  BY <1>4, <1>5, <2>1
  <1>7. FlushedLines' = FlushedLines /\ FlushedLines \in 0 .. Len(Trail')
    BY <1>1, <1>6, SettledAre, TrailNext
  <1>8. Len(Trail) \in Nat /\ Len(Trail') \in Nat
    BY <1>2, ToldTyped, TrailNext, AtIs
  <1>9. Trail' = SubSeq(Trail, 1, Len(Trail')) /\ Len(Trail') \in FlushedLines .. Len(Trail)
    BY <1>3, <1>7, <1>8, TrailNext
  <1>10. AuditTrail!Lose
    BY <1>7, <1>9 DEF AuditTrail!Lose
  <1>. QED  BY <1>10 DEF AuditTrail!Next

LEMMA TrailInit == Init => AuditTrail!Init
  <1>. SUFFICES ASSUME Init PROVE AuditTrail!Init
    OBVIOUS
  <1>1. disk \in Disks
    BY TypedInit DEF Typed, Formed
  <1>2. Positions(disk.files) = {}
    <2>1. \A m \in Months : disk.files[m] = <<>>
      BY DEF Init, Disk
    <2>. SUFFICES ASSUME NEW at \in Positions(disk.files) PROVE FALSE
      OBVIOUS
    <2>2. at[1] \in Months /\ at[2] \in 1 .. Len(disk.files[at[1]])
      BY PositionsAre
    <2>. QED  BY <2>1, <2>2
  <1>3. Trail \in Seq(EventBodies) /\ Len(Trail) = 0
    BY <1>1, <1>2, ToldTyped, FS_EmptySet, TrailNext DEF Disks
  <1>4. Trail = <<>>
    BY <1>3
  <1>5. FlushedLines = 0
    BY <1>1, <1>3, SettledAre, TrailNext
  <1>. QED  BY <1>4, <1>5 DEF AuditTrail!Init

LEMMA TrailStep ==
  ASSUME ShortWrites = FALSE, Unsettled = FALSE, AInv, [Next]_vars
  PROVE  [raced' \/ AuditTrail!Next]_<<Trail, FlushedLines>>
  <1>. SUFFICES ASSUME ~raced'
                PROVE  AuditTrail!Next \/ UNCHANGED <<Trail, FlushedLines>>
    OBVIOUS
  <1>0. Typed /\ Typed' /\ ~raced /\ disk \in Disks /\ disk' \in Disks
    BY TypedNext, RacedStays DEF AInv, Typed, Formed
  <1>1. ASSUME NEW p \in Proc, Process(p) PROVE AuditTrail!Next
    BY <1>0, <1>1, ProcessAdds, AddsImplements
  <1>2. CASE PowerLoss
    BY <1>0, <1>2, PowerLossImplements
  <1>3. CASE NextMonth \/ StartVerify \/ VerifyLine \/ UNCHANGED vars
    <2>1. disk' = disk
      BY <1>3 DEF NextMonth, StartVerify, VerifyLine, vars
    <2>. QED  BY <2>1, TrailNext
  <1>. QED  BY <1>1, <1>2, <1>3 DEF Next

\* The files of the log implement the trail they promise their readers to be (the
\* header of audit-log.ts), for any number of processes, months and appends: until
\* two takeovers race, an append only adds its entries at the end (writeEventRaw), a
\* rotation, a recovery, a flush, a close or a crash leaves every entry where it was,
\* and a loss of power takes entries from the end and none that were flushed, if
\* write(2) cuts no line short without an error and power is lost only once the lines
\* of earlier files have been flushed.
THEOREM TrailIsImplemented == ShortWrites = FALSE /\ Unsettled = FALSE => (Spec => ImplementsTrail)
  <1>. SUFFICES ASSUME ShortWrites = FALSE, Unsettled = FALSE PROVE Spec => ImplementsTrail
    OBVIOUS
  <1>1. Spec => []AInv
    BY Invariance
  <1>2. AInv /\ [Next]_vars => [raced' \/ AuditTrail!Next]_<<Trail, FlushedLines>>
    BY TrailStep
  <1>. QED  BY <1>1, <1>2, TrailInit, PTL DEF Spec, ImplementsTrail

=============================================================================
