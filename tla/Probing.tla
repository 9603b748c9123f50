-------------------------------- MODULE Probing --------------------------------
(***************************************************************************)
(* createProbingDetector (packages/proxy-stdio/src/probing.ts): counts the *)
(* denials of each (tool, agent) pair in a sliding window, over a table of *)
(* bounded size, and says when a pair has crossed the threshold.           *)
(***************************************************************************)
EXTENDS Integers, Sequences, FiniteSets

CONSTANTS
    Pairs,      \* (tool, agent)
    Window,     \* windowMs
    Threshold,
    MaxTracked, \* maxTrackedPairs
    MaxTime     \* bound: the clock

\* What the options are.
ProbingAssumption == Window \in Nat /\ Threshold \in Nat \ {0} /\ MaxTracked \in Nat

VARIABLES
    now,
    windows, \* the Map, in its iteration order: [pair, stamps]
    fired,   \* what the last recordDenial returned
    denials, \* per pair: the last denials in the window since it crossed   (history)
    others,  \* per pair: the other pairs denied since it last was          (history)
    crowded, \* the pairs whose others filled the table since they crossed  (history)
    due      \* whether the last denial was the Threshold-th of its pair    (history)

vars == <<now, windows, fired, denials, others, crowded, due>>

Init ==
    /\ now = 0
    /\ windows = <<>>
    /\ fired = FALSE /\ due = FALSE
    /\ denials = [p \in Pairs |-> <<>>]
    /\ others = [p \in Pairs |-> {}]
    /\ crowded = {}

\* The members of a sequence at these positions, in order: filter, and what a loop
\* that deletes leaves.
Kept(s, at) ==
    LET Place(i) == Cardinality({j \in at : j <= i})
    IN  [k \in 1 .. Cardinality(at) |-> s[CHOOSE i \in at : Place(i) = k]]

Live(stamps) == Kept(stamps, {i \in DOMAIN stamps : now - stamps[i] < Window})

\* sweepExpired: every window cut to what is live, an empty one dropped.
Swept ==
    LET cut == [i \in DOMAIN windows |-> [windows[i] EXCEPT !.stamps = Live(@)]]
    IN  Kept(cut, {i \in DOMAIN cut : cut[i].stamps # <<>>})

StampsOf(table, p) ==
    LET S == {i \in DOMAIN table : table[i].pair = p}
    IN  IF S = {} THEN <<>> ELSE table[CHOOSE i \in S : TRUE].stamps

Without(table, p) == Kept(table, {i \in DOMAIN table : table[i].pair # p})

\* Variant: the pair keeps its place, and the table evicts by age instead.
Untouched(table, p, stamps) ==
    IF StampsOf(table, p) = <<>> THEN Append(table, [pair |-> p, stamps |-> stamps])
    ELSE [i \in DOMAIN table |->
             IF table[i].pair = p THEN [table[i] EXCEPT !.stamps = stamps] ELSE table[i]]

\* touch: delete, then set, so that the order is the order of last use.
Touched(table, p, stamps) == Append(Without(table, p), [pair |-> p, stamps |-> stamps])

Bounded(table) == IF Len(table) > MaxTracked THEN Tail(table) ELSE table

\* The window is gone with the crossing: fire once, then count anew.
ResetAt(table, p, stamps) == Without(table, p)

\* What a count without a table would have seen; more than Threshold is as good
\* as Threshold.
Watch(p, crosses) ==
    LET live == Append(Live(denials[p]), now)
        kept == IF Len(live) > Threshold THEN Tail(live) ELSE live
        met  == [q \in Pairs |-> IF q = p THEN {} ELSE others[q] \cup {p}]
    IN  /\ others' = met
        /\ crowded' = {q \in crowded \cup {r \in Pairs : Cardinality(met[r]) >= MaxTracked} :
                          q # p \/ ~crosses}
        /\ denials' = [denials EXCEPT ![p] = IF crosses THEN <<>> ELSE kept]
        /\ due' = (Len(live) >= Threshold)

\* recordDenial.
RecordDenial(p) ==
    LET table   == Swept
        stamps  == Append(StampsOf(table, p), now)
        crosses == Len(stamps) >= Threshold
    IN  /\ fired' = crosses
        /\ windows' = IF crosses THEN ResetAt(table, p, stamps)
                      ELSE Bounded(Touched(table, p, stamps))
        /\ Watch(p, crosses)
        /\ UNCHANGED now

Tick ==
    /\ now < MaxTime
    /\ now' = now + 1
    /\ UNCHANGED <<windows, fired, denials, others, crowded, due>>

Next == Tick \/ \E p \in Pairs : RecordDenial(p)

Spec == Init /\ [][Next]_vars

-----------------------------------------------------------------------------
(* Properties. *)

\* The detector against a count without a table: it never fires early, and the
\* table's bound costs only a pair that was not denied while as many others
\* as the table holds were; every other pair fires exactly when it is due
\* (recordDenial, its sweep, its order of use and its eviction read together).
CountsTruly ==
    /\ Len(windows) <= MaxTracked
    /\ fired => due
    /\ \A p \in Pairs :
          LET counted == Len(Live(StampsOf(windows, p)))
              true    == Len(Live(denials[p]))
          IN  counted <= true /\ (p \notin crowded => counted = true /\ true < Threshold)

=============================================================================
