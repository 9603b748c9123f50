------------------------------ MODULE AuditTrail ------------------------------
(***************************************************************************)
(* What the audit log promises to whoever reads it later (the header of    *)
(* packages/store/src/audit-log.ts): one sequence of entries, to which     *)
(* entries are only ever added, at the end.  A loss of power may take back *)
(* entries, from the end only, and none that is known to be on the disk.   *)
(***************************************************************************)
EXTENDS Naturals, Sequences

CONSTANT Entry  \* everything an entry may be

VARIABLES
    trail,  \* the entries, oldest first
    hard    \* how many of them are known to be on the disk

vars == <<trail, hard>>

Init == trail = <<>> /\ hard = 0

\* An append adds its entry; the first one after a failure adds the marker of
\* the gap before it.
Add ==
    /\ Len(trail') \in Len(trail) + 1 .. Len(trail) + 2
    /\ SubSeq(trail', 1, Len(trail)) = trail
    /\ \A i \in Len(trail) + 1 .. Len(trail') : trail'[i] \in Entry
    /\ hard' \in hard .. Len(trail')

Harden == hard' \in hard .. Len(trail) /\ UNCHANGED trail

Lose ==
    /\ \E k \in hard .. Len(trail) : trail' = SubSeq(trail, 1, k)
    /\ UNCHANGED hard

Next == Add \/ Harden \/ Lose

Spec == Init /\ [][Next]_vars

=============================================================================
