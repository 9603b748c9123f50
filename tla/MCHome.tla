-------------------------------- MODULE MCHome --------------------------------
(***************************************************************************)
(* Home for TLC: two clients and two grants, a tool on each of two pages,  *)
(* two mints in one process and one in another, and one run of the proxy   *)
(* command.                                                                *)
(***************************************************************************)
EXTENDS Home, TLC

\* GrantStore: looks for everything and for one jti.
AllOrOne == {Grants} \cup {{g} : g \in Grants}

CONSTANTS
    read, write,       \* ToolInventory
    p1, p2, m1, m2, m3 \* Identity

OnTwoPages  == (read :> 1) @@ (write :> 2)
InProcesses == (m1 :> p1) @@ (m2 :> p1) @@ (m3 :> p2)

Symmetry == Permutations(Clients) \cup Permutations(Grants)

=============================================================================
