----------------------------- MODULE MCProxyRelay -----------------------------
(***************************************************************************)
(* An instance of ProxyRelay for TLC: a tools/call that may fail open, one *)
(* that may not, and a request that is not governed at all.                *)
(***************************************************************************)
EXTENDS ProxyRelay

CONSTANTS routineCall, otherCall, listTools

ThreeRequests == {routineCall, otherCall, listTools}
TwoCalls      == {routineCall, otherCall}
OneRoutine    == {routineCall}

=============================================================================
