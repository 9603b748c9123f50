------------------------------- MODULE MCHeldCall -------------------------------
(***************************************************************************)
(* An instance of HeldCall for TLC: two calls that follow each other under *)
(* one JSON-RPC id, and two tabs that may open either call's page.         *)
(***************************************************************************)
EXTENDS HeldCall, TLC

CONSTANT i1

OneId == [c \in Calls |-> i1]

=============================================================================
