-------------------------- MODULE MCApprovalLifecycle --------------------------
(***************************************************************************)
(* Instances of ApprovalLifecycle for TLC.  Both approvals are of the same *)
(* call, so each one's grant is spendable by the other's re-evaluation.    *)
(***************************************************************************)
EXTENDS ApprovalLifecycle, TLC

SameCall == [a \in Approvals |-> "call"]

Symmetry == Permutations(Approvals) \cup Permutations(Resolvers)

=============================================================================
