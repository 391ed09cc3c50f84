----------------------------- MODULE MCApproval -----------------------------
(***************************************************************************)
(* Approval on small sets.                                                 *)
(***************************************************************************)
EXTENDS Approval, TLC

Symmetry ==
    Permutations(Calls) \cup Permutations(Deploys) \cup Permutations(Users)
        \cup Permutations(Ids \ {ZeroId})
=============================================================================
