-------------------------- MODULE MCProposalDrafts --------------------------
(* Two texts: the address of the first belongs to contact k1.              *)
EXTENDS ProposalDrafts, TLC

CONSTANTS d1, d2, g1, x, y, k1, k2, r1, r2

MCOwner == (x :> k1) @@ (y :> None)
Symmetry == Permutations({r1, r2})
=============================================================================
