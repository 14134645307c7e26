----------------------------- MODULE MCDagViewer -----------------------------
(* A genesis block and its child.                                          *)
EXTENDS DagViewer, TLC

CONSTANTS genesis, left

OneChildHashes == {genesis, left}
OneChildParents == (genesis :> {}) @@ (left :> {genesis})
OneChildNumbers == (genesis :> 0) @@ (left :> 1)
=============================================================================
