---------------------------- MODULE MCNodeEvents ----------------------------
(***************************************************************************)
(* Instances of NodeEvents for TLC: two deploys, blocks that finalise one  *)
(* of them, both, or one twice with different outcomes (a deploy may       *)
(* appear in several finalised blocks).                                    *)
(***************************************************************************)
EXTENDS NodeEvents

CONSTANTS d1, d2, ok, errored

D(i, o) == [id |-> i, outcome |-> o]

\* One deploy: enough for races between calls for the same deploy.
OneDeployBlocks == {<<D(d1, ok)>>, <<D(d1, errored)>>}

\* Two deploys: a block with both, so that a block is recorded in two turns.
TwoDeployBlocks == {<<D(d1, ok)>>, <<D(d1, ok), D(d2, errored)>>}
=============================================================================
