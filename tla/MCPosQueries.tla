---------------------------- MODULE MCPosQueries ----------------------------
(***************************************************************************)
(* An instance of PosQueries: the validators are interchangeable.          *)
(***************************************************************************)
EXTENDS PosQueries, TLC

Validators2 == Permutations(Validator)
=============================================================================
