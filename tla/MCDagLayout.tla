----------------------------- MODULE MCDagLayout -----------------------------
(* Every graph of up to four blocks with up to three parents each.         *)
EXTENDS DagLayout
=============================================================================
