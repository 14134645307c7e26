---------------------------- MODULE MCWatchEvents ----------------------------
(***************************************************************************)
(* An instance of WatchEvents: a node that has started.                    *)
(***************************************************************************)
EXTENDS WatchEvents

NodeStarted == <<"lifecycle">>
=============================================================================
