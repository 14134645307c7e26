--------------------------- MODULE MCPeerDiscovery ---------------------------
(***************************************************************************)
(* An instance of PeerDiscovery: the given ports may hold one twice, or    *)
(* none that can be read.                                                  *)
(***************************************************************************)
EXTENDS PeerDiscovery

CONSTANTS a, b, c

MCStandardPorts == <<a>>

MCCustomPorts == {<<>>, <<b>>, <<b, a>>}
=============================================================================
