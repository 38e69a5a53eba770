--------------------------- MODULE MCPeerManager ---------------------------
(***************************************************************************)
(* Values of the constants of PeerManager for TLC.                         *)
(***************************************************************************)
EXTENDS PeerManager

OneSize == {<<1, 0>>}
PoorAndRich == {<<0, 1>>, <<2, 2>>}
Floor == -1
=============================================================================
