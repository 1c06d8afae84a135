------------------------------- MODULE MCPeer -------------------------------
(* RVD1's side of the peer interface for TLC: a cfg gives the bounds. *)
EXTENDS PeerWorker
=============================================================================
