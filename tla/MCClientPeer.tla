---------------------------- MODULE MCClientPeer ----------------------------
(* Instances of ClientPeer for TLC. *)
EXTENDS ClientPeer
=============================================================================
