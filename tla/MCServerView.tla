---------------------------- MODULE MCServerView ----------------------------
(* Instances of ServerView for TLC. *)
EXTENDS ServerView

CONSTANTS r1, r2, l1   \* two remote clients and a local one

MCPeerIp   == [c \in Clients |-> IF c \in LocalClients THEN LoopbackIPv4 ELSE 10]
MCPeerPort == [c \in Clients |-> IF c = r1 THEN 4001 ELSE IF c = r2 THEN 4002 ELSE 4003]
=============================================================================
