------------------------------ MODULE MCServer ------------------------------
(* Instances of Server for TLC. *)
EXTENDS Server

CONSTANTS r1, r2, l1   \* two remote clients and a local one

\* The two remote clients share an address (a NAT), so that only hardware
\* addresses tell them apart.
MCPeerIp   == [c \in Clients |-> IF c \in LocalClients THEN LoopbackIPv4 ELSE 10]
MCPeerPort == [c \in Clients |-> IF c = r1 THEN 4001 ELSE IF c = r2 THEN 4002 ELSE 4003]
=============================================================================
