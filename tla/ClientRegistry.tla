--------------------------- MODULE ClientRegistry ---------------------------
(***************************************************************************)
(* What the connection side of the server promises to the rest of it about *)
(* remote clients: a hardware address belongs to at most one client at a   *)
(* time, a client gets one address once in its life, no client is deleted  *)
(* while it owns one, and an address that was given out is remembered.     *)
(* Threads, sockets and signals do not appear: Server implements this.     *)
(***************************************************************************)
EXTENDS Naturals, FiniteSets

CONSTANTS Clients, Macs, NoClient, MaxConnections

VARIABLES
    clients,   \* the clients that hold a connection slot
    served,    \* those that have been given an address
    owner,     \* the client of each address, or NoClient
    past       \* the addresses of clients that have gone

registry == <<clients, served, owner, past>>

Owns(c) == \E m \in Macs : owner[m] = c

Init ==
    /\ clients = {}
    /\ served = {}
    /\ owner = [m \in Macs |-> NoClient]
    /\ past = {}

Arrive(c) ==
    /\ c \notin clients
    /\ Cardinality(clients) < MaxConnections
    /\ clients' = clients \cup {c}
    /\ UNCHANGED <<served, owner, past>>

Register(c, m) ==
    /\ c \in clients \ served
    /\ owner[m] = NoClient
    /\ served' = served \cup {c}
    /\ owner' = [owner EXCEPT ![m] = c]
    /\ past' = past \ {m}
    /\ UNCHANGED clients

Unregister(m) ==
    /\ owner[m] # NoClient
    /\ owner' = [owner EXCEPT ![m] = NoClient]
    /\ past' = past \cup {m}
    /\ UNCHANGED <<clients, served>>

Depart(c) ==
    /\ c \in clients
    /\ ~Owns(c)
    /\ clients' = clients \ {c}
    /\ served' = served \ {c}
    /\ UNCHANGED <<owner, past>>

Next ==
    \/ \E c \in Clients : Arrive(c) \/ Depart(c)
    \/ \E c \in Clients, m \in Macs : Register(c, m)
    \/ \E m \in Macs : Unregister(m)

Spec == Init /\ [][Next]_registry
=============================================================================
