--------------------------- MODULE MCUrlDispatch ---------------------------
(* Instances of UrlDispatch for TLC. *)
EXTENDS UrlDispatch, TLC

CONSTANTS u1, u2, c1, c2

\* One page leads to another, which leads nowhere.
MCWeb == [u \in Urls |-> IF u = u1 THEN {u2} ELSE {}]

\* No definition tells one client from the other.
AlikeClients == Permutations(Clients)
=============================================================================
