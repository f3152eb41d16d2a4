----------------------------- MODULE MCUrlViews -----------------------------
(* Instances of UrlViews for TLC. *)
EXTENDS UrlViews

CONSTANTS u1, u2, c1

\* A page that leads to another one of its site, which leads nowhere; the path
\* of the first is also the directory of the second.
MCWeb  == [u \in Urls |-> IF u = u1 THEN {u2} ELSE {}]
MCPath == [u \in Urls |-> IF u = u1 THEN <<"site", "a">> ELSE <<"site", "a", "b">>]
=============================================================================
