----------------------------- MODULE MCCrawler ------------------------------
(* Instances of Crawler for TLC. *)
EXTENDS Crawler, TLC

CONSTANTS u1, u2, u3

\* Two pages that link to each other, and a third that both can reach.
MCWeb == (u1 :> {u2, u3}) @@ (u2 :> {u1}) @@ (u3 :> {})
=============================================================================
