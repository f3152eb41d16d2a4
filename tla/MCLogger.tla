------------------------------ MODULE MCLogger ------------------------------
(* Instances of Logger for TLC. *)
EXTENDS Logger

CONSTANTS main, t1, t2
=============================================================================
