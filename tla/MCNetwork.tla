----------------------------- MODULE MCNetwork -----------------------------
(* Both providers, two Workers, two subnets. *)
EXTENDS Network

BothProviders == {"plain", "pool"}
=============================================================================
