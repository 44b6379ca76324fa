---------------------------- MODULE MCLifecycle ----------------------------
(* Lifecycle on a small instance. *)
EXTENDS Lifecycle

CONSTANTS r1, c1, k1
=============================================================================
