---------------------------- MODULE MCRegistrar ----------------------------
(***************************************************************************)
(* Instances of Registrar for TLC.                                         *)
(***************************************************************************)
EXTENDS Registrar, TLC

CONSTANTS f1, f2, a, b, bad, c1, c2, c3, c4

\* The ids, like the calls, are interchangeable.
Interchangeable == Permutations({f1, f2}) \cup Permutations({c1, c2, c3, c4}) \cup Permutations({a, b})
=============================================================================
