--------------------------- MODULE MCSandboxPool ---------------------------
(***************************************************************************)
(* Small instances of the SandboxPool.                                     *)
(***************************************************************************)
EXTENDS SandboxPool, TLC

CONSTANTS f1, f2, w1, w2, w3, c1, c2

OneFunction == {f1}
TwoFunctions == {f1, f2}
OneWorker == {w1}
TwoWorkers == {w1, w2}
ThreeWorkers == {w1, w2, w3}
OneCall == {c1}
TwoCalls == {c1, c2}

PoolSymmetry == Permutations(Functions) \cup Permutations(Workers) \cup Permutations(Calls)
=============================================================================
