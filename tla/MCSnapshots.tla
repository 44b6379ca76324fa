----------------------------- MODULE MCSnapshots -----------------------------
(* Two Functions placed on two devices, one by the CSV file and one kept warm. *)
EXTENDS Snapshots, TLC

CONSTANTS f1, f2

MCDest == f1 :> "OptaneDCPM" @@ f2 :> "KeepAlive"
SameIds == Permutations(Sids)
=============================================================================
