------------------------------ MODULE MCWorker ------------------------------
(***************************************************************************)
(* A Worker with each Runtime and each time of snapshot creation.          *)
(***************************************************************************)
EXTENDS Worker

AllRuntimes == {"fc", "fcctrd", "toy", "any"}
AllSnapTimes == {"Never", "OnCreationBeforeInvoc", "OnCreationAfterInvoc", "OnlyOnDemand"}
=============================================================================
