---------------------------- MODULE MCSubnetPool ----------------------------
(***************************************************************************)
(* Instances of SubnetPool for TLC.                                        *)
(***************************************************************************)
EXTENDS SubnetPool

\* The configured subnets, and one on each side that an earlier configuration
\* may have handed to a snapshot.
MCNets == -1 .. N
=============================================================================
