---------------------------- MODULE MCAdmission ----------------------------
(***************************************************************************)
(* Instances of Admission for TLC: two Functions, one or two requests of   *)
(* each.                                                                   *)
(***************************************************************************)
EXTENDS Admission, TLC

CONSTANTS f1, f2, r1, r2, r3, r4

MCFunctions == {f1, f2}
MCRequests == {r1, r2, r3}
MCFewRequests == {r1, r3}
MCMoreRequests == {r1, r2, r3, r4}
MCFunctionOf == [r \in Requests |-> IF r \in {r3, r4} THEN f2 ELSE f1]

Cap(n, d) == [max_queued |-> n, max_queue_delay |-> d]

\* Stable limits: each Function always registers with the same ones.
MCProfiles == [f \in MCFunctions |-> IF f = f1 THEN {Cap(1, 1), Cap(2, 1)} ELSE {Cap(1, 2)}]

\* f1 may queue a single request, the global queue two.
MCTightProfiles == [f \in MCFunctions |-> IF f = f1 THEN {Cap(1, 1)} ELSE {Cap(2, 1)}]

\* f1 may come back after a deregistration with a shorter max_queue_delay.
MCUnstableProfiles == [MCProfiles EXCEPT ![f1] = {Cap(2, 1), Cap(2, 2)}]

\* Requests of one Function are interchangeable.
SameFunction == Permutations({r1, r2})
SameFunctions == SameFunction \cup Permutations({r3, r4})
=============================================================================
