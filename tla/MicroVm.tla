------------------------------ MODULE MicroVm ------------------------------
(***************************************************************************)
(* What a Runtime acts on, and how its fallible calls are put together.    *)
(*                                                                         *)
(* A microVM is a record of what exists in the host (the VMM process, the  *)
(* uVM directory or the containerd objects, the snapshot files) and of     *)
(* what the Sandbox object and the Runtime instance remember of it.  A     *)
(* Runtime operation is the set of its outcomes: each says whether the     *)
(* call returned Ok and what the microVM is then.                          *)
(***************************************************************************)
VmState == {"none", "running", "paused", "dead"}
Files == {"none", "partial", "full"}

MicroVmType ==
    [vm : VmState,        \* the VMM process, and whether its vCPUs run
     held : BOOLEAN,      \* fc: MicroVm::proc is Some; fcctrd: Vm::pid is Some
     client : BOOLEAN,    \* fc: Firecracker::client is Some
     name : BOOLEAN,      \* fc: Firecracker::uvm_name; fcctrd: ::snapshot (the key) is Some
     dir : BOOLEAN,       \* fc: the uVM directory exists
     ctr : BOOLEAN, layer : BOOLEAN, task : BOOLEAN,   \* fcctrd: containerd's objects
     snap : BOOLEAN,      \* Sandbox::has_snapshot
     files : Files,       \* the snapshot files
     stray : BOOLEAN]     \* the VMM may run without its Worker knowing

NoVm ==
    [vm |-> "none", held |-> FALSE, client |-> FALSE, name |-> FALSE, dir |-> FALSE, ctr |-> FALSE,
     layer |-> FALSE, task |-> FALSE, snap |-> FALSE, files |-> "none", stray |-> FALSE]

Alive(u) == u.vm \in {"running", "paused"}

\* The VMM is started, and its owner knows it; it is gone, and its owner knows that; its
\* snapshot is taken.
VmUp(u) == [u EXCEPT !.vm = "running", !.held = TRUE]
VmDown(u) == [u EXCEPT !.vm = "none", !.held = FALSE]
Snapped(u) == [u EXCEPT !.snap = TRUE, !.files = "full"]

Ok(u) == [ok |-> TRUE, u |-> u]
Err(u) == [ok |-> FALSE, u |-> u]

\* The `?' operator: go on with each success, return each failure.
Then(S, Op(_)) == UNION {IF r.ok THEN Op(r.u) ELSE {r} : r \in S}

\* A failure is cleaned up after by Op, which gives the microVMs that may remain.
OrElse(S, Op(_)) == UNION {IF r.ok THEN {r} ELSE {Err(v) : v \in Op(r.u)} : r \in S}

\* A call that may fail without an effect, and one whose failure is only logged.
MayFail(u, v) == {Ok(v), Err(u)}
BestEffort(u, v) == {u, v}

\* A remote call may also fail after it took effect: its answer is lost, or comes after
\* the deadline of the call.
Rpc(u, v) == {Ok(v), Err(u), Err(v)}

\* A failed operation that leaves a VMM behind leaves a stray one.
Strays(S) == {IF r.ok THEN r ELSE Err([r.u EXCEPT !.stray = @ \/ Alive(r.u)]) : r \in S}

\* Outcomes(U, Op): what Op does after a best-effort call that left one of U.
Outcomes(U, Op(_)) == UNION {Op(u) : u \in U}
=============================================================================
