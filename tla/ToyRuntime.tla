---------------------------- MODULE ToyRuntime ----------------------------
(***************************************************************************)
(* The Runtimes without a VMM, and the contract of the Runtime trait       *)
(* (worker/runtime/mod.rs).                                                *)
(*                                                                         *)
(* The toy and the noop Runtime never fail, and their Sandboxes never have *)
(* a snapshot, although create_snapshot returns Ok.  `Any' is a Runtime    *)
(* out of the tree: it keeps to the trait, so every call may fail, with no *)
(* effect, and setup_cpuset too.                                           *)
(***************************************************************************)
EXTENDS MicroVm

Started(u) == [VmUp(u) EXCEPT !.name = TRUE]

ToyInit(u) == {Ok(u)}
ToyCreate(u) == {Ok(Started(u))}
ToyPause(u) == {Ok([u EXCEPT !.vm = "paused"])}
ToyResume(u) == {Ok([u EXCEPT !.vm = "running"])}
ToySnapshot(u) == {Ok(u)}
ToyDestroy(u) == {Ok(NoVm)}

AnySnapshotted == [NoVm EXCEPT !.name = TRUE, !.snap = TRUE, !.files = "full"]
AnyInit(u) == MayFail(u, u)
AnyCreate(u) == MayFail(u, Started(u))
AnyLoad(u) == MayFail(u, Started(u))
AnyPause(u) == MayFail(u, [u EXCEPT !.vm = "paused"])
AnyResume(u) == MayFail(u, [u EXCEPT !.vm = "running"])
AnySnapshot(u) == MayFail(u, Snapped(u))
AnyShutdown(u) == MayFail(u, VmDown(u))
AnyDestroy(u) == MayFail(u, NoVm)
AnyCpuset(u) == MayFail(u, u)
=============================================================================
