--------------------------- MODULE FcctrdRuntime ---------------------------
(***************************************************************************)
(* The rt-fcctrd Runtime (worker/runtime/fcctrd) over the                  *)
(* firecracker-containerd client: the VMM is a child of a shim, and every  *)
(* operation is a gRPC or ttrpc call with a deadline.                      *)
(***************************************************************************)
EXTENDS MicroVm

FcctrdSnapshotted ==
    [NoVm EXCEPT !.name = TRUE, !.ctr = TRUE, !.layer = TRUE, !.task = TRUE, !.snap = TRUE, !.files = "full"]

\* Client::with_timeout connects to both sockets.
FcctrdInit(u) == {Ok(u), Err(u)}

\* Vm::from_response keeps the PID; without an answer there is no Vm.
create_vm(u) ==
    {Ok(VmUp(u)), Err(u), Err([u EXCEPT !.vm = "running"])}

\* Vm::stop, by best effort: StopVM ends the VMM and its shim.
StopVm(u) == {r.u : r \in Rpc(u, VmDown(u))}

create_container(u) == Rpc(u, [u EXCEPT !.ctr = TRUE])
prepare_snapshot(u) == Rpc(u, [u EXCEPT !.layer = TRUE])
create_task(u) == Rpc(u, [u EXCEPT !.task = TRUE])
start_task(u) == {Ok(u), Err(u)}
pause_vm(u) == IF Alive(u) THEN Rpc(u, [u EXCEPT !.vm = "paused"]) ELSE {Err(u)}
resume_vm(u) == IF Alive(u) THEN Rpc(u, [u EXCEPT !.vm = "running"]) ELSE {Err(u)}
delete_container(u) == Rpc(u, [u EXCEPT !.ctr = FALSE])
kill_task(u) == {u}
delete_task(u) == Rpc(u, [u EXCEPT !.task = FALSE])

\* A NotFound is as good as a success, any other failure is logged.
remove_container_snapshot(u) == BestEffort(u, [u EXCEPT !.layer = FALSE])

\* What create_sandbox does about a failure once the container exists.
Undo(u) == Outcomes({r.u : r \in delete_container(u)}, StopVm)

\* A failure of start_task is not cleaned up after.
FcctrdCreate(u) ==
    LET named(v) == {Ok([v EXCEPT !.name = TRUE])}
        container(v) == OrElse(create_container(v), StopVm)
        layer(v) == OrElse(prepare_snapshot(v), Undo)
        task(v) == OrElse(create_task(v), Undo)
    IN  Strays(Then({Ok(u), Err(u)}, LAMBDA a : Then(create_vm(a), LAMBDA b : Then(named(b), LAMBDA c :
          Then(container(c), LAMBDA d : Then(layer(d), LAMBDA e : Then(task(e), start_task)))))))

\* LoadVMSnapshot answers with the PID, and 0 stands for none.
load_vm_snapshot(u) ==
    Rpc(u, VmUp(u)) \cup {Ok([u EXCEPT !.vm = "running", !.stray = TRUE])}

\* Vm::load_from_snapshot keeps the PID if the call succeeds.
FcctrdLoad(u) ==
    IF ~u.snap THEN {Err(u)}
    ELSE Strays({IF r.ok THEN r ELSE Err([r.u EXCEPT !.held = u.held]) : r \in load_vm_snapshot(u)})

\* PauseVM is retried after a deadline, when the VMM may have paused all the same.
FcctrdPause(u) == pause_vm(u) \cup UNION {pause_vm(r.u) : r \in {q \in pause_vm(u) : ~q.ok}}

FcctrdResume(u) == resume_vm(u)

\* prepare_path unlinks stale files; fsync_path syncs the new ones.
prepare_path(u) == {Ok([u EXCEPT !.files = "none"]), Err(u), Err([u EXCEPT !.files = "none"])}
fsync_path(u) == {Ok(u), Err(u)}

\* The VMM writes both files, or only a part of them.
create_vm_snapshot(u) ==
    LET write(v) == IF Alive(v) THEN {Ok([v EXCEPT !.files = "full"])} \cup {Err([v EXCEPT !.files = f]) : f \in Files}
                    ELSE {Err(v)}
    IN  Then(prepare_path(u), LAMBDA v : Then(write(v), fsync_path))

\* Vm::create_snapshot records the paths only after that.
FcctrdSnapshot(u) == {IF r.ok THEN Ok([r.u EXCEPT !.snap = TRUE]) ELSE r : r \in create_vm_snapshot(u)}

\* UnloadVM kills the VMM, and Vm::unload forgets its PID.
unload_vm(u) == Rpc(u, VmDown(u))

\* The shim may be gone before it has answered, which is as good once the process has
\* died: with its PID known the Runtime waits for that.
FcctrdShutdown(u) == unload_vm(u) \cup (IF u.held THEN {} ELSE {Ok([u EXCEPT !.stray = TRUE])})

\* kill_process_group: the shim and its VMM are told to end, and after five seconds taken
\* to have done so; a shim that is not found is taken to be gone.
KillGroup(u) == {Ok(VmDown(u)), Ok([u EXCEPT !.stray = TRUE]), Err(u)}

\* StopVM if the task is gone, else SIGTERM; poll_pid_until_exit sees the shim exit, or
\* has not within 1.5 seconds.
StopOrKill(u) == {Ok(VmDown(u))} \cup KillGroup(u)

\* A microVM without a snapshot, whose process must be found: the task, the container and
\* its layer are removed, then the VMM is stopped, or killed with its shim.
destroy_idle_microvm(u) ==
    LET awake == {r.u : r \in resume_vm(u)}
        rest(v) == Then(delete_container(v), LAMBDA w : Outcomes(remove_container_snapshot(w), StopOrKill))
    IN  IF ~Alive(u) THEN {Err(u)}
        ELSE {Err(u)} \cup Outcomes({r.u : r \in Outcomes(Outcomes(awake, kill_task), delete_task)}, rest)

\* An unloaded microVM: the container, its layer and the files are removed.
destroy_snapshotted_microvm(u) ==
    LET unlinked(v) == {Ok([v EXCEPT !.snap = FALSE, !.files = f]) : f \in {"none", "partial", v.files}}
    IN  Then(delete_container(u), LAMBDA v : Outcomes(remove_container_snapshot(v), unlinked))

FcctrdDestroy(u) ==
    IF u.snap THEN IF u.held THEN Then(FcctrdShutdown(u), destroy_snapshotted_microvm)
                   ELSE destroy_snapshotted_microvm(u)
    ELSE IF u.held THEN destroy_idle_microvm(u) ELSE {Err(u)}

FcctrdCpuset(u) == {Ok(u)}
FcctrdUncache(u) == {Ok(u)}
=============================================================================
