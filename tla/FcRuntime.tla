----------------------------- MODULE FcRuntime -----------------------------
(***************************************************************************)
(* The rt-fc Runtime (worker/runtime/fc): one firecracker process per      *)
(* microVM, a child of the server, driven over its API socket.             *)
(***************************************************************************)
EXTENDS MicroVm

\* A Sandbox returned by the Pool: its directory and its snapshot files exist, and the
\* Runtime instance is built with its name.
FcSnapshotted == [NoVm EXCEPT !.name = TRUE, !.dir = TRUE, !.snap = TRUE, !.files = "full"]

\* MKDIR_UVMS_ROOT_DIR: the root directory of all uVMs may not be writable.
FcInit(u) == {Ok(u), Err(u)}

\* SIGKILL, then wait for the process and for the tasks that read its streams.
kill_and_wait(u) == VmDown(u)

\* Mutant of Killed: a process that did not come up is left to itself.
NotKilled(S) == S

\* An error path that kills the process first.
Killed(S) == OrElse(S, LAMBDA u : {kill_and_wait(u)})

\* mkdir(2), then the FIFOs are made anew and stale sockets are unlinked.
ensure_uvm_files(u) == {Ok([u EXCEPT !.dir = TRUE]), Err(u), Err([u EXCEPT !.dir = TRUE])}

\* lookup_rootfs_path finds the image of the Function and the configuration is written.
RenderConfig(u) == {Ok(u), Err(u)}

\* fork(2) and execve(2); a child without a pidfd is killed.
fork_exec_fc(u) == MayFail(u, VmUp(u))

\* The child may exit before its API socket accepts a connection, or be too slow.
await_fc_api_server(u) == {Ok(u), Err(u), Err([u EXCEPT !.vm = "dead"])}

\* With a configuration file the guest boots at once.  Without one the process waits for
\* API calls: the logger and the metrics are configured, or the child is killed.
initialize_fc_process(u, fifos) ==
    IF fifos THEN Killed(Then(fork_exec_fc(u), await_fc_api_server)) ELSE fork_exec_fc(u)

\* describe_instance: the instance must have the right id and be Running.
describe_instance(u) == {Ok(u), Err(u)}

\* The TAP device is built if it was not yet; create_sandbox takes it, so it is gone from
\* the Worker if this fails.
BuildTap(u) == {Ok(u), Err(u)}

FcCreate(u) ==
    LET boot(v) == Then(initialize_fc_process(v, FALSE), LAMBDA w :
                     Killed(Then(await_fc_api_server(w), describe_instance)))
        keep(v) == {Ok([v EXCEPT !.name = TRUE, !.client = TRUE])}
    IN  Then(BuildTap(u), LAMBDA a : Then(ensure_uvm_files(a), LAMBDA b :
          Then(RenderConfig(b), LAMBDA c : Then(boot(c), keep))))

\* PUT /snapshot/load with resume_vm.
LoadSnapshot(u) == {Ok(u), Err(u)}

FcLoad(u) ==
    LET restore(v) == Then(initialize_fc_process(v, TRUE), LAMBDA w :
                        Killed(Then(LoadSnapshot(w), describe_instance)))
        keep(v) == {Ok([v EXCEPT !.client = TRUE])}
    IN  IF ~u.snap THEN {Err(u)} ELSE Then(ensure_uvm_files(u), LAMBDA v : Then(restore(v), keep))

\* PATCH /vm over the API socket, which only a live process answers.
PatchVm(u, state) ==
    IF u.client /\ Alive(u)
    THEN {Ok([u EXCEPT !.vm = state]), Err(u), Err([u EXCEPT !.vm = state])}
    ELSE {Err(u)}

FcPause(u) == PatchVm(u, "paused")
FcResume(u) == PatchVm(u, "running")

\* PUT /snapshot/create: the files are recorded only on success.
FcSnapshot(u) ==
    IF u.client /\ Alive(u)
    THEN {Ok(Snapped(u))} \cup {Err([u EXCEPT !.files = f]) : f \in Files}
    ELSE {Err(u)}

\* A uVM that is already down is left alone; the client is kept.
FcShutdown(u) == {Ok(IF u.held THEN kill_and_wait(u) ELSE u)}

\* Everything is removed by best effort.
FcDestroy(u) ==
    LET v == [kill_and_wait(u) EXCEPT !.name = FALSE, !.client = FALSE, !.snap = FALSE]
        unlinked == {[v EXCEPT !.files = f] : f \in IF u.snap THEN {"none", "partial", u.files} ELSE {u.files}}
    IN  Outcomes(unlinked, LAMBDA w : {Ok(w), Ok([w EXCEPT !.dir = FALSE])})

\* sched_setaffinity failures are logged.
FcCpuset(u) == {Ok(u)}

\* The page cache of the snapshot files is dropped.
FcUncache(u) == {Ok(u)}
=============================================================================
