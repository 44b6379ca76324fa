------------------------------- MODULE Worker -------------------------------
(***************************************************************************)
(* One Worker actor (worker/actor.rs) with its Runtime, its Sandbox and    *)
(* the peers it talks to: the Pool, the NetworkManager, the                *)
(* SnapshotManager and the ResponseSink.                                   *)
(*                                                                         *)
(* The Worker is one task; each of its steps ends at an await.  The Pool   *)
(* may send to it between any two steps, the VMM may die at any time, and  *)
(* every call to a peer or to the Runtime may fail.  A Worker has at most  *)
(* one Sandbox in its life; Work bounds the invocations and the control    *)
(* requests that the Pool sends it.                                        *)
(***************************************************************************)
EXTENDS Naturals, Sequences, FcRuntime, FcctrdRuntime, ToyRuntime

CONSTANTS
    Runtimes,       \* of "fc", "fcctrd", "toy", "any"
    SnapTimes,      \* of SnapshotCreationTime
    Work            \* bound: the requests the Pool makes of the Worker

ASSUME WorkerAssumption ==
    /\ Runtimes \subseteq {"fc", "fcctrd", "toy", "any"}
    /\ SnapTimes \subseteq {"Never", "OnCreationBeforeInvoc", "OnCreationAfterInvoc", "OnlyOnDemand"}
    /\ Work \in Nat

VARIABLES
    rt, snapTime,   \* what the Worker is configured with
    st,             \* SandboxState
    u,              \* the microVM
    net,            \* the network resource: "none", "held", "returned", or "lost" for good
    pc,             \* where the task is
    job,            \* what it is doing: its kind and the SandboxState it started from
    err,            \* the Error on its way to the event loop
    status,         \* exit_status: "Ok" or "Err"
    exit,           \* WorkerExit::sandbox
    slot,           \* the RunningSlot of the invocation is held
    resp,           \* responses forwarded for the invocation
    row,            \* what the SnapshotManager was told: "absent", "present", or "unsure" once
                    \* a notification failed
    view, known,    \* the Pool's view: lifecycle, and whether it has the SandboxId
    inv, ctrl, out, \* the queues from and to the Pool
    left            \* requests the Pool may still make

envVars == <<rt, snapTime>>
boxVars == <<st, u, net, row>>
jobVars == <<pc, job, err, status, exit>>
reqVars == <<slot, resp>>
poolVars == <<view, known, inv, ctrl, left>>
vars == <<envVars, boxVars, jobVars, reqVars, poolVars, out>>

SandboxState == {"Nonexistent", "Snapshot", "Running", "Paused", "Trashed"}
SandboxExit == {"None", "Reusable", "Trashed"}

\* SandboxExit::from(SandboxState).
ExitOf(s) == CASE s = "Nonexistent" -> "None" [] s = "Snapshot" -> "Reusable" [] OTHER -> "Trashed"

NoJob == [kind |-> "none", start |-> "Nonexistent"]

\* The outcomes of a Runtime operation, by the Runtime the server was built with.
Runtime(op, v) ==
    CASE op = "init"     -> CASE rt = "fc" -> FcInit(v) [] rt = "fcctrd" -> FcctrdInit(v)
                              [] rt = "toy" -> ToyInit(v) [] OTHER -> AnyInit(v)
      [] op = "create"   -> CASE rt = "fc" -> FcCreate(v) [] rt = "fcctrd" -> FcctrdCreate(v)
                              [] rt = "toy" -> ToyCreate(v) [] OTHER -> AnyCreate(v)
      [] op = "load"     -> CASE rt = "fc" -> FcLoad(v) [] rt = "fcctrd" -> FcctrdLoad(v)
                              [] OTHER -> AnyLoad(v)
      [] op = "pause"    -> CASE rt = "fc" -> FcPause(v) [] rt = "fcctrd" -> FcctrdPause(v)
                              [] rt = "toy" -> ToyPause(v) [] OTHER -> AnyPause(v)
      [] op = "resume"   -> CASE rt = "fc" -> FcResume(v) [] rt = "fcctrd" -> FcctrdResume(v)
                              [] rt = "toy" -> ToyResume(v) [] OTHER -> AnyResume(v)
      [] op = "snapshot" -> CASE rt = "fc" -> FcSnapshot(v) [] rt = "fcctrd" -> FcctrdSnapshot(v)
                              [] rt = "toy" -> ToySnapshot(v) [] OTHER -> AnySnapshot(v)
      [] op = "shutdown" -> CASE rt = "fc" -> FcShutdown(v) [] rt = "fcctrd" -> FcctrdShutdown(v)
                              [] OTHER -> AnyShutdown(v)
      [] op = "destroy"  -> CASE rt = "fc" -> FcDestroy(v) [] rt = "fcctrd" -> FcctrdDestroy(v)
                              [] rt = "toy" -> ToyDestroy(v) [] OTHER -> AnyDestroy(v)
      [] op = "cpuset"   -> CASE rt = "fc" -> FcCpuset(v) [] rt = "fcctrd" -> FcctrdCpuset(v)
                              [] rt = "toy" -> {Ok(v)} [] OTHER -> AnyCpuset(v)
      [] op = "uncache"  -> CASE rt = "fc" -> FcUncache(v) [] rt = "fcctrd" -> FcctrdUncache(v)
                              [] OTHER -> {Ok(v)}

Snapshotted ==
    CASE rt = "fc" -> FcSnapshotted [] rt = "fcctrd" -> FcctrdSnapshotted [] OTHER -> AnySnapshotted

\* spawn: the Pool hands over a snapshotted Sandbox, or none.
Init ==
    /\ rt \in Runtimes /\ snapTime \in SnapTimes
    /\ st \in IF rt = "toy" THEN {"Nonexistent"} ELSE {"Nonexistent", "Snapshot"}
    /\ u = IF st = "Snapshot" THEN Snapshotted ELSE NoVm
    /\ net = IF st = "Snapshot" THEN "held" ELSE "none"
    /\ row = IF st = "Snapshot" THEN "present" ELSE "absent"
    /\ pc = "init" /\ job = NoJob /\ err = "none" /\ status = "Ok" /\ exit = "none"
    /\ slot = FALSE /\ resp = 0
    /\ view = "fresh" /\ known = (st = "Snapshot")
    /\ inv = FALSE /\ ctrl = <<>> /\ out = <<>> /\ left = Work

-----------------------------------------------------------------------------
\* The Pool, as far as a Worker can tell (SandboxPool models it).

Tell(m) == ctrl' = Append(ctrl, m)
Ask == left > 0 /\ left' = left - 1

\* An invocation is dispatched to a fresh or an Idle Worker.
PoolInvokes ==
    /\ view \in {"fresh", "idle"} /\ Ask
    /\ view' = "active" /\ inv' = TRUE
    /\ UNCHANGED <<envVars, boxVars, jobVars, reqVars, known, ctrl, out>>

\* A fresh Worker is asked to prepare its Sandbox.
PoolPrepares ==
    /\ view = "fresh" /\ Ask
    /\ view' = "active" /\ Tell("PrepareSandbox")
    /\ UNCHANGED <<envVars, boxVars, jobVars, reqVars, known, inv, out>>

\* A snapshot of the Sandbox is asked for, even while the Worker is Active.
PoolSnapshots ==
    /\ view \in {"idle", "active"} /\ known /\ snapTime # "Never" /\ Ask
    /\ view' = "snapping" /\ Tell("CreateSnapshot")
    /\ UNCHANGED <<envVars, boxVars, jobVars, reqVars, known, inv, out>>

\* The keep-alive period ended, or a control request or an eviction ends the Worker; a
\* Worker spawned for an orphan snapshot is sent DestroySandbox at once.
PoolEnds(m) ==
    /\ \/ view \in {"idle", "active"} /\ known
       \/ view = "fresh" /\ known /\ m = "DestroySandbox"
    /\ view' = "dying" /\ Tell(m)
    /\ UNCHANGED <<envVars, boxVars, jobVars, reqVars, known, inv, out, left>>

PoolReceives ==
    /\ out # <<>> /\ out' = Tail(out)
    /\ known' = (known \/ Head(out) = "SandboxId")
    /\ view' = CASE Head(out) \in {"NeedWork", "Prepared"} /\ view = "active" -> "idle"
                 [] Head(out) = "Snapshotted" /\ view = "snapping" -> "idle"
                 [] Head(out) = "ReapMe" -> "reaped"
                 [] OTHER -> view
    /\ UNCHANGED <<envVars, boxVars, jobVars, reqVars, inv, ctrl, left>>

\* The VMM exits by itself.
VmDies ==
    /\ rt \in {"fc", "fcctrd"} /\ Alive(u)
    /\ u' = [u EXCEPT !.vm = "dead"]
    /\ UNCHANGED <<envVars, st, net, row, jobVars, reqVars, poolVars, out>>

\* The Pool ends without reaping the Worker: both of its channels are closed.
PoolDies ==
    /\ view # "reaped" /\ view' = "gone"
    /\ UNCHANGED <<envVars, boxVars, jobVars, reqVars, known, inv, ctrl, left, out>>

-----------------------------------------------------------------------------
\* The Worker.

\* retry_send_to_pool tries until the message is in the Pool's queue.
Send(m) == view # "gone" /\ Len(out) < 2 /\ out' = Append(out, m)

\* ... for ever, when the queue is closed.
SendRetries ==
    /\ view = "gone" /\ pc \in {"sendid", "needwork", "prepreply", "prepfailed", "snapreply", "reap"}
    /\ UNCHANGED vars

\* Where a request goes on once its Sandbox is Running, and where a failure to get there leads.
PrepareAt == CASE st = "Nonexistent" -> "allocate" [] st = "Snapshot" -> "load" [] st = "Paused" -> "resume"
Creating(time) == job.start = "Nonexistent" /\ snapTime = time
AfterPrepare ==
    CASE job.kind = "prep" -> "preppause"
      [] job.kind = "invoke" /\ Creating("OnCreationBeforeInvoc") -> "prepause"
      [] OTHER -> "issue"
PrepareFails == err' = "PrepareSandbox" /\ pc' = IF job.kind = "invoke" THEN "release" ELSE "prepfailed"
AfterSnapshot ==
    CASE job.kind = "snap" -> "snapreply" [] job.kind = "prep" -> "prepreply"
      [] job.kind = "invoke" -> IF snapTime = "OnCreationBeforeInvoc" THEN "reresume" ELSE "release"

\* One call of the Runtime: Good and Bad say what the Worker does with its outcome.
Call(at, op, Good, Bad) ==
    /\ pc = at
    /\ \E r \in Runtime(op, u) : u' = r.u /\ IF r.ok THEN Good ELSE Bad
    /\ UNCHANGED <<envVars, reqVars, poolVars, out, job, exit>>

Keep(x) == UNCHANGED x
Go(p) == pc' = p /\ UNCHANGED err

\* run: the Runtime instance is initialised.
RuntimeInit ==
    Call("init", "init",
         Go("loop") /\ Keep(<<st, net, row, status>>),
         Go("reap") /\ status' = "Err" /\ Keep(<<st, net, row>>))

\* The event loop prefers invocations to control messages.
TakeInvocation ==
    /\ pc = "loop" /\ inv
    /\ inv' = FALSE /\ slot' = TRUE /\ resp' = 0
    /\ job' = [kind |-> "invoke", start |-> st] /\ pc' = PrepareAt
    /\ UNCHANGED <<envVars, boxVars, err, status, exit, view, known, ctrl, left, out>>

TakeControl(m) ==
    /\ pc = "loop" /\ ~inv /\ view # "gone"
    /\ ctrl # <<>> /\ Head(ctrl) = m /\ ctrl' = Tail(ctrl)
    /\ UNCHANGED <<envVars, boxVars, err, status, exit, reqVars, view, known, inv, left, out>>

\* Mutant of ShutDown: a Sandbox without a snapshot is not destroyed.
ShutDownOnly ==
    /\ TakeControl("ShutDown")
    /\ job' = [kind |-> "shutdown", start |-> st]
    /\ pc' = IF st = "Paused" /\ u.snap THEN "unload" ELSE "reap"

\* shutdown: what has a snapshot is unloaded, what has none is destroyed.
ShutDown ==
    /\ TakeControl("ShutDown")
    /\ job' = [kind |-> "shutdown", start |-> st]
    /\ pc' = IF st # "Paused" THEN "reap" ELSE IF u.snap THEN "unload" ELSE "destroy"

DestroySandbox ==
    /\ TakeControl("DestroySandbox")
    /\ job' = [kind |-> "destroy", start |-> st]
    /\ pc' = IF st = "Nonexistent" THEN "reap" ELSE "destroy"

handle_prepare_sandbox_request ==
    /\ TakeControl("PrepareSandbox")
    /\ job' = [kind |-> "prep", start |-> st] /\ pc' = PrepareAt

handle_snapshot_request ==
    /\ TakeControl("CreateSnapshot")
    /\ job' = [kind |-> "snap", start |-> st]
    /\ pc' = IF st = "Paused" /\ ~u.snap THEN "query" ELSE "snapreply"

\* Losing the Pool ends the loop, whatever control messages are still queued.
ChannelClosed ==
    /\ pc = "loop" /\ ~inv /\ view = "gone" /\ pc' = "reap"
    /\ UNCHANGED <<envVars, boxVars, job, err, status, exit, reqVars, poolVars, out>>

-----------------------------------------------------------------------------
\* prepare_sandbox.

\* create_sandbox: the network resource is the Runtime's from the moment it is passed on.
Allocate ==
    /\ pc = "allocate"
    /\ \/ net' = "held" /\ Go("create")
       \/ net' = net /\ PrepareFails
    /\ UNCHANGED <<envVars, st, u, row, job, status, exit, reqVars, poolVars, out>>

Create ==
    Call("create", "create",
         Go("pin") /\ Keep(<<st, net, row, status>>),
         net' = "lost" /\ PrepareFails /\ Keep(<<st, row, status>>))

\* A failure drops the new Sandbox.
Pin ==
    /\ pc = "pin"
    /\ \E r \in Runtime("cpuset", u) :
         \/ r.ok /\ u' = r.u /\ net' = net /\ Go("sendid")
         \/ ~r.ok /\ u' = [r.u EXCEPT !.stray = Alive(r.u)] /\ net' = "lost" /\ PrepareFails
    /\ UNCHANGED <<envVars, st, row, job, status, exit, reqVars, poolVars, out>>

\* Mutant of SendSandboxId: the Pool is not told.
SendNoSandboxId ==
    /\ pc = "sendid" /\ out' = out
    /\ st' = "Running" /\ Go(AfterPrepare)
    /\ UNCHANGED <<envVars, u, net, row, job, status, exit, reqVars, poolVars>>

SendSandboxId ==
    /\ pc = "sendid" /\ Send("SandboxId")
    /\ st' = "Running" /\ Go(AfterPrepare)
    /\ UNCHANGED <<envVars, u, net, row, job, status, exit, reqVars, poolVars>>

\* Mutant of Load: the Sandbox counts as live only once its CPU set is in place.
LoadThenPin ==
    Call("load", "load",
         Go("loadpin") /\ Keep(<<st, net, row, status>>),
         PrepareFails /\ Keep(<<st, net, row, status>>))

\* load_sandbox: from here on the Sandbox is live.
Load ==
    Call("load", "load",
         st' = "Running" /\ Go("loadpin") /\ Keep(<<net, row, status>>),
         PrepareFails /\ Keep(<<st, net, row, status>>))

LoadPin ==
    Call("loadpin", "cpuset",
         st' = "Running" /\ Go(AfterPrepare) /\ Keep(<<net, row, status>>),
         PrepareFails /\ Keep(<<st, net, row, status>>))

Resume ==
    Call("resume", "resume",
         Go("resumepin") /\ Keep(<<st, net, row, status>>),
         PrepareFails /\ Keep(<<st, net, row, status>>))

ResumePin ==
    Call("resumepin", "cpuset",
         st' = "Running" /\ Go(AfterPrepare) /\ Keep(<<net, row, status>>),
         PrepareFails /\ Keep(<<st, net, row, status>>))

-----------------------------------------------------------------------------
\* _handle_with_sandbox and handle_request.

PauseFails(p) == err' = "PauseSandbox" /\ pc' = p /\ Keep(<<st, net, row, status>>)

\* OnCreationBeforeInvoc: pause, snapshot and resume before the first invocation.
PauseBeforeInvoc ==
    Call("prepause", "pause",
         st' = "Paused" /\ Go("query") /\ Keep(<<net, row, status>>), PauseFails("release"))

ResumeAfterSnapshot ==
    Call("reresume", "resume",
         st' = "Running" /\ Go("issue") /\ Keep(<<net, row, status>>),
         err' = "ResumeSandbox" /\ pc' = "release" /\ Keep(<<st, net, row, status>>))

\* GrpcRequestIssuer::issue_request: the connection is retried until the back-off is
\* exhausted; the RPC is tried once, and a failure status of the Function is a response too.
\* What can be returned, the time limit aside.
IssuerResults ==
    {"Connection"} \cup IF u.vm = "running" THEN {"response", "ResponseEncapsulation"} ELSE {}

\* Where handle_request goes on after an error of the issuer: the error response made for the
\* client is forwarded, unless it could not be put together.
make_issuer_error_response == {"forward", "release"}

\* The issuer answers, fails, or takes longer than issuer_timeout.  The PerformanceMonitor
\* started before is stopped after.
issue_request ==
    /\ pc = "issue"
    /\ \E r \in IssuerResults \cup {"timeout"} :
          IF r = "response"
          THEN Go("forward")
          ELSE /\ err' = IF r = "timeout" THEN "IssuerTimeout" ELSE "HandleFunctionRequest"
               /\ pc' \in make_issuer_error_response
    /\ UNCHANGED <<envVars, boxVars, job, status, exit, reqVars, poolVars, out>>

\* The response is in the sink's queue, or the attempts are exhausted, or the sink is gone.
forward_response ==
    /\ pc = "forward"
    /\ \/ resp' = resp + 1 /\ err' = err
       \/ resp' = resp /\ err' = IF err = "none" THEN "ForwardToSink" ELSE err
    /\ pc' = IF err' = "none" THEN "postpause" ELSE "release"
    /\ UNCHANGED <<envVars, boxVars, job, status, exit, slot, poolVars, out>>

\* Mutant of PauseAfterInvoc: a failure to pause is only logged.
PauseUnchecked ==
    Call("postpause", "pause",
         /\ st' = "Paused" /\ Keep(<<net, row, status>>)
         /\ Go(IF Creating("OnCreationAfterInvoc") THEN "query" ELSE "release"),
         st' = "Paused" /\ Go("release") /\ Keep(<<net, row, status>>))

PauseAfterInvoc ==
    Call("postpause", "pause",
         /\ st' = "Paused" /\ Keep(<<net, row, status>>)
         /\ Go(IF Creating("OnCreationAfterInvoc") THEN "query" ELSE "release"),
         PauseFails("release"))

\* Mutant of ReleaseSlot: the slot is released after a success only.
ReleaseOnSuccess ==
    /\ pc = "release"
    /\ slot' = (err # "none") /\ Go(IF err = "none" THEN "needwork" ELSE "failure")
    /\ UNCHANGED <<envVars, boxVars, job, status, exit, resp, poolVars, out>>

\* The RunningSlot is released whatever the result.
ReleaseSlot ==
    /\ pc = "release"
    /\ slot' = FALSE /\ Go(IF err = "none" THEN "needwork" ELSE "failure")
    /\ UNCHANGED <<envVars, boxVars, job, status, exit, resp, poolVars, out>>

Reply(at, m, next) ==
    /\ pc = at /\ Send(m) /\ Go(next)
    /\ job' = IF next = "loop" THEN NoJob ELSE job
    /\ UNCHANGED <<envVars, boxVars, status, exit, reqVars, poolVars>>

SendNeedWork == Reply("needwork", "NeedWork", "loop")

-----------------------------------------------------------------------------
\* create_snapshot.

\* The SnapshotManager gives the paths, or says to skip, or fails.
QueryPaths ==
    /\ pc = "query" /\ pc' \in {"snapshot", AfterSnapshot}
    /\ UNCHANGED <<envVars, boxVars, job, err, status, exit, reqVars, poolVars, out>>

rt_create_snapshot ==
    Call("snapshot", "snapshot",
         Go("notify") /\ Keep(<<st, net, row, status>>), Go(AfterSnapshot) /\ Keep(<<st, net, row, status>>))

\* A Sandbox that has no snapshot state is not announced.
snapman_notify_creation ==
    /\ pc = "notify" /\ Go(AfterSnapshot)
    /\ row' \in IF u.snap THEN {"present", "unsure"} ELSE {row}
    /\ UNCHANGED <<envVars, st, u, net, job, status, exit, reqVars, poolVars, out>>

-----------------------------------------------------------------------------
\* handle_prepare_sandbox_request, once the Sandbox is Running.

PausePrepared ==
    Call("preppause", "pause",
         /\ st' = "Paused" /\ Keep(<<net, row, status>>)
         /\ Go(IF Creating("OnCreationBeforeInvoc") THEN "query" ELSE "prepreply"),
         PauseFails("prepfailed"))

SendPrepared == Reply("prepreply", "Prepared", "loop")
SendPrepFailed == Reply("prepfailed", "PrepFailed", "failure")
SendSnapshotted == Reply("snapreply", "Snapshotted", "loop")

-----------------------------------------------------------------------------
\* try_handle_failure, shutdown and destroy_sandbox.

try_handle_failure ==
    /\ pc = "failure"
    /\ pc' = CASE err = "PrepareSandbox" /\ st \in {"Nonexistent", "Snapshot"} -> "reap"
               [] err = "PrepareSandbox" /\ st = "Paused" -> IF u.snap THEN "unload" ELSE "destroy"
               [] err = "PrepareSandbox" /\ st = "Running" -> "quiesce"
               [] err \in {"HandleFunctionRequest", "IssuerTimeout", "ForwardToSink"} -> "quiesce"
               [] err = "PauseSandbox" -> "repause"
               [] OTHER -> "panicked"
    /\ UNCHANGED <<envVars, boxVars, job, err, status, exit, reqVars, poolVars, out>>

Trash == st' = "Trashed" /\ status' = "Err" /\ Go("reap") /\ Keep(<<net, row>>)

Quiesce ==
    Call("quiesce", "pause",
         /\ st' = IF u.snap THEN st ELSE "Paused"
         /\ Go(IF u.snap THEN "unload" ELSE "destroy") /\ Keep(<<net, row, status>>),
         Trash)

\* Mutant of Repause: pausing is retried until it works.
RepauseUntil ==
    Call("repause", "pause",
         st' = "Paused" /\ Go("destroy") /\ Keep(<<net, row, status>>),
         Go("repause") /\ Keep(<<st, net, row, status>>))

Repause ==
    Call("repause", "pause",
         st' = "Paused" /\ Go("destroy") /\ Keep(<<net, row, status>>),
         Go("destroy") /\ Keep(<<st, net, row, status>>))

Unload ==
    Call("unload", "shutdown", st' = "Snapshot" /\ Go("reap") /\ Keep(<<net, row, status>>), Trash)

\* Mutant of destroy_sandbox: the SnapshotManager is not told of the snapshot's end.
DestroyUntold ==
    Call("destroy", "destroy",
         st' = "Nonexistent" /\ Go("dealloc") /\ Keep(<<net, row, status>>),
         Trash)

destroy_sandbox ==
    Call("destroy", "destroy",
         st' = "Nonexistent" /\ Go(IF u.snap THEN "removal" ELSE "dealloc") /\ Keep(<<net, row, status>>),
         Trash)

snapman_notify_removal ==
    /\ pc = "removal" /\ Go("dealloc")
    /\ row' \in {"absent", "unsure"}
    /\ UNCHANGED <<envVars, st, u, net, job, status, exit, reqVars, poolVars, out>>

Deallocate ==
    /\ pc = "dealloc" /\ Go("reap")
    /\ \/ net' = "returned" /\ status' = status
       \/ net' = "lost" /\ status' = "Err"
    /\ UNCHANGED <<envVars, st, u, row, job, exit, reqVars, poolVars, out>>

SendReapMe == Reply("reap", "ReapMe", "exiting")

\* uncache_sandbox expects one of two states after a success; then the task returns.
Return ==
    /\ pc = "exiting"
    /\ IF status = "Ok" /\ ~(st = "Nonexistent" \/ (st = "Snapshot" /\ u.snap))
       THEN pc' = "panicked" /\ exit' = exit /\ u' = u
       ELSE /\ pc' = "exited" /\ exit' = ExitOf(st)
            /\ \E r \in IF status = "Ok" /\ st = "Snapshot" THEN Runtime("uncache", u) ELSE {Ok(u)} : u' = r.u
    /\ UNCHANGED <<envVars, st, net, row, job, err, status, reqVars, poolVars, out>>

Ended == pc \in {"exited", "panicked"} /\ UNCHANGED vars

WorkerStep ==
    \/ RuntimeInit \/ TakeInvocation \/ ShutDown \/ DestroySandbox \/ handle_prepare_sandbox_request
    \/ handle_snapshot_request \/ ChannelClosed
    \/ Allocate \/ Create \/ Pin \/ SendSandboxId \/ Load \/ LoadPin \/ Resume \/ ResumePin
    \/ PauseBeforeInvoc \/ ResumeAfterSnapshot \/ issue_request \/ forward_response \/ PauseAfterInvoc
    \/ ReleaseSlot \/ SendNeedWork \/ QueryPaths \/ rt_create_snapshot \/ snapman_notify_creation
    \/ PausePrepared \/ SendPrepared \/ SendPrepFailed \/ SendSnapshotted
    \/ try_handle_failure \/ Quiesce \/ Repause \/ Unload \/ destroy_sandbox \/ snapman_notify_removal
    \/ Deallocate \/ SendReapMe \/ Return

PoolStep ==
    \/ PoolInvokes \/ PoolPrepares \/ PoolSnapshots \/ PoolReceives \/ PoolDies
    \/ \E m \in {"ShutDown", "DestroySandbox"} : PoolEnds(m)

Next == WorkerStep \/ PoolStep \/ VmDies \/ SendRetries \/ Ended

Spec == Init /\ [][Next]_vars

\* Each await of the Worker ends, and the Pool keeps reading its queue while it lives.
FairSpec == Spec /\ WF_vars(WorkerStep) /\ WF_vars(PoolReceives)

-----------------------------------------------------------------------------
TypeOK ==
    /\ rt \in Runtimes /\ snapTime \in SnapTimes
    /\ st \in SandboxState /\ u \in MicroVmType
    /\ net \in {"none", "held", "returned", "lost"} /\ row \in {"absent", "present", "unsure"}
    /\ job.kind \in {"none", "invoke", "prep", "snap", "shutdown", "destroy"} /\ job.start \in SandboxState
    /\ status \in {"Ok", "Err"} /\ exit \in SandboxExit \cup {"none"}
    /\ slot \in BOOLEAN /\ resp \in 0..1 /\ inv \in BOOLEAN /\ known \in BOOLEAN
    /\ Len(ctrl) <= 2 /\ Len(out) <= 2 /\ left \in 0..Work

\* A Sandbox handed back as Reusable can be loaded by the next Worker: its snapshot is
\* complete, its network resource is with it, and no VMM of it runs any more, whatever the
\* Runtime calls on the way did.  Only an rt-fcctrd VMM whose LoadVMSnapshot or UnloadVM was
\* answered without the Runtime learning the outcome may be left over.
ReusableIsIntact ==
    exit = "Reusable" =>
        /\ u.snap /\ u.files = "full" /\ net = "held"
        /\ Alive(u) => rt = "fcctrd" /\ u.stray

\* When the Worker returns no Sandbox, rt-fc leaves no process behind, and the network
\* resource was returned unless a step on the way failed; no memory may then be in use.
NothingLeftBehind ==
    exit = "None" =>
        /\ Alive(u) => rt # "fc" /\ u.stray
        /\ ~u.held \/ ~Alive(u) \/ u.stray
        /\ net # "held" /\ (status = "Ok" /\ err # "PrepareSandbox" => net \in {"none", "returned"})

\* Back in its event loop the Worker owns either nothing, or an untouched snapshot, or a VMM
\* that is not running, and the Pool counts it as Idle only in the last case: the state it
\* acts on next is the state of the microVM.
LoopStateIsReal ==
    /\ pc = "loop" =>
         /\ st \in {"Nonexistent", "Snapshot", "Paused"} /\ err = "none" /\ ~slot
         /\ (st = "Nonexistent") = (net = "none")
         /\ st = "Paused" => u.vm \in {"paused", "dead"}
         /\ st = "Snapshot" => u.vm = "none" /\ u.snap
    /\ view = "idle" => known

\* The Pool hears of the Sandbox before it hears that the invocation or the preparation is
\* done, gets ReapMe once and last, and NeedWork only after exactly one response was
\* forwarded and the RunningSlot was released.
PoolProtocol ==
    /\ \A i \in DOMAIN out :
         /\ out[i] \in {"NeedWork", "Prepared", "Snapshotted"} => known \/ \E j \in 1..(i-1) : out[j] = "SandboxId"
         /\ out[i] = "ReapMe" => i = Len(out) /\ pc \in {"exiting", "exited", "panicked"}
    /\ pc = "needwork" => resp = 1 /\ ~slot /\ st = "Paused"

\* The snapshot metadata agrees with the Sandbox the Worker returns, unless a notification
\* was lost or the Sandbox is trashed: a restart reinstates what can be loaded, and nothing
\* that was destroyed.
RowIsTrue ==
    /\ exit = "None" => row # "present"
    /\ exit = "Reusable" => row # "absent"
    /\ pc = "loop" => (row = "present" => u.snap) /\ (row = "absent" => ~u.snap)

\* The unreachable!() arms of the Worker are unreachable, but for the one of
\* try_handle_failure, which a failed resume after the first snapshot reaches.
PanicsOnlyOnResume == pc = "panicked" => err = "ResumeSandbox"

\* As the comment on the last arm of try_handle_failure has it, no error of handle_request
\* reaches that arm (ResumeSandbox is always wrapped in PrepareSandbox).
NeverPanics == pc # "panicked"

\* A Worker that is told to end does end, after whatever it was doing, as long as the Pool
\* is there to be told: its task returns, or has panicked.
EndsWhenTold == (view = "dying") ~> (pc \in {"exited", "panicked"} \/ view = "gone")

\* The RunningSlot of an invocation that the Worker took comes back, however its Sandbox
\* and its peers fail, as long as the Pool is there: the Worker holds it while it retries
\* to send the SandboxId.
SlotComesBack == slot ~> (~slot \/ view = "gone")
=============================================================================
