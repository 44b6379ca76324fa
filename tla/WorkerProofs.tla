---------------------------- MODULE WorkerProofs ----------------------------
(***************************************************************************)
(* Proofs about the Worker, for every set of Runtimes and times of         *)
(* snapshot creation and for any number of requests.                       *)
(*                                                                         *)
(* The first part proves what each Runtime operation promises, whichever   *)
(* Runtime the server was built with; the second proves the inductive      *)
(* invariant of the Worker from those promises alone.                      *)
(***************************************************************************)
EXTENDS Worker, TLAPS

(***************************************************************************)
(* The inductive invariant.                                                *)
(***************************************************************************)

Errors == {"none", "PrepareSandbox", "HandleFunctionRequest", "IssuerTimeout", "ForwardToSink",
           "PauseSandbox", "ResumeSandbox"}
JobKinds == {"none", "invoke", "prep", "snap", "shutdown", "destroy"}
ControlMessage == {"PrepareSandbox", "CreateSnapshot", "ShutDown", "DestroySandbox"}
PoolMessage == {"SandboxId", "NeedWork", "Prepared", "PrepFailed", "Snapshotted", "ReapMe"}

Typed ==
    /\ rt \in {"fc", "fcctrd", "toy", "any"} /\ u \in MicroVmType
    /\ st \in SandboxState /\ job \in [kind : JobKinds, start : SandboxState]
    /\ err \in Errors /\ status \in {"Ok", "Err"} /\ resp \in {0, 1}
    /\ row \in {"absent", "present", "unsure"} /\ net \in {"none", "held", "returned", "lost"}
    /\ ctrl \in Seq(ControlMessage) /\ out \in Seq(PoolMessage)

\* A recorded snapshot is complete, a VMM that runs is known to its owner or counted as
\* stray, and rt-fc, whose VMMs are children of the server, has no strays.
Sound(v) ==
    /\ v.snap => v.files = "full"
    /\ Alive(v) => v.held \/ v.stray
    /\ rt = "fc" => ~v.stray

AtRest == {"init", "loop", "snapreply"}
Founding == {"allocate", "create", "pin", "sendid"}
Preparing == Founding \cup {"load", "loadpin", "resume", "resumepin"}
Serving == {"prepause", "issue", "forward", "postpause", "preppause"}
Snapping == {"query", "snapshot", "notify"}
Failing == {"release", "failure", "prepfailed"}
Closing == {"reap", "exiting", "exited", "panicked"}
Pausing == {"loop", "snapreply", "needwork", "prepreply"} \cup Snapping

\* The SandboxState at each place of the task.
StateAt ==
    /\ pc \in AtRest => st \in {"Nonexistent", "Snapshot", "Paused"}
    /\ pc = "init" => st # "Paused"
    /\ pc \in Founding \cup {"removal", "dealloc"} => st = "Nonexistent"
    /\ pc = "load" => st = "Snapshot"
    /\ pc \in {"loadpin"} \cup Serving => st = "Running"
    /\ pc \in {"resume", "resumepin", "reresume", "needwork", "prepreply"} \cup Snapping => st = "Paused"
    /\ pc \in {"quiesce", "repause"} => st = "Running"
    /\ pc = "unload" => st \in {"Running", "Paused"}
    /\ pc = "destroy" => st \in {"Snapshot", "Running", "Paused"}
    /\ pc \in Failing => st # "Trashed"

\* The request being handled, and the SandboxState that it found.
JobAt ==
    /\ pc \in Preparing => job.kind \in {"invoke", "prep"}
    /\ pc \in {"load", "loadpin", "resume", "resumepin"} => job.start # "Nonexistent"
    /\ pc \in {"prepause", "issue", "forward", "postpause", "reresume", "release"} => job.kind = "invoke"
    /\ pc = "prepause" => Creating("OnCreationBeforeInvoc")
    /\ pc = "reresume" => snapTime = "OnCreationBeforeInvoc"
    /\ pc \in {"preppause", "prepreply"} => job.kind = "prep"
    /\ pc \in Snapping => job.kind \in {"invoke", "prep", "snap"}
    /\ pc = "snapreply" => job.kind = "snap"

\* The slot and the response belong to the invocation under way.
RequestAt ==
    /\ slot => job.kind = "invoke"
    /\ pc \in {"init", "loop", "needwork"} => ~slot
    /\ job.kind = "invoke" =>
         /\ pc \in Preparing \cup {"prepause", "issue", "forward", "reresume"} => resp = 0
         /\ pc \in {"postpause", "needwork"} => resp = 1
         /\ pc = "release" /\ err = "none" => resp = 1
         /\ pc \in Snapping => resp = IF snapTime = "OnCreationBeforeInvoc" THEN 0 ELSE 1
    /\ pc = "needwork" => resp = 1

\* The error on its way, and what it says of the Sandbox.
ErrorAt ==
    /\ pc \in AtRest \cup Preparing \cup Snapping \cup {"reresume", "needwork", "prepreply"} => err = "none"
    /\ pc \in Serving \ {"forward"} => err = "none"
    /\ pc = "forward" => err \in {"none", "HandleFunctionRequest", "IssuerTimeout"}
    /\ pc \in {"failure", "prepfailed"} => err # "none"
    /\ pc = "release" /\ err = "none" => st = "Paused"
    /\ pc \in Failing /\ err = "ResumeSandbox" => st = "Paused"
    /\ pc \in Failing /\ err \notin {"none", "PrepareSandbox", "ResumeSandbox"} => st = "Running"
    /\ pc = "panicked" => err = "ResumeSandbox"

\* How the task comes to its end: with a Sandbox in neither of the states that uncache_sandbox
\* expects only after a failure, or when the Pool is gone and ReapMe cannot be sent.
EndAt ==
    /\ pc \notin Closing => status = "Ok"
    /\ pc \in {"reap", "exiting"} /\ status = "Ok" /\ st \notin {"Nonexistent", "Snapshot"} =>
         pc = "reap" /\ view = "gone"
    /\ exit = IF pc = "exited" THEN ExitOf(st) ELSE "none"

\* Where the network resource is.
NetworkAt ==
    /\ st # "Nonexistent" \/ pc \in {"create", "pin", "sendid"} => net = "held"
    /\ pc \in AtRest \cup {"allocate"} /\ st = "Nonexistent" => net = "none"
    /\ pc \in {"release", "failure", "prepfailed"} /\ st = "Nonexistent" => net \in {"none", "lost"}
    /\ pc \in Closing /\ st = "Nonexistent" =>
         net # "held" /\ (status = "Ok" /\ err # "PrepareSandbox" => net # "lost")

\* What the microVM is in each SandboxState.
MicroVmAt ==
    /\ Sound(u)
    /\ st = "Nonexistent" =>
         /\ ~u.snap
         /\ pc \in AtRest \cup {"allocate", "create"} => ~Alive(u)
         /\ pc \notin {"pin", "sendid"} /\ Alive(u) => rt # "fc" /\ u.stray
    /\ st = "Snapshot" =>
         /\ u.snap
         /\ pc \in AtRest \cup {"load"} => u.vm = "none"
         /\ Alive(u) => rt = "fcctrd" /\ u.stray
    /\ pc = "unload" => u.snap
    /\ pc \in {"pin", "sendid"} \/ st \in {"Running", "Paused"} => u.held \/ u.stray
    /\ st = "Paused" /\ (pc \in Pausing \/ (pc = "release" /\ err = "none")) => u.vm \in {"paused", "dead"}
    /\ pc \in {"query", "snapshot"} => ~u.snap
    /\ pc \in {"prepause", "preppause"} /\ job.start = "Nonexistent" => ~u.snap
    /\ pc \in {"issue", "forward", "postpause"} /\ Creating("OnCreationAfterInvoc") => ~u.snap

\* What the SnapshotManager was told.
RowAt ==
    st # "Trashed" /\ pc # "removal" =>
        /\ row = "present" => u.snap
        /\ row = "absent" /\ u.snap => pc = "notify"

\* What the Pool knows, or will know once it has read its queue.
ToldAt ==
    /\ st # "Nonexistent" => known \/ \E i \in 1..Len(out) : out[i] = "SandboxId"
    /\ job.kind = "snap" => known
    /\ \A i \in 1..Len(ctrl) : ctrl[i] = "CreateSnapshot" => known
    /\ view = "idle" => known
    /\ \A i \in 1..Len(out) :
         /\ out[i] \in {"NeedWork", "Prepared", "Snapshotted"} => known \/ \E j \in 1..(i-1) : out[j] = "SandboxId"
         /\ out[i] = "ReapMe" => i = Len(out) /\ pc \in {"exiting", "exited", "panicked"}

ControlAt == StateAt /\ JobAt /\ RequestAt /\ ErrorAt /\ EndAt /\ NetworkAt

WInv == Typed /\ ControlAt /\ MicroVmAt /\ RowAt /\ ToldAt

-----------------------------------------------------------------------------
(***************************************************************************)
(* What the updates of a microVM leave alone.                              *)
(***************************************************************************)

USE DEF Alive, Ok, Err

\* The snapshot of v is the snapshot of w.
SameSnapshot(v, w) == w.snap = v.snap /\ w.files = v.files

LEMMA VmUpFacts ==
    ASSUME NEW v \in MicroVmType
    PROVE  /\ VmUp(v) \in MicroVmType /\ SameSnapshot(v, VmUp(v)) /\ VmUp(v).stray = v.stray
           /\ VmUp(v).vm = "running" /\ VmUp(v).held
  BY DEF VmUp, SameSnapshot, MicroVmType, VmState, Files

LEMMA VmDownFacts ==
    ASSUME NEW v \in MicroVmType
    PROVE  /\ VmDown(v) \in MicroVmType /\ SameSnapshot(v, VmDown(v)) /\ VmDown(v).stray = v.stray
           /\ VmDown(v).vm = "none" /\ ~VmDown(v).held
  BY DEF VmDown, SameSnapshot, MicroVmType, VmState, Files

LEMMA SnappedFacts ==
    ASSUME NEW v \in MicroVmType
    PROVE  /\ Snapped(v) \in MicroVmType /\ Snapped(v).snap /\ Snapped(v).files = "full"
           /\ Snapped(v).vm = v.vm /\ Snapped(v).held = v.held /\ Snapped(v).stray = v.stray
  BY DEF Snapped, MicroVmType, VmState, Files

LEMMA StartedFacts ==
    ASSUME NEW v \in MicroVmType
    PROVE  /\ Started(v) \in MicroVmType /\ SameSnapshot(v, Started(v)) /\ Started(v).stray = v.stray
           /\ Started(v).vm = "running" /\ Started(v).held
<1>. DEFINE w == VmUp(v)
<1>1. /\ w \in MicroVmType /\ SameSnapshot(v, w) /\ w.stray = v.stray
      /\ w.vm = "running" /\ w.held
  BY VmUpFacts
<1>2. Started(v) = [w EXCEPT !.name = TRUE]
  BY DEF Started
<1>. HIDE DEF w
<1>3. [w EXCEPT !.name = TRUE] \in MicroVmType
  BY <1>1 DEF MicroVmType
<1>. QED BY <1>1, <1>2, <1>3 DEF SameSnapshot, MicroVmType

LEMMA NoVmFacts ==
    NoVm \in MicroVmType /\ ~NoVm.snap /\ NoVm.vm = "none" /\ ~NoVm.held /\ ~NoVm.stray
  BY DEF NoVm, MicroVmType, VmState, Files

-----------------------------------------------------------------------------
(***************************************************************************)
(* rt-fc.                                                                  *)
(***************************************************************************)

\* What an operation that brings a uVM up promises: a process it leaves is the Worker's, and
\* it leaves none when it fails.
FcPromise(v, r) ==
    /\ r.u \in MicroVmType /\ SameSnapshot(v, r.u) /\ ~r.u.stray
    /\ r.ok => r.u.held
    /\ ~r.ok => ~Alive(r.u)

LEMMA FcForkFacts ==
    ASSUME NEW v \in MicroVmType, ~Alive(v), ~v.stray, NEW r \in fork_exec_fc(v)
    PROVE  FcPromise(v, r)
<1>1. r = Ok(VmUp(v)) \/ r = Err(v)
  BY DEF fork_exec_fc, MayFail
<1>. QED BY <1>1, VmUpFacts DEF FcPromise, SameSnapshot

LEMMA FcAwaitFacts ==
    ASSUME NEW v \in MicroVmType, ~v.stray, NEW r \in await_fc_api_server(v)
    PROVE  r.u \in MicroVmType /\ SameSnapshot(v, r.u) /\ ~r.u.stray /\ (r.ok => r.u = v)
  BY DEF await_fc_api_server, SameSnapshot, MicroVmType, VmState, Files

\* Whatever failed, the process is killed.
LEMMA FcKilledFacts ==
    ASSUME NEW v \in MicroVmType, NEW S, NEW r \in Killed(S),
           \A q \in S : /\ q.u \in MicroVmType /\ SameSnapshot(v, q.u) /\ ~q.u.stray
                        /\ q.ok => q.u.held
    PROVE  FcPromise(v, r)
<1>1. PICK q \in S : r \in IF q.ok THEN {q} ELSE {Err(w) : w \in {kill_and_wait(q.u)}}
  BY DEF Killed, OrElse
<1>2. CASE q.ok
  BY <1>1, <1>2 DEF FcPromise
<1>3. CASE ~q.ok
  <2>1. r = Err(VmDown(q.u))
    BY <1>1, <1>3 DEF kill_and_wait
  <2>. QED BY <2>1, VmDownFacts DEF FcPromise, SameSnapshot
<1>. QED BY <1>2, <1>3

LEMMA FcInitProcessFacts ==
    ASSUME NEW v \in MicroVmType, ~Alive(v), ~v.stray, NEW fifos \in BOOLEAN,
           NEW r \in initialize_fc_process(v, fifos)
    PROVE  FcPromise(v, r)
<1>1. CASE fifos
  <2>. DEFINE S == Then(fork_exec_fc(v), await_fc_api_server)
  <2>1. ASSUME NEW q \in S
        PROVE  /\ q.u \in MicroVmType /\ SameSnapshot(v, q.u) /\ ~q.u.stray
               /\ q.ok => q.u.held
    <3>1. PICK p \in fork_exec_fc(v) : q \in IF p.ok THEN await_fc_api_server(p.u) ELSE {p}
      BY DEF Then
    <3>2. FcPromise(v, p)
      BY FcForkFacts
    <3>. QED BY <3>1, <3>2, FcAwaitFacts DEF FcPromise, SameSnapshot
  <2>2. r \in Killed(S)
    BY <1>1 DEF initialize_fc_process
  <2>. QED BY <2>1, <2>2, FcKilledFacts
<1>2. CASE ~fifos
  BY <1>2, FcForkFacts DEF initialize_fc_process
<1>. QED BY <1>1, <1>2

LEMMA FcFilesFacts ==
    ASSUME NEW v \in MicroVmType, NEW r \in ensure_uvm_files(v)
    PROVE  r.u \in MicroVmType /\ SameSnapshot(v, r.u) /\ r.u.vm = v.vm /\ r.u.stray = v.stray
<1>. DEFINE d == [v EXCEPT !.dir = TRUE]
<1>1. d \in MicroVmType /\ SameSnapshot(v, d) /\ d.vm = v.vm /\ d.stray = v.stray
  BY DEF SameSnapshot, MicroVmType, VmState, Files
<1>2. r = Ok(d) \/ r = Err(v) \/ r = Err(d)
  BY DEF ensure_uvm_files
<1>. HIDE DEF d
<1>3. r.u = v \/ r.u = d
  BY <1>2
<1>. QED BY <1>1, <1>3 DEF SameSnapshot

LEMMA FcCreateFacts ==
    ASSUME NEW v \in MicroVmType, ~Alive(v), ~v.stray, NEW r \in FcCreate(v)
    PROVE  FcPromise(v, r)
<1>. DEFINE ready(w) == Killed(Then(await_fc_api_server(w), describe_instance))
            boot(w) == Then(initialize_fc_process(w, FALSE), ready)
            keep(w) == {Ok([w EXCEPT !.name = TRUE, !.client = TRUE])}
            C(c) == Then(boot(c), keep)
            B(b) == Then(RenderConfig(b), C)
            A(a) == Then(ensure_uvm_files(a), B)
<1>1. FcCreate(v) = Then(BuildTap(v), A)
  BY DEF FcCreate
<1>2. ASSUME NEW w \in MicroVmType, ~w.stray, w.held, NEW q \in ready(w)
      PROVE  FcPromise(w, q)
  <2>. DEFINE S == Then(await_fc_api_server(w), describe_instance)
  <2>1. ASSUME NEW t \in S
        PROVE  /\ t.u \in MicroVmType /\ SameSnapshot(w, t.u) /\ ~t.u.stray
               /\ t.ok => t.u.held
    <3>1. PICK p \in await_fc_api_server(w) : t \in IF p.ok THEN describe_instance(p.u) ELSE {p}
      BY DEF Then
    <3>2. p.u \in MicroVmType /\ SameSnapshot(w, p.u) /\ ~p.u.stray /\ (p.ok => p.u = w)
      BY <1>2, FcAwaitFacts
    <3>3. CASE p.ok
      <4>1. t = Ok(w) \/ t = Err(w)
        BY <3>1, <3>2, <3>3 DEF describe_instance
      <4>2. t.u = w
        BY <4>1
      <4>. QED BY <1>2, <4>2 DEF SameSnapshot
    <3>. QED BY <3>1, <3>2, <3>3
  <2>. QED BY <1>2, <2>1, FcKilledFacts
<1>3. ASSUME NEW w \in MicroVmType, ~Alive(w), ~w.stray, NEW q \in boot(w)
      PROVE  FcPromise(w, q)
  <2>1. PICK p \in initialize_fc_process(w, FALSE) : q \in IF p.ok THEN ready(p.u) ELSE {p}
    BY DEF Then
  <2>2. FcPromise(w, p)
    BY <1>3, FcInitProcessFacts
  <2>. HIDE DEF ready
  <2>3. CASE p.ok
    <3>1. FcPromise(p.u, q)
      BY <1>2, <2>1, <2>2, <2>3 DEF FcPromise
    <3>. QED BY <2>2, <3>1 DEF FcPromise, SameSnapshot
  <2>. QED BY <2>1, <2>2, <2>3
<1>. HIDE DEF boot
<1>4. ASSUME NEW w \in MicroVmType, ~Alive(w), ~w.stray, NEW q \in C(w)
      PROVE  FcPromise(w, q)
  <2>1. PICK p \in boot(w) : q \in IF p.ok THEN keep(p.u) ELSE {p}
    BY DEF Then
  <2>2. FcPromise(w, p)
    BY <1>3, <1>4
  <2>3. CASE p.ok
    <3>. DEFINE k == [p.u EXCEPT !.name = TRUE, !.client = TRUE]
    <3>1. q = Ok(k)
      BY <2>1, <2>3
    <3>2. /\ k \in MicroVmType /\ SameSnapshot(p.u, k) /\ k.stray = p.u.stray
          /\ k.vm = p.u.vm /\ k.held = p.u.held
      BY <2>2 DEF FcPromise, SameSnapshot, MicroVmType, VmState, Files
    <3>. HIDE DEF k
    <3>3. q.ok /\ q.u = k
      BY <3>1
    <3>4. ~k.stray /\ SameSnapshot(w, k) /\ k.held
      BY <2>2, <2>3, <3>2 DEF FcPromise, SameSnapshot
    <3>. QED BY <3>2, <3>3, <3>4 DEF FcPromise
  <2>. QED BY <2>1, <2>2, <2>3
<1>. HIDE DEF C
<1>5. ASSUME NEW w \in MicroVmType, ~Alive(w), ~w.stray, NEW q \in B(w)
      PROVE  FcPromise(w, q)
  <2>1. PICK p \in RenderConfig(w) : q \in IF p.ok THEN C(p.u) ELSE {p}
    BY DEF Then
  <2>2. p.u = w
    BY <2>1 DEF RenderConfig
  <2>. QED BY <1>4, <1>5, <2>1, <2>2 DEF FcPromise, SameSnapshot
<1>. HIDE DEF B
<1>6. ASSUME NEW w \in MicroVmType, ~Alive(w), ~w.stray, NEW q \in A(w)
      PROVE  FcPromise(w, q)
  <2>1. PICK p \in ensure_uvm_files(w) : q \in IF p.ok THEN B(p.u) ELSE {p}
    BY DEF Then
  <2>2. p.u \in MicroVmType /\ SameSnapshot(w, p.u) /\ p.u.vm = w.vm /\ p.u.stray = w.stray
    BY <1>6, <2>1, FcFilesFacts
  <2>3. CASE p.ok
    <3>1. FcPromise(p.u, q)
      BY <1>5, <1>6, <2>1, <2>2, <2>3
    <3>. QED BY <2>2, <3>1 DEF FcPromise, SameSnapshot
  <2>. QED BY <1>6, <2>1, <2>2, <2>3 DEF FcPromise, SameSnapshot
<1>. HIDE DEF A
<1>7. PICK p \in BuildTap(v) : r \in IF p.ok THEN A(p.u) ELSE {p}
  BY <1>1 DEF Then
<1>. QED BY <1>6, <1>7 DEF BuildTap, FcPromise, SameSnapshot

LEMMA FcLoadFacts ==
    ASSUME NEW v \in MicroVmType, v.snap, ~Alive(v), ~v.stray, NEW r \in FcLoad(v)
    PROVE  FcPromise(v, r)
<1>. DEFINE loaded(w) == Killed(Then(LoadSnapshot(w), describe_instance))
            restore(w) == Then(initialize_fc_process(w, TRUE), loaded)
            keep(w) == {Ok([w EXCEPT !.client = TRUE])}
            A(w) == Then(restore(w), keep)
<1>1. FcLoad(v) = Then(ensure_uvm_files(v), A)
  BY DEF FcLoad
<1>2. ASSUME NEW w \in MicroVmType, ~w.stray, w.held, NEW q \in loaded(w)
      PROVE  FcPromise(w, q)
  <2>. DEFINE S == Then(LoadSnapshot(w), describe_instance)
  <2>1. ASSUME NEW t \in S PROVE t.u = w
    <3>1. PICK p \in LoadSnapshot(w) : t \in IF p.ok THEN describe_instance(p.u) ELSE {p}
      BY DEF Then
    <3>2. p = Ok(w) \/ p = Err(w)
      BY <3>1 DEF LoadSnapshot
    <3>3. p.u = w
      BY <3>2
    <3>4. t = p \/ t = Ok(w) \/ t = Err(w)
      BY <3>1, <3>3 DEF describe_instance
    <3>. QED BY <3>3, <3>4
  <2>. QED BY <1>2, <2>1, FcKilledFacts DEF SameSnapshot
<1>3. ASSUME NEW w \in MicroVmType, ~Alive(w), ~w.stray, NEW q \in restore(w)
      PROVE  FcPromise(w, q)
  <2>1. PICK p \in initialize_fc_process(w, TRUE) : q \in IF p.ok THEN loaded(p.u) ELSE {p}
    BY DEF Then
  <2>2. FcPromise(w, p)
    BY <1>3, FcInitProcessFacts
  <2>. HIDE DEF loaded
  <2>3. CASE p.ok
    <3>1. FcPromise(p.u, q)
      BY <1>2, <2>1, <2>2, <2>3 DEF FcPromise
    <3>. QED BY <2>2, <3>1 DEF FcPromise, SameSnapshot
  <2>. QED BY <2>1, <2>2, <2>3
<1>. HIDE DEF restore
<1>4. ASSUME NEW w \in MicroVmType, ~Alive(w), ~w.stray, NEW q \in A(w)
      PROVE  FcPromise(w, q)
  <2>1. PICK p \in restore(w) : q \in IF p.ok THEN keep(p.u) ELSE {p}
    BY DEF Then
  <2>2. FcPromise(w, p)
    BY <1>3, <1>4
  <2>3. CASE p.ok
    <3>. DEFINE k == [p.u EXCEPT !.client = TRUE]
    <3>1. q = Ok(k)
      BY <2>1, <2>3
    <3>2. /\ k \in MicroVmType /\ SameSnapshot(p.u, k) /\ k.stray = p.u.stray
          /\ k.held = p.u.held
      BY <2>2 DEF FcPromise, SameSnapshot, MicroVmType, VmState, Files
    <3>. HIDE DEF k
    <3>3. q.ok /\ q.u = k
      BY <3>1
    <3>4. ~k.stray /\ SameSnapshot(w, k) /\ k.held
      BY <2>2, <2>3, <3>2 DEF FcPromise, SameSnapshot
    <3>. QED BY <3>2, <3>3, <3>4 DEF FcPromise
  <2>. QED BY <2>1, <2>2, <2>3
<1>. HIDE DEF A
<1>5. PICK p \in ensure_uvm_files(v) : r \in IF p.ok THEN A(p.u) ELSE {p}
  BY <1>1 DEF Then
<1>6. p.u \in MicroVmType /\ SameSnapshot(v, p.u) /\ p.u.vm = v.vm /\ p.u.stray = v.stray
  BY <1>5, FcFilesFacts
<1>7. CASE p.ok
  <2>1. FcPromise(p.u, r)
    BY <1>4, <1>5, <1>6, <1>7
  <2>. QED BY <1>6, <2>1 DEF FcPromise, SameSnapshot
<1>. QED BY <1>5, <1>6, <1>7 DEF FcPromise, SameSnapshot

\* What pausing and resuming leave alone, with every Runtime.
VcpuPromise(v, r) ==
    r.u \in MicroVmType /\ SameSnapshot(v, r.u) /\ r.u.held = v.held /\ r.u.stray = v.stray

LEMMA VcpuFacts ==
    ASSUME NEW v \in MicroVmType, NEW state \in {"running", "paused"}
    PROVE  /\ [v EXCEPT !.vm = state] \in MicroVmType
           /\ SameSnapshot(v, [v EXCEPT !.vm = state])
           /\ [v EXCEPT !.vm = state].held = v.held
           /\ [v EXCEPT !.vm = state].stray = v.stray
           /\ [v EXCEPT !.vm = state].vm = state
  BY DEF SameSnapshot, MicroVmType, VmState, Files

\* The calls that pause or resume, in every Runtime, have some of these outcomes.
VcpuOutcomes(v, state) == {Ok([v EXCEPT !.vm = state]), Err(v), Err([v EXCEPT !.vm = state])}

LEMMA VcpuOutcomesFacts ==
    ASSUME NEW v \in MicroVmType, NEW state \in {"running", "paused"}, NEW r \in VcpuOutcomes(v, state)
    PROVE  VcpuPromise(v, r) /\ (r.ok => r.u.vm = state)
<1>. DEFINE w == [v EXCEPT !.vm = state]
<1>1. r = Ok(w) \/ r = Err(v) \/ r = Err(w)
  BY DEF VcpuOutcomes
<1>2. w \in MicroVmType /\ SameSnapshot(v, w) /\ w.held = v.held /\ w.stray = v.stray /\ w.vm = state
  BY VcpuFacts
<1>. HIDE DEF w
<1>3. r.u = v \/ r.u = w
  BY <1>1
<1>4. r.ok => r.u = w
  BY <1>1
<1>. QED BY <1>2, <1>3, <1>4 DEF VcpuPromise, SameSnapshot

LEMMA FcVcpuFacts ==
    ASSUME NEW v
    PROVE  FcPause(v) \subseteq VcpuOutcomes(v, "paused") /\ FcResume(v) \subseteq VcpuOutcomes(v, "running")
  BY DEF FcPause, FcResume, PatchVm, VcpuOutcomes

\* What taking a snapshot promises, with every Runtime: the VMM is as it was, and the
\* snapshot is recorded only when it is complete.
SnapshotPromise(v, r) ==
    /\ r.u \in MicroVmType /\ r.u.vm = v.vm /\ r.u.held = v.held /\ r.u.stray = v.stray
    /\ r.u.snap => r.ok /\ r.u.files = "full"

LEMMA FilesFacts ==
    ASSUME NEW v \in MicroVmType, NEW f \in Files
    PROVE  /\ [v EXCEPT !.files = f] \in MicroVmType
           /\ [v EXCEPT !.files = f].vm = v.vm /\ [v EXCEPT !.files = f].held = v.held
           /\ [v EXCEPT !.files = f].stray = v.stray /\ [v EXCEPT !.files = f].snap = v.snap
           /\ [v EXCEPT !.files = f].files = f
  BY DEF MicroVmType, VmState, Files

LEMMA FcSnapshotFacts ==
    ASSUME NEW v \in MicroVmType, ~v.snap, NEW r \in FcSnapshot(v)
    PROVE  SnapshotPromise(v, r)
<1>1. CASE r = Ok(Snapped(v))
  <2>1. r.ok /\ r.u = Snapped(v)
    BY <1>1
  <2>. QED BY <2>1, SnappedFacts DEF SnapshotPromise
<1>2. CASE r = Err(v)
  <2>1. r.u = v
    BY <1>2
  <2>. QED BY <2>1 DEF SnapshotPromise
<1>3. CASE \E f \in Files : r = Err([v EXCEPT !.files = f])
  <2>1. PICK f \in Files : r.u = [v EXCEPT !.files = f]
    BY <1>3
  <2>. QED BY <2>1, FilesFacts DEF SnapshotPromise
<1>. QED BY <1>1, <1>2, <1>3 DEF FcSnapshot

\* What unloading promises, with every Runtime: the snapshot stays, and a VMM that may still
\* run after a success is a stray of rt-fcctrd.
ShutdownPromise(v, r) ==
    /\ r.u \in MicroVmType /\ SameSnapshot(v, r.u) /\ Sound(r.u)
    /\ r.ok /\ Alive(r.u) => rt = "fcctrd" /\ r.u.stray

LEMMA FcShutdownFacts ==
    ASSUME NEW v \in MicroVmType, Sound(v), rt = "fc", NEW r \in FcShutdown(v)
    PROVE  ShutdownPromise(v, r)
<1>1. r.u = (IF v.held THEN VmDown(v) ELSE v)
  BY DEF FcShutdown, kill_and_wait
<1>. QED BY <1>1, VmDownFacts DEF ShutdownPromise, Sound, SameSnapshot

\* What destroying promises, with every Runtime: after a success there is no snapshot, and a
\* VMM that may still run is a stray of rt-fcctrd.
DestroyPromise(r) ==
    /\ r.u \in MicroVmType /\ Sound(r.u)
    /\ r.ok => ~r.u.snap /\ (Alive(r.u) => rt = "fcctrd" /\ r.u.stray)

LEMMA FcDestroyFacts ==
    ASSUME NEW v \in MicroVmType, Sound(v), rt = "fc", NEW r \in FcDestroy(v)
    PROVE  DestroyPromise(r)
<1>. DEFINE k == kill_and_wait(v)
            w == [k EXCEPT !.name = FALSE, !.client = FALSE, !.snap = FALSE]
            F == IF v.snap THEN {"none", "partial", v.files} ELSE {v.files}
            unlinked == {[w EXCEPT !.files = f] : f \in F}
<1>1. k \in MicroVmType /\ ~k.stray /\ ~Alive(k)
  BY VmDownFacts DEF kill_and_wait, Sound
<1>2. PICK x \in unlinked : r \in {Ok(x), Ok([x EXCEPT !.dir = FALSE])}
  BY DEF FcDestroy, Outcomes
<1>. HIDE DEF k
<1>3. w \in MicroVmType /\ ~w.stray /\ ~w.snap /\ ~Alive(w)
  BY <1>1 DEF MicroVmType, VmState, Files
<1>4. F \subseteq Files
  BY DEF MicroVmType, Files
<1>. HIDE DEF w, F
<1>5. x \in MicroVmType /\ ~x.stray /\ ~x.snap /\ ~Alive(x)
  <2>1. PICK f \in F : x = [w EXCEPT !.files = f]
    BY <1>2
  <2>2. f \in Files
    BY <1>4
  <2>. QED BY <1>3, <2>1, <2>2, FilesFacts
<1>. DEFINE y == [x EXCEPT !.dir = FALSE]
<1>6. y \in MicroVmType /\ ~y.stray /\ ~y.snap /\ ~Alive(y)
  BY <1>5 DEF MicroVmType, VmState, Files
<1>7. r = Ok(x) \/ r = Ok(y)
  BY <1>2
<1>. HIDE DEF y
<1>8. r.u = x \/ r.u = y
  BY <1>7
<1>. QED BY <1>5, <1>6, <1>8 DEF DestroyPromise, Sound

-----------------------------------------------------------------------------
(***************************************************************************)
(* rt-fcctrd.                                                              *)
(***************************************************************************)

LEMMA RpcFacts ==
    ASSUME NEW v, NEW w, NEW r \in Rpc(v, w)
    PROVE  (r.u = v \/ r.u = w) /\ (r.ok => r.u = w)
  BY DEF Rpc

\* The containerd objects are apart from the VMM and from the snapshot.
Untouched(v, w) ==
    w \in MicroVmType /\ SameSnapshot(v, w) /\ w.vm = v.vm /\ w.held = v.held /\ w.stray = v.stray

LEMMA ObjectFacts ==
    ASSUME NEW v \in MicroVmType, NEW b \in BOOLEAN
    PROVE  /\ Untouched(v, v) /\ Untouched(v, [v EXCEPT !.name = b]) /\ Untouched(v, [v EXCEPT !.ctr = b])
           /\ Untouched(v, [v EXCEPT !.layer = b]) /\ Untouched(v, [v EXCEPT !.task = b])
  BY DEF Untouched, SameSnapshot, MicroVmType, VmState, Files

LEMMA ObjectRpcFacts ==
    ASSUME NEW v \in MicroVmType,
           NEW r \in create_container(v) \cup prepare_snapshot(v) \cup create_task(v)
                     \cup delete_container(v) \cup delete_task(v)
    PROVE  Untouched(v, r.u)
<1>1. CASE r \in create_container(v)
  <2>1. r \in Rpc(v, [v EXCEPT !.ctr = TRUE])
    BY <1>1 DEF create_container
  <2>2. r.u = v \/ r.u = [v EXCEPT !.ctr = TRUE]
    BY <2>1, RpcFacts
  <2>. QED BY <2>2, ObjectFacts
<1>2. CASE r \in prepare_snapshot(v)
  <2>1. r \in Rpc(v, [v EXCEPT !.layer = TRUE])
    BY <1>2 DEF prepare_snapshot
  <2>2. r.u = v \/ r.u = [v EXCEPT !.layer = TRUE]
    BY <2>1, RpcFacts
  <2>. QED BY <2>2, ObjectFacts
<1>3. CASE r \in create_task(v)
  <2>1. r \in Rpc(v, [v EXCEPT !.task = TRUE])
    BY <1>3 DEF create_task
  <2>2. r.u = v \/ r.u = [v EXCEPT !.task = TRUE]
    BY <2>1, RpcFacts
  <2>. QED BY <2>2, ObjectFacts
<1>4. CASE r \in delete_container(v)
  <2>1. r \in Rpc(v, [v EXCEPT !.ctr = FALSE])
    BY <1>4 DEF delete_container
  <2>2. r.u = v \/ r.u = [v EXCEPT !.ctr = FALSE]
    BY <2>1, RpcFacts
  <2>. QED BY <2>2, ObjectFacts
<1>5. CASE r \in delete_task(v)
  <2>1. r \in Rpc(v, [v EXCEPT !.task = FALSE])
    BY <1>5 DEF delete_task
  <2>2. r.u = v \/ r.u = [v EXCEPT !.task = FALSE]
    BY <2>1, RpcFacts
  <2>. QED BY <2>2, ObjectFacts
<1>. QED BY <1>1, <1>2, <1>3, <1>4, <1>5

LEMMA StopVmFacts ==
    ASSUME NEW v \in MicroVmType, NEW w \in StopVm(v)
    PROVE  w \in MicroVmType /\ SameSnapshot(v, w)
<1>1. PICK r \in Rpc(v, VmDown(v)) : w = r.u
  BY DEF StopVm
<1>. QED BY <1>1, RpcFacts, VmDownFacts DEF SameSnapshot

LEMMA UndoFacts ==
    ASSUME NEW v \in MicroVmType, NEW w \in Undo(v)
    PROVE  w \in MicroVmType /\ SameSnapshot(v, w)
<1>1. PICK x \in {r.u : r \in delete_container(v)} : w \in StopVm(x)
  BY DEF Undo, Outcomes
<1>2. PICK r \in delete_container(v) : x = r.u
  BY <1>1
<1>3. Untouched(v, x)
  BY <1>2, ObjectRpcFacts
<1>. QED BY <1>1, <1>3, StopVmFacts DEF Untouched, SameSnapshot

\* A failure that leaves a VMM behind makes it a stray.
LEMMA StraysFacts ==
    ASSUME NEW v, NEW S, NEW r \in Strays(S),
           \A q \in S : q.u \in MicroVmType /\ SameSnapshot(v, q.u)
    PROVE  /\ r.u \in MicroVmType /\ SameSnapshot(v, r.u)
           /\ r.ok => r \in S
           /\ ~r.ok /\ Alive(r.u) => r.u.stray
<1>1. PICK q \in S : r = IF q.ok THEN q ELSE Err([q.u EXCEPT !.stray = q.u.stray \/ Alive(q.u)])
  BY DEF Strays
<1>2. CASE q.ok
  BY <1>1, <1>2
<1>3. CASE ~q.ok
  <2>. DEFINE b == q.u.stray \/ Alive(q.u)
              w == [q.u EXCEPT !.stray = b]
  <2>1. b \in BOOLEAN
    BY Zenon
  <2>2. Alive(q.u) => b
    OBVIOUS
  <2>. HIDE DEF b
  <2>3. w \in MicroVmType /\ SameSnapshot(v, w) /\ w.stray = b /\ w.vm = q.u.vm
    BY <2>1 DEF MicroVmType, VmState, Files, SameSnapshot
  <2>4. r = Err(w)
    BY <1>1, <1>3 DEF b
  <2>. HIDE DEF w
  <2>5. ~r.ok /\ r.u = w
    BY <2>4
  <2>. QED BY <2>2, <2>3, <2>5
<1>. QED BY <1>2, <1>3

\* What the steps of create_sandbox promise one another.
CtrdPromise(v, r) ==
    r.u \in MicroVmType /\ SameSnapshot(v, r.u) /\ (r.ok => r.u.held)

LEMMA FcctrdCreateFacts ==
    ASSUME NEW v \in MicroVmType, NEW r \in FcctrdCreate(v)
    PROVE  CtrdPromise(v, r) /\ (~r.ok /\ Alive(r.u) => r.u.stray)
<1>. DEFINE named(w) == {Ok([w EXCEPT !.name = TRUE])}
            container(w) == OrElse(create_container(w), StopVm)
            layer(w) == OrElse(prepare_snapshot(w), Undo)
            task(w) == OrElse(create_task(w), Undo)
            E(e) == Then(task(e), start_task)
            D(d) == Then(layer(d), E)
            C(c) == Then(container(c), D)
            B(b) == Then(named(b), C)
            A(a) == Then(create_vm(a), B)
            S == Then({Ok(v), Err(v)}, A)
<1>1. FcctrdCreate(v) = Strays(S)
  BY DEF FcctrdCreate
<1>2. ASSUME NEW w \in MicroVmType, w.held, NEW q \in container(w) \cup layer(w) \cup task(w)
      PROVE  CtrdPromise(w, q)
  <2>1. CASE q \in container(w)
    <3>1. PICK p \in create_container(w) : q \in IF p.ok THEN {p} ELSE {Err(x) : x \in StopVm(p.u)}
      BY <2>1 DEF OrElse
    <3>2. Untouched(w, p.u)
      BY <3>1, ObjectRpcFacts
    <3>3. CASE p.ok
      BY <1>2, <3>1, <3>2, <3>3 DEF Untouched, CtrdPromise
    <3>4. CASE ~p.ok
      <4>1. PICK x \in StopVm(p.u) : q = Err(x)
        BY <3>1, <3>4
      <4>2. ~q.ok /\ q.u = x
        BY <4>1
      <4>. QED BY <4>1, <4>2, <3>2, StopVmFacts DEF Untouched, CtrdPromise, SameSnapshot
    <3>. QED BY <3>3, <3>4
  <2>2. CASE q \in layer(w) \cup task(w)
    <3>1. PICK p \in prepare_snapshot(w) \cup create_task(w) : q \in IF p.ok THEN {p} ELSE {Err(x) : x \in Undo(p.u)}
      BY <2>2 DEF OrElse
    <3>2. Untouched(w, p.u)
      BY <3>1, ObjectRpcFacts
    <3>3. CASE p.ok
      BY <1>2, <3>1, <3>2, <3>3 DEF Untouched, CtrdPromise
    <3>4. CASE ~p.ok
      <4>1. PICK x \in Undo(p.u) : q = Err(x)
        BY <3>1, <3>4
      <4>2. ~q.ok /\ q.u = x
        BY <4>1
      <4>. QED BY <4>1, <4>2, <3>2, UndoFacts DEF Untouched, CtrdPromise, SameSnapshot
    <3>. QED BY <3>3, <3>4
  <2>. QED BY <1>2, <2>1, <2>2
<1>. HIDE DEF container, layer, task
<1>3. ASSUME NEW w \in MicroVmType, w.held, NEW q \in E(w) PROVE CtrdPromise(w, q)
  <2>1. PICK p \in task(w) : q \in IF p.ok THEN start_task(p.u) ELSE {p}
    BY <1>3 DEF Then
  <2>2. CtrdPromise(w, p)
    BY <1>2, <1>3, <2>1
  <2>3. CASE p.ok
    <3>1. q = Ok(p.u) \/ q = Err(p.u)
      BY <2>1, <2>3 DEF start_task
    <3>2. q.u = p.u
      BY <3>1
    <3>. QED BY <2>2, <2>3, <3>2 DEF CtrdPromise
  <2>. QED BY <2>1, <2>2, <2>3
<1>. HIDE DEF E
<1>4. ASSUME NEW w \in MicroVmType, w.held, NEW q \in D(w) PROVE CtrdPromise(w, q)
  <2>1. PICK p \in layer(w) : q \in IF p.ok THEN E(p.u) ELSE {p}
    BY <1>4 DEF Then
  <2>2. CtrdPromise(w, p)
    BY <1>2, <1>4, <2>1
  <2>3. p.ok => CtrdPromise(p.u, q)
    BY <1>3, <2>1, <2>2 DEF CtrdPromise
  <2>. QED BY <2>1, <2>2, <2>3 DEF CtrdPromise, SameSnapshot
<1>. HIDE DEF D
<1>5. ASSUME NEW w \in MicroVmType, w.held, NEW q \in C(w) PROVE CtrdPromise(w, q)
  <2>1. PICK p \in container(w) : q \in IF p.ok THEN D(p.u) ELSE {p}
    BY <1>5 DEF Then
  <2>2. CtrdPromise(w, p)
    BY <1>2, <1>5, <2>1
  <2>3. p.ok => CtrdPromise(p.u, q)
    BY <1>4, <2>1, <2>2 DEF CtrdPromise
  <2>. QED BY <2>1, <2>2, <2>3 DEF CtrdPromise, SameSnapshot
<1>. HIDE DEF C
<1>6. ASSUME NEW w \in MicroVmType, w.held, NEW q \in B(w) PROVE CtrdPromise(w, q)
  <2>. DEFINE x == [w EXCEPT !.name = TRUE]
  <2>1. Untouched(w, x)
    BY <1>6, ObjectFacts
  <2>2. PICK p \in {Ok(x)} : q \in IF p.ok THEN C(p.u) ELSE {p}
    BY <1>6 DEF Then
  <2>. HIDE DEF x
  <2>3. q \in C(x)
    BY <2>2
  <2>. QED BY <1>5, <1>6, <2>1, <2>3 DEF CtrdPromise, Untouched, SameSnapshot
<1>. HIDE DEF B
<1>7. ASSUME NEW w \in MicroVmType, NEW q \in A(w) PROVE CtrdPromise(w, q)
  <2>1. PICK p \in create_vm(w) : q \in IF p.ok THEN B(p.u) ELSE {p}
    BY <1>7 DEF Then
  <2>. DEFINE x == [w EXCEPT !.vm = "running"]
  <2>2. x \in MicroVmType /\ SameSnapshot(w, x)
    BY <1>7, VcpuFacts
  <2>3. p = Ok(VmUp(w)) \/ p = Err(w) \/ p = Err(x)
    BY <2>1 DEF create_vm
  <2>. HIDE DEF x
  <2>4. CASE p.ok
    <3>1. p.u = VmUp(w)
      BY <2>3, <2>4
    <3>2. CtrdPromise(p.u, q)
      BY <1>6, <2>1, <2>4, <3>1, VmUpFacts
    <3>. QED BY <3>1, <3>2, VmUpFacts DEF CtrdPromise, SameSnapshot
  <2>5. CASE ~p.ok
    <3>1. p.u = w \/ p.u = x
      BY <2>3, <2>5
    <3>. QED BY <2>1, <2>2, <2>5, <3>1 DEF CtrdPromise, SameSnapshot
  <2>. QED BY <2>4, <2>5
<1>. HIDE DEF A
<1>8. ASSUME NEW q \in S PROVE CtrdPromise(v, q)
  <2>1. PICK p \in {Ok(v), Err(v)} : q \in IF p.ok THEN A(p.u) ELSE {p}
    BY <1>8 DEF Then
  <2>2. p.u = v
    BY <2>1
  <2>. QED BY <1>7, <2>1, <2>2 DEF CtrdPromise, SameSnapshot
<1>. HIDE DEF S
<1>. QED BY <1>1, <1>8, StraysFacts DEF CtrdPromise

\* What loading promises, with every Runtime: the snapshot stays, the VMM is the Worker's or
\* a stray, and one that a failure leaves is a stray of rt-fcctrd.
LoadPromise(v, r) ==
    /\ r.u \in MicroVmType /\ SameSnapshot(v, r.u)
    /\ r.ok => r.u.held \/ r.u.stray
    /\ ~r.ok /\ Alive(r.u) => rt = "fcctrd" /\ r.u.stray

LEMMA FcctrdLoadFacts ==
    ASSUME NEW v \in MicroVmType, v.snap, rt = "fcctrd", NEW r \in FcctrdLoad(v)
    PROVE  LoadPromise(v, r)
<1>. DEFINE back(q) == IF q.ok THEN q ELSE Err([q.u EXCEPT !.held = v.held])
            S == {back(q) : q \in load_vm_snapshot(v)}
            x == [v EXCEPT !.vm = "running", !.stray = TRUE]
<1>1. FcctrdLoad(v) = Strays(S)
  BY DEF FcctrdLoad
<1>2. x \in MicroVmType /\ SameSnapshot(v, x) /\ x.stray
  BY DEF SameSnapshot, MicroVmType, VmState, Files
<1>3. ASSUME NEW q \in load_vm_snapshot(v)
      PROVE  q.u \in MicroVmType /\ SameSnapshot(v, q.u) /\ (q.ok => q.u.held \/ q.u.stray)
  <2>1. q \in Rpc(v, VmUp(v)) \/ q = Ok(x)
    BY <1>3 DEF load_vm_snapshot
  <2>. HIDE DEF x
  <2>2. CASE q \in Rpc(v, VmUp(v))
    <3>1. (q.u = v \/ q.u = VmUp(v)) /\ (q.ok => q.u = VmUp(v))
      BY <2>2, RpcFacts
    <3>. QED BY <3>1, VmUpFacts DEF SameSnapshot
  <2>3. CASE q = Ok(x)
    <3>1. q.u = x
      BY <2>3
    <3>. QED BY <1>2, <3>1
  <2>. QED BY <2>1, <2>2, <2>3
<1>4. ASSUME NEW p \in S
      PROVE  p.u \in MicroVmType /\ SameSnapshot(v, p.u) /\ (p.ok => p.u.held \/ p.u.stray)
  <2>. HIDE DEF back
  <2>1. PICK q \in load_vm_snapshot(v) : p = back(q)
    BY <1>4
  <2>2. CASE q.ok
    BY <1>3, <2>1, <2>2 DEF back
  <2>3. CASE ~q.ok
    <3>. DEFINE w == [q.u EXCEPT !.held = v.held]
    <3>1. w \in MicroVmType /\ SameSnapshot(q.u, w)
      BY <1>3, <2>1 DEF SameSnapshot, MicroVmType, VmState, Files
    <3>2. p = Err(w)
      BY <2>1, <2>3 DEF back
    <3>. HIDE DEF w
    <3>3. ~p.ok /\ p.u = w
      BY <3>2
    <3>. QED BY <1>3, <2>1, <3>1, <3>3 DEF SameSnapshot
  <2>. QED BY <2>2, <2>3
<1>. HIDE DEF S
<1>5. r \in Strays(S)
  BY <1>1
<1>. QED BY <1>4, <1>5, StraysFacts DEF LoadPromise

LEMMA FcctrdVcpuFacts ==
    ASSUME NEW v \in MicroVmType
    PROVE  /\ \A r \in pause_vm(v) : VcpuPromise(v, r) /\ (r.ok => r.u.vm = "paused")
           /\ \A r \in resume_vm(v) : VcpuPromise(v, r)
<1>1. pause_vm(v) \subseteq VcpuOutcomes(v, "paused") /\ resume_vm(v) \subseteq VcpuOutcomes(v, "running")
  BY DEF pause_vm, resume_vm, Rpc, VcpuOutcomes
<1>. QED BY <1>1, VcpuOutcomesFacts

LEMMA FcctrdPauseFacts ==
    ASSUME NEW v \in MicroVmType, NEW r \in FcctrdPause(v)
    PROVE  VcpuPromise(v, r) /\ (r.ok => r.u.vm = "paused")
<1>1. CASE r \in pause_vm(v)
  BY <1>1, FcctrdVcpuFacts
<1>2. CASE \E q \in pause_vm(v) : r \in pause_vm(q.u)
  <2>1. PICK q \in pause_vm(v) : r \in pause_vm(q.u)
    BY <1>2
  <2>2. VcpuPromise(v, q)
    BY <2>1, FcctrdVcpuFacts
  <2>3. VcpuPromise(q.u, r) /\ (r.ok => r.u.vm = "paused")
    BY <2>1, <2>2, FcctrdVcpuFacts DEF VcpuPromise
  <2>. QED BY <2>2, <2>3 DEF VcpuPromise, SameSnapshot
<1>. QED BY <1>1, <1>2 DEF FcctrdPause

\* create_vm_snapshot returns Ok only once both files are complete and synced.
LEMMA FcctrdWriteFacts ==
    ASSUME NEW v \in MicroVmType, NEW r \in create_vm_snapshot(v)
    PROVE  /\ r.u \in MicroVmType /\ r.u.snap = v.snap
           /\ r.u.vm = v.vm /\ r.u.held = v.held /\ r.u.stray = v.stray
           /\ r.ok => r.u.files = "full"
<1>. DEFINE Filed(w, x) == /\ x \in MicroVmType /\ x.snap = w.snap
                           /\ x.vm = w.vm /\ x.held = w.held /\ x.stray = w.stray
            write(w) == IF Alive(w) THEN {Ok([w EXCEPT !.files = "full"])} \cup {Err([w EXCEPT !.files = f]) : f \in Files}
                        ELSE {Err(w)}
            A(w) == Then(write(w), fsync_path)
<1>1. create_vm_snapshot(v) = Then(prepare_path(v), A)
  BY DEF create_vm_snapshot
<1>2. ASSUME NEW w \in MicroVmType, NEW f \in Files PROVE Filed(w, [w EXCEPT !.files = f])
  BY <1>2, FilesFacts
<1>3. ASSUME NEW w \in MicroVmType, NEW q \in write(w)
      PROVE  Filed(w, q.u) /\ (q.ok => q.u.files = "full")
  <2>1. CASE q = Ok([w EXCEPT !.files = "full"])
    <3>1. "full" \in Files /\ q.u = [w EXCEPT !.files = "full"]
      BY <2>1 DEF Files
    <3>. QED BY <1>3, <3>1, FilesFacts
  <2>2. CASE \E f \in Files : q = Err([w EXCEPT !.files = f])
    <3>1. PICK f \in Files : ~q.ok /\ q.u = [w EXCEPT !.files = f]
      BY <2>2
    <3>. QED BY <1>2, <1>3, <3>1
  <2>3. CASE q = Err(w)
    <3>1. ~q.ok /\ q.u = w
      BY <2>3
    <3>. QED BY <1>3, <3>1
  <2>. QED BY <1>3, <2>1, <2>2, <2>3
<1>. HIDE DEF write
<1>4. ASSUME NEW w \in MicroVmType, NEW q \in A(w)
      PROVE  Filed(w, q.u) /\ (q.ok => q.u.files = "full")
  <2>1. PICK p \in write(w) : q \in IF p.ok THEN fsync_path(p.u) ELSE {p}
    BY <1>4 DEF Then
  <2>2. CASE p.ok
    <3>1. q = Ok(p.u) \/ q = Err(p.u)
      BY <2>1, <2>2 DEF fsync_path
    <3>2. q.u = p.u
      BY <3>1
    <3>. QED BY <1>3, <2>1, <2>2, <3>2
  <2>. QED BY <1>3, <2>1, <2>2
<1>. HIDE DEF A
<1>5. PICK p \in prepare_path(v) : r \in IF p.ok THEN A(p.u) ELSE {p}
  BY <1>1 DEF Then
<1>6. Filed(v, p.u)
  <2>1. p = Ok([v EXCEPT !.files = "none"]) \/ p = Err(v) \/ p = Err([v EXCEPT !.files = "none"])
    BY <1>5 DEF prepare_path
  <2>2. p.u = v \/ p.u = [v EXCEPT !.files = "none"]
    BY <2>1
  <2>3. Filed(v, [v EXCEPT !.files = "none"])
    BY <1>2 DEF Files
  <2>. QED BY <2>2, <2>3
<1>7. CASE p.ok
  BY <1>4, <1>5, <1>6, <1>7
<1>8. CASE ~p.ok
  BY <1>5, <1>6, <1>8
<1>. QED BY <1>7, <1>8

LEMMA FcctrdSnapshotFacts ==
    ASSUME NEW v \in MicroVmType, ~v.snap, NEW r \in FcctrdSnapshot(v)
    PROVE  SnapshotPromise(v, r)
<1>1. PICK q \in create_vm_snapshot(v) : r = IF q.ok THEN Ok([q.u EXCEPT !.snap = TRUE]) ELSE q
  BY DEF FcctrdSnapshot
<1>2. CASE q.ok
  <2>. DEFINE w == [q.u EXCEPT !.snap = TRUE]
  <2>1. w \in MicroVmType /\ w.vm = q.u.vm /\ w.held = q.u.held /\ w.stray = q.u.stray /\ w.files = q.u.files
    BY <1>1, FcctrdWriteFacts DEF MicroVmType, VmState, Files
  <2>2. r = Ok(w)
    BY <1>1, <1>2
  <2>. HIDE DEF w
  <2>3. r.ok /\ r.u = w
    BY <2>2
  <2>. QED BY <1>1, <1>2, <2>1, <2>3, FcctrdWriteFacts DEF SnapshotPromise
<1>. QED BY <1>1, <1>2, FcctrdWriteFacts DEF SnapshotPromise

LEMMA StrayFacts ==
    ASSUME NEW v \in MicroVmType
    PROVE  /\ [v EXCEPT !.stray = TRUE] \in MicroVmType /\ SameSnapshot(v, [v EXCEPT !.stray = TRUE])
           /\ [v EXCEPT !.stray = TRUE].stray
  BY DEF SameSnapshot, MicroVmType, VmState, Files

LEMMA FcctrdShutdownFacts ==
    ASSUME NEW v \in MicroVmType, Sound(v), rt = "fcctrd", NEW r \in FcctrdShutdown(v)
    PROVE  ShutdownPromise(v, r)
<1>1. CASE r \in unload_vm(v)
  <2>1. (r.u = v \/ r.u = VmDown(v)) /\ (r.ok => r.u = VmDown(v))
    BY <1>1, RpcFacts DEF unload_vm
  <2>. QED BY <2>1, VmDownFacts DEF ShutdownPromise, Sound, SameSnapshot
<1>2. CASE r = Ok([v EXCEPT !.stray = TRUE])
  <2>. DEFINE w == [v EXCEPT !.stray = TRUE]
  <2>1. w \in MicroVmType /\ SameSnapshot(v, w) /\ w.stray
    BY StrayFacts
  <2>. HIDE DEF w
  <2>2. r.u = w
    BY <1>2 DEF w
  <2>. QED BY <2>1, <2>2 DEF ShutdownPromise, Sound, SameSnapshot
<1>. QED BY <1>1, <1>2 DEF FcctrdShutdown

LEMMA LayerFacts ==
    ASSUME NEW v \in MicroVmType, NEW x \in remove_container_snapshot(v)
    PROVE  Untouched(v, x)
<1>1. x = v \/ x = [v EXCEPT !.layer = FALSE]
  BY DEF remove_container_snapshot, BestEffort
<1>. QED BY <1>1, ObjectFacts

LEMMA StopOrKillFacts ==
    ASSUME NEW v \in MicroVmType, Sound(v), ~v.snap, rt = "fcctrd", NEW r \in StopOrKill(v)
    PROVE  DestroyPromise(r)
<1>. DEFINE w == [v EXCEPT !.stray = TRUE]
<1>1. r = Ok(VmDown(v)) \/ r = Ok(w) \/ r = Err(v)
  BY DEF StopOrKill, KillGroup
<1>2. w \in MicroVmType /\ SameSnapshot(v, w) /\ w.stray
  BY StrayFacts
<1>. HIDE DEF w
<1>3. r.u = VmDown(v) \/ r.u = w \/ (~r.ok /\ r.u = v)
  BY <1>1
<1>4. CASE r.u = VmDown(v)
  BY <1>4, VmDownFacts DEF DestroyPromise, Sound, SameSnapshot
<1>5. CASE r.u = w
  BY <1>2, <1>5 DEF DestroyPromise, Sound, SameSnapshot
<1>6. CASE ~r.ok /\ r.u = v
  BY <1>6 DEF DestroyPromise
<1>. QED BY <1>3, <1>4, <1>5, <1>6

LEMMA DestroyIdleFacts ==
    ASSUME NEW v \in MicroVmType, Sound(v), ~v.snap, v.held, rt = "fcctrd", NEW r \in destroy_idle_microvm(v)
    PROVE  DestroyPromise(r)
<1>. DEFINE awake == {q.u : q \in resume_vm(v)}
            killed == Outcomes(awake, kill_task)
            deleted == Outcomes(killed, delete_task)
            layered(w) == Outcomes(remove_container_snapshot(w), StopOrKill)
            rest(w) == Then(delete_container(w), layered)
            Kept(w) == w \in MicroVmType /\ w.held /\ ~w.snap
<1>1. ASSUME NEW q \in deleted PROVE Kept(q.u)
  <2>1. PICK z \in killed : q \in delete_task(z)
    BY <1>1 DEF Outcomes
  <2>2. PICK a \in awake : z \in kill_task(a)
    BY <2>1 DEF Outcomes
  <2>3. z = a
    BY <2>2 DEF kill_task
  <2>4. PICK p \in resume_vm(v) : a = p.u
    BY <2>2
  <2>5. VcpuPromise(v, p)
    BY <2>4, FcctrdVcpuFacts
  <2>6. Kept(z)
    BY <2>3, <2>4, <2>5 DEF VcpuPromise, SameSnapshot
  <2>7. Untouched(z, q.u)
    BY <2>1, <2>6, ObjectRpcFacts
  <2>. QED BY <2>6, <2>7 DEF Untouched, SameSnapshot
<1>2. ASSUME NEW w, Kept(w), NEW q \in rest(w) PROVE DestroyPromise(q)
  <2>1. PICK p \in delete_container(w) : q \in IF p.ok THEN layered(p.u) ELSE {p}
    BY <1>2 DEF Then
  <2>2. Untouched(w, p.u)
    BY <1>2, <2>1, ObjectRpcFacts
  <2>3. Kept(p.u)
    BY <1>2, <2>2 DEF Untouched, SameSnapshot
  <2>4. CASE ~p.ok
    BY <2>1, <2>3, <2>4 DEF DestroyPromise, Sound
  <2>5. CASE p.ok
    <3>1. PICK x \in remove_container_snapshot(p.u) : q \in StopOrKill(x)
      BY <2>1, <2>5 DEF Outcomes
    <3>2. Untouched(p.u, x)
      BY <2>3, <3>1, LayerFacts
    <3>. QED BY <2>3, <3>1, <3>2, StopOrKillFacts DEF Untouched, SameSnapshot, Sound
  <2>. QED BY <2>4, <2>5
<1>. HIDE DEF deleted, rest, Kept
<1>3. CASE r = Err(v)
  <2>1. ~r.ok /\ r.u = v
    BY <1>3
  <2>. QED BY <2>1 DEF DestroyPromise
<1>4. CASE r \in Outcomes({q.u : q \in deleted}, rest)
  <2>1. PICK w \in {q.u : q \in deleted} : r \in rest(w)
    BY <1>4 DEF Outcomes
  <2>2. PICK q \in deleted : w = q.u
    BY <2>1
  <2>. QED BY <1>1, <1>2, <2>1, <2>2
<1>. QED BY <1>3, <1>4 DEF destroy_idle_microvm, deleted, rest

LEMMA DestroySnapshottedFacts ==
    ASSUME NEW v \in MicroVmType, Sound(v), Alive(v) => v.stray, rt = "fcctrd",
           NEW r \in destroy_snapshotted_microvm(v)
    PROVE  DestroyPromise(r)
<1>. DEFINE gone(w, f) == Ok([w EXCEPT !.snap = FALSE, !.files = f])
            unlinked(w) == {gone(w, f) : f \in {"none", "partial", w.files}}
            layered(w) == Outcomes(remove_container_snapshot(w), unlinked)
<1>1. destroy_snapshotted_microvm(v) = Then(delete_container(v), layered)
  BY DEF destroy_snapshotted_microvm
<1>2. ASSUME NEW w \in MicroVmType, Alive(w) => w.stray, NEW q \in unlinked(w) PROVE DestroyPromise(q)
  <2>. HIDE DEF gone
  <2>1. PICK f \in {"none", "partial", w.files} : q = gone(w, f)
    BY <1>2
  <2>2. f \in Files
    BY <1>2, <2>1 DEF MicroVmType, Files
  <2>. DEFINE x == [w EXCEPT !.snap = FALSE, !.files = f]
  <2>3. x \in MicroVmType /\ ~x.snap /\ x.vm = w.vm /\ x.stray = w.stray
    BY <1>2, <2>2 DEF MicroVmType, VmState, Files
  <2>4. q = Ok(x)
    BY <2>1 DEF gone
  <2>. HIDE DEF x
  <2>5. q.u = x
    BY <2>4
  <2>. QED BY <1>2, <2>3, <2>5 DEF DestroyPromise, Sound
<1>. HIDE DEF unlinked
<1>3. PICK p \in delete_container(v) : r \in IF p.ok THEN layered(p.u) ELSE {p}
  BY <1>1 DEF Then
<1>4. Untouched(v, p.u)
  BY <1>3, ObjectRpcFacts
<1>5. CASE ~p.ok
  BY <1>3, <1>4, <1>5 DEF DestroyPromise, Sound, Untouched, SameSnapshot
<1>6. CASE p.ok
  <2>1. PICK x \in remove_container_snapshot(p.u) : r \in unlinked(x)
    BY <1>3, <1>6 DEF Outcomes
  <2>2. Untouched(p.u, x)
    BY <1>4, <2>1, LayerFacts DEF Untouched
  <2>. QED BY <1>2, <1>4, <2>1, <2>2 DEF Untouched
<1>. QED BY <1>5, <1>6

LEMMA FcctrdDestroyFacts ==
    ASSUME NEW v \in MicroVmType, Sound(v), rt = "fcctrd", NEW r \in FcctrdDestroy(v)
    PROVE  DestroyPromise(r)
<1>1. CASE v.snap /\ v.held
  <2>1. PICK p \in FcctrdShutdown(v) : r \in IF p.ok THEN destroy_snapshotted_microvm(p.u) ELSE {p}
    BY <1>1 DEF FcctrdDestroy, Then
  <2>2. ShutdownPromise(v, p)
    BY <2>1, FcctrdShutdownFacts
  <2>3. CASE p.ok
    BY <2>1, <2>2, <2>3, DestroySnapshottedFacts DEF ShutdownPromise
  <2>4. CASE ~p.ok
    BY <2>1, <2>2, <2>4 DEF ShutdownPromise, DestroyPromise
  <2>. QED BY <2>3, <2>4
<1>2. CASE v.snap /\ ~v.held
  BY <1>2, DestroySnapshottedFacts DEF FcctrdDestroy, Sound
<1>3. CASE ~v.snap /\ v.held
  BY <1>3, DestroyIdleFacts DEF FcctrdDestroy
<1>4. CASE ~v.snap /\ ~v.held
  <2>1. r = Err(v)
    BY <1>4 DEF FcctrdDestroy
  <2>2. ~r.ok /\ r.u = v
    BY <2>1
  <2>. QED BY <2>2 DEF DestroyPromise
<1>. QED BY <1>1, <1>2, <1>3, <1>4

-----------------------------------------------------------------------------
(***************************************************************************)
(* The promises, whichever the Runtime.                                    *)
(***************************************************************************)

LEMMA MayFailFacts ==
    ASSUME NEW v, NEW w, NEW r \in MayFail(v, w)
    PROVE  (r.ok /\ r.u = w) \/ (~r.ok /\ r.u = v)
  BY DEF MayFail

Kinds == {"fc", "fcctrd", "toy", "any"}

\* What creating promises: a VMM that a failure leaves is a stray, and rt-fc leaves none.
CreatePromise(r) ==
    /\ r.u \in MicroVmType /\ Sound(r.u) /\ ~r.u.snap
    /\ r.ok => r.u.held
    /\ ~r.ok /\ Alive(r.u) => rt # "fc" /\ r.u.stray

LEMMA RuntimeInitFacts ==
    ASSUME rt \in Kinds, NEW v, NEW r \in Runtime("init", v)
    PROVE  r.u = v
<1>1. r = Ok(v) \/ r = Err(v)
  BY DEF Runtime, Kinds, FcInit, FcctrdInit, ToyInit, AnyInit, MayFail
<1>. QED BY <1>1

LEMMA RuntimeUncacheFacts ==
    ASSUME rt \in Kinds, NEW v, NEW r \in Runtime("uncache", v)
    PROVE  r.u = v
<1>1. r = Ok(v)
  BY DEF Runtime, Kinds, FcUncache, FcctrdUncache
<1>. QED BY <1>1

LEMMA RuntimeCpusetFacts ==
    ASSUME rt \in Kinds, NEW v, NEW r \in Runtime("cpuset", v)
    PROVE  r.u = v /\ (~r.ok => rt = "any")
<1>1. r = Ok(v) \/ (rt = "any" /\ r = Err(v))
  BY DEF Runtime, Kinds, FcCpuset, FcctrdCpuset, AnyCpuset, MayFail
<1>. QED BY <1>1

LEMMA RuntimeCreateFacts ==
    ASSUME rt \in Kinds, NEW v \in MicroVmType, Sound(v), ~v.snap, ~Alive(v), NEW r \in Runtime("create", v)
    PROVE  CreatePromise(r)
<1>1. CASE rt = "fc"
  <2>1. r \in FcCreate(v)
    BY <1>1 DEF Runtime
  <2>2. FcPromise(v, r)
    BY <1>1, <2>1, FcCreateFacts DEF Sound
  <2>. QED BY <1>1, <2>2 DEF FcPromise, CreatePromise, Sound, SameSnapshot
<1>2. CASE rt = "fcctrd"
  <2>1. r \in FcctrdCreate(v)
    BY <1>2 DEF Runtime
  <2>2. CtrdPromise(v, r) /\ (~r.ok /\ Alive(r.u) => r.u.stray)
    BY <2>1, FcctrdCreateFacts
  <2>. QED BY <1>2, <2>2 DEF CtrdPromise, CreatePromise, Sound, SameSnapshot
<1>3. CASE rt = "toy"
  <2>1. r = Ok(Started(v))
    BY <1>3 DEF Runtime, ToyCreate
  <2>2. r.ok /\ r.u = Started(v)
    BY <2>1
  <2>. QED BY <1>3, <2>2, StartedFacts DEF CreatePromise, Sound, SameSnapshot
<1>4. CASE rt = "any"
  <2>1. r \in MayFail(v, Started(v))
    BY <1>4 DEF Runtime, AnyCreate
  <2>2. (r.ok /\ r.u = Started(v)) \/ (~r.ok /\ r.u = v)
    BY <2>1, MayFailFacts
  <2>. QED BY <1>4, <2>2, StartedFacts DEF CreatePromise, Sound, SameSnapshot
<1>. QED BY <1>1, <1>2, <1>3, <1>4 DEF Kinds

LEMMA RuntimeLoadFacts ==
    ASSUME rt \in Kinds, NEW v \in MicroVmType, Sound(v), v.snap, ~Alive(v), NEW r \in Runtime("load", v)
    PROVE  LoadPromise(v, r) /\ Sound(r.u)
<1>1. CASE rt = "fc"
  <2>1. r \in FcLoad(v)
    BY <1>1 DEF Runtime
  <2>2. FcPromise(v, r)
    BY <1>1, <2>1, FcLoadFacts DEF Sound
  <2>. QED BY <1>1, <2>2 DEF FcPromise, LoadPromise, Sound, SameSnapshot
<1>2. CASE rt = "fcctrd"
  <2>1. r \in FcctrdLoad(v)
    BY <1>2 DEF Runtime
  <2>2. LoadPromise(v, r)
    BY <1>2, <2>1, FcctrdLoadFacts
  <2>. QED BY <1>2, <2>2 DEF LoadPromise, Sound, SameSnapshot
<1>3. CASE rt \in {"toy", "any"}
  <2>1. r \in MayFail(v, Started(v))
    BY <1>3 DEF Runtime, AnyLoad
  <2>2. (r.ok /\ r.u = Started(v)) \/ (~r.ok /\ r.u = v)
    BY <2>1, MayFailFacts
  <2>. QED BY <1>3, <2>2, StartedFacts DEF LoadPromise, Sound, SameSnapshot
<1>. QED BY <1>1, <1>2, <1>3 DEF Kinds

LEMMA RuntimeVcpuFacts ==
    ASSUME rt \in Kinds, NEW v \in MicroVmType, Sound(v), v.held \/ v.stray
    PROVE  /\ \A r \in Runtime("pause", v) : VcpuPromise(v, r) /\ Sound(r.u) /\ (r.ok => r.u.vm = "paused")
           /\ \A r \in Runtime("resume", v) : VcpuPromise(v, r) /\ Sound(r.u)
<1>1. ASSUME NEW r, VcpuPromise(v, r) PROVE Sound(r.u)
  BY <1>1 DEF VcpuPromise, Sound, SameSnapshot
<1>2. ASSUME NEW r \in Runtime("pause", v) PROVE VcpuPromise(v, r) /\ (r.ok => r.u.vm = "paused")
  <2>1. CASE rt = "fcctrd"
    BY <1>2, <2>1, FcctrdPauseFacts DEF Runtime
  <2>2. CASE rt # "fcctrd"
    <3>1. r \in VcpuOutcomes(v, "paused")
      BY <1>2, <2>2, FcVcpuFacts DEF Runtime, Kinds, ToyPause, AnyPause, MayFail, VcpuOutcomes
    <3>. QED BY <3>1, VcpuOutcomesFacts
  <2>. QED BY <2>1, <2>2
<1>3. ASSUME NEW r \in Runtime("resume", v) PROVE VcpuPromise(v, r)
  <2>1. CASE rt = "fcctrd"
    BY <1>3, <2>1, FcctrdVcpuFacts DEF Runtime, FcctrdResume
  <2>2. CASE rt # "fcctrd"
    <3>1. r \in VcpuOutcomes(v, "running")
      BY <1>3, <2>2, FcVcpuFacts DEF Runtime, Kinds, ToyResume, AnyResume, MayFail, VcpuOutcomes
    <3>. QED BY <3>1, VcpuOutcomesFacts
  <2>. QED BY <2>1, <2>2
<1>. QED BY <1>1, <1>2, <1>3

LEMMA RuntimeSnapshotFacts ==
    ASSUME rt \in Kinds, NEW v \in MicroVmType, Sound(v), ~v.snap, NEW r \in Runtime("snapshot", v)
    PROVE  SnapshotPromise(v, r) /\ Sound(r.u)
<1>1. SnapshotPromise(v, r)
  <2>1. CASE rt = "fc"
    BY <2>1, FcSnapshotFacts DEF Runtime
  <2>2. CASE rt = "fcctrd"
    BY <2>2, FcctrdSnapshotFacts DEF Runtime
  <2>3. CASE rt = "toy"
    <3>1. r = Ok(v)
      BY <2>3 DEF Runtime, ToySnapshot
    <3>2. r.u = v
      BY <3>1
    <3>. QED BY <3>2 DEF SnapshotPromise
  <2>4. CASE rt = "any"
    <3>1. r \in MayFail(v, Snapped(v))
      BY <2>4 DEF Runtime, AnySnapshot
    <3>2. (r.ok /\ r.u = Snapped(v)) \/ (~r.ok /\ r.u = v)
      BY <3>1, MayFailFacts
    <3>. QED BY <3>2, SnappedFacts DEF SnapshotPromise
  <2>. QED BY <2>1, <2>2, <2>3, <2>4 DEF Kinds
<1>. QED BY <1>1 DEF SnapshotPromise, Sound

LEMMA RuntimeShutdownFacts ==
    ASSUME rt \in Kinds, NEW v \in MicroVmType, Sound(v), NEW r \in Runtime("shutdown", v)
    PROVE  ShutdownPromise(v, r)
<1>1. CASE rt = "fc"
  BY <1>1, FcShutdownFacts DEF Runtime
<1>2. CASE rt = "fcctrd"
  BY <1>2, FcctrdShutdownFacts DEF Runtime
<1>3. CASE rt \in {"toy", "any"}
  <2>1. r \in MayFail(v, VmDown(v))
    BY <1>3 DEF Runtime, AnyShutdown
  <2>2. (r.ok /\ r.u = VmDown(v)) \/ (~r.ok /\ r.u = v)
    BY <2>1, MayFailFacts
  <2>. QED BY <1>3, <2>2, VmDownFacts DEF ShutdownPromise, Sound, SameSnapshot
<1>. QED BY <1>1, <1>2, <1>3 DEF Kinds

LEMMA RuntimeDestroyFacts ==
    ASSUME rt \in Kinds, NEW v \in MicroVmType, Sound(v), NEW r \in Runtime("destroy", v)
    PROVE  DestroyPromise(r)
<1>1. CASE rt = "fc"
  BY <1>1, FcDestroyFacts DEF Runtime
<1>2. CASE rt = "fcctrd"
  BY <1>2, FcctrdDestroyFacts DEF Runtime
<1>3. CASE rt \in {"toy", "any"}
  <2>1. r = Ok(NoVm) \/ r = Err(v)
    BY <1>3 DEF Runtime, ToyDestroy, AnyDestroy, MayFail
  <2>2. r.u = NoVm \/ (~r.ok /\ r.u = v)
    BY <2>1
  <2>. QED BY <1>3, <2>2, NoVmFacts DEF DestroyPromise, Sound
<1>. QED BY <1>1, <1>2, <1>3 DEF Kinds

-----------------------------------------------------------------------------
(***************************************************************************)
(* Every step keeps the invariant.                                         *)
(***************************************************************************)

USE DEF envVars, boxVars, jobVars, reqVars, poolVars, Go, Keep, Creating, SandboxState, JobKinds, Errors, PoolMessage, ControlMessage,
        AtRest, Founding, Preparing, Serving, Snapping, Failing, Closing, Pausing,
        StateAt, JobAt, RequestAt, ErrorAt, EndAt, NetworkAt

\* A step of the Worker that sends and receives nothing keeps what the Pool was told.
LEMMA QuietFacts ==
    ASSUME ToldAt, UNCHANGED <<view, known, ctrl, out>>,
           st' # "Nonexistent" => st # "Nonexistent",
           job'.kind = "snap" => known,
           pc \in {"exiting", "exited", "panicked"} => pc' \in {"exiting", "exited", "panicked"}
    PROVE  ToldAt'
  BY DEF ToldAt

\* Taking a control message off the queue.
LEMMA TakeFacts ==
    ASSUME ToldAt, pc = "loop", ctrl \in Seq(ControlMessage), ctrl # <<>>, ctrl' = Tail(ctrl), UNCHANGED <<st, view, known, out>>,
           job'.kind = "snap" => Head(ctrl) = "CreateSnapshot"
    PROVE  ToldAt'
<1>1. Head(ctrl) = ctrl[1] /\ 1 \in 1..Len(ctrl)
  OBVIOUS
<1>2. \A i \in 1..Len(ctrl') : ctrl'[i] = ctrl[i+1] /\ i+1 \in 1..Len(ctrl)
  OBVIOUS
<1>. QED BY <1>1, <1>2 DEF ToldAt

\* Sending to the Pool: it hears of the Sandbox first, and of the end of the Worker last.
LEMMA SendFacts ==
    ASSUME ToldAt, out \in Seq(PoolMessage), NEW m \in PoolMessage, out' = Append(out, m), UNCHANGED <<view, known, ctrl>>,
           pc \notin {"exiting", "exited", "panicked"},
           st' # "Nonexistent" => st # "Nonexistent" \/ m = "SandboxId",
           job'.kind = "snap" => known,
           m \in {"NeedWork", "Prepared", "Snapshotted"} => known \/ st # "Nonexistent",
           m = "ReapMe" => pc' \in {"exiting", "exited", "panicked"}
    PROVE  ToldAt'
<1>1. /\ Len(out') = Len(out) + 1 /\ out'[Len(out)+1] = m
      /\ \A i \in 1..Len(out) : out'[i] = out[i]
  OBVIOUS
<1>2. Len(out) \in Nat
  OBVIOUS
<1>3. \A i \in 1..Len(out) : out[i] # "ReapMe"
  BY DEF ToldAt
<1>4. st' # "Nonexistent" => known' \/ \E i \in 1..Len(out') : out'[i] = "SandboxId"
  BY <1>1, <1>2 DEF ToldAt
<1>5. ASSUME NEW i \in 1..Len(out')
      PROVE  /\ out'[i] \in {"NeedWork", "Prepared", "Snapshotted"} =>
                    known' \/ \E j \in 1..(i-1) : out'[j] = "SandboxId"
             /\ out'[i] = "ReapMe" => i = Len(out') /\ pc' \in {"exiting", "exited", "panicked"}
  <2>1. CASE i = Len(out) + 1
    BY <1>1, <1>2, <2>1 DEF ToldAt
  <2>2. CASE i \in 1..Len(out)
    BY <1>1, <1>2, <1>3, <2>2 DEF ToldAt
  <2>. QED BY <1>1, <1>2, <2>1, <2>2
<1>. QED BY <1>4, <1>5 DEF ToldAt

\* A reply of the Worker: types, and what the Pool is told.
LEMMA ReplyFacts ==
    ASSUME WInv, NEW m \in PoolMessage, out' = Append(out, m), job' = NoJob \/ job' = job,
           UNCHANGED <<envVars, boxVars, err, status, exit, reqVars, poolVars>>,
           pc \notin {"exiting", "exited", "panicked"},
           m # "SandboxId",
           m \in {"NeedWork", "Prepared", "Snapshotted"} => known \/ st # "Nonexistent",
           m = "ReapMe" => pc' = "exiting"
    PROVE  Typed' /\ ToldAt'
<1>1. out \in Seq(PoolMessage)
  BY DEF WInv, Typed
<1>2. out' \in Seq(PoolMessage)
  BY <1>1
<1>3. job' \in [kind : JobKinds, start : SandboxState] /\ (job'.kind = "snap" => known)
  BY DEF NoJob, WInv, Typed, ToldAt
<1>4. Typed'
  BY <1>2, <1>3 DEF WInv, Typed
<1>5. ToldAt'
  BY <1>1, <1>3, SendFacts DEF WInv
<1>. QED BY <1>4, <1>5

LEMMA AfterSnapshotFacts ==
    ASSUME job.kind \in {"invoke", "prep", "snap"}
    PROVE  \/ AfterSnapshot = "snapreply" /\ job.kind = "snap"
           \/ AfterSnapshot = "prepreply" /\ job.kind = "prep"
           \/ AfterSnapshot = "reresume" /\ job.kind = "invoke" /\ snapTime = "OnCreationBeforeInvoc"
           \/ AfterSnapshot = "release" /\ job.kind = "invoke" /\ snapTime # "OnCreationBeforeInvoc"
  BY DEF AfterSnapshot

LEMMA RuntimeInitStep ==
    ASSUME WInv, RuntimeInit PROVE WInv'
<1>1. PICK r \in Runtime("init", u) :
          /\ u' = r.u
          /\ r.ok => Go("loop") /\ Keep(<<st, net, row, status>>)
          /\ ~r.ok => Go("reap") /\ status' = "Err" /\ Keep(<<st, net, row>>)
  BY DEF RuntimeInit, Call
<1>2. u' = u
  BY <1>1, RuntimeInitFacts DEF WInv, Typed, Kinds, ControlAt, MicroVmAt, RuntimeInit, Call
<1>3. Typed'
  BY <1>1, <1>2 DEF WInv, Typed, RuntimeInit, Call
<1>4. ControlAt'
  BY <1>1, <1>2 DEF WInv, Typed, ControlAt, RuntimeInit, Call
<1>5. MicroVmAt' /\ RowAt'
  BY <1>1, <1>2 DEF WInv, Typed, ControlAt, MicroVmAt, RowAt, Sound, RuntimeInit, Call
<1>6. ToldAt'
  BY <1>1, QuietFacts DEF WInv, Typed, ControlAt, ToldAt, RuntimeInit, Call
<1>. QED BY <1>3, <1>4, <1>5, <1>6 DEF WInv

LEMMA TakeInvocationStep ==
    ASSUME WInv, TakeInvocation PROVE WInv'
<1>1. Typed'
  BY DEF WInv, Typed, ControlAt, TakeInvocation, PrepareAt
<1>2. ControlAt'
  BY DEF WInv, Typed, ControlAt, TakeInvocation, PrepareAt
<1>3. MicroVmAt' /\ RowAt'
  BY DEF WInv, Typed, ControlAt, MicroVmAt, RowAt, Sound, TakeInvocation, PrepareAt
<1>4. ToldAt'
  BY QuietFacts DEF WInv, Typed, ControlAt, ToldAt, TakeInvocation, PrepareAt
<1>. QED BY <1>1, <1>2, <1>3, <1>4 DEF WInv

LEMMA ShutDownStep ==
    ASSUME WInv, ShutDown PROVE WInv'
<1>1. Typed'
  BY DEF WInv, Typed, ControlAt, ShutDown, TakeControl, PrepareAt
<1>2. ControlAt'
  BY DEF WInv, Typed, ControlAt, ShutDown, TakeControl, PrepareAt
<1>3. MicroVmAt' /\ RowAt'
  BY DEF WInv, Typed, ControlAt, MicroVmAt, RowAt, Sound, ShutDown, TakeControl, PrepareAt
<1>4. ToldAt'
  BY TakeFacts DEF WInv, Typed, ShutDown, TakeControl
<1>. QED BY <1>1, <1>2, <1>3, <1>4 DEF WInv

LEMMA DestroySandboxStep ==
    ASSUME WInv, DestroySandbox PROVE WInv'
<1>1. Typed'
  BY DEF WInv, Typed, ControlAt, DestroySandbox, TakeControl, PrepareAt
<1>2. ControlAt'
  BY DEF WInv, Typed, ControlAt, DestroySandbox, TakeControl, PrepareAt
<1>3. MicroVmAt' /\ RowAt'
  BY DEF WInv, Typed, ControlAt, MicroVmAt, RowAt, Sound, DestroySandbox, TakeControl, PrepareAt
<1>4. ToldAt'
  BY TakeFacts DEF WInv, Typed, DestroySandbox, TakeControl
<1>. QED BY <1>1, <1>2, <1>3, <1>4 DEF WInv

LEMMA handle_prepare_sandbox_requestStep ==
    ASSUME WInv, handle_prepare_sandbox_request PROVE WInv'
<1>1. Typed'
  BY DEF WInv, Typed, ControlAt, handle_prepare_sandbox_request, TakeControl, PrepareAt
<1>2. ControlAt'
  BY DEF WInv, Typed, ControlAt, handle_prepare_sandbox_request, TakeControl, PrepareAt
<1>3. MicroVmAt' /\ RowAt'
  BY DEF WInv, Typed, ControlAt, MicroVmAt, RowAt, Sound, handle_prepare_sandbox_request, TakeControl, PrepareAt
<1>4. ToldAt'
  BY TakeFacts DEF WInv, Typed, handle_prepare_sandbox_request, TakeControl
<1>. QED BY <1>1, <1>2, <1>3, <1>4 DEF WInv

LEMMA handle_snapshot_requestStep ==
    ASSUME WInv, handle_snapshot_request PROVE WInv'
<1>1. Typed'
  BY DEF WInv, Typed, ControlAt, handle_snapshot_request, TakeControl, PrepareAt
<1>2. ControlAt'
  BY DEF WInv, Typed, ControlAt, handle_snapshot_request, TakeControl, PrepareAt
<1>3. MicroVmAt' /\ RowAt'
  BY DEF WInv, Typed, ControlAt, MicroVmAt, RowAt, Sound, handle_snapshot_request, TakeControl, PrepareAt
<1>4. ToldAt'
  BY TakeFacts DEF WInv, Typed, handle_snapshot_request, TakeControl
<1>. QED BY <1>1, <1>2, <1>3, <1>4 DEF WInv

LEMMA ChannelClosedStep ==
    ASSUME WInv, ChannelClosed PROVE WInv'
<1>1. Typed'
  BY DEF WInv, Typed, ControlAt, ChannelClosed
<1>2. ControlAt'
  BY DEF WInv, Typed, ControlAt, ChannelClosed
<1>3. MicroVmAt' /\ RowAt'
  BY DEF WInv, Typed, ControlAt, MicroVmAt, RowAt, Sound, ChannelClosed
<1>4. ToldAt'
  BY QuietFacts DEF WInv, Typed, ControlAt, ToldAt, ChannelClosed
<1>. QED BY <1>1, <1>2, <1>3, <1>4 DEF WInv

LEMMA AllocateStep ==
    ASSUME WInv, Allocate PROVE WInv'
<1>1. Typed'
  BY DEF WInv, Typed, ControlAt, Allocate, PrepareFails
<1>2. ControlAt'
  BY DEF WInv, Typed, ControlAt, Allocate, PrepareFails
<1>3. MicroVmAt' /\ RowAt'
  BY DEF WInv, Typed, ControlAt, MicroVmAt, RowAt, Sound, Allocate, PrepareFails
<1>4. ToldAt'
  BY QuietFacts DEF WInv, Typed, ControlAt, ToldAt, Allocate, PrepareFails
<1>. QED BY <1>1, <1>2, <1>3, <1>4 DEF WInv

LEMMA CreateStep ==
    ASSUME WInv, Create PROVE WInv'
<1>1. PICK r \in Runtime("create", u) :
          /\ u' = r.u
          /\ r.ok => Go("pin") /\ Keep(<<st, net, row, status>>)
          /\ ~r.ok => net' = "lost" /\ PrepareFails /\ Keep(<<st, row, status>>)
  BY DEF Create, Call, PrepareFails
<1>2. CreatePromise(r)
  BY <1>1, RuntimeCreateFacts DEF WInv, Typed, Kinds, ControlAt, MicroVmAt, Create, Call
<1>3. Typed'
  BY <1>1, <1>2 DEF WInv, Typed, Create, Call, CreatePromise, SameSnapshot, PrepareFails
<1>4. ControlAt'
  BY <1>1, <1>2 DEF WInv, Typed, ControlAt, Create, Call, CreatePromise, SameSnapshot, PrepareFails
<1>5. MicroVmAt' /\ RowAt'
  BY <1>1, <1>2 DEF WInv, Typed, ControlAt, MicroVmAt, RowAt, Sound, Create, Call, CreatePromise, SameSnapshot, PrepareFails
<1>6. ToldAt'
  BY <1>1, QuietFacts DEF WInv, Typed, ControlAt, ToldAt, Create, Call, PrepareFails
<1>. QED BY <1>3, <1>4, <1>5, <1>6 DEF WInv

LEMMA LoadStep ==
    ASSUME WInv, Load PROVE WInv'
<1>1. PICK r \in Runtime("load", u) :
          /\ u' = r.u
          /\ r.ok => st' = "Running" /\ Go("loadpin") /\ Keep(<<net, row, status>>)
          /\ ~r.ok => PrepareFails /\ Keep(<<st, net, row, status>>)
  BY DEF Load, Call, PrepareFails
<1>2. LoadPromise(u, r) /\ Sound(r.u)
  BY <1>1, RuntimeLoadFacts DEF WInv, Typed, Kinds, ControlAt, MicroVmAt, Load, Call
<1>3. Typed'
  BY <1>1, <1>2 DEF WInv, Typed, Load, Call, LoadPromise, SameSnapshot, PrepareFails
<1>4. ControlAt'
  BY <1>1, <1>2 DEF WInv, Typed, ControlAt, Load, Call, LoadPromise, SameSnapshot, PrepareFails
<1>5. MicroVmAt' /\ RowAt'
  BY <1>1, <1>2 DEF WInv, Typed, ControlAt, MicroVmAt, RowAt, Sound, Load, Call, LoadPromise, SameSnapshot, PrepareFails
<1>6. ToldAt'
  BY <1>1, QuietFacts DEF WInv, Typed, ControlAt, ToldAt, Load, Call, PrepareFails
<1>. QED BY <1>3, <1>4, <1>5, <1>6 DEF WInv

LEMMA LoadPinStep ==
    ASSUME WInv, LoadPin PROVE WInv'
<1>1. PICK r \in Runtime("cpuset", u) :
          /\ u' = r.u
          /\ r.ok => st' = "Running" /\ Go(AfterPrepare) /\ Keep(<<net, row, status>>)
          /\ ~r.ok => PrepareFails /\ Keep(<<st, net, row, status>>)
  BY DEF LoadPin, Call, PrepareFails, AfterPrepare
<1>2. u' = u /\ (~r.ok => rt = "any")
  BY <1>1, RuntimeCpusetFacts DEF WInv, Typed, Kinds, ControlAt, MicroVmAt, LoadPin, Call
<1>3. Typed'
  BY <1>1, <1>2 DEF WInv, Typed, LoadPin, Call, PrepareFails, AfterPrepare
<1>4. ControlAt'
  BY <1>1, <1>2 DEF WInv, Typed, ControlAt, LoadPin, Call, PrepareFails, AfterPrepare
<1>5. MicroVmAt' /\ RowAt'
  BY <1>1, <1>2 DEF WInv, Typed, ControlAt, MicroVmAt, RowAt, Sound, LoadPin, Call, PrepareFails, AfterPrepare
<1>6. ToldAt'
  BY <1>1, QuietFacts DEF WInv, Typed, ControlAt, ToldAt, LoadPin, Call, PrepareFails, AfterPrepare
<1>. QED BY <1>3, <1>4, <1>5, <1>6 DEF WInv

LEMMA ResumeStep ==
    ASSUME WInv, Resume PROVE WInv'
<1>1. PICK r \in Runtime("resume", u) :
          /\ u' = r.u
          /\ r.ok => Go("resumepin") /\ Keep(<<st, net, row, status>>)
          /\ ~r.ok => PrepareFails /\ Keep(<<st, net, row, status>>)
  BY DEF Resume, Call, PrepareFails
<1>2. VcpuPromise(u, r) /\ Sound(r.u)
  BY <1>1, RuntimeVcpuFacts DEF WInv, Typed, Kinds, ControlAt, MicroVmAt, Resume, Call
<1>3. Typed'
  BY <1>1, <1>2 DEF WInv, Typed, Resume, Call, VcpuPromise, SameSnapshot, PrepareFails
<1>4. ControlAt'
  BY <1>1, <1>2 DEF WInv, Typed, ControlAt, Resume, Call, VcpuPromise, SameSnapshot, PrepareFails
<1>5. MicroVmAt' /\ RowAt'
  BY <1>1, <1>2 DEF WInv, Typed, ControlAt, MicroVmAt, RowAt, Sound, Resume, Call, VcpuPromise, SameSnapshot, PrepareFails
<1>6. ToldAt'
  BY <1>1, QuietFacts DEF WInv, Typed, ControlAt, ToldAt, Resume, Call, PrepareFails
<1>. QED BY <1>3, <1>4, <1>5, <1>6 DEF WInv

LEMMA ResumePinStep ==
    ASSUME WInv, ResumePin PROVE WInv'
<1>1. PICK r \in Runtime("cpuset", u) :
          /\ u' = r.u
          /\ r.ok => st' = "Running" /\ Go(AfterPrepare) /\ Keep(<<net, row, status>>)
          /\ ~r.ok => PrepareFails /\ Keep(<<st, net, row, status>>)
  BY DEF ResumePin, Call, PrepareFails, AfterPrepare
<1>2. u' = u /\ (~r.ok => rt = "any")
  BY <1>1, RuntimeCpusetFacts DEF WInv, Typed, Kinds, ControlAt, MicroVmAt, ResumePin, Call
<1>3. Typed'
  BY <1>1, <1>2 DEF WInv, Typed, ResumePin, Call, PrepareFails, AfterPrepare
<1>4. ControlAt'
  BY <1>1, <1>2 DEF WInv, Typed, ControlAt, ResumePin, Call, PrepareFails, AfterPrepare
<1>5. MicroVmAt' /\ RowAt'
  BY <1>1, <1>2 DEF WInv, Typed, ControlAt, MicroVmAt, RowAt, Sound, ResumePin, Call, PrepareFails, AfterPrepare
<1>6. ToldAt'
  BY <1>1, QuietFacts DEF WInv, Typed, ControlAt, ToldAt, ResumePin, Call, PrepareFails, AfterPrepare
<1>. QED BY <1>3, <1>4, <1>5, <1>6 DEF WInv

LEMMA PauseBeforeInvocStep ==
    ASSUME WInv, PauseBeforeInvoc PROVE WInv'
<1>1. PICK r \in Runtime("pause", u) :
          /\ u' = r.u
          /\ r.ok => st' = "Paused" /\ Go("query") /\ Keep(<<net, row, status>>)
          /\ ~r.ok => PauseFails("release")
  BY DEF PauseBeforeInvoc, Call, PauseFails
<1>2. VcpuPromise(u, r) /\ Sound(r.u) /\ (r.ok => r.u.vm = "paused")
  BY <1>1, RuntimeVcpuFacts DEF WInv, Typed, Kinds, ControlAt, MicroVmAt, PauseBeforeInvoc, Call
<1>3. Typed'
  BY <1>1, <1>2 DEF WInv, Typed, PauseBeforeInvoc, Call, VcpuPromise, SameSnapshot, PauseFails
<1>4. ControlAt'
  BY <1>1, <1>2 DEF WInv, Typed, ControlAt, PauseBeforeInvoc, Call, VcpuPromise, SameSnapshot, PauseFails
<1>5. MicroVmAt' /\ RowAt'
  BY <1>1, <1>2 DEF WInv, Typed, ControlAt, MicroVmAt, RowAt, Sound, PauseBeforeInvoc, Call, VcpuPromise, SameSnapshot, PauseFails
<1>6. ToldAt'
  BY <1>1, QuietFacts DEF WInv, Typed, ControlAt, ToldAt, PauseBeforeInvoc, Call, PauseFails
<1>. QED BY <1>3, <1>4, <1>5, <1>6 DEF WInv

LEMMA ResumeAfterSnapshotStep ==
    ASSUME WInv, ResumeAfterSnapshot PROVE WInv'
<1>1. PICK r \in Runtime("resume", u) :
          /\ u' = r.u
          /\ r.ok => st' = "Running" /\ Go("issue") /\ Keep(<<net, row, status>>)
          /\ ~r.ok => err' = "ResumeSandbox" /\ pc' = "release" /\ Keep(<<st, net, row, status>>)
  BY DEF ResumeAfterSnapshot, Call
<1>2. VcpuPromise(u, r) /\ Sound(r.u)
  BY <1>1, RuntimeVcpuFacts DEF WInv, Typed, Kinds, ControlAt, MicroVmAt, ResumeAfterSnapshot, Call
<1>3. Typed'
  BY <1>1, <1>2 DEF WInv, Typed, ResumeAfterSnapshot, Call, VcpuPromise, SameSnapshot
<1>4. ControlAt'
  BY <1>1, <1>2 DEF WInv, Typed, ControlAt, ResumeAfterSnapshot, Call, VcpuPromise, SameSnapshot
<1>5. MicroVmAt' /\ RowAt'
  BY <1>1, <1>2 DEF WInv, Typed, ControlAt, MicroVmAt, RowAt, Sound, ResumeAfterSnapshot, Call, VcpuPromise, SameSnapshot
<1>6. ToldAt'
  BY <1>1, QuietFacts DEF WInv, Typed, ControlAt, ToldAt, ResumeAfterSnapshot, Call
<1>. QED BY <1>3, <1>4, <1>5, <1>6 DEF WInv

LEMMA issue_requestStep ==
    ASSUME WInv, issue_request PROVE WInv'
<1>1. Typed'
  BY DEF WInv, Typed, ControlAt, issue_request, make_issuer_error_response
<1>2. ControlAt'
  BY DEF WInv, Typed, ControlAt, issue_request, make_issuer_error_response
<1>3. MicroVmAt' /\ RowAt'
  BY DEF WInv, Typed, ControlAt, MicroVmAt, RowAt, Sound, issue_request, make_issuer_error_response
<1>4. ToldAt'
  BY QuietFacts DEF WInv, Typed, ControlAt, ToldAt, issue_request, make_issuer_error_response
<1>. QED BY <1>1, <1>2, <1>3, <1>4 DEF WInv

LEMMA forward_responseStep ==
    ASSUME WInv, forward_response PROVE WInv'
<1>1. Typed'
  BY DEF WInv, Typed, ControlAt, forward_response
<1>2. ControlAt'
  BY DEF WInv, Typed, ControlAt, forward_response
<1>3. MicroVmAt' /\ RowAt'
  BY DEF WInv, Typed, ControlAt, MicroVmAt, RowAt, Sound, forward_response
<1>4. ToldAt'
  BY QuietFacts DEF WInv, Typed, ControlAt, ToldAt, forward_response
<1>. QED BY <1>1, <1>2, <1>3, <1>4 DEF WInv

LEMMA PauseAfterInvocStep ==
    ASSUME WInv, PauseAfterInvoc PROVE WInv'
<1>1. PICK r \in Runtime("pause", u) :
          /\ u' = r.u
          /\ r.ok => st' = "Paused" /\ Go(IF Creating("OnCreationAfterInvoc") THEN "query" ELSE "release") /\ Keep(<<net, row, status>>)
          /\ ~r.ok => PauseFails("release")
  BY DEF PauseAfterInvoc, Call, PauseFails
<1>2. VcpuPromise(u, r) /\ Sound(r.u) /\ (r.ok => r.u.vm = "paused")
  BY <1>1, RuntimeVcpuFacts DEF WInv, Typed, Kinds, ControlAt, MicroVmAt, PauseAfterInvoc, Call
<1>3. Typed'
  BY <1>1, <1>2 DEF WInv, Typed, PauseAfterInvoc, Call, VcpuPromise, SameSnapshot, PauseFails
<1>4. ControlAt'
  BY <1>1, <1>2 DEF WInv, Typed, ControlAt, PauseAfterInvoc, Call, VcpuPromise, SameSnapshot, PauseFails
<1>5. MicroVmAt' /\ RowAt'
  BY <1>1, <1>2 DEF WInv, Typed, ControlAt, MicroVmAt, RowAt, Sound, PauseAfterInvoc, Call, VcpuPromise, SameSnapshot, PauseFails
<1>6. ToldAt'
  BY <1>1, QuietFacts DEF WInv, Typed, ControlAt, ToldAt, PauseAfterInvoc, Call, PauseFails
<1>. QED BY <1>3, <1>4, <1>5, <1>6 DEF WInv

LEMMA ReleaseSlotStep ==
    ASSUME WInv, ReleaseSlot PROVE WInv'
<1>1. Typed'
  BY DEF WInv, Typed, ControlAt, ReleaseSlot
<1>2. ControlAt'
  BY DEF WInv, Typed, ControlAt, ReleaseSlot
<1>3. MicroVmAt' /\ RowAt'
  BY DEF WInv, Typed, ControlAt, MicroVmAt, RowAt, Sound, ReleaseSlot
<1>4. ToldAt'
  BY QuietFacts DEF WInv, Typed, ControlAt, ToldAt, ReleaseSlot
<1>. QED BY <1>1, <1>2, <1>3, <1>4 DEF WInv

LEMMA QueryPathsStep ==
    ASSUME WInv, QueryPaths PROVE WInv'
<1>1. Typed'
  BY AfterSnapshotFacts DEF WInv, Typed, ControlAt, QueryPaths
<1>2. ControlAt'
  BY AfterSnapshotFacts DEF WInv, Typed, ControlAt, QueryPaths
<1>3. MicroVmAt' /\ RowAt'
  BY AfterSnapshotFacts DEF WInv, Typed, ControlAt, MicroVmAt, RowAt, Sound, QueryPaths
<1>4. ToldAt'
  BY AfterSnapshotFacts, QuietFacts DEF WInv, Typed, ControlAt, ToldAt, QueryPaths
<1>. QED BY <1>1, <1>2, <1>3, <1>4 DEF WInv

LEMMA rt_create_snapshotStep ==
    ASSUME WInv, rt_create_snapshot PROVE WInv'
<1>1. PICK r \in Runtime("snapshot", u) :
          /\ u' = r.u
          /\ r.ok => Go("notify") /\ Keep(<<st, net, row, status>>)
          /\ ~r.ok => Go(AfterSnapshot) /\ Keep(<<st, net, row, status>>)
  BY DEF rt_create_snapshot, Call
<1>2. SnapshotPromise(u, r) /\ Sound(r.u)
  BY <1>1, RuntimeSnapshotFacts DEF WInv, Typed, Kinds, ControlAt, MicroVmAt, rt_create_snapshot, Call
<1>3. Typed'
  BY <1>1, <1>2, AfterSnapshotFacts DEF WInv, Typed, rt_create_snapshot, Call, SnapshotPromise
<1>4. ControlAt'
  BY <1>1, <1>2, AfterSnapshotFacts DEF WInv, Typed, ControlAt, rt_create_snapshot, Call, SnapshotPromise
<1>5. MicroVmAt' /\ RowAt'
  BY <1>1, <1>2, AfterSnapshotFacts DEF WInv, Typed, ControlAt, MicroVmAt, RowAt, Sound, rt_create_snapshot, Call, SnapshotPromise
<1>6. ToldAt'
  BY <1>1, AfterSnapshotFacts, QuietFacts DEF WInv, Typed, ControlAt, ToldAt, rt_create_snapshot, Call
<1>. QED BY <1>3, <1>4, <1>5, <1>6 DEF WInv

LEMMA snapman_notify_creationStep ==
    ASSUME WInv, snapman_notify_creation PROVE WInv'
<1>1. Typed'
  BY AfterSnapshotFacts DEF WInv, Typed, ControlAt, snapman_notify_creation
<1>2. ControlAt'
  BY AfterSnapshotFacts DEF WInv, Typed, ControlAt, snapman_notify_creation
<1>3. MicroVmAt' /\ RowAt'
  BY AfterSnapshotFacts DEF WInv, Typed, ControlAt, MicroVmAt, RowAt, Sound, snapman_notify_creation
<1>4. ToldAt'
  BY AfterSnapshotFacts, QuietFacts DEF WInv, Typed, ControlAt, ToldAt, snapman_notify_creation
<1>. QED BY <1>1, <1>2, <1>3, <1>4 DEF WInv

LEMMA PausePreparedStep ==
    ASSUME WInv, PausePrepared PROVE WInv'
<1>1. PICK r \in Runtime("pause", u) :
          /\ u' = r.u
          /\ r.ok => st' = "Paused" /\ Go(IF Creating("OnCreationBeforeInvoc") THEN "query" ELSE "prepreply") /\ Keep(<<net, row, status>>)
          /\ ~r.ok => PauseFails("prepfailed")
  BY DEF PausePrepared, Call, PauseFails
<1>2. VcpuPromise(u, r) /\ Sound(r.u) /\ (r.ok => r.u.vm = "paused")
  BY <1>1, RuntimeVcpuFacts DEF WInv, Typed, Kinds, ControlAt, MicroVmAt, PausePrepared, Call
<1>3. Typed'
  BY <1>1, <1>2 DEF WInv, Typed, PausePrepared, Call, VcpuPromise, SameSnapshot, PauseFails
<1>4. ControlAt'
  BY <1>1, <1>2 DEF WInv, Typed, ControlAt, PausePrepared, Call, VcpuPromise, SameSnapshot, PauseFails
<1>5. MicroVmAt' /\ RowAt'
  BY <1>1, <1>2 DEF WInv, Typed, ControlAt, MicroVmAt, RowAt, Sound, PausePrepared, Call, VcpuPromise, SameSnapshot, PauseFails
<1>6. ToldAt'
  BY <1>1, QuietFacts DEF WInv, Typed, ControlAt, ToldAt, PausePrepared, Call, PauseFails
<1>. QED BY <1>3, <1>4, <1>5, <1>6 DEF WInv

LEMMA try_handle_failureStep ==
    ASSUME WInv, try_handle_failure PROVE WInv'
<1>1. Typed'
  BY DEF WInv, Typed, ControlAt, try_handle_failure
<1>2. ControlAt'
  BY DEF WInv, Typed, ControlAt, try_handle_failure
<1>3. MicroVmAt' /\ RowAt'
  BY DEF WInv, Typed, ControlAt, MicroVmAt, RowAt, Sound, try_handle_failure
<1>4. ToldAt'
  BY QuietFacts DEF WInv, Typed, ControlAt, ToldAt, try_handle_failure
<1>. QED BY <1>1, <1>2, <1>3, <1>4 DEF WInv

LEMMA QuiesceStep ==
    ASSUME WInv, Quiesce PROVE WInv'
<1>1. PICK r \in Runtime("pause", u) :
          /\ u' = r.u
          /\ r.ok => st' = (IF u.snap THEN st ELSE "Paused") /\ Go(IF u.snap THEN "unload" ELSE "destroy") /\ Keep(<<net, row, status>>)
          /\ ~r.ok => Trash
  BY DEF Quiesce, Call, Trash
<1>2. VcpuPromise(u, r) /\ Sound(r.u) /\ (r.ok => r.u.vm = "paused")
  BY <1>1, RuntimeVcpuFacts DEF WInv, Typed, Kinds, ControlAt, MicroVmAt, Quiesce, Call
<1>3. Typed'
  BY <1>1, <1>2 DEF WInv, Typed, Quiesce, Call, VcpuPromise, SameSnapshot, Trash
<1>4. ControlAt'
  BY <1>1, <1>2 DEF WInv, Typed, ControlAt, Quiesce, Call, VcpuPromise, SameSnapshot, Trash
<1>5. MicroVmAt' /\ RowAt'
  BY <1>1, <1>2 DEF WInv, Typed, ControlAt, MicroVmAt, RowAt, Sound, Quiesce, Call, VcpuPromise, SameSnapshot, Trash
<1>6. ToldAt'
  BY <1>1, QuietFacts DEF WInv, Typed, ControlAt, ToldAt, Quiesce, Call, Trash
<1>. QED BY <1>3, <1>4, <1>5, <1>6 DEF WInv

LEMMA RepauseStep ==
    ASSUME WInv, Repause PROVE WInv'
<1>1. PICK r \in Runtime("pause", u) :
          /\ u' = r.u
          /\ r.ok => st' = "Paused" /\ Go("destroy") /\ Keep(<<net, row, status>>)
          /\ ~r.ok => Go("destroy") /\ Keep(<<st, net, row, status>>)
  BY DEF Repause, Call
<1>2. VcpuPromise(u, r) /\ Sound(r.u) /\ (r.ok => r.u.vm = "paused")
  BY <1>1, RuntimeVcpuFacts DEF WInv, Typed, Kinds, ControlAt, MicroVmAt, Repause, Call
<1>3. Typed'
  BY <1>1, <1>2 DEF WInv, Typed, Repause, Call, VcpuPromise, SameSnapshot
<1>4. ControlAt'
  BY <1>1, <1>2 DEF WInv, Typed, ControlAt, Repause, Call, VcpuPromise, SameSnapshot
<1>5. MicroVmAt' /\ RowAt'
  BY <1>1, <1>2 DEF WInv, Typed, ControlAt, MicroVmAt, RowAt, Sound, Repause, Call, VcpuPromise, SameSnapshot
<1>6. ToldAt'
  BY <1>1, QuietFacts DEF WInv, Typed, ControlAt, ToldAt, Repause, Call
<1>. QED BY <1>3, <1>4, <1>5, <1>6 DEF WInv

LEMMA UnloadStep ==
    ASSUME WInv, Unload PROVE WInv'
<1>1. PICK r \in Runtime("shutdown", u) :
          /\ u' = r.u
          /\ r.ok => st' = "Snapshot" /\ Go("reap") /\ Keep(<<net, row, status>>)
          /\ ~r.ok => Trash
  BY DEF Unload, Call, Trash
<1>2. ShutdownPromise(u, r)
  BY <1>1, RuntimeShutdownFacts DEF WInv, Typed, Kinds, ControlAt, MicroVmAt, Unload, Call
<1>3. Typed'
  BY <1>1, <1>2 DEF WInv, Typed, Unload, Call, ShutdownPromise, SameSnapshot, Trash
<1>4. ControlAt'
  BY <1>1, <1>2 DEF WInv, Typed, ControlAt, Unload, Call, ShutdownPromise, SameSnapshot, Trash
<1>5. MicroVmAt' /\ RowAt'
  BY <1>1, <1>2 DEF WInv, Typed, ControlAt, MicroVmAt, RowAt, Sound, Unload, Call, ShutdownPromise, SameSnapshot, Trash
<1>6. ToldAt'
  BY <1>1, QuietFacts DEF WInv, Typed, ControlAt, ToldAt, Unload, Call, Trash
<1>. QED BY <1>3, <1>4, <1>5, <1>6 DEF WInv

LEMMA destroy_sandboxStep ==
    ASSUME WInv, destroy_sandbox PROVE WInv'
<1>1. PICK r \in Runtime("destroy", u) :
          /\ u' = r.u
          /\ r.ok => st' = "Nonexistent" /\ Go(IF u.snap THEN "removal" ELSE "dealloc") /\ Keep(<<net, row, status>>)
          /\ ~r.ok => Trash
  BY DEF destroy_sandbox, Call, Trash
<1>2. DestroyPromise(r)
  BY <1>1, RuntimeDestroyFacts DEF WInv, Typed, Kinds, ControlAt, MicroVmAt, destroy_sandbox, Call
<1>3. Typed'
  BY <1>1, <1>2 DEF WInv, Typed, destroy_sandbox, Call, DestroyPromise, Trash
<1>4. ControlAt'
  BY <1>1, <1>2 DEF WInv, Typed, ControlAt, destroy_sandbox, Call, DestroyPromise, Trash
<1>5. MicroVmAt' /\ RowAt'
  BY <1>1, <1>2 DEF WInv, Typed, ControlAt, MicroVmAt, RowAt, Sound, destroy_sandbox, Call, DestroyPromise, Trash
<1>6. ToldAt'
  BY <1>1, QuietFacts DEF WInv, Typed, ControlAt, ToldAt, destroy_sandbox, Call, Trash
<1>. QED BY <1>3, <1>4, <1>5, <1>6 DEF WInv

LEMMA snapman_notify_removalStep ==
    ASSUME WInv, snapman_notify_removal PROVE WInv'
<1>1. Typed'
  BY DEF WInv, Typed, ControlAt, snapman_notify_removal
<1>2. ControlAt'
  BY DEF WInv, Typed, ControlAt, snapman_notify_removal
<1>3. MicroVmAt' /\ RowAt'
  BY DEF WInv, Typed, ControlAt, MicroVmAt, RowAt, Sound, snapman_notify_removal
<1>4. ToldAt'
  BY QuietFacts DEF WInv, Typed, ControlAt, ToldAt, snapman_notify_removal
<1>. QED BY <1>1, <1>2, <1>3, <1>4 DEF WInv

LEMMA DeallocateStep ==
    ASSUME WInv, Deallocate PROVE WInv'
<1>1. Typed'
  BY DEF WInv, Typed, ControlAt, Deallocate
<1>2. ControlAt'
  BY DEF WInv, Typed, ControlAt, Deallocate
<1>3. MicroVmAt' /\ RowAt'
  BY DEF WInv, Typed, ControlAt, MicroVmAt, RowAt, Sound, Deallocate
<1>4. ToldAt'
  BY QuietFacts DEF WInv, Typed, ControlAt, ToldAt, Deallocate
<1>. QED BY <1>1, <1>2, <1>3, <1>4 DEF WInv

LEMMA SendNeedWorkStep ==
    ASSUME WInv, SendNeedWork PROVE WInv'
<1>1. Typed' /\ ToldAt'
  <2>1. /\ pc = "needwork" /\ pc' = "loop" /\ out' = Append(out, "NeedWork") /\ (job' = NoJob \/ job' = job)
        /\ UNCHANGED <<envVars, boxVars, err, status, exit, reqVars, poolVars>>
    BY DEF SendNeedWork, Reply, Send
  <2>2. known \/ st # "Nonexistent"
    BY <2>1 DEF WInv, ControlAt, ToldAt
  <2>. QED BY <2>1, <2>2, ReplyFacts
<1>2. ControlAt'
  BY DEF WInv, Typed, ControlAt, SendNeedWork, Reply, NoJob
<1>3. MicroVmAt' /\ RowAt'
  BY DEF WInv, Typed, ControlAt, MicroVmAt, RowAt, Sound, SendNeedWork, Reply, NoJob
<1>. QED BY <1>1, <1>2, <1>3 DEF WInv

LEMMA SendPreparedStep ==
    ASSUME WInv, SendPrepared PROVE WInv'
<1>1. Typed' /\ ToldAt'
  <2>1. /\ pc = "prepreply" /\ pc' = "loop" /\ out' = Append(out, "Prepared") /\ (job' = NoJob \/ job' = job)
        /\ UNCHANGED <<envVars, boxVars, err, status, exit, reqVars, poolVars>>
    BY DEF SendPrepared, Reply, Send
  <2>2. known \/ st # "Nonexistent"
    BY <2>1 DEF WInv, ControlAt, ToldAt
  <2>. QED BY <2>1, <2>2, ReplyFacts
<1>2. ControlAt'
  BY DEF WInv, Typed, ControlAt, SendPrepared, Reply, NoJob
<1>3. MicroVmAt' /\ RowAt'
  BY DEF WInv, Typed, ControlAt, MicroVmAt, RowAt, Sound, SendPrepared, Reply, NoJob
<1>. QED BY <1>1, <1>2, <1>3 DEF WInv

LEMMA SendPrepFailedStep ==
    ASSUME WInv, SendPrepFailed PROVE WInv'
<1>1. Typed' /\ ToldAt'
  <2>1. /\ pc = "prepfailed" /\ pc' = "failure" /\ out' = Append(out, "PrepFailed") /\ (job' = NoJob \/ job' = job)
        /\ UNCHANGED <<envVars, boxVars, err, status, exit, reqVars, poolVars>>
    BY DEF SendPrepFailed, Reply, Send
  <2>. QED BY <2>1, ReplyFacts
<1>2. ControlAt'
  BY DEF WInv, Typed, ControlAt, SendPrepFailed, Reply, NoJob
<1>3. MicroVmAt' /\ RowAt'
  BY DEF WInv, Typed, ControlAt, MicroVmAt, RowAt, Sound, SendPrepFailed, Reply, NoJob
<1>. QED BY <1>1, <1>2, <1>3 DEF WInv

LEMMA SendSnapshottedStep ==
    ASSUME WInv, SendSnapshotted PROVE WInv'
<1>1. Typed' /\ ToldAt'
  <2>1. /\ pc = "snapreply" /\ pc' = "loop" /\ out' = Append(out, "Snapshotted") /\ (job' = NoJob \/ job' = job)
        /\ UNCHANGED <<envVars, boxVars, err, status, exit, reqVars, poolVars>>
    BY DEF SendSnapshotted, Reply, Send
  <2>2. known \/ st # "Nonexistent"
    BY <2>1 DEF WInv, ControlAt, ToldAt
  <2>. QED BY <2>1, <2>2, ReplyFacts
<1>2. ControlAt'
  BY DEF WInv, Typed, ControlAt, SendSnapshotted, Reply, NoJob
<1>3. MicroVmAt' /\ RowAt'
  BY DEF WInv, Typed, ControlAt, MicroVmAt, RowAt, Sound, SendSnapshotted, Reply, NoJob
<1>. QED BY <1>1, <1>2, <1>3 DEF WInv

LEMMA SendReapMeStep ==
    ASSUME WInv, SendReapMe PROVE WInv'
<1>1. Typed' /\ ToldAt'
  <2>1. /\ pc = "reap" /\ pc' = "exiting" /\ out' = Append(out, "ReapMe") /\ (job' = NoJob \/ job' = job)
        /\ UNCHANGED <<envVars, boxVars, err, status, exit, reqVars, poolVars>>
    BY DEF SendReapMe, Reply, Send
  <2>. QED BY <2>1, ReplyFacts
<1>2. ControlAt'
  BY DEF WInv, Typed, ControlAt, SendReapMe, Reply, NoJob, Send
<1>3. MicroVmAt' /\ RowAt'
  BY DEF WInv, Typed, ControlAt, MicroVmAt, RowAt, Sound, SendReapMe, Reply, NoJob
<1>. QED BY <1>1, <1>2, <1>3 DEF WInv

\* A failure to pin the new Sandbox to its CPUs drops it with its VMM.
LEMMA PinStep ==
    ASSUME WInv, Pin PROVE WInv'
<1>1. PICK r \in Runtime("cpuset", u) :
          \/ r.ok /\ u' = r.u /\ net' = net /\ Go("sendid")
          \/ ~r.ok /\ u' = [r.u EXCEPT !.stray = Alive(r.u)] /\ net' = "lost" /\ PrepareFails
  BY DEF Pin
<1>2. r.u = u /\ (~r.ok => rt = "any")
  BY <1>1, RuntimeCpusetFacts DEF WInv, Typed, Kinds
<1>3. u \in MicroVmType /\ Alive(u) \in BOOLEAN
  BY DEF WInv, Typed
<1>4. /\ u' \in MicroVmType /\ SameSnapshot(u, u') /\ u'.vm = u.vm
      /\ r.ok => u' = u
      /\ ~r.ok /\ Alive(u) => u'.stray
  <2>. DEFINE b == Alive(u)
              w == [u EXCEPT !.stray = b]
  <2>1. b \in BOOLEAN
    BY <1>3
  <2>2. Alive(u) => b
    OBVIOUS
  <2>3. u' = IF r.ok THEN u ELSE w
    BY <1>1, <1>2
  <2>. HIDE DEF b
  <2>4. w \in MicroVmType /\ SameSnapshot(u, w) /\ w.vm = u.vm /\ w.stray = b
    BY <1>3, <2>1 DEF MicroVmType, VmState, Files, SameSnapshot
  <2>. HIDE DEF w
  <2>. QED BY <1>3, <2>2, <2>3, <2>4 DEF SameSnapshot
<1>5. Typed'
  BY <1>1, <1>4 DEF WInv, Typed, Pin, PrepareFails
<1>6. ControlAt'
  BY <1>1 DEF WInv, Typed, ControlAt, Pin, PrepareFails
<1>7. MicroVmAt' /\ RowAt'
  BY <1>1, <1>2, <1>4 DEF WInv, Typed, ControlAt, MicroVmAt, RowAt, Sound, SameSnapshot, Pin, PrepareFails
<1>8. ToldAt'
  BY <1>1, QuietFacts DEF WInv, ControlAt, ToldAt, Pin, PrepareFails
<1>. QED BY <1>5, <1>6, <1>7, <1>8 DEF WInv

LEMMA SendSandboxIdStep ==
    ASSUME WInv, SendSandboxId PROVE WInv'
<1>1. out \in Seq(PoolMessage) /\ out' = Append(out, "SandboxId")
  BY DEF WInv, Typed, SendSandboxId, Send
<1>2. out' \in Seq(PoolMessage)
  BY <1>1
<1>3. Typed'
  BY <1>2 DEF WInv, Typed, SendSandboxId
<1>4. ControlAt'
  BY DEF WInv, Typed, ControlAt, SendSandboxId, AfterPrepare
<1>5. MicroVmAt' /\ RowAt'
  BY DEF WInv, Typed, ControlAt, MicroVmAt, RowAt, Sound, SendSandboxId, AfterPrepare
<1>6. pc = "sendid" /\ st' = "Running" /\ job' = job /\ UNCHANGED <<view, known, ctrl>>
  BY DEF SendSandboxId
<1>7. ToldAt'
  BY <1>1, <1>6, SendFacts DEF WInv, ToldAt
<1>. QED BY <1>3, <1>4, <1>5, <1>7 DEF WInv

LEMMA ReturnStep ==
    ASSUME WInv, Return PROVE WInv'
<1>1. u' = u
  <2>1. CASE status = "Ok" /\ ~(st = "Nonexistent" \/ (st = "Snapshot" /\ u.snap))
    BY <2>1 DEF Return
  <2>2. CASE ~(status = "Ok" /\ ~(st = "Nonexistent" \/ (st = "Snapshot" /\ u.snap)))
    <3>1. PICK r \in IF status = "Ok" /\ st = "Snapshot" THEN Runtime("uncache", u) ELSE {Ok(u)} : u' = r.u
      BY <2>2 DEF Return
    <3>2. CASE r \in Runtime("uncache", u)
      BY <3>1, <3>2, RuntimeUncacheFacts DEF WInv, Typed, Kinds
    <3>3. CASE r = Ok(u)
      BY <3>1, <3>3
    <3>. QED BY <3>1, <3>2, <3>3
  <2>. QED BY <2>1, <2>2
<1>2. Typed'
  BY <1>1 DEF WInv, Typed, Return
<1>3. pc = "exiting" /\ pc' = "exited" /\ exit' = ExitOf(st)
  BY DEF WInv, ControlAt, MicroVmAt, Return
<1>4. ControlAt'
  BY <1>1, <1>3 DEF WInv, Typed, ControlAt, Return, ExitOf
<1>5. MicroVmAt' /\ RowAt'
  BY <1>1, <1>3 DEF WInv, Typed, ControlAt, MicroVmAt, RowAt, Sound, Return
<1>6. ToldAt'
  BY <1>3, QuietFacts DEF WInv, ToldAt, Return
<1>. QED BY <1>2, <1>4, <1>5, <1>6 DEF WInv

-----------------------------------------------------------------------------
(***************************************************************************)
(* The steps of the Pool and of the VMM.                                   *)
(***************************************************************************)

\* What the Pool does, the Worker and its microVM do not see, but for the end of the Pool.
LEMMA PoolQuiet ==
    ASSUME WInv, UNCHANGED <<envVars, boxVars, jobVars, reqVars>>, view = "gone" => view' = "gone"
    PROVE  ControlAt' /\ MicroVmAt' /\ RowAt'
  BY DEF WInv, ControlAt, MicroVmAt, RowAt, Sound

LEMMA PoolInvokesStep ==
    ASSUME WInv, PoolInvokes PROVE WInv'
<1>1. ControlAt' /\ MicroVmAt' /\ RowAt'
  BY PoolQuiet DEF PoolInvokes
<1>2. Typed' /\ ToldAt'
  BY DEF WInv, Typed, ToldAt, PoolInvokes
<1>. QED BY <1>1, <1>2 DEF WInv

\* A message to the Worker is queued.
LEMMA TellFacts ==
    ASSUME WInv, NEW m \in ControlMessage, Tell(m), UNCHANGED <<envVars, boxVars, jobVars, reqVars, known, out>>,
           m = "CreateSnapshot" => known, view' # "idle"
    PROVE  Typed' /\ ToldAt'
<1>1. ctrl \in Seq(ControlMessage) /\ ctrl' = Append(ctrl, m)
  BY DEF WInv, Typed, Tell
<1>2. ctrl' \in Seq(ControlMessage) /\ \A i \in 1..Len(ctrl') : ctrl'[i] = m \/ (i \in 1..Len(ctrl) /\ ctrl'[i] = ctrl[i])
  BY <1>1
<1>3. Typed'
  BY <1>2 DEF WInv, Typed
<1>4. ToldAt'
  BY <1>2 DEF WInv, ToldAt
<1>. QED BY <1>3, <1>4

LEMMA PoolTellsStep ==
    ASSUME WInv, PoolPrepares \/ PoolSnapshots \/ PoolEnds("ShutDown") \/ PoolEnds("DestroySandbox") PROVE WInv'
<1>1. ControlAt' /\ MicroVmAt' /\ RowAt'
  BY PoolQuiet DEF PoolPrepares, PoolSnapshots, PoolEnds
<1>2. Typed' /\ ToldAt'
  BY TellFacts DEF PoolPrepares, PoolSnapshots, PoolEnds
<1>. QED BY <1>1, <1>2 DEF WInv

LEMMA PoolReceivesStep ==
    ASSUME WInv, PoolReceives PROVE WInv'
<1>1. /\ out \in Seq(PoolMessage) /\ out # <<>> /\ out' = Tail(out)
      /\ known' = (known \/ Head(out) = "SandboxId")
      /\ UNCHANGED <<envVars, boxVars, jobVars, reqVars, inv, ctrl, left>>
  BY DEF WInv, Typed, PoolReceives
<1>2. /\ Head(out) = out[1] /\ 1 \in 1..Len(out) /\ Len(out') = Len(out) - 1 /\ Len(out) \in Nat
      /\ \A i \in 1..Len(out') : out'[i] = out[i+1] /\ i+1 \in 1..Len(out)
      /\ out' \in Seq(PoolMessage)
  BY <1>1
<1>3. Head(out) \in {"NeedWork", "Prepared", "Snapshotted"} => known
  BY <1>2 DEF WInv, ToldAt
<1>4. Head(out) = "ReapMe" => pc \in {"exiting", "exited", "panicked"}
  BY <1>2 DEF WInv, ToldAt
<1>5. Typed'
  BY <1>1, <1>2 DEF WInv, Typed
<1>6. /\ view' = "idle" => known \/ view = "idle"
      /\ view = "gone" => view' = "gone" \/ pc \in {"exiting", "exited", "panicked"}
  BY <1>3, <1>4 DEF PoolReceives
<1>7. ControlAt' /\ MicroVmAt' /\ RowAt'
  BY <1>1, <1>6 DEF WInv, ControlAt, MicroVmAt, RowAt, Sound
<1>8. ASSUME NEW i \in 1..Len(out')
      PROVE  /\ out'[i] \in {"NeedWork", "Prepared", "Snapshotted"} =>
                    known' \/ \E j \in 1..(i-1) : out'[j] = "SandboxId"
             /\ out'[i] = "ReapMe" => i = Len(out') /\ pc' \in {"exiting", "exited", "panicked"}
  <2>1. ASSUME out'[i] = "ReapMe" PROVE i = Len(out') /\ pc' \in {"exiting", "exited", "panicked"}
    <3>1. out[i+1] = "ReapMe" /\ i+1 \in 1..Len(out)
      BY <1>2, <2>1
    <3>2. i+1 = Len(out) /\ pc \in {"exiting", "exited", "panicked"}
      BY <3>1 DEF WInv, ToldAt
    <3>3. pc' = pc
      BY <1>1
    <3>4. Len(out') = Len(out) - 1 /\ Len(out) \in Nat
      BY <1>2
    <3>5. i = Len(out')
      BY <3>2, <3>4
    <3>. QED BY <3>2, <3>3, <3>5
  <2>2. ASSUME out'[i] \in {"NeedWork", "Prepared", "Snapshotted"}, ~known'
        PROVE  \E j \in 1..(i-1) : out'[j] = "SandboxId"
    <3>1. ~known /\ out[1] # "SandboxId" /\ out'[i] = out[i+1]
      BY <1>1, <1>2, <2>2
    <3>2. PICK j \in 1..((i+1)-1) : out[j] = "SandboxId"
      BY <1>2, <2>2, <3>1 DEF WInv, ToldAt
    <3>3. j # 1 /\ j-1 \in 1..(i-1) /\ j-1 \in 1..Len(out')
      BY <1>2, <3>1, <3>2
    <3>4. out'[j-1] = out[(j-1)+1] /\ (j-1)+1 = j
      BY <1>2, <3>3
    <3>. QED BY <3>2, <3>3, <3>4
  <2>. QED BY <2>1, <2>2
<1>9. st' # "Nonexistent" => known' \/ \E i \in 1..Len(out') : out'[i] = "SandboxId"
  <2>1. SUFFICES ASSUME st # "Nonexistent", ~known' PROVE \E i \in 1..Len(out') : out'[i] = "SandboxId"
    BY <1>1
  <2>2. ~known /\ out[1] # "SandboxId"
    BY <1>1, <1>2, <2>1
  <2>3. PICK j \in 1..Len(out) : out[j] = "SandboxId"
    BY <2>1, <2>2 DEF WInv, ToldAt
  <2>4. j-1 \in 1..Len(out') /\ (j-1)+1 = j
    BY <1>2, <2>2, <2>3
  <2>. QED BY <1>2, <2>3, <2>4
<1>10. ToldAt'
  BY <1>1, <1>6, <1>8, <1>9 DEF WInv, ToldAt
<1>. QED BY <1>5, <1>7, <1>10 DEF WInv

LEMMA PoolDiesStep ==
    ASSUME WInv, PoolDies PROVE WInv'
<1>1. ControlAt' /\ MicroVmAt' /\ RowAt'
  BY PoolQuiet DEF PoolDies
<1>2. Typed' /\ ToldAt'
  BY DEF WInv, Typed, ToldAt, PoolDies
<1>. QED BY <1>1, <1>2 DEF WInv

LEMMA VmDiesStep ==
    ASSUME WInv, VmDies PROVE WInv'
<1>1. u \in MicroVmType /\ Alive(u)
  BY DEF WInv, Typed, VmDies
<1>2. /\ u' \in MicroVmType /\ u'.vm = "dead" /\ u'.snap = u.snap /\ u'.files = u.files
      /\ u'.held = u.held /\ u'.stray = u.stray
  BY <1>1 DEF VmDies, MicroVmType, VmState, Files
<1>3. Typed'
  BY <1>2 DEF WInv, Typed, VmDies
<1>4. ControlAt'
  BY DEF WInv, ControlAt, VmDies
<1>5. MicroVmAt' /\ RowAt'
  BY <1>1, <1>2 DEF WInv, Typed, ControlAt, MicroVmAt, RowAt, Sound, VmDies
<1>6. ToldAt'
  BY DEF WInv, ToldAt, VmDies
<1>. QED BY <1>3, <1>4, <1>5, <1>6 DEF WInv

LEMMA StutterStep ==
    ASSUME WInv, UNCHANGED vars PROVE WInv'
  BY DEF WInv, Typed, ControlAt, MicroVmAt, RowAt, ToldAt, Sound, vars

-----------------------------------------------------------------------------
LEMMA InitWInv == Init => WInv
<1>. SUFFICES ASSUME Init PROVE WInv
  OBVIOUS
<1>1. rt \in Kinds
  BY WorkerAssumption DEF Init, Kinds
<1>2. /\ Snapshotted \in MicroVmType /\ Snapshotted.snap /\ Snapshotted.files = "full"
      /\ Snapshotted.vm = "none" /\ ~Snapshotted.stray
  BY <1>1 DEF Snapshotted, FcSnapshotted, FcctrdSnapshotted, AnySnapshotted, NoVm, Kinds,
     MicroVmType, VmState, Files
<1>3. Typed
  BY <1>1, <1>2, NoVmFacts DEF Init, Typed, NoJob, Kinds
<1>4. ControlAt
  BY DEF Init, ControlAt, NoJob
<1>5. MicroVmAt /\ RowAt
  BY <1>1, <1>2, NoVmFacts DEF Init, MicroVmAt, RowAt, Sound, NoJob, Kinds
<1>6. /\ Len(out) = 0 /\ Len(ctrl) = 0 /\ job.kind = "none" /\ view = "fresh"
      /\ st # "Nonexistent" => known
  <2>1. Len(out) = 0 /\ Len(ctrl) = 0 /\ job.kind = "none" /\ view = "fresh"
    BY DEF Init, NoJob
  <2>2. st \in {"Nonexistent", "Snapshot"} /\ known = (st = "Snapshot")
    BY DEF Init
  <2>3. st # "Nonexistent" => known
    BY <2>2
  <2>. QED BY <2>1, <2>3
<1>7. ToldAt
  BY <1>6 DEF ToldAt
<1>. QED BY <1>3, <1>4, <1>5, <1>7 DEF WInv

LEMMA NextWInv == WInv /\ [Next]_vars => WInv'
<1>. SUFFICES ASSUME WInv, [Next]_vars PROVE WInv'
  OBVIOUS
<1>1. CASE WorkerStep
  BY <1>1, RuntimeInitStep, TakeInvocationStep, ShutDownStep, DestroySandboxStep,
     handle_prepare_sandbox_requestStep, handle_snapshot_requestStep, ChannelClosedStep, AllocateStep,
     CreateStep, PinStep, SendSandboxIdStep, LoadStep, LoadPinStep, ResumeStep, ResumePinStep,
     PauseBeforeInvocStep, ResumeAfterSnapshotStep, issue_requestStep, forward_responseStep,
     PauseAfterInvocStep, ReleaseSlotStep, SendNeedWorkStep, QueryPathsStep, rt_create_snapshotStep,
     snapman_notify_creationStep, PausePreparedStep, SendPreparedStep, SendPrepFailedStep,
     SendSnapshottedStep, try_handle_failureStep, QuiesceStep, RepauseStep, UnloadStep,
     destroy_sandboxStep, snapman_notify_removalStep, DeallocateStep, SendReapMeStep, ReturnStep
     DEF WorkerStep
<1>2. CASE PoolStep
  BY <1>2, PoolInvokesStep, PoolTellsStep, PoolReceivesStep, PoolDiesStep DEF PoolStep
<1>3. CASE VmDies
  BY <1>3, VmDiesStep
<1>4. CASE SendRetries \/ Ended \/ UNCHANGED vars
  BY <1>4, StutterStep DEF SendRetries, Ended
<1>. QED BY <1>1, <1>2, <1>3, <1>4 DEF Next

LEMMA WorkerInvariance == Spec => []WInv
  BY InitWInv, NextWInv, PTL DEF Spec

-----------------------------------------------------------------------------
(***************************************************************************)
(* What the invariant gives.                                               *)
(***************************************************************************)

\* A Sandbox that a Worker hands back as Reusable can be loaded by the next one: its snapshot
\* is complete, its network resource is with it, and only a VMM that rt-fcctrd lost sight of
\* may still run.
THEOREM ReusableLoads == Spec => []ReusableIsIntact
<1>1. WInv => ReusableIsIntact
  BY DEF WInv, ControlAt, MicroVmAt, Sound, ReusableIsIntact, ExitOf
<1>. QED BY <1>1, WorkerInvariance, PTL

\* A Worker that returns no Sandbox leaves nothing behind: no process of rt-fc, no VMM that is
\* not counted as stray, and the network resource is back unless a step failed.
THEOREM WorkerCleansUp == Spec => []NothingLeftBehind
<1>1. WInv => NothingLeftBehind
  BY DEF WInv, Typed, ControlAt, MicroVmAt, Sound, NothingLeftBehind, ExitOf
<1>. QED BY <1>1, WorkerInvariance, PTL

\* Back in the event loop, the SandboxState the Worker acts on next is that of the microVM.
THEOREM LoopActsOnWhatIs == Spec => []LoopStateIsReal
<1>1. WInv => LoopStateIsReal
  BY DEF WInv, Typed, ControlAt, MicroVmAt, ToldAt, Sound, LoopStateIsReal
<1>. QED BY <1>1, WorkerInvariance, PTL

\* The messages of retry_send_to_pool reach the Pool in the order it relies on: the SandboxId
\* first, ReapMe last, NeedWork after one response and with the RunningSlot released.
THEOREM PoolHearsInOrder == Spec => []PoolProtocol
<1>1. WInv => PoolProtocol
  <2>. SUFFICES ASSUME WInv PROVE PoolProtocol
    OBVIOUS
  <2>1. DOMAIN out = 1..Len(out)
    BY DEF WInv, Typed
  <2>2. pc = "needwork" => resp = 1 /\ ~slot /\ st = "Paused"
    BY DEF WInv, ControlAt
  <2>. QED BY <2>1, <2>2 DEF WInv, ToldAt, PoolProtocol
<1>. QED BY <1>1, WorkerInvariance, PTL

\* The snapshot metadata agrees with the Sandbox that the Worker returns, unless one of its
\* notifications was lost.
THEOREM MetadataFollowsSandbox == Spec => []RowIsTrue
<1>1. WInv => RowIsTrue
  BY DEF WInv, Typed, ControlAt, MicroVmAt, RowAt, RowIsTrue, ExitOf
<1>. QED BY <1>1, WorkerInvariance, PTL

\* Of the unreachable!() arms of the Worker, a failed resume after the first snapshot reaches
\* one, and nothing reaches another.
THEOREM OnePanicIsReachable == Spec => []PanicsOnlyOnResume
<1>1. WInv => PanicsOnlyOnResume
  BY DEF WInv, ControlAt, PanicsOnlyOnResume
<1>. QED BY <1>1, WorkerInvariance, PTL
=============================================================================
