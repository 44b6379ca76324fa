------------------------------ MODULE Network ------------------------------
(***************************************************************************)
(* Sandbox networking (crates/snaplace/src/network): the NetworkManager    *)
(* actor, its two TAP providers on top of the subnet pool, the TAP devices *)
(* of the kernel, the Workers that build, use and return them, and the     *)
(* snapshots whose devices a new process asks for by name.                 *)
(*                                                                         *)
(* A TAP device is named after the guest's address, so the subnet, 0 ..    *)
(* N-1, stands for the device too.  The process may crash and be started   *)
(* again; devices and the rows of snapshots survive it.                    *)
(***************************************************************************)
EXTENDS Integers, Sequences, FiniteSets, SequencesExt, FiniteSetsExt

CONSTANTS
    N,          \* how many subnets the configured network has
    Capacity,   \* PoolTapsConfig.capacity
    Workers,    \* the Workers that may run at a time
    Providers,  \* which providers to consider: "plain", "pool"
    MaxLives,   \* bound: how often the process is started
    NoOne       \* no caller, no subnet

Subnet == 0 .. N-1

\* The net that PlainTapDevices::dealloc makes of the guest's address: x.1/31
\* is not equal to x.0/31, but its hosts are the same two addresses.
Host(s) == -(s + 1)
NetOf(n) == IF n < 0 THEN -(n + 1) ELSE n

ASSUME NetworkAssumption ==
    /\ N \in Nat \ {0} /\ Capacity \in Nat /\ MaxLives \in Nat
    /\ NoOne \notin Workers /\ NoOne \notin Int
    /\ Providers \subseteq {"plain", "pool"}

VARIABLES
    provider,                       \* which provider this node runs
    next, taken, free_q, free_set,  \* its FifoExactIpv4SubnetPool
    free,                           \* PoolTapDevices.free, front first
    link,                           \* the kernel: subnet -> its TAP device
    man,                            \* where the NetworkManager is
    job,                            \* the Tap it is building or undoing
    q,                              \* its channel
    boot,                           \* what a new process still has to do
    worker,                         \* each Worker: where it is, and its Tap
    snaps,                          \* devices of the Pool's idle snapshots
    rows, leaving,                  \* the snapshot rows; removals on their way
    lost,                           \* history: subnets that a failure cost
    lives                           \* how many processes were started

pool_vars == <<next, taken, free_q, free_set>>
vars == <<provider, next, taken, free_q, free_set, free, link, man, job, q,
          boot, worker, snaps, rows, leaving, lost, lives>>

Nets == (-N) .. (N - 1)

Pool == INSTANCE SubnetPool WITH
    NoSubnet <- NoOne, Careful <- FALSE, MaxQueue <- 0,
    held <- [n \in Nets |-> 0]

\* What a caller or a message has: nothing, a TapBuilder or a TapDevice.
Tap(s, kind) == [s |-> s, kind |-> kind]
NoTap == Tap(NoOne, "none")
TapType == [s : Subnet, kind : {"builder", "device"}] \cup {NoTap}

Idle == [pc |-> "idle", tap |-> NoTap]
NotBooting == [pre |-> {}, half |-> {}, failed |-> FALSE, todo |-> {},
               asked |-> FALSE]

\* A message: Allocate of a Worker, Request of a subnet, Deallocate of a Tap.
Msg(m, c, tap) == [m |-> m, c |-> c, tap |-> tap]
Message ==
    [m : {"Allocate"}, c : Workers, tap : {NoTap}]
    \cup [m : {"Request", "Deallocate"}, c : {NoOne},
          tap : [s : Subnet, kind : {"device"}]]

Serving == man \in {"run", "build", "undo", "quit"}
Reinstated == boot.todo = {} /\ ~boot.asked

-----------------------------------------------------------------------------
(***************************************************************************)
(* The devices.  "partial": made by this process, but not yet addressed,   *)
(* grouped and UP.  "torn": left so by an earlier process.  "alien": up,   *)
(* and a VM that outlived its process still uses it.                       *)
(***************************************************************************)

\* ioctl(TUNSETIFF) with IFF_TUN_EXCL: EBUSY when a device of the name exists.
create_tap_device(s, res) ==
    \/ /\ link[s] = "absent" /\ res = "created"
       /\ link' = [link EXCEPT ![s] = "partial"]
    \/ /\ link[s] # "absent" /\ res = "busy" /\ UNCHANGED link
    \/ /\ res = "failed" /\ UNCHANGED link

IoctlResult == {"created", "busy", "failed"}

\* new_tap after the ioctl: look-up by name, MAC address, address, group, UP, each a
\* request to rtnetlink.
ConfigureSteps == {"by_name", "mac_addr", "ip_addr_add", "set_link_group", "set_link_up"}

\* A deletion is tried once.
delete_tap(s) == {[link EXCEPT ![s] = l] : l \in {"absent", "partial"}}

\* A step that fails has delete_tap called and its error returned; without the index
\* that the look-up returns there is nothing to delete by.
configure(s, ok) ==
    \/ ok /\ link' = [link EXCEPT ![s] = "up"]
    \/ /\ ~ok
       /\ \E step \in ConfigureSteps :
              link' \in IF step = "by_name" THEN {link} ELSE delete_tap(s)

\* Mutant: build takes a device that is already there.
BuildAdopts(res) == res = "busy"

\* Does TapBuilder::build succeed although the ioctl made no device?
build(res) == FALSE

\* TapBuilder::build_or_adopt takes a device that exists as it finds it,
\* unless it cannot look it up.
build_or_adopt(res) == {FALSE, res = "busy"}

-----------------------------------------------------------------------------
(***************************************************************************)
(* The providers                                                           *)
(***************************************************************************)

\* A builder for the next subnet, if there is one.
AllocBuilder(tap) ==
    \E n \in Nets \cup {NoOne} :
        /\ Pool!get_next(n)
        /\ tap = IF n = NoOne THEN NoTap ELSE Tap(NetOf(n), "builder")

\* alloc(): the last ready device, which only PoolTapDevices has, else a builder.
alloc(tap) ==
    \/ /\ free # <<>>
       /\ tap = Tap(Last(free), "device")
       /\ free' = Front(free)
       /\ UNCHANGED pool_vars
    \/ /\ free = <<>>
       /\ AllocBuilder(tap)
       /\ UNCHANGED free

\* Mutant: PoolTapDevices gives the subnet back as well.
DeallocGivesBack(tap) ==
    \/ /\ provider = "plain"
       /\ link' = IF tap.kind = "builder" THEN link
                  ELSE [link EXCEPT ![tap.s] = "absent"]
       /\ Pool!give_back(Host(tap.s))
       /\ UNCHANGED <<free, lost>>
    \/ /\ provider = "pool" /\ tap.kind = "device"
       /\ free' = <<tap.s>> \o free
       /\ Pool!give_back(tap.s)
       /\ UNCHANGED <<link, lost>>

\* dealloc(): PlainTapDevices gives the subnet back once the device is gone,
\* and keeps it when the device cannot be deleted; PoolTapDevices puts the
\* device at the front of its list, and has no way to take a builder.
dealloc(tap) ==
    \/ /\ provider = "plain"
       /\ link' = IF tap.kind = "builder" THEN link
                  ELSE [link EXCEPT ![tap.s] = "absent"]
       /\ Pool!give_back(Host(tap.s))
       /\ UNCHANGED <<free, lost>>
    \/ /\ provider = "plain" /\ tap.kind = "device"
       /\ lost' = lost \cup {tap.s}
       /\ UNCHANGED <<next, taken, free_q, free_set, free, link>>
    \/ /\ provider = "pool" /\ tap.kind = "device"
       /\ free' = <<tap.s>> \o free
       /\ UNCHANGED <<next, taken, free_q, free_set, link, lost>>

-----------------------------------------------------------------------------
(***************************************************************************)
(* A process starts: PoolTapDevices::new builds or adopts its devices, all *)
(* at a time; then SandboxPool::spawn asks for the device of every row.    *)
(***************************************************************************)

new ==
    /\ man = "down" /\ lives < MaxLives
    /\ lives' = lives + 1
    /\ man' = "boot"
    /\ next' = IF provider = "pool" THEN Min({N, Capacity}) ELSE 0
    /\ boot' = [NotBooting EXCEPT !.pre = 0 .. next' - 1, !.todo = rows]
    /\ UNCHANGED <<provider, taken, free_q, free_set, free, link, job, q,
                   worker, snaps, rows, leaving, lost>>

BootStep ==
    /\ man = "boot"
    /\ UNCHANGED <<provider, next, taken, free_q, free_set, man, job, q, worker,
                   snaps, rows, leaving, lost, lives>>

\* One of the tasks of PoolTapDevices::new makes its device, or adopts it.
PreBuild(s) ==
    /\ BootStep
    /\ s \in boot.pre
    /\ \E res \in IoctlResult, ok \in BOOLEAN :
        /\ create_tap_device(s, res)
        /\ ok \in build_or_adopt(res)
        /\ boot' = [boot EXCEPT !.pre = @ \ {s},
                       !.half = IF res = "created" THEN @ \cup {s} ELSE @,
                       !.failed = @ \/ ~(ok \/ res = "created")]
        /\ free' = IF ok THEN Append(free, s) ELSE free

PreBuilt(s) ==
    /\ BootStep
    /\ s \in boot.half
    /\ \E ok \in BOOLEAN :
        /\ configure(s, ok)
        /\ boot' = [boot EXCEPT !.half = @ \ {s}, !.failed = @ \/ ~ok]
        /\ free' = IF ok THEN Append(free, s) ELSE free

\* Nothing of the process is left; the devices and the rows are.
Gone(devices) ==
    /\ man' = "down" /\ job' = NoTap /\ q' = <<>> /\ boot' = NotBooting
    /\ next' = 0 /\ taken' = {} /\ free_q' = <<>> /\ free_set' = {}
    /\ free' = <<>> /\ snaps' = {} /\ lost' = {} /\ leaving' = {}
    /\ worker' = [c \in Workers |-> Idle]
    /\ link' = [s \in Subnet |->
                    IF devices[s] = "partial" THEN "torn" ELSE devices[s]]
    /\ UNCHANGED <<provider, rows, lives>>

\* The process dies; the VM of a running sandbox may outlive it.
Dies ==
    \E alive \in SUBSET {worker[c].tap.s : c \in {d \in Workers : worker[d].pc = "up"}} :
        Gone([s \in Subnet |-> IF s \in alive /\ link[s] = "up" THEN "alien" ELSE link[s]])

\* The provider is there, or one device failed and with it the whole start.
Booted ==
    /\ man = "boot" /\ boot.pre = {} /\ boot.half = {}
    /\ \/ boot.failed /\ Gone(link)
       \/ /\ ~boot.failed
          /\ man' = "run"
          /\ UNCHANGED <<provider, next, taken, free_q, free_set, free, link,
                         job, q, boot, worker, snaps, rows, leaving, lost,
                         lives>>

\* SandboxPool::spawn -> reinstate_sandbox -> NetworkManagerRef::request, one
\* after the other.
Reinstate(s) ==
    /\ man \in {"run", "quit"} /\ ~boot.asked /\ s \in boot.todo
    /\ boot' = [boot EXCEPT !.todo = @ \ {s}, !.asked = TRUE]
    /\ q' = Append(q, Msg("Request", NoOne, Tap(s, "device")))
    /\ UNCHANGED <<provider, next, taken, free_q, free_set, free, link, man,
                   job, worker, snaps, rows, leaving, lost, lives>>

-----------------------------------------------------------------------------
(***************************************************************************)
(* The manager                                                             *)
(***************************************************************************)

\* The next message of the channel, when the manager serves messages.
Next_is(m) ==
    /\ man = "run" /\ q # <<>> /\ Head(q).m = m
    /\ q' = Tail(q)
    /\ UNCHANGED <<provider, rows, leaving, lives>>

\* Message::Allocate.  When the caller is gone the Tap is deallocated.
ServeAllocate ==
    /\ Next_is("Allocate")
    /\ \E tap \in TapType :
        LET c == Head(q).c IN
        /\ alloc(tap)
        /\ IF worker[c].pc = "waiting"
           THEN /\ worker' = [worker EXCEPT ![c] =
                    IF tap = NoTap THEN Idle
                    ELSE [pc |-> IF tap.kind = "device" THEN "up" ELSE "granted",
                          tap |-> tap]]
                /\ UNCHANGED <<man, job>>
           ELSE /\ worker' = [worker EXCEPT ![c] = Idle]
                /\ man' = IF tap = NoTap THEN man ELSE "undo"
                /\ job' = tap
    /\ UNCHANGED <<link, boot, snaps, lost>>

\* Is the requested device in the list of PoolTapDevices?
InFree(s) == s \in Range(free)

\* Message::Request: request() of both providers.
ServeRequest ==
    /\ Next_is("Request")
    /\ LET s == Head(q).tap.s IN
       \/ /\ InFree(s)
          /\ \E i \in DOMAIN free :
               /\ free[i] = s /\ \A j \in 1 .. i-1 : free[j] # s
               /\ free' = RemoveAt(free, i)
          /\ snaps' = snaps \cup {s}
          /\ boot' = [boot EXCEPT !.asked = FALSE]
          /\ UNCHANGED <<next, taken, free_q, free_set, link, man, job, lost>>
       \/ /\ ~InFree(s) /\ Pool!GetOk(s)
          /\ Pool!get(s)
          /\ \E res \in IoctlResult, ok \in BOOLEAN :
               /\ create_tap_device(s, res)
               /\ ok \in build_or_adopt(res)
               /\ IF res = "created"
                  THEN /\ man' = "build" /\ job' = Tap(s, "builder")
                       /\ UNCHANGED <<snaps, boot, lost>>
                  ELSE /\ snaps' = IF ok THEN snaps \cup {s} ELSE snaps
                       /\ lost' = IF ok THEN lost ELSE lost \cup {s}
                       /\ boot' = [boot EXCEPT !.asked = FALSE]
                       /\ UNCHANGED <<man, job>>
          /\ UNCHANGED <<free_q, free>>
       \/ /\ ~InFree(s) /\ ~Pool!GetOk(s)
          /\ boot' = [boot EXCEPT !.asked = FALSE]
          /\ UNCHANGED <<next, taken, free_q, free_set, free, link, man, job,
                         snaps, lost>>
    /\ UNCHANGED worker

FinishRequest ==
    /\ man = "build"
    /\ \E ok \in BOOLEAN :
        /\ configure(job.s, ok)
        /\ snaps' = IF ok THEN snaps \cup {job.s} ELSE snaps
        /\ lost' = IF ok THEN lost ELSE lost \cup {job.s}
    /\ man' = "run" /\ job' = NoTap
    /\ boot' = [boot EXCEPT !.asked = FALSE]
    /\ UNCHANGED <<provider, next, taken, free_q, free_set, free, q, worker,
                   rows, leaving, lives>>

\* Mutant: a manager that shuts down leaves deallocations in its channel.
DeallocateOnlyRunning ==
    /\ man = "run" /\ q # <<>> /\ Head(q).m = "Deallocate"
    /\ q' = Tail(q)
    /\ dealloc(Head(q).tap)
    /\ UNCHANGED <<provider, man, job, boot, worker, snaps, rows, leaving, lives>>

\* Message::Deallocate, also while the manager shuts down.
ServeDeallocate ==
    /\ man \in {"run", "quit"} /\ q # <<>> /\ Head(q).m = "Deallocate"
    /\ q' = Tail(q)
    /\ dealloc(Head(q).tap)
    /\ UNCHANGED <<provider, man, job, boot, worker, snaps, rows, leaving, lives>>

\* The Tap that its caller did not wait for.
Undo ==
    /\ man = "undo"
    /\ dealloc(job)
    /\ man' = "run" /\ job' = NoTap
    /\ UNCHANGED <<provider, q, boot, worker, snaps, rows, leaving, lives>>

\* PoolTapDevices::dealloc of a builder is unreachable!(), and a panic aborts the process.
UndoPanics ==
    /\ man = "undo" /\ provider = "pool" /\ job.kind = "builder"
    /\ Dies

\* The quit notification.
Quit ==
    /\ man = "run"
    /\ man' = "quit"
    /\ UNCHANGED <<provider, next, taken, free_q, free_set, free, link, job, q,
                   boot, worker, snaps, rows, leaving, lost, lives>>

\* Allocations are refused while the manager shuts down.
Refuse ==
    /\ man = "quit" /\ q # <<>> /\ Head(q).m # "Deallocate"
    /\ q' = Tail(q)
    /\ worker' = [c \in Workers |-> IF c = Head(q).c THEN Idle ELSE worker[c]]
    /\ boot' = [boot EXCEPT !.asked = @ /\ Head(q).m # "Request"]
    /\ UNCHANGED <<provider, next, taken, free_q, free_set, free, link, man,
                   job, snaps, rows, leaving, lost, lives>>

\* No sender is left: the Pool has ended, and its Workers before it.
NoSender == q = <<>> /\ Reinstated /\ \A c \in Workers : worker[c] = Idle

\* After the quit notification the provider is shut down: PoolTapDevices
\* destroys the devices of its list, at best effort.
shutdown ==
    /\ man = "quit" /\ NoSender
    /\ \E undeleted \in SUBSET Range(free) :
        Gone([s \in Subnet |->
                IF s \in Range(free) \ undeleted THEN "absent" ELSE link[s]])

\* Without it the manager just ends (UnexpectedShutDown).
UnexpectedShutDown ==
    /\ man = "run" /\ NoSender
    /\ Gone(link)

\* The process dies at any point.
Crash == man # "down" /\ Dies

-----------------------------------------------------------------------------
(***************************************************************************)
(* The Workers and the Pool, as far as they touch the network              *)
(***************************************************************************)

\* Worker c steps; the manager and its provider do not.
WorkerStep(c) ==
    /\ Serving
    /\ UNCHANGED <<provider, next, taken, free_q, free_set, free, man, job, boot,
                   lives>>

\* NetworkManagerRef::allocate, in create_sandbox.  What is sent after the quit
\* notification meets the manager as what was in the channel before it.
WAllocate(c) ==
    /\ WorkerStep(c) /\ man \in {"run", "build", "undo"}
    /\ Reinstated /\ worker[c] = Idle
    /\ q' = Append(q, Msg("Allocate", c, NoTap))
    /\ worker' = [worker EXCEPT ![c].pc = "waiting"]
    /\ UNCHANGED <<link, snaps, rows, leaving, lost>>

\* The Worker's task is dropped while it waits for the answer.
WVanishes(c) ==
    /\ WorkerStep(c) /\ worker[c].pc = "waiting"
    /\ worker' = [worker EXCEPT ![c].pc = "gone"]
    /\ UNCHANGED <<link, q, snaps, rows, leaving, lost>>

\* create_sandbox of a runtime builds the Tap; a builder that fails is dropped,
\* and nobody gives its subnet back.
WBuild(c) ==
    /\ WorkerStep(c) /\ worker[c].pc = "granted"
    /\ \E res \in IoctlResult :
        LET s == worker[c].tap.s IN
        /\ create_tap_device(s, res)
        /\ worker' = [worker EXCEPT ![c] =
                IF res = "created" THEN [@ EXCEPT !.pc = "building"]
                ELSE IF build(res) THEN [pc |-> "up", tap |-> Tap(s, "device")]
                ELSE Idle]
        /\ lost' = IF res = "created" \/ build(res) THEN lost ELSE lost \cup {s}
    /\ UNCHANGED <<q, snaps, rows, leaving>>

WBuilt(c) ==
    /\ WorkerStep(c) /\ worker[c].pc = "building"
    /\ \E ok \in BOOLEAN :
        LET s == worker[c].tap.s IN
        /\ configure(s, ok)
        /\ worker' = [worker EXCEPT ![c] =
                IF ok THEN [pc |-> "up", tap |-> Tap(s, "device")] ELSE Idle]
        /\ lost' = IF ok THEN lost ELSE lost \cup {s}
    /\ UNCHANGED <<q, snaps, rows, leaving>>

\* The sandbox is snapshotted; the writer commits rows in order.
WSnapshot(c) ==
    /\ WorkerStep(c) /\ worker[c].pc = "up" /\ worker[c].tap.s \notin rows
    /\ rows' = rows \cup {worker[c].tap.s}
    /\ UNCHANGED <<link, q, worker, snaps, leaving, lost>>

\* The Worker ends and the Pool keeps the snapshotted sandbox.
WParks(c) ==
    /\ WorkerStep(c) /\ worker[c].pc = "up" /\ worker[c].tap.s \in rows
    /\ snaps' = snaps \cup {worker[c].tap.s}
    /\ worker' = [worker EXCEPT ![c] = Idle]
    /\ UNCHANGED <<link, q, rows, leaving, lost>>

\* A Worker is started on a snapshot of the Pool.
WLoad(c) ==
    /\ WorkerStep(c) /\ man # "quit" /\ Reinstated /\ worker[c] = Idle
    /\ \E s \in snaps :
        /\ snaps' = snaps \ {s}
        /\ worker' = [worker EXCEPT ![c] = [pc |-> "up", tap |-> Tap(s, "device")]]
    /\ UNCHANGED <<link, q, rows, leaving, lost>>

\* The sandbox of s is destroyed: its row is on its way out and its device is
\* sent back.  When the runtime cannot destroy it the device stays where it is.
Destroyed(s) ==
    \/ /\ leaving' = leaving \cup ({s} \cap rows)
       /\ q' = Append(q, Msg("Deallocate", NoOne, Tap(s, "device")))
       /\ UNCHANGED lost
    \/ /\ lost' = lost \cup {s}
       /\ UNCHANGED <<leaving, q>>

WDestroy(c) ==
    /\ WorkerStep(c) /\ worker[c].pc = "up"
    /\ Destroyed(worker[c].tap.s)
    /\ worker' = [worker EXCEPT ![c] = Idle]
    /\ UNCHANGED <<link, snaps, rows>>

\* destroy_orphan_sandbox, when the Pool does not retain snapshots at its end.
DestroyOrphan(s) ==
    /\ man = "quit" /\ s \in snaps /\ Reinstated
    /\ \A c \in Workers : worker[c] = Idle
    /\ Destroyed(s)
    /\ snaps' = snaps \ {s}
    /\ UNCHANGED <<provider, next, taken, free_q, free_set, free, link, man,
                   job, boot, worker, rows, lives>>

\* The snapshot manager's writer commits a removal.
RowRemoved(s) ==
    /\ s \in leaving
    /\ rows' = rows \ {s} /\ leaving' = leaving \ {s}
    /\ UNCHANGED <<provider, next, taken, free_q, free_set, free, link, man,
                   job, q, boot, worker, snaps, lost, lives>>

-----------------------------------------------------------------------------
Init ==
    /\ provider \in Providers
    /\ next = 0 /\ taken = {} /\ free_q = <<>> /\ free_set = {} /\ free = <<>>
    /\ link = [s \in Subnet |-> "absent"]
    /\ man = "down" /\ job = NoTap /\ q = <<>> /\ boot = NotBooting
    /\ worker = [c \in Workers |-> Idle]
    /\ snaps = {} /\ rows = {} /\ leaving = {} /\ lost = {}
    /\ lives = 0

ManagerNext ==
    \/ ServeAllocate \/ ServeRequest \/ FinishRequest \/ ServeDeallocate
    \/ Undo \/ UndoPanics \/ Refuse \/ shutdown

WorkerNext(c) ==
    \/ WAllocate(c) \/ WVanishes(c) \/ WBuild(c)
    \/ WBuilt(c) \/ WSnapshot(c) \/ WParks(c) \/ WLoad(c) \/ WDestroy(c)

BootNext ==
    \/ new \/ Booted
    \/ \E s \in Subnet : PreBuild(s) \/ PreBuilt(s) \/ Reinstate(s)

\* All the lives are over.
Ended == man = "down" /\ lives = MaxLives /\ UNCHANGED vars

Next ==
    \/ BootNext \/ ManagerNext
    \/ Quit \/ UnexpectedShutDown \/ Crash
    \/ \E c \in Workers : WorkerNext(c)
    \/ \E s \in Subnet : DestroyOrphan(s) \/ RowRemoved(s)
    \/ Ended

Spec == Init /\ [][Next]_vars

\* The tasks are scheduled; a Worker brings what it does to its end, and after
\* the quit notification destroys or hands over its sandbox.
FairSpec ==
    /\ Spec
    /\ WF_vars(ManagerNext)
    /\ \A s \in Subnet : WF_vars(Reinstate(s))
    /\ \A c \in Workers : WF_vars(WBuild(c) \/ WBuilt(c))
                          /\ WF_vars(man = "quit" /\ (WDestroy(c) \/ WParks(c)))

-----------------------------------------------------------------------------
TypeOK ==
    /\ provider \in Providers
    /\ next \in 0 .. N /\ taken \subseteq Subnet /\ free_set \subseteq Nets
    /\ free_q \in Seq(Nets) /\ free \in Seq(Subnet)
    /\ link \in [Subnet -> {"absent", "partial", "torn", "up", "alien"}]
    /\ man \in {"down", "boot", "run", "build", "undo", "quit"}
    /\ job \in TapType /\ q \in Seq(Message)
    /\ boot \in [pre : SUBSET Subnet, half : SUBSET Subnet, failed : BOOLEAN,
                todo : SUBSET Subnet, asked : BOOLEAN]
    /\ worker \in [Workers -> [pc : {"idle", "waiting", "gone", "granted",
                                     "building", "up"}, tap : TapType]]
    /\ snaps \subseteq Subnet /\ lost \subseteq Subnet
    /\ rows \subseteq Subnet /\ leaving \subseteq rows
    /\ lives \in 0 .. MaxLives

\* Every place where a subnet can be: with a Worker, a snapshot, the manager,
\* in a message, ready in the list, free in the pool (and in its queue, where
\* get_next finds it), ahead of its iterator, or lost to a failure.
Places(s) ==
    {<<"worker", c>> : c \in {d \in Workers : worker[d].tap.s = s}}
    \cup {<<"q", i>> : i \in {j \in DOMAIN q : q[j].m = "Deallocate" /\ q[j].tap.s = s}}
    \cup {<<"free", i>> : i \in {j \in DOMAIN free : free[j] = s}}
    \cup {<<"free_set", n>> : n \in {m \in free_set \cap Range(free_q) : NetOf(m) = s}}
    \cup {<<p, 0>> : p \in {x \in {"snaps", "job", "iter", "boot", "lost"} :
            \/ x = "snaps" /\ s \in snaps
            \/ x = "job" /\ job.s = s
            \/ x = "iter" /\ s \in Pool!Untaken
            \/ x = "boot" /\ s \in boot.pre \cup boot.half
            \/ x = "lost" /\ s \in lost}}

\* No subnet is handed out twice and none disappears: while a process runs,
\* every one is in exactly one place.  This is what the two providers make of
\* the subnet pool, although PlainTapDevices gives back x.1/31 for the x.0/31
\* it took, so that the marks of get() are never removed, and PoolTapDevices
\* gives nothing back at all.
InOnePlace ==
    Serving =>
        \A s \in Subnet : Cardinality(Places(s)) = 1

\* A sandbox, and a snapshot, has a device that is there, and never one that this process
\* has only half made.  A device that build_or_adopt found may be one that an earlier process
\* left half made ("torn"): the code has no means to see that.
DeviceComplete ==
    \A s \in snaps \cup {worker[c].tap.s : c \in {d \in Workers : worker[d].pc = "up"}} :
        link[s] \notin {"absent", "partial"}

\* With PlainTapDevices a sandbox that is not a reinstated snapshot never gets
\* a device that an earlier process left behind, half made or with a VM on it.
FreshIsFresh ==
    provider = "plain" =>
        \A c \in Workers : worker[c].pc = "up" /\ link[worker[c].tap.s] \in {"torn", "alien"}
            => worker[c].tap.s \in rows

\* Both hold through failures at every step of the making of a device, crashes and restarts.
DeviceIsRight == DeviceComplete /\ FreshIsFresh

\* After the quit notification the manager comes to its end, with every
\* allocation in its channel refused and every device there taken back.
ManagerEnds == man = "quit" ~> man = "down"
=============================================================================
