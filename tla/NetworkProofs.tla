--------------------------- MODULE NetworkProofs ---------------------------
(***************************************************************************)
(* Proofs about Network, for any number of subnets and Workers, either     *)
(* provider and any capacity: every subnet is in exactly one place while a *)
(* process runs, and every sandbox has the device its provider promises.   *)
(***************************************************************************)
EXTENDS Network, FiniteSetTheorems, TLAPS

(***************************************************************************)
(* The inductive invariant, in named parts.                                *)
(***************************************************************************)

\* What the manager's state says of the rest.
PhaseAt ==
    /\ man = "down" => boot = NotBooting /\ next = 0 /\ free = <<>>
    /\ man \in {"down", "boot"} =>
        /\ q = <<>> /\ free_q = <<>> /\ taken = {} /\ free_set = {} /\ snaps = {}
        /\ lost = {} /\ leaving = {} /\ ~boot.asked /\ \A c \in Workers : worker[c] = Idle
    /\ man = "boot" => boot.todo = rows
    /\ man # "boot" => boot.pre = {} /\ boot.half = {} /\ ~boot.failed
    /\ man = "build" => job.kind = "builder"
    /\ man = "undo" => job # NoTap
    /\ man \notin {"build", "undo"} => job = NoTap

\* What a Worker has, by where it is; two Workers never have the same.
WorkerAt ==
    /\ \A c \in Workers :
        /\ worker[c].pc \in {"granted", "building"} => worker[c].tap.kind = "builder"
        /\ worker[c].pc = "up" => worker[c].tap.kind = "device"
        /\ worker[c].pc \in {"idle", "waiting", "gone"} => worker[c].tap = NoTap
    /\ \A c, d \in Workers : worker[c].tap.s = worker[d].tap.s => c = d \/ worker[c].tap = NoTap

\* No element twice; no Deallocate of one subnet, and no Allocate of one Worker, twice.
Distinct(f) == \A i, j \in 1..Len(f) : f[i] = f[j] => i = j
DistinctTaps(f) ==
    \A i, j \in 1..Len(f) :
        f[i].m = "Deallocate" /\ f[j].m = "Deallocate" /\ f[i].tap.s = f[j].tap.s => i = j
DistinctCallers(f) ==
    \A i, j \in 1..Len(f) : f[i].m = "Allocate" /\ f[j].m = "Allocate" /\ f[i].c = f[j].c => i = j

\* An Allocate is of a Worker that waits for it or did; none has two of them.
QueueAt ==
    /\ \A i \in 1..Len(q) : q[i].m = "Allocate" => worker[q[i].c].pc \in {"waiting", "gone"}
    /\ DistinctCallers(q)

\* Until the snapshots of the rows are reinstated nothing else happens, and no subnet is
\* requested twice: the marks in taken are those of earlier requests.
RequestAt ==
    /\ ~boot.asked => man # "build" /\ \A i \in 1..Len(q) : q[i].m # "Request"
    /\ boot.asked => IF man = "build" THEN q = <<>> ELSE Len(q) = 1 /\ q[1].m = "Request"
    /\ boot.todo # {} /\ ~boot.asked => q = <<>>
    /\ ~Reinstated => leaving = {} /\ \A c \in Workers : worker[c] = Idle
    /\ boot.todo \subseteq rows /\ boot.todo \cap taken = {}
    /\ \A i \in 1..Len(q) : q[i].m = "Request" => q[i].tap.s \in rows \ (taken \cup boot.todo)

\* PlainTapDevices gives back the guest's address, of which the pool makes another net;
\* what is free is in the queue.
PoolAt ==
    /\ \A n \in free_set : n < 0 /\ n \in Range(free_q)
    /\ provider = "plain" => free = <<>> /\ boot.pre = {} /\ boot.half = {}

\* Where a subnet can be.
InWorker(s) == \E c \in Workers : worker[c].tap.s = s
InQueue(s) == \E i \in 1..Len(q) : q[i].m = "Deallocate" /\ q[i].tap.s = s
InList(s) == \E i \in 1..Len(free) : free[i] = s
InPool(s) == Host(s) \in free_set
InIter(s) == s >= next /\ s \notin taken

\* Exactly one of a series of claims.
One(s) ==
    /\ s \in boot.pre \/ s \in boot.half \/ s \in snaps \/ s \in lost \/ job.s = s
       \/ InIter(s) \/ InPool(s) \/ InList(s) \/ InQueue(s) \/ InWorker(s)
    /\ InWorker(s) => ~(InQueue(s) \/ InList(s) \/ InPool(s) \/ InIter(s) \/ job.s = s
                        \/ s \in lost \/ s \in snaps \/ s \in boot.half \/ s \in boot.pre)
    /\ InQueue(s) => ~(InList(s) \/ InPool(s) \/ InIter(s) \/ job.s = s
                       \/ s \in lost \/ s \in snaps \/ s \in boot.half \/ s \in boot.pre)
    /\ InList(s) => ~(InPool(s) \/ InIter(s) \/ job.s = s
                      \/ s \in lost \/ s \in snaps \/ s \in boot.half \/ s \in boot.pre)
    /\ InPool(s) => ~(InIter(s) \/ job.s = s
                      \/ s \in lost \/ s \in snaps \/ s \in boot.half \/ s \in boot.pre)
    /\ InIter(s) => ~(job.s = s \/ s \in lost \/ s \in snaps \/ s \in boot.half \/ s \in boot.pre)
    /\ job.s = s => ~(s \in lost \/ s \in snaps \/ s \in boot.half \/ s \in boot.pre)
    /\ s \in lost => ~(s \in snaps \/ s \in boot.half \/ s \in boot.pre)
    /\ s \in snaps => ~(s \in boot.half \/ s \in boot.pre)
    /\ s \in boot.half => s \notin boot.pre

\* A start in which a device failed is given up: what it has does not matter.
Alive == man # "down" /\ ~boot.failed

PlaceAt ==
    Alive =>
        /\ \A s \in Subnet : One(s)
        /\ Distinct(free) /\ DistinctTaps(q)

\* A Worker runs on the device of s, or makes it.
Runs(s) == \E c \in Workers : worker[c].pc = "up" /\ worker[c].tap.s = s
Builds(s) == \E c \in Workers : worker[c].pc = "building" /\ worker[c].tap.s = s

\* A device is under way, or its making failed.
Making(s) ==
    s \in boot.half \/ s \in lost \/ (man = "build" /\ job.s = s) \/ Builds(s)

\* Whatever will be a sandbox's device is complete; only what is being made is not.
LinkAt ==
    /\ man = "down" => \A s \in Subnet : link[s] # "partial"
    /\ Alive => \A s \in Subnet :
        /\ s \in snaps \/ Runs(s) \/ InList(s) \/ InQueue(s) \/ (job.s = s /\ job.kind = "device")
               => link[s] \notin {"absent", "partial"}
        /\ link[s] = "partial" => Making(s)

\* With PlainTapDevices only reinstated snapshots, whose rows are not on their way out, have a
\* device of an earlier process.
FreshAt ==
    provider = "plain" => \A s \in Subnet :
        link[s] \in {"torn", "alien"} =>
            /\ s \in snaps \/ Runs(s) => s \in rows
            /\ s \in leaving => InQueue(s) \/ s \in lost

NInv ==
    /\ TypeOK /\ PhaseAt /\ WorkerAt /\ QueueAt /\ RequestAt
    /\ PoolAt /\ PlaceAt /\ LinkAt /\ FreshAt

-----------------------------------------------------------------------------
USE DEF Tap, NoTap, Msg, Idle, Reinstated, Serving, Alive

(***************************************************************************)
(* Subnets and their hosts, Taps and messages.                             *)
(***************************************************************************)

LEMMA Numbers ==
    /\ N \in Nat /\ N > 0 /\ Capacity \in Nat
    /\ Subnet \subseteq Nat /\ Subnet \subseteq Nets /\ Nets \subseteq Int
    /\ \A s \in Subnet : /\ s \in Nat /\ s < N /\ s # NoOne
                         /\ Host(s) \in Nets /\ Host(s) < 0 /\ Host(s) = -(s + 1) /\ Host(s) \notin Subnet
    /\ \A s, t \in Subnet : Host(s) = Host(t) => s = t
    /\ \A n \in Nets : n < 0 => NetOf(n) \in Subnet /\ Host(NetOf(n)) = n
    /\ \A n \in Subnet : NetOf(n) = n
    /\ NoOne \notin Nets /\ NoOne \notin Workers /\ NoOne \notin Subnet
  BY NetworkAssumption DEF Subnet, Nets, Host, NetOf

LEMMA TapFacts ==
    ASSUME NEW tap \in TapType, tap # NoTap
    PROVE  tap.s \in Subnet /\ tap.kind \in {"builder", "device"} /\ tap = [s |-> tap.s, kind |-> tap.kind]
  BY DEF TapType

LEMMA NoTapFacts == NoTap \in TapType /\ NoTap.s = NoOne /\ NoTap.kind = "none" /\ NoTap.s \notin Subnet
  BY Numbers DEF TapType

LEMMA MinFacts == Min({N, Capacity}) \in 0 .. N
<1>1. N \in Nat /\ Capacity \in Nat
  BY Numbers
<1>2. \E x \in {N, Capacity} : \A y \in {N, Capacity} : x =< y
  BY <1>1
<1>3. /\ Min({N, Capacity}) \in {N, Capacity}
      /\ \A y \in {N, Capacity} : Min({N, Capacity}) =< y
  BY <1>2 DEF Min
<1>. QED BY <1>1, <1>3

\* A Worker has a Tap, of its subnet alone, or none.
LEMMA WorkerFacts ==
    ASSUME NInv, NEW c \in Workers
    PROVE  /\ worker[c].pc \in {"idle", "waiting", "gone", "granted", "building", "up"}
           /\ worker[c].tap \in TapType
           /\ worker[c] = [pc |-> worker[c].pc, tap |-> worker[c].tap]
           /\ worker[c].tap.s \in Subnet => worker[c].pc \in {"granted", "building", "up"}
           /\ worker[c].pc \in {"granted", "building", "up"} => worker[c].tap.s \in Subnet
<1>1. worker[c] \in [pc : {"idle", "waiting", "gone", "granted", "building", "up"}, tap : TapType]
  BY DEF NInv, TypeOK
<1>2. worker[c].tap # NoTap => worker[c].tap.s \in Subnet
  BY <1>1, TapFacts
<1>3. worker[c].pc \in {"idle", "waiting", "gone"} => worker[c].tap = NoTap
  BY DEF NInv, WorkerAt
<1>4. worker[c].pc \in {"granted", "building", "up"} => worker[c].tap # NoTap
  BY DEF NInv, WorkerAt
<1>. QED BY <1>1, <1>2, <1>3, <1>4, NoTapFacts

(***************************************************************************)
(* The places of a subnet when what they are made of does not change.      *)
(***************************************************************************)

LEMMA QueueFrame == ASSUME UNCHANGED q PROVE \A s : InQueue(s)' <=> InQueue(s)
  BY DEF InQueue

LEMMA ListFrame == ASSUME UNCHANGED free PROVE \A s : InList(s)' <=> InList(s)
  BY DEF InList

LEMMA PoolFrame ==
    ASSUME UNCHANGED <<next, taken, free_set>>
    PROVE  \A s : (InPool(s)' <=> InPool(s)) /\ (InIter(s)' <=> InIter(s))
  BY DEF InPool, InIter

LEMMA WorkerFrame ==
    ASSUME UNCHANGED worker
    PROVE  \A s : (InWorker(s)' <=> InWorker(s)) /\ (Runs(s)' <=> Runs(s)) /\ (Builds(s)' <=> Builds(s))
  BY DEF InWorker, Runs, Builds

-----------------------------------------------------------------------------
(***************************************************************************)
(* The channel.                                                            *)
(***************************************************************************)

LEMMA MessageFacts ==
    ASSUME NEW x \in Message
    PROVE  /\ x.m \in {"Allocate", "Request", "Deallocate"}
           /\ x.m = "Allocate" => x.c \in Workers /\ x.tap = NoTap
           /\ x.m # "Allocate" => x.c = NoOne /\ x.tap.s \in Subnet /\ x.tap.kind = "device"
                                  /\ x.tap = Tap(x.tap.s, "device") /\ x.tap \in TapType
  BY DEF Message, TapType

\* Sent: the channel has one message more.
LEMMA Sent ==
    ASSUME q \in Seq(Message), NEW x \in Message, q' = Append(q, x)
    PROVE  /\ q' \in Seq(Message) /\ Len(q') = Len(q) + 1 /\ q'[Len(q')] = x
           /\ \A i \in 1..Len(q') : (i \in 1..Len(q) /\ q'[i] = q[i]) \/ (i = Len(q') /\ q'[i] = x)
           /\ \A s : InQueue(s)' <=> InQueue(s) \/ (x.m = "Deallocate" /\ x.tap.s = s)
           /\ DistinctTaps(q) /\ (x.m = "Deallocate" => ~InQueue(x.tap.s)) => DistinctTaps(q')
           /\ DistinctCallers(q) /\ (x.m = "Allocate" => \A i \in 1..Len(q) : q[i].m = "Allocate" => q[i].c # x.c)
                => DistinctCallers(q')
<1>1. /\ q' \in Seq(Message) /\ Len(q') = Len(q) + 1 /\ Len(q) \in Nat /\ q'[Len(q')] = x
      /\ \A i \in 1..Len(q) : q'[i] = q[i]
  OBVIOUS
<1>2. \A i \in 1..Len(q') : (i \in 1..Len(q) /\ q'[i] = q[i]) \/ (i = Len(q') /\ q'[i] = x)
  BY <1>1
<1>3. ASSUME NEW s PROVE InQueue(s)' <=> InQueue(s) \/ (x.m = "Deallocate" /\ x.tap.s = s)
  <2>1. ASSUME InQueue(s)' PROVE InQueue(s) \/ (x.m = "Deallocate" /\ x.tap.s = s)
    BY <1>2, <2>1 DEF InQueue
  <2>2. ASSUME InQueue(s) PROVE InQueue(s)'
    <3>1. PICK i \in 1..Len(q) : q[i].m = "Deallocate" /\ q[i].tap.s = s
      BY <2>2 DEF InQueue
    <3>2. i \in 1..Len(q') /\ q'[i] = q[i]
      BY <1>1
    <3>. QED BY <3>1, <3>2 DEF InQueue
  <2>3. ASSUME x.m = "Deallocate" /\ x.tap.s = s PROVE InQueue(s)'
    <3>1. Len(q') \in 1..Len(q')
      BY <1>1
    <3>. QED BY <1>1, <2>3, <3>1 DEF InQueue
  <2>. QED BY <2>1, <2>2, <2>3
<1>4. ASSUME DistinctTaps(q), x.m = "Deallocate" => ~InQueue(x.tap.s) PROVE DistinctTaps(q')
  <2>. SUFFICES ASSUME NEW i \in 1..Len(q'), NEW j \in 1..Len(q'), q'[i].m = "Deallocate", q'[j].m = "Deallocate",
                       q'[i].tap.s = q'[j].tap.s
                PROVE  i = j
    BY DEF DistinctTaps
  <2>. QED BY <1>2, <1>4 DEF DistinctTaps, InQueue
<1>5. ASSUME DistinctCallers(q), x.m = "Allocate" => \A i \in 1..Len(q) : q[i].m = "Allocate" => q[i].c # x.c
      PROVE  DistinctCallers(q')
  <2>. SUFFICES ASSUME NEW i \in 1..Len(q'), NEW j \in 1..Len(q'), q'[i].m = "Allocate", q'[j].m = "Allocate",
                       q'[i].c = q'[j].c
                PROVE  i = j
    BY DEF DistinctCallers
  <2>. QED BY <1>2, <1>5 DEF DistinctCallers
<1>. QED BY <1>1, <1>2, <1>3, <1>4, <1>5

\* Taken: the channel has lost its first message.
LEMMA Received ==
    ASSUME q \in Seq(Message), q # <<>>, q' = Tail(q)
    PROVE  /\ q' \in Seq(Message) /\ Head(q) \in Message /\ 1 \in 1..Len(q) /\ Head(q) = q[1]
           /\ Len(q') = Len(q) - 1
           /\ \A i \in 1..Len(q') : i + 1 \in 1..Len(q) /\ q'[i] = q[i + 1]
           /\ \A s : InQueue(s) <=> InQueue(s)' \/ (Head(q).m = "Deallocate" /\ Head(q).tap.s = s)
           /\ DistinctTaps(q) => DistinctTaps(q')
           /\ DistinctTaps(q) /\ Head(q).m = "Deallocate" => \A s : s = Head(q).tap.s => ~InQueue(s)'
           /\ DistinctCallers(q) => DistinctCallers(q')
           /\ DistinctCallers(q) /\ Head(q).m = "Allocate" =>
                \A i \in 1..Len(q') : q'[i].m = "Allocate" => q'[i].c # Head(q).c
<1>1. /\ q' \in Seq(Message) /\ Head(q) \in Message /\ 1 \in 1..Len(q) /\ Head(q) = q[1]
      /\ Len(q') = Len(q) - 1 /\ Len(q) \in Nat
      /\ \A i \in 1..Len(q') : i + 1 \in 1..Len(q) /\ q'[i] = q[i + 1]
  OBVIOUS
<1>2. \A i \in 1..Len(q) : i = 1 \/ (i - 1 \in 1..Len(q') /\ q[i] = q'[i - 1])
  BY <1>1
<1>3. ASSUME NEW s PROVE InQueue(s) <=> InQueue(s)' \/ (Head(q).m = "Deallocate" /\ Head(q).tap.s = s)
  <2>1. ASSUME InQueue(s) PROVE InQueue(s)' \/ (Head(q).m = "Deallocate" /\ Head(q).tap.s = s)
    <3>1. PICK i \in 1..Len(q) : q[i].m = "Deallocate" /\ q[i].tap.s = s
      BY <2>1 DEF InQueue
    <3>. QED BY <1>1, <1>2, <3>1 DEF InQueue
  <2>2. ASSUME InQueue(s)' PROVE InQueue(s)
    <3>1. PICK i \in 1..Len(q') : q'[i].m = "Deallocate" /\ q'[i].tap.s = s
      BY <2>2 DEF InQueue
    <3>. QED BY <1>1, <3>1 DEF InQueue
  <2>3. ASSUME Head(q).m = "Deallocate" /\ Head(q).tap.s = s PROVE InQueue(s)
    BY <1>1, <2>3 DEF InQueue
  <2>. QED BY <2>1, <2>2, <2>3
<1>4. ASSUME DistinctTaps(q) PROVE DistinctTaps(q')
  <2>. SUFFICES ASSUME NEW i \in 1..Len(q'), NEW j \in 1..Len(q'), q'[i].m = "Deallocate", q'[j].m = "Deallocate",
                       q'[i].tap.s = q'[j].tap.s
                PROVE  i = j
    BY DEF DistinctTaps
  <2>1. i + 1 = j + 1
    BY <1>1, <1>4 DEF DistinctTaps
  <2>. QED BY <1>1, <2>1
<1>5. ASSUME DistinctTaps(q), Head(q).m = "Deallocate", NEW i \in 1..Len(q'), q'[i].m = "Deallocate"
      PROVE  q'[i].tap.s # Head(q).tap.s
  <2>1. i + 1 \in 1..Len(q) /\ i + 1 # 1 /\ q'[i] = q[i + 1]
    BY <1>1
  <2>. QED BY <1>1, <1>5, <2>1 DEF DistinctTaps
<1>6. DistinctTaps(q) /\ Head(q).m = "Deallocate" => \A s : s = Head(q).tap.s => ~InQueue(s)'
  BY <1>5 DEF InQueue
<1>7. ASSUME DistinctCallers(q) PROVE DistinctCallers(q')
  <2>. SUFFICES ASSUME NEW i \in 1..Len(q'), NEW j \in 1..Len(q'), q'[i].m = "Allocate", q'[j].m = "Allocate",
                       q'[i].c = q'[j].c
                PROVE  i = j
    BY DEF DistinctCallers
  <2>1. i + 1 = j + 1
    BY <1>1, <1>7 DEF DistinctCallers
  <2>. QED BY <1>1, <2>1
<1>8. ASSUME DistinctCallers(q), Head(q).m = "Allocate", NEW i \in 1..Len(q'), q'[i].m = "Allocate"
      PROVE  q'[i].c # Head(q).c
  <2>1. i + 1 \in 1..Len(q) /\ i + 1 # 1 /\ q'[i] = q[i + 1]
    BY <1>1
  <2>. QED BY <1>1, <1>8, <2>1 DEF DistinctCallers
<1>. QED BY <1>1, <1>3, <1>4, <1>6, <1>7, <1>8

-----------------------------------------------------------------------------
(***************************************************************************)
(* The list of PoolTapDevices.                                             *)
(***************************************************************************)

\* push_back, by the tasks of PoolTapDevices::new.
LEMMA PushedBack ==
    ASSUME free \in Seq(Subnet), NEW s \in Subnet, free' = Append(free, s)
    PROVE  /\ free' \in Seq(Subnet)
           /\ \A t : InList(t)' <=> InList(t) \/ t = s
           /\ Distinct(free) /\ ~InList(s) => Distinct(free')
<1>1. /\ free' \in Seq(Subnet) /\ Len(free') = Len(free) + 1 /\ Len(free) \in Nat /\ free'[Len(free')] = s
      /\ \A i \in 1..Len(free) : free'[i] = free[i]
  OBVIOUS
<1>2. \A i \in 1..Len(free') : (i \in 1..Len(free) /\ free'[i] = free[i]) \/ (i = Len(free') /\ free'[i] = s)
  BY <1>1
<1>3. ASSUME NEW t PROVE InList(t)' <=> InList(t) \/ t = s
  <2>1. ASSUME InList(t)' PROVE InList(t) \/ t = s
    BY <1>2, <2>1 DEF InList
  <2>2. ASSUME InList(t) PROVE InList(t)'
    BY <1>1, <2>2 DEF InList
  <2>3. ASSUME t = s PROVE InList(t)'
    BY <1>1, <2>3 DEF InList
  <2>. QED BY <2>1, <2>2, <2>3
<1>4. ASSUME Distinct(free), ~InList(s) PROVE Distinct(free')
  BY <1>1, <1>2, <1>4 DEF Distinct, InList
<1>. QED BY <1>1, <1>3, <1>4

\* push_front, in dealloc.
LEMMA PushedFront ==
    ASSUME free \in Seq(Subnet), NEW s \in Subnet, free' = <<s>> \o free
    PROVE  /\ free' \in Seq(Subnet)
           /\ \A t : InList(t)' <=> InList(t) \/ t = s
           /\ Distinct(free) /\ ~InList(s) => Distinct(free')
<1>1. /\ free' \in Seq(Subnet) /\ Len(free') = Len(free) + 1 /\ Len(free) \in Nat /\ free'[1] = s
      /\ \A i \in 1..Len(free) : i + 1 \in 1..Len(free') /\ free'[i + 1] = free[i]
  OBVIOUS
<1>2. \A i \in 1..Len(free') : (i - 1 \in 1..Len(free) /\ free'[i] = free[i - 1]) \/ (i = 1 /\ free'[i] = s)
  <2>. SUFFICES ASSUME NEW i \in 1..Len(free'), i # 1 PROVE i - 1 \in 1..Len(free) /\ free'[i] = free[i - 1]
    BY <1>1
  <2>1. i - 1 \in 1..Len(free) /\ (i - 1) + 1 = i
    BY <1>1
  <2>. QED BY <1>1, <2>1
<1>3. ASSUME NEW t PROVE InList(t)' <=> InList(t) \/ t = s
  <2>1. ASSUME InList(t)' PROVE InList(t) \/ t = s
    BY <1>2, <2>1 DEF InList
  <2>2. ASSUME InList(t) PROVE InList(t)'
    BY <1>1, <2>2 DEF InList
  <2>3. ASSUME t = s PROVE InList(t)'
    BY <1>1, <2>3 DEF InList
  <2>. QED BY <2>1, <2>2, <2>3
<1>4. ASSUME Distinct(free), ~InList(s) PROVE Distinct(free')
  <2>. SUFFICES ASSUME NEW i \in 1..Len(free'), NEW j \in 1..Len(free'), free'[i] = free'[j] PROVE i = j
    BY DEF Distinct
  <2>1. CASE i = 1
    BY <1>2, <1>4, <2>1 DEF InList
  <2>2. CASE j = 1
    BY <1>2, <1>4, <2>2 DEF InList
  <2>3. CASE i # 1 /\ j # 1
    <3>1. /\ i - 1 \in 1..Len(free) /\ free'[i] = free[i - 1]
          /\ j - 1 \in 1..Len(free) /\ free'[j] = free[j - 1]
      BY <1>2, <2>3
    <3>2. i - 1 = j - 1
      BY <1>4, <3>1 DEF Distinct
    <3>. QED BY <1>1, <3>2
  <2>. QED BY <2>1, <2>2, <2>3
<1>. QED BY <1>1, <1>3, <1>4

\* What RemoveAt leaves.
LEMMA RemoveAtFacts ==
    ASSUME NEW S, NEW f \in Seq(S), NEW k \in 1..Len(f)
    PROVE  /\ RemoveAt(f, k) \in Seq(S) /\ Len(RemoveAt(f, k)) = Len(f) - 1
           /\ \A i \in 1..Len(f) - 1 : RemoveAt(f, k)[i] = IF i < k THEN f[i] ELSE f[i + 1]
<1>. DEFINE l == SubSeq(f, 1, k - 1)
            r == SubSeq(f, k + 1, Len(f))
            g == l \o r
<1>0. Len(f) \in Nat /\ k \in Nat /\ 1 <= k /\ k <= Len(f) /\ RemoveAt(f, k) = g
  BY DEF RemoveAt
<1>1. l \in Seq(S) /\ Len(l) = k - 1 /\ \A i \in 1..(k - 1) : l[i] = f[i]
  OBVIOUS
<1>2. r \in Seq(S) /\ Len(r) = Len(f) - k /\ \A i \in 1..(Len(f) - k) : r[i] = f[i + k]
  BY <1>0
<1>. HIDE DEF l, r
<1>3. /\ g \in Seq(S) /\ Len(g) = Len(l) + Len(r)
      /\ \A i \in 1..Len(l) + Len(r) : g[i] = IF i <= Len(l) THEN l[i] ELSE r[i - Len(l)]
  <2>1. ASSUME NEW a \in Seq(S), NEW b \in Seq(S)
        PROVE  /\ a \o b \in Seq(S) /\ Len(a \o b) = Len(a) + Len(b)
               /\ \A i \in 1..Len(a) + Len(b) : (a \o b)[i] = IF i <= Len(a) THEN a[i] ELSE b[i - Len(a)]
    OBVIOUS
  <2>2. l \in Seq(S) /\ r \in Seq(S)
    BY <1>1, <1>2
  <2>. QED BY <2>1, <2>2
<1>. HIDE DEF g
<1>4. Len(g) = Len(f) - 1
  BY <1>0, <1>1, <1>2, <1>3
<1>5. ASSUME NEW i \in 1..Len(f) - 1 PROVE g[i] = IF i < k THEN f[i] ELSE f[i + 1]
  <2>1. CASE i < k
    <3>1. i \in 1..(k - 1) /\ i \in 1..Len(l) + Len(r) /\ i <= Len(l)
      BY <1>0, <1>1, <1>2, <2>1
    <3>. QED BY <1>1, <1>3, <2>1, <3>1
  <2>2. CASE ~(i < k)
    <3>1. /\ i - Len(l) \in 1..(Len(f) - k) /\ (i - Len(l)) + k = i + 1
          /\ i \in 1..Len(l) + Len(r) /\ ~(i <= Len(l))
      BY <1>0, <1>1, <1>2, <2>2
    <3>2. g[i] = r[i - Len(l)]
      BY <1>3, <3>1
    <3>3. r[i - Len(l)] = f[i + 1]
      BY <1>2, <3>1
    <3>. QED BY <2>2, <3>2, <3>3
  <2>. QED BY <2>1, <2>2
<1>. QED BY <1>0, <1>3, <1>4, <1>5

\* remove, in request; and pop_back, in alloc.
LEMMA RemovedAt ==
    ASSUME free \in Seq(Subnet), NEW k \in 1..Len(free), Distinct(free), free' = RemoveAt(free, k)
    PROVE  /\ free' \in Seq(Subnet)
           /\ \A t : InList(t)' <=> InList(t) /\ t # free[k]
           /\ InList(free[k]) /\ Distinct(free')
<1>1. Len(free) \in Nat /\ k \in Nat
  OBVIOUS
<1>2. free' \in Seq(Subnet) /\ Len(free') = Len(free) - 1
  BY RemoveAtFacts
<1>3. \A i \in 1..Len(free') : free'[i] = IF i < k THEN free[i] ELSE free[i + 1]
  BY <1>2, RemoveAtFacts
<1>4. ASSUME NEW t, InList(t), t # free[k] PROVE InList(t)'
  <2>1. PICK i \in 1..Len(free) : free[i] = t
    BY <1>4 DEF InList
  <2>2. CASE i < k
    <3>1. i \in 1..Len(free') /\ free'[i] = t
      BY <1>1, <1>2, <1>3, <2>1, <2>2
    <3>. QED BY <3>1 DEF InList
  <2>3. CASE i > k
    <3>1. i - 1 \in 1..Len(free') /\ ~(i - 1 < k) /\ (i - 1) + 1 = i
      BY <1>1, <1>2, <2>3
    <3>2. free'[i - 1] = t
      BY <1>3, <2>1, <3>1
    <3>. QED BY <3>1, <3>2 DEF InList
  <2>. QED BY <1>1, <1>4, <2>1, <2>2, <2>3
<1>5. \A i \in 1..Len(free') : /\ (IF i < k THEN i ELSE i + 1) \in 1..Len(free) \ {k}
                              /\ free'[i] = free[IF i < k THEN i ELSE i + 1]
  BY <1>1, <1>2, <1>3
<1>6. \A t : InList(t)' => InList(t) /\ t # free[k]
  BY <1>5 DEF InList, Distinct
<1>7. Distinct(free')
  <2>. SUFFICES ASSUME NEW i \in 1..Len(free'), NEW j \in 1..Len(free'), free'[i] = free'[j] PROVE i = j
    BY DEF Distinct
  <2>. DEFINE at(n) == IF n < k THEN n ELSE n + 1
  <2>1. /\ at(i) \in 1..Len(free) /\ free'[i] = free[at(i)]
        /\ at(j) \in 1..Len(free) /\ free'[j] = free[at(j)]
    BY <1>5
  <2>2. at(i) = at(j)
    <3>. HIDE DEF at
    <3>. QED BY <2>1 DEF Distinct
  <2>. QED BY <1>1, <1>2, <2>2
<1>8. InList(free[k])
  BY DEF InList
<1>. HIDE DEF Distinct
<1>. QED BY <1>2, <1>4, <1>6, <1>7, <1>8

LEMMA PoppedBack ==
    ASSUME free \in Seq(Subnet), free # <<>>, Distinct(free), free' = Front(free)
    PROVE  /\ free' \in Seq(Subnet) /\ Last(free) \in Subnet
           /\ \A t : InList(t)' <=> InList(t) /\ t # Last(free)
           /\ InList(Last(free)) /\ Distinct(free')
<1>1. /\ free' \in Seq(Subnet) /\ Len(free') = Len(free) - 1 /\ Len(free) \in Nat \ {0}
      /\ \A i \in 1..Len(free') : free'[i] = free[i]
  <2>1. Len(free) \in Nat /\ Len(free) # 0 /\ free' = SubSeq(free, 1, Len(free) - 1)
    BY DEF Front
  <2>2. PICK k \in 1..Len(free) : k = Len(free)
    BY <2>1
  <2>3. /\ SubSeq(free, 1, k - 1) \in Seq(Subnet) /\ Len(SubSeq(free, 1, k - 1)) = k - 1
        /\ \A i \in 1..(k - 1) : SubSeq(free, 1, k - 1)[i] = free[i]
    OBVIOUS
  <2>. QED BY <2>1, <2>2, <2>3
<1>2. Last(free) = free[Len(free)] /\ Len(free) \in 1..Len(free)
  BY <1>1 DEF Last
<1>3. \A i \in 1..Len(free) : i \in 1..Len(free') \/ i = Len(free)
  BY <1>1
<1>4. \A i \in 1..Len(free') : i \in 1..Len(free) /\ i # Len(free)
  BY <1>1
<1>5. ASSUME NEW t PROVE InList(t)' <=> InList(t) /\ t # Last(free)
  <2>1. ASSUME InList(t)' PROVE InList(t) /\ t # Last(free)
    <3>1. PICK i \in 1..Len(free') : free'[i] = t
      BY <2>1 DEF InList
    <3>2. i \in 1..Len(free) /\ i # Len(free) /\ free[i] = t
      BY <1>1, <1>4, <3>1
    <3>. QED BY <1>2, <3>2 DEF InList, Distinct
  <2>2. ASSUME InList(t), t # Last(free) PROVE InList(t)'
    BY <1>1, <1>2, <1>3, <2>2 DEF InList
  <2>. QED BY <2>1, <2>2
<1>6. InList(Last(free))
  BY <1>2 DEF InList
<1>7. Distinct(free')
  BY <1>1, <1>4 DEF Distinct
<1>. QED BY <1>1, <1>2, <1>5, <1>6, <1>7

-----------------------------------------------------------------------------
(***************************************************************************)
(* The subnet pool, as the providers use it.                               *)
(***************************************************************************)

\* What is typed of the pool, and what is free in it is in its queue.
PoolTyped ==
    /\ next \in 0 .. N /\ taken \subseteq Subnet /\ free_set \subseteq Nets /\ free_q \in Seq(Nets)
    /\ \A n \in free_set : n < 0 /\ \E i \in 1..Len(free_q) : free_q[i] = n

LEMMA PoolTypes == ASSUME NInv PROVE PoolTyped
<1>1. /\ next \in 0 .. N /\ taken \subseteq Subnet /\ free_set \subseteq Nets /\ free_q \in Seq(Nets)
      /\ \A n \in free_set : n < 0 /\ n \in Range(free_q)
  BY DEF NInv, TypeOK, PoolAt
<1>2. \A n \in Range(free_q) : \E i \in 1..Len(free_q) : free_q[i] = n
  BY <1>1 DEF Range
<1>. QED BY <1>1, <1>2 DEF PoolTyped

LEMMA RangeFacts ==
    ASSUME PoolTyped' PROVE (\A n \in free_set : n < 0 /\ n \in Range(free_q))'
<1>1. free_q' \in Seq(Nets) /\ \A i \in 1..Len(free_q') : free_q'[i] \in Range(free_q')
  BY DEF PoolTyped, Range
<1>. QED BY <1>1 DEF PoolTyped

\* get_next: the net it returns leaves the pool, and nothing else does.
LEMMA GetNext ==
    ASSUME PoolTyped, NEW n \in Nets \cup {NoOne}, Pool!get_next(n)
    PROVE  /\ PoolTyped' /\ taken' = taken
           /\ n # NoOne => NetOf(n) \in Subnet /\ (InPool(NetOf(n)) \/ InIter(NetOf(n)))
           /\ \A t \in Subnet : n = NoOne \/ t # NetOf(n) =>
                (InPool(t)' <=> InPool(t)) /\ (InIter(t)' <=> InIter(t))
           /\ \A t \in Subnet : n # NoOne /\ t = NetOf(n) =>
                ~InPool(t)' /\ (InIter(t)' => InPool(t) /\ InIter(t))
<1>0. Pool!Live = {i \in 1..Len(free_q) : free_q[i] \in free_set}
  BY DEF Pool!Live, PoolTyped
<1>1. CASE \E i \in Pool!Live :
        /\ \A j \in Pool!Live : i <= j
        /\ n = free_q[i]
        /\ free_q' = SubSeq(free_q, i + 1, Len(free_q))
        /\ free_set' = free_set \ {n}
        /\ UNCHANGED <<next, taken>>
  <2>1. PICK i \in 1..Len(free_q) :
          /\ free_q[i] \in free_set
          /\ \A j \in 1..Len(free_q) : free_q[j] \in free_set => i <= j
          /\ n = free_q[i]
          /\ free_q' = SubSeq(free_q, i + 1, Len(free_q))
          /\ free_set' = free_set \ {n}
          /\ UNCHANGED <<next, taken>>
    BY <1>0, <1>1
  <2>2. n \in Nets /\ n < 0 /\ NetOf(n) \in Subnet /\ Host(NetOf(n)) = n /\ n # NoOne
    BY <2>1, Numbers DEF PoolTyped
  <2>3. /\ free_q' \in Seq(Nets) /\ Len(free_q') = Len(free_q) - i /\ Len(free_q) \in Nat /\ i \in Nat
        /\ \A j \in 1..(Len(free_q) - i) : free_q'[j] = free_q[j + i]
    BY <2>1 DEF PoolTyped
  <2>4. ASSUME NEW m \in free_set' PROVE m < 0 /\ \E j \in 1..Len(free_q') : free_q'[j] = m
    <3>1. m \in free_set /\ m # n /\ m < 0
      BY <2>1, <2>4 DEF PoolTyped
    <3>2. PICK j \in 1..Len(free_q) : free_q[j] = m
      BY <3>1 DEF PoolTyped
    <3>3. j > i /\ j - i \in 1..Len(free_q') /\ (j - i) + i = j
      BY <2>1, <2>3, <3>1, <3>2
    <3>. QED BY <2>3, <3>1, <3>2, <3>3
  <2>5. PoolTyped'
    BY <2>1, <2>3, <2>4 DEF PoolTyped
  <2>6. \A t \in Subnet : (InPool(t)' <=> InPool(t) /\ t # NetOf(n)) /\ (InIter(t)' <=> InIter(t))
    BY <2>1, <2>2, Numbers DEF InPool, InIter
  <2>7. InPool(NetOf(n))
    BY <2>1, <2>2 DEF InPool
  <2>. QED BY <2>1, <2>2, <2>5, <2>6, <2>7
<1>2. CASE /\ Pool!Live = {}
           /\ free_q' = <<>>
           /\ \/ /\ n \in Pool!Untaken
                 /\ \A t \in Pool!Untaken : n <= t
                 /\ next' = n + 1
              \/ /\ Pool!Untaken = {} /\ n = NoOne
                 /\ next' = N
           /\ UNCHANGED <<taken, free_set>>
  <2>1. free_set = {}
    BY <1>2 DEF Pool!Live, PoolTyped
  <2>2. \A t \in Subnet : t \in Pool!Untaken <=> InIter(t)
    BY Numbers DEF Pool!Untaken, InIter, Subnet, PoolTyped
  <2>3. \A t \in Subnet : ~InPool(t) /\ ~InPool(t)'
    BY <1>2, <2>1 DEF InPool
  <2>4. CASE n = NoOne
    <3>1. next' = N /\ \A t \in Subnet : ~InIter(t)
      BY <1>2, <2>2, <2>4, Numbers DEF Pool!Untaken, Subnet, PoolTyped
    <3>2. \A t \in Subnet : ~InIter(t)'
      BY <3>1, Numbers DEF InIter
    <3>3. PoolTyped'
      BY <1>2, <2>1, <3>1, Numbers DEF PoolTyped
    <3>. QED BY <1>2, <2>3, <2>4, <3>1, <3>2, <3>3
  <2>5. CASE n # NoOne
    <3>1. n \in Pool!Untaken /\ next' = n + 1 /\ \A t \in Pool!Untaken : n <= t
      BY <1>2, <2>5
    <3>2. n \in Subnet /\ NetOf(n) = n /\ InIter(n) /\ n \in Nat /\ n < N
      BY <2>2, <3>1, Numbers DEF Pool!Untaken, Subnet, PoolTyped
    <3>3. \A t \in Subnet : InIter(t)' <=> InIter(t) /\ t # n
      <4>. SUFFICES ASSUME NEW t \in Subnet PROVE InIter(t)' <=> InIter(t) /\ t # n
        OBVIOUS
      <4>1. InIter(t) => n <= t
        BY <2>2, <3>1
      <4>. QED BY <1>2, <3>1, <3>2, <4>1, Numbers DEF InIter, PoolTyped
    <3>4. PoolTyped'
      BY <1>2, <2>1, <3>1, <3>2, Numbers DEF PoolTyped
    <3>. QED BY <1>2, <2>3, <2>5, <3>2, <3>3, <3>4
  <2>. QED BY <2>4, <2>5
<1>. QED BY <1>1, <1>2 DEF Pool!get_next

\* give_back of the guest's address: the subnet is free in the pool.
LEMMA GiveBack ==
    ASSUME PoolTyped, NEW s \in Subnet, ~InPool(s), Pool!give_back(Host(s))
    PROVE  /\ PoolTyped' /\ UNCHANGED <<next, taken>>
           /\ \A t \in Subnet : (InPool(t)' <=> InPool(t) \/ t = s) /\ (InIter(t)' <=> InIter(t))
<1>1. Host(s) \in Nets /\ Host(s) < 0 /\ Host(s) \notin taken /\ Host(s) \notin free_set
  BY Numbers DEF PoolTyped, InPool
<1>2. /\ UNCHANGED <<next, taken>> /\ free_set' = free_set \cup {Host(s)} /\ free_q' = Append(free_q, Host(s))
  BY <1>1 DEF Pool!give_back
<1>3. /\ free_q' \in Seq(Nets) /\ Len(free_q') = Len(free_q) + 1 /\ Len(free_q) \in Nat
      /\ free_q'[Len(free_q')] = Host(s) /\ \A i \in 1..Len(free_q) : free_q'[i] = free_q[i]
  BY <1>1, <1>2 DEF PoolTyped
<1>4. ASSUME NEW n \in free_set' PROVE n < 0 /\ \E i \in 1..Len(free_q') : free_q'[i] = n
  <2>1. CASE n = Host(s)
    <3>1. Len(free_q') \in 1..Len(free_q')
      BY <1>3
    <3>. QED BY <1>1, <1>3, <2>1, <3>1
  <2>2. CASE n \in free_set
    <3>1. n < 0
      BY <2>2 DEF PoolTyped
    <3>2. PICK i \in 1..Len(free_q) : free_q[i] = n
      BY <2>2 DEF PoolTyped
    <3>3. i \in 1..Len(free_q') /\ free_q'[i] = n
      BY <1>3, <3>2
    <3>. QED BY <3>1, <3>3
  <2>. QED BY <1>2, <1>4, <2>1, <2>2
<1>5. PoolTyped'
  BY <1>1, <1>2, <1>3, <1>4 DEF PoolTyped
<1>6. \A t \in Subnet : (InPool(t)' <=> InPool(t) \/ t = s) /\ (InIter(t)' <=> InIter(t))
  BY <1>2, Numbers DEF InPool, InIter
<1>. QED BY <1>2, <1>5, <1>6

\* get of a subnet that was not taken before: it is ahead of the iterator, and taken from it.
LEMMA Get ==
    ASSUME PoolTyped, NEW s \in Subnet \ taken, Pool!GetOk(s), Pool!get(s), UNCHANGED free_q
    PROVE  /\ PoolTyped' /\ InIter(s) /\ taken' \subseteq taken \cup {s}
           /\ \A t \in Subnet : (InPool(t)' <=> InPool(t)) /\ (InIter(t)' <=> InIter(t) /\ t # s)
<1>1. s \notin free_set
  BY Numbers DEF PoolTyped
<1>2. next < N /\ s >= next
  BY <1>1 DEF Pool!GetOk, Pool!Ahead
<1>3. InIter(s)
  BY <1>2 DEF InIter
<1>4. \/ s = next /\ next' = next + 1 /\ UNCHANGED <<taken, free_set>>
      \/ s > next /\ taken' = taken \cup {s} /\ UNCHANGED <<next, free_set>>
  BY <1>2 DEF Pool!get, Pool!Ahead
<1>5. PoolTyped'
  <2>1. next \in 0 .. N /\ N \in Nat /\ taken \subseteq Subnet
    BY Numbers DEF PoolTyped
  <2>2. next' \in 0 .. N /\ taken' \subseteq Subnet /\ UNCHANGED free_set
    BY <1>2, <1>4, <2>1
  <2>. QED BY <2>2 DEF PoolTyped
<1>6. \A t \in Subnet : (InPool(t)' <=> InPool(t)) /\ (InIter(t)' <=> InIter(t) /\ t # s)
  BY <1>2, <1>4, Numbers DEF InPool, InIter, PoolTyped
<1>. QED BY <1>3, <1>4, <1>5, <1>6

-----------------------------------------------------------------------------
(***************************************************************************)
(* The providers.                                                          *)
(***************************************************************************)

\* alloc: a device from the list, or a builder for a subnet from the pool.
LEMMA Alloc ==
    ASSUME NInv, man = "run", NEW tap \in TapType, alloc(tap)
    PROVE  /\ PoolTyped' /\ taken' = taken
           /\ free' \in Seq(Subnet) /\ Distinct(free') /\ (free = <<>> => free' = <<>>)
           /\ \A t \in Subnet : t # tap.s =>
                (InPool(t)' <=> InPool(t)) /\ (InIter(t)' <=> InIter(t)) /\ (InList(t)' <=> InList(t))
           /\ tap # NoTap =>
                /\ InPool(tap.s) \/ InIter(tap.s) \/ InList(tap.s)
                /\ \A t \in Subnet : t = tap.s => ~InPool(t)' /\ ~InIter(t)' /\ ~InList(t)'
                /\ tap.kind = "device" => InList(tap.s)
<1>1. free \in Seq(Subnet) /\ Distinct(free) /\ PoolTyped /\ ~boot.failed
  BY PoolTypes DEF NInv, TypeOK, PhaseAt, PlaceAt
<1>2. \A t \in Subnet : One(t)
  BY <1>1 DEF NInv, PlaceAt
<1>3. CASE /\ free # <<>> /\ tap = Tap(Last(free), "device") /\ free' = Front(free) /\ UNCHANGED pool_vars
  <2>1. /\ free' \in Seq(Subnet) /\ Last(free) \in Subnet /\ InList(Last(free)) /\ Distinct(free')
        /\ \A t : InList(t)' <=> InList(t) /\ t # Last(free)
    BY <1>1, <1>3, PoppedBack
  <2>2. UNCHANGED <<next, taken, free_q, free_set>>
    BY <1>3 DEF pool_vars
  <2>3. \A t \in Subnet : (InPool(t)' <=> InPool(t)) /\ (InIter(t)' <=> InIter(t))
    BY <2>2, PoolFrame
  <2>4. PoolTyped'
    BY <1>1, <2>2 DEF PoolTyped
  <2>5. tap.s = Last(free)
    BY <1>3
  <2>6. ~InPool(tap.s) /\ ~InIter(tap.s)
    BY <1>2, <2>1, <2>5 DEF One
  <2>. QED BY <1>3, <2>1, <2>2, <2>3, <2>4, <2>5, <2>6
<1>4. CASE /\ free = <<>> /\ AllocBuilder(tap) /\ UNCHANGED free
  <2>1. PICK n \in Nets \cup {NoOne} :
          Pool!get_next(n) /\ tap = IF n = NoOne THEN NoTap ELSE Tap(NetOf(n), "builder")
    BY <1>4 DEF AllocBuilder
  <2>2. /\ PoolTyped' /\ taken' = taken
        /\ n # NoOne => NetOf(n) \in Subnet /\ (InPool(NetOf(n)) \/ InIter(NetOf(n)))
        /\ \A t \in Subnet : n = NoOne \/ t # NetOf(n) =>
             (InPool(t)' <=> InPool(t)) /\ (InIter(t)' <=> InIter(t))
        /\ \A t \in Subnet : n # NoOne /\ t = NetOf(n) =>
             ~InPool(t)' /\ (InIter(t)' => InPool(t) /\ InIter(t))
    BY <1>1, <2>1, GetNext
  <2>3. \A t \in Subnet : ~InList(t) /\ ~InList(t)'
    BY <1>4 DEF InList
  <2>4. \A t \in Subnet : InPool(t) => ~InIter(t)
    BY <1>2 DEF One
  <2>5. free' \in Seq(Subnet) /\ Distinct(free')
    BY <1>1, <1>4
  <2>6. CASE n = NoOne
    <3>1. tap = NoTap /\ tap.s \notin Subnet
      BY <2>1, <2>6, Numbers
    <3>. QED BY <1>4, <2>2, <2>3, <2>5, <2>6, <3>1
  <2>7. CASE n # NoOne
    <3>1. tap.s = NetOf(n) /\ tap.kind = "builder"
      BY <2>1, <2>7
    <3>. QED BY <1>4, <2>2, <2>3, <2>4, <2>5, <2>7, <3>1
  <2>. QED BY <2>6, <2>7
<1>. QED BY <1>3, <1>4 DEF alloc

\* dealloc: the subnet goes to the pool, to the list or, when its device stays, nowhere.
LEMMA Dealloc ==
    ASSUME NInv, Alive, NEW tap \in TapType, tap # NoTap, dealloc(tap),
           ~InPool(tap.s), ~InList(tap.s), tap.s \notin lost
    PROVE  /\ PoolTyped' /\ UNCHANGED <<next, taken>>
           /\ free' \in Seq(Subnet) /\ Distinct(free') /\ (provider = "plain" => free' = free)
           /\ link' \in [Subnet -> {"absent", "partial", "torn", "up", "alien"}]
           /\ lost' \subseteq lost \cup {tap.s} /\ lost \subseteq lost'
           /\ \A t \in Subnet : t # tap.s =>
                /\ (InPool(t)' <=> InPool(t)) /\ (InIter(t)' <=> InIter(t)) /\ (InList(t)' <=> InList(t))
                /\ link'[t] = link[t]
           /\ \A t \in Subnet : t = tap.s =>
                /\ InIter(t)' <=> InIter(t)
                /\ InPool(t)' \/ InList(t)' \/ t \in lost'
                /\ InPool(t)' => ~InList(t)' /\ t \notin lost'
                /\ InList(t)' => t \notin lost' /\ tap.kind = "device"
                /\ link'[t] = link[t] \/ (link'[t] = "absent" /\ InPool(t)')
                /\ tap.kind = "device" /\ InPool(t)' => link'[t] = "absent"
<1>1. /\ free \in Seq(Subnet) /\ Distinct(free) /\ PoolTyped /\ tap.s \in Subnet
      /\ link \in [Subnet -> {"absent", "partial", "torn", "up", "alien"}]
      /\ tap.kind \in {"builder", "device"}
  BY PoolTypes, TapFacts DEF NInv, TypeOK, PlaceAt
<1>2. CASE /\ provider = "plain"
           /\ link' = IF tap.kind = "builder" THEN link ELSE [link EXCEPT ![tap.s] = "absent"]
           /\ Pool!give_back(Host(tap.s))
           /\ UNCHANGED <<free, lost>>
  <2>1. /\ PoolTyped' /\ UNCHANGED <<next, taken>>
        /\ \A t \in Subnet : (InPool(t)' <=> InPool(t) \/ t = tap.s) /\ (InIter(t)' <=> InIter(t))
    BY <1>1, <1>2, GiveBack
  <2>2. \A t : InList(t)' <=> InList(t)
    BY <1>2, ListFrame
  <2>3. /\ link' \in [Subnet -> {"absent", "partial", "torn", "up", "alien"}]
        /\ \A t \in Subnet : t # tap.s => link'[t] = link[t]
        /\ link'[tap.s] = IF tap.kind = "builder" THEN link[tap.s] ELSE "absent"
    BY <1>1, <1>2
  <2>. QED BY <1>1, <1>2, <2>1, <2>2, <2>3
<1>3. CASE /\ provider = "plain" /\ tap.kind = "device"
           /\ lost' = lost \cup {tap.s}
           /\ UNCHANGED <<next, taken, free_q, free_set, free, link>>
  <2>1. /\ \A t : InList(t)' <=> InList(t)
        /\ \A t : (InPool(t)' <=> InPool(t)) /\ (InIter(t)' <=> InIter(t))
    BY <1>3, ListFrame, PoolFrame
  <2>2. PoolTyped'
    BY <1>1, <1>3 DEF PoolTyped
  <2>. QED BY <1>1, <1>3, <2>1, <2>2
<1>4. CASE /\ provider = "pool" /\ tap.kind = "device"
           /\ free' = <<tap.s>> \o free
           /\ UNCHANGED <<next, taken, free_q, free_set, link, lost>>
  <2>1. /\ free' \in Seq(Subnet) /\ Distinct(free')
        /\ \A t : InList(t)' <=> InList(t) \/ t = tap.s
    BY <1>1, <1>4, PushedFront
  <2>2. \A t : (InPool(t)' <=> InPool(t)) /\ (InIter(t)' <=> InIter(t))
    BY <1>4, PoolFrame
  <2>3. PoolTyped'
    BY <1>1, <1>4 DEF PoolTyped
  <2>. QED BY <1>1, <1>4, <2>1, <2>2, <2>3
<1>. QED BY <1>2, <1>3, <1>4 DEF dealloc

\* One request to the kernel for a device changes the device of that subnet.
LEMMA Created ==
    ASSUME link \in [Subnet -> {"absent", "partial", "torn", "up", "alien"}], NEW s \in Subnet,
           NEW res \in IoctlResult, create_tap_device(s, res)
    PROVE  /\ link' \in [Subnet -> {"absent", "partial", "torn", "up", "alien"}]
           /\ \A t \in Subnet \ {s} : link'[t] = link[t]
           /\ res = "created" => link[s] = "absent" /\ link'[s] = "partial"
           /\ res # "created" => link' = link
           /\ res = "busy" => link[s] # "absent"
  BY DEF create_tap_device, IoctlResult

LEMMA Configured ==
    ASSUME link \in [Subnet -> {"absent", "partial", "torn", "up", "alien"}], NEW s \in Subnet,
           NEW ok \in BOOLEAN, configure(s, ok)
    PROVE  /\ link' \in [Subnet -> {"absent", "partial", "torn", "up", "alien"}]
           /\ \A t \in Subnet \ {s} : link'[t] = link[t]
           /\ ok => link'[s] = "up"
           /\ ~ok => link'[s] \in {link[s], "absent", "partial"}
  BY DEF configure, delete_tap, ConfigureSteps

-----------------------------------------------------------------------------
(***************************************************************************)
(* A Worker steps.                                                         *)
(***************************************************************************)

WorkerType == [pc : {"idle", "waiting", "gone", "granted", "building", "up"}, tap : TapType]

\* What a Worker may have, by where it is.
Fits(w) ==
    /\ w \in WorkerType
    /\ w.pc \in {"granted", "building"} => w.tap.kind = "builder"
    /\ w.pc = "up" => w.tap.kind = "device"
    /\ w.pc \in {"idle", "waiting", "gone"} => w.tap = NoTap

LEMMA FitsFacts ==
    /\ Fits(Idle) /\ Idle.pc = "idle" /\ Idle.tap = NoTap
    /\ \A pc \in {"waiting", "gone"} : Fits([pc |-> pc, tap |-> NoTap])
    /\ \A s \in Subnet : Fits([pc |-> "up", tap |-> Tap(s, "device")])
    /\ \A pc \in {"granted", "building"}, s \in Subnet : Fits([pc |-> pc, tap |-> Tap(s, "builder")])
  BY DEF Fits, WorkerType, TapType

\* Worker c has w from now on.
LEMMA WorkerSet ==
    ASSUME NInv, NEW c \in Workers, NEW w, Fits(w), worker' = [worker EXCEPT ![c] = w],
           w.tap = NoTap \/ w.tap.s = worker[c].tap.s \/ ~InWorker(w.tap.s)
    PROVE  /\ worker' \in [Workers -> WorkerType] /\ WorkerAt'
           /\ \A d \in Workers : worker'[d] = IF d = c THEN w ELSE worker[d]
           /\ \A t \in Subnet :
                /\ InWorker(t)' <=> (w.tap.s = t \/ (InWorker(t) /\ worker[c].tap.s # t))
                /\ Runs(t)' <=> ((w.pc = "up" /\ w.tap.s = t) \/ (Runs(t) /\ worker[c].tap.s # t))
                /\ Builds(t)' <=> ((w.pc = "building" /\ w.tap.s = t) \/ (Builds(t) /\ worker[c].tap.s # t))
<1>1. worker \in [Workers -> WorkerType]
  BY DEF NInv, TypeOK, WorkerType
<1>2. worker' \in [Workers -> WorkerType] /\ \A d \in Workers : worker'[d] = IF d = c THEN w ELSE worker[d]
  BY <1>1 DEF Fits
<1>3. \A d, e \in Workers : worker[d].tap.s = worker[e].tap.s => d = e \/ worker[d].tap = NoTap
  BY DEF NInv, WorkerAt
<1>4. \A d \in Workers, t \in Subnet : d # c /\ worker[d].tap.s = t => worker[c].tap.s # t
  BY <1>3, NoTapFacts
<1>5. ASSUME NEW t \in Subnet
      PROVE  /\ InWorker(t)' <=> (w.tap.s = t \/ (InWorker(t) /\ worker[c].tap.s # t))
             /\ Runs(t)' <=> ((w.pc = "up" /\ w.tap.s = t) \/ (Runs(t) /\ worker[c].tap.s # t))
             /\ Builds(t)' <=> ((w.pc = "building" /\ w.tap.s = t) \/ (Builds(t) /\ worker[c].tap.s # t))
  <2>1. InWorker(t)' <=> (w.tap.s = t \/ (InWorker(t) /\ worker[c].tap.s # t))
    BY <1>2, <1>4 DEF InWorker
  <2>2. Runs(t)' <=> ((w.pc = "up" /\ w.tap.s = t) \/ (Runs(t) /\ worker[c].tap.s # t))
    BY <1>2, <1>4 DEF Runs
  <2>3. Builds(t)' <=> ((w.pc = "building" /\ w.tap.s = t) \/ (Builds(t) /\ worker[c].tap.s # t))
    BY <1>2, <1>4 DEF Builds
  <2>. QED BY <2>1, <2>2, <2>3
<1>6. WorkerAt'
  <2>1. ASSUME NEW d \in Workers
        PROVE  /\ worker'[d].pc \in {"granted", "building"} => worker'[d].tap.kind = "builder"
               /\ worker'[d].pc = "up" => worker'[d].tap.kind = "device"
               /\ worker'[d].pc \in {"idle", "waiting", "gone"} => worker'[d].tap = NoTap
    BY <1>2 DEF NInv, WorkerAt, Fits
  <2>2. ASSUME NEW d \in Workers, d # c, w.tap.s = worker[d].tap.s PROVE w.tap = NoTap /\ worker[d].tap = NoTap
    <3>1. w.tap \in TapType /\ worker[d].tap \in TapType /\ worker[c].tap \in TapType
      BY <1>1 DEF Fits, WorkerType
    <3>2. w.tap = NoTap
      <4>1. SUFFICES ASSUME w.tap # NoTap PROVE FALSE
        OBVIOUS
      <4>2. w.tap.s \in Subnet /\ w.tap.s # worker[c].tap.s
        BY <1>4, <2>2, <3>1, <4>1, TapFacts
      <4>3. InWorker(w.tap.s)
        BY <2>2 DEF InWorker
      <4>. QED BY <4>1, <4>2, <4>3
    <3>3. worker[d].tap = NoTap
      BY <2>2, <3>1, <3>2, TapFacts, NoTapFacts
    <3>. QED BY <3>2, <3>3
  <2>3. ASSUME NEW d \in Workers, NEW e \in Workers, worker'[d].tap.s = worker'[e].tap.s
        PROVE  d = e \/ worker'[d].tap = NoTap
    <3>1. CASE d = c /\ e # c
      BY <1>2, <2>2, <2>3, <3>1
    <3>2. CASE d # c /\ e = c
      BY <1>2, <2>2, <2>3, <3>2
    <3>3. CASE d # c /\ e # c
      BY <1>2, <1>3, <2>3, <3>3
    <3>. QED BY <3>1, <3>2, <3>3
  <2>. QED BY <2>1, <2>3 DEF WorkerAt
<1>. QED BY <1>2, <1>5, <1>6

\* Once the snapshots are reinstated nothing is requested any more.
LEMMA NoRequest ==
    ASSUME boot'.todo = {}, ~boot'.asked, man' # "build", \A i \in 1..Len(q') : q'[i].m # "Request" PROVE RequestAt'
  BY DEF RequestAt

LEMMA BusyIsReinstated ==
    ASSUME NInv, NEW c \in Workers, worker[c] # Idle PROVE Reinstated
  BY DEF NInv, RequestAt

\* The channel when at most a Tap is sent back.
LEMMA SentBack ==
    ASSUME q \in Seq(Message), DistinctCallers(q),
           \/ UNCHANGED q
           \/ Serving /\ \E s \in Subnet : q' = Append(q, Msg("Deallocate", NoOne, Tap(s, "device")))
    PROVE  /\ q' \in Seq(Message) /\ DistinctCallers(q')
           /\ \A i \in 1..Len(q') : (i \in 1..Len(q) /\ q'[i] = q[i]) \/ q'[i].m = "Deallocate"
           /\ ~Serving => q' = q
<1>1. CASE UNCHANGED q
  BY <1>1
<1>2. CASE Serving /\ \E s \in Subnet : q' = Append(q, Msg("Deallocate", NoOne, Tap(s, "device")))
  <2>1. PICK s \in Subnet : q' = Append(q, Msg("Deallocate", NoOne, Tap(s, "device")))
    BY <1>2
  <2>2. Msg("Deallocate", NoOne, Tap(s, "device")) \in Message /\ Msg("Deallocate", NoOne, Tap(s, "device")).m = "Deallocate"
    BY DEF Message
  <2>. HIDE DEF Msg
  <2>3. /\ q' \in Seq(Message) /\ DistinctCallers(q')
        /\ \A i \in 1..Len(q') : (i \in 1..Len(q) /\ q'[i] = q[i]) \/ q'[i].m = "Deallocate"
    BY <2>1, <2>2, Sent
  <2>. QED BY <1>2, <2>3
<1>. QED BY <1>1, <1>2

\* What such a step leaves as it is: it changes the device, the Worker's Tap, the snapshots, the
\* rows or what is lost, and sends at most the Tap back.
LEMMA WorkerKeeps ==
    ASSUME NInv, NEW c \in Workers, WorkerStep(c), Reinstated, NEW w, Fits(w), worker' = [worker EXCEPT ![c] = w],
           w.tap = NoTap \/ w.tap.s = worker[c].tap.s \/ ~InWorker(w.tap.s),
           worker[c].pc \notin {"waiting", "gone"} \/ w.pc \in {"waiting", "gone"},
           \/ UNCHANGED q
           \/ Serving /\ \E s \in Subnet : q' = Append(q, Msg("Deallocate", NoOne, Tap(s, "device")))
    PROVE  /\ PhaseAt' /\ WorkerAt' /\ QueueAt' /\ RequestAt' /\ PoolAt'
           /\ worker' \in [Workers -> WorkerType] /\ q' \in Seq(Message)
           /\ UNCHANGED <<provider, next, taken, free_q, free_set, free, man, job, boot, lives>>
           /\ \A t \in Subnet : (InPool(t)' <=> InPool(t)) /\ (InIter(t)' <=> InIter(t)) /\ (InList(t)' <=> InList(t))
           /\ man \notin {"down", "boot"} /\ ~boot.failed
<1>1. /\ UNCHANGED <<provider, next, taken, free_q, free_set, free, man, job, boot, lives>>
      /\ man \in {"run", "build", "undo", "quit"}
  BY DEF WorkerStep
<1>2. q \in Seq(Message)
  BY DEF NInv, TypeOK
<1>3. /\ worker' \in [Workers -> WorkerType] /\ WorkerAt'
      /\ \A d \in Workers : worker'[d] = IF d = c THEN w ELSE worker[d]
  BY WorkerSet
<1>4. \A t \in Subnet : (InPool(t)' <=> InPool(t)) /\ (InIter(t)' <=> InIter(t)) /\ (InList(t)' <=> InList(t))
  BY <1>1, PoolFrame, ListFrame
<1>5. PoolAt'
  BY <1>1 DEF NInv, PoolAt
<1>6. /\ q' \in Seq(Message) /\ DistinctCallers(q')
      /\ \A i \in 1..Len(q') : (i \in 1..Len(q) /\ q'[i] = q[i]) \/ q'[i].m = "Deallocate"
  <2>1. DistinctCallers(q)
    BY DEF NInv, QueueAt
  <2>. QED BY <1>2, <2>1, SentBack
<1>7. QueueAt'
  <2>. SUFFICES ASSUME NEW i \in 1..Len(q'), q'[i].m = "Allocate" PROVE worker'[q'[i].c].pc \in {"waiting", "gone"}
    BY <1>6 DEF QueueAt
  <2>1. i \in 1..Len(q) /\ q'[i] = q[i] /\ q[i] \in Message /\ q[i].c \in Workers
    <3>1. i \in 1..Len(q) /\ q'[i] = q[i]
      BY <1>6
    <3>2. q[i] \in Message
      BY <1>2, <3>1
    <3>. QED BY <3>1, <3>2, MessageFacts
  <2>2. worker[q[i].c].pc \in {"waiting", "gone"}
    BY <2>1 DEF NInv, QueueAt
  <2>. QED BY <1>3, <2>1, <2>2
<1>8. RequestAt'
  <2>1. man # "build" /\ \A i \in 1..Len(q) : q[i].m # "Request"
    BY DEF NInv, RequestAt
  <2>. QED BY <1>1, <1>6, <2>1, NoRequest
<1>9. PhaseAt'
  BY <1>1, <1>6 DEF NInv, PhaseAt
<1>10. ~boot.failed
  BY <1>1 DEF NInv, PhaseAt
<1>. QED BY <1>1, <1>3, <1>4, <1>5, <1>6, <1>7, <1>8, <1>9, <1>10

\* What the invariant says of a subnet while a process is alive.
LEMMA SubnetFacts ==
    ASSUME NInv, Alive, NEW t \in Subnet
    PROVE  /\ One(t) /\ link \in [Subnet -> {"absent", "partial", "torn", "up", "alien"}]
           /\ t \in snaps \/ Runs(t) \/ InList(t) \/ InQueue(t) \/ (job.s = t /\ job.kind = "device")
                => link[t] \notin {"absent", "partial"}
           /\ link[t] = "partial" => Making(t)
           /\ provider = "plain" /\ link[t] \in {"torn", "alien"} =>
                (t \in snaps \/ Runs(t) => t \in rows) /\ (t \in leaving => InQueue(t) \/ t \in lost)
           /\ Runs(t) => InWorker(t)
           /\ Builds(t) => InWorker(t)
           /\ ~(Runs(t) /\ Builds(t))
<1>1. \A c, d \in Workers : worker[c].tap.s = t /\ worker[d].tap.s = t => c = d
  BY NoTapFacts DEF NInv, WorkerAt
<1>2. /\ Runs(t) => InWorker(t)
      /\ Builds(t) => InWorker(t)
      /\ ~(Runs(t) /\ Builds(t))
  BY <1>1 DEF Runs, Builds, InWorker
<1>3. One(t) /\ link \in [Subnet -> {"absent", "partial", "torn", "up", "alien"}]
  BY DEF NInv, TypeOK, PlaceAt
<1>4. /\ t \in snaps \/ Runs(t) \/ InList(t) \/ InQueue(t) \/ (job.s = t /\ job.kind = "device")
           => link[t] \notin {"absent", "partial"}
      /\ link[t] = "partial" => Making(t)
  BY DEF NInv, LinkAt
<1>5. provider = "plain" /\ link[t] \in {"torn", "alien"} =>
        (t \in snaps \/ Runs(t) => t \in rows) /\ (t \in leaving => InQueue(t) \/ t \in lost)
  BY DEF NInv, FreshAt
<1>. QED BY <1>2, <1>3, <1>4, <1>5

\* And what is to be shown of it, subnet by subnet.
SubnetAt(t) ==
    /\ One(t)
    /\ t \in snaps \/ Runs(t) \/ InList(t) \/ InQueue(t) \/ (job.s = t /\ job.kind = "device")
         => link[t] \notin {"absent", "partial"}
    /\ link[t] = "partial" => Making(t)
    /\ provider = "plain" /\ link[t] \in {"torn", "alien"} =>
         (t \in snaps \/ Runs(t) => t \in rows) /\ (t \in leaving => InQueue(t) \/ t \in lost)

LEMMA SubnetsAt ==
    ASSUME (Alive /\ Distinct(free) /\ DistinctTaps(q) /\ \A t \in Subnet : SubnetAt(t))'
    PROVE  PlaceAt' /\ LinkAt' /\ FreshAt'
<1>1. PlaceAt'
  BY DEF SubnetAt, PlaceAt
<1>2. LinkAt'
  BY DEF SubnetAt, LinkAt
<1>3. FreshAt'
  BY DEF SubnetAt, FreshAt
<1>. QED BY <1>1, <1>2, <1>3

LEMMA WorkerTap ==
    ASSUME NInv, NEW c \in Workers, worker[c].pc \in {"granted", "building", "up"}
    PROVE  /\ worker[c].tap.s \in Subnet /\ InWorker(worker[c].tap.s) /\ Reinstated
           /\ worker[c].pc # "up" => worker[c] = [pc |-> worker[c].pc, tap |-> Tap(worker[c].tap.s, "builder")]
           /\ worker[c].pc = "up" => worker[c] = [pc |-> "up", tap |-> Tap(worker[c].tap.s, "device")]
<1>1. worker[c].tap.s \in Subnet /\ worker[c].tap \in TapType /\ worker[c] = [pc |-> worker[c].pc, tap |-> worker[c].tap]
  BY WorkerFacts
<1>2. worker[c].tap # NoTap
  BY <1>1, NoTapFacts
<1>3. worker[c].tap = [s |-> worker[c].tap.s, kind |-> worker[c].tap.kind]
  BY <1>1, <1>2, TapFacts
<1>4. /\ worker[c].pc # "up" => worker[c].tap.kind = "builder"
      /\ worker[c].pc = "up" => worker[c].tap.kind = "device"
  BY DEF NInv, WorkerAt
<1>5. Reinstated
  BY BusyIsReinstated
<1>6. InWorker(worker[c].tap.s)
  BY DEF InWorker
<1>. QED BY <1>1, <1>3, <1>4, <1>5, <1>6

\* The step as a whole.
LEMMA WorkerDone ==
    ASSUME NInv, NEW c \in Workers, WorkerStep(c), Reinstated, NEW w, Fits(w), worker' = [worker EXCEPT ![c] = w],
           w.tap = NoTap \/ w.tap.s = worker[c].tap.s \/ ~InWorker(w.tap.s),
           worker[c].pc \notin {"waiting", "gone"} \/ w.pc \in {"waiting", "gone"},
           \/ UNCHANGED q
           \/ Serving /\ \E s \in Subnet : q' = Append(q, Msg("Deallocate", NoOne, Tap(s, "device"))),
           link' \in [Subnet -> {"absent", "partial", "torn", "up", "alien"}],
           snaps' \subseteq Subnet, lost' \subseteq Subnet, rows' \subseteq Subnet, leaving' \subseteq rows',
           DistinctTaps(q'), \A t \in Subnet : SubnetAt(t)'
    PROVE  NInv'
<1>1. /\ PhaseAt' /\ WorkerAt' /\ QueueAt' /\ RequestAt' /\ PoolAt'
      /\ worker' \in [Workers -> WorkerType] /\ q' \in Seq(Message)
      /\ UNCHANGED <<provider, next, taken, free_q, free_set, free, man, job, boot, lives>>
      /\ man \notin {"down", "boot"} /\ ~boot.failed
  BY WorkerKeeps
<1>2. TypeOK'
  BY <1>1 DEF NInv, TypeOK, WorkerType
<1>3. Distinct(free')
  BY <1>1 DEF NInv, PlaceAt
<1>4. PlaceAt' /\ LinkAt' /\ FreshAt'
  BY <1>1, <1>3, SubnetsAt
<1>. QED BY <1>1, <1>2, <1>4 DEF NInv

\* Where a Worker's step leaves the other places of a subnet.
LEMMA WorkerStepFacts ==
    ASSUME NInv, NEW c \in Workers, WorkerStep(c)
    PROVE  /\ UNCHANGED <<provider, man, job, boot>> /\ Alive
           /\ \A t \in Subnet : (InPool(t)' <=> InPool(t)) /\ (InIter(t)' <=> InIter(t)) /\ (InList(t)' <=> InList(t))
           /\ link \in [Subnet -> {"absent", "partial", "torn", "up", "alien"}]
           /\ snaps \subseteq Subnet /\ lost \subseteq Subnet /\ rows \subseteq Subnet /\ leaving \subseteq rows
           /\ q \in Seq(Message) /\ DistinctTaps(q)
           /\ \A t \in Subnet : SubnetAt(t) /\ (Runs(t) => InWorker(t)) /\ (Builds(t) => InWorker(t))
                                /\ ~(Runs(t) /\ Builds(t))
<1>1. /\ UNCHANGED <<provider, next, taken, free_q, free_set, free, man, job, boot, lives>>
      /\ man \in {"run", "build", "undo", "quit"}
  BY DEF WorkerStep
<1>2. Alive
  BY <1>1 DEF NInv, PhaseAt
<1>3. \A t \in Subnet : (InPool(t)' <=> InPool(t)) /\ (InIter(t)' <=> InIter(t)) /\ (InList(t)' <=> InList(t))
  BY <1>1, PoolFrame, ListFrame
<1>4. /\ link \in [Subnet -> {"absent", "partial", "torn", "up", "alien"}]
      /\ snaps \subseteq Subnet /\ lost \subseteq Subnet /\ rows \subseteq Subnet /\ leaving \subseteq rows
      /\ q \in Seq(Message)
  BY DEF NInv, TypeOK
<1>5. DistinctTaps(q)
  BY <1>2 DEF NInv, PlaceAt
<1>6. \A t \in Subnet : SubnetAt(t) /\ (Runs(t) => InWorker(t)) /\ (Builds(t) => InWorker(t))
                        /\ ~(Runs(t) /\ Builds(t))
  BY <1>2, SubnetFacts DEF SubnetAt
<1>. QED BY <1>1, <1>2, <1>3, <1>4, <1>5, <1>6

LEMMA WBuildStep == ASSUME NInv, NEW c \in Workers, WBuild(c) PROVE NInv'
<1>. DEFINE s == worker[c].tap.s
<1>1. /\ s \in Subnet /\ InWorker(s) /\ Reinstated /\ WorkerStep(c)
      /\ worker[c] = [pc |-> "granted", tap |-> Tap(s, "builder")]
  BY WorkerTap DEF WBuild
<1>2. PICK res \in IoctlResult :
        /\ create_tap_device(s, res)
        /\ worker' = [worker EXCEPT ![c] = IF res = "created" THEN [worker[c] EXCEPT !.pc = "building"] ELSE Idle]
        /\ lost' = IF res = "created" THEN lost ELSE lost \cup {s}
  BY DEF WBuild, build
<1>3. UNCHANGED <<q, snaps, rows, leaving>>
  BY DEF WBuild
<1>. DEFINE w == IF res = "created" THEN [pc |-> "building", tap |-> Tap(s, "builder")] ELSE Idle
<1>4. worker' = [worker EXCEPT ![c] = w]
  <2>1. [worker[c] EXCEPT !.pc = "building"] = [pc |-> "building", tap |-> Tap(s, "builder")]
    BY <1>1
  <2>. QED BY <1>2, <2>1
<1>5. /\ Fits(w) /\ (res = "created" => w.pc = "building" /\ w.tap.s = s)
      /\ (res # "created" => w.pc = "idle" /\ w.tap = NoTap /\ w.tap.s \notin Subnet)
  BY <1>1, FitsFacts, NoTapFacts
<1>. HIDE DEF w
<1>6. w.tap = NoTap \/ w.tap.s = worker[c].tap.s
  BY <1>5
<1>7. \A t \in Subnet :
        /\ InWorker(t)' <=> (w.tap.s = t \/ (InWorker(t) /\ s # t))
        /\ Runs(t)' <=> ((w.pc = "up" /\ w.tap.s = t) \/ (Runs(t) /\ s # t))
        /\ Builds(t)' <=> ((w.pc = "building" /\ w.tap.s = t) \/ (Builds(t) /\ s # t))
  <2>1. w.tap = NoTap \/ w.tap.s = worker[c].tap.s \/ ~InWorker(w.tap.s)
    BY <1>6
  <2>2. Fits(w)
    BY <1>5
  <2>. QED BY <1>4, <2>1, <2>2, WorkerSet
<1>8. worker[c].pc = "granted"
  BY <1>1
<1>. HIDE DEF s
<1>9. /\ link' \in [Subnet -> {"absent", "partial", "torn", "up", "alien"}]
      /\ \A t \in Subnet \ {s} : link'[t] = link[t]
      /\ res = "created" => link[s] = "absent" /\ link'[s] = "partial"
      /\ res # "created" => link' = link
  BY <1>1, <1>2, WorkerStepFacts, Created
<1>10. ASSUME NEW t \in Subnet PROVE SubnetAt(t)'
  <2>1. /\ SubnetAt(t) /\ (Runs(t) => InWorker(t)) /\ (Builds(t) => InWorker(t))
        /\ (InPool(t)' <=> InPool(t)) /\ (InIter(t)' <=> InIter(t)) /\ (InList(t)' <=> InList(t))
        /\ (InQueue(t)' <=> InQueue(t))
        /\ UNCHANGED <<provider, man, job, boot>>
    BY <1>1, <1>3, WorkerStepFacts, QueueFrame
  <2>2. One(t)'
    BY <1>1, <1>2, <1>3, <1>5, <1>7, <2>1 DEF One, SubnetAt
  <2>3. Making(t) /\ t # s => Making(t)'
    BY <1>2, <1>7, <2>1 DEF Making
  <2>4. t = s => (link'[t] = "partial" => Making(t)')
    BY <1>2, <1>5, <1>7, <2>1 DEF Making
  <2>. QED BY <1>1, <1>2, <1>3, <1>5, <1>7, <1>9, <2>1, <2>2, <2>3, <2>4 DEF SubnetAt, One
<1>11. /\ snaps' \subseteq Subnet /\ lost' \subseteq Subnet /\ rows' \subseteq Subnet /\ leaving' \subseteq rows'
       /\ DistinctTaps(q')
  BY <1>1, <1>2, <1>3, WorkerStepFacts
<1>. QED BY <1>1, <1>3, <1>4, <1>5, <1>6, <1>8, <1>9, <1>10, <1>11, WorkerDone

LEMMA WBuiltStep == ASSUME NInv, NEW c \in Workers, WBuilt(c) PROVE NInv'
<1>. DEFINE s == worker[c].tap.s
<1>1. /\ s \in Subnet /\ InWorker(s) /\ Reinstated /\ WorkerStep(c)
      /\ worker[c] = [pc |-> "building", tap |-> Tap(s, "builder")]
  BY WorkerTap DEF WBuilt
<1>2. PICK ok \in BOOLEAN :
        /\ configure(s, ok)
        /\ worker' = [worker EXCEPT ![c] = IF ok THEN [pc |-> "up", tap |-> Tap(s, "device")] ELSE Idle]
        /\ lost' = IF ok THEN lost ELSE lost \cup {s}
  BY DEF WBuilt
<1>3. UNCHANGED <<q, snaps, rows, leaving>>
  BY DEF WBuilt
<1>. DEFINE w == IF ok THEN [pc |-> "up", tap |-> Tap(s, "device")] ELSE Idle
<1>4. worker' = [worker EXCEPT ![c] = w]
  BY <1>2
<1>5. /\ Fits(w) /\ (ok => w.pc = "up" /\ w.tap.s = s)
      /\ (~ok => w.pc = "idle" /\ w.tap = NoTap /\ w.tap.s \notin Subnet)
  BY <1>1, FitsFacts, NoTapFacts
<1>. HIDE DEF w
<1>6. w.tap = NoTap \/ w.tap.s = worker[c].tap.s
  BY <1>5
<1>7. \A t \in Subnet :
        /\ InWorker(t)' <=> (w.tap.s = t \/ (InWorker(t) /\ s # t))
        /\ Runs(t)' <=> ((w.pc = "up" /\ w.tap.s = t) \/ (Runs(t) /\ s # t))
        /\ Builds(t)' <=> ((w.pc = "building" /\ w.tap.s = t) \/ (Builds(t) /\ s # t))
  BY <1>4, <1>5, <1>6, WorkerSet
<1>8. worker[c].pc = "building" /\ Builds(s)
  BY <1>1 DEF Builds
<1>. HIDE DEF s
<1>9. /\ link' \in [Subnet -> {"absent", "partial", "torn", "up", "alien"}]
      /\ \A t \in Subnet \ {s} : link'[t] = link[t]
      /\ ok => link'[s] = "up"
  BY <1>1, <1>2, WorkerStepFacts, Configured
<1>10. ASSUME NEW t \in Subnet PROVE SubnetAt(t)'
  <2>1. /\ SubnetAt(t) /\ (Runs(t) => InWorker(t)) /\ (Builds(t) => InWorker(t)) /\ ~(Runs(t) /\ Builds(t))
        /\ (InPool(t)' <=> InPool(t)) /\ (InIter(t)' <=> InIter(t)) /\ (InList(t)' <=> InList(t))
        /\ (InQueue(t)' <=> InQueue(t))
        /\ UNCHANGED <<provider, man, job, boot>>
    BY <1>1, <1>3, WorkerStepFacts, QueueFrame
  <2>2. One(t)'
    BY <1>1, <1>2, <1>3, <1>5, <1>7, <2>1 DEF One, SubnetAt
  <2>3. Making(t) /\ t # s => Making(t)'
    BY <1>2, <1>7, <2>1 DEF Making
  <2>4. CASE t # s
    BY <1>2, <1>3, <1>5, <1>7, <1>9, <2>1, <2>2, <2>3, <2>4 DEF SubnetAt
  <2>5. CASE t = s /\ ok
    BY <1>2, <1>5, <1>7, <1>9, <2>2, <2>5 DEF SubnetAt
  <2>6. CASE t = s /\ ~ok
    <3>1. t \in lost' /\ Making(t)'
      BY <1>2, <2>6 DEF Making
    <3>. QED BY <2>2, <3>1, <1>7, <1>5, <2>6 DEF SubnetAt, One
  <2>. QED BY <2>4, <2>5, <2>6
<1>11. /\ snaps' \subseteq Subnet /\ lost' \subseteq Subnet /\ rows' \subseteq Subnet /\ leaving' \subseteq rows'
       /\ DistinctTaps(q')
  BY <1>1, <1>2, <1>3, WorkerStepFacts
<1>. QED BY <1>1, <1>3, <1>4, <1>5, <1>6, <1>8, <1>9, <1>10, <1>11, WorkerDone

\* A Worker that has no Tap, before the step or after it.
LEMMA WorkerIdles ==
    ASSUME NInv, NEW c \in Workers, NEW w, Fits(w), worker' = [worker EXCEPT ![c] = w], w.tap = NoTap,
           worker[c].tap = NoTap
    PROVE  \A t \in Subnet : (InWorker(t)' <=> InWorker(t)) /\ (Runs(t)' <=> Runs(t)) /\ (Builds(t)' <=> Builds(t))
<1>1. w.tap.s \notin Subnet /\ worker[c].tap.s \notin Subnet
  BY NoTapFacts
<1>2. \A t \in Subnet :
        /\ InWorker(t)' <=> (w.tap.s = t \/ (InWorker(t) /\ worker[c].tap.s # t))
        /\ Runs(t)' <=> ((w.pc = "up" /\ w.tap.s = t) \/ (Runs(t) /\ worker[c].tap.s # t))
        /\ Builds(t)' <=> ((w.pc = "building" /\ w.tap.s = t) \/ (Builds(t) /\ worker[c].tap.s # t))
  BY WorkerSet
<1>. QED BY <1>1, <1>2

\* A subnet of which nothing changes.
LEMMA SubnetFrame ==
    ASSUME NEW t \in Subnet, SubnetAt(t), UNCHANGED <<provider, job, link, snaps, rows, leaving, lost>>,
           man' = "build" <=> man = "build", boot'.pre = boot.pre, boot'.half = boot.half,
           InWorker(t)' <=> InWorker(t), Runs(t)' <=> Runs(t), Builds(t)' <=> Builds(t), InPool(t)' <=> InPool(t),
           InIter(t)' <=> InIter(t), InList(t)' <=> InList(t), InQueue(t)' <=> InQueue(t)
    PROVE  SubnetAt(t)'
<1>1. One(t)'
  BY DEF SubnetAt, One
<1>2. Making(t)' <=> Making(t)
  BY DEF Making
<1>. QED BY <1>1, <1>2 DEF SubnetAt

LEMMA WVanishesStep == ASSUME NInv, NEW c \in Workers, WVanishes(c) PROVE NInv'
<1>. DEFINE w == [pc |-> "gone", tap |-> NoTap]
<1>1. worker[c].tap = NoTap /\ worker[c].pc = "waiting" /\ WorkerStep(c) /\ worker[c] = [pc |-> "waiting", tap |-> NoTap]
  <2>1. worker[c].pc = "waiting" /\ WorkerStep(c)
    BY DEF WVanishes
  <2>2. worker[c].tap = NoTap
    BY <2>1 DEF NInv, WorkerAt
  <2>. QED BY <2>1, <2>2, WorkerFacts
<1>2. worker' = [worker EXCEPT ![c] = w] /\ UNCHANGED <<link, q, snaps, rows, leaving, lost>>
  <2>1. [worker[c] EXCEPT !.pc = "gone"] = w
    BY <1>1
  <2>. QED BY <2>1 DEF WVanishes
<1>3. Fits(w) /\ w.tap = NoTap /\ w.pc = "gone" /\ Reinstated
  BY <1>1, FitsFacts, BusyIsReinstated
<1>. HIDE DEF w
<1>4. ASSUME NEW t \in Subnet PROVE SubnetAt(t)'
  BY <1>1, <1>2, <1>3, WorkerIdles, WorkerStepFacts, QueueFrame, SubnetFrame
<1>5. /\ link' \in [Subnet -> {"absent", "partial", "torn", "up", "alien"}]
      /\ snaps' \subseteq Subnet /\ lost' \subseteq Subnet /\ rows' \subseteq Subnet /\ leaving' \subseteq rows'
      /\ DistinctTaps(q')
  BY <1>1, <1>2, WorkerStepFacts
<1>. QED BY <1>1, <1>2, <1>3, <1>4, <1>5, WorkerDone

LEMMA WSnapshotStep == ASSUME NInv, NEW c \in Workers, WSnapshot(c) PROVE NInv'
<1>. DEFINE s == worker[c].tap.s
            w == [pc |-> "up", tap |-> Tap(s, "device")]
<1>1. /\ s \in Subnet /\ InWorker(s) /\ Reinstated /\ WorkerStep(c) /\ worker[c] = w /\ worker[c].pc = "up"
      /\ rows' = rows \cup {s} /\ UNCHANGED <<link, q, worker, snaps, leaving, lost>>
  BY WorkerTap DEF WSnapshot
<1>2. worker' = [worker EXCEPT ![c] = w]
  <2>1. worker \in [Workers -> WorkerType]
    BY DEF NInv, TypeOK, WorkerType
  <2>. QED BY <1>1, <2>1
<1>3. Fits(w) /\ w.tap.s = s
  BY <1>1, FitsFacts
<1>. HIDE DEF w, s
<1>4. w.tap.s = worker[c].tap.s
  BY <1>3 DEF s
<1>5. ASSUME NEW t \in Subnet PROVE SubnetAt(t)'
  <2>1. /\ SubnetAt(t) /\ UNCHANGED <<provider, man, job, boot>>
        /\ (InPool(t)' <=> InPool(t)) /\ (InIter(t)' <=> InIter(t)) /\ (InList(t)' <=> InList(t))
        /\ (InQueue(t)' <=> InQueue(t)) /\ (InWorker(t)' <=> InWorker(t))
        /\ (Runs(t)' <=> Runs(t)) /\ (Builds(t)' <=> Builds(t))
    BY <1>1, WorkerStepFacts, QueueFrame, WorkerFrame
  <2>2. One(t)'
    BY <1>1, <2>1 DEF SubnetAt, One
  <2>3. Making(t)' <=> Making(t)
    BY <1>1, <2>1 DEF Making
  <2>. QED BY <1>1, <2>1, <2>2, <2>3 DEF SubnetAt
<1>6. /\ link' \in [Subnet -> {"absent", "partial", "torn", "up", "alien"}]
      /\ snaps' \subseteq Subnet /\ lost' \subseteq Subnet /\ rows' \subseteq Subnet /\ leaving' \subseteq rows'
      /\ DistinctTaps(q')
  BY <1>1, WorkerStepFacts
<1>. QED BY <1>1, <1>2, <1>3, <1>4, <1>5, <1>6, WorkerDone

LEMMA WParksStep == ASSUME NInv, NEW c \in Workers, WParks(c) PROVE NInv'
<1>. DEFINE s == worker[c].tap.s
<1>1. /\ s \in Subnet /\ InWorker(s) /\ Reinstated /\ WorkerStep(c) /\ worker[c].pc = "up"
      /\ s \in rows /\ snaps' = snaps \cup {s} /\ worker' = [worker EXCEPT ![c] = Idle]
      /\ UNCHANGED <<link, q, rows, leaving, lost>>
  BY WorkerTap DEF WParks
<1>2. Fits(Idle) /\ Idle.tap = NoTap /\ Idle.tap.s \notin Subnet /\ Idle.pc = "idle"
  BY FitsFacts, NoTapFacts
<1>3. Runs(s)
  BY <1>1 DEF Runs
<1>. HIDE DEF Idle
<1>4. \A t \in Subnet : /\ InWorker(t)' <=> (InWorker(t) /\ s # t)
                        /\ Runs(t)' <=> (Runs(t) /\ s # t)
                        /\ Builds(t)' <=> (Builds(t) /\ s # t)
  BY <1>1, <1>2, WorkerSet
<1>. HIDE DEF s
<1>5. ASSUME NEW t \in Subnet PROVE SubnetAt(t)'
  <2>1. /\ SubnetAt(t) /\ UNCHANGED <<provider, man, job, boot>>
        /\ (InPool(t)' <=> InPool(t)) /\ (InIter(t)' <=> InIter(t)) /\ (InList(t)' <=> InList(t))
        /\ (InQueue(t)' <=> InQueue(t)) /\ (Runs(t) => InWorker(t)) /\ ~(Runs(t) /\ Builds(t))
    BY <1>1, WorkerStepFacts, QueueFrame
  <2>2. One(t)'
    BY <1>1, <1>4, <2>1 DEF SubnetAt, One
  <2>3. Making(t) => Making(t)'
    BY <1>1, <1>3, <1>4, <2>1 DEF Making
  <2>. QED BY <1>1, <1>3, <1>4, <2>1, <2>2, <2>3 DEF SubnetAt
<1>6. /\ link' \in [Subnet -> {"absent", "partial", "torn", "up", "alien"}]
      /\ snaps' \subseteq Subnet /\ lost' \subseteq Subnet /\ rows' \subseteq Subnet /\ leaving' \subseteq rows'
      /\ DistinctTaps(q')
  BY <1>1, WorkerStepFacts
<1>. QED BY <1>1, <1>2, <1>5, <1>6, WorkerDone

LEMMA WLoadStep == ASSUME NInv, NEW c \in Workers, WLoad(c) PROVE NInv'
<1>1. PICK s \in snaps : /\ snaps' = snaps \ {s}
                         /\ worker' = [worker EXCEPT ![c] = [pc |-> "up", tap |-> Tap(s, "device")]]
  BY DEF WLoad
<1>2. /\ WorkerStep(c) /\ Reinstated /\ worker[c].pc = "idle" /\ worker[c].tap = NoTap
      /\ UNCHANGED <<link, q, rows, leaving, lost>>
  BY DEF WLoad
<1>. DEFINE w == [pc |-> "up", tap |-> Tap(s, "device")]
<1>3. s \in Subnet
  BY DEF NInv, TypeOK
<1>4. Fits(w) /\ w.tap.s = s /\ w.pc = "up" /\ worker' = [worker EXCEPT ![c] = w]
  BY <1>1, <1>3, FitsFacts
<1>. HIDE DEF w
<1>5. ~InWorker(s)
  BY <1>2, <1>3, WorkerStepFacts DEF SubnetAt, One
<1>6. \A t \in Subnet : /\ InWorker(t)' <=> (s = t \/ InWorker(t))
                        /\ Runs(t)' <=> (s = t \/ Runs(t))
                        /\ Builds(t)' <=> Builds(t)
  <2>1. worker[c].tap.s \notin Subnet
    BY <1>2, NoTapFacts
  <2>. QED BY <1>4, <1>5, <2>1, WorkerSet
<1>7. ASSUME NEW t \in Subnet PROVE SubnetAt(t)'
  <2>1. /\ SubnetAt(t) /\ UNCHANGED <<provider, man, job, boot>>
        /\ (InPool(t)' <=> InPool(t)) /\ (InIter(t)' <=> InIter(t)) /\ (InList(t)' <=> InList(t))
        /\ (InQueue(t)' <=> InQueue(t))
    BY <1>2, WorkerStepFacts, QueueFrame
  <2>2. One(t)'
    BY <1>1, <1>2, <1>6, <2>1 DEF SubnetAt, One
  <2>3. Making(t) => Making(t)'
    BY <1>2, <1>6, <2>1 DEF Making
  <2>. QED BY <1>1, <1>2, <1>6, <2>1, <2>2, <2>3 DEF SubnetAt
<1>8. /\ link' \in [Subnet -> {"absent", "partial", "torn", "up", "alien"}]
      /\ snaps' \subseteq Subnet /\ lost' \subseteq Subnet /\ rows' \subseteq Subnet /\ leaving' \subseteq rows'
      /\ DistinctTaps(q')
  BY <1>1, <1>2, WorkerStepFacts
<1>. QED BY <1>2, <1>4, <1>5, <1>7, <1>8, WorkerDone

\* A sandbox is destroyed: its subnet goes to the channel or is lost.
LEMMA Destroys ==
    ASSUME NInv, Alive, Serving, NEW s \in Subnet, ~InQueue(s), s \notin lost, Destroyed(s), UNCHANGED rows
    PROVE  /\ \/ UNCHANGED q
              \/ Serving /\ \E r \in Subnet : q' = Append(q, Msg("Deallocate", NoOne, Tap(r, "device")))
           /\ DistinctTaps(q') /\ lost' \subseteq Subnet /\ rows' \subseteq Subnet /\ leaving' \subseteq rows'
           /\ \A t \in Subnet \ {s} : /\ (InQueue(t)' <=> InQueue(t)) /\ (t \in lost' <=> t \in lost)
                                      /\ (t \in leaving' <=> t \in leaving)
           /\ \A t \in Subnet : t = s => (InQueue(t)' <=> t \notin lost')
<1>1. /\ q \in Seq(Message) /\ DistinctTaps(q) /\ lost \subseteq Subnet /\ rows \subseteq Subnet /\ leaving \subseteq rows
  BY DEF NInv, TypeOK, PlaceAt
<1>2. CASE Serving /\ q' = Append(q, Msg("Deallocate", NoOne, Tap(s, "device"))) /\ UNCHANGED lost
           /\ leaving' = leaving \cup ({s} \cap rows)
  <2>. DEFINE x == Msg("Deallocate", NoOne, Tap(s, "device"))
  <2>1. x \in Message /\ x.m = "Deallocate" /\ x.tap.s = s /\ q' = Append(q, x)
    BY <1>2 DEF Message
  <2>. HIDE DEF x
  <2>2. /\ DistinctTaps(q') /\ \A t : InQueue(t)' <=> InQueue(t) \/ s = t
    BY <1>1, <2>1, Sent
  <2>. QED BY <1>1, <1>2, <2>2
<1>3. CASE UNCHANGED q /\ lost' = lost \cup {s} /\ leaving' \in {leaving, leaving \cup ({s} \cap rows)}
  <2>1. \A t : InQueue(t)' <=> InQueue(t)
    BY <1>3, QueueFrame
  <2>. QED BY <1>1, <1>3, <2>1
<1>. QED BY <1>2, <1>3, Zenon DEF Destroyed

LEMMA WDestroyStep == ASSUME NInv, NEW c \in Workers, WDestroy(c) PROVE NInv'
<1>. DEFINE s == worker[c].tap.s
<1>1. /\ s \in Subnet /\ InWorker(s) /\ Reinstated /\ WorkerStep(c) /\ worker[c].pc = "up"
      /\ Destroyed(s) /\ worker' = [worker EXCEPT ![c] = Idle] /\ UNCHANGED <<link, snaps, rows>>
  BY WorkerTap DEF WDestroy
<1>2. Fits(Idle) /\ Idle.tap = NoTap /\ Idle.tap.s \notin Subnet /\ Idle.pc = "idle"
  BY FitsFacts, NoTapFacts
<1>3. Runs(s)
  BY <1>1 DEF Runs
<1>. HIDE DEF Idle
<1>4. \A t \in Subnet : /\ InWorker(t)' <=> (InWorker(t) /\ s # t)
                        /\ Runs(t)' <=> (Runs(t) /\ s # t)
                        /\ Builds(t)' <=> (Builds(t) /\ s # t)
  BY <1>1, <1>2, WorkerSet
<1>. HIDE DEF s
<1>5. Alive /\ ~InQueue(s) /\ s \notin lost
  BY <1>1, WorkerStepFacts DEF SubnetAt, One
<1>6. /\ \/ UNCHANGED q
         \/ Serving /\ \E r \in Subnet : q' = Append(q, Msg("Deallocate", NoOne, Tap(r, "device")))
      /\ DistinctTaps(q') /\ lost' \subseteq Subnet /\ rows' \subseteq Subnet /\ leaving' \subseteq rows'
      /\ \A t \in Subnet \ {s} : /\ (InQueue(t)' <=> InQueue(t)) /\ (t \in lost' <=> t \in lost)
                                 /\ (t \in leaving' <=> t \in leaving)
      /\ \A t \in Subnet : t = s => (InQueue(t)' <=> t \notin lost')
  BY <1>1, <1>5, Destroys DEF WorkerStep
<1>7. ASSUME NEW t \in Subnet PROVE SubnetAt(t)'
  <2>1. /\ SubnetAt(t) /\ UNCHANGED <<provider, man, job, boot>>
        /\ (InPool(t)' <=> InPool(t)) /\ (InIter(t)' <=> InIter(t)) /\ (InList(t)' <=> InList(t))
        /\ (Runs(t) => InWorker(t)) /\ ~(Runs(t) /\ Builds(t))
    BY <1>1, WorkerStepFacts
  <2>2. One(t)'
    BY <1>1, <1>4, <1>6, <2>1 DEF SubnetAt, One
  <2>3. t # s => (Making(t) => Making(t)')
    BY <1>1, <1>4, <1>6, <2>1 DEF Making
  <2>4. t = s => link[t] \notin {"absent", "partial"} /\ t \notin snaps /\ ~Runs(t)'
    BY <1>1, <1>3, <1>4, <2>1 DEF SubnetAt, One
  <2>. QED BY <1>1, <1>3, <1>4, <1>6, <2>1, <2>2, <2>3, <2>4 DEF SubnetAt
<1>8. /\ link' \in [Subnet -> {"absent", "partial", "torn", "up", "alien"}] /\ snaps' \subseteq Subnet
  BY <1>1, WorkerStepFacts
<1>9. Idle.tap = NoTap /\ worker[c].pc \notin {"waiting", "gone"}
  BY <1>1, <1>2
<1>. QED BY <1>1, <1>2, <1>6, <1>7, <1>8, <1>9, WorkerDone

LEMMA WAllocateStep == ASSUME NInv, NEW c \in Workers, WAllocate(c) PROVE NInv'
<1>. DEFINE w == [pc |-> "waiting", tap |-> NoTap]
            x == Msg("Allocate", c, NoTap)
<1>1. /\ WorkerStep(c) /\ man \in {"run", "build", "undo"} /\ Reinstated
      /\ worker[c].pc = "idle" /\ worker[c].tap = NoTap
      /\ q' = Append(q, x) /\ UNCHANGED <<link, snaps, rows, leaving, lost>>
  BY DEF WAllocate
<1>2. worker' = [worker EXCEPT ![c] = w]
  <2>1. worker[c] = Idle /\ worker' = [worker EXCEPT ![c].pc = "waiting"]
    BY DEF WAllocate
  <2>2. [worker[c] EXCEPT !.pc = "waiting"] = w
    BY <2>1
  <2>. QED BY <2>1, <2>2
<1>3. Fits(w) /\ w.tap = NoTap /\ w.pc = "waiting" /\ x \in Message /\ x.m = "Allocate" /\ x.c = c
  BY FitsFacts DEF Message
<1>. HIDE DEF w, x
<1>4. /\ UNCHANGED <<provider, next, taken, free_q, free_set, free, man, job, boot, lives>>
  BY <1>1 DEF WorkerStep
<1>5. q \in Seq(Message) /\ DistinctTaps(q) /\ DistinctCallers(q)
      /\ \A i \in 1..Len(q) : q[i].m = "Allocate" => q[i].c \in Workers /\ worker[q[i].c].pc \in {"waiting", "gone"}
  <2>1. q \in Seq(Message) /\ DistinctTaps(q)
    BY <1>1, WorkerStepFacts
  <2>2. \A i \in 1..Len(q) : q[i] \in Message
    BY <2>1
  <2>. QED BY <2>1, <2>2, MessageFacts DEF NInv, QueueAt
<1>6. \A i \in 1..Len(q) : q[i].m = "Allocate" => q[i].c # c
  BY <1>1, <1>5
<1>7. /\ q' \in Seq(Message) /\ DistinctTaps(q') /\ DistinctCallers(q')
      /\ \A i \in 1..Len(q') : (i \in 1..Len(q) /\ q'[i] = q[i]) \/ q'[i] = x
      /\ \A s : InQueue(s)' <=> InQueue(s)
  BY <1>1, <1>3, <1>5, <1>6, Sent
<1>8. /\ worker' \in [Workers -> WorkerType] /\ WorkerAt'
      /\ \A d \in Workers : worker'[d] = IF d = c THEN w ELSE worker[d]
  BY <1>2, <1>3, WorkerSet
<1>9. QueueAt'
  <2>. SUFFICES ASSUME NEW i \in 1..Len(q'), q'[i].m = "Allocate" PROVE worker'[q'[i].c].pc \in {"waiting", "gone"}
    BY <1>7 DEF QueueAt
  <2>1. CASE q'[i] = x
    BY <1>3, <1>8, <2>1
  <2>2. CASE i \in 1..Len(q) /\ q'[i] = q[i]
    BY <1>5, <1>6, <1>8, <2>2
  <2>. QED BY <1>7, <2>1, <2>2
<1>10. RequestAt'
  <2>1. man # "build" /\ \A i \in 1..Len(q) : q[i].m # "Request"
    BY <1>1 DEF NInv, RequestAt
  <2>. QED BY <1>1, <1>3, <1>4, <1>7, <2>1, NoRequest
<1>11. PhaseAt'
  BY <1>1, <1>4 DEF NInv, PhaseAt
<1>12. PoolAt'
  BY <1>4 DEF NInv, PoolAt
<1>13. TypeOK'
  BY <1>1, <1>4, <1>7, <1>8 DEF NInv, TypeOK, WorkerType
<1>14. ASSUME NEW t \in Subnet PROVE SubnetAt(t)'
  BY <1>1, <1>2, <1>3, <1>7, WorkerIdles, WorkerStepFacts, SubnetFrame
<1>15. Alive' /\ Distinct(free')
  BY <1>1, <1>4, WorkerStepFacts DEF NInv, PlaceAt
<1>16. PlaceAt' /\ LinkAt' /\ FreshAt'
  BY <1>7, <1>14, <1>15, SubnetsAt
<1>. QED BY <1>8, <1>9, <1>10, <1>11, <1>12, <1>13, <1>16 DEF NInv

-----------------------------------------------------------------------------
(***************************************************************************)
(* What the steps of the others rest on.                                   *)
(***************************************************************************)

LEMMA Served == ASSUME NInv, man \notin {"down", "boot"} PROVE Alive /\ boot.pre = {} /\ boot.half = {}
  BY DEF NInv, PhaseAt

LEMMA LiveFacts ==
    ASSUME NInv, Alive
    PROVE  /\ link \in [Subnet -> {"absent", "partial", "torn", "up", "alien"}]
           /\ snaps \subseteq Subnet /\ lost \subseteq Subnet /\ rows \subseteq Subnet /\ leaving \subseteq rows
           /\ q \in Seq(Message) /\ DistinctTaps(q) /\ DistinctCallers(q) /\ free \in Seq(Subnet) /\ Distinct(free)
           /\ \A t \in Subnet : SubnetAt(t) /\ (Runs(t) => InWorker(t)) /\ (Builds(t) => InWorker(t))
<1>1. /\ link \in [Subnet -> {"absent", "partial", "torn", "up", "alien"}]
      /\ snaps \subseteq Subnet /\ lost \subseteq Subnet /\ rows \subseteq Subnet /\ leaving \subseteq rows
      /\ q \in Seq(Message) /\ free \in Seq(Subnet)
  BY DEF NInv, TypeOK
<1>2. DistinctTaps(q) /\ Distinct(free) /\ DistinctCallers(q)
  BY DEF NInv, PlaceAt, QueueAt
<1>3. \A t \in Subnet : SubnetAt(t) /\ (Runs(t) => InWorker(t)) /\ (Builds(t) => InWorker(t))
  BY SubnetFacts DEF SubnetAt
<1>. QED BY <1>1, <1>2, <1>3

\* Nothing but its device is under way before the provider is there.
LEMMA Quiet ==
    ASSUME NInv, man \in {"down", "boot"}
    PROVE  \A t \in Subnet : /\ ~InWorker(t) /\ ~Runs(t) /\ ~Builds(t) /\ ~InQueue(t) /\ ~InPool(t)
                             /\ t \notin snaps /\ t \notin lost /\ t \notin leaving /\ job.s # t
<1>1. /\ q = <<>> /\ free_set = {} /\ snaps = {} /\ lost = {} /\ leaving = {} /\ job = NoTap
      /\ \A c \in Workers : worker[c] = Idle
  BY DEF NInv, PhaseAt
<1>. SUFFICES ASSUME NEW t \in Subnet
              PROVE  ~InWorker(t) /\ ~Runs(t) /\ ~Builds(t) /\ ~InQueue(t) /\ ~InPool(t) /\ job.s # t
  BY <1>1
<1>2. \A c \in Workers : worker[c].tap.s # t
  BY <1>1, NoTapFacts
<1>3. ~InWorker(t) /\ ~Runs(t) /\ ~Builds(t)
  BY <1>2 DEF InWorker, Runs, Builds
<1>4. ~InQueue(t) /\ ~InPool(t) /\ job.s # t
  BY <1>1, NoTapFacts DEF InQueue, InPool
<1>. QED BY <1>3, <1>4

-----------------------------------------------------------------------------
(***************************************************************************)
(* The Pool and the writer of the rows.                                    *)
(***************************************************************************)

LEMMA DestroyOrphanStep == ASSUME NInv, NEW s \in Subnet, DestroyOrphan(s) PROVE NInv'
<1>1. /\ man = "quit" /\ s \in snaps /\ Reinstated /\ Destroyed(s) /\ snaps' = snaps \ {s}
      /\ UNCHANGED <<provider, next, taken, free_q, free_set, free, link, man, job, boot, worker, rows, lives>>
  BY DEF DestroyOrphan
<1>2. Alive
  BY <1>1, Served
<1>3. ~InQueue(s) /\ s \notin lost /\ ~InWorker(s)
  BY <1>1, <1>2, LiveFacts DEF SubnetAt, One
<1>4. /\ \/ UNCHANGED q
         \/ Serving /\ \E r \in Subnet : q' = Append(q, Msg("Deallocate", NoOne, Tap(r, "device")))
      /\ DistinctTaps(q') /\ lost' \subseteq Subnet /\ rows' \subseteq Subnet /\ leaving' \subseteq rows'
      /\ \A t \in Subnet \ {s} : /\ (InQueue(t)' <=> InQueue(t)) /\ (t \in lost' <=> t \in lost)
                                 /\ (t \in leaving' <=> t \in leaving)
      /\ \A t \in Subnet : t = s => (InQueue(t)' <=> t \notin lost')
  BY <1>1, <1>2, <1>3, Destroys DEF Serving
<1>5. /\ q' \in Seq(Message) /\ DistinctCallers(q')
      /\ \A i \in 1..Len(q') : (i \in 1..Len(q) /\ q'[i] = q[i]) \/ q'[i].m = "Deallocate"
  BY <1>2, <1>4, LiveFacts, SentBack
<1>6. ASSUME NEW t \in Subnet PROVE SubnetAt(t)'
  <2>1. /\ SubnetAt(t) /\ (Runs(t) => InWorker(t)) /\ (Builds(t) => InWorker(t))
        /\ (InPool(t)' <=> InPool(t)) /\ (InIter(t)' <=> InIter(t)) /\ (InList(t)' <=> InList(t))
        /\ (InWorker(t)' <=> InWorker(t)) /\ (Runs(t)' <=> Runs(t)) /\ (Builds(t)' <=> Builds(t))
    BY <1>1, <1>2, LiveFacts, PoolFrame, ListFrame, WorkerFrame
  <2>2. One(t)'
    BY <1>1, <1>4, <2>1 DEF SubnetAt, One
  <2>3. t # s => (Making(t) => Making(t)')
    BY <1>1, <1>4, <2>1 DEF Making
  <2>4. t = s => link[t] \notin {"absent", "partial"} /\ t \notin snaps' /\ ~Runs(t)'
    BY <1>1, <1>3, <2>1 DEF SubnetAt
  <2>. QED BY <1>1, <1>4, <2>1, <2>2, <2>3, <2>4 DEF SubnetAt
<1>7. TypeOK'
  BY <1>1, <1>4, <1>5 DEF NInv, TypeOK
<1>8. PhaseAt'
  BY <1>1 DEF NInv, PhaseAt
<1>9. WorkerAt' /\ PoolAt'
  BY <1>1 DEF NInv, WorkerAt, PoolAt
<1>10. QueueAt'
  BY <1>1, <1>5 DEF NInv, QueueAt
<1>11. RequestAt'
  <2>1. man # "build" /\ \A i \in 1..Len(q) : q[i].m # "Request"
    BY <1>1 DEF NInv, RequestAt
  <2>. QED BY <1>1, <1>5, <2>1, NoRequest
<1>12. Alive' /\ Distinct(free')
  BY <1>1, <1>2, LiveFacts
<1>13. PlaceAt' /\ LinkAt' /\ FreshAt'
  BY <1>4, <1>6, <1>12, SubnetsAt
<1>. QED BY <1>7, <1>8, <1>9, <1>10, <1>11, <1>13 DEF NInv

LEMMA RowRemovedStep == ASSUME NInv, NEW s \in Subnet, RowRemoved(s) PROVE NInv'
<1>1. /\ s \in leaving /\ rows' = rows \ {s} /\ leaving' = leaving \ {s}
      /\ UNCHANGED <<provider, next, taken, free_q, free_set, free, link, man, job, q, boot, worker, snaps, lost, lives>>
  BY DEF RowRemoved
<1>2. man \notin {"down", "boot"} /\ Reinstated
  BY <1>1 DEF NInv, PhaseAt, RequestAt
<1>3. Alive
  BY <1>2, Served
<1>4. ASSUME NEW t \in Subnet PROVE SubnetAt(t)'
  <2>1. /\ SubnetAt(t) /\ (Runs(t) => InWorker(t)) /\ (Builds(t) => InWorker(t))
        /\ (InPool(t)' <=> InPool(t)) /\ (InIter(t)' <=> InIter(t)) /\ (InList(t)' <=> InList(t))
        /\ (InWorker(t)' <=> InWorker(t)) /\ (Runs(t)' <=> Runs(t)) /\ (Builds(t)' <=> Builds(t))
        /\ (InQueue(t)' <=> InQueue(t))
    BY <1>1, <1>3, LiveFacts, PoolFrame, ListFrame, WorkerFrame, QueueFrame
  <2>2. One(t)'
    BY <1>1, <2>1 DEF SubnetAt, One
  <2>3. Making(t)' <=> Making(t)
    BY <1>1, <2>1 DEF Making
  <2>4. provider = "plain" /\ link[t] \in {"torn", "alien"} /\ t = s => t \notin snaps /\ ~Runs(t)
    BY <1>1, <2>1 DEF SubnetAt, One
  <2>. QED BY <1>1, <2>1, <2>2, <2>3, <2>4 DEF SubnetAt
<1>5. TypeOK'
  BY <1>1 DEF NInv, TypeOK
<1>6. PhaseAt'
  BY <1>1, <1>2 DEF NInv, PhaseAt
<1>7. WorkerAt' /\ PoolAt' /\ QueueAt'
  BY <1>1 DEF NInv, WorkerAt, PoolAt, QueueAt
<1>8. RequestAt'
  <2>1. man # "build" /\ \A i \in 1..Len(q) : q[i].m # "Request"
    BY <1>2 DEF NInv, RequestAt
  <2>. QED BY <1>1, <1>2, <2>1, NoRequest
<1>9. Alive' /\ Distinct(free') /\ DistinctTaps(q')
  BY <1>1, <1>3, LiveFacts
<1>10. PlaceAt' /\ LinkAt' /\ FreshAt'
  BY <1>4, <1>9, SubnetsAt
<1>. QED BY <1>5, <1>6, <1>7, <1>8, <1>10 DEF NInv

-----------------------------------------------------------------------------
(***************************************************************************)
(* A process ends, or starts.                                              *)
(***************************************************************************)

LEMMA GoneStep ==
    ASSUME NInv, NEW devices, devices \in [Subnet -> {"absent", "partial", "torn", "up", "alien"}], Gone(devices)
    PROVE  NInv'
<1>1. /\ man' = "down" /\ job' = NoTap /\ q' = <<>> /\ boot' = NotBooting
      /\ next' = 0 /\ taken' = {} /\ free_q' = <<>> /\ free_set' = {}
      /\ free' = <<>> /\ snaps' = {} /\ lost' = {} /\ leaving' = {}
      /\ worker' = [c \in Workers |-> Idle]
      /\ link' = [s \in Subnet |-> IF devices[s] = "partial" THEN "torn" ELSE devices[s]]
      /\ UNCHANGED <<provider, rows, lives>>
  BY DEF Gone
<1>2. /\ boot'.pre = {} /\ boot'.half = {} /\ boot'.failed = FALSE /\ boot'.todo = {} /\ boot'.asked = FALSE
      /\ boot' \in [pre : SUBSET Subnet, half : SUBSET Subnet, failed : BOOLEAN,
                    todo : SUBSET Subnet, asked : BOOLEAN]
  BY <1>1 DEF NotBooting
<1>3. \A c \in Workers : worker'[c] = Idle /\ worker'[c].tap = NoTap /\ worker'[c].pc = "idle"
  BY <1>1
<1>4. worker' \in [Workers -> WorkerType]
  BY <1>1, FitsFacts DEF Fits
<1>5. /\ link' \in [Subnet -> {"absent", "partial", "torn", "up", "alien"}]
      /\ \A s \in Subnet : link'[s] # "partial"
  BY <1>1
<1>6. TypeOK'
  <2>1. 0 \in 0 .. N /\ q' \in Seq(Message) /\ free_q' \in Seq(Nets) /\ free' \in Seq(Subnet)
    BY <1>1, Numbers
  <2>2. job' \in TapType
    BY <1>1, NoTapFacts
  <2>. QED BY <1>1, <1>2, <1>4, <1>5, <2>1, <2>2 DEF NInv, TypeOK, WorkerType
<1>7. PhaseAt'
  BY <1>1, <1>2, <1>3 DEF PhaseAt
<1>8. WorkerAt'
  BY <1>3 DEF WorkerAt
<1>9. QueueAt'
  BY <1>1 DEF QueueAt, DistinctCallers
<1>10. RequestAt'
  BY <1>1, <1>2 DEF RequestAt
<1>11. PoolAt'
  BY <1>1, <1>2 DEF PoolAt
<1>12. PlaceAt' /\ LinkAt'
  BY <1>1, <1>5 DEF PlaceAt, LinkAt
<1>13. FreshAt'
  BY <1>1, <1>3 DEF FreshAt, Runs
<1>. QED BY <1>6, <1>7, <1>8, <1>9, <1>10, <1>11, <1>12, <1>13 DEF NInv

LEMMA EndSteps == ASSUME NInv, shutdown \/ UnexpectedShutDown \/ Dies \/ (boot.failed /\ Gone(link)) PROVE NInv'
<1>1. link \in [Subnet -> {"absent", "partial", "torn", "up", "alien"}]
  BY DEF NInv, TypeOK
<1>2. CASE shutdown
  <2>1. PICK undeleted \in SUBSET Range(free) :
          Gone([s \in Subnet |-> IF s \in Range(free) \ undeleted THEN "absent" ELSE link[s]])
    BY <1>2 DEF shutdown
  <2>2. [s \in Subnet |-> IF s \in Range(free) \ undeleted THEN "absent" ELSE link[s]]
          \in [Subnet -> {"absent", "partial", "torn", "up", "alien"}]
    BY <1>1
  <2>. QED BY <2>1, <2>2, GoneStep
<1>3. CASE UnexpectedShutDown
  BY <1>1, <1>3, GoneStep DEF UnexpectedShutDown
<1>4. CASE Dies
  <2>1. PICK alive \in SUBSET {worker[c].tap.s : c \in {d \in Workers : worker[d].pc = "up"}} :
          Gone([s \in Subnet |-> IF s \in alive /\ link[s] = "up" THEN "alien" ELSE link[s]])
    BY <1>4 DEF Dies
  <2>2. [s \in Subnet |-> IF s \in alive /\ link[s] = "up" THEN "alien" ELSE link[s]]
          \in [Subnet -> {"absent", "partial", "torn", "up", "alien"}]
    BY <1>1
  <2>. QED BY <2>1, <2>2, GoneStep
<1>5. CASE boot.failed /\ Gone(link)
  BY <1>1, <1>5, GoneStep
<1>. QED BY <1>2, <1>3, <1>4, <1>5

LEMMA newStep == ASSUME NInv, new PROVE NInv'
<1>1. /\ man = "down" /\ lives < MaxLives /\ lives' = lives + 1 /\ man' = "boot"
      /\ next' = IF provider = "pool" THEN Min({N, Capacity}) ELSE 0
      /\ boot' = [NotBooting EXCEPT !.pre = 0 .. next' - 1, !.todo = rows]
      /\ UNCHANGED <<provider, taken, free_q, free_set, free, link, job, q, worker, snaps, rows, leaving, lost>>
  BY DEF new
<1>2. next' \in 0 .. N
  BY <1>1, MinFacts, Numbers
<1>3. 0 .. next' - 1 \subseteq Subnet /\ \A t \in Subnet : t \in 0 .. next' - 1 <=> t < next'
  <2>1. next' \in Int /\ 0 <= next' /\ next' <= N /\ N \in Int
    BY <1>2, Numbers
  <2>2. ASSUME NEW n, n \in Int, 0 <= n, n <= N PROVE 0 .. n - 1 \subseteq Subnet /\ \A t \in Subnet : t \in 0 .. n - 1 <=> t < n
    BY <2>1, <2>2 DEF Subnet
  <2>. QED BY <2>1, <2>2
<1>4. /\ boot'.pre = 0 .. next' - 1 /\ boot'.half = {} /\ boot'.failed = FALSE /\ boot'.todo = rows /\ boot'.asked = FALSE
      /\ boot' = [pre |-> 0 .. next' - 1, half |-> {}, failed |-> FALSE, todo |-> rows, asked |-> FALSE]
  BY <1>1 DEF NotBooting
<1>5. rows \subseteq Subnet /\ lives' \in 0 .. MaxLives
  BY <1>1, NetworkAssumption DEF NInv, TypeOK
<1>6. boot' \in [pre : SUBSET Subnet, half : SUBSET Subnet, failed : BOOLEAN, todo : SUBSET Subnet, asked : BOOLEAN]
  BY <1>3, <1>4, <1>5
<1>7. /\ q = <<>> /\ free_q = <<>> /\ taken = {} /\ free_set = {} /\ snaps = {} /\ lost = {} /\ leaving = {}
      /\ free = <<>> /\ job = NoTap /\ \A c \in Workers : worker[c] = Idle
  BY <1>1 DEF NInv, PhaseAt
<1>8. ASSUME NEW t \in Subnet PROVE SubnetAt(t)'
  <2>1. /\ ~InWorker(t)' /\ ~Runs(t)' /\ ~Builds(t)' /\ ~InQueue(t)' /\ ~InPool(t)'
        /\ t \notin snaps' /\ t \notin lost' /\ t \notin leaving' /\ job'.s # t
    <3>1. (InQueue(t)' <=> InQueue(t)) /\ (InWorker(t)' <=> InWorker(t)) /\ (Runs(t)' <=> Runs(t)) /\ (Builds(t)' <=> Builds(t))
      BY <1>1, QueueFrame, WorkerFrame
    <3>2. InPool(t)' <=> InPool(t)
      BY <1>1 DEF InPool
    <3>. QED BY <1>1, <3>1, <3>2, Quiet
  <2>2. ~InList(t)' /\ (InIter(t)' <=> t >= next')
    BY <1>1, <1>7 DEF InList, InIter
  <2>3. t >= next' <=> ~(t < next')
    BY <1>2, Numbers
  <2>4. One(t)'
    BY <1>3, <1>4, <2>1, <2>2, <2>3 DEF One
  <2>5. link'[t] # "partial"
    BY <1>1 DEF NInv, LinkAt
  <2>. QED BY <2>1, <2>2, <2>4, <2>5 DEF SubnetAt
<1>9. TypeOK'
  BY <1>1, <1>2, <1>5, <1>6 DEF NInv, TypeOK
<1>10. PhaseAt'
  BY <1>1, <1>4, <1>7 DEF PhaseAt
<1>11. WorkerAt' /\ QueueAt'
  BY <1>1 DEF NInv, WorkerAt, QueueAt
<1>12. RequestAt'
  BY <1>1, <1>4, <1>7 DEF RequestAt
<1>13. PoolAt'
  <2>1. provider = "plain" => boot'.pre = {}
    BY <1>1, <1>4
  <2>. QED BY <1>1, <1>4, <1>7, <2>1 DEF PoolAt
<1>14. Alive' /\ Distinct(free') /\ DistinctTaps(q')
  BY <1>1, <1>4, <1>7 DEF Distinct, DistinctTaps
<1>15. PlaceAt' /\ LinkAt' /\ FreshAt'
  BY <1>8, <1>14, SubnetsAt
<1>. QED BY <1>9, <1>10, <1>11, <1>12, <1>13, <1>15 DEF NInv

\* A task of PoolTapDevices::new steps: the list and the device change, and what is to be done.
LEMMA BootKeeps ==
    ASSUME NInv, BootStep, provider # "plain", boot'.todo = boot.todo, boot'.asked = boot.asked,
           boot' \in [pre : SUBSET Subnet, half : SUBSET Subnet, failed : BOOLEAN, todo : SUBSET Subnet, asked : BOOLEAN],
           free' \in Seq(Subnet), link' \in [Subnet -> {"absent", "partial", "torn", "up", "alien"}],
           ~boot'.failed => Distinct(free') /\ \A t \in Subnet : SubnetAt(t)'
    PROVE  NInv'
<1>1. /\ man = "boot" /\ UNCHANGED <<provider, next, taken, free_q, free_set, man, job, q, worker, snaps, rows, leaving,
                                     lost, lives>>
  BY DEF BootStep
<1>2. TypeOK'
  BY <1>1 DEF NInv, TypeOK
<1>3. PhaseAt'
  BY <1>1 DEF NInv, PhaseAt
<1>4. WorkerAt' /\ QueueAt' /\ RequestAt'
  BY <1>1 DEF NInv, WorkerAt, QueueAt, RequestAt
<1>5. PoolAt'
  BY <1>1 DEF NInv, PoolAt
<1>6. CASE boot'.failed
  <2>1. PlaceAt' /\ LinkAt' /\ FreshAt'
    BY <1>1, <1>6 DEF PlaceAt, LinkAt, FreshAt
  <2>. QED BY <1>2, <1>3, <1>4, <1>5, <2>1 DEF NInv
<1>7. CASE ~boot'.failed
  <2>1. q' = <<>> /\ Alive'
    BY <1>1, <1>7 DEF NInv, PhaseAt
  <2>2. DistinctTaps(q')
    BY <2>1 DEF DistinctTaps
  <2>3. PlaceAt' /\ LinkAt' /\ FreshAt'
    BY <1>7, <2>1, <2>2, SubnetsAt
  <2>. QED BY <1>2, <1>3, <1>4, <1>5, <2>3 DEF NInv
<1>. QED BY <1>6, <1>7

\* Such a task leaves every place of a subnet but two as it is.
LEMMA BootPlaces ==
    ASSUME NInv, BootStep, NEW t \in Subnet
    PROVE  /\ ~InWorker(t)' /\ ~Runs(t)' /\ ~Builds(t)' /\ ~InQueue(t)' /\ ~InPool(t)' /\ (InIter(t)' <=> InIter(t))
           /\ t \notin snaps' /\ t \notin lost' /\ t \notin leaving' /\ job'.s # t
           /\ ~InWorker(t) /\ ~Runs(t) /\ ~Builds(t) /\ ~InQueue(t) /\ ~InPool(t)
           /\ t \notin snaps /\ t \notin lost /\ job.s # t
<1>1. /\ man = "boot" /\ UNCHANGED <<next, taken, free_set, job, q, worker, snaps, leaving, lost>>
  BY DEF BootStep
<1>2. /\ (InQueue(t)' <=> InQueue(t)) /\ (InWorker(t)' <=> InWorker(t)) /\ (Runs(t)' <=> Runs(t))
      /\ (Builds(t)' <=> Builds(t)) /\ (InPool(t)' <=> InPool(t)) /\ (InIter(t)' <=> InIter(t))
  BY <1>1, QueueFrame, WorkerFrame, PoolFrame
<1>. QED BY <1>1, <1>2, Quiet

LEMMA PreBuildStep == ASSUME NInv, NEW s \in Subnet, PreBuild(s) PROVE NInv'
<1>1. PICK res \in IoctlResult, ok \in BOOLEAN :
        /\ create_tap_device(s, res)
        /\ ok \in build_or_adopt(res)
        /\ boot' = [boot EXCEPT !.pre = @ \ {s},
                       !.half = IF res = "created" THEN @ \cup {s} ELSE @,
                       !.failed = @ \/ ~(ok \/ res = "created")]
        /\ free' = IF ok THEN Append(free, s) ELSE free
  BY DEF PreBuild
<1>2. BootStep /\ s \in boot.pre /\ man = "boot"
  BY DEF PreBuild, BootStep
<1>3. /\ boot \in [pre : SUBSET Subnet, half : SUBSET Subnet, failed : BOOLEAN, todo : SUBSET Subnet, asked : BOOLEAN]
      /\ free \in Seq(Subnet) /\ link \in [Subnet -> {"absent", "partial", "torn", "up", "alien"}]
  BY DEF NInv, TypeOK
<1>4. /\ boot'.pre = boot.pre \ {s} /\ boot'.half = IF res = "created" THEN boot.half \cup {s} ELSE boot.half
      /\ boot'.failed = (boot.failed \/ ~(ok \/ res = "created")) /\ boot'.todo = boot.todo /\ boot'.asked = boot.asked
      /\ boot' = [pre |-> boot'.pre, half |-> boot'.half, failed |-> boot'.failed, todo |-> boot'.todo, asked |-> boot'.asked]
  BY <1>1, <1>3
<1>5. boot' \in [pre : SUBSET Subnet, half : SUBSET Subnet, failed : BOOLEAN, todo : SUBSET Subnet, asked : BOOLEAN]
  <2>1. boot'.pre \in SUBSET Subnet /\ boot'.half \in SUBSET Subnet /\ boot'.todo \in SUBSET Subnet
    BY <1>3, <1>4
  <2>2. boot'.failed \in BOOLEAN /\ boot'.asked \in BOOLEAN
    BY <1>3, <1>4, Zenon
  <2>. QED BY <1>4, <2>1, <2>2
<1>6. provider # "plain"
  BY <1>2 DEF NInv, PoolAt
<1>7. ok => res = "busy"
  BY <1>1 DEF build_or_adopt
<1>8. /\ link' \in [Subnet -> {"absent", "partial", "torn", "up", "alien"}]
      /\ \A t \in Subnet \ {s} : link'[t] = link[t]
      /\ res = "created" => link[s] = "absent" /\ link'[s] = "partial"
      /\ res # "created" => link' = link
      /\ res = "busy" => link[s] # "absent"
  BY <1>1, <1>3, Created
<1>9. free' \in Seq(Subnet) /\ (\A t : InList(t)' <=> InList(t) \/ (ok /\ t = s))
      /\ (Distinct(free) /\ ~InList(s) => Distinct(free'))
  <2>1. CASE ok
    BY <1>1, <1>3, <2>1, PushedBack
  <2>2. CASE ~ok
    <3>1. UNCHANGED free
      BY <1>1, <2>2
    <3>. QED BY <1>3, <2>2, <3>1, ListFrame
  <2>. QED BY <2>1, <2>2
<1>10. ASSUME ~boot'.failed PROVE Distinct(free') /\ \A t \in Subnet : SubnetAt(t)'
  <2>1. Alive /\ (ok \/ res = "created")
    BY <1>2, <1>4, <1>10
  <2>2. Distinct(free')
    BY <1>2, <1>9, <2>1, LiveFacts DEF SubnetAt, One
  <2>3. ASSUME NEW t \in Subnet PROVE SubnetAt(t)'
    <3>1. SubnetAt(t) /\ UNCHANGED man
      BY <1>2, <2>1, LiveFacts DEF BootStep
    <3>2. One(t)'
      BY <1>2, <1>4, <1>7, <1>9, <2>1, <3>1, BootPlaces DEF SubnetAt, One
    <3>3. CASE t # s
      <4>1. Making(t)' <=> Making(t)
        BY <1>2, <1>4, <3>1, <3>3, BootPlaces DEF Making
      <4>. QED BY <1>2, <1>6, <1>8, <1>9, <3>1, <3>2, <3>3, <4>1, BootPlaces DEF SubnetAt, BootStep
    <3>4. CASE t = s /\ res = "created"
      <4>1. Making(t)' /\ ~InList(t)'
        BY <1>2, <1>4, <1>7, <1>9, <3>1, <3>4 DEF Making, SubnetAt, One
      <4>. QED BY <1>2, <1>6, <3>2, <4>1, BootPlaces DEF SubnetAt, BootStep
    <3>5. CASE t = s /\ res # "created"
      <4>1. link[t] # "partial"
        BY <1>2, <3>1, <3>5, BootPlaces DEF SubnetAt, Making, One
      <4>. QED BY <1>2, <1>6, <1>7, <1>8, <2>1, <3>2, <3>5, <4>1, BootPlaces DEF SubnetAt, BootStep
    <3>. QED BY <3>3, <3>4, <3>5
  <2>. QED BY <2>2, <2>3
<1>. QED BY <1>2, <1>4, <1>5, <1>6, <1>8, <1>9, <1>10, BootKeeps

LEMMA PreBuiltStep == ASSUME NInv, NEW s \in Subnet, PreBuilt(s) PROVE NInv'
<1>1. PICK ok \in BOOLEAN :
        /\ configure(s, ok)
        /\ boot' = [boot EXCEPT !.half = @ \ {s}, !.failed = @ \/ ~ok]
        /\ free' = IF ok THEN Append(free, s) ELSE free
  BY DEF PreBuilt
<1>2. BootStep /\ s \in boot.half /\ man = "boot"
  BY DEF PreBuilt, BootStep
<1>3. /\ boot \in [pre : SUBSET Subnet, half : SUBSET Subnet, failed : BOOLEAN, todo : SUBSET Subnet, asked : BOOLEAN]
      /\ free \in Seq(Subnet) /\ link \in [Subnet -> {"absent", "partial", "torn", "up", "alien"}]
  BY DEF NInv, TypeOK
<1>4. /\ boot'.pre = boot.pre /\ boot'.half = boot.half \ {s}
      /\ boot'.failed = (boot.failed \/ ~ok) /\ boot'.todo = boot.todo /\ boot'.asked = boot.asked
      /\ boot' = [pre |-> boot'.pre, half |-> boot'.half, failed |-> boot'.failed, todo |-> boot'.todo, asked |-> boot'.asked]
  BY <1>1, <1>3
<1>5. boot' \in [pre : SUBSET Subnet, half : SUBSET Subnet, failed : BOOLEAN, todo : SUBSET Subnet, asked : BOOLEAN]
  <2>1. boot'.pre \in SUBSET Subnet /\ boot'.half \in SUBSET Subnet /\ boot'.todo \in SUBSET Subnet
    BY <1>3, <1>4
  <2>2. boot'.failed \in BOOLEAN /\ boot'.asked \in BOOLEAN
    BY <1>3, <1>4, Zenon
  <2>. QED BY <1>4, <2>1, <2>2
<1>6. provider # "plain"
  BY <1>2 DEF NInv, PoolAt
<1>7. /\ link' \in [Subnet -> {"absent", "partial", "torn", "up", "alien"}]
      /\ \A t \in Subnet \ {s} : link'[t] = link[t]
      /\ ok => link'[s] = "up"
  BY <1>1, <1>3, Configured
<1>8. free' \in Seq(Subnet) /\ (\A t : InList(t)' <=> InList(t) \/ (ok /\ t = s))
      /\ (Distinct(free) /\ ~InList(s) => Distinct(free'))
  <2>1. CASE ok
    BY <1>1, <1>3, <2>1, PushedBack
  <2>2. CASE ~ok
    <3>1. UNCHANGED free
      BY <1>1, <2>2
    <3>. QED BY <1>3, <2>2, <3>1, ListFrame
  <2>. QED BY <2>1, <2>2
<1>9. ASSUME ~boot'.failed PROVE Distinct(free') /\ \A t \in Subnet : SubnetAt(t)'
  <2>1. Alive /\ ok
    BY <1>2, <1>4, <1>9
  <2>2. Distinct(free')
    BY <1>2, <1>8, <2>1, LiveFacts DEF SubnetAt, One
  <2>3. ASSUME NEW t \in Subnet PROVE SubnetAt(t)'
    <3>1. SubnetAt(t) /\ UNCHANGED man
      BY <1>2, <2>1, LiveFacts DEF BootStep
    <3>2. One(t)'
      BY <1>2, <1>4, <1>8, <2>1, <3>1, BootPlaces DEF SubnetAt, One
    <3>3. CASE t # s
      <4>1. Making(t)' <=> Making(t)
        BY <1>2, <1>4, <3>1, <3>3, BootPlaces DEF Making
      <4>. QED BY <1>2, <1>6, <1>7, <1>8, <3>1, <3>2, <3>3, <4>1, BootPlaces DEF SubnetAt, BootStep
    <3>4. CASE t = s
      BY <1>2, <1>6, <1>7, <2>1, <3>2, <3>4, BootPlaces DEF SubnetAt, BootStep
    <3>. QED BY <3>3, <3>4
  <2>. QED BY <2>2, <2>3
<1>. QED BY <1>2, <1>4, <1>5, <1>6, <1>7, <1>8, <1>9, BootKeeps

\* The manager starts to serve, or is told to quit.
LEMMA TurnsStep ==
    ASSUME NInv, \/ man = "boot" /\ boot.pre = {} /\ boot.half = {} /\ ~boot.failed /\ man' = "run"
                 \/ man = "run" /\ man' = "quit",
           UNCHANGED <<provider, next, taken, free_q, free_set, free, link, job, q, boot, worker, snaps, rows, leaving,
                       lost, lives>>
    PROVE  NInv'
<1>1. Alive /\ man \in {"boot", "run"} /\ man' \in {"run", "quit"} /\ boot.pre = {} /\ boot.half = {}
  BY Served
<1>2. ASSUME NEW t \in Subnet PROVE SubnetAt(t)'
  BY <1>1, LiveFacts, PoolFrame, ListFrame, WorkerFrame, QueueFrame, SubnetFrame
<1>3. TypeOK'
  BY <1>1 DEF NInv, TypeOK
<1>4. PhaseAt'
  BY <1>1 DEF NInv, PhaseAt
<1>5. WorkerAt' /\ QueueAt' /\ PoolAt'
  BY DEF NInv, WorkerAt, QueueAt, PoolAt
<1>6. RequestAt'
  BY <1>1 DEF NInv, RequestAt
<1>7. Alive' /\ Distinct(free') /\ DistinctTaps(q')
  BY <1>1, LiveFacts
<1>8. PlaceAt' /\ LinkAt' /\ FreshAt'
  BY <1>2, <1>7, SubnetsAt
<1>. QED BY <1>3, <1>4, <1>5, <1>6, <1>8 DEF NInv

LEMMA BootedStep == ASSUME NInv, Booted PROVE NInv'
<1>1. CASE boot.failed /\ Gone(link)
  BY <1>1, EndSteps
<1>2. CASE ~(boot.failed /\ Gone(link))
  BY <1>2, TurnsStep DEF Booted
<1>. QED BY <1>1, <1>2

LEMMA QuitStep == ASSUME NInv, Quit PROVE NInv'
  BY TurnsStep DEF Quit

LEMMA ReinstateStep == ASSUME NInv, NEW s \in Subnet, Reinstate(s) PROVE NInv'
<1>. DEFINE x == Msg("Request", NoOne, Tap(s, "device"))
<1>1. /\ man \in {"run", "quit"} /\ ~boot.asked /\ s \in boot.todo
      /\ boot' = [boot EXCEPT !.todo = @ \ {s}, !.asked = TRUE] /\ q' = Append(q, x)
      /\ UNCHANGED <<provider, next, taken, free_q, free_set, free, link, man, job, worker, snaps, rows, leaving,
                     lost, lives>>
  BY DEF Reinstate
<1>2. Alive
  BY <1>1, Served
<1>3. boot \in [pre : SUBSET Subnet, half : SUBSET Subnet, failed : BOOLEAN, todo : SUBSET Subnet, asked : BOOLEAN]
  BY DEF NInv, TypeOK
<1>4. /\ boot'.pre = boot.pre /\ boot'.half = boot.half /\ boot'.failed = boot.failed
      /\ boot'.todo = boot.todo \ {s} /\ boot'.asked = TRUE
      /\ boot' \in [pre : SUBSET Subnet, half : SUBSET Subnet, failed : BOOLEAN, todo : SUBSET Subnet, asked : BOOLEAN]
  BY <1>1, <1>3
<1>5. /\ q = <<>> /\ leaving = {} /\ (\A c \in Workers : worker[c] = Idle) /\ boot.todo \subseteq rows
      /\ boot.todo \cap taken = {}
  BY <1>1 DEF NInv, RequestAt
<1>6. x \in Message /\ x.m = "Request" /\ x.tap.s = s
  BY DEF Message
<1>. HIDE DEF x
<1>7. /\ q' \in Seq(Message) /\ DistinctTaps(q') /\ DistinctCallers(q') /\ Len(q') = 1 /\ q'[1] = x
      /\ \A t : InQueue(t)' <=> InQueue(t)
  <2>1. Len(q) = 0
    BY <1>5
  <2>. QED BY <1>1, <1>2, <1>6, <2>1, LiveFacts, Sent
<1>8. ASSUME NEW t \in Subnet PROVE SubnetAt(t)'
  BY <1>1, <1>2, <1>4, <1>7, LiveFacts, PoolFrame, ListFrame, WorkerFrame, SubnetFrame
<1>9. TypeOK'
  BY <1>1, <1>4, <1>7 DEF NInv, TypeOK
<1>10. PhaseAt'
  BY <1>1, <1>4 DEF NInv, PhaseAt
<1>11. \A i \in 1..Len(q') : q'[i] = x
  BY <1>7
<1>12. WorkerAt' /\ PoolAt' /\ QueueAt'
  BY <1>1, <1>4, <1>6, <1>7, <1>11 DEF NInv, WorkerAt, PoolAt, QueueAt
<1>13. RequestAt'
  BY <1>1, <1>4, <1>5, <1>6, <1>7, <1>11 DEF RequestAt
<1>14. Alive' /\ Distinct(free')
  BY <1>1, <1>2, <1>4, LiveFacts
<1>15. PlaceAt' /\ LinkAt' /\ FreshAt'
  BY <1>7, <1>8, <1>14, SubnetsAt
<1>. QED BY <1>9, <1>10, <1>12, <1>13, <1>15 DEF NInv

-----------------------------------------------------------------------------
(***************************************************************************)
(* The manager serves a message.                                           *)
(***************************************************************************)

\* What the first message says of the rest: nothing else happens while a snapshot is requested.
LEMMA FirstMessage ==
    ASSUME NInv, man \in {"run", "quit"}, q # <<>>, q' = Tail(q)
    PROVE  /\ Alive /\ Head(q) \in Message
           /\ Head(q).m # "Request" => Reinstated /\ \A i \in 1..Len(q') : q'[i].m # "Request"
           /\ Head(q).m = "Request" =>
                /\ q' = <<>> /\ boot.asked /\ leaving = {} /\ (\A c \in Workers : worker[c] = Idle)
                /\ Head(q).tap.s \in Subnet /\ Head(q).tap.s \in rows \ (taken \cup boot.todo)
           /\ Head(q).m = "Allocate" => /\ Head(q).c \in Workers /\ worker[Head(q).c].pc \in {"waiting", "gone"}
                                        /\ worker[Head(q).c].tap = NoTap
<1>1. Alive
  BY Served
<1>2. /\ q' \in Seq(Message) /\ Head(q) \in Message /\ 1 \in 1..Len(q) /\ Head(q) = q[1]
      /\ Len(q') = Len(q) - 1 /\ \A i \in 1..Len(q') : i + 1 \in 1..Len(q) /\ q'[i] = q[i + 1]
  BY <1>1, LiveFacts, Received
<1>3. ASSUME Head(q).m # "Request"
      PROVE  Reinstated /\ \A i \in 1..Len(q') : q'[i].m # "Request"
  <2>1. ~boot.asked
    BY <1>2, <1>3 DEF NInv, RequestAt
  <2>2. boot.todo = {} /\ \A i \in 1..Len(q) : q[i].m # "Request"
    BY <2>1 DEF NInv, RequestAt
  <2>. QED BY <1>2, <2>1, <2>2
<1>4. ASSUME Head(q).m = "Request"
      PROVE  /\ q' = <<>> /\ boot.asked /\ leaving = {} /\ (\A c \in Workers : worker[c] = Idle)
             /\ Head(q).tap.s \in Subnet /\ Head(q).tap.s \in rows \ (taken \cup boot.todo)
  <2>1. boot.asked
    BY <1>2, <1>4 DEF NInv, RequestAt
  <2>2. Len(q) = 1 /\ leaving = {} /\ \A c \in Workers : worker[c] = Idle
    BY <2>1 DEF NInv, RequestAt
  <2>3. q' = <<>>
    BY <1>2, <2>2
  <2>4. Head(q).tap.s \in Subnet
    BY <1>2, <1>4, MessageFacts
  <2>5. Head(q).tap.s \in rows \ (taken \cup boot.todo)
    BY <1>2, <1>4 DEF NInv, RequestAt
  <2>. QED BY <2>1, <2>2, <2>3, <2>4, <2>5
<1>5. ASSUME Head(q).m = "Allocate"
      PROVE  /\ Head(q).c \in Workers /\ worker[Head(q).c].pc \in {"waiting", "gone"}
             /\ worker[Head(q).c].tap = NoTap
  <2>1. Head(q).c \in Workers
    BY <1>2, <1>5, MessageFacts
  <2>2. worker[Head(q).c].pc \in {"waiting", "gone"}
    BY <1>2, <1>5 DEF NInv, QueueAt
  <2>. QED BY <2>1, <2>2 DEF NInv, WorkerAt
<1>. QED BY <1>1, <1>2, <1>3, <1>4, <1>5

\* An Allocate leaves the channel, and its Worker has w from now on.
LEMMA Answered ==
    ASSUME NInv, q # <<>>, q' = Tail(q), Head(q).m = "Allocate", NEW w, worker' = [worker EXCEPT ![Head(q).c] = w],
           worker \in [Workers -> WorkerType]
    PROVE  QueueAt'
<1>1. q \in Seq(Message) /\ DistinctCallers(q)
  BY DEF NInv, TypeOK, QueueAt
<1>2. /\ \A i \in 1..Len(q') : i + 1 \in 1..Len(q) /\ q'[i] = q[i + 1]
      /\ DistinctCallers(q') /\ q' \in Seq(Message)
      /\ \A i \in 1..Len(q') : q'[i].m = "Allocate" => q'[i].c # Head(q).c
  BY <1>1, Received
<1>. SUFFICES ASSUME NEW i \in 1..Len(q'), q'[i].m = "Allocate" PROVE worker'[q'[i].c].pc \in {"waiting", "gone"}
  BY <1>2 DEF QueueAt
<1>3. worker[q'[i].c].pc \in {"waiting", "gone"}
  BY <1>2 DEF NInv, QueueAt
<1>4. q'[i] \in Message
  BY <1>2
<1>5. q'[i].c \in Workers /\ q'[i].c # Head(q).c
  BY <1>2, <1>4, MessageFacts
<1>. QED BY <1>3, <1>5

\* A request is over: the next one may be made.
LEMMA RequestDone ==
    ASSUME boot.asked, NInv, ~boot'.asked, boot'.todo = boot.todo, man' # "build", q' = <<>>, leaving' = {},
           \A c \in Workers : worker'[c] = Idle, UNCHANGED rows, boot.todo \cap taken' = {}
    PROVE  RequestAt'
<1>1. boot.todo \subseteq rows
  BY DEF NInv, RequestAt
<1>. QED BY <1>1 DEF RequestAt

LEMMA RefuseStep == ASSUME NInv, Refuse PROVE NInv'
<1>1. /\ man = "quit" /\ q # <<>> /\ Head(q).m # "Deallocate" /\ q' = Tail(q)
      /\ worker' = [c \in Workers |-> IF c = Head(q).c THEN Idle ELSE worker[c]]
      /\ boot' = [boot EXCEPT !.asked = @ /\ Head(q).m # "Request"]
      /\ UNCHANGED <<provider, next, taken, free_q, free_set, free, link, man, job, snaps, rows, leaving, lost, lives>>
  BY DEF Refuse
<1>2. Alive /\ Head(q) \in Message
  BY <1>1, FirstMessage
<1>3. boot \in [pre : SUBSET Subnet, half : SUBSET Subnet, failed : BOOLEAN, todo : SUBSET Subnet, asked : BOOLEAN]
  BY DEF NInv, TypeOK
<1>4. /\ boot'.pre = boot.pre /\ boot'.half = boot.half /\ boot'.failed = boot.failed
      /\ boot'.todo = boot.todo /\ boot'.asked = (boot.asked /\ Head(q).m # "Request")
      /\ boot' = [pre |-> boot'.pre, half |-> boot'.half, failed |-> boot'.failed, todo |-> boot'.todo, asked |-> boot'.asked]
  BY <1>1, <1>3
<1>5. boot' \in [pre : SUBSET Subnet, half : SUBSET Subnet, failed : BOOLEAN, todo : SUBSET Subnet, asked : BOOLEAN]
  <2>1. boot'.pre \in SUBSET Subnet /\ boot'.half \in SUBSET Subnet /\ boot'.todo \in SUBSET Subnet
    BY <1>3, <1>4
  <2>2. boot'.failed \in BOOLEAN /\ boot'.asked \in BOOLEAN
    BY <1>3, <1>4, Zenon
  <2>. QED BY <1>4, <2>1, <2>2
<1>6. /\ q' \in Seq(Message) /\ DistinctTaps(q') /\ DistinctCallers(q')
      /\ \A s : InQueue(s)' <=> InQueue(s)
  BY <1>1, <1>2, LiveFacts, Received
<1>7. worker \in [Workers -> WorkerType]
  BY DEF NInv, TypeOK, WorkerType
<1>8. /\ worker' \in [Workers -> WorkerType] /\ WorkerAt' /\ QueueAt' /\ RequestAt'
      /\ \A t \in Subnet : (InWorker(t)' <=> InWorker(t)) /\ (Runs(t)' <=> Runs(t)) /\ (Builds(t)' <=> Builds(t))
  <2>1. CASE Head(q).m = "Allocate"
    <3>1. /\ Head(q).c \in Workers /\ worker[Head(q).c].tap = NoTap /\ Reinstated
          /\ \A i \in 1..Len(q') : q'[i].m # "Request"
      BY <1>1, <2>1, FirstMessage
    <3>2. worker' = [worker EXCEPT ![Head(q).c] = Idle]
      BY <1>1, <1>7, <3>1
    <3>3. Fits(Idle) /\ Idle.tap = NoTap
      BY FitsFacts
    <3>4. QueueAt'
      BY <1>1, <1>7, <2>1, <3>2, Answered
    <3>5. RequestAt'
      BY <1>1, <1>4, <3>1, NoRequest
    <3>. HIDE DEF Idle
    <3>6. worker' \in [Workers -> WorkerType] /\ WorkerAt'
      BY <3>1, <3>2, <3>3, WorkerSet
    <3>7. \A t \in Subnet : (InWorker(t)' <=> InWorker(t)) /\ (Runs(t)' <=> Runs(t)) /\ (Builds(t)' <=> Builds(t))
      BY <3>1, <3>2, <3>3, WorkerIdles
    <3>. QED BY <3>4, <3>5, <3>6, <3>7
  <2>2. CASE Head(q).m = "Request"
    <3>1. q' = <<>> /\ boot.asked /\ leaving = {} /\ \A c \in Workers : worker[c] = Idle
      BY <1>1, <2>2, FirstMessage
    <3>2. UNCHANGED worker
      <4>1. Head(q).c \notin Workers
        BY <1>2, <2>2, MessageFacts, Numbers
      <4>. QED BY <1>1, <1>7, <4>1
    <3>3. WorkerAt' /\ QueueAt'
      BY <3>1, <3>2 DEF NInv, WorkerAt, QueueAt, DistinctCallers
    <3>4. RequestAt'
      <4>1. boot.todo \cap taken = {}
        BY DEF NInv, RequestAt
      <4>2. ~boot'.asked /\ boot'.todo = boot.todo /\ man' # "build" /\ UNCHANGED <<rows, taken, leaving, worker>>
        BY <1>1, <1>4, <2>2, <3>2
      <4>. QED BY <3>1, <4>1, <4>2, RequestDone
    <3>. QED BY <1>7, <3>2, <3>3, <3>4, WorkerFrame
  <2>. QED BY <1>1, <1>2, <2>1, <2>2, MessageFacts
<1>9. ASSUME NEW t \in Subnet PROVE SubnetAt(t)'
  BY <1>1, <1>2, <1>4, <1>6, <1>8, LiveFacts, PoolFrame, ListFrame, SubnetFrame
<1>10. TypeOK'
  BY <1>1, <1>5, <1>6, <1>8 DEF NInv, TypeOK, WorkerType
<1>11. PhaseAt'
  BY <1>1, <1>4 DEF NInv, PhaseAt
<1>12. PoolAt'
  BY <1>1, <1>4 DEF NInv, PoolAt
<1>13. Alive' /\ Distinct(free')
  BY <1>1, <1>2, <1>4, LiveFacts
<1>14. PlaceAt' /\ LinkAt' /\ FreshAt'
  BY <1>6, <1>9, <1>13, SubnetsAt
<1>. QED BY <1>8, <1>10, <1>11, <1>12, <1>14 DEF NInv

\* The Tap goes to the Worker that waits for it, or to the manager, which will undo it.
LEMMA ServeAllocateStep == ASSUME NInv, ServeAllocate PROVE NInv'
<1>. DEFINE c == Head(q).c
<1>1. /\ man = "run" /\ q # <<>> /\ Head(q).m = "Allocate" /\ q' = Tail(q)
      /\ UNCHANGED <<provider, rows, leaving, lives, link, boot, snaps, lost>>
  BY DEF ServeAllocate, Next_is
<1>2. PICK tap \in TapType :
        /\ alloc(tap)
        /\ IF worker[c].pc = "waiting"
           THEN /\ worker' = [worker EXCEPT ![c] =
                    IF tap = NoTap THEN Idle
                    ELSE [pc |-> IF tap.kind = "device" THEN "up" ELSE "granted", tap |-> tap]]
                /\ UNCHANGED <<man, job>>
           ELSE /\ worker' = [worker EXCEPT ![c] = Idle]
                /\ man' = IF tap = NoTap THEN man ELSE "undo"
                /\ job' = tap
  BY DEF ServeAllocate
<1>3. /\ Alive /\ c \in Workers /\ worker[c].tap = NoTap /\ Reinstated /\ \A i \in 1..Len(q') : q'[i].m # "Request"
  BY <1>1, FirstMessage
<1>. DEFINE w == IF worker[c].pc = "waiting" /\ tap # NoTap
                 THEN [pc |-> IF tap.kind = "device" THEN "up" ELSE "granted", tap |-> tap] ELSE Idle
<1>4. worker' = [worker EXCEPT ![c] = w]
  BY <1>2
<1>5. /\ Fits(w) /\ (w.tap = tap \/ w.tap = NoTap) /\ w.pc # "building"
      /\ (w.pc = "up" => w.tap = tap /\ tap.kind = "device")
      /\ (worker[c].pc = "waiting" => w.tap = tap) /\ (worker[c].pc # "waiting" => w.tap = NoTap)
  <2>1. CASE w = Idle
    BY <1>2, <2>1, FitsFacts
  <2>2. CASE w # Idle
    <3>1. tap # NoTap /\ w = [pc |-> IF tap.kind = "device" THEN "up" ELSE "granted", tap |-> tap]
          /\ worker[c].pc = "waiting"
      BY <2>2
    <3>2. tap.s \in Subnet /\ tap.kind \in {"builder", "device"} /\ tap = [s |-> tap.s, kind |-> tap.kind]
      BY <3>1, TapFacts
    <3>. QED BY <3>1, <3>2, FitsFacts
  <2>. QED BY <2>1, <2>2
<1>6. /\ worker[c].pc = "waiting" => UNCHANGED <<man, job>>
      /\ worker[c].pc # "waiting" => man' = (IF tap = NoTap THEN man ELSE "undo") /\ job' = tap
  BY <1>2
<1>. HIDE DEF w
<1>7. worker \in [Workers -> WorkerType] /\ job = NoTap
  BY <1>1 DEF NInv, TypeOK, WorkerType, PhaseAt
<1>8. QueueAt'
  BY <1>1, <1>4, <1>7, Answered
<1>. HIDE DEF c
<1>9. /\ PoolTyped' /\ taken' = taken
      /\ free' \in Seq(Subnet) /\ Distinct(free') /\ (free = <<>> => free' = <<>>)
      /\ \A t \in Subnet : t # tap.s =>
           (InPool(t)' <=> InPool(t)) /\ (InIter(t)' <=> InIter(t)) /\ (InList(t)' <=> InList(t))
      /\ tap # NoTap =>
           /\ InPool(tap.s) \/ InIter(tap.s) \/ InList(tap.s)
           /\ \A t \in Subnet : t = tap.s => ~InPool(t)' /\ ~InIter(t)' /\ ~InList(t)'
           /\ tap.kind = "device" => InList(tap.s)
  BY <1>1, <1>2, Alloc
<1>10. tap # NoTap => tap.s \in Subnet
  BY TapFacts
<1>11. w.tap = NoTap \/ ~InWorker(w.tap.s)
  BY <1>3, <1>5, <1>9, <1>10, LiveFacts DEF SubnetAt, One
<1>12. /\ worker' \in [Workers -> WorkerType] /\ WorkerAt'
       /\ \A t \in Subnet :
            /\ InWorker(t)' <=> (w.tap.s = t \/ (InWorker(t) /\ worker[c].tap.s # t))
            /\ Runs(t)' <=> ((w.pc = "up" /\ w.tap.s = t) \/ (Runs(t) /\ worker[c].tap.s # t))
            /\ Builds(t)' <=> ((w.pc = "building" /\ w.tap.s = t) \/ (Builds(t) /\ worker[c].tap.s # t))
  BY <1>3, <1>4, <1>5, <1>11, WorkerSet
<1>13. /\ q' \in Seq(Message) /\ DistinctTaps(q') /\ \A s : InQueue(s)' <=> InQueue(s)
  BY <1>1, <1>3, LiveFacts, Received
<1>14. provider = "plain" => free = <<>> /\ tap.kind # "device"
  <2>1. provider = "plain" => free = <<>>
    BY DEF NInv, PoolAt
  <2>2. free = <<>> => \A t : ~InList(t)
    BY DEF InList
  <2>. QED BY <1>9, <2>1, <2>2, NoTapFacts
<1>15. man' \in {"run", "undo"} /\ (man' = "undo" => job' # NoTap) /\ (man' = "run" => job' = NoTap) /\ job' \in TapType
       /\ \A t \in Subnet : job'.s = t <=> (worker[c].pc # "waiting" /\ tap.s = t)
  BY <1>1, <1>2, <1>6, <1>7, NoTapFacts
<1>16. ASSUME NEW t \in Subnet PROVE SubnetAt(t)'
  <2>1. /\ SubnetAt(t) /\ (Runs(t) => InWorker(t)) /\ (Builds(t) => InWorker(t))
        /\ worker[c].tap.s # t /\ (InQueue(t)' <=> InQueue(t)) /\ job.s # t
    BY <1>3, <1>7, <1>13, LiveFacts, NoTapFacts
  <2>2. /\ InWorker(t)' <=> ((worker[c].pc = "waiting" /\ tap.s = t) \/ InWorker(t))
        /\ Runs(t)' <=> ((w.pc = "up" /\ tap.s = t) \/ Runs(t))
        /\ Builds(t)' <=> Builds(t)
    BY <1>5, <1>12, <2>1, NoTapFacts
  <2>3. CASE t # tap.s
    <3>1. (InWorker(t)' <=> InWorker(t)) /\ (Runs(t)' <=> Runs(t)) /\ job'.s # t
      BY <1>15, <2>2, <2>3
    <3>2. (InPool(t)' <=> InPool(t)) /\ (InIter(t)' <=> InIter(t)) /\ (InList(t)' <=> InList(t))
      BY <1>9, <2>3
    <3>3. One(t)'
      BY <1>1, <2>1, <3>1, <3>2 DEF SubnetAt, One
    <3>4. Making(t)' <=> Making(t)
      BY <1>1, <1>15, <2>1, <2>2 DEF Making
    <3>. QED BY <1>1, <2>1, <3>1, <3>2, <3>3, <3>4 DEF SubnetAt
  <2>4. CASE t = tap.s
    <3>1. tap # NoTap
      BY <2>4, NoTapFacts
    <3>2. ~InPool(t)' /\ ~InIter(t)' /\ ~InList(t)' /\ (InPool(t) \/ InIter(t) \/ InList(t))
      BY <1>9, <2>4, <3>1
    <3>3. /\ ~InWorker(t) /\ ~Runs(t) /\ ~Builds(t) /\ ~InQueue(t) /\ ~InQueue(t)' /\ t \notin lost /\ t \notin snaps
          /\ t \notin boot.pre /\ t \notin boot.half
      BY <2>1, <3>2 DEF SubnetAt, One
    <3>4. (InWorker(t)' <=> worker[c].pc = "waiting") /\ (job'.s = t <=> worker[c].pc # "waiting")
      BY <1>15, <2>2, <2>4, <3>3
    <3>5. One(t)'
      BY <1>1, <3>2, <3>3, <3>4 DEF One
    <3>6. link[t] # "partial" /\ (tap.kind = "device" => link[t] # "absent")
      BY <1>1, <1>9, <2>1, <2>4, <3>1, <3>3 DEF SubnetAt, Making
    <3>7. /\ Runs(t)' => tap.kind = "device"
          /\ job'.s = t => job' = tap
      BY <1>5, <1>6, <2>2, <3>3, <3>4
    <3>. QED BY <1>1, <1>14, <2>1, <3>2, <3>3, <3>5, <3>6, <3>7 DEF SubnetAt
  <2>. QED BY <2>3, <2>4
<1>17. TypeOK'
  BY <1>1, <1>9, <1>12, <1>13, <1>15 DEF NInv, TypeOK, WorkerType, PoolTyped
<1>18. PhaseAt'
  BY <1>1, <1>15 DEF NInv, PhaseAt
<1>19. PoolAt'
  BY <1>1, <1>9, <1>14, RangeFacts DEF NInv, PoolAt
<1>20. RequestAt'
  BY <1>1, <1>3, <1>15, NoRequest
<1>21. Alive'
  BY <1>1, <1>3, <1>15
<1>22. PlaceAt' /\ LinkAt' /\ FreshAt'
  BY <1>9, <1>13, <1>16, <1>21, SubnetsAt
<1>. QED BY <1>8, <1>12, <1>17, <1>18, <1>19, <1>20, <1>22 DEF NInv

LEMMA BootAsked ==
    ASSUME NInv, boot' = [boot EXCEPT !.asked = FALSE]
    PROVE  /\ boot'.pre = boot.pre /\ boot'.half = boot.half /\ boot'.failed = boot.failed
           /\ boot'.todo = boot.todo /\ boot'.asked = FALSE
           /\ boot' \in [pre : SUBSET Subnet, half : SUBSET Subnet, failed : BOOLEAN, todo : SUBSET Subnet, asked : BOOLEAN]
<1>1. boot \in [pre : SUBSET Subnet, half : SUBSET Subnet, failed : BOOLEAN, todo : SUBSET Subnet, asked : BOOLEAN]
  BY DEF NInv, TypeOK
<1>. QED BY <1>1

\* A Request leaves the channel empty; the Workers have nothing.
LEMMA RequestServed ==
    ASSUME NInv, ServeRequest, NEW s, s = Head(q).tap.s
    PROVE  /\ man = "run" /\ Alive /\ s \in Subnet /\ s \in rows \ (taken \cup boot.todo) /\ boot.asked /\ q' = <<>>
           /\ leaving = {} /\ (\A c \in Workers : worker[c] = Idle)
           /\ UNCHANGED <<provider, rows, leaving, lives, worker>>
           /\ q' \in Seq(Message) /\ WorkerAt' /\ QueueAt' /\ DistinctTaps(q') /\ job = NoTap
           /\ boot.todo \cap taken = {} /\ boot.pre = {} /\ boot.half = {} /\ ~boot.failed
           /\ \A t \in Subnet : /\ ~InQueue(t) /\ ~InQueue(t)' /\ ~InWorker(t) /\ ~InWorker(t)' /\ ~Runs(t) /\ ~Runs(t)'
                                /\ ~Builds(t) /\ ~Builds(t)' /\ job.s # t /\ SubnetAt(t)
<1>1. man = "run" /\ q # <<>> /\ Head(q).m = "Request" /\ q' = Tail(q) /\ UNCHANGED <<provider, rows, leaving, lives, worker>>
  BY DEF ServeRequest, Next_is
<1>2. /\ Alive /\ s \in Subnet /\ s \in rows \ (taken \cup boot.todo) /\ boot.asked /\ q' = <<>> /\ leaving = {}
      /\ (\A c \in Workers : worker[c] = Idle)
  BY <1>1, FirstMessage
<1>3. job = NoTap /\ boot.pre = {} /\ boot.half = {} /\ ~boot.failed /\ boot.todo \cap taken = {}
  BY <1>1 DEF NInv, PhaseAt, RequestAt
<1>4. q' \in Seq(Message) /\ DistinctTaps(q') /\ \A t : InQueue(t) <=> InQueue(t)'
  BY <1>1, <1>2, LiveFacts, Received
<1>5. WorkerAt' /\ QueueAt'
  BY <1>1, <1>2 DEF NInv, WorkerAt, QueueAt, DistinctCallers
<1>6. ASSUME NEW t \in Subnet
      PROVE  /\ ~InQueue(t) /\ ~InQueue(t)' /\ ~InWorker(t) /\ ~InWorker(t)' /\ ~Runs(t) /\ ~Runs(t)'
             /\ ~Builds(t) /\ ~Builds(t)' /\ job.s # t /\ SubnetAt(t)
  <2>1. ~InQueue(t)'
    BY <1>2 DEF InQueue
  <2>2. ~InWorker(t)
    BY <1>2, NoTapFacts DEF InWorker
  <2>3. SubnetAt(t) /\ ~Runs(t) /\ ~Builds(t)
    BY <1>2, <2>2, LiveFacts
  <2>4. (InWorker(t)' <=> InWorker(t)) /\ (Runs(t)' <=> Runs(t)) /\ (Builds(t)' <=> Builds(t))
    BY <1>1, WorkerFrame
  <2>. QED BY <1>3, <1>4, <2>1, <2>2, <2>3, <2>4, NoTapFacts
<1>. QED BY <1>1, <1>2, <1>3, <1>4, <1>5, <1>6

LEMMA ServeRequestStep == ASSUME NInv, ServeRequest PROVE NInv'
<1>. DEFINE s == Head(q).tap.s
<1>1. /\ man = "run" /\ Alive /\ s \in Subnet /\ s \in rows \ (taken \cup boot.todo) /\ boot.asked /\ q' = <<>>
      /\ leaving = {} /\ (\A c \in Workers : worker[c] = Idle)
      /\ UNCHANGED <<provider, rows, leaving, lives, worker>>
      /\ q' \in Seq(Message) /\ WorkerAt' /\ QueueAt' /\ DistinctTaps(q') /\ job = NoTap
      /\ boot.todo \cap taken = {} /\ boot.pre = {} /\ boot.half = {} /\ ~boot.failed
  BY RequestServed
<1>2. \A t \in Subnet : /\ ~InQueue(t) /\ ~InQueue(t)' /\ ~InWorker(t) /\ ~InWorker(t)' /\ ~Runs(t) /\ ~Runs(t)'
                        /\ ~Builds(t) /\ ~Builds(t)' /\ job.s # t /\ SubnetAt(t)
  BY RequestServed
<1>3. /\ link \in [Subnet -> {"absent", "partial", "torn", "up", "alien"}]
      /\ snaps \subseteq Subnet /\ lost \subseteq Subnet /\ free \in Seq(Subnet) /\ Distinct(free) /\ PoolTyped
  BY <1>1, LiveFacts, PoolTypes
<1>4. CASE /\ InFree(s)
           /\ \E i \in DOMAIN free :
                /\ free[i] = s /\ \A j \in 1 .. i-1 : free[j] # s
                /\ free' = RemoveAt(free, i)
           /\ snaps' = snaps \cup {s}
           /\ boot' = [boot EXCEPT !.asked = FALSE]
           /\ UNCHANGED <<next, taken, free_q, free_set, link, man, job, lost>>
  <2>1. PICK i \in 1..Len(free) : free[i] = s /\ free' = RemoveAt(free, i)
    BY <1>3, <1>4
  <2>2. free' \in Seq(Subnet) /\ (\A t : InList(t)' <=> InList(t) /\ t # s) /\ InList(s) /\ Distinct(free')
    BY <1>3, <2>1, RemovedAt
  <2>. HIDE DEF s
  <2>3. /\ boot'.pre = boot.pre /\ boot'.half = boot.half /\ boot'.failed = boot.failed
        /\ boot'.todo = boot.todo /\ boot'.asked = FALSE
        /\ boot' \in [pre : SUBSET Subnet, half : SUBSET Subnet, failed : BOOLEAN, todo : SUBSET Subnet, asked : BOOLEAN]
    BY <1>4, BootAsked
  <2>4. ASSUME NEW t \in Subnet PROVE SubnetAt(t)'
    <3>1. (InPool(t)' <=> InPool(t)) /\ (InIter(t)' <=> InIter(t))
      BY <1>4, PoolFrame
    <3>2. One(t)'
      BY <1>2, <1>4, <2>2, <2>3, <3>1 DEF SubnetAt, One
    <3>3. Making(t)' <=> Making(t)
      BY <1>1, <1>2, <1>4, <2>3 DEF Making
    <3>. QED BY <1>1, <1>2, <1>4, <2>2, <3>2, <3>3 DEF SubnetAt
  <2>5. TypeOK'
    BY <1>1, <1>3, <1>4, <2>2, <2>3 DEF NInv, TypeOK
  <2>6. PhaseAt'
    BY <1>1, <1>4, <2>3 DEF NInv, PhaseAt
  <2>7. PoolAt'
    <3>1. provider # "plain"
      BY <2>2 DEF NInv, PoolAt, InList
    <3>. QED BY <1>1, <1>4, <3>1 DEF NInv, PoolAt
  <2>8. RequestAt'
    BY <1>1, <1>4, <2>3, RequestDone
  <2>9. Alive'
    BY <1>1, <1>4, <2>3
  <2>10. PlaceAt' /\ LinkAt' /\ FreshAt'
    BY <1>1, <2>2, <2>4, <2>9, SubnetsAt
  <2>. QED BY <1>1, <2>5, <2>6, <2>7, <2>8, <2>10 DEF NInv
<1>5. CASE /\ ~InFree(s) /\ ~Pool!GetOk(s)
           /\ boot' = [boot EXCEPT !.asked = FALSE]
           /\ UNCHANGED <<next, taken, free_q, free_set, free, link, man, job, snaps, lost>>
  <2>1. /\ boot'.pre = boot.pre /\ boot'.half = boot.half /\ boot'.failed = boot.failed
        /\ boot'.todo = boot.todo /\ boot'.asked = FALSE
        /\ boot' \in [pre : SUBSET Subnet, half : SUBSET Subnet, failed : BOOLEAN, todo : SUBSET Subnet, asked : BOOLEAN]
    BY <1>5, BootAsked
  <2>2. ASSUME NEW t \in Subnet PROVE SubnetAt(t)'
    BY <1>1, <1>2, <1>5, <2>1, PoolFrame, ListFrame, SubnetFrame
  <2>3. TypeOK'
    BY <1>1, <1>5, <2>1 DEF NInv, TypeOK
  <2>4. PhaseAt'
    BY <1>1, <1>5, <2>1 DEF NInv, PhaseAt
  <2>5. PoolAt'
    BY <1>1, <1>5, <2>1 DEF NInv, PoolAt
  <2>6. RequestAt'
    BY <1>1, <1>5, <2>1, RequestDone
  <2>7. Alive' /\ Distinct(free')
    BY <1>1, <1>3, <1>5, <2>1
  <2>8. PlaceAt' /\ LinkAt' /\ FreshAt'
    BY <1>1, <2>2, <2>7, SubnetsAt
  <2>. QED BY <1>1, <2>3, <2>4, <2>5, <2>6, <2>8 DEF NInv
<1>6. CASE /\ ~InFree(s) /\ Pool!GetOk(s)
           /\ Pool!get(s)
           /\ \E res \in IoctlResult, ok \in BOOLEAN :
                /\ create_tap_device(s, res)
                /\ ok \in build_or_adopt(res)
                /\ IF res = "created"
                   THEN /\ man' = "build" /\ job' = Tap(s, "builder")
                        /\ UNCHANGED <<snaps, boot, lost>>
                   ELSE /\ snaps' = IF ok THEN snaps \cup {s} ELSE snaps
                        /\ lost' = IF ok THEN lost ELSE lost \cup {s}
                        /\ boot' = [boot EXCEPT !.asked = FALSE]
                        /\ UNCHANGED <<man, job>>
           /\ UNCHANGED <<free_q, free>>
  <2>1. PICK res \in IoctlResult, ok \in BOOLEAN :
          /\ create_tap_device(s, res)
          /\ ok \in build_or_adopt(res)
          /\ IF res = "created"
             THEN /\ man' = "build" /\ job' = Tap(s, "builder")
                  /\ UNCHANGED <<snaps, boot, lost>>
             ELSE /\ snaps' = IF ok THEN snaps \cup {s} ELSE snaps
                  /\ lost' = IF ok THEN lost ELSE lost \cup {s}
                  /\ boot' = [boot EXCEPT !.asked = FALSE]
                  /\ UNCHANGED <<man, job>>
    BY <1>6
  <2>2. /\ PoolTyped' /\ InIter(s) /\ taken' \subseteq taken \cup {s}
        /\ \A t \in Subnet : (InPool(t)' <=> InPool(t)) /\ (InIter(t)' <=> InIter(t) /\ t # s)
    BY <1>1, <1>3, <1>6, Get
  <2>. HIDE DEF s
  <2>3. ok => res = "busy"
    BY <2>1 DEF build_or_adopt
  <2>4. /\ link' \in [Subnet -> {"absent", "partial", "torn", "up", "alien"}]
        /\ \A t \in Subnet \ {s} : link'[t] = link[t]
        /\ res = "created" => link[s] = "absent" /\ link'[s] = "partial"
        /\ res # "created" => link' = link
        /\ res = "busy" => link[s] # "absent"
    BY <1>1, <1>3, <2>1, Created
  <2>5. \A t : InList(t)' <=> InList(t)
    BY <1>6, ListFrame
  <2>6. boot.todo \cap taken' = {}
    BY <1>1, <2>2
  <2>7. link[s] # "partial" /\ s \notin snaps /\ s \notin lost /\ ~InList(s) /\ ~InPool(s)
    BY <1>1, <1>2, <2>2 DEF SubnetAt, One, Making
  <2>8. CASE res = "created"
    <3>1. man' = "build" /\ job' = Tap(s, "builder") /\ UNCHANGED <<snaps, boot, lost>>
      BY <2>1, <2>8
    <3>2. job' \in TapType /\ job'.s = s /\ job'.kind = "builder"
      BY <1>1, <3>1 DEF TapType
    <3>3. ASSUME NEW t \in Subnet PROVE SubnetAt(t)'
      <4>1. One(t)'
        BY <1>2, <2>2, <2>5, <2>7, <3>1, <3>2 DEF SubnetAt, One
      <4>2. CASE t = s
        <5>1. Making(t)' /\ ~InList(t)' /\ t \notin snaps'
          BY <2>5, <2>7, <3>1, <3>2, <4>2 DEF Making
        <5>. QED BY <1>1, <1>2, <3>2, <4>1, <5>1 DEF SubnetAt
      <4>3. CASE t # s
        <5>1. Making(t)' <=> Making(t)
          BY <1>1, <1>2, <3>1, <3>2, <4>3 DEF Making
        <5>. QED BY <1>1, <1>2, <2>4, <2>5, <3>1, <3>2, <4>1, <4>3, <5>1 DEF SubnetAt
      <4>. QED BY <4>2, <4>3
    <3>4. TypeOK'
      BY <1>1, <1>6, <2>2, <2>4, <3>1, <3>2 DEF NInv, TypeOK, PoolTyped
    <3>5. PhaseAt'
      BY <1>1, <3>1, <3>2 DEF NInv, PhaseAt
    <3>6. PoolAt'
      BY <1>1, <1>6, <2>2, <3>1, RangeFacts DEF NInv, PoolAt
    <3>7. RequestAt'
      BY <1>1, <2>6, <3>1 DEF NInv, RequestAt
    <3>8. Alive' /\ Distinct(free')
      BY <1>1, <1>3, <1>6, <3>1
    <3>9. PlaceAt' /\ LinkAt' /\ FreshAt'
      BY <1>1, <3>3, <3>8, SubnetsAt
    <3>. QED BY <1>1, <3>4, <3>5, <3>6, <3>7, <3>9 DEF NInv
  <2>9. CASE res # "created"
    <3>1. /\ snaps' = IF ok THEN snaps \cup {s} ELSE snaps
          /\ lost' = IF ok THEN lost ELSE lost \cup {s}
          /\ boot' = [boot EXCEPT !.asked = FALSE]
          /\ UNCHANGED <<man, job, link>>
      BY <2>1, <2>4, <2>9
    <3>2. /\ boot'.pre = boot.pre /\ boot'.half = boot.half /\ boot'.failed = boot.failed
          /\ boot'.todo = boot.todo /\ boot'.asked = FALSE
          /\ boot' \in [pre : SUBSET Subnet, half : SUBSET Subnet, failed : BOOLEAN, todo : SUBSET Subnet, asked : BOOLEAN]
      BY <3>1, BootAsked
    <3>3. ASSUME NEW t \in Subnet PROVE SubnetAt(t)'
      <4>1. One(t)'
        BY <1>2, <2>2, <2>5, <2>7, <3>1, <3>2 DEF SubnetAt, One
      <4>2. Making(t) => Making(t)'
        BY <1>1, <1>2, <3>1, <3>2 DEF Making
      <4>3. CASE t = s
        <5>1. (ok => link[t] # "absent") /\ link[t] # "partial" /\ t \in rows /\ t \notin leaving'
          BY <1>1, <2>3, <2>4, <2>7, <4>3
        <5>. QED BY <1>1, <1>2, <2>5, <2>7, <3>1, <4>1, <4>3, <5>1 DEF SubnetAt
      <4>4. CASE t # s
        BY <1>1, <1>2, <2>5, <3>1, <4>1, <4>2, <4>4 DEF SubnetAt
      <4>. QED BY <4>3, <4>4
    <3>4. TypeOK'
      BY <1>1, <1>3, <1>6, <2>2, <2>4, <3>1, <3>2 DEF NInv, TypeOK, PoolTyped
    <3>5. PhaseAt'
      BY <1>1, <3>1, <3>2 DEF NInv, PhaseAt
    <3>6. PoolAt'
      BY <1>1, <1>6, <2>2, <3>2, RangeFacts DEF NInv, PoolAt
    <3>7. RequestAt'
      BY <1>1, <2>6, <3>1, <3>2, RequestDone
    <3>8. Alive' /\ Distinct(free')
      BY <1>1, <1>3, <1>6, <3>1, <3>2
    <3>9. PlaceAt' /\ LinkAt' /\ FreshAt'
      BY <1>1, <3>3, <3>8, SubnetsAt
    <3>. QED BY <1>1, <3>4, <3>5, <3>6, <3>7, <3>9 DEF NInv
  <2>. QED BY <2>8, <2>9
<1>. QED BY <1>4, <1>5, <1>6 DEF ServeRequest

LEMMA FinishRequestStep == ASSUME NInv, FinishRequest PROVE NInv'
<1>. DEFINE s == job.s
<1>1. PICK ok \in BOOLEAN :
        /\ configure(s, ok)
        /\ snaps' = IF ok THEN snaps \cup {s} ELSE snaps
        /\ lost' = IF ok THEN lost ELSE lost \cup {s}
  BY DEF FinishRequest
<1>2. /\ man = "build" /\ man' = "run" /\ job' = NoTap /\ boot' = [boot EXCEPT !.asked = FALSE]
      /\ UNCHANGED <<provider, next, taken, free_q, free_set, free, q, worker, rows, leaving, lives>>
  BY DEF FinishRequest
<1>3. Alive /\ boot.asked /\ q = <<>> /\ leaving = {} /\ (\A c \in Workers : worker[c] = Idle) /\ boot.todo \cap taken = {}
  <2>1. Alive /\ boot.asked
    BY <1>2, Served DEF NInv, RequestAt
  <2>. QED BY <1>2, <2>1 DEF NInv, RequestAt
<1>4. s \in Subnet /\ job.kind = "builder"
  <2>1. job \in TapType /\ job.kind = "builder"
    BY <1>2 DEF NInv, TypeOK, PhaseAt
  <2>. QED BY <2>1, TapFacts, NoTapFacts
<1>5. /\ boot'.pre = boot.pre /\ boot'.half = boot.half /\ boot'.failed = boot.failed
      /\ boot'.todo = boot.todo /\ boot'.asked = FALSE
      /\ boot' \in [pre : SUBSET Subnet, half : SUBSET Subnet, failed : BOOLEAN, todo : SUBSET Subnet, asked : BOOLEAN]
  BY <1>2, BootAsked
<1>6. /\ link' \in [Subnet -> {"absent", "partial", "torn", "up", "alien"}]
      /\ \A t \in Subnet \ {s} : link'[t] = link[t]
      /\ ok => link'[s] = "up"
  BY <1>1, <1>3, <1>4, LiveFacts, Configured
<1>7. job'.s \notin Subnet /\ job' \in TapType
  BY <1>2, NoTapFacts
<1>8. \A t \in Subnet : job.s = t <=> s = t
  OBVIOUS
<1>. HIDE DEF s
<1>9. ASSUME NEW t \in Subnet PROVE SubnetAt(t)'
  <2>1. /\ SubnetAt(t) /\ (Runs(t) => InWorker(t)) /\ (Builds(t) => InWorker(t))
        /\ (InPool(t)' <=> InPool(t)) /\ (InIter(t)' <=> InIter(t)) /\ (InList(t)' <=> InList(t))
        /\ (InWorker(t)' <=> InWorker(t)) /\ (Runs(t)' <=> Runs(t)) /\ (Builds(t)' <=> Builds(t))
        /\ (InQueue(t)' <=> InQueue(t)) /\ job'.s # t
    BY <1>2, <1>3, <1>7, LiveFacts, PoolFrame, ListFrame, WorkerFrame, QueueFrame
  <2>2. One(t)'
    BY <1>1, <1>5, <1>8, <2>1 DEF SubnetAt, One
  <2>3. CASE t # s
    <3>1. Making(t) => Making(t)'
      BY <1>1, <1>2, <1>5, <1>8, <2>1, <2>3 DEF Making
    <3>. QED BY <1>1, <1>2, <1>6, <2>1, <2>2, <2>3, <3>1 DEF SubnetAt
  <2>4. CASE t = s
    <3>1. ~InWorker(t) /\ ~InQueue(t) /\ ~InList(t) /\ t \notin snaps
      BY <1>8, <2>1, <2>4 DEF SubnetAt, One
    <3>2. link'[t] = "partial" => Making(t)'
      BY <1>1, <1>6, <2>4 DEF Making
    <3>. QED BY <1>1, <1>2, <1>3, <1>6, <2>1, <2>2, <2>4, <3>1, <3>2 DEF SubnetAt
  <2>. QED BY <2>3, <2>4
<1>10. TypeOK'
  BY <1>1, <1>2, <1>4, <1>5, <1>6, <1>7 DEF NInv, TypeOK
<1>11. PhaseAt'
  BY <1>2, <1>5 DEF NInv, PhaseAt
<1>12. WorkerAt' /\ QueueAt'
  BY <1>2 DEF NInv, WorkerAt, QueueAt
<1>13. PoolAt'
  BY <1>2, <1>5 DEF NInv, PoolAt
<1>14. RequestAt'
  BY <1>2, <1>3, <1>5, RequestDone
<1>15. Alive' /\ Distinct(free') /\ DistinctTaps(q')
  BY <1>2, <1>3, <1>5, LiveFacts
<1>16. PlaceAt' /\ LinkAt' /\ FreshAt'
  BY <1>9, <1>15, SubnetsAt
<1>. QED BY <1>10, <1>11, <1>12, <1>13, <1>14, <1>16 DEF NInv

\* A Tap is deallocated: it was in the channel, or with the manager.
LEMMA Deallocated ==
    ASSUME NInv, man \in {"run", "quit", "undo"}, NEW tap \in TapType, tap # NoTap, dealloc(tap),
           tap.s \notin lost, ~InPool(tap.s), ~InList(tap.s), ~InIter(tap.s), tap.s \notin snaps, ~InWorker(tap.s),
           tap.s = job.s \/ (InQueue(tap.s) /\ tap.kind = "device"), job.s = tap.s => job = tap,
           man' \in {"run", "quit"}, q' \in Seq(Message), DistinctTaps(q'), QueueAt', RequestAt', job' = NoTap,
           job.s \notin Subnet \/ job.s = tap.s,
           \A t \in Subnet : InQueue(t)' <=> InQueue(t) /\ t # tap.s,
           UNCHANGED <<provider, boot, worker, snaps, rows, leaving, lives>>
    PROVE  NInv'
<1>1. Alive /\ tap.s \in Subnet
  BY Served, TapFacts
<1>2. /\ PoolTyped' /\ UNCHANGED <<next, taken>>
      /\ free' \in Seq(Subnet) /\ Distinct(free') /\ (provider = "plain" => free' = free)
      /\ link' \in [Subnet -> {"absent", "partial", "torn", "up", "alien"}]
      /\ lost' \subseteq lost \cup {tap.s} /\ lost \subseteq lost'
      /\ \A t \in Subnet : t # tap.s =>
           /\ (InPool(t)' <=> InPool(t)) /\ (InIter(t)' <=> InIter(t)) /\ (InList(t)' <=> InList(t))
           /\ link'[t] = link[t]
      /\ \A t \in Subnet : t = tap.s =>
           /\ InIter(t)' <=> InIter(t)
           /\ InPool(t)' \/ InList(t)' \/ t \in lost'
           /\ InPool(t)' => ~InList(t)' /\ t \notin lost'
           /\ InList(t)' => t \notin lost' /\ tap.kind = "device"
           /\ link'[t] = link[t] \/ (link'[t] = "absent" /\ InPool(t)')
           /\ tap.kind = "device" /\ InPool(t)' => link'[t] = "absent"
  BY <1>1, Dealloc
<1>3. job'.s \notin Subnet /\ job' \in TapType
  BY NoTapFacts
<1>4. ASSUME NEW t \in Subnet PROVE SubnetAt(t)'
  <2>1. /\ SubnetAt(t) /\ (Runs(t) => InWorker(t)) /\ (Builds(t) => InWorker(t))
        /\ (InWorker(t)' <=> InWorker(t)) /\ (Runs(t)' <=> Runs(t)) /\ (Builds(t)' <=> Builds(t)) /\ job'.s # t
    BY <1>1, <1>3, LiveFacts, WorkerFrame
  <2>2. CASE t # tap.s
    <3>1. /\ (InPool(t)' <=> InPool(t)) /\ (InIter(t)' <=> InIter(t)) /\ (InList(t)' <=> InList(t))
          /\ link'[t] = link[t] /\ (InQueue(t)' <=> InQueue(t)) /\ (t \in lost' <=> t \in lost) /\ job.s # t
      BY <1>2, <2>2
    <3>2. One(t)'
      BY <2>1, <3>1 DEF SubnetAt, One
    <3>3. Making(t)' <=> Making(t)
      BY <2>1, <3>1 DEF Making
    <3>. QED BY <2>1, <3>1, <3>2, <3>3 DEF SubnetAt
  <2>3. CASE t = tap.s
    <3>1. /\ ~InQueue(t)' /\ ~InWorker(t)' /\ ~Runs(t)' /\ ~Builds(t)' /\ t \notin snaps' /\ ~InIter(t)'
          /\ t \notin boot'.pre /\ t \notin boot'.half
      BY <1>2, <2>1, <2>3, Served
    <3>2. One(t)'
      BY <1>2, <2>1, <2>3, <3>1 DEF One
    <3>3. link[t] # "partial" /\ (tap.kind = "device" => link[t] # "absent")
      <4>1. tap.kind = "device" => link[t] \notin {"absent", "partial"}
        BY <2>1, <2>3 DEF SubnetAt
      <4>2. ~Making(t)
        BY <2>1, <2>3, Served DEF Making
      <4>. QED BY <2>1, <4>1, <4>2 DEF SubnetAt
    <3>4. provider = "plain" /\ link'[t] \in {"torn", "alien"} /\ t \in leaving' => t \in lost'
      <4>1. SUFFICES ASSUME provider = "plain", link'[t] \in {"torn", "alien"}, t \in leaving, t \notin lost' PROVE FALSE
        OBVIOUS
      <4>2. free = <<>> /\ free' = <<>>
        BY <1>2, <4>1 DEF NInv, PoolAt
      <4>3. ~InList(t)'
        BY <4>2 DEF InList
      <4>4. InPool(t)' /\ link'[t] = link[t] /\ tap.kind # "device"
        BY <1>2, <2>3, <4>1, <4>3
      <4>5. InQueue(t)
        BY <2>1, <2>3, <4>1, <4>4 DEF SubnetAt
      <4>6. tap.s = job.s
        BY <4>4
      <4>. QED BY <2>1, <2>3, <4>5, <4>6 DEF SubnetAt, One
    <3>. QED BY <1>2, <2>1, <2>3, <3>1, <3>2, <3>3, <3>4 DEF SubnetAt
  <2>. QED BY <2>2, <2>3
<1>5. lost' \subseteq Subnet
  BY <1>1, <1>2, LiveFacts
<1>6. TypeOK'
  BY <1>2, <1>3, <1>5 DEF NInv, TypeOK, PoolTyped
<1>7. PhaseAt'
  BY <1>1 DEF NInv, PhaseAt
<1>8. WorkerAt'
  BY DEF NInv, WorkerAt
<1>9. PoolAt'
  BY <1>2, RangeFacts DEF NInv, PoolAt
<1>10. Alive'
  BY <1>1
<1>11. PlaceAt' /\ LinkAt' /\ FreshAt'
  BY <1>2, <1>4, <1>10, SubnetsAt
<1>. QED BY <1>6, <1>7, <1>8, <1>9, <1>11 DEF NInv

LEMMA ServeDeallocateStep == ASSUME NInv, ServeDeallocate PROVE NInv'
<1>. DEFINE tap == Head(q).tap
<1>1. /\ man \in {"run", "quit"} /\ q # <<>> /\ Head(q).m = "Deallocate" /\ q' = Tail(q) /\ dealloc(tap)
      /\ UNCHANGED <<provider, man, job, boot, worker, snaps, rows, leaving, lives>>
  BY DEF ServeDeallocate
<1>2. Alive /\ Head(q) \in Message /\ Reinstated /\ \A i \in 1..Len(q') : q'[i].m # "Request"
  BY <1>1, FirstMessage
<1>3. tap \in TapType /\ tap.kind = "device" /\ tap.s \in Subnet /\ tap # NoTap
  BY <1>1, <1>2, MessageFacts, NoTapFacts
<1>4. /\ q' \in Seq(Message) /\ DistinctTaps(q') /\ DistinctCallers(q')
      /\ \A i \in 1..Len(q') : i + 1 \in 1..Len(q) /\ q'[i] = q[i + 1]
      /\ \A t : InQueue(t) <=> InQueue(t)' \/ tap.s = t
      /\ \A t : t = tap.s => ~InQueue(t)'
  BY <1>1, <1>2, LiveFacts, Received
<1>5. job = NoTap /\ job' = NoTap /\ job.s \notin Subnet
  BY <1>1, NoTapFacts DEF NInv, PhaseAt
<1>. HIDE DEF tap
<1>6. InQueue(tap.s) /\ \A t \in Subnet : InQueue(t)' <=> InQueue(t) /\ t # tap.s
  BY <1>4
<1>7. /\ tap.s \notin lost /\ ~InPool(tap.s) /\ ~InList(tap.s) /\ ~InIter(tap.s) /\ tap.s \notin snaps /\ ~InWorker(tap.s)
  BY <1>2, <1>3, <1>6, LiveFacts DEF SubnetAt, One
<1>8. QueueAt'
  BY <1>1, <1>4 DEF NInv, QueueAt
<1>9. RequestAt'
  BY <1>1, <1>2, NoRequest
<1>. QED BY <1>1, <1>3, <1>4, <1>5, <1>6, <1>7, <1>8, <1>9, Deallocated

LEMMA UndoStep == ASSUME NInv, Undo PROVE NInv'
<1>1. /\ man = "undo" /\ dealloc(job) /\ man' = "run" /\ job' = NoTap
      /\ UNCHANGED <<provider, q, boot, worker, snaps, rows, leaving, lives>>
  BY DEF Undo
<1>2. Alive /\ job \in TapType /\ job # NoTap
  BY <1>1, Served DEF NInv, TypeOK, PhaseAt
<1>3. job.s \in Subnet
  BY <1>2, TapFacts
<1>4. /\ job.s \notin lost /\ ~InPool(job.s) /\ ~InList(job.s) /\ ~InIter(job.s) /\ job.s \notin snaps /\ ~InWorker(job.s)
      /\ ~InQueue(job.s)
  BY <1>2, <1>3, LiveFacts DEF SubnetAt, One
<1>5. q' \in Seq(Message) /\ DistinctTaps(q') /\ \A t \in Subnet : InQueue(t)' <=> InQueue(t) /\ t # job.s
  BY <1>1, <1>2, <1>4, LiveFacts, QueueFrame
<1>6. QueueAt'
  BY <1>1 DEF NInv, QueueAt
<1>7. RequestAt'
  <2>1. UNCHANGED taken
    BY <1>1, <1>2, <1>4, Dealloc
  <2>. QED BY <1>1, <2>1 DEF NInv, RequestAt
<1>. QED BY <1>1, <1>2, <1>4, <1>5, <1>6, <1>7, Deallocated

-----------------------------------------------------------------------------
(***************************************************************************)
(* The invariant holds.                                                    *)
(***************************************************************************)

LEMMA InitNInv == ASSUME Init PROVE NInv
<1>1. /\ provider \in Providers
      /\ next = 0 /\ taken = {} /\ free_q = <<>> /\ free_set = {} /\ free = <<>>
      /\ link = [s \in Subnet |-> "absent"]
      /\ man = "down" /\ job = NoTap /\ q = <<>> /\ boot = NotBooting
      /\ worker = [c \in Workers |-> Idle]
      /\ snaps = {} /\ rows = {} /\ leaving = {} /\ lost = {} /\ lives = 0
  BY DEF Init
<1>2. /\ boot.pre = {} /\ boot.half = {} /\ boot.failed = FALSE /\ boot.todo = {} /\ boot.asked = FALSE
      /\ boot \in [pre : SUBSET Subnet, half : SUBSET Subnet, failed : BOOLEAN, todo : SUBSET Subnet, asked : BOOLEAN]
  BY <1>1 DEF NotBooting
<1>3. \A c \in Workers : worker[c] = Idle /\ worker[c].tap = NoTap /\ worker[c].pc = "idle"
  BY <1>1
<1>4. worker \in [Workers -> WorkerType]
  BY <1>1, FitsFacts DEF Fits
<1>5. TypeOK
  <2>1. 0 \in 0 .. N /\ q \in Seq(Message) /\ free_q \in Seq(Nets) /\ free \in Seq(Subnet) /\ 0 \in 0 .. MaxLives
    BY <1>1, Numbers, NetworkAssumption
  <2>2. job \in TapType
    BY <1>1, NoTapFacts
  <2>3. link \in [Subnet -> {"absent", "partial", "torn", "up", "alien"}]
    BY <1>1
  <2>. QED BY <1>1, <1>2, <1>4, <2>1, <2>2, <2>3 DEF TypeOK, WorkerType
<1>6. PhaseAt
  BY <1>1, <1>2, <1>3 DEF PhaseAt
<1>7. WorkerAt
  BY <1>3 DEF WorkerAt
<1>8. QueueAt
  BY <1>1 DEF QueueAt, DistinctCallers
<1>9. RequestAt
  BY <1>1, <1>2 DEF RequestAt
<1>10. PoolAt
  BY <1>1, <1>2 DEF PoolAt
<1>11. PlaceAt /\ LinkAt
  BY <1>1 DEF PlaceAt, LinkAt
<1>12. FreshAt
  BY <1>1 DEF FreshAt
<1>. QED BY <1>5, <1>6, <1>7, <1>8, <1>9, <1>10, <1>11, <1>12 DEF NInv

LEMMA StutterNInv == ASSUME NInv, UNCHANGED vars PROVE NInv'
<1>1. UNCHANGED <<provider, next, taken, free_q, free_set, free, link, man, job, q, boot, worker, snaps, rows, leaving,
                  lost, lives>>
  BY DEF vars
<1>2. TypeOK' /\ PhaseAt' /\ WorkerAt' /\ QueueAt' /\ RequestAt' /\ PoolAt'
  BY <1>1 DEF NInv, TypeOK, PhaseAt, WorkerAt, QueueAt, RequestAt, PoolAt
<1>3. \A t : /\ (InQueue(t)' <=> InQueue(t)) /\ (InList(t)' <=> InList(t)) /\ (InPool(t)' <=> InPool(t))
             /\ (InIter(t)' <=> InIter(t)) /\ (InWorker(t)' <=> InWorker(t)) /\ (Runs(t)' <=> Runs(t))
             /\ (Builds(t)' <=> Builds(t))
  BY <1>1, QueueFrame, ListFrame, PoolFrame, WorkerFrame
<1>4. \A t : (One(t)' <=> One(t)) /\ (Making(t)' <=> Making(t))
  BY <1>1, <1>3 DEF One, Making
<1>5. PlaceAt'
  BY <1>1, <1>4 DEF NInv, PlaceAt
<1>6. LinkAt'
  BY <1>1, <1>3, <1>4 DEF NInv, LinkAt
<1>7. FreshAt'
  BY <1>1, <1>3 DEF NInv, FreshAt
<1>. QED BY <1>2, <1>5, <1>6, <1>7 DEF NInv

LEMMA NextNInv == ASSUME NInv, [Next]_vars PROVE NInv'
<1>1. CASE BootNext
  <2>1. CASE new
    BY <2>1, newStep
  <2>2. CASE Booted
    BY <2>2, BootedStep
  <2>3. CASE \E s \in Subnet : PreBuild(s) \/ PreBuilt(s) \/ Reinstate(s)
    BY <2>3, PreBuildStep, PreBuiltStep, ReinstateStep
  <2>. QED BY <1>1, <2>1, <2>2, <2>3 DEF BootNext
<1>2. CASE ManagerNext
  <2>1. CASE ServeAllocate
    BY <2>1, ServeAllocateStep
  <2>2. CASE ServeRequest
    BY <2>2, ServeRequestStep
  <2>3. CASE FinishRequest
    BY <2>3, FinishRequestStep
  <2>4. CASE ServeDeallocate
    BY <2>4, ServeDeallocateStep
  <2>5. CASE Undo
    BY <2>5, UndoStep
  <2>6. CASE UndoPanics
    BY <2>6, EndSteps DEF UndoPanics
  <2>7. CASE Refuse
    BY <2>7, RefuseStep
  <2>8. CASE shutdown
    BY <2>8, EndSteps
  <2>. QED BY <1>2, <2>1, <2>2, <2>3, <2>4, <2>5, <2>6, <2>7, <2>8 DEF ManagerNext
<1>3. CASE Quit
  BY <1>3, QuitStep
<1>4. CASE UnexpectedShutDown \/ Crash
  BY <1>4, EndSteps DEF Crash
<1>5. ASSUME NEW c \in Workers, WorkerNext(c) PROVE NInv'
  BY <1>5, WAllocateStep, WVanishesStep, WBuildStep, WBuiltStep, WSnapshotStep, WParksStep,
     WLoadStep, WDestroyStep DEF WorkerNext
<1>6. CASE \E s \in Subnet : DestroyOrphan(s) \/ RowRemoved(s)
  BY <1>6, DestroyOrphanStep, RowRemovedStep
<1>7. CASE UNCHANGED vars
  BY <1>7, StutterNInv
<1>. QED BY <1>1, <1>2, <1>3, <1>4, <1>5, <1>6, <1>7 DEF Next, Ended

LEMMA NetworkInvariance == Spec => []NInv
<1>1. Init => NInv
  BY InitNInv
<1>2. NInv /\ [Next]_vars => NInv'
  BY NextNInv
<1>. QED BY <1>1, <1>2, PTL DEF Spec

-----------------------------------------------------------------------------
(***************************************************************************)
(* What follows.                                                           *)
(***************************************************************************)

\* The places of each kind are none or one, as the invariant says.
LEMMA PlacesOf ==
    ASSUME NInv, Alive, boot.pre = {}, boot.half = {}, NEW s \in Subnet
    PROVE  \E p : Places(s) = {p}
<1>. DEFINE W == {<<"worker", c>> : c \in {d \in Workers : worker[d].tap.s = s}}
            Q == {<<"q", i>> : i \in {j \in DOMAIN q : q[j].m = "Deallocate" /\ q[j].tap.s = s}}
            F == {<<"free", i>> : i \in {j \in DOMAIN free : free[j] = s}}
            P == {<<"free_set", n>> : n \in {m \in free_set \cap Range(free_q) : NetOf(m) = s}}
            R == {<<p, 0>> : p \in {x \in {"snaps", "job", "iter", "boot", "lost"} :
                    \/ x = "snaps" /\ s \in snaps
                    \/ x = "job" /\ job.s = s
                    \/ x = "iter" /\ s \in Pool!Untaken
                    \/ x = "boot" /\ s \in boot.pre \cup boot.half
                    \/ x = "lost" /\ s \in lost}}
<1>0. Places(s) = W \cup Q \cup F \cup P \cup R
  BY DEF Places
<1>1. /\ DOMAIN q = 1..Len(q) /\ DOMAIN free = 1..Len(free) /\ DistinctTaps(q) /\ Distinct(free) /\ One(s)
  BY LiveFacts DEF SubnetAt
<1>2. /\ ~InWorker(s) => W = {}
      /\ InWorker(s) => \E p : W = {p}
  <2>1. \A c, d \in Workers : worker[c].tap.s = s /\ worker[d].tap.s = s => c = d
    BY NoTapFacts DEF NInv, WorkerAt
  <2>2. ASSUME InWorker(s) PROVE \E p : W = {p}
    <3>1. PICK c \in Workers : worker[c].tap.s = s
      BY <2>2 DEF InWorker
    <3>2. W = {<<"worker", c>>}
      BY <2>1, <3>1
    <3>. QED BY <3>2
  <2>. QED BY <2>2 DEF InWorker
<1>3. /\ ~InQueue(s) => Q = {}
      /\ InQueue(s) => \E p : Q = {p}
  <2>2. ASSUME InQueue(s) PROVE \E p : Q = {p}
    <3>1. PICK i \in 1..Len(q) : q[i].m = "Deallocate" /\ q[i].tap.s = s
      BY <2>2 DEF InQueue
    <3>2. Q = {<<"q", i>>}
      BY <1>1, <3>1 DEF DistinctTaps
    <3>. QED BY <3>2
  <2>. QED BY <1>1, <2>2 DEF InQueue
<1>4. /\ ~InList(s) => F = {}
      /\ InList(s) => \E p : F = {p}
  <2>2. ASSUME InList(s) PROVE \E p : F = {p}
    <3>1. PICK i \in 1..Len(free) : free[i] = s
      BY <2>2 DEF InList
    <3>2. F = {<<"free", i>>}
      BY <1>1, <3>1 DEF Distinct
    <3>. QED BY <3>2
  <2>. QED BY <1>1, <2>2 DEF InList
<1>5. /\ ~InPool(s) => P = {}
      /\ InPool(s) => \E p : P = {p}
  <2>1. \A m \in free_set : m \in Nets /\ m < 0 /\ m \in Range(free_q)
    BY DEF NInv, TypeOK, PoolAt
  <2>2. \A m \in free_set : NetOf(m) = s => m = Host(s)
    BY <2>1, Numbers
  <2>3. Host(s) \in free_set => NetOf(Host(s)) = s
    BY <2>1, Numbers
  <2>4. InPool(s) => P = {<<"free_set", Host(s)>>}
    BY <2>1, <2>2, <2>3 DEF InPool
  <2>. QED BY <2>2, <2>4 DEF InPool
<1>6. s \in Pool!Untaken <=> InIter(s)
  <2>1. next \in 0 .. N
    BY DEF NInv, TypeOK
  <2>. QED BY <2>1, Numbers DEF Pool!Untaken, InIter, Subnet
<1>7. /\ ~(s \in snaps \/ job.s = s \/ InIter(s) \/ s \in lost) => R = {}
      /\ s \in snaps \/ job.s = s \/ InIter(s) \/ s \in lost => \E p : R = {p}
  <2>1. ~(s \in snaps \/ job.s = s \/ InIter(s) \/ s \in lost) => R = {}
    BY <1>6
  <2>2. CASE s \in snaps
    <3>1. job.s # s /\ ~InIter(s) /\ s \notin lost
      BY <1>1, <2>2 DEF One
    <3>2. R = {<<"snaps", 0>>}
      BY <1>6, <2>2, <3>1
    <3>. QED BY <2>2, <3>2
  <2>3. CASE job.s = s
    <3>1. s \notin snaps /\ ~InIter(s) /\ s \notin lost
      BY <1>1, <2>3 DEF One
    <3>2. R = {<<"job", 0>>}
      BY <1>6, <2>3, <3>1
    <3>. QED BY <2>3, <3>2
  <2>4. CASE InIter(s)
    <3>1. s \notin snaps /\ job.s # s /\ s \notin lost
      BY <1>1, <2>4 DEF One
    <3>2. R = {<<"iter", 0>>}
      BY <1>6, <2>4, <3>1
    <3>. QED BY <2>4, <3>2
  <2>5. CASE s \in lost
    <3>1. s \notin snaps /\ job.s # s /\ ~InIter(s)
      BY <1>1, <2>5 DEF One
    <3>2. R = {<<"lost", 0>>}
      BY <1>6, <2>5, <3>1
    <3>. QED BY <2>5, <3>2
  <2>. HIDE DEF R
  <2>. QED BY <2>1, <2>2, <2>3, <2>4, <2>5
<1>. HIDE DEF W, Q, F, P, R
<1>. QED BY <1>0, <1>1, <1>2, <1>3, <1>4, <1>5, <1>7 DEF One

\* Every subnet is in exactly one place while a process serves: with a Worker or a snapshot, in the
\* manager's hands or its channel, ready in the list of PoolTapDevices, free in the pool, ahead of
\* its iterator, or lost to a failure of rtnetlink.  So neither provider hands a subnet out
\* twice, and none disappears, whatever the interleaving of Workers, manager, restarts and crashes.
THEOREM NoSubnetTwice == Spec => []InOnePlace
<1>1. NInv => InOnePlace
  <2>. SUFFICES ASSUME NInv, man \in {"run", "build", "undo", "quit"}, NEW s \in Subnet
                PROVE  Cardinality(Places(s)) = 1
    BY DEF InOnePlace, Serving
  <2>1. PICK p : Places(s) = {p}
    BY Served, PlacesOf
  <2>. QED BY <2>1, FS_Singleton
<1>. QED BY <1>1, NetworkInvariance, PTL

\* A running sandbox, and a snapshot that can be loaded, has a device that exists and is not one
\* this process has only half made; with PlainTapDevices only a reinstated snapshot uses what an
\* earlier process left.  (What build_or_adopt finds of an earlier process is taken as it is, so
\* with PoolTapDevices, and for a reinstated snapshot, the device may be one left half made.)  It
\* holds through a failure at every step of new_tap and a crash at any point.
THEOREM SandboxDevices == Spec => []DeviceIsRight
<1>1. NInv => DeviceIsRight
  <2>. SUFFICES ASSUME NInv PROVE DeviceIsRight
    OBVIOUS
  <2>1. ASSUME NEW c \in Workers, worker[c].pc = "up" PROVE worker[c].tap.s \in Subnet /\ Runs(worker[c].tap.s)
    BY <2>1, WorkerFacts DEF Runs
  <2>2. DeviceComplete
    <3>. SUFFICES ASSUME NEW s \in snaps \cup {worker[c].tap.s : c \in {d \in Workers : worker[d].pc = "up"}}
                  PROVE  link[s] \notin {"absent", "partial"}
      BY DEF DeviceComplete
    <3>1. s \in Subnet /\ (s \in snaps \/ Runs(s))
      BY <2>1 DEF NInv, TypeOK
    <3>2. man \notin {"down", "boot"}
      BY <3>1, Quiet
    <3>. QED BY <3>1, <3>2, Served, LiveFacts DEF SubnetAt
  <2>3. FreshIsFresh
    BY <2>1 DEF FreshIsFresh, NInv, FreshAt
  <2>. QED BY <2>2, <2>3 DEF DeviceIsRight
<1>. QED BY <1>1, NetworkInvariance, PTL
=============================================================================
