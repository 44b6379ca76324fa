-------------------------- MODULE SandboxPoolProofs --------------------------
(***************************************************************************)
(* Proofs about the SandboxPool and its Workers, for any number of         *)
(* Functions, Workers and calls and any caps and thresholds.               *)
(*                                                                         *)
(* The books (BInv: the messages under way, the memory and the owners of   *)
(* the Sandboxes) are right whatever the order of events.  That an Idle    *)
(* Worker is ready, that a cpuset comes back and that nobody waits in vain *)
(* (RInv) is so for every Worker whose invocation no snapshotting has      *)
(* overtaken.                                                              *)
(***************************************************************************)
EXTENDS SandboxPool, FiniteSetTheorems, TLAPS

(***************************************************************************)
(* Queues: m is in q; a message y follows a message x in q.                *)
(***************************************************************************)

Has(q, m) == \E i \in DOMAIN q : q[i] = m
Follows(q, x, y) == \E i, j \in DOMAIN q : i < j /\ q[i] = x /\ q[j] = y

(***************************************************************************)
(* The inductive invariant, in named parts.                                *)
(***************************************************************************)

\* What the Pool's books on a Worker (state st, pending operation o) say of its place a and
\* of the messages c to it and q from it.  An order to end is the last one a Worker gets and
\* makes it Dying; a preparation or a snapshotting is under way at most once, and only while
\* it is pending; the SandboxId is the first message of a Worker and ReapMe is its last.
Fit(st, a, o, c, q) ==
    /\ st = "None" <=> a \in {"unborn", "reaped"}
    /\ st = "None" => o = None
    /\ a \in {"unborn", "finished", "reaped"} => c = <<>>
    /\ a = "unborn" => q = <<>>
    /\ Has(c, "ShutDown") \/ Has(c, "DestroySandbox") => st = "Dying"
    /\ \A m \in ControlMessage : ~Follows(c, "ShutDown", m) /\ ~Follows(c, "DestroySandbox", m)
    /\ ~Follows(c, "PrepareSandbox", "PrepareSandbox") /\ ~Follows(c, "CreateSnapshot", "CreateSnapshot")
    /\ Has(c, "PrepareSandbox") \/ a = "preparing" \/ Has(q, "Prepared") \/ Has(q, "PrepFailed") =>
          o = "PrepareSandbox"
    /\ a = "preparing" => ~Has(c, "PrepareSandbox")
    /\ Has(q, "Prepared") \/ Has(q, "PrepFailed") => a # "preparing" /\ ~Has(c, "PrepareSandbox")
    /\ Has(c, "CreateSnapshot") \/ Has(q, "Snapshotted") => o = "Snapshot"
    /\ Has(q, "Snapshotted") => ~Has(c, "CreateSnapshot")
    /\ \A m \in OutboundMessage : ~Follows(q, "ReapMe", m) /\ ~Follows(q, m, "SandboxId")
    /\ \A x, y \in {"Prepared", "PrepFailed"} : ~Follows(q, x, y)
    /\ ~Follows(q, "Snapshotted", "Snapshotted")
    /\ Has(q, "ReapMe") => a \in {"finished", "reaped"}
    /\ Has(q, "PrepFailed") => a = "finished"
    /\ a = "reaped" => \A m \in OutboundMessage \ {"ReapMe"} : ~Has(q, m)

FitAt == \A w \in Workers : Fit(state[w], at[w], op[w], ctrl[w], out[w])

\* The Sandbox b that w owns, the SandboxId i that the Pool knows, and how w ended.
Owning(w, i, b, a, e, c, q) ==
    /\ a = "unborn" => i = None /\ b = None
    /\ i # None => b = i /\ ~Has(q, "SandboxId")
    /\ Has(q, "SandboxId") => b = w
    /\ b # None /\ a # "reaped" => i = b \/ Has(q, "SandboxId")
    /\ b = None /\ a \in {"starting", "loop", "busy", "preparing"} => q = <<>>
    /\ e \in {"Reusable", "Trashed"} => b # None
    /\ Has(c, "CreateSnapshot") => i # None
    /\ Has(q, "Snapshotted") => b # None

OwningAt == \A w \in Workers : Owning(w, sandbox_id[w], box[w], at[w], exit[w], ctrl[w], out[w])

\* A Sandbox is made by the Worker it is named after, has one owner, and the Pool finds
\* the Worker that it knows to own it.
Live(w, s) == box[w] = s /\ at[w] # "reaped"

SharedAt ==
    \A s \in Workers :
        /\ s \in snapshots \cup trashed => box[s] = s /\ \A w \in Workers : ~Live(w, s)
        /\ s \notin snapshots \cap trashed
        /\ \A w \in Workers : box[w] = s => box[s] = s
        /\ \A v, w \in Workers : Live(v, s) /\ Live(w, s) => v = w

IndexAt ==
    \A s, w \in Workers : worker_by_sandbox[s] = w <=> sandbox_id[w] = s /\ state[w] # "None"

\* Idle Workers, and no others, have a timer and a deadline.
TimersAt == timers = Idle /\ deadlines = Idle

\* A behaviour spawns finitely many Workers; memory is leaked by reaped ones only.
Born == {w \in Workers : at[w] # "unborn"}

ChargedAt ==
    /\ IsFiniteSet(Born)
    /\ \A w \in leaked : at[w] = "reaped"
    /\ MemoryExact

BInv == TypeOK /\ FitAt /\ OwningAt /\ SharedAt /\ IndexAt /\ TimersAt /\ ChargedAt

\* x says that an invocation for the Worker is with admission, y that it is
\* in the Worker's queue, k that the Worker holds a cpuset.

\* Where the one invocation of a Worker is.
Serves(x, y, a, q) == x \/ y \/ a = "busy" \/ Has(q, "NeedWork")

OneInvocation(x, y, st, a, o, q) ==
    /\ x => ~y /\ a \notin {"unborn", "busy"} /\ ~Has(q, "NeedWork")
    /\ y => a \in {"starting", "loop"} /\ ~Has(q, "NeedWork")
    /\ a = "busy" => ~Has(q, "NeedWork")
    /\ ~Follows(q, "NeedWork", "NeedWork")
    /\ Serves(x, y, a, q) => st # "Idle" /\ o # "PrepareSandbox"
    /\ Has(q, "Snapshotted") => ~x /\ ~y /\ a # "busy" /\ ~Follows(q, "Snapshotted", "NeedWork")

\* A Worker that has answered is back in its loop, or was told to end; one that ended said so.
Answers(st, a, c, q) ==
    /\ Has(q, "NeedWork") \/ Has(q, "Prepared") \/ Has(q, "Snapshotted") =>
          a = "loop" \/ (a = "finished" /\ st = "Dying")
    /\ a = "finished" => Has(q, "ReapMe")
    /\ st = "Dying" => Has(q, "ReapMe") \/ Has(c, "ShutDown") \/ Has(c, "DestroySandbox")

\* An Idle Worker has nothing to do and nothing to say.
Ready(m, k, st, a, o, c, q) ==
    st = "Idle" =>
        /\ ~k /\ o = None /\ c = <<>>
        /\ \A x \in OutboundMessage \ {"ReapMe"} : ~Has(q, x)
        /\ m \in {"running", "aborted"} => a = "loop"
        /\ m = "stopping" => a \in {"starting", "loop", "finished"}
        /\ m \notin {"draining", "exited"}

\* Whoever holds a cpuset will tell the Pool.
Returns(m, k, x, y, st, a, c, q) ==
    m = "running" /\ k =>
        /\ st \in {"Active", "Dying"}
        /\ Serves(x, y, a, q) \/ a = "preparing" \/ Has(c, "PrepareSandbox") \/ Has(q, "Prepared")
           \/ Has(q, "PrepFailed") \/ Has(q, "ReapMe")

\* A pending operation is under way.
UnderWay(a, o, c, q) ==
    /\ o = "PrepareSandbox" => a = "preparing" \/ Has(c, "PrepareSandbox") \/ Has(q, "Prepared")
                               \/ Has(q, "PrepFailed") \/ Has(q, "ReapMe")
    /\ o = "DestroySandbox" => Has(c, "ShutDown") \/ Has(c, "DestroySandbox") \/ Has(q, "ReapMe")
    /\ o = "Snapshot" => Has(c, "CreateSnapshot") \/ Has(q, "Snapshotted") \/ Has(q, "ReapMe")

Serving(m, x, y, k, st, a, o, c, q) ==
    /\ OneInvocation(x, y, st, a, o, q)
    /\ Answers(st, a, c, q)
    /\ Ready(m, k, st, a, o, c, q)
    /\ Returns(m, k, x, y, st, a, c, q)
    /\ UnderWay(a, o, c, q)

Attended(w) ==
    w \notin overtaken =>
    Serving(mode, inflight = w, w \in invoked, w \in cpu, state[w], at[w], op[w], ctrl[w], out[w])

ServingAt == \A w \in Workers : Attended(w)

\* The Worker in whose context the call c waits has the operation pending.
Awaits(c) ==
    /\ call[c].op \in {"PrepareSandbox", "DestroySandbox"} => op[call[c].on] = call[c].op
    /\ call[c].op = "Snapshot" =>
          worker_by_sandbox[call[c].on] # None /\ op[worker_by_sandbox[call[c].on]] = "Snapshot"

WaitingAt == mode # "exited" => \A c \in Calls : Awaits(c)

\* Only a Worker that has run can be overtaken, and only then does the assertion fail.
OvertakenAt ==
    /\ \A w \in overtaken : at[w] # "unborn"
    /\ mode = "aborted" => overtaken # {}

RInv == BInv /\ ServingAt /\ WaitingAt /\ OvertakenAt

\* Who was overtaken once stays so.
Grows == overtaken \subseteq overtaken'

-----------------------------------------------------------------------------
(***************************************************************************)
(* Queues.                                                                 *)
(***************************************************************************)

LEMMA HasNothing ==
    /\ \A m : ~Has(<<>>, m)
    /\ \A x, y : ~Follows(<<>>, x, y)
  BY DEF Has, Follows

LEMMA HasOne ==
    ASSUME NEW m
    PROVE  /\ \A n : Has(<<m>>, n) <=> n = m
           /\ \A x, y : ~Follows(<<m>>, x, y)
  BY DEF Has, Follows

LEMMA FollowsHas ==
    ASSUME NEW q, NEW x, NEW y, Follows(q, x, y)
    PROVE  Has(q, x) /\ Has(q, y)
  BY DEF Has, Follows

LEMMA NothingLeft ==
    ASSUME NEW S, NEW q \in Seq(S), \A m \in S : ~Has(q, m)
    PROVE  q = <<>>
<1>. SUFFICES ASSUME q # <<>> PROVE FALSE
  OBVIOUS
<1>1. 1 \in DOMAIN q /\ q[1] \in S
  OBVIOUS
<1>. QED BY <1>1 DEF Has

LEMMA HasAppend ==
    ASSUME NEW S, NEW q \in Seq(S), NEW m \in S
    PROVE  /\ Append(q, m) \in Seq(S) /\ Append(q, m) # <<>>
           /\ \A n : Has(Append(q, m), n) <=> Has(q, n) \/ n = m
           /\ \A x, y : Follows(Append(q, m), x, y) <=> Follows(q, x, y) \/ (Has(q, x) /\ y = m)
<1>. DEFINE p == Append(q, m)
<1>1. /\ p \in Seq(S) /\ Len(p) = Len(q) + 1 /\ Len(q) \in Nat
      /\ p[Len(q) + 1] = m /\ \A i \in 1..Len(q) : p[i] = q[i]
      /\ DOMAIN p = 1..(Len(q) + 1) /\ DOMAIN q = 1..Len(q)
  OBVIOUS
<1>2. p # <<>>
  BY <1>1
<1>. HIDE DEF p
<1>3. ASSUME NEW n PROVE Has(p, n) <=> Has(q, n) \/ n = m
  BY <1>1 DEF Has
<1>4. ASSUME NEW x, NEW y PROVE Follows(p, x, y) <=> Follows(q, x, y) \/ (Has(q, x) /\ y = m)
  <2>1. Follows(q, x, y) => Follows(p, x, y)
    BY <1>1 DEF Follows
  <2>2. Has(q, x) /\ y = m => Follows(p, x, y)
    BY <1>1 DEF Follows, Has
  <2>3. Follows(p, x, y) => Follows(q, x, y) \/ (Has(q, x) /\ y = m)
    BY <1>1 DEF Follows, Has
  <2>. QED BY <2>1, <2>2, <2>3
<1>. QED BY <1>1, <1>2, <1>3, <1>4 DEF p

LEMMA HasTail ==
    ASSUME NEW S, NEW q \in Seq(S), q # <<>>
    PROVE  /\ Tail(q) \in Seq(S) /\ Head(q) \in S
           /\ \A n : Has(q, n) <=> Has(Tail(q), n) \/ n = Head(q)
           /\ \A x, y : Follows(q, x, y) <=> Follows(Tail(q), x, y) \/ (Head(q) = x /\ Has(Tail(q), y))
<1>. DEFINE p == Tail(q)
<1>1. /\ p \in Seq(S) /\ Len(q) = Len(p) + 1 /\ Len(p) \in Nat
      /\ q[1] = Head(q) /\ Head(q) \in S /\ \A i \in 1..Len(p) : p[i] = q[i + 1]
      /\ DOMAIN p = 1..Len(p) /\ DOMAIN q = 1..(Len(p) + 1)
  OBVIOUS
<1>2. \A i \in 1..(Len(p) + 1) : i = 1 \/ (i - 1 \in 1..Len(p) /\ q[i] = p[i - 1])
  BY <1>1
<1>3. \A i \in 1..Len(p) : i + 1 \in 1..(Len(p) + 1) /\ q[i + 1] = p[i]
  BY <1>1
<1>. HIDE DEF p
<1>4. ASSUME NEW n PROVE Has(q, n) <=> Has(p, n) \/ n = Head(q)
  <2>1. Has(p, n) \/ n = Head(q) => Has(q, n)
    <3>1. CASE Has(p, n)
      BY <1>1, <1>3, <3>1 DEF Has
    <3>2. CASE n = Head(q)
      <4>1. 1 \in DOMAIN q /\ q[1] = n
        BY <1>1, <3>2
      <4>. QED BY <4>1 DEF Has
    <3>. QED BY <3>1, <3>2
  <2>2. ASSUME NEW i \in 1..(Len(p) + 1), q[i] = n PROVE Has(p, n) \/ n = Head(q)
    <3>1. CASE i = 1
      BY <1>1, <2>2, <3>1
    <3>2. CASE i # 1
      <4>1. i - 1 \in DOMAIN p /\ p[i - 1] = n
        BY <1>1, <1>2, <2>2, <3>2
      <4>. QED BY <4>1 DEF Has
    <3>. QED BY <3>1, <3>2
  <2>. QED BY <1>1, <2>1, <2>2 DEF Has
<1>5. ASSUME NEW x, NEW y PROVE Follows(q, x, y) <=> Follows(p, x, y) \/ (Head(q) = x /\ Has(p, y))
  <2>1. Follows(p, x, y) => Follows(q, x, y)
    BY <1>1, <1>3 DEF Follows
  <2>2. Head(q) = x /\ Has(p, y) => Follows(q, x, y)
    BY <1>1, <1>3 DEF Follows, Has
  <2>3. ASSUME NEW i \in 1..(Len(p) + 1), NEW j \in 1..(Len(p) + 1), i < j, q[i] = x, q[j] = y
        PROVE  Follows(p, x, y) \/ (Head(q) = x /\ Has(p, y))
    <3>1. j - 1 \in 1..Len(p) /\ p[j - 1] = y
      BY <1>1, <1>2, <2>3
    <3>2. CASE i = 1
      BY <1>1, <2>3, <3>1, <3>2 DEF Has
    <3>3. CASE i # 1
      <4>1. i - 1 \in 1..Len(p) /\ p[i - 1] = x /\ i - 1 < j - 1
        BY <1>1, <1>2, <2>3, <3>3
      <4>. QED BY <1>1, <3>1, <4>1 DEF Follows
    <3>. QED BY <3>2, <3>3
  <2>4. Follows(q, x, y) => Follows(p, x, y) \/ (Head(q) = x /\ Has(p, y))
    BY <1>1, <2>3 DEF Follows
  <2>. QED BY <2>1, <2>2, <2>4
<1>. QED BY <1>1, <1>4, <1>5 DEF p

\* At most one order to begin something and one to end.
LEMMA ShortQueue ==
    ASSUME NEW c \in Seq(ControlMessage), NEW st, NEW a, NEW o, NEW q, Fit(st, a, o, c, q)
    PROVE  Len(c) <= 2
<1>. SUFFICES ASSUME Len(c) > 2 PROVE FALSE
  OBVIOUS
<1>1. {1, 2, 3} \subseteq DOMAIN c /\ {c[1], c[2], c[3]} \subseteq ControlMessage
  OBVIOUS
<1>2. Follows(c, c[1], c[2]) /\ Follows(c, c[2], c[3])
  BY <1>1 DEF Follows
<1>3. {c[1], c[2]} \subseteq {"PrepareSandbox", "CreateSnapshot"}
  BY <1>1, <1>2 DEF Fit, ControlMessage
<1>4. c[1] = c[2]
  BY <1>2, <1>3, FollowsHas DEF Fit
<1>. QED BY <1>2, <1>3, <1>4 DEF Fit

-----------------------------------------------------------------------------
(***************************************************************************)
(* What each kind of step does to the messages of one Worker.              *)
(***************************************************************************)

\* The Worker is told to end, unless it has ended already.
LEMMA FitDies ==
    ASSUME NEW st, NEW a, NEW o, NEW c \in Seq(ControlMessage), NEW q, Fit(st, a, o, c, q),
           st \in {"Idle", "Active"}, NEW m \in {"ShutDown", "DestroySandbox"},
           NEW d, d = IF a # "finished" THEN Append(c, m) ELSE c
    PROVE  Fit("Dying", a, o, d, q)
<1>1. CASE a = "finished"
  BY <1>1 DEF Fit
<1>2. CASE a # "finished"
  <2>1. /\ \A n : Has(d, n) <=> Has(c, n) \/ n = m
        /\ \A x, y : Follows(d, x, y) <=> Follows(c, x, y) \/ (Has(c, x) /\ y = m)
    BY <1>2, HasAppend DEF ControlMessage
  <2>. QED BY <1>2, <2>1 DEF Fit
<1>. QED BY <1>1, <1>2

\* Idle and Active make no difference to what is under way.
LEMMA FitWakes ==
    ASSUME NEW st, NEW a, NEW o, NEW c, NEW q, Fit(st, a, o, c, q),
           st \in {"Idle", "Active"}, NEW st2 \in {"Idle", "Active"}
    PROVE  Fit(st2, a, o, c, q)
  BY DEF Fit

\* A message that ends no operation is received.
LEMMA FitHears ==
    ASSUME NEW st, NEW a, NEW o, NEW c, NEW q \in Seq(OutboundMessage), q # <<>>, Fit(st, a, o, c, q)
    PROVE  Fit(st, a, o, c, Tail(q))
<1>1. /\ \A n : Has(Tail(q), n) => Has(q, n)
      /\ \A x, y : Follows(Tail(q), x, y) => Follows(q, x, y)
  BY HasTail
<1>2. a # "unborn"
  BY DEF Fit
<1>. QED BY <1>1, <1>2 DEF Fit

\* The answer to a pending operation is received.
LEMMA FitEnds ==
    ASSUME NEW st, NEW a, NEW o, NEW c, NEW q \in Seq(OutboundMessage), q # <<>>, Fit(st, a, o, c, q),
           Head(q) \in {"Prepared", "PrepFailed", "Snapshotted"}
    PROVE  Fit(st, a, None, c, Tail(q))
<1>1. /\ \A n : Has(q, n) <=> Has(Tail(q), n) \/ n = Head(q)
      /\ \A x, y : Follows(q, x, y) <=> Follows(Tail(q), x, y) \/ (Head(q) = x /\ Has(Tail(q), y))
  BY HasTail
<1>2. CASE Head(q) \in {"Prepared", "PrepFailed"}
  BY <1>1, <1>2 DEF Fit
<1>3. CASE Head(q) = "Snapshotted"
  BY <1>1, <1>3 DEF Fit
<1>. QED BY <1>2, <1>3

LEMMA FitReaped ==
    ASSUME NEW st, NEW a, NEW o, NEW c, NEW q \in Seq(OutboundMessage), q # <<>>, Fit(st, a, o, c, q),
           Head(q) = "ReapMe", st # "None"
    PROVE  a = "finished" /\ Tail(q) = <<>> /\ Fit("None", "reaped", None, c, Tail(q))
<1>1. /\ Has(q, "ReapMe") /\ \A m \in OutboundMessage : ~Has(Tail(q), m)
  BY HasTail DEF Fit
<1>2. Tail(q) = <<>>
  BY <1>1, HasTail, NothingLeft
<1>. QED BY <1>1, <1>2, HasNothing DEF Fit

\* A Worker is asked to be destroyed, or to take a snapshot.
LEMMA FitDestroys ==
    ASSUME NEW st, NEW a, NEW c, NEW q, Fit(st, a, None, c, q), st # "None"
    PROVE  Fit(st, a, "DestroySandbox", c, q)
  BY PoolAssumption DEF Fit, PendingControlOp

LEMMA FitSnaps ==
    ASSUME NEW st, NEW a, NEW c \in Seq(ControlMessage), NEW q, Fit(st, a, None, c, q),
           st \in {"Idle", "Active"}, NEW d, d = IF a # "finished" THEN Append(c, "CreateSnapshot") ELSE c
    PROVE  Fit("Active", a, "Snapshot", d, q)
<1>1. /\ ~Has(c, "CreateSnapshot") /\ ~Has(c, "PrepareSandbox") /\ a # "preparing"
      /\ ~Has(q, "Prepared") /\ ~Has(q, "PrepFailed") /\ ~Has(q, "Snapshotted")
      /\ ~Has(c, "ShutDown") /\ ~Has(c, "DestroySandbox")
  BY PoolAssumption DEF Fit, PendingControlOp
<1>2. CASE a = "finished"
  BY <1>1, <1>2 DEF Fit
<1>3. CASE a # "finished"
  <2>1. /\ \A n : Has(d, n) <=> Has(c, n) \/ n = "CreateSnapshot"
        /\ \A x, y : Follows(d, x, y) <=> Follows(c, x, y) \/ (Has(c, x) /\ y = "CreateSnapshot")
    BY <1>3, HasAppend DEF ControlMessage
  <2>. QED BY <1>1, <1>3, <2>1 DEF Fit
<1>. QED BY <1>2, <1>3

\* The Worker goes from one place to another inside its loop.
LEMMA FitMoves ==
    ASSUME NEW st, NEW a, NEW o, NEW c, NEW q, Fit(st, a, o, c, q),
           a \in {"starting", "loop"}, NEW a2 \in {"loop", "busy"}
    PROVE  Fit(st, a2, o, c, q)
  BY DEF Fit

\* The Worker says something: it created its Sandbox, ended a request or a preparation.
LEMMA FitCreates ==
    ASSUME NEW st, NEW a, NEW o, NEW c, NEW q, q = <<>>, Fit(st, a, o, c, q),
           a \in {"busy", "preparing"}
    PROVE  Fit(st, a, o, c, Append(q, "SandboxId"))
<1>1. Append(q, "SandboxId") = <<"SandboxId">>
  OBVIOUS
<1>2. /\ \A n : Has(<<"SandboxId">>, n) <=> n = "SandboxId"
      /\ \A x, y : ~Follows(<<"SandboxId">>, x, y)
  BY HasOne
<1>. QED BY <1>1, <1>2 DEF Fit

LEMMA FitAnswers ==
    ASSUME NEW st, NEW a \in {"busy", "preparing"}, NEW o, NEW c, NEW q \in Seq(OutboundMessage),
           Fit(st, a, o, c, q), NEW m, m = IF a = "busy" THEN "NeedWork" ELSE "Prepared"
    PROVE  Fit(st, "loop", o, c, Append(q, m))
<1>1. /\ \A n : Has(Append(q, m), n) <=> Has(q, n) \/ n = m
      /\ \A x, y : Follows(Append(q, m), x, y) <=> Follows(q, x, y) \/ (Has(q, x) /\ y = m)
  BY HasAppend DEF OutboundMessage
<1>. QED BY <1>1 DEF Fit

LEMMA FitFinishes ==
    ASSUME NEW st, NEW a, NEW o, NEW c, NEW q \in Seq(OutboundMessage), Fit(st, a, o, c, q),
           a \in {"starting", "loop", "busy", "preparing"}
    PROVE  /\ Fit(st, "finished", o, <<>>, Append(q, "ReapMe"))
           /\ a = "preparing" =>
                 Fit(st, "finished", o, <<>>, Append(Append(q, "PrepFailed"), "ReapMe"))
<1>1. /\ \A n : Has(Append(q, "ReapMe"), n) <=> Has(q, n) \/ n = "ReapMe"
      /\ \A x, y : Follows(Append(q, "ReapMe"), x, y) <=> Follows(q, x, y) \/ (Has(q, x) /\ y = "ReapMe")
  BY HasAppend DEF OutboundMessage
<1>2. Fit(st, "finished", o, <<>>, Append(q, "ReapMe"))
  BY <1>1, HasNothing DEF Fit
<1>3. CASE a = "preparing"
  <2>. DEFINE p == Append(q, "PrepFailed")
  <2>1. /\ p \in Seq(OutboundMessage)
        /\ \A n : Has(p, n) <=> Has(q, n) \/ n = "PrepFailed"
        /\ \A x, y : Follows(p, x, y) <=> Follows(q, x, y) \/ (Has(q, x) /\ y = "PrepFailed")
    BY HasAppend DEF OutboundMessage
  <2>. HIDE DEF p
  <2>2. /\ \A n : Has(Append(p, "ReapMe"), n) <=> Has(p, n) \/ n = "ReapMe"
        /\ \A x, y : Follows(Append(p, "ReapMe"), x, y) <=> Follows(p, x, y) \/ (Has(p, x) /\ y = "ReapMe")
    BY <2>1, HasAppend DEF OutboundMessage
  <2>3. Fit(st, "finished", o, <<>>, Append(p, "ReapMe"))
    BY <1>3, <2>1, <2>2, HasNothing DEF Fit
  <2>. QED BY <1>2, <2>3 DEF p
<1>. QED BY <1>2, <1>3

\* The Worker takes an order to prepare a Sandbox, or to take a snapshot.
LEMMA FitPrepares ==
    ASSUME NEW st, NEW a, NEW o, NEW c \in Seq(ControlMessage), NEW q, Fit(st, a, o, c, q),
           a = "loop", c # <<>>, Head(c) = "PrepareSandbox"
    PROVE  Fit(st, "preparing", o, Tail(c), q)
<1>1. /\ \A n : Has(c, n) <=> Has(Tail(c), n) \/ n = Head(c)
      /\ \A x, y : Follows(c, x, y) <=> Follows(Tail(c), x, y) \/ (Head(c) = x /\ Has(Tail(c), y))
  BY HasTail
<1>. QED BY <1>1 DEF Fit

LEMMA FitSnapped ==
    ASSUME NEW st, NEW a, NEW o, NEW c \in Seq(ControlMessage), NEW q \in Seq(OutboundMessage),
           Fit(st, a, o, c, q), a = "loop", c # <<>>, Head(c) = "CreateSnapshot"
    PROVE  Fit(st, a, o, Tail(c), Append(q, "Snapshotted"))
<1>1. /\ \A n : Has(c, n) <=> Has(Tail(c), n) \/ n = Head(c)
      /\ \A x, y : Follows(c, x, y) <=> Follows(Tail(c), x, y) \/ (Head(c) = x /\ Has(Tail(c), y))
  BY HasTail
<1>2. /\ \A n : Has(Append(q, "Snapshotted"), n) <=> Has(q, n) \/ n = "Snapshotted"
      /\ \A x, y : Follows(Append(q, "Snapshotted"), x, y) <=>
                   Follows(q, x, y) \/ (Has(q, x) /\ y = "Snapshotted")
  BY HasAppend DEF OutboundMessage
<1>. QED BY <1>1, <1>2 DEF Fit

\* A Worker is spawned: for a dispatch, for a preparation or for the destruction of an orphan;
\* it may have ended by the time it is asked.
LEMMA FitSpawned ==
    /\ \A st \in {"Active", "Idle"} : Fit(st, "starting", None, <<>>, <<>>)
    /\ Fit("Active", "starting", "PrepareSandbox", <<"PrepareSandbox">>, <<>>)
    /\ Fit("Active", "finished", "PrepareSandbox", <<>>, <<"ReapMe">>)
    /\ Fit("None", "reaped", None, <<>>, <<"ReapMe">>)
    /\ Fit("Dying", "starting", "DestroySandbox", <<"DestroySandbox">>, <<>>)
    /\ Fit("Dying", "finished", None, <<>>, <<"ReapMe">>)
<1>1. /\ \A n : Has(<<"PrepareSandbox">>, n) <=> n = "PrepareSandbox"
      /\ \A x, y : ~Follows(<<"PrepareSandbox">>, x, y)
  BY HasOne
<1>2. /\ \A n : Has(<<"DestroySandbox">>, n) <=> n = "DestroySandbox"
      /\ \A x, y : ~Follows(<<"DestroySandbox">>, x, y)
  BY HasOne
<1>3. /\ \A n : Has(<<"ReapMe">>, n) <=> n = "ReapMe"
      /\ \A x, y : ~Follows(<<"ReapMe">>, x, y)
  BY HasOne
<1>4. \A st \in {"Active", "Idle"} : Fit(st, "starting", None, <<>>, <<>>)
  BY HasNothing DEF Fit
<1>5. Fit("Active", "starting", "PrepareSandbox", <<"PrepareSandbox">>, <<>>)
  BY <1>1, HasNothing DEF Fit
<1>6. /\ Fit("Active", "finished", "PrepareSandbox", <<>>, <<"ReapMe">>)
      /\ Fit("None", "reaped", None, <<>>, <<"ReapMe">>)
      /\ Fit("Dying", "finished", None, <<>>, <<"ReapMe">>)
  BY <1>3, HasNothing DEF Fit
<1>7. Fit("Dying", "starting", "DestroySandbox", <<"DestroySandbox">>, <<>>)
  BY <1>2, HasNothing DEF Fit
<1>. QED BY <1>4, <1>5, <1>6, <1>7

\* The same steps, as far as they concern the Sandbox of the Worker.
LEMMA OwningOrdered ==
    ASSUME NEW w, NEW i, NEW b, NEW a, NEW e, NEW c \in Seq(ControlMessage), NEW q,
           Owning(w, i, b, a, e, c, q), NEW m \in ControlMessage, m = "CreateSnapshot" => i # None,
           NEW d, d = IF a # "finished" THEN Append(c, m) ELSE c
    PROVE  Owning(w, i, b, a, e, d, q)
<1>1. a # "finished" => \A n : Has(d, n) <=> Has(c, n) \/ n = m
  BY HasAppend
<1>. QED BY <1>1 DEF Owning

LEMMA OwningHears ==
    ASSUME NEW w, NEW i, NEW b, NEW a, NEW e, NEW c, NEW q \in Seq(OutboundMessage), q # <<>>,
           Owning(w, i, b, a, e, c, q), NEW st, NEW o, Fit(st, a, o, c, q)
    PROVE  /\ Head(q) # "SandboxId" => Owning(w, i, b, a, e, c, Tail(q))
           /\ Head(q) = "SandboxId" => Owning(w, w, b, a, e, c, Tail(q)) /\ i = None /\ b = w
<1>1. /\ \A n : Has(q, n) <=> Has(Tail(q), n) \/ n = Head(q)
      /\ \A x, y : Follows(q, x, y) <=> Follows(Tail(q), x, y) \/ (Head(q) = x /\ Has(Tail(q), y))
      /\ Head(q) \in OutboundMessage
  BY HasTail
<1>2. CASE Head(q) # "SandboxId"
  BY <1>1, <1>2 DEF Owning
<1>3. CASE Head(q) = "SandboxId"
  <2>1. ~Has(Tail(q), "SandboxId") /\ a # "unborn"
    BY <1>1, <1>3 DEF Fit
  <2>2. i = None /\ b = w
    BY <1>1, <1>3 DEF Owning
  <2>. QED BY <1>1, <1>3, <2>1, <2>2 DEF Owning
<1>. QED BY <1>2, <1>3

LEMMA OwningReaped ==
    ASSUME NEW w, NEW i, NEW b, NEW a, NEW e, NEW c, NEW q, Owning(w, i, b, a, e, c, q), a # "unborn"
    PROVE  Owning(w, i, b, "reaped", e, c, q)
  BY DEF Owning

LEMMA OwningMoves ==
    ASSUME NEW w, NEW i, NEW b, NEW a, NEW e, NEW c, NEW q, Owning(w, i, b, a, e, c, q),
           a \in {"starting", "loop", "busy", "preparing"},
           NEW a2 \in {"starting", "loop", "busy", "preparing"}
    PROVE  Owning(w, i, b, a2, e, c, q)
  BY DEF Owning

LEMMA OwningCreates ==
    ASSUME NEW w \in Workers, NEW i, NEW b, NEW a, NEW e, NEW c, NEW q, Owning(w, i, b, a, e, c, q),
           a \in {"busy", "preparing"}, b = None
    PROVE  q = <<>> /\ Owning(w, i, w, a, e, c, Append(q, "SandboxId"))
<1>1. q = <<>> /\ i = None /\ ~Has(c, "CreateSnapshot")
  BY DEF Owning
<1>2. Append(q, "SandboxId") = <<"SandboxId">>
  BY <1>1
<1>3. \A n : Has(<<"SandboxId">>, n) <=> n = "SandboxId"
  BY HasOne
<1>. QED BY <1>1, <1>2, <1>3, PoolAssumption DEF Owning

LEMMA OwningSays ==
    ASSUME NEW w, NEW i, NEW b, NEW a, NEW e, NEW c, NEW q \in Seq(OutboundMessage),
           Owning(w, i, b, a, e, c, q), b # None, NEW m \in OutboundMessage \ {"SandboxId"}
    PROVE  Owning(w, i, b, a, e, c, Append(q, m))
<1>1. \A n : Has(Append(q, m), n) <=> Has(q, n) \/ n = m
  BY HasAppend
<1>. QED BY <1>1 DEF Owning

LEMMA OwningFinishes ==
    ASSUME NEW w, NEW i, NEW b, NEW a, NEW e, NEW c, NEW q \in Seq(OutboundMessage),
           Owning(w, i, b, a, e, c, q), a \in {"starting", "loop", "busy", "preparing"},
           NEW e2, e2 \in {"Reusable", "Trashed"} => b # None
    PROVE  /\ Owning(w, i, b, "finished", e2, <<>>, Append(q, "ReapMe"))
           /\ Owning(w, i, b, "finished", e2, <<>>, Append(Append(q, "PrepFailed"), "ReapMe"))
<1>1. \A n : Has(Append(q, "ReapMe"), n) <=> Has(q, n) \/ n = "ReapMe"
  BY HasAppend DEF OutboundMessage
<1>. DEFINE p == Append(q, "PrepFailed")
<1>2. p \in Seq(OutboundMessage) /\ \A n : Has(p, n) <=> Has(q, n) \/ n = "PrepFailed"
  BY HasAppend DEF OutboundMessage
<1>. HIDE DEF p
<1>3. \A n : Has(Append(p, "ReapMe"), n) <=> Has(p, n) \/ n = "ReapMe"
  BY <1>2, HasAppend DEF OutboundMessage
<1>4. Owning(w, i, b, "finished", e2, <<>>, Append(q, "ReapMe"))
  BY <1>1, HasNothing DEF Owning
<1>5. Owning(w, i, b, "finished", e2, <<>>, Append(p, "ReapMe"))
  BY <1>2, <1>3, HasNothing DEF Owning
<1>. QED BY <1>4, <1>5 DEF p

LEMMA OwningTakes ==
    ASSUME NEW w, NEW i, NEW b, NEW a, NEW e, NEW c \in Seq(ControlMessage), NEW q,
           Owning(w, i, b, a, e, c, q), c # <<>>
    PROVE  /\ Owning(w, i, b, a, e, Tail(c), q)
           /\ Head(c) = "CreateSnapshot" => i # None /\ b = i
<1>1. \A n : Has(c, n) <=> Has(Tail(c), n) \/ n = Head(c)
  BY HasTail
<1>. QED BY <1>1 DEF Owning

LEMMA OwningSpawned ==
    ASSUME NEW w, NEW s, NEW e, e \in {"Reusable", "Trashed"} => s # None,
           NEW a \in {"starting", "finished", "reaped"}, NEW c \in {<<>>, <<"PrepareSandbox">>, <<"DestroySandbox">>},
           NEW q \in {<<>>, <<"ReapMe">>}, a = "starting" => q = <<>>
    PROVE  Owning(w, s, s, a, e, c, q)
<1>1. \A m \in {"PrepareSandbox", "DestroySandbox"} : ~Has(<<m>>, "CreateSnapshot")
  BY HasOne
<1>2. ~Has(<<"ReapMe">>, "SandboxId") /\ ~Has(<<"ReapMe">>, "Snapshotted")
  BY HasOne
<1>3. ~Has(c, "CreateSnapshot") /\ ~Has(q, "SandboxId") /\ ~Has(q, "Snapshotted")
  BY <1>1, <1>2, HasNothing
<1>. QED BY <1>3 DEF Owning

-----------------------------------------------------------------------------
(***************************************************************************)
(* The same steps: the invocation of a Worker that was not overtaken, its   *)
(* cpuset and the operations that are pending on it.                       *)
(***************************************************************************)

\* Of the messages of a Worker that is told to end only the order is new.
LEMMA ServingDies ==
    ASSUME NEW m, NEW x, NEW y, NEW k, NEW st, NEW a, NEW o, NEW c \in Seq(ControlMessage), NEW q,
           Serving(m, x, y, k, st, a, o, c, q), Fit(st, a, o, c, q), st \in {"Idle", "Active"},
           NEW r \in {"ShutDown", "DestroySandbox"},
           NEW d, a # "finished" => d = Append(c, r), a = "finished" => d = c,
           NEW m2, m2 = "running" => m = "running", NEW o2, o2 = o \/ (o = None /\ o2 = "DestroySandbox")
    PROVE  Serving(m2, x, y, k, "Dying", a, o2, d, q)
<1>1. /\ \A n : Has(c, n) => Has(d, n)
      /\ a # "finished" => Has(d, "ShutDown") \/ Has(d, "DestroySandbox")
  <2>1. CASE a = "finished"
    BY <2>1
  <2>2. CASE a # "finished"
    <3>1. r \in ControlMessage
      BY DEF ControlMessage
    <3>2. \A n : Has(Append(c, r), n) <=> Has(c, n) \/ n = r
      BY <3>1, HasAppend
    <3>3. d = Append(c, r)
      BY <2>2
    <3>4. \A n : Has(d, n) <=> Has(c, n) \/ n = r
      BY <3>2, <3>3, Zenon
    <3>. QED BY <3>4
  <2>. QED BY <2>1, <2>2
<1>2. o2 \in {"PrepareSandbox", "Snapshot"} => o = o2
  BY PoolAssumption DEF PendingControlOp
<1>3. OneInvocation(x, y, "Dying", a, o2, q)
  BY <1>2 DEF Serving, OneInvocation, Serves
<1>4. Answers("Dying", a, d, q)
  BY <1>1 DEF Serving, Answers
<1>5. Ready(m2, k, "Dying", a, o2, d, q)
  BY DEF Ready
<1>6. Returns(m2, k, x, y, "Dying", a, d, q)
  BY <1>1 DEF Serving, Returns
<1>7. UnderWay(a, o2, d, q)
  BY <1>1, <1>2 DEF Serving, UnderWay, Answers
<1>. QED BY <1>3, <1>4, <1>5, <1>6, <1>7 DEF Serving

\* The Pool leaves its loop, perhaps with the admission channel.
LEMMA ServingStops ==
    ASSUME NEW x, NEW y, NEW k, NEW st, NEW a, NEW o, NEW c, NEW q,
           Serving("running", x, y, k, st, a, o, c, q), NEW x2, x2 => x, NEW k2, k2 => k
    PROVE  Serving("stopping", x2, y, k2, st, a, o, c, q)
<1>1. OneInvocation(x2, y, st, a, o, q)
  BY DEF Serving, OneInvocation, Serves
<1>2. Ready("stopping", k2, st, a, o, c, q)
  BY DEF Serving, Ready
<1>3. Returns("stopping", k2, x2, y, st, a, c, q)
  BY DEF Returns
<1>. QED BY <1>1, <1>2, <1>3 DEF Serving

\* The process ends.
LEMMA ServingAborts ==
    ASSUME NEW x, NEW y, NEW k, NEW st, NEW a, NEW o, NEW c, NEW q,
           Serving("running", x, y, k, st, a, o, c, q)
    PROVE  Serving("aborted", x, y, k, st, a, o, c, q)
  BY DEF Serving, Ready, Returns

\* An Idle Worker is dispatched to.
LEMMA ServingDispatched ==
    ASSUME NEW x, NEW y, NEW k, NEW a, NEW o, NEW c, NEW q,
           Serving("running", x, y, k, "Idle", a, o, c, q)
    PROVE  Serving("running", TRUE, y, TRUE, "Active", a, o, c, q)
<1>1. /\ o = None /\ c = <<>> /\ a = "loop" /\ ~y
      /\ \A n \in OutboundMessage \ {"ReapMe"} : ~Has(q, n)
  BY DEF Serving, Ready, OneInvocation, Serves
<1>2. OneInvocation(TRUE, y, "Active", a, o, q)
  BY <1>1, FollowsHas, PoolAssumption DEF OneInvocation, Serves, OutboundMessage, PendingControlOp
<1>3. Answers("Active", a, c, q)
  BY <1>1 DEF Answers, Serving
<1>4. Returns("running", TRUE, TRUE, y, "Active", a, c, q)
  BY DEF Returns, Serves
<1>. QED BY <1>2, <1>3, <1>4 DEF Serving, Ready

\* The invocation reaches the queue of the Worker, if that is still there.
LEMMA ServingForwarded ==
    ASSUME NEW m, NEW y, NEW k, NEW st, NEW a, NEW o, NEW c, NEW q, a \in Place,
           Serving(m, TRUE, y, k, st, a, o, c, q), Fit(st, a, o, c, q), NEW y2,
           a \in {"finished", "reaped"} => (y2 <=> y), a \notin {"finished", "reaped"} => y2
    PROVE  Serving(m, FALSE, y2, k, st, a, o, c, q)
<1>1. ~y /\ a \notin {"unborn", "busy"} /\ ~Has(q, "NeedWork") /\ st # "Idle" /\ o # "PrepareSandbox"
  BY DEF Serving, OneInvocation, Serves
<1>2. a # "preparing" /\ ~Has(q, "Snapshotted")
  BY <1>1 DEF Fit, Serving, OneInvocation
<1>3. a \in {"starting", "loop", "finished", "reaped"}
  BY <1>1, <1>2 DEF Place
<1>4. OneInvocation(FALSE, y2, st, a, o, q)
  BY <1>1, <1>2, <1>3 DEF Serving, OneInvocation, Serves
<1>5. Returns(m, k, FALSE, y2, st, a, c, q)
  BY <1>1, <1>3 DEF Serving, Returns, Serves, Answers, Fit
<1>. QED BY <1>1, <1>4, <1>5 DEF Serving, Ready

\* The Pool receives a message that ends nothing but, perhaps, an invocation.
LEMMA ServingHears ==
    ASSUME NEW m, NEW x, NEW y, NEW k, NEW st, NEW a, NEW o, NEW c, NEW q \in Seq(OutboundMessage), q # <<>>,
           Serving(m, x, y, k, st, a, o, c, q), Head(q) \in {"SandboxId", "NeedWork"},
           NEW m2, m2 = "running" => m = "running", NEW k2, k2 => k /\ Head(q) # "NeedWork"
    PROVE  Serving(m2, x, y, k2, st, a, o, c, Tail(q))
<1>1. /\ \A n : Has(q, n) <=> Has(Tail(q), n) \/ n = Head(q)
      /\ \A u, v : Follows(q, u, v) <=> Follows(Tail(q), u, v) \/ (Head(q) = u /\ Has(Tail(q), v))
      /\ Has(q, Head(q))
  BY HasTail
<1>2. st # "Idle"
  BY <1>1 DEF Serving, Ready, OutboundMessage
<1>3. OneInvocation(x, y, st, a, o, Tail(q))
  BY <1>1 DEF Serving, OneInvocation, Serves
<1>4. Answers(st, a, c, Tail(q))
  BY <1>1 DEF Serving, Answers
<1>5. Returns(m2, k2, x, y, st, a, c, Tail(q))
  BY <1>1 DEF Serving, Returns, Serves
<1>6. UnderWay(a, o, c, Tail(q))
  BY <1>1 DEF Serving, UnderWay
<1>. QED BY <1>2, <1>3, <1>4, <1>5, <1>6 DEF Serving, Ready

\* The Pool receives the answer to a pending operation.
LEMMA ServingEnds ==
    ASSUME NEW m, NEW x, NEW y, NEW k, NEW st, NEW a, NEW o, NEW c, NEW q \in Seq(OutboundMessage), q # <<>>,
           Serving(m, x, y, k, st, a, o, c, q), Head(q) \in {"Prepared", "PrepFailed", "Snapshotted"},
           NEW m2, m2 = "running" => m = "running", NEW k2, k2 => k /\ Head(q) = "Snapshotted"
    PROVE  Serving(m2, x, y, k2, st, a, None, c, Tail(q))
<1>1. /\ \A n : Has(q, n) <=> Has(Tail(q), n) \/ n = Head(q)
      /\ \A u, v : Follows(q, u, v) <=> Follows(Tail(q), u, v) \/ (Head(q) = u /\ Has(Tail(q), v))
      /\ Has(q, Head(q))
  BY HasTail
<1>2. st # "Idle"
  BY <1>1 DEF Serving, Ready, OutboundMessage
<1>3. None \notin {"PrepareSandbox", "DestroySandbox", "Snapshot"}
  BY PoolAssumption DEF PendingControlOp
<1>4. OneInvocation(x, y, st, a, None, Tail(q))
  BY <1>1, <1>2, <1>3 DEF Serving, OneInvocation, Serves
<1>5. Answers(st, a, c, Tail(q))
  BY <1>1 DEF Serving, Answers
<1>6. Returns(m2, k2, x, y, st, a, c, Tail(q))
  BY <1>1 DEF Serving, Returns, Serves
<1>7. UnderWay(a, None, c, Tail(q))
  BY <1>3 DEF UnderWay
<1>. QED BY <1>2, <1>4, <1>5, <1>6, <1>7 DEF Serving, Ready

\* A Worker that has answered, with nothing else to do, becomes Idle: q is what is left of its
\* messages.
LEMMA ServingRests ==
    ASSUME NEW x, NEW y, NEW k, NEW a, NEW o, NEW c \in Seq(ControlMessage), NEW q \in Seq(OutboundMessage),
           q # <<>>, Fit("Active", a, o, c, q), Serving("running", x, y, k, "Active", a, o, c, q),
           Head(q) \in {"NeedWork", "Prepared", "Snapshotted"}, Head(q) = "NeedWork" => o = None,
           NEW k2, k2 => k /\ Head(q) = "Snapshotted", NEW m2, m2 \in {"running", "stopping"}
    PROVE  Serving(m2, x, y, k2, "Idle", a, None, c, Tail(q))
<1>1. /\ \A n : Has(q, n) <=> Has(Tail(q), n) \/ n = Head(q)
      /\ \A u, v : Follows(q, u, v) <=> Follows(Tail(q), u, v) \/ (Head(q) = u /\ Has(Tail(q), v))
      /\ Has(q, Head(q)) /\ Tail(q) \in Seq(OutboundMessage)
  BY HasTail
<1>2. None \notin {"PrepareSandbox", "DestroySandbox", "Snapshot"}
  BY PoolAssumption DEF PendingControlOp
<1>3. a = "loop"
  BY <1>1 DEF Serving, Answers
<1>4. ~Has(q, "ReapMe") /\ ~Has(q, "PrepFailed")
  BY <1>3 DEF Fit
<1>5. ~Has(Tail(q), "SandboxId")
  <2>1. Head(q) \in OutboundMessage
    BY DEF OutboundMessage
  <2>. QED BY <1>1, <2>1 DEF Fit
<1>6. ~x /\ ~y /\ ~Has(Tail(q), "NeedWork")
  <2>1. CASE Head(q) = "NeedWork"
    BY <1>1, <2>1 DEF Serving, OneInvocation
  <2>2. CASE Head(q) = "Prepared"
    BY <1>1, <2>2 DEF Serving, OneInvocation, Serves, Fit
  <2>3. CASE Head(q) = "Snapshotted"
    BY <1>1, <2>3 DEF Serving, OneInvocation, Serves, Fit
  <2>. QED BY <2>1, <2>2, <2>3
<1>7. ~Has(Tail(q), "Prepared") /\ ~Has(Tail(q), "Snapshotted")
  BY <1>1, <1>2 DEF Fit
<1>8. c = <<>>
  <2>1. ~Has(c, "ShutDown") /\ ~Has(c, "DestroySandbox")
    BY DEF Fit
  <2>2. ~Has(c, "PrepareSandbox") /\ ~Has(c, "CreateSnapshot")
    BY <1>1, <1>2 DEF Fit
  <2>. QED BY <2>1, <2>2, NothingLeft DEF ControlMessage
<1>9. ~k2
  <2>1. ASSUME Head(q) = "Snapshotted", k PROVE FALSE
    <3>1. ~Has(q, "NeedWork") /\ ~Has(q, "Prepared")
      BY <1>1, <1>6, <1>7, <2>1
    <3>. QED BY <1>3, <1>4, <1>6, <1>8, <2>1, <3>1, HasNothing DEF Serving, Returns, Serves
  <2>. QED BY <2>1
<1>10. \A n \in OutboundMessage \ {"ReapMe"} : ~Has(Tail(q), n)
  BY <1>1, <1>4, <1>5, <1>6, <1>7 DEF OutboundMessage
<1>11. OneInvocation(x, y, "Idle", a, None, Tail(q))
  BY <1>2, <1>3, <1>6, <1>7, FollowsHas DEF OneInvocation, Serves
<1>12. Answers("Idle", a, c, Tail(q))
  BY <1>3, <1>6, <1>7 DEF Answers
<1>13. Ready(m2, k2, "Idle", a, None, c, Tail(q))
  BY <1>3, <1>8, <1>9, <1>10 DEF Ready
<1>14. Returns(m2, k2, x, y, "Idle", a, c, Tail(q))
  BY <1>9 DEF Returns
<1>15. UnderWay(a, None, c, Tail(q))
  BY <1>2 DEF UnderWay
<1>. QED BY <1>11, <1>12, <1>13, <1>14, <1>15 DEF Serving

LEMMA ServingReaped ==
    ASSUME NEW m, NEW x, NEW y, NEW k, NEW st, NEW o, NEW c, NEW q,
           Serving(m, x, y, k, st, "finished", o, c, q)
    PROVE  Serving(m, x, y, FALSE, "None", "reaped", None, c, <<>>)
<1>1. ~y /\ None \notin {"PrepareSandbox", "DestroySandbox", "Snapshot"}
  BY PoolAssumption DEF Serving, OneInvocation, PendingControlOp
<1>2. OneInvocation(x, y, "None", "reaped", None, <<>>)
  BY <1>1, HasNothing DEF OneInvocation
<1>3. Answers("None", "reaped", c, <<>>)
  BY HasNothing DEF Answers
<1>. QED BY <1>1, <1>2, <1>3 DEF Serving, Ready, Returns, UnderWay

\* A ReapMe is ignored: that of an Idle Worker cannot be seen, while the Pool is up.
LEMMA ServingIgnored ==
    ASSUME NEW m, NEW x, NEW y, NEW k, NEW st \in {"None", "Idle"}, NEW a, NEW o, NEW c,
           NEW q \in Seq(OutboundMessage), q # <<>>, Head(q) = "ReapMe",
           Fit(st, a, o, c, q), Serving(m, x, y, k, st, a, o, c, q), m \in {"running", "draining"}
    PROVE  st = "None" /\ Serving(m, x, y, k, st, a, o, c, Tail(q))
<1>1. /\ \A n : Has(q, n) <=> Has(Tail(q), n) \/ n = Head(q)
      /\ \A u, v : Follows(q, u, v) <=> Follows(Tail(q), u, v) \/ (Head(q) = u /\ Has(Tail(q), v))
      /\ Has(q, Head(q))
  BY HasTail
<1>2. a \in {"finished", "reaped"}
  BY <1>1 DEF Fit
<1>3. st = "None" /\ a = "reaped" /\ o = None
  BY <1>2 DEF Serving, Ready, Fit
<1>4. OneInvocation(x, y, st, a, o, Tail(q))
  BY <1>1 DEF Serving, OneInvocation, Serves
<1>5. Answers(st, a, c, Tail(q))
  BY <1>1, <1>3 DEF Serving, Answers
<1>6. Returns(m, k, x, y, st, a, c, Tail(q))
  BY <1>3 DEF Serving, Returns
<1>7. UnderWay(a, o, c, Tail(q))
  BY <1>3, PoolAssumption DEF UnderWay, PendingControlOp
<1>. QED BY <1>3, <1>4, <1>5, <1>6, <1>7 DEF Serving, Ready

\* A snapshotting is requested.
LEMMA ServingSnaps ==
    ASSUME NEW x, NEW y, NEW k, NEW st, st = "Idle" \/ st = "Active", NEW a, NEW c \in Seq(ControlMessage), NEW q,
           Serving("running", x, y, k, st, a, None, c, q),
           NEW d, a # "finished" => d = Append(c, "CreateSnapshot"), a = "finished" => d = c,
           NEW o, o = "Snapshot" \/ (o = None /\ a = "finished")
    PROVE  Serving("running", x, y, k, "Active", a, o, d, q)
<1>1. /\ \A n : Has(c, n) => Has(d, n)
      /\ a # "finished" => Has(d, "CreateSnapshot")
  <2>1. "CreateSnapshot" \in ControlMessage
    BY DEF ControlMessage
  <2>2. CASE a = "finished"
    BY <2>2
  <2>3. CASE a # "finished"
    <3>1. \A n : Has(Append(c, "CreateSnapshot"), n) <=> Has(c, n) \/ n = "CreateSnapshot"
      BY <2>1, HasAppend
    <3>. QED BY <2>3, <3>1
  <2>. QED BY <2>2, <2>3
<1>2. None \notin {"PrepareSandbox", "DestroySandbox", "Snapshot"}
  BY PoolAssumption DEF PendingControlOp
<1>3. OneInvocation(x, y, "Active", a, o, q)
  BY <1>2 DEF Serving, OneInvocation, Serves
<1>4. Answers("Active", a, d, q)
  BY DEF Serving, Answers
<1>5. Returns("running", k, x, y, "Active", a, d, q)
  BY <1>1 DEF Serving, Returns, Serves, Ready
<1>6. UnderWay(a, o, d, q)
  BY <1>1, <1>2 DEF Serving, UnderWay, Answers
<1>. QED BY <1>3, <1>4, <1>5, <1>6 DEF Serving, Ready

\* A Dying Worker is asked to be destroyed.
LEMMA ServingDestroys ==
    ASSUME NEW m, NEW x, NEW y, NEW k, NEW a, NEW c, NEW q, Serving(m, x, y, k, "Dying", a, None, c, q)
    PROVE  Serving(m, x, y, k, "Dying", a, "DestroySandbox", c, q)
  BY DEF Serving, OneInvocation, Answers, Ready, UnderWay

\* The Pool has shut the Idle Workers down, or is done.
LEMMA ServingDrains ==
    ASSUME NEW m, NEW x, NEW y, NEW k, NEW st, NEW a, NEW o, NEW c, NEW q,
           Serving(m, x, y, k, st, a, o, c, q), st # "Idle", NEW m2, m2 # "running"
    PROVE  Serving(m2, x, y, k, st, a, o, c, q)
  BY DEF Serving, Ready, Returns

\* The Worker reaches its loop.
LEMMA ServingInit ==
    ASSUME NEW m, NEW x, NEW y, NEW k, NEW st, NEW o, NEW c, NEW q,
           Serving(m, x, y, k, st, "starting", o, c, q)
    PROVE  Serving(m, x, y, k, st, "loop", o, c, q)
<1>1. OneInvocation(x, y, st, "loop", o, q)
  BY DEF Serving, OneInvocation, Serves
<1>. QED BY <1>1 DEF Serving, Answers, Ready, Returns, Serves, UnderWay

\* It takes its invocation.
LEMMA ServingTakes ==
    ASSUME NEW m, NEW x, NEW y, NEW k, NEW st, NEW o, NEW c, NEW q, y,
           Serving(m, x, y, k, st, "loop", o, c, q), Fit(st, "loop", o, c, q)
    PROVE  Serving(m, x, FALSE, k, st, "busy", o, c, q)
<1>1. ~x /\ ~Has(q, "NeedWork") /\ ~Has(q, "Snapshotted") /\ st # "Idle" /\ o # "PrepareSandbox"
  BY DEF Serving, OneInvocation, Serves
<1>2. ~Has(q, "Prepared")
  BY <1>1 DEF Fit
<1>3. OneInvocation(x, FALSE, st, "busy", o, q)
  BY <1>1, FollowsHas DEF OneInvocation, Serves
<1>4. Answers(st, "busy", c, q)
  BY <1>1, <1>2 DEF Serving, Answers
<1>5. Returns(m, k, x, FALSE, st, "busy", c, q)
  BY DEF Serving, Returns, Serves
<1>6. UnderWay("busy", o, c, q)
  BY DEF Serving, UnderWay
<1>. QED BY <1>1, <1>3, <1>4, <1>5, <1>6 DEF Serving, Ready

\* A Worker that is at work is not Idle and says nothing else.
LEMMA ServingAtWork ==
    ASSUME NEW m, NEW x, NEW y, NEW k, NEW st, NEW a \in {"busy", "preparing"}, NEW o, NEW c, NEW q,
           Serving(m, x, y, k, st, a, o, c, q), Fit(st, a, o, c, q)
    PROVE  /\ ~x /\ ~y /\ st # "Idle" /\ ~Has(q, "NeedWork") /\ ~Has(q, "Snapshotted") /\ ~Has(q, "Prepared")
           /\ a = "busy" => o # "PrepareSandbox"
           /\ a = "preparing" => o = "PrepareSandbox"
<1>1. None # "PrepareSandbox"
  BY PoolAssumption DEF PendingControlOp
<1>2. CASE a = "busy"
  BY <1>2 DEF Serving, OneInvocation, Serves, Fit
<1>3. CASE a = "preparing"
  BY <1>1, <1>3 DEF Serving, OneInvocation, Serves, Ready, Fit
<1>. QED BY <1>2, <1>3

LEMMA ServingCreates ==
    ASSUME NEW m, NEW x, NEW y, NEW k, NEW st, NEW a \in {"busy", "preparing"}, NEW o, NEW c,
           NEW q \in Seq(OutboundMessage), Serving(m, x, y, k, st, a, o, c, q), Fit(st, a, o, c, q)
    PROVE  Serving(m, x, y, k, st, a, o, c, Append(q, "SandboxId"))
<1>. DEFINE p == Append(q, "SandboxId")
<1>1. /\ \A n : Has(p, n) <=> Has(q, n) \/ n = "SandboxId"
      /\ \A u, v : Follows(p, u, v) <=> Follows(q, u, v) \/ (Has(q, u) /\ v = "SandboxId")
  BY HasAppend DEF OutboundMessage
<1>. HIDE DEF p
<1>2. /\ ~x /\ ~y /\ st # "Idle" /\ ~Has(p, "NeedWork") /\ ~Has(p, "Snapshotted") /\ ~Has(p, "Prepared")
      /\ a = "busy" => o # "PrepareSandbox"
      /\ a = "preparing" => o = "PrepareSandbox"
  BY <1>1, ServingAtWork
<1>3. OneInvocation(x, y, st, a, o, p)
  BY <1>1, <1>2, FollowsHas DEF OneInvocation, Serves
<1>4. Answers(st, a, c, p)
  BY <1>1, <1>2 DEF Serving, Answers
<1>5. Returns(m, k, x, y, st, a, c, p)
  BY <1>1 DEF Serving, Returns, Serves
<1>6. UnderWay(a, o, c, p)
  BY <1>1 DEF Serving, UnderWay
<1>. QED BY <1>2, <1>3, <1>4, <1>5, <1>6 DEF Serving, Ready, p

\* Its request, or its preparation, ends well.
LEMMA ServingAnswers ==
    ASSUME NEW m, NEW x, NEW y, NEW k, NEW st, NEW a \in {"busy", "preparing"}, NEW o, NEW c,
           NEW q \in Seq(OutboundMessage), Serving(m, x, y, k, st, a, o, c, q), Fit(st, a, o, c, q),
           NEW r, a = "busy" => r = "NeedWork", a = "preparing" => r = "Prepared"
    PROVE  Serving(m, x, y, k, st, "loop", o, c, Append(q, r))
<1>. DEFINE p == Append(q, r)
<1>1. /\ \A n : Has(p, n) <=> Has(q, n) \/ n = r
      /\ \A u, v : Follows(p, u, v) <=> Follows(q, u, v) \/ (Has(q, u) /\ v = r)
  BY HasAppend DEF OutboundMessage
<1>. HIDE DEF p
<1>2. /\ ~x /\ ~y /\ st # "Idle" /\ ~Has(q, "NeedWork") /\ ~Has(q, "Snapshotted") /\ ~Has(q, "Prepared")
      /\ a = "busy" => o # "PrepareSandbox"
      /\ a = "preparing" => o = "PrepareSandbox"
  BY ServingAtWork
<1>3. OneInvocation(x, y, st, "loop", o, p)
  BY <1>1, <1>2, FollowsHas DEF OneInvocation, Serves
<1>4. Answers(st, "loop", c, p)
  BY <1>1, <1>2 DEF Serving, Answers
<1>5. Returns(m, k, x, y, st, "loop", c, p)
  BY <1>1, <1>2 DEF Serving, Returns, Serves
<1>6. UnderWay("loop", o, c, p)
  BY <1>1, <1>2 DEF Serving, UnderWay
<1>. QED BY <1>2, <1>3, <1>4, <1>5, <1>6 DEF Serving, Ready, p

\* It ends: p are its last messages.
LEMMA ServingFinishes ==
    ASSUME NEW m, NEW x, NEW y, NEW k, NEW st, NEW a \in {"starting", "loop", "busy", "preparing"},
           NEW o, NEW c, NEW q \in Seq(OutboundMessage),
           Serving(m, x, y, k, st, a, o, c, q), Fit(st, a, o, c, q), a = "loop" => st = "Dying",
           NEW p, \/ p = Append(q, "ReapMe")
                  \/ a = "preparing" /\ p = Append(Append(q, "PrepFailed"), "ReapMe")
    PROVE  Serving(m, x, FALSE, k, st, "finished", o, <<>>, p)
<1>1. /\ \A n \in OutboundMessage \ {"ReapMe", "PrepFailed"} : Has(p, n) <=> Has(q, n)
      /\ \A u, v : v \notin {"ReapMe", "PrepFailed"} /\ Follows(p, u, v) => Follows(q, u, v)
      /\ Has(p, "ReapMe") /\ (Has(p, "PrepFailed") => a = "preparing" \/ Has(q, "PrepFailed"))
  <2>1. CASE p = Append(q, "ReapMe")
    BY <2>1, HasAppend DEF OutboundMessage
  <2>2. CASE a = "preparing" /\ p = Append(Append(q, "PrepFailed"), "ReapMe")
    <3>. DEFINE t == Append(q, "PrepFailed")
    <3>1. /\ t \in Seq(OutboundMessage)
          /\ \A n : Has(t, n) <=> Has(q, n) \/ n = "PrepFailed"
          /\ \A u, v : Follows(t, u, v) <=> Follows(q, u, v) \/ (Has(q, u) /\ v = "PrepFailed")
      BY HasAppend DEF OutboundMessage
    <3>2. p = Append(t, "ReapMe")
      BY <2>2
    <3>. HIDE DEF t
    <3>3. /\ \A n : Has(p, n) <=> Has(t, n) \/ n = "ReapMe"
          /\ \A u, v : Follows(p, u, v) <=> Follows(t, u, v) \/ (Has(t, u) /\ v = "ReapMe")
      BY <3>1, <3>2, HasAppend DEF OutboundMessage
    <3>. QED BY <2>2, <3>1, <3>3
  <2>. QED BY <2>1, <2>2
<1>2. a \in {"busy", "preparing"} => ~x /\ ~y /\ st # "Idle"
  BY ServingAtWork
<1>3. OneInvocation(x, FALSE, st, "finished", o, p)
  BY <1>1 DEF Serving, OneInvocation, Serves, OutboundMessage
<1>4. Answers(st, "finished", <<>>, p)
  BY <1>1 DEF Serving, Answers, OutboundMessage
<1>5. Ready(m, k, st, "finished", o, <<>>, p)
  <2>1. CASE st = "Idle"
    <3>1. a = "starting" /\ m # "running"
      BY <1>2, <2>1 DEF Serving, Ready
    <3>2. \A n \in OutboundMessage \ {"ReapMe"} : ~Has(p, n)
      BY <1>1, <2>1, <3>1 DEF Serving, Ready, OutboundMessage
    <3>. QED BY <2>1, <3>1, <3>2 DEF Serving, Ready
  <2>. QED BY <2>1 DEF Ready
<1>6. Returns(m, k, x, FALSE, st, "finished", <<>>, p)
  BY <1>1 DEF Serving, Returns
<1>7. UnderWay("finished", o, <<>>, p)
  BY <1>1 DEF UnderWay
<1>. QED BY <1>3, <1>4, <1>5, <1>6, <1>7 DEF Serving

\* It takes an order to prepare a Sandbox, or to take a snapshot.
LEMMA ServingPrepares ==
    ASSUME NEW m, NEW x, NEW y, NEW k, NEW st, NEW o, NEW c \in Seq(ControlMessage), NEW q,
           Serving(m, x, y, k, st, "loop", o, c, q), Fit(st, "loop", o, c, q), ~y,
           c # <<>>, Head(c) = "PrepareSandbox"
    PROVE  Serving(m, x, y, k, st, "preparing", o, Tail(c), q)
<1>1. \A n : Has(c, n) <=> Has(Tail(c), n) \/ n = Head(c)
  BY HasTail
<1>2. /\ o = "PrepareSandbox" /\ ~Has(q, "Prepared") /\ ~Has(q, "Snapshotted")
  BY <1>1 DEF Fit
<1>3. ~x /\ ~Has(q, "NeedWork")
  BY <1>2 DEF Serving, OneInvocation, Serves
<1>4. st # "Idle"
  BY DEF Serving, Ready
<1>5. OneInvocation(x, y, st, "preparing", o, q)
  BY <1>2, <1>3, FollowsHas DEF OneInvocation, Serves
<1>6. Answers(st, "preparing", Tail(c), q)
  BY <1>1, <1>2, <1>3 DEF Serving, Answers
<1>7. Returns(m, k, x, y, st, "preparing", Tail(c), q)
  BY <1>1 DEF Serving, Returns, Serves
<1>8. UnderWay("preparing", o, Tail(c), q)
  BY <1>2 DEF UnderWay
<1>. QED BY <1>4, <1>5, <1>6, <1>7, <1>8 DEF Serving, Ready

LEMMA ServingSnapped ==
    ASSUME NEW m, NEW x, NEW y, NEW k, NEW st, NEW o, NEW c \in Seq(ControlMessage),
           NEW q \in Seq(OutboundMessage),
           Serving(m, x, y, k, st, "loop", o, c, q), Fit(st, "loop", o, c, q), ~x, ~y,
           c # <<>>, Head(c) = "CreateSnapshot"
    PROVE  Serving(m, x, y, k, st, "loop", o, Tail(c), Append(q, "Snapshotted"))
<1>. DEFINE p == Append(q, "Snapshotted")
<1>1. /\ \A n : Has(p, n) <=> Has(q, n) \/ n = "Snapshotted"
      /\ \A u, v : Follows(p, u, v) <=> Follows(q, u, v) \/ (Has(q, u) /\ v = "Snapshotted")
  BY HasAppend DEF OutboundMessage
<1>. HIDE DEF p
<1>2. \A n : Has(c, n) <=> Has(Tail(c), n) \/ n = Head(c)
  BY HasTail
<1>3. o = "Snapshot" /\ ~Has(q, "Snapshotted")
  BY <1>2 DEF Fit
<1>4. st # "Idle"
  BY <1>3 DEF Serving, Ready
<1>5. OneInvocation(x, y, st, "loop", o, p)
  BY <1>1, <1>3, <1>4, FollowsHas DEF Serving, OneInvocation, Serves
<1>6. Answers(st, "loop", Tail(c), p)
  BY <1>1, <1>2 DEF Serving, Answers
<1>7. Returns(m, k, x, y, st, "loop", Tail(c), p)
  BY <1>1, <1>2 DEF Serving, Returns, Serves
<1>8. UnderWay("loop", o, Tail(c), p)
  BY <1>1, <1>3 DEF UnderWay
<1>. QED BY <1>4, <1>5, <1>6, <1>7, <1>8 DEF Serving, Ready, p

\* Nothing is known of a Worker that is not spawned yet.
LEMMA ServingUnborn ==
    ASSUME NEW x, NEW y, NEW k, NEW st, NEW o, NEW c, NEW q,
           Serving("running", x, y, k, st, "unborn", o, c, q), Fit(st, "unborn", o, c, q)
    PROVE  ~x /\ ~y /\ ~k
  BY DEF Serving, OneInvocation, Returns, Fit

LEMMA ServingSpawned ==
    ASSUME NEW x, ~x, NEW y, ~y, NEW k, ~k
    PROVE  /\ Serving("running", TRUE, y, TRUE, "Active", "starting", None, <<>>, <<>>)
           /\ Serving("stopping", x, y, k, "Idle", "starting", None, <<>>, <<>>)
           /\ Serving("running", x, y, TRUE, "Active", "starting", "PrepareSandbox", <<"PrepareSandbox">>, <<>>)
           /\ Serving("running", x, y, k, "Active", "finished", "PrepareSandbox", <<>>, <<"ReapMe">>)
           /\ Serving("running", x, y, k, "None", "reaped", None, <<>>, <<"ReapMe">>)
           /\ Serving("running", x, y, k, "Dying", "starting", "DestroySandbox", <<"DestroySandbox">>, <<>>)
           /\ Serving("running", x, y, k, "Dying", "finished", None, <<>>, <<"ReapMe">>)
<1>1. \A n : n \in {"ReapMe", "PrepareSandbox", "DestroySandbox"} =>
             /\ \A l : Has(<<n>>, l) <=> l = n
             /\ \A u, v : ~Follows(<<n>>, u, v)
  BY HasOne
<1>2. None \notin {"PrepareSandbox", "DestroySandbox", "Snapshot"}
  BY PoolAssumption DEF PendingControlOp
<1>3. Serving("running", TRUE, y, TRUE, "Active", "starting", None, <<>>, <<>>)
  BY <1>2, HasNothing DEF Serving, OneInvocation, Serves, Answers, Ready, Returns, UnderWay
<1>4. Serving("stopping", x, y, k, "Idle", "starting", None, <<>>, <<>>)
  BY <1>2, HasNothing DEF Serving, OneInvocation, Serves, Answers, Ready, Returns, UnderWay
<1>5. Serving("running", x, y, TRUE, "Active", "starting", "PrepareSandbox", <<"PrepareSandbox">>, <<>>)
  BY <1>1, HasNothing DEF Serving, OneInvocation, Serves, Answers, Ready, Returns, UnderWay
<1>6. Serving("running", x, y, k, "Active", "finished", "PrepareSandbox", <<>>, <<"ReapMe">>)
  BY <1>1, HasNothing DEF Serving, OneInvocation, Serves, Answers, Ready, Returns, UnderWay
<1>7. Serving("running", x, y, k, "None", "reaped", None, <<>>, <<"ReapMe">>)
  BY <1>1, <1>2, HasNothing DEF Serving, OneInvocation, Serves, Answers, Ready, Returns, UnderWay
<1>8. Serving("running", x, y, k, "Dying", "starting", "DestroySandbox", <<"DestroySandbox">>, <<>>)
  BY <1>1, HasNothing DEF Serving, OneInvocation, Serves, Answers, Ready, Returns, UnderWay
<1>9. Serving("running", x, y, k, "Dying", "finished", None, <<>>, <<"ReapMe">>)
  BY <1>1, <1>2, HasNothing DEF Serving, OneInvocation, Serves, Answers, Ready, Returns, UnderWay
<1>. QED BY <1>3, <1>4, <1>5, <1>6, <1>7, <1>8, <1>9

-----------------------------------------------------------------------------
(***************************************************************************)
(* The helpers of the handlers, and what a step may leave as it is.        *)
(***************************************************************************)

LEMMA PutValue ==
    ASSUME NEW T, NEW f \in [Workers -> T], NEW S, NEW v \in T
    PROVE  /\ Put(f, S, v) \in [Workers -> T]
           /\ \A x \in Workers : Put(f, S, v)[x] = IF x \in S THEN v ELSE f[x]
  BY DEF Put

LEMMA LessValue ==
    ASSUME NEW m \in Nat, NEW n \in Nat
    PROVE  Less(m, n) \in Nat /\ (n <= m => Less(m, n) = m - n)
  BY DEF Less

LEMMA SentValue ==
    ASSUME ctrl \in [Workers -> Seq(ControlMessage)], NEW S, NEW m \in ControlMessage
    PROVE  /\ Sent(S, m) \in [Workers -> Seq(ControlMessage)]
           /\ \A w \in Workers :
                 Sent(S, m)[w] = IF w \in S /\ at[w] # "finished" THEN Append(ctrl[w], m) ELSE ctrl[w]
  BY DEF Sent

LEMMA TimersValue ==
    ASSUME TypeOK, NEW S, NEW K \in SUBSET Workers, rearm(S, K)
    PROVE  timers' \subseteq Workers /\ armed' \subseteq timers' /\ late' \subseteq Workers
  BY DEF TypeOK, rearm

\* The Workers of a set that are alive can be counted.
LEMMA Countable ==
    ASSUME TypeOK, FitAt, ChargedAt, NEW S, S \subseteq Born
    PROVE  /\ IsFiniteSet(S) /\ Cardinality(S) \in Nat
           /\ Idle \subseteq Born /\ Active \subseteq Born
           /\ \A a : Charged(a) \subseteq Born
<1>1. IsFiniteSet(S) /\ Cardinality(S) \in Nat
  BY FS_Subset, FS_CardinalityType DEF ChargedAt
<1>2. \A w \in Workers : state[w] # "None" \/ w \in leaked => w \in Born
  BY DEF Born, FitAt, Fit, ChargedAt
<1>3. Idle \subseteq Born /\ Active \subseteq Born
  BY <1>2 DEF Idle, Active
<1>4. \A a : Charged(a) \subseteq Born
  BY <1>2 DEF Charged
<1>. QED BY <1>1, <1>3, <1>4

LEMMA Evicted ==
    ASSUME NEW n, NEW E \in Victims(n)
    PROVE  E \subseteq Idle
  BY DEF Victims, evict

\* The messages and the Sandbox of v are as they were, but for an order to end.
Keeps(v) ==
    /\ at'[v] = at[v] /\ op'[v] = op[v] /\ out'[v] = out[v]
    /\ sandbox_id'[v] = sandbox_id[v] /\ box'[v] = box[v] /\ exit'[v] = exit[v]

Alike(v) == Keeps(v) /\ state'[v] = state[v] /\ ctrl'[v] = ctrl[v]

Dies(v) ==
    /\ Keeps(v)
    /\ state[v] \in {"Idle", "Active"} /\ state'[v] = "Dying"
    /\ \E m \in {"ShutDown", "DestroySandbox"} :
          ctrl'[v] = IF at[v] # "finished" THEN Append(ctrl[v], m) ELSE ctrl[v]

\* The books on v.
Books(v) ==
    /\ Fit(state[v], at[v], op[v], ctrl[v], out[v])
    /\ Owning(v, sandbox_id[v], box[v], at[v], exit[v], ctrl[v], out[v])

LEMMA BooksKept ==
    ASSUME TypeOK, FitAt, OwningAt, \A v \in Workers : Alike(v) \/ Dies(v) \/ Books(v)'
    PROVE  FitAt' /\ OwningAt'
<1>1. ASSUME NEW v \in Workers PROVE Books(v)'
  <2>1. Books(v)
    BY DEF FitAt, OwningAt, Books
  <2>2. CASE Alike(v)
    BY <2>1, <2>2 DEF Alike, Keeps, Books
  <2>3. CASE Dies(v)
    <3>1. PICK m \in {"ShutDown", "DestroySandbox"} :
              ctrl'[v] = IF at[v] # "finished" THEN Append(ctrl[v], m) ELSE ctrl[v]
      BY <2>3 DEF Dies
    <3>2. ctrl[v] \in Seq(ControlMessage) /\ m \in ControlMessage /\ m # "CreateSnapshot"
      BY DEF TypeOK, ControlMessage
    <3>3. Fit("Dying", at[v], op[v], ctrl'[v], out[v])
      BY <2>1, <2>3, <3>1, <3>2, FitDies DEF Dies, Books
    <3>4. Owning(v, sandbox_id[v], box[v], at[v], exit[v], ctrl'[v], out[v])
      BY <2>1, <3>1, <3>2, OwningOrdered DEF Books
    <3>. QED BY <2>3, <3>3, <3>4 DEF Dies, Keeps, Books
  <2>. QED BY <1>1, <2>2, <2>3
<1>. QED BY <1>1 DEF FitAt, OwningAt, Books

LEMMA SharedKept ==
    ASSUME SharedAt, UNCHANGED <<boxVars, box>>, \A w \in Workers : at[w] = "reaped" => at'[w] = "reaped"
    PROVE  SharedAt'
  BY DEF SharedAt, Live, boxVars

LEMMA IndexKept ==
    ASSUME IndexAt, UNCHANGED <<sandbox_id, worker_by_sandbox>>,
           \A w \in Workers : state'[w] = "None" <=> state[w] = "None"
    PROVE  IndexAt'
  BY DEF IndexAt

LEMMA ChargedKept ==
    ASSUME ChargedAt, UNCHANGED leaked, mode' = "running" => mode = "running" /\ UNCHANGED <<acct, inuse, reclaimed>>,
           \A w \in Workers :
              /\ at'[w] = "unborn" <=> at[w] = "unborn"
              /\ at[w] = "reaped" => at'[w] = "reaped"
              /\ mode' = "running" => (state'[w] = "None" <=> state[w] = "None")
              /\ mode' = "running" => (state'[w] \in {"Idle", "Active"} => state[w] \in {"Idle", "Active"}),
           TypeOK
    PROVE  ChargedAt'
<1>1. Born' = Born
  BY DEF Born
<1>2. \A w \in leaked' : at'[w] = "reaped"
  BY DEF ChargedAt, TypeOK
<1>3. MemoryExact'
  <2>. SUFFICES ASSUME mode' = "running" PROVE MemoryExact'
    BY DEF MemoryExact
  <2>1. \A a : Charged(a)' = Charged(a)
    BY DEF Charged
  <2>2. Charged("InUse")' = Charged("InUse") /\ Charged("Reclaimed")' = Charged("Reclaimed")
    BY <2>1
  <2>. QED BY <2>2 DEF ChargedAt, MemoryExact
<1>. QED BY <1>1, <1>2, <1>3 DEF ChargedAt

\* The Workers of S are told to end: what they use is being reclaimed.
LEMMA DyingValue ==
    ASSUME TypeOK, FitAt, ChargedAt, NEW S, S \subseteq Idle \cup Active, to_dying(S)
    PROVE  /\ state' \in [Workers -> Lifecycle] /\ acct' \in [Workers -> {"InUse", "Reclaimed", "Uncharged"}]
           /\ inuse' \in Nat /\ reclaimed' \in Nat /\ deadlines' \subseteq Workers
           /\ \A v \in Workers : /\ state'[v] = IF v \in S THEN "Dying" ELSE state[v]
                                 /\ acct'[v] = IF v \in S THEN "Reclaimed" ELSE acct[v]
           /\ Idle' = Idle \ S
           /\ \A v \in S : v \in Workers /\ state[v] \in {"Idle", "Active"} /\ at[v] \notin {"unborn", "reaped"}
<1>1. /\ state' \in [Workers -> Lifecycle]
      /\ \A v \in Workers : state'[v] = IF v \in S THEN "Dying" ELSE state[v]
  <2>1. state \in [Workers -> Lifecycle] /\ state' = Put(state, S, "Dying") /\ "Dying" \in Lifecycle
    BY DEF TypeOK, to_dying, workers_to_dying, Lifecycle
  <2>. QED BY <2>1, PutValue
<1>2. /\ acct' \in [Workers -> {"InUse", "Reclaimed", "Uncharged"}]
      /\ \A v \in Workers : acct'[v] = IF v \in S THEN "Reclaimed" ELSE acct[v]
  BY DEF TypeOK, to_dying, Put
<1>3. Cardinality(S) \in Nat
  <2>1. S \subseteq Born
    BY Countable
  <2>. QED BY <2>1, Countable
<1>4. inuse' \in Nat /\ reclaimed' \in Nat /\ deadlines' \subseteq Workers
  <2>1. /\ inuse \in Nat /\ reclaimed \in Nat /\ deadlines \subseteq Workers
        /\ inuse' = Less(inuse, Cardinality(S)) /\ reclaimed' = reclaimed + Cardinality(S)
        /\ deadlines' = deadlines \ S
    BY DEF TypeOK, to_dying
  <2>. QED BY <1>3, <2>1, LessValue
<1>5. Idle' = Idle \ S
  BY <1>1 DEF Idle
<1>6. \A v \in S : v \in Workers /\ state[v] \in {"Idle", "Active"} /\ at[v] \notin {"unborn", "reaped"}
  BY DEF Idle, Active, FitAt, Fit
<1>. QED BY <1>1, <1>2, <1>4, <1>5, <1>6

LEMMA BornOne ==
    ASSUME ChargedAt, NEW w, \A v \in Workers \ {w} : at'[v] = at[v]
    PROVE  IsFiniteSet(Born')
<1>1. IsFiniteSet(Born \cup {w})
  BY FS_AddElement DEF ChargedAt
<1>2. Born' \in SUBSET (Born \cup {w})
  BY DEF Born
<1>. QED BY <1>1, <1>2, FS_Subset

LEMMA DyingMemory ==
    ASSUME TypeOK, FitAt, ChargedAt, NEW S, S \subseteq Idle \cup Active, to_dying(S), UNCHANGED leaked,
           NEW u, \A v \in Workers \ {u} : at'[v] = at[v], at[u] = "reaped" => at'[u] = "reaped",
           mode' = "running" => mode = "running"
    PROVE  ChargedAt'
<1>1. IsFiniteSet(Born') /\ \A w \in leaked' : at'[w] = "reaped"
  BY BornOne DEF TypeOK, ChargedAt
<1>2. MemoryExact'
  <2>. SUFFICES ASSUME mode' = "running" PROVE MemoryExact'
    BY DEF MemoryExact
  <2>. DEFINE U == Charged("InUse")
              R == Charged("Reclaimed")
  <2>1. /\ inuse = Cardinality(U) /\ reclaimed = Cardinality(R)
        /\ \A w \in Workers : state[w] \in {"Idle", "Active"} => acct[w] = "InUse"
    BY DEF ChargedAt, MemoryExact
  <2>2. S \subseteq U /\ S \cap R = {}
    BY <2>1, DyingValue DEF Charged
  <2>3. U' = U \ S /\ R' = R \cup S
    BY <2>1, DyingValue DEF Charged
  <2>4. IsFiniteSet(U) /\ IsFiniteSet(R) /\ IsFiniteSet(S)
    <3>1. U \subseteq Born /\ R \subseteq Born /\ S \subseteq Born
      BY Countable
    <3>. QED BY <3>1, FS_Subset DEF ChargedAt
  <2>. HIDE DEF U, R
  <2>5. U \cap S = S /\ R \cap S = {}
    BY <2>2
  <2>6. /\ Cardinality(U \ S) = Cardinality(U) - Cardinality(S)
        /\ Cardinality(R \cup S) = Cardinality(R) + Cardinality(S)
        /\ Cardinality(S) \in Nat /\ Cardinality(S) <= Cardinality(U) /\ Cardinality(U) \in Nat /\ Cardinality(R) \in Nat
    <3>1. Cardinality(U \ S) = Cardinality(U) - Cardinality(U \cap S)
      BY <2>4, FS_Difference
    <3>2. Cardinality(R \cup S) = Cardinality(R) + Cardinality(S) - Cardinality(R \cap S)
      BY <2>4, FS_Union
    <3>3. Cardinality({}) = 0
      BY FS_EmptySet
    <3>4. Cardinality(S) \in Nat /\ Cardinality(U) \in Nat /\ Cardinality(R) \in Nat
      BY <2>4, FS_CardinalityType
    <3>5. Cardinality(S) <= Cardinality(U)
      BY <2>2, <2>4, FS_Subset
    <3>6. Cardinality(U \cap S) = Cardinality(S) /\ Cardinality(R \cap S) = 0
      BY <2>5, <3>3, Zenon
    <3>. QED BY <3>1, <3>2, <3>4, <3>5, <3>6
  <2>7. inuse' = Cardinality(U') /\ reclaimed' = Cardinality(R')
    <3>1. inuse' = Less(inuse, Cardinality(S)) /\ reclaimed' = reclaimed + Cardinality(S)
      BY DEF to_dying
    <3>2. Less(inuse, Cardinality(S)) = inuse - Cardinality(S)
      BY <2>1, <2>6, LessValue
    <3>. QED BY <2>1, <2>3, <2>6, <3>1, <3>2
  <2>8. \A w \in Workers : state'[w] \in {"Idle", "Active"} => acct'[w] = "InUse"
    BY <2>1, DyingValue
  <2>. QED BY <2>7, <2>8 DEF MemoryExact, U, R
<1>. QED BY <1>1, <1>2 DEF ChargedAt

-----------------------------------------------------------------------------
(***************************************************************************)
(* The steps of the Workers.                                               *)
(***************************************************************************)

AtWork == {"starting", "loop", "busy", "preparing"}

\* Nothing but the messages and the place of w changes.
LEMMA WorkerBooks ==
    ASSUME BInv, NEW w \in Workers, UNCHANGED <<poolVars, box>>, at[w] \in AtWork, at'[w] \in AtWork \cup {"finished"},
           at' \in [Workers -> Place], invoked' \subseteq Workers, snapped' \subseteq Workers, overtaken' \subseteq Workers,
           ctrl' \in [Workers -> Seq(ControlMessage)], out' \in [Workers -> Seq(OutboundMessage)],
           exit' \in [Workers -> SandboxExit \cup {None}],
           \A v \in Workers \ {w} : at'[v] = at[v] /\ ctrl'[v] = ctrl[v] /\ out'[v] = out[v] /\ exit'[v] = exit[v],
           Books(w)'
    PROVE  BInv'
<1>. USE DEF poolVars, storeVars, timerVars, memVars, boxVars, ctlVars
<1>1. TypeOK'
  BY DEF BInv, TypeOK
<1>2. \A v \in Workers \ {w} : Alike(v)
  BY DEF Alike, Keeps
<1>3. FitAt' /\ OwningAt'
  BY <1>2, BooksKept DEF BInv
<1>4. SharedAt'
  BY SharedKept DEF BInv, AtWork
<1>5. IndexAt'
  BY IndexKept DEF BInv
<1>6. TimersAt'
  BY DEF BInv, TimersAt, Idle
<1>7. ChargedAt'
  <2>1. \A v \in Workers : (at'[v] = "unborn" <=> at[v] = "unborn") /\ (at[v] = "reaped" => at'[v] = "reaped")
    BY DEF AtWork
  <2>. QED BY <2>1, ChargedKept DEF BInv
<1>. QED BY <1>1, <1>3, <1>4, <1>5, <1>6, <1>7 DEF BInv

LEMMA BooksOf ==
    ASSUME BInv, NEW w \in Workers
    PROVE  /\ Books(w) /\ at[w] \in Place
           /\ ctrl[w] \in Seq(ControlMessage) /\ out[w] \in Seq(OutboundMessage)
  BY DEF BInv, Books, FitAt, OwningAt, TypeOK

LEMMA WorkerInitBooks ==
    ASSUME BInv, NEW w \in Workers, WorkerInit(w)
    PROVE  BInv'
<1>1. Books(w)'
  <2>1. Fit(state[w], "loop", op[w], ctrl[w], out[w])
    BY BooksOf, FitMoves DEF WorkerInit, Books
  <2>2. Owning(w, sandbox_id[w], box[w], "loop", exit[w], ctrl[w], out[w])
    BY BooksOf, OwningMoves DEF WorkerInit, Books
  <2>. QED BY <2>1, <2>2 DEF WorkerInit, Books, poolVars, storeVars, ctlVars, BInv, TypeOK
<1>. QED BY <1>1, WorkerBooks DEF WorkerInit, BInv, TypeOK, Place, AtWork

LEMMA handle_requestBooks ==
    ASSUME BInv, NEW w \in Workers, handle_request(w)
    PROVE  BInv'
<1>1. Books(w)'
  <2>1. Fit(state[w], "busy", op[w], ctrl[w], out[w])
    BY BooksOf, FitMoves DEF handle_request, Books
  <2>2. Owning(w, sandbox_id[w], box[w], "busy", exit[w], ctrl[w], out[w])
    BY BooksOf, OwningMoves DEF handle_request, Books
  <2>. QED BY <2>1, <2>2 DEF handle_request, Books, poolVars, storeVars, ctlVars, BInv, TypeOK
<1>. QED BY <1>1, WorkerBooks DEF handle_request, BInv, TypeOK, Place, AtWork

LEMMA RequestEndsBooks ==
    ASSUME BInv, NEW w \in Workers, RequestEnds(w)
    PROVE  BInv'
<1>. DEFINE m == IF at[w] = "busy" THEN "NeedWork" ELSE "Prepared"
<1>1. /\ Fit(state[w], "loop", op[w], ctrl[w], Append(out[w], m))
      /\ Append(out[w], m) \in Seq(OutboundMessage)
  <2>1. at[w] \in {"busy", "preparing"} /\ out[w] \in Seq(OutboundMessage) /\ m \in OutboundMessage
    BY BooksOf DEF RequestEnds, OutboundMessage
  <2>2. Fit(state[w], at[w], op[w], ctrl[w], out[w])
    BY BooksOf DEF Books
  <2>. QED BY <2>1, <2>2, FitAnswers, HasAppend
<1>2. Owning(w, sandbox_id[w], box[w], "loop", exit[w], ctrl[w], Append(out[w], m))
  <2>1. Owning(w, sandbox_id[w], box[w], "loop", exit[w], ctrl[w], out[w])
    BY BooksOf, OwningMoves DEF RequestEnds, Books
  <2>. QED BY <2>1, BooksOf, OwningSays DEF RequestEnds, OutboundMessage
<1>3. /\ at' = [at EXCEPT ![w] = "loop"] /\ out' = [out EXCEPT ![w] = Append(out[w], m)]
      /\ snapped' \subseteq Workers /\ overtaken' \subseteq Workers /\ at[w] \in AtWork
      /\ UNCHANGED <<poolVars, invoked, ctrl, box, exit>>
  BY DEF RequestEnds, BInv, TypeOK, AtWork
<1>. HIDE DEF m
<1>4. Books(w)'
  BY <1>1, <1>2, <1>3 DEF Books, poolVars, storeVars, ctlVars, BInv, TypeOK
<1>. QED BY <1>1, <1>3, <1>4, WorkerBooks DEF BInv, TypeOK, Place, AtWork

LEMMA FinishBooks ==
    ASSUME BInv, NEW w \in Workers, NEW s, NEW e \in SandboxExit, Finish(w, s, e), at[w] \in AtWork,
           s = <<>> \/ (s = <<"PrepFailed">> /\ at[w] = "preparing"),
           e \in {"Reusable", "Trashed"} => box[w] # None
    PROVE  /\ BInv'
           /\ out'[w] = IF s = <<>> THEN Append(out[w], "ReapMe") ELSE Append(Append(out[w], "PrepFailed"), "ReapMe")
<1>. DEFINE p == IF s = <<>> THEN Append(out[w], "ReapMe") ELSE Append(Append(out[w], "PrepFailed"), "ReapMe")
<1>1. out[w] \o s \o <<"ReapMe">> = p
  <2>1. ASSUME NEW q \in Seq(OutboundMessage)
        PROVE  /\ q \o <<>> \o <<"ReapMe">> = Append(q, "ReapMe")
               /\ q \o <<"PrepFailed">> \o <<"ReapMe">> = Append(Append(q, "PrepFailed"), "ReapMe")
    OBVIOUS
  <2>. QED BY <2>1, BooksOf
<1>2. p \in Seq(OutboundMessage)
  <2>1. Append(out[w], "PrepFailed") \in Seq(OutboundMessage)
    BY BooksOf, HasAppend DEF OutboundMessage
  <2>. QED BY <2>1, BooksOf, HasAppend DEF OutboundMessage
<1>3. Fit(state[w], "finished", op[w], <<>>, p)
  BY BooksOf, FitFinishes DEF Books, AtWork
<1>4. Owning(w, sandbox_id[w], box[w], "finished", e, <<>>, p)
  BY BooksOf, OwningFinishes DEF Books, AtWork
<1>5. /\ at' = [at EXCEPT ![w] = "finished"] /\ out' = [out EXCEPT ![w] = p]
      /\ exit' = [exit EXCEPT ![w] = e] /\ ctrl' = [ctrl EXCEPT ![w] = <<>>]
      /\ invoked' = invoked \ {w} /\ UNCHANGED <<poolVars, box, snapped, overtaken>>
  BY <1>1 DEF Finish
<1>. HIDE DEF p
<1>6. Books(w)'
  BY <1>3, <1>4, <1>5 DEF Books, poolVars, storeVars, ctlVars, BInv, TypeOK
<1>7. BInv'
  <2>1. /\ at' \in [Workers -> Place] /\ at'[w] = "finished"
        /\ exit' \in [Workers -> SandboxExit \cup {None}]
        /\ invoked' \subseteq Workers /\ snapped' \subseteq Workers /\ overtaken' \subseteq Workers
    BY <1>5 DEF BInv, TypeOK, Place
  <2>2. ctrl' \in [Workers -> Seq(ControlMessage)] /\ out' \in [Workers -> Seq(OutboundMessage)]
    <3>1. <<>> \in Seq(ControlMessage)
      OBVIOUS
    <3>. QED BY <1>2, <1>5, <3>1 DEF BInv, TypeOK
  <2>3. \A v \in Workers \ {w} : at'[v] = at[v] /\ ctrl'[v] = ctrl[v] /\ out'[v] = out[v] /\ exit'[v] = exit[v]
    BY <1>5 DEF BInv, TypeOK
  <2>. QED BY <1>5, <1>6, <2>1, <2>2, <2>3, WorkerBooks
<1>8. out'[w] = p
  BY <1>5 DEF BInv, TypeOK
<1>. QED BY <1>7, <1>8 DEF p

LEMMA handle_prepareBooks ==
    ASSUME BInv, NEW w \in Workers, handle_prepare_sandbox_request(w)
    PROVE  BInv'
<1>. DEFINE c == Tail(ctrl[w])
<1>1. at[w] = "loop" /\ ctrl[w] # <<>> /\ Head(ctrl[w]) = "PrepareSandbox"
  BY DEF handle_prepare_sandbox_request, Control
<1>2. Fit(state[w], "preparing", op[w], c, out[w]) /\ c \in Seq(ControlMessage)
  BY <1>1, BooksOf, FitPrepares, HasTail DEF Books
<1>3. Owning(w, sandbox_id[w], box[w], "preparing", exit[w], c, out[w])
  <2>1. Owning(w, sandbox_id[w], box[w], at[w], exit[w], c, out[w])
    BY <1>1, BooksOf, OwningTakes DEF Books
  <2>. QED BY <1>1, <2>1, OwningMoves
<1>4. /\ at' = [at EXCEPT ![w] = "preparing"] /\ ctrl' = [ctrl EXCEPT ![w] = c]
      /\ UNCHANGED <<poolVars, invoked, out, box, exit, snapped, overtaken>>
  BY DEF handle_prepare_sandbox_request
<1>. HIDE DEF c
<1>5. Books(w)'
  BY <1>2, <1>3, <1>4 DEF Books, poolVars, storeVars, ctlVars, BInv, TypeOK
<1>. QED BY <1>1, <1>2, <1>4, <1>5, WorkerBooks DEF BInv, TypeOK, Place, AtWork

LEMMA handle_snapshotBooks ==
    ASSUME BInv, NEW w \in Workers, handle_snapshot_request(w)
    PROVE  BInv'
<1>. DEFINE c == Tail(ctrl[w])
            q == Append(out[w], "Snapshotted")
<1>1. at[w] = "loop" /\ ctrl[w] # <<>> /\ Head(ctrl[w]) = "CreateSnapshot"
  BY DEF handle_snapshot_request, Control
<1>2. Fit(state[w], "loop", op[w], c, q) /\ c \in Seq(ControlMessage) /\ q \in Seq(OutboundMessage)
  BY <1>1, BooksOf, FitSnapped, HasTail, HasAppend DEF Books, OutboundMessage
<1>3. Owning(w, sandbox_id[w], box[w], "loop", exit[w], c, q) /\ box[w] \in Workers
  <2>1. /\ Owning(w, sandbox_id[w], box[w], at[w], exit[w], c, out[w])
        /\ sandbox_id[w] # None /\ box[w] = sandbox_id[w]
    <3>1. /\ Owning(w, sandbox_id[w], box[w], at[w], exit[w], ctrl[w], out[w])
          /\ ctrl[w] \in Seq(ControlMessage)
      BY BooksOf DEF Books
    <3>2. Owning(w, sandbox_id[w], box[w], at[w], exit[w], Tail(ctrl[w]), out[w])
      BY <1>1, <3>1, OwningTakes
    <3>3. Has(ctrl[w], "CreateSnapshot")
      BY <1>1, <3>1, HasTail
    <3>. QED BY <3>1, <3>2, <3>3 DEF Owning
  <2>2. sandbox_id[w] \in Workers \cup {None}
    BY DEF BInv, TypeOK
  <2>3. "Snapshotted" \in OutboundMessage \ {"SandboxId"}
    BY DEF OutboundMessage
  <2>4. Owning(w, sandbox_id[w], box[w], at[w], exit[w], c, q)
    BY <2>1, <2>3, BooksOf, OwningSays
  <2>. QED BY <1>1, <2>1, <2>2, <2>4
<1>4. /\ ctrl' = [ctrl EXCEPT ![w] = c] /\ out' = [out EXCEPT ![w] = q]
      /\ snapped' \subseteq Workers /\ overtaken' \subseteq Workers
      /\ UNCHANGED <<poolVars, at, invoked, box, exit>>
  BY <1>3 DEF handle_snapshot_request, BInv, TypeOK
<1>. HIDE DEF c, q
<1>5. Books(w)'
  BY <1>1, <1>2, <1>3, <1>4 DEF Books, poolVars, storeVars, ctlVars, BInv, TypeOK
<1>. QED BY <1>1, <1>2, <1>4, <1>5, WorkerBooks DEF BInv, TypeOK, Place, AtWork

\* How a Worker comes to end.
LEMMA EndsBooks ==
    ASSUME BInv, NEW w \in Workers,
           \/ WorkerInitFails(w)
           \/ \E e \in SandboxExit : RequestFails(w, e) \/ HandleShutDown(w, e) \/ HandleDestroySandbox(w, e)
    PROVE  \E s \in {<<>>, <<"PrepFailed">>}, e \in SandboxExit :
              /\ Finish(w, s, e) /\ at[w] \in AtWork
              /\ s = <<>> \/ (s = <<"PrepFailed">> /\ at[w] = "preparing")
              /\ e \in {"Reusable", "Trashed"} => box[w] # None
              /\ at[w] = "loop" => state[w] = "Dying"
<1>1. CASE WorkerInitFails(w)
  BY <1>1 DEF WorkerInitFails, AtWork, SandboxExit
<1>2. ASSUME NEW e \in SandboxExit, RequestFails(w, e)
      PROVE  \E s \in {<<>>, <<"PrepFailed">>} :
                /\ Finish(w, s, e) /\ at[w] \in AtWork
                /\ s = <<>> \/ (s = <<"PrepFailed">> /\ at[w] = "preparing")
                /\ e \in {"Reusable", "Trashed"} => box[w] # None
                /\ at[w] # "loop"
  BY <1>2 DEF RequestFails, FailureExits, AtWork
<1>3. ASSUME NEW e \in SandboxExit, HandleShutDown(w, e) \/ HandleDestroySandbox(w, e)
      PROVE  /\ Finish(w, <<>>, e) /\ at[w] \in AtWork
             /\ e \in {"Reusable", "Trashed"} => box[w] # None
             /\ state[w] = "Dying"
  <2>1. /\ Finish(w, <<>>, e) /\ at[w] \in AtWork /\ ctrl[w] # <<>> /\ Head(ctrl[w]) \in {"ShutDown", "DestroySandbox"}
        /\ e \in {"Reusable", "Trashed"} => box[w] # None
    BY <1>3 DEF HandleShutDown, HandleDestroySandbox, Control, ShutdownExits, DestroyExits, AtWork
  <2>2. Has(ctrl[w], Head(ctrl[w]))
    BY <2>1, BooksOf, HasTail
  <2>3. state[w] = "Dying"
    BY <2>1, <2>2, BooksOf DEF Books, Fit
  <2>. QED BY <2>1, <2>3
<1>. QED BY <1>1, <1>2, <1>3

LEMMA create_sandboxBooks ==
    ASSUME BInv, NEW w \in Workers, create_sandbox(w)
    PROVE  BInv'
<1>. USE DEF poolVars, storeVars, timerVars, memVars, boxVars, ctlVars
<1>1. out[w] = <<>> /\ Append(out[w], "SandboxId") \in Seq(OutboundMessage)
      /\ Owning(w, sandbox_id[w], w, at[w], exit[w], ctrl[w], Append(out[w], "SandboxId"))
  BY BooksOf, OwningCreates, HasAppend DEF create_sandbox, Books, OutboundMessage
<1>2. Fit(state[w], at[w], op[w], ctrl[w], Append(out[w], "SandboxId"))
  BY <1>1, BooksOf, FitCreates DEF create_sandbox, Books
<1>3. /\ box' = [box EXCEPT ![w] = w] /\ out' = [out EXCEPT ![w] = Append(out[w], "SandboxId")]
      /\ UNCHANGED <<poolVars, at, invoked, ctrl, exit, snapped, overtaken>> /\ box[w] = None
  BY DEF create_sandbox
<1>4. TypeOK'
  BY <1>1, <1>3 DEF BInv, TypeOK
<1>5. \A v \in Workers : Alike(v) \/ Books(v)'
  <2>1. \A v \in Workers \ {w} : Alike(v)
    BY <1>3 DEF Alike, Keeps, BInv, TypeOK
  <2>2. Books(w)'
    BY <1>1, <1>2, <1>3 DEF Books, BInv, TypeOK
  <2>. QED BY <2>1, <2>2
<1>6. FitAt' /\ OwningAt'
  BY <1>5, BooksKept DEF BInv
<1>7. SharedAt'
  <2>1. \A v \in Workers : box[v] # w
    BY <1>3, PoolAssumption DEF BInv, SharedAt
  <2>2. w \notin snapshots \cup trashed
    BY <1>3, PoolAssumption DEF BInv, SharedAt
  <2>3. \A v \in Workers : box'[v] = IF v = w THEN w ELSE box[v]
    BY <1>3 DEF BInv, TypeOK
  <2>. QED BY <1>3, <2>1, <2>2, <2>3 DEF BInv, SharedAt, Live
<1>8. IndexAt'
  BY <1>3, IndexKept DEF BInv
<1>9. TimersAt'
  BY <1>3 DEF BInv, TimersAt, Idle
<1>10. ChargedAt'
  BY <1>3, ChargedKept DEF BInv
<1>. QED BY <1>4, <1>6, <1>7, <1>8, <1>9, <1>10 DEF BInv

LEMMA WorkerStepBooks ==
    ASSUME BInv, NEW w \in Workers, WorkerStep(w)
    PROVE  BInv'
<1>1. CASE WorkerInit(w)
  BY <1>1, WorkerInitBooks
<1>2. CASE handle_request(w)
  BY <1>2, handle_requestBooks
<1>3. CASE create_sandbox(w)
  BY <1>3, create_sandboxBooks
<1>4. CASE RequestEnds(w)
  BY <1>4, RequestEndsBooks
<1>5. CASE WorkerInitFails(w)
           \/ \E e \in SandboxExit : RequestFails(w, e) \/ HandleShutDown(w, e) \/ HandleDestroySandbox(w, e)
  BY <1>5, EndsBooks, FinishBooks
<1>6. CASE handle_prepare_sandbox_request(w)
  BY <1>6, handle_prepareBooks
<1>7. CASE handle_snapshot_request(w)
  BY <1>7, handle_snapshotBooks
<1>. QED BY <1>1, <1>2, <1>3, <1>4, <1>5, <1>6, <1>7 DEF WorkerStep

-----------------------------------------------------------------------------
(***************************************************************************)
(* The Pool receives a message.                                            *)
(***************************************************************************)

LEMMA Received ==
    ASSUME BInv, NEW w \in Workers, NEW m, Receive(w, m)
    PROVE  /\ out[w] # <<>> /\ Head(out[w]) = m
           /\ out' \in [Workers -> Seq(OutboundMessage)] /\ out'[w] = Tail(out[w])
           /\ \A v \in Workers \ {w} : out'[v] = out[v]
<1>1. out[w] # <<>> /\ Head(out[w]) = m /\ out' = [out EXCEPT ![w] = Tail(out[w])]
  BY DEF Receive
<1>2. Tail(out[w]) \in Seq(OutboundMessage)
  BY <1>1, BooksOf, HasTail
<1>. QED BY <1>1, <1>2 DEF BInv, TypeOK

\* A Worker that speaks of its work is tracked.
LEMMA Tracked ==
    ASSUME BInv, NEW w \in Workers, NEW m \in OutboundMessage \ {"ReapMe"}, Receive(w, m)
    PROVE  at[w] \notin {"unborn", "reaped"} /\ state[w] # "None"
<1>1. Has(out[w], m)
  BY Received, BooksOf, HasTail
<1>. QED BY <1>1, BooksOf, HasNothing DEF Books, Fit

LEMMA update_sandbox_idBooks ==
    ASSUME BInv, NEW w \in Workers, update_sandbox_id(w)
    PROVE  BInv'
<1>. USE DEF storeVars, timerVars, memVars, boxVars, ctlVars
<1>1. /\ Receive(w, "SandboxId")
      /\ sandbox_id' = [sandbox_id EXCEPT ![w] = w] /\ worker_by_sandbox' = [worker_by_sandbox EXCEPT ![w] = w]
      /\ UNCHANGED <<mode, state, fn, acct, timerVars, cpu, memVars, boxVars, ctlVars, inflight, at,
                     invoked, ctrl, box, exit, snapped, overtaken>>
  BY DEF update_sandbox_id
<1>2. /\ out[w] # <<>> /\ Head(out[w]) = "SandboxId"
      /\ out' \in [Workers -> Seq(OutboundMessage)] /\ out'[w] = Tail(out[w])
      /\ \A v \in Workers \ {w} : out'[v] = out[v]
  BY <1>1, Received
<1>3. Fit(state[w], at[w], op[w], ctrl[w], Tail(out[w]))
  BY <1>2, BooksOf, FitHears DEF Books
<1>4. /\ Owning(w, w, box[w], at[w], exit[w], ctrl[w], Tail(out[w]))
      /\ sandbox_id[w] = None /\ box[w] = w
  <2>1. /\ Fit(state[w], at[w], op[w], ctrl[w], out[w])
        /\ Owning(w, sandbox_id[w], box[w], at[w], exit[w], ctrl[w], out[w])
        /\ out[w] \in Seq(OutboundMessage)
    BY BooksOf DEF Books
  <2>2. Has(out[w], "SandboxId")
    BY <1>2, <2>1, HasTail
  <2>3. sandbox_id[w] = None /\ box[w] = w
    BY <2>1, <2>2 DEF Owning
  <2>4. Owning(w, w, box[w], at[w], exit[w], ctrl[w], Tail(out[w]))
    BY <1>2, <2>1, OwningHears
  <2>. QED BY <2>3, <2>4
<1>5. TypeOK'
  BY <1>1, <1>2 DEF BInv, TypeOK
<1>6. FitAt' /\ OwningAt'
  <2>1. \A v \in Workers \ {w} : Alike(v)
    BY <1>1, <1>2 DEF Alike, Keeps, BInv, TypeOK
  <2>2. Books(w)'
    BY <1>1, <1>2, <1>3, <1>4 DEF Books, BInv, TypeOK
  <2>. QED BY <2>1, <2>2, BooksKept DEF BInv
<1>7. SharedAt'
  BY <1>1, SharedKept DEF BInv
<1>8. IndexAt'
  <2>1. at[w] \notin {"unborn", "reaped"} /\ state[w] # "None"
    BY <1>1, Tracked DEF OutboundMessage
  <2>2. ASSUME NEW v \in Workers, sandbox_id[v] = w, state[v] # "None" PROVE v = w
    <3>1. box[v] = w /\ at[v] # "reaped"
      BY <2>2, BooksOf, PoolAssumption DEF Books, Fit, Owning
    <3>. QED BY <1>4, <2>1, <3>1 DEF BInv, SharedAt, Live
  <2>3. \A s \in Workers : worker_by_sandbox[s] # w
    BY <1>4, PoolAssumption DEF BInv, IndexAt
  <2>4. /\ \A v \in Workers : sandbox_id'[v] = IF v = w THEN w ELSE sandbox_id[v]
        /\ \A s \in Workers : worker_by_sandbox'[s] = IF s = w THEN w ELSE worker_by_sandbox[s]
    BY <1>1 DEF BInv, TypeOK
  <2>. QED BY <1>1, <2>1, <2>2, <2>3, <2>4 DEF BInv, IndexAt
<1>9. TimersAt'
  BY <1>1 DEF BInv, TimersAt, Idle
<1>10. ChargedAt'
  BY <1>1, ChargedKept DEF BInv
<1>. QED BY <1>5, <1>6, <1>7, <1>8, <1>9, <1>10 DEF BInv

\* A Worker is deactivated, or left as it is.
LEMMA Deactivated ==
    ASSUME BInv, NEW w \in Workers, NEW D,
           deactivate_worker(w, D) \/ UNCHANGED <<state, acct, inuse, reclaimed, timerVars, ctrl>>,
           UNCHANGED <<at, leaked>>, mode' = "running" => mode = "running"
    PROVE  /\ state' \in [Workers -> Lifecycle] /\ acct' \in [Workers -> {"InUse", "Reclaimed", "Uncharged"}]
           /\ inuse' \in Nat /\ reclaimed' \in Nat
           /\ timers' \subseteq Workers /\ armed' \subseteq timers' /\ late' \subseteq Workers /\ deadlines' \subseteq Workers
           /\ ctrl' \in [Workers -> Seq(ControlMessage)]
           /\ \A v \in Workers \ {w} : state'[v] = state[v] /\ ctrl'[v] = ctrl[v]
           /\ \/ state'[w] = state[w] /\ ctrl'[w] = ctrl[w]
              \/ state[w] = "Active" /\ state'[w] = "Idle" /\ ctrl'[w] = ctrl[w]
              \/ /\ state[w] = "Active" /\ state'[w] = "Dying"
                 /\ ctrl'[w] = IF at[w] # "finished" THEN Append(ctrl[w], "ShutDown") ELSE ctrl[w]
           /\ TimersAt' /\ ChargedAt'
<1>. USE DEF timerVars
<1>1. CASE UNCHANGED <<state, acct, inuse, reclaimed, timerVars, ctrl>>
  BY <1>1, ChargedKept DEF BInv, TypeOK, TimersAt, Idle
<1>2. CASE /\ state[w] = "Active" /\ state' = [state EXCEPT ![w] = "Idle"]
           /\ deadlines' = deadlines \cup {w} /\ rearm({}, {w})
           /\ UNCHANGED <<acct, inuse, reclaimed, ctrl>>
  <2>1. state' \in [Workers -> Lifecycle] /\ \A v \in Workers : state'[v] = IF v = w THEN "Idle" ELSE state[v]
    BY <1>2 DEF BInv, TypeOK, Lifecycle
  <2>2. timers' \subseteq Workers /\ armed' \subseteq timers' /\ late' \subseteq Workers
    BY <1>2, TimersValue DEF BInv
  <2>3. TimersAt'
    <3>1. Idle' = Idle \cup {w} /\ timers' = timers \cup {w}
      BY <1>2, <2>1 DEF Idle, rearm
    <3>. QED BY <1>2, <3>1 DEF BInv, TimersAt
  <2>4. ChargedAt'
    <3>1. \A v \in Workers : /\ state'[v] = "None" <=> state[v] = "None"
                             /\ state'[v] \in {"Idle", "Active"} => state[v] \in {"Idle", "Active"}
      BY <1>2, <2>1
    <3>. QED BY <1>2, <3>1, ChargedKept DEF BInv
  <2>. QED BY <1>2, <2>1, <2>2, <2>3, <2>4 DEF BInv, TypeOK
<1>3. CASE state[w] = "Active" /\ to_dying({w}) /\ ctrl' = Sent({w}, "ShutDown") /\ UNCHANGED <<timers, armed, late>>
  <2>1. {w} \subseteq Idle \cup Active
    BY <1>3 DEF Active
  <2>2. /\ state' \in [Workers -> Lifecycle] /\ acct' \in [Workers -> {"InUse", "Reclaimed", "Uncharged"}]
        /\ inuse' \in Nat /\ reclaimed' \in Nat /\ deadlines' \subseteq Workers
        /\ \A v \in Workers : state'[v] = IF v \in {w} THEN "Dying" ELSE state[v]
        /\ Idle' = Idle \ {w}
    BY <1>3, <2>1, DyingValue DEF BInv
  <2>3. /\ ctrl' \in [Workers -> Seq(ControlMessage)]
        /\ \A v \in Workers :
              ctrl'[v] = IF v \in {w} /\ at[v] # "finished" THEN Append(ctrl[v], "ShutDown") ELSE ctrl[v]
    <3>1. ctrl \in [Workers -> Seq(ControlMessage)] /\ "ShutDown" \in ControlMessage
      BY DEF BInv, TypeOK, ControlMessage
    <3>. QED BY <1>3, <3>1, SentValue
  <2>4. TimersAt'
    <3>1. w \notin Idle
      BY <1>3 DEF Idle
    <3>. QED BY <1>3, <2>2, <3>1 DEF BInv, TimersAt, to_dying
  <2>5. ChargedAt'
    BY <1>3, <2>1, DyingMemory DEF BInv
  <2>. QED BY <1>3, <2>2, <2>3, <2>4, <2>5 DEF BInv, TypeOK
<1>. QED BY <1>1, <1>2, <1>3 DEF deactivate_worker, worker_active_to_idle

\* The types of what a control-plane call, or its answer, touches.
LEMMA AnsweredValue ==
    ASSUME TypeOK, NEW K
    PROVE  /\ Answered(K) \in [Calls -> CallType]
           /\ \A c \in Calls : Answered(K)[c] = IF call[c] \in K THEN Done ELSE call[c]
  BY DEF TypeOK, Answered, CallType

\* The end of an invocation or of an operation: the Worker may be deactivated.
LEMMA HearsBooks ==
    ASSUME BInv, NEW w \in Workers, NEW m \in {"NeedWork", "Prepared", "PrepFailed", "Snapshotted"},
           Receive(w, m), NEW D,
           deactivate_worker(w, D) \/ UNCHANGED <<state, acct, inuse, reclaimed, timerVars, ctrl>>,
           UNCHANGED op \/ (m # "NeedWork" /\ op' = [op EXCEPT ![w] = None]),
           mode' \in {mode, "stopping"}, cpu' \subseteq cpu, paused' \subseteq paused,
           UNCHANGED call \/ \E K : call' = Answered(K),
           UNCHANGED <<fn, sandbox_id, worker_by_sandbox, leaked, boxVars, inflight, at, invoked, box, exit,
                       snapped, overtaken>>
    PROVE  BInv'
<1>. USE DEF boxVars
<1>1. /\ out[w] # <<>> /\ Head(out[w]) = m
      /\ out' \in [Workers -> Seq(OutboundMessage)] /\ out'[w] = Tail(out[w])
      /\ \A v \in Workers \ {w} : out'[v] = out[v]
  BY Received
<1>2. /\ state' \in [Workers -> Lifecycle] /\ acct' \in [Workers -> {"InUse", "Reclaimed", "Uncharged"}]
      /\ inuse' \in Nat /\ reclaimed' \in Nat
      /\ timers' \subseteq Workers /\ armed' \subseteq timers' /\ late' \subseteq Workers /\ deadlines' \subseteq Workers
      /\ ctrl' \in [Workers -> Seq(ControlMessage)]
      /\ \A v \in Workers \ {w} : state'[v] = state[v] /\ ctrl'[v] = ctrl[v]
      /\ \/ state'[w] = state[w] /\ ctrl'[w] = ctrl[w]
         \/ state[w] = "Active" /\ state'[w] = "Idle" /\ ctrl'[w] = ctrl[w]
         \/ /\ state[w] = "Active" /\ state'[w] = "Dying"
            /\ ctrl'[w] = IF at[w] # "finished" THEN Append(ctrl[w], "ShutDown") ELSE ctrl[w]
      /\ TimersAt' /\ ChargedAt'
  <2>1. mode' = "running" => mode = "running"
    BY DEF BInv, TypeOK
  <2>. QED BY <2>1, Deactivated
<1>3. /\ op' \in [Workers -> PendingControlOp \cup {None}]
      /\ op'[w] = op[w] \/ (m # "NeedWork" /\ op'[w] = None)
      /\ \A v \in Workers \ {w} : op'[v] = op[v]
  BY DEF BInv, TypeOK
<1>4. TypeOK'
  <2>1. call' \in [Calls -> CallType]
    BY AnsweredValue DEF BInv, TypeOK
  <2>. QED BY <1>1, <1>2, <1>3, <2>1 DEF BInv, TypeOK
<1>5. Books(w)'
  <2>1. /\ Fit(state[w], at[w], op[w], ctrl[w], out[w])
        /\ Owning(w, sandbox_id[w], box[w], at[w], exit[w], ctrl[w], out[w])
        /\ out[w] \in Seq(OutboundMessage) /\ ctrl[w] \in Seq(ControlMessage)
    BY BooksOf DEF Books
  <2>2. Fit(state[w], at[w], op'[w], ctrl[w], Tail(out[w]))
    <3>1. CASE op'[w] = op[w]
      BY <1>1, <2>1, <3>1, FitHears
    <3>2. CASE m # "NeedWork" /\ op'[w] = None
      <4>1. Fit(state[w], at[w], None, ctrl[w], Tail(out[w]))
        BY <1>1, <2>1, <3>2, FitEnds
      <4>. QED BY <3>2, <4>1
    <3>. QED BY <1>3, <3>1, <3>2
  <2>3. Owning(w, sandbox_id[w], box[w], at[w], exit[w], ctrl[w], Tail(out[w]))
    BY <1>1, <2>1, OwningHears
  <2>4. Fit(state'[w], at[w], op'[w], ctrl'[w], Tail(out[w]))
    <3>1. CASE state'[w] = state[w] /\ ctrl'[w] = ctrl[w]
      BY <2>2, <3>1
    <3>2. CASE state[w] = "Active" /\ state'[w] = "Idle" /\ ctrl'[w] = ctrl[w]
      <4>1. Fit("Idle", at[w], op'[w], ctrl[w], Tail(out[w]))
        BY <2>2, <3>2, FitWakes
      <4>. QED BY <3>2, <4>1
    <3>3. CASE /\ state[w] = "Active" /\ state'[w] = "Dying"
               /\ ctrl'[w] = IF at[w] # "finished" THEN Append(ctrl[w], "ShutDown") ELSE ctrl[w]
      <4>1. Fit("Dying", at[w], op'[w], ctrl'[w], Tail(out[w]))
        BY <2>1, <2>2, <3>3, FitDies
      <4>. QED BY <3>3, <4>1
    <3>. QED BY <1>2, <3>1, <3>2, <3>3
  <2>5. Owning(w, sandbox_id[w], box[w], at[w], exit[w], ctrl'[w], Tail(out[w]))
    <3>1. "ShutDown" \in ControlMessage \ {"CreateSnapshot"}
      BY DEF ControlMessage
    <3>. QED BY <1>2, <2>1, <2>3, <3>1, OwningOrdered
  <2>. QED BY <1>1, <2>4, <2>5 DEF Books
<1>6. FitAt' /\ OwningAt'
  <2>1. \A v \in Workers \ {w} : Alike(v)
    BY <1>1, <1>2, <1>3 DEF Alike, Keeps
  <2>. QED BY <1>5, <2>1, BooksKept DEF BInv
<1>7. SharedAt'
  BY SharedKept DEF BInv
<1>8. IndexAt'
  <2>1. \A v \in Workers : state'[v] = "None" <=> state[v] = "None"
    BY <1>2
  <2>. QED BY <2>1, IndexKept DEF BInv
<1>. QED BY <1>2, <1>4, <1>6, <1>7, <1>8 DEF BInv

LEMMA on_need_workBooks ==
    ASSUME BInv, NEW w \in Workers, on_need_work(w) \/ DrainNeedWork(w)
    PROVE  BInv'
<1>1. CASE on_need_work(w)
  BY <1>1, HearsBooks DEF on_need_work, ctlVars, cpuset_release
<1>2. CASE DrainNeedWork(w)
  BY <1>2, HearsBooks DEF DrainNeedWork, storeVars, memVars, timerVars, ctlVars, cpuset_release
<1>. QED BY <1>1, <1>2

LEMMA finalize_sandbox_preparationBooks ==
    ASSUME BInv, NEW w \in Workers, NEW m \in {"Prepared", "PrepFailed"},
           finalize_sandbox_preparation(w, m) \/ DrainPreparation(w, m)
    PROVE  BInv'
<1>1. CASE finalize_sandbox_preparation(w, m)
  BY <1>1, HearsBooks DEF finalize_sandbox_preparation, cpuset_release
<1>2. CASE DrainPreparation(w, m)
  BY <1>2, HearsBooks DEF DrainPreparation, storeVars, memVars, timerVars, cpuset_release
<1>. QED BY <1>1, <1>2

LEMMA finalize_snapshottingBooks ==
    ASSUME BInv, NEW w \in Workers, finalize_snapshotting(w) \/ DrainSnapshot(w)
    PROVE  BInv'
<1>1. CASE finalize_snapshotting(w)
  BY <1>1, HearsBooks DEF finalize_snapshotting
<1>2. CASE DrainSnapshot(w)
  BY <1>2, HearsBooks DEF DrainSnapshot, storeVars, memVars, timerVars
<1>. QED BY <1>1, <1>2

\* The ReapMe of a Worker that is not to be reaped.
LEMMA ReapIgnoredBooks ==
    ASSUME BInv, NEW w \in Workers, ReapIgnored(w)
    PROVE  BInv'
<1>. USE DEF poolVars, storeVars, timerVars, memVars, boxVars, ctlVars
<1>1. /\ Receive(w, "ReapMe")
      /\ UNCHANGED <<poolVars, at, invoked, ctrl, box, exit, snapped, overtaken>>
  BY DEF ReapIgnored
<1>2. /\ out[w] # <<>> /\ Head(out[w]) = "ReapMe"
      /\ out' \in [Workers -> Seq(OutboundMessage)] /\ out'[w] = Tail(out[w])
      /\ \A v \in Workers \ {w} : out'[v] = out[v]
  BY <1>1, Received
<1>3. TypeOK'
  BY <1>1, <1>2 DEF BInv, TypeOK
<1>4. Books(w)'
  <2>1. /\ Fit(state[w], at[w], op[w], ctrl[w], out[w])
        /\ Owning(w, sandbox_id[w], box[w], at[w], exit[w], ctrl[w], out[w])
        /\ out[w] \in Seq(OutboundMessage)
    BY BooksOf DEF Books
  <2>2. Fit(state[w], at[w], op[w], ctrl[w], Tail(out[w]))
    BY <1>2, <2>1, FitHears
  <2>3. Owning(w, sandbox_id[w], box[w], at[w], exit[w], ctrl[w], Tail(out[w]))
    BY <1>2, <2>1, OwningHears
  <2>. QED BY <1>1, <1>2, <2>2, <2>3 DEF Books
<1>5. FitAt' /\ OwningAt'
  <2>1. \A v \in Workers \ {w} : Alike(v)
    BY <1>1, <1>2 DEF Alike, Keeps
  <2>. QED BY <1>4, <2>1, BooksKept DEF BInv
<1>6. SharedAt'
  BY <1>1, SharedKept DEF BInv
<1>7. IndexAt'
  BY <1>1, IndexKept DEF BInv
<1>8. TimersAt'
  BY <1>1 DEF BInv, TimersAt, Idle
<1>9. ChargedAt'
  BY <1>1, ChargedKept DEF BInv
<1>. QED BY <1>3, <1>5, <1>6, <1>7, <1>8, <1>9 DEF BInv

\* The memory of a Worker that is reaped is freed, unless it stays charged.
LEMMA ReapedMemory ==
    ASSUME BInv, NEW w \in Workers, at[w] = "finished", state[w] # "None", ReapMemory(w),
           state' = [state EXCEPT ![w] = "None"], at' = [at EXCEPT ![w] = "reaped"], UNCHANGED <<mode, acct>>
    PROVE  inuse' \in Nat /\ reclaimed' \in Nat /\ leaked' \subseteq Workers /\ ChargedAt'
<1>1. /\ \A v \in Workers : state'[v] = IF v = w THEN "None" ELSE state[v]
      /\ \A v \in Workers : at'[v] = IF v = w THEN "reaped" ELSE at[v]
  BY DEF BInv, TypeOK
<1>2. w \notin leaked
  BY DEF BInv, ChargedAt
<1>3. Born' = Born
  BY <1>1 DEF Born
<1>4. \A v \in leaked' : at'[v] = "reaped"
  BY <1>1 DEF BInv, TypeOK, ChargedAt, ReapMemory
<1>5. inuse' \in Nat /\ reclaimed' \in Nat /\ leaked' \subseteq Workers
  <2>1. inuse \in Nat /\ reclaimed \in Nat /\ leaked \subseteq Workers
    BY DEF BInv, TypeOK
  <2>2. Less(inuse, 1) \in Nat /\ Less(reclaimed, 1) \in Nat
    BY <2>1, LessValue
  <2>. QED BY <2>1, <2>2 DEF ReapMemory
<1>6. MemoryExact'
  <2>. SUFFICES ASSUME mode' = "running" PROVE MemoryExact'
    BY DEF MemoryExact
  <2>. DEFINE U == Charged("InUse")
              R == Charged("Reclaimed")
  <2>1. /\ inuse = Cardinality(U) /\ reclaimed = Cardinality(R)
        /\ \A v \in Workers : state[v] \in {"Idle", "Active"} => acct[v] = "InUse"
    BY DEF BInv, ChargedAt, MemoryExact
  <2>2. \A v \in Workers : state'[v] \in {"Idle", "Active"} => acct'[v] = "InUse"
    BY <1>1, <2>1
  <2>3. w \in U <=> acct[w] = "InUse"
    BY DEF Charged
  <2>4. w \in R <=> acct[w] = "Reclaimed"
    BY DEF Charged
  <2>5. IsFiniteSet(U) /\ IsFiniteSet(R)
    <3>1. U \subseteq Born /\ R \subseteq Born
      BY Countable DEF BInv
    <3>. QED BY <3>1, FS_Subset DEF BInv, ChargedAt
  <2>6. CASE exit[w] \in {"Reusable", "Gone"}
    <3>1. leaked' = leaked
      BY <2>6 DEF ReapMemory
    <3>2. U' = U \ {w} /\ R' = R \ {w}
      BY <1>1, <1>2, <3>1 DEF Charged
    <3>. HIDE DEF U, R
    <3>3. /\ Cardinality(U \ {w}) = IF w \in U THEN Cardinality(U) - 1 ELSE Cardinality(U)
          /\ Cardinality(R \ {w}) = IF w \in R THEN Cardinality(R) - 1 ELSE Cardinality(R)
          /\ Cardinality(U) \in Nat /\ Cardinality(R) \in Nat
      BY <2>5, FS_RemoveElement, FS_CardinalityType
    <3>4. /\ w \in U => Cardinality(U) >= 1
          /\ w \in R => Cardinality(R) >= 1
      BY <2>5, <3>3, FS_CardinalityType, FS_EmptySet
    <3>5. inuse' = Cardinality(U \ {w}) /\ reclaimed' = Cardinality(R \ {w})
      <4>1. /\ inuse' = IF acct[w] = "InUse" THEN Less(inuse, 1) ELSE inuse
            /\ reclaimed' = IF acct[w] = "Reclaimed" THEN Less(reclaimed, 1) ELSE reclaimed
        BY <2>6 DEF ReapMemory
      <4>. QED BY <2>1, <2>3, <2>4, <3>3, <3>4, <4>1, LessValue
    <3>6. inuse' = Cardinality(U') /\ reclaimed' = Cardinality(R')
      BY <3>2, <3>5, Zenon
    <3>. QED BY <2>2, <3>6 DEF MemoryExact, U, R
  <2>7. CASE exit[w] \notin {"Reusable", "Gone"}
    <3>1. leaked' = leaked \cup {w} /\ inuse' = inuse /\ reclaimed' = reclaimed
      BY <2>7 DEF ReapMemory
    <3>2. U' = U /\ R' = R
      BY <1>1, <3>1 DEF Charged
    <3>. HIDE DEF U, R
    <3>3. inuse' = Cardinality(U') /\ reclaimed' = Cardinality(R')
      BY <2>1, <3>1, <3>2, Zenon
    <3>. QED BY <2>2, <3>3 DEF MemoryExact, U, R
  <2>. QED BY <2>6, <2>7
<1>. QED BY <1>3, <1>4, <1>5, <1>6 DEF BInv, ChargedAt

LEMMA reap_workerBooks ==
    ASSUME BInv, NEW w \in Workers, reap_worker(w)
    PROVE  BInv'
<1>. USE DEF boxVars
<1>1. /\ Receive(w, "ReapMe") /\ state[w] \in {"Active", "Dying"}
      /\ state' = [state EXCEPT ![w] = "None"] /\ at' = [at EXCEPT ![w] = "reaped"]
      /\ op' = [op EXCEPT ![w] = None] /\ deadlines' = deadlines \ {w}
      /\ worker_by_sandbox' = Put(worker_by_sandbox, {sandbox_id[w]}, None)
      /\ cpu' \subseteq cpu /\ paused' \subseteq paused /\ \E K : call' = Answered(K)
      /\ ReapMemory(w) /\ ReapSandbox(w)
      /\ UNCHANGED <<mode, fn, acct, sandbox_id, timers, armed, late, inflight, invoked, ctrl, box, exit, snapped, overtaken>>
  BY DEF reap_worker, EndControlOps, cpuset_release
<1>2. /\ out[w] # <<>> /\ Head(out[w]) = "ReapMe"
      /\ out' \in [Workers -> Seq(OutboundMessage)] /\ out'[w] = Tail(out[w])
      /\ \A v \in Workers \ {w} : out'[v] = out[v]
  BY <1>1, Received
<1>3. /\ Fit(state[w], at[w], op[w], ctrl[w], out[w])
      /\ Owning(w, sandbox_id[w], box[w], at[w], exit[w], ctrl[w], out[w])
      /\ out[w] \in Seq(OutboundMessage)
  BY BooksOf DEF Books
<1>4. at[w] = "finished" /\ Fit("None", "reaped", None, ctrl[w], Tail(out[w]))
  BY <1>1, <1>2, <1>3, FitReaped
<1>5. exit[w] \in {"Reusable", "Trashed"} => box[w] \in Workers
  BY <1>3 DEF Owning, BInv, TypeOK
<1>6. inuse' \in Nat /\ reclaimed' \in Nat /\ leaked' \subseteq Workers /\ ChargedAt'
  BY <1>1, <1>4, ReapedMemory
<1>7. TypeOK'
  <2>1. call' \in [Calls -> CallType]
    BY <1>1, AnsweredValue DEF BInv
  <2>2. worker_by_sandbox' \in [Workers -> Workers \cup {None}]
    BY <1>1 DEF BInv, TypeOK, Put
  <2>3. snapshots' \subseteq Workers /\ trashed' \subseteq Workers
    BY <1>1, <1>5 DEF BInv, TypeOK, ReapSandbox
  <2>4. state' \in [Workers -> Lifecycle] /\ at' \in [Workers -> Place]
        /\ op' \in [Workers -> PendingControlOp \cup {None}]
    BY <1>1 DEF BInv, TypeOK, Lifecycle, Place
  <2>. QED BY <1>1, <1>2, <1>6, <2>1, <2>2, <2>3, <2>4 DEF BInv, TypeOK
<1>8. /\ \A v \in Workers : state'[v] = IF v = w THEN "None" ELSE state[v]
      /\ \A v \in Workers : at'[v] = IF v = w THEN "reaped" ELSE at[v]
      /\ \A v \in Workers : op'[v] = IF v = w THEN None ELSE op[v]
  BY <1>1 DEF BInv, TypeOK
<1>9. FitAt' /\ OwningAt'
  <2>1. \A v \in Workers \ {w} : Alike(v)
    BY <1>1, <1>2, <1>8 DEF Alike, Keeps
  <2>2. Owning(w, sandbox_id[w], box[w], at[w], exit[w], ctrl[w], Tail(out[w]))
    BY <1>2, <1>3, OwningHears
  <2>3. Owning(w, sandbox_id[w], box[w], "reaped", exit[w], ctrl[w], Tail(out[w]))
    BY <1>4, <2>2, OwningReaped
  <2>4. Books(w)'
    BY <1>1, <1>2, <1>4, <1>8, <2>3 DEF Books
  <2>. QED BY <2>1, <2>4, BooksKept DEF BInv
<1>10. SharedAt'
  <2>1. \A s \in Workers : box[w] = s => Live(w, s) /\ s \notin snapshots \cup trashed
    BY <1>4 DEF BInv, SharedAt, Live
  <2>2. \A v, s \in Workers : Live(v, s)' <=> Live(v, s) /\ v # w
    BY <1>1, <1>8 DEF Live
  <2>3. /\ \A s \in snapshots' : s \in snapshots \/ (s = box[w] /\ exit[w] = "Reusable")
        /\ \A s \in trashed' : s \in trashed \/ (s = box[w] /\ exit[w] = "Trashed")
    BY <1>1 DEF ReapSandbox
  <2>. QED BY <1>1, <1>5, <2>1, <2>2, <2>3 DEF BInv, SharedAt
<1>11. IndexAt'
  <2>1. \A s \in Workers : worker_by_sandbox'[s] = IF s = sandbox_id[w] THEN None ELSE worker_by_sandbox[s]
    BY <1>1 DEF BInv, TypeOK, Put
  <2>2. \A s, v \in Workers : worker_by_sandbox[s] = v <=> sandbox_id[v] = s /\ state[v] # "None"
    BY DEF BInv, IndexAt
  <2>3. None \notin Workers /\ sandbox_id' = sandbox_id
    BY <1>1, PoolAssumption
  <2>4. ASSUME NEW s \in Workers, NEW v \in Workers
        PROVE  worker_by_sandbox'[s] = v <=> sandbox_id[v] = s /\ state'[v] # "None"
    <3>1. CASE s = sandbox_id[w]
      <4>1. worker_by_sandbox[s] = w
        BY <1>1, <2>2, <3>1
      <4>2. worker_by_sandbox'[s] # v
        BY <2>1, <2>3, <3>1
      <4>. QED BY <1>8, <2>2, <4>1, <4>2
    <3>2. CASE s # sandbox_id[w]
      BY <1>8, <2>1, <2>2, <3>2
    <3>. QED BY <3>1, <3>2
  <2>. QED BY <2>3, <2>4 DEF IndexAt
<1>12. TimersAt'
  <2>1. Idle' = Idle /\ w \notin Idle
    BY <1>1, <1>8 DEF Idle
  <2>. QED BY <1>1, <2>1 DEF BInv, TimersAt
<1>. QED BY <1>6, <1>7, <1>9, <1>10, <1>11, <1>12 DEF BInv

LEMMA MessageStepBooks ==
    ASSUME BInv, NEW w \in Workers, MessageStep(w)
    PROVE  BInv'
<1>1. CASE update_sandbox_id(w)
  BY <1>1, update_sandbox_idBooks
<1>2. CASE on_need_work(w) \/ DrainNeedWork(w)
  BY <1>2, on_need_workBooks
<1>3. CASE \E m \in {"Prepared", "PrepFailed"} : finalize_sandbox_preparation(w, m) \/ DrainPreparation(w, m)
  BY <1>3, finalize_sandbox_preparationBooks
<1>4. CASE finalize_snapshotting(w) \/ DrainSnapshot(w)
  BY <1>4, finalize_snapshottingBooks
<1>5. CASE reap_worker(w) \/ ReapIgnored(w)
  BY <1>5, reap_workerBooks, ReapIgnoredBooks
<1>. QED BY <1>1, <1>2, <1>3, <1>4, <1>5 DEF MessageStep

-----------------------------------------------------------------------------
(***************************************************************************)
(* The Pool shuts Workers down.                                            *)
(***************************************************************************)

\* The Workers of S are sent the order r.
LEMMA DyingBooks ==
    ASSUME BInv, NEW S, S \subseteq Idle \cup Active, to_dying(S),
           NEW r \in {"ShutDown", "DestroySandbox"}, ctrl' = Sent(S, r),
           timers' = timers \ S, armed' \subseteq timers', late' \subseteq Workers,
           mode' \in {"running", "stopping", "draining", "exited", "aborted"}, mode' = "running" => mode = "running",
           op' \in [Workers -> PendingControlOp \cup {None}],
           \A v \in Workers : op'[v] = op[v] \/ (v \in S /\ op[v] = None /\ op'[v] = "DestroySandbox"),
           call' \in [Calls -> CallType], snapshots' \subseteq snapshots,
           UNCHANGED <<fn, sandbox_id, worker_by_sandbox, cpu, leaked, trashed, paused, inflight, at, invoked,
                       out, box, exit, snapped, overtaken>>
    PROVE  BInv'
<1>1. /\ state' \in [Workers -> Lifecycle] /\ acct' \in [Workers -> {"InUse", "Reclaimed", "Uncharged"}]
      /\ inuse' \in Nat /\ reclaimed' \in Nat /\ deadlines' \subseteq Workers
      /\ \A v \in Workers : state'[v] = IF v \in S THEN "Dying" ELSE state[v]
      /\ Idle' = Idle \ S
      /\ \A v \in S : v \in Workers /\ state[v] \in {"Idle", "Active"} /\ at[v] \notin {"unborn", "reaped"}
  BY DyingValue DEF BInv
<1>2. /\ ctrl' \in [Workers -> Seq(ControlMessage)]
      /\ \A v \in Workers : ctrl'[v] = IF v \in S /\ at[v] # "finished" THEN Append(ctrl[v], r) ELSE ctrl[v]
  <2>1. ctrl \in [Workers -> Seq(ControlMessage)] /\ r \in ControlMessage
    BY DEF BInv, TypeOK, ControlMessage
  <2>. QED BY <2>1, SentValue
<1>3. TypeOK'
  BY <1>1, <1>2 DEF BInv, TypeOK
<1>4. \A v \in Workers : Alike(v) \/ Dies(v) \/ Books(v)'
  <2>1. ASSUME NEW v \in Workers, v \notin S PROVE Alike(v)
    BY <1>1, <1>2, <2>1 DEF Alike, Keeps
  <2>2. ASSUME NEW v \in S, op'[v] = op[v] PROVE Dies(v)
    <3>1. /\ state[v] \in {"Idle", "Active"} /\ state'[v] = "Dying"
          /\ ctrl'[v] = IF at[v] # "finished" THEN Append(ctrl[v], r) ELSE ctrl[v]
      BY <1>1, <1>2
    <3>. QED BY <2>2, <3>1 DEF Dies, Keeps
  <2>3. ASSUME NEW v \in S, op[v] = None, op'[v] = "DestroySandbox" PROVE Books(v)'
    <3>1. /\ Fit(state[v], at[v], None, ctrl[v], out[v])
          /\ Owning(v, sandbox_id[v], box[v], at[v], exit[v], ctrl[v], out[v])
          /\ ctrl[v] \in Seq(ControlMessage)
      BY <1>1, <2>3, BooksOf DEF Books
    <3>2. Fit("Dying", at[v], None, ctrl'[v], out[v])
      BY <1>1, <1>2, <3>1, FitDies
    <3>3. Fit("Dying", at[v], "DestroySandbox", ctrl'[v], out[v])
      BY <3>2, FitDestroys
    <3>4. /\ r \in ControlMessage /\ r # "CreateSnapshot"
          /\ ctrl'[v] = IF at[v] # "finished" THEN Append(ctrl[v], r) ELSE ctrl[v]
      BY <1>1, <1>2 DEF ControlMessage
    <3>5. Owning(v, sandbox_id[v], box[v], at[v], exit[v], ctrl'[v], out[v])
      BY <3>1, <3>4, OwningOrdered
    <3>. QED BY <1>1, <2>3, <3>3, <3>5 DEF Books
  <2>. QED BY <2>1, <2>2, <2>3
<1>5. FitAt' /\ OwningAt'
  BY <1>4, BooksKept DEF BInv
<1>6. SharedAt'
  BY DEF BInv, SharedAt, Live
<1>7. IndexAt'
  <2>1. \A v \in Workers : state'[v] = "None" <=> state[v] = "None"
    BY <1>1
  <2>. QED BY <2>1, IndexKept DEF BInv
<1>8. TimersAt'
  BY <1>1 DEF BInv, TimersAt, to_dying
<1>9. ChargedAt'
  BY DyingMemory DEF BInv
<1>. QED BY <1>3, <1>5, <1>6, <1>7, <1>8, <1>9 DEF BInv

LEMMA KeepAliveTimeoutBooks ==
    ASSUME BInv, NEW w \in Workers, NEW stale \in BOOLEAN, KeepAliveTimeout(w, stale)
    PROVE  BInv'
<1>. USE DEF boxVars, ctlVars, timerVars, storeVars, memVars
<1>1. CASE w \in timers
  <2>1. /\ to_dying({w}) /\ timers' = timers \ {w} /\ armed' = armed \ {w}
        /\ late' \in {late, late \ {w}} /\ ctrl' = Sent({w}, "ShutDown")
        /\ UNCHANGED <<mode, fn, sandbox_id, worker_by_sandbox, cpu, leaked, boxVars, ctlVars, inflight,
                       at, invoked, out, box, exit, snapped, overtaken>>
    BY <1>1 DEF KeepAliveTimeout
  <2>2. {w} \subseteq Idle \cup Active
    BY <1>1 DEF BInv, TimersAt
  <2>3. /\ mode' \in {"running", "stopping", "draining", "exited", "aborted"}
        /\ op' \in [Workers -> PendingControlOp \cup {None}] /\ call' \in [Calls -> CallType]
        /\ armed' \subseteq timers' /\ late' \subseteq Workers
    BY <2>1 DEF BInv, TypeOK
  <2>. QED BY <2>1, <2>2, <2>3, DyingBooks
<1>2. CASE w \notin timers
  <2>1. late' = late \ {w} /\ deadlines' = deadlines
    BY <1>2 DEF KeepAliveTimeout, BInv, TimersAt
  <2>2. UNCHANGED <<mode, state, fn, acct, sandbox_id, worker_by_sandbox, timers, armed, cpu, memVars, boxVars,
                    ctlVars, inflight, workerVars>>
    BY <1>2 DEF KeepAliveTimeout, workerVars
  <2>3. TypeOK'
    BY <2>1, <2>2 DEF BInv, TypeOK, workerVars
  <2>4. FitAt' /\ OwningAt'
    BY <2>2 DEF BInv, FitAt, OwningAt, workerVars
  <2>5. SharedAt' /\ IndexAt' /\ TimersAt'
    BY <2>1, <2>2, SharedKept, IndexKept DEF BInv, TimersAt, Idle, workerVars
  <2>6. ChargedAt'
    BY <2>2, ChargedKept DEF BInv, workerVars
  <2>. QED BY <2>3, <2>4, <2>5, <2>6 DEF BInv
<1>. QED BY <1>1, <1>2

LEMMA DispatchDeniedBooks ==
    ASSUME BInv, NEW f, NEW E \in SUBSET Idle, DispatchDenied(f, E)
    PROVE  BInv'
<1>. USE DEF boxVars, ctlVars
<1>1. /\ to_dying(E) /\ rearm(E, {}) /\ ctrl' = Sent(E, "ShutDown")
      /\ UNCHANGED <<mode, fn, sandbox_id, worker_by_sandbox, cpu, leaked, boxVars, ctlVars, inflight,
                     at, invoked, out, box, exit, snapped, overtaken>>
  BY DEF DispatchDenied, EvictOnly
<1>2. timers' = timers \ E /\ armed' \subseteq timers' /\ late' \subseteq Workers
  <2>1. timers' = timers \ E
    BY <1>1 DEF rearm
  <2>2. armed' \subseteq timers' /\ late' \subseteq Workers
    BY <1>1, TimersValue DEF BInv
  <2>. QED BY <2>1, <2>2
<1>3. /\ mode' \in {"running", "stopping", "draining", "exited", "aborted"}
      /\ op' \in [Workers -> PendingControlOp \cup {None}] /\ call' \in [Calls -> CallType]
  BY <1>1 DEF BInv, TypeOK
<1>. QED BY <1>1, <1>2, <1>3, DyingBooks

LEMMA RequestPrepOutOfMemoryBooks ==
    ASSUME BInv, NEW c \in Calls, NEW f, NEW s, NEW E \in SUBSET Idle, RequestPrepOutOfMemory(c, f, s, E)
    PROVE  BInv'
<1>1. /\ to_dying(E) /\ rearm(E, {}) /\ ctrl' = Sent(E, "ShutDown") /\ snapshots' = snapshots \ {s}
      /\ call' = [call EXCEPT ![c] = Done]
      /\ UNCHANGED <<mode, fn, sandbox_id, worker_by_sandbox, cpu, leaked, trashed, op, paused, inflight,
                     at, invoked, out, box, exit, snapped, overtaken>>
  BY DEF RequestPrepOutOfMemory, EvictOnly
<1>2. timers' = timers \ E /\ armed' \subseteq timers' /\ late' \subseteq Workers
  <2>1. timers' = timers \ E
    BY <1>1 DEF rearm
  <2>2. armed' \subseteq timers' /\ late' \subseteq Workers
    BY <1>1, TimersValue DEF BInv
  <2>. QED BY <2>1, <2>2
<1>3. /\ mode' \in {"running", "stopping", "draining", "exited", "aborted"}
      /\ op' \in [Workers -> PendingControlOp \cup {None}] /\ call' \in [Calls -> CallType]
  BY <1>1 DEF BInv, TypeOK, CallType
<1>. QED BY <1>1, <1>2, <1>3, DyingBooks

LEMMA RequestDestroyLiveBooks ==
    ASSUME BInv, NEW c \in Calls, NEW s \in Workers, NEW remove \in BOOLEAN, NEW heard \in BOOLEAN,
           RequestDestroyLive(c, s, remove, heard)
    PROVE  BInv'
<1>. DEFINE w == worker_by_sandbox[s]
            r == IF remove THEN "DestroySandbox" ELSE "ShutDown"
<1>1. /\ w # None /\ op[w] = None /\ w \in Idle \cup Active
      /\ to_dying({w}) /\ rearm({w} \cap Idle, {}) /\ ctrl' = Sent({w}, r)
      /\ op' = IF heard THEN [op EXCEPT ![w] = "DestroySandbox"] ELSE op
      /\ call' = [call EXCEPT ![c] = IF heard THEN Waiting("DestroySandbox", w) ELSE Done]
      /\ UNCHANGED <<mode, fn, sandbox_id, worker_by_sandbox, cpu, leaked, boxVars, paused, inflight,
                     at, invoked, out, box, exit, snapped, overtaken>>
  BY DEF RequestDestroyLive, Started, destroy_live_worker
<1>2. w \in Workers
  BY <1>1 DEF Idle, Active
<1>. HIDE DEF w
<1>3. timers' = timers \ {w} /\ armed' \subseteq timers' /\ late' \subseteq Workers
  <2>1. armed' \subseteq timers' /\ late' \subseteq Workers
    BY <1>1, TimersValue DEF BInv
  <2>2. timers' = timers \ ({w} \cap Idle)
    BY <1>1 DEF rearm
  <2>. QED BY <2>1, <2>2 DEF BInv, TimersAt
<1>4. /\ mode' \in {"running", "stopping", "draining", "exited", "aborted"}
      /\ op' \in [Workers -> PendingControlOp \cup {None}] /\ call' \in [Calls -> CallType]
      /\ \A v \in Workers : op'[v] = op[v] \/ (v \in {w} /\ op[v] = None /\ op'[v] = "DestroySandbox")
  BY <1>1, <1>2 DEF BInv, TypeOK, CallType, Waiting, PendingControlOp
<1>5. r \in {"ShutDown", "DestroySandbox"} /\ {w} \subseteq Idle \cup Active
  BY <1>1
<1>. HIDE DEF r
<1>. QED BY <1>1, <1>3, <1>4, <1>5, DyingBooks DEF boxVars

LEMMA BeginShutdownBooks ==
    ASSUME BInv, BeginShutdown
    PROVE  BInv'
<1>. USE DEF boxVars, ctlVars
<1>. DEFINE S == Idle \cup Active
<1>1. (Idle \cap timers) \cup Active = S /\ Idle \cap timers = Idle
  BY DEF BInv, TimersAt
<1>2. /\ to_dying(S) /\ ctrl' = Sent(S, "ShutDown") /\ mode' = "draining"
      /\ timers' = timers \ Idle /\ armed' = armed \ Idle
      /\ UNCHANGED <<late, fn, sandbox_id, worker_by_sandbox, cpu, leaked, boxVars, ctlVars, inflight,
                     at, invoked, out, box, exit, snapped, overtaken>>
  <2>1. ASSUME NEW D, NEW I, I = Idle, D = S, to_dying(D) /\ ctrl' = Sent(D, "ShutDown"),
               timers' = timers \ I /\ armed' = armed \ I
        PROVE  /\ to_dying(S) /\ ctrl' = Sent(S, "ShutDown")
               /\ timers' = timers \ Idle /\ armed' = armed \ Idle
    BY <2>1
  <2>. QED BY <1>1, <2>1 DEF BeginShutdown
<1>3. timers' = timers \ S /\ armed' \subseteq timers' /\ late' \subseteq Workers
  <2>1. armed' \subseteq timers' /\ late' \subseteq Workers
    BY <1>2 DEF BInv, TypeOK, TimersAt
  <2>2. timers' = timers \ Idle
    BY <1>2
  <2>3. Active \cap Idle = {}
    BY DEF Idle, Active
  <2>. QED BY <2>1, <2>2, <2>3 DEF BInv, TimersAt
<1>4. op' \in [Workers -> PendingControlOp \cup {None}] /\ call' \in [Calls -> CallType]
  BY <1>2 DEF BInv, TypeOK
<1>. HIDE DEF S
<1>5. S \subseteq Idle \cup Active
  BY DEF S
<1>. QED BY <1>2, <1>3, <1>4, <1>5, DyingBooks

-----------------------------------------------------------------------------
(***************************************************************************)
(* Dispatching, calls and new Workers.                                     *)
(***************************************************************************)

\* Neither the Workers nor what the Pool says of them change; orphan snapshots may be dropped.
LEMMA QuietBooks ==
    ASSUME BInv, TypeOK',
           UNCHANGED <<state, sandbox_id, worker_by_sandbox, at, ctrl, out, op, box, exit, leaked, timers, deadlines>>,
           snapshots' \subseteq snapshots, trashed' \subseteq trashed \cup (snapshots \ snapshots'),
           mode' = "running" => mode = "running" /\ UNCHANGED <<acct, inuse, reclaimed>>
    PROVE  BInv'
<1>1. FitAt' /\ OwningAt'
  BY DEF BInv, FitAt, OwningAt
<1>2. SharedAt'
  BY DEF BInv, SharedAt, Live
<1>3. IndexAt' /\ TimersAt'
  BY IndexKept DEF BInv, TimersAt, Idle
<1>4. ChargedAt'
  BY ChargedKept DEF BInv
<1>. QED BY <1>1, <1>2, <1>3, <1>4 DEF BInv

LEMMA timer_runBooks ==
    ASSUME BInv, NEW w \in Workers, timer_run(w)
    PROVE  BInv'
<1>. USE DEF timer_run, storeVars, memVars, boxVars, ctlVars, workerVars
<1>1. TypeOK'
  BY DEF BInv, TypeOK
<1>. QED BY <1>1, QuietBooks

LEMMA ForwardBooks ==
    ASSUME BInv, NEW w \in Workers, Forward(w)
    PROVE  BInv'
<1>. USE DEF Forward, storeVars, timerVars, memVars, boxVars, ctlVars
<1>1. TypeOK'
  BY DEF BInv, TypeOK
<1>. QED BY <1>1, QuietBooks

LEMMA LeaveLoopBooks ==
    ASSUME BInv, LeaveLoop
    PROVE  BInv'
<1>. USE DEF LeaveLoop, storeVars, timerVars, memVars, boxVars, ctlVars, workerVars
<1>1. TypeOK'
  BY DEF BInv, TypeOK
<1>. QED BY <1>1, QuietBooks

LEMMA DispatchAbortsBooks ==
    ASSUME BInv, NEW f, NEW w, DispatchAborts(f, w)
    PROVE  BInv'
<1>. USE DEF DispatchAborts, storeVars, timerVars, memVars, boxVars, ctlVars, workerVars
<1>1. TypeOK'
  BY DEF BInv, TypeOK
<1>. QED BY <1>1, QuietBooks

LEMMA FinishShutdownBooks ==
    ASSUME BInv, FinishShutdown
    PROVE  BInv'
<1>. USE DEF storeVars, timerVars, memVars, workerVars
<1>1. /\ mode' = "exited" /\ call' = [c \in Calls |-> Done]
      /\ snapshots' \subseteq snapshots /\ trashed' \subseteq trashed \cup (snapshots \ snapshots')
      /\ UNCHANGED <<storeVars, timerVars, cpu, memVars, op, paused, inflight, workerVars>>
  BY DEF FinishShutdown
<1>2. TypeOK'
  BY <1>1 DEF BInv, TypeOK, CallType
<1>. QED BY <1>1, <1>2, QuietBooks

LEMMA RequestRefusedBooks ==
    ASSUME BInv, NEW c \in Calls, RequestRefused(c)
    PROVE  BInv'
<1>. USE DEF RequestRefused, storeVars, timerVars, memVars, boxVars, workerVars
<1>1. TypeOK'
  BY DEF BInv, TypeOK, CallType
<1>. QED BY <1>1, QuietBooks

LEMMA RequestJoinsBooks ==
    ASSUME BInv, NEW c \in Calls, NEW s \in Workers, NEW o \in {"DestroySandbox", "Snapshot"}, RequestJoins(c, s, o)
    PROVE  BInv'
<1>. USE DEF storeVars, timerVars, memVars, boxVars, workerVars
<1>. DEFINE x == IF o = "Snapshot" THEN s ELSE worker_by_sandbox[s]
<1>1. /\ call' = [call EXCEPT ![c] = Waiting(o, x)] /\ worker_by_sandbox[s] # None
      /\ UNCHANGED <<mode, storeVars, timerVars, cpu, memVars, boxVars, op, paused, inflight, workerVars>>
  BY DEF RequestJoins
<1>2. x \in Workers
  BY <1>1 DEF BInv, TypeOK
<1>. HIDE DEF x
<1>3. Waiting(o, x) \in CallType
  BY <1>2 DEF Waiting, CallType, PendingControlOp
<1>4. TypeOK'
  BY <1>1, <1>3 DEF BInv, TypeOK
<1>. QED BY <1>1, <1>4, QuietBooks

LEMMA StutterBooks ==
    ASSUME BInv, UNCHANGED vars
    PROVE  BInv'
<1>. USE DEF vars, poolVars, storeVars, timerVars, memVars, boxVars, ctlVars, workerVars
<1>1. TypeOK'
  BY DEF BInv, TypeOK
<1>. QED BY <1>1, QuietBooks

\* w is, or becomes, Active.
LEMMA WakesBooks ==
    ASSUME BInv, TypeOK', NEW w \in Idle \cup Active, state' = [state EXCEPT ![w] = "Active"],
           timers' = timers \ {w}, deadlines' = deadlines \ {w}, Books(w)',
           \A v \in Workers \ {w} : op'[v] = op[v] /\ ctrl'[v] = ctrl[v],
           UNCHANGED <<mode, acct, sandbox_id, worker_by_sandbox, inuse, reclaimed, leaked, boxVars, at, out,
                       box, exit>>
    PROVE  BInv'
<1>1. \A v \in Workers : state'[v] = IF v = w THEN "Active" ELSE state[v]
  BY DEF BInv, TypeOK
<1>2. FitAt' /\ OwningAt'
  <2>1. \A v \in Workers \ {w} : Alike(v)
    BY <1>1 DEF Alike, Keeps
  <2>. QED BY <2>1, BooksKept DEF BInv
<1>3. SharedAt'
  BY SharedKept DEF BInv
<1>4. state[w] \in {"Idle", "Active"}
  BY DEF Idle, Active
<1>5. IndexAt'
  BY <1>1, <1>4, IndexKept DEF BInv
<1>6. TimersAt'
  <2>1. Idle' = Idle \ {w}
    BY <1>1 DEF Idle
  <2>. QED BY <2>1 DEF BInv, TimersAt
<1>7. ChargedAt'
  BY <1>1, <1>4, ChargedKept DEF BInv
<1>. QED BY <1>2, <1>3, <1>5, <1>6, <1>7 DEF BInv

LEMMA DispatchIdleBooks ==
    ASSUME BInv, NEW f, NEW w \in Workers, NEW answered \in BOOLEAN, DispatchIdle(f, w, answered)
    PROVE  BInv'
<1>. USE DEF storeVars, timerVars, memVars, ctlVars, workerVars
<1>1. /\ w \in Idle /\ mode = "running"
      /\ UNCHANGED <<fn, acct, sandbox_id, worker_by_sandbox, reclaimed, leaked, boxVars, ctlVars, workerVars>>
  BY DEF DispatchIdle, pick_idle_worker, Dispatching
<1>2. CASE answered
  <2>1. /\ state' = [state EXCEPT ![w] = "Active"] /\ deadlines' = deadlines \ {w} /\ rearm({w}, {})
        /\ inuse' = inuse /\ mode' = mode /\ inflight' = w /\ cpu' = cpu \cup {w}
    BY <1>2 DEF DispatchIdle, Reply, cpuset_alloc
  <2>2. timers' = timers \ {w}
    BY <2>1 DEF rearm
  <2>3. armed' \subseteq timers' /\ late' \subseteq Workers
    BY <2>1, TimersValue DEF BInv
  <2>4. TypeOK'
    BY <1>1, <2>1, <2>2, <2>3 DEF BInv, TypeOK, Lifecycle, boxVars
  <2>5. Books(w)'
    <3>1. Books(w) /\ state[w] = "Idle" /\ state'[w] = "Active"
      BY <1>1, <2>1, BooksOf DEF Idle, BInv, TypeOK
    <3>2. Fit("Active", at[w], op[w], ctrl[w], out[w])
      BY <3>1, FitWakes DEF Books
    <3>. QED BY <1>1, <3>1, <3>2 DEF Books
  <2>. QED BY <1>1, <2>1, <2>2, <2>4, <2>5, WakesBooks
<1>3. CASE ~answered
  <2>1. /\ inuse' = Less(inuse, 1) /\ rearm({w}, {w}) /\ UNCHANGED <<state, deadlines>>
        /\ mode' = "stopping" /\ inflight' = None /\ cpu' = cpu \ {w}
    BY <1>3 DEF DispatchIdle, Reply, cpuset_release
  <2>2. timers' = timers
    BY <1>1, <2>1 DEF rearm, BInv, TimersAt
  <2>3. armed' \subseteq timers' /\ late' \subseteq Workers
    BY <2>1, TimersValue DEF BInv
  <2>4. inuse' \in Nat
    BY <2>1, LessValue DEF BInv, TypeOK
  <2>5. TypeOK'
    BY <1>1, <2>1, <2>2, <2>3, <2>4 DEF BInv, TypeOK, boxVars
  <2>. QED BY <1>1, <2>1, <2>2, <2>5, QuietBooks DEF boxVars
<1>. QED BY <1>2, <1>3

LEMMA RequestSnapshotBooks ==
    ASSUME BInv, NEW c \in Calls, NEW s \in Workers, NEW heard \in BOOLEAN, RequestSnapshot(c, s, heard)
    PROVE  BInv'
<1>0. PICK w : w = worker_by_sandbox[s]
  OBVIOUS
<1>1. /\ w # None /\ op[w] = None /\ w \in Idle \cup Active /\ (heard \/ at[w] = "finished")
      /\ rearm({w}, {}) /\ state' = [state EXCEPT ![w] = "Active"] /\ deadlines' = deadlines \ {w}
      /\ paused' \subseteq paused \cup {s} /\ ctrl' = Sent({w}, "CreateSnapshot")
      /\ op' = IF heard THEN [op EXCEPT ![w] = "Snapshot"] ELSE op
      /\ call' = [call EXCEPT ![c] = IF heard THEN Waiting("Snapshot", s) ELSE Done]
      /\ UNCHANGED <<mode, fn, acct, sandbox_id, worker_by_sandbox, cpu, memVars, boxVars, inflight, at,
                     invoked, out, box, exit, snapped, overtaken>>
  BY <1>0 DEF RequestSnapshot, Started, MayBeHeard
<1>2. w \in Workers /\ sandbox_id[w] = s
  BY <1>0, <1>1 DEF BInv, IndexAt, Idle, Active
<1>3. timers' = timers \ {w}
  BY <1>1 DEF rearm
<1>4. armed' \subseteq timers' /\ late' \subseteq Workers
  BY <1>1, TimersValue DEF BInv
<1>5. /\ ctrl' \in [Workers -> Seq(ControlMessage)]
      /\ \A v \in Workers : ctrl'[v] = IF v \in {w} /\ at[v] # "finished" THEN Append(ctrl[v], "CreateSnapshot") ELSE ctrl[v]
  <2>1. ctrl \in [Workers -> Seq(ControlMessage)] /\ "CreateSnapshot" \in ControlMessage
    BY DEF BInv, TypeOK, ControlMessage
  <2>. QED BY <1>1, <2>1, SentValue
<1>6. call' \in [Calls -> CallType] /\ op' \in [Workers -> PendingControlOp \cup {None}]
  BY <1>1 DEF BInv, TypeOK, CallType, Waiting, PendingControlOp
<1>7. TypeOK'
  BY <1>1, <1>3, <1>4, <1>5, <1>6 DEF BInv, TypeOK, Lifecycle, memVars, boxVars
<1>8. /\ state'[w] = "Active" /\ state[w] \in {"Idle", "Active"}
      /\ op'[w] = IF heard THEN "Snapshot" ELSE None
      /\ ctrl'[w] = IF at[w] # "finished" THEN Append(ctrl[w], "CreateSnapshot") ELSE ctrl[w]
      /\ \A v \in Workers \ {w} : op'[v] = op[v] /\ ctrl'[v] = ctrl[v]
  BY <1>1, <1>2, <1>5 DEF BInv, TypeOK, Idle, Active
<1>9. Books(w)'
  <2>1. /\ Fit(state[w], at[w], None, ctrl[w], out[w])
        /\ Owning(w, s, box[w], at[w], exit[w], ctrl[w], out[w])
        /\ ctrl[w] \in Seq(ControlMessage)
    <3>1. Books(w) /\ ctrl[w] \in Seq(ControlMessage)
      BY <1>2, BooksOf
    <3>. QED BY <1>1, <1>2, <3>1 DEF Books
  <2>2. Fit("Active", at[w], op'[w], ctrl'[w], out[w])
    <3>1. CASE heard
      <4>1. Fit("Active", at[w], "Snapshot", ctrl'[w], out[w])
        BY <1>8, <2>1, FitSnaps
      <4>. QED BY <1>8, <3>1, <4>1
    <3>2. CASE ~heard
      <4>1. op'[w] = None /\ ctrl'[w] = ctrl[w]
        BY <1>1, <1>8, <3>2
      <4>. QED BY <1>8, <2>1, <4>1, FitWakes
    <3>. QED BY <3>1, <3>2
  <2>3. Owning(w, s, box[w], at[w], exit[w], ctrl'[w], out[w])
    <3>1. "CreateSnapshot" \in ControlMessage /\ s # None
      BY PoolAssumption DEF ControlMessage
    <3>. QED BY <1>8, <2>1, <3>1, OwningOrdered
  <2>. QED BY <1>1, <1>2, <1>8, <2>2, <2>3 DEF Books
<1>. QED BY <1>1, <1>3, <1>7, <1>8, <1>9, WakesBooks DEF memVars

LEMMA RequestDestroyDyingBooks ==
    ASSUME BInv, NEW c \in Calls, NEW s \in Workers, RequestDestroyDying(c, s)
    PROVE  BInv'
<1>. USE DEF storeVars, timerVars, memVars, workerVars
<1>0. PICK w : w = worker_by_sandbox[s]
  OBVIOUS
<1>1. /\ w # None /\ op[w] = None /\ state[w] = "Dying"
      /\ op' = [op EXCEPT ![w] = "DestroySandbox"]
      /\ call' = [call EXCEPT ![c] = Waiting("DestroySandbox", w)]
      /\ UNCHANGED <<mode, storeVars, timerVars, cpu, memVars, boxVars, paused, inflight, workerVars>>
  BY <1>0 DEF RequestDestroyDying, Started
<1>2. w \in Workers
  BY <1>0, <1>1 DEF BInv, TypeOK
<1>3. call' \in [Calls -> CallType] /\ op' \in [Workers -> PendingControlOp \cup {None}]
  BY <1>1, <1>2 DEF BInv, TypeOK, CallType, Waiting, PendingControlOp
<1>4. TypeOK'
  BY <1>1, <1>3 DEF BInv, TypeOK, boxVars
<1>5. FitAt' /\ OwningAt'
  <2>1. \A v \in Workers \ {w} : Alike(v)
    BY <1>1 DEF Alike, Keeps, BInv, TypeOK
  <2>2. /\ Fit(state[w], at[w], None, ctrl[w], out[w])
        /\ Owning(w, sandbox_id[w], box[w], at[w], exit[w], ctrl[w], out[w])
    <3>1. Books(w)
      BY <1>2, BooksOf
    <3>. QED BY <1>1, <3>1 DEF Books
  <2>3. Fit(state[w], at[w], "DestroySandbox", ctrl[w], out[w])
    BY <1>1, <2>2, FitDestroys
  <2>4. op'[w] = "DestroySandbox"
    BY <1>1, <1>2 DEF BInv, TypeOK
  <2>5. Books(w)'
    BY <1>1, <2>2, <2>3, <2>4 DEF Books
  <2>. QED BY <2>1, <2>5, BooksKept DEF BInv
<1>6. SharedAt' /\ IndexAt' /\ TimersAt'
  BY <1>1, SharedKept, IndexKept DEF BInv, TimersAt, Idle
<1>7. ChargedAt'
  BY <1>1, ChargedKept DEF BInv
<1>. QED BY <1>4, <1>5, <1>6, <1>7 DEF BInv

\* A Worker is spawned around s, while the Workers of E are evicted.
LEMMA SpawnBooks ==
    ASSUME BInv, TypeOK', ChargedAt', NEW w \in Workers, NEW s \in snapshots \cup {None}, NEW f,
           NEW place \in {"starting", "finished"}, NEW E \in SUBSET Idle, NEW ns \in {"Active", "Idle", "Dying"},
           Spawn(w, f, s, place), UNCHANGED trashed,
           \A v \in Workers : state'[v] = IF v = w THEN ns ELSE IF v \in E THEN "Dying" ELSE state[v],
           \A v \in Workers \ {w} : /\ op'[v] = op[v] /\ out'[v] = out[v] /\ exit'[v] = exit[v]
                                    /\ ctrl'[v] = Sent(E, "ShutDown")[v],
           Fit(ns, place, op'[w], ctrl'[w], out'[w]), Owning(w, s, s, place, exit'[w], ctrl'[w], out'[w]),
           timers' = (timers \ E) \cup (IF ns = "Idle" THEN {w} ELSE {}),
           deadlines' = (deadlines \ E) \cup (IF ns = "Idle" THEN {w} ELSE {})
    PROVE  BInv'
<1>1. /\ at[w] = "unborn"
      /\ \A v \in Workers : /\ at'[v] = IF v = w THEN place ELSE at[v]
                            /\ box'[v] = IF v = w THEN s ELSE box[v]
                            /\ sandbox_id'[v] = IF v = w THEN s ELSE sandbox_id[v]
      /\ \A t \in Workers : worker_by_sandbox'[t] = IF t = s THEN w ELSE worker_by_sandbox[t]
      /\ snapshots' = snapshots \ {s}
  BY DEF Spawn, BInv, TypeOK, Put
<1>2. state[w] = "None" /\ w \notin Idle /\ w \notin E /\ box[w] = None /\ sandbox_id[w] = None
  BY <1>1, BooksOf DEF Books, Fit, Owning, Idle
<1>3. FitAt' /\ OwningAt'
  <2>1. ASSUME NEW v \in Workers \ {w}, v \notin E PROVE Alike(v)
    <3>1. ctrl'[v] = ctrl[v] /\ state'[v] = state[v]
      BY <2>1 DEF Sent
    <3>. QED BY <1>1, <3>1 DEF Alike, Keeps
  <2>2. ASSUME NEW v \in Workers \ {w}, v \in E PROVE Dies(v)
    <3>1. state[v] = "Idle" /\ state'[v] = "Dying"
      BY <2>2 DEF Idle
    <3>2. ctrl'[v] = IF at[v] # "finished" THEN Append(ctrl[v], "ShutDown") ELSE ctrl[v]
      BY <2>2 DEF Sent
    <3>. QED BY <1>1, <3>1, <3>2 DEF Dies, Keeps
  <2>3. Books(w)'
    BY <1>1 DEF Books
  <2>4. \A v \in Workers : Alike(v) \/ Dies(v) \/ Books(v)'
    BY <2>1, <2>2, <2>3
  <2>. QED BY <2>4, BooksKept DEF BInv
<1>4. None \notin Workers
  BY PoolAssumption
<1>5. SharedAt'
  <2>1. s # None => box[s] = s /\ s \notin trashed /\ \A v \in Workers : ~Live(v, s)
    BY DEF BInv, SharedAt, TypeOK
  <2>2. \A v \in Workers : box[v] # w
    BY <1>2, <1>4 DEF BInv, SharedAt
  <2>3. \A v, t \in Workers : Live(v, t)' <=> IF v = w THEN t = s ELSE Live(v, t)
    BY <1>1 DEF Live
  <2>4. \A t \in snapshots' \cup trashed' : t \in Workers /\ t # s /\ t \in snapshots \cup trashed /\ t # w
    <3>1. w \notin snapshots \cup trashed
      BY <1>2, <1>4 DEF BInv, SharedAt
    <3>2. snapshots \subseteq Workers /\ trashed \subseteq Workers
      BY DEF BInv, TypeOK
    <3>3. \A t \in trashed : t # s
      BY <1>4, <2>1, <3>2
    <3>4. \A t \in snapshots' : t # s /\ t \in snapshots
      BY <1>1
    <3>. QED BY <3>1, <3>2, <3>3, <3>4
  <2>5. \A t \in Workers : t \in snapshots' \cup trashed' => box'[t] = t /\ \A v \in Workers : ~Live(v, t)'
    BY <1>1, <2>3, <2>4 DEF BInv, SharedAt
  <2>6. \A t \in Workers : t \notin snapshots' \cap trashed'
    BY <1>1 DEF BInv, SharedAt
  <2>7. \A v, t \in Workers : box'[v] = t => box'[t] = t
    <3>. SUFFICES ASSUME NEW v \in Workers, NEW t \in Workers, box'[v] = t PROVE box'[t] = t
      OBVIOUS
    <3>1. t # w
      <4>1. s # w
        BY <1>2, <1>4, <2>1
      <4>. QED BY <1>1, <2>2, <4>1
    <3>2. box[t] = t
      BY <1>1, <1>4, <2>1 DEF BInv, SharedAt
    <3>. QED BY <1>1, <3>1, <3>2
  <2>8. \A t \in Workers : \A u, v \in Workers : Live(u, t)' /\ Live(v, t)' => u = v
    <3>1. \A t \in Workers : \A u, v \in Workers : Live(u, t) /\ Live(v, t) => u = v
      BY DEF BInv, SharedAt
    <3>. QED BY <1>4, <2>1, <2>3, <3>1
  <2>. QED BY <2>5, <2>6, <2>7, <2>8 DEF SharedAt
<1>6. IndexAt'
  <2>1. \A t, v \in Workers : worker_by_sandbox[t] = v <=> sandbox_id[v] = t /\ state[v] # "None"
    BY DEF BInv, IndexAt
  <2>2. \A v \in Workers : s # None /\ sandbox_id[v] = s => state[v] = "None"
    <3>. SUFFICES ASSUME NEW v \in Workers, s # None, sandbox_id[v] = s, state[v] # "None" PROVE FALSE
      OBVIOUS
    <3>1. box[v] = s /\ at[v] # "reaped"
      BY BooksOf DEF Books, Fit, Owning
    <3>. QED BY <3>1 DEF BInv, SharedAt, Live, TypeOK
  <2>3. \A v \in Workers \ {w} : state'[v] = "None" <=> state[v] = "None"
    BY DEF Idle
  <2>4. state'[w] # "None"
    OBVIOUS
  <2>5. ASSUME NEW t \in Workers, NEW v \in Workers
        PROVE  worker_by_sandbox'[t] = v <=> sandbox_id'[v] = t /\ state'[v] # "None"
    <3>1. CASE t = s
      <4>1. v # w => ~(sandbox_id'[v] = t /\ state'[v] # "None")
        BY <1>1, <1>4, <2>2, <2>3, <3>1
      <4>. QED BY <1>1, <2>4, <3>1, <4>1
    <3>2. CASE t # s /\ v = w
      BY <1>1, <1>2, <1>4, <2>1, <3>2
    <3>3. CASE t # s /\ v # w
      BY <1>1, <2>1, <2>3, <3>3
    <3>. QED BY <3>1, <3>2, <3>3
  <2>. QED BY <2>5 DEF IndexAt
<1>7. TimersAt'
  <2>1. Idle' = (Idle \ E) \cup (IF ns = "Idle" THEN {w} ELSE {})
    BY <1>2 DEF Idle
  <2>. QED BY <2>1 DEF BInv, TimersAt
<1>. QED BY <1>3, <1>5, <1>6, <1>7 DEF BInv

\* What SpawnAndEvict leaves of the books.
SpawnedAs(w, f, s, E, place, ns) ==
    /\ state' \in [Workers -> Lifecycle] /\ acct' \in [Workers -> {"InUse", "Reclaimed", "Uncharged"}]
    /\ fn' \in [Workers -> Functions \cup {None}] /\ at' \in [Workers -> Place]
    /\ box' \in [Workers -> Workers \cup {None}] /\ sandbox_id' \in [Workers -> Workers \cup {None}]
    /\ worker_by_sandbox' \in [Workers -> Workers \cup {None}] /\ snapshots' \subseteq Workers
    /\ inuse' \in Nat /\ reclaimed' \in Nat
    /\ timers' \subseteq Workers /\ armed' \subseteq timers' /\ late' \subseteq Workers /\ deadlines' \subseteq Workers
    /\ \A v \in Workers : /\ state'[v] = IF v = w THEN ns ELSE IF v \in E THEN "Dying" ELSE state[v]
                          /\ acct'[v] = IF v = w THEN "InUse" ELSE IF v \in E THEN "Reclaimed" ELSE acct[v]
    /\ timers' = (timers \ E) \cup (IF ns = "Idle" THEN {w} ELSE {})
    /\ deadlines' = (deadlines \ E) \cup (IF ns = "Idle" THEN {w} ELSE {})
    /\ Spawn(w, f, s, place)

LEMMA SpawnAndEvictValue ==
    ASSUME BInv, NEW w \in Workers, NEW f \in Functions, NEW s \in Workers \cup {None}, NEW E \in SUBSET Idle,
           NEW place \in Place, NEW ns \in {"Active", "Idle"}, SpawnAndEvict(w, f, s, E, place, ns)
    PROVE  SpawnedAs(w, f, s, E, place, ns)
<1>. DEFINE K == IF ns = "Idle" THEN {w} ELSE {}
<1>1. /\ Spawn(w, f, s, place) /\ state' = [workers_to_dying(E) EXCEPT ![w] = ns]
      /\ acct' = [Put(acct, E, "Reclaimed") EXCEPT ![w] = "InUse"]
      /\ inuse' = Less(inuse + 1, Cardinality(E \cup K)) /\ reclaimed' = reclaimed + Cardinality(E)
      /\ deadlines' = (deadlines \ E) \cup K /\ rearm(E, K)
  BY DEF SpawnAndEvict
<1>2. /\ fn' \in [Workers -> Functions \cup {None}] /\ at' \in [Workers -> Place]
      /\ box' \in [Workers -> Workers \cup {None}] /\ sandbox_id' \in [Workers -> Workers \cup {None}]
      /\ worker_by_sandbox' \in [Workers -> Workers \cup {None}] /\ snapshots' \subseteq Workers
  BY <1>1 DEF Spawn, BInv, TypeOK, Put
<1>3. /\ state' \in [Workers -> Lifecycle]
      /\ \A v \in Workers : state'[v] = IF v = w THEN ns ELSE IF v \in E THEN "Dying" ELSE state[v]
  BY <1>1 DEF BInv, TypeOK, workers_to_dying, Put, Lifecycle
<1>4. /\ acct' \in [Workers -> {"InUse", "Reclaimed", "Uncharged"}]
      /\ \A v \in Workers : acct'[v] = IF v = w THEN "InUse" ELSE IF v \in E THEN "Reclaimed" ELSE acct[v]
  BY <1>1 DEF BInv, TypeOK, Put
<1>5. K \subseteq Workers
  OBVIOUS
<1>6. timers' = (timers \ E) \cup K /\ deadlines' \subseteq Workers
  BY <1>1, <1>5 DEF rearm, BInv, TypeOK
<1>7. timers' \subseteq Workers /\ armed' \subseteq timers' /\ late' \subseteq Workers
  BY <1>1, <1>5, TimersValue DEF BInv
<1>8. inuse' \in Nat /\ reclaimed' \in Nat
  <2>1. IsFiniteSet(E) /\ Cardinality(E) \in Nat
    <3>1. E \subseteq Born
      BY Countable DEF BInv
    <3>. QED BY <3>1, Countable DEF BInv
  <2>2. IsFiniteSet(E \cup K)
    <3>1. IsFiniteSet(E \cup {w})
      BY <2>1, FS_AddElement
    <3>2. E \cup K \in SUBSET (E \cup {w})
      OBVIOUS
    <3>. QED BY <3>1, <3>2, FS_Subset
  <2>3. Cardinality(E \cup K) \in Nat
    BY <2>2, FS_CardinalityType
  <2>4. inuse + 1 \in Nat /\ reclaimed \in Nat
    BY DEF BInv, TypeOK
  <2>. QED BY <1>1, <2>1, <2>3, <2>4, LessValue
<1>. QED BY <1>1, <1>2, <1>3, <1>4, <1>6, <1>7, <1>8 DEF SpawnedAs

\* The new Worker uses memory, that of the evicted ones is being reclaimed.
LEMMA SpawnAndEvictMemory ==
    ASSUME BInv, NEW w \in Workers, NEW f \in Functions, NEW s \in Workers \cup {None}, NEW E \in SUBSET Idle,
           NEW place \in {"starting", "finished"}, NEW ns \in {"Active", "Idle"},
           SpawnAndEvict(w, f, s, E, place, ns), UNCHANGED leaked,
           mode' = "running" => mode = "running" /\ ns = "Active"
    PROVE  ChargedAt'
<1>1. /\ at[w] = "unborn"
      /\ \A v \in Workers : at'[v] = IF v = w THEN place ELSE at[v]
  BY DEF SpawnAndEvict, Spawn, BInv, TypeOK
<1>2. state[w] = "None" /\ w \notin leaked /\ w \notin E
  BY <1>1, BooksOf DEF Books, Fit, BInv, ChargedAt, Idle
<1>3. IsFiniteSet(Born') /\ \A v \in leaked' : at'[v] = "reaped"
  BY <1>1, BornOne DEF BInv, ChargedAt, TypeOK
<1>4. MemoryExact'
  <2>. SUFFICES ASSUME mode' = "running" PROVE MemoryExact'
    BY DEF MemoryExact
  <2>. DEFINE U == Charged("InUse")
              R == Charged("Reclaimed")
  <2>0. ns = "Active" /\ mode = "running"
    OBVIOUS
  <2>1. /\ inuse = Cardinality(U) /\ reclaimed = Cardinality(R)
        /\ \A v \in Workers : state[v] \in {"Idle", "Active"} => acct[v] = "InUse"
    BY <2>0 DEF BInv, ChargedAt, MemoryExact
  <2>2. \A v \in Workers : /\ state'[v] = IF v = w THEN ns ELSE IF v \in E THEN "Dying" ELSE state[v]
                           /\ acct'[v] = IF v = w THEN "InUse" ELSE IF v \in E THEN "Reclaimed" ELSE acct[v]
    BY DEF SpawnAndEvict, BInv, TypeOK, workers_to_dying, Put
  <2>3. E \subseteq U /\ E \cap R = {} /\ w \notin U
    BY <1>2, <2>1 DEF Charged, Idle
  <2>4. U' = (U \ E) \cup {w} /\ R' = R \cup E
    BY <1>2, <2>0, <2>1, <2>2 DEF Charged, Idle
  <2>5. IsFiniteSet(U) /\ IsFiniteSet(R) /\ IsFiniteSet(E)
    <3>1. U \subseteq Born /\ R \subseteq Born /\ E \subseteq Born
      BY Countable DEF BInv
    <3>. QED BY <3>1, FS_Subset DEF BInv, ChargedAt
  <2>6. \A v \in Workers : state'[v] \in {"Idle", "Active"} => acct'[v] = "InUse"
    BY <2>1, <2>2
  <2>. HIDE DEF U, R
  <2>7. U \cap E = E /\ R \cap E = {}
    BY <2>3
  <2>8. /\ Cardinality((U \ E) \cup {w}) = Cardinality(U) - Cardinality(E) + 1
        /\ Cardinality(R \cup E) = Cardinality(R) + Cardinality(E)
        /\ Cardinality(E) \in Nat /\ Cardinality(E) <= Cardinality(U) /\ Cardinality(U) \in Nat /\ Cardinality(R) \in Nat
    <3>1. Cardinality(U \ E) = Cardinality(U) - Cardinality(U \cap E) /\ IsFiniteSet(U \ E)
      BY <2>5, FS_Difference
    <3>2. Cardinality(R \cup E) = Cardinality(R) + Cardinality(E) - Cardinality(R \cap E)
      BY <2>5, FS_Union
    <3>3. Cardinality({}) = 0
      BY FS_EmptySet
    <3>4. Cardinality(E) \in Nat /\ Cardinality(U) \in Nat /\ Cardinality(R) \in Nat
      BY <2>5, FS_CardinalityType
    <3>5. Cardinality(E) <= Cardinality(U)
      BY <2>3, <2>5, FS_Subset
    <3>6. Cardinality(U \cap E) = Cardinality(E) /\ Cardinality(R \cap E) = 0
      BY <2>7, <3>3, Zenon
    <3>7. w \notin U \ E
      BY <2>3
    <3>8. Cardinality((U \ E) \cup {w}) = Cardinality(U \ E) + 1
      BY <3>1, <3>7, FS_AddElement
    <3>. QED BY <3>1, <3>2, <3>4, <3>5, <3>6, <3>8
  <2>9. inuse' = Less(inuse + 1, Cardinality(E)) /\ reclaimed' = reclaimed + Cardinality(E)
    <3>1. E \cup (IF ns = "Idle" THEN {w} ELSE {}) = E
      BY <2>0
    <3>2. /\ inuse' = Less(inuse + 1, Cardinality(E \cup (IF ns = "Idle" THEN {w} ELSE {})))
          /\ reclaimed' = reclaimed + Cardinality(E)
      BY DEF SpawnAndEvict
    <3>. QED BY <3>1, <3>2, Zenon
  <2>10. Less(inuse + 1, Cardinality(E)) = inuse + 1 - Cardinality(E)
    BY <2>1, <2>8, LessValue
  <2>11. inuse' = Cardinality((U \ E) \cup {w}) /\ reclaimed' = Cardinality(R \cup E)
    BY <2>1, <2>8, <2>9, <2>10
  <2>12. inuse' = Cardinality(U') /\ reclaimed' = Cardinality(R')
    BY <2>4, <2>11, Zenon
  <2>. QED BY <2>6, <2>12 DEF MemoryExact, U, R
<1>. QED BY <1>3, <1>4 DEF ChargedAt

LEMMA Unborn ==
    ASSUME BInv, NEW w \in Workers, at[w] = "unborn"
    PROVE  /\ state[w] = "None" /\ op[w] = None /\ ctrl[w] = <<>> /\ out[w] = <<>>
           /\ exit[w] \notin {"Reusable", "Trashed"} /\ w \notin Idle
  BY BooksOf DEF Books, Fit, Owning, Idle

LEMMA DispatchNewBooks ==
    ASSUME BInv, NEW f \in Functions, NEW w \in Workers, NEW s \in Workers \cup {None}, NEW E \in SUBSET Idle,
           NEW answered \in BOOLEAN, DispatchNew(f, w, s, E, answered)
    PROVE  BInv'
<1>. USE DEF ctlVars
<1>. DEFINE ns == IF answered THEN "Active" ELSE "Idle"
<1>1. /\ SpawnAndEvict(w, f, s, E, "starting", ns) /\ Reply(w, answered) /\ mode = "running"
      /\ ctrl' = Sent(E, "ShutDown") /\ s \in snapshots \cup {None}
      /\ UNCHANGED <<leaked, trashed, ctlVars, invoked, out, exit, snapped, overtaken>>
  BY DEF DispatchNew, MaySpawn, Dispatching, PreferSnapshot, Orphans
<1>2. /\ ns \in {"Active", "Idle"} /\ at[w] = "unborn"
      /\ mode' = IF answered THEN "running" ELSE "stopping"
      /\ inflight' \in {w, None} /\ cpu' \subseteq cpu \cup {w}
  BY <1>1 DEF Reply, SpawnAndEvict, Spawn, cpuset_alloc, cpuset_release
<1>3. state[w] = "None" /\ op[w] = None /\ ctrl[w] = <<>> /\ out[w] = <<>> /\ exit[w] \notin {"Reusable", "Trashed"} /\ w \notin E
  BY <1>2, Unborn
<1>4. /\ Sent(E, "ShutDown") \in [Workers -> Seq(ControlMessage)]
      /\ Sent(E, "ShutDown")[w] = <<>>
  BY <1>3, SentValue DEF BInv, TypeOK, ControlMessage
<1>5. mode' = "running" => ns = "Active"
  BY <1>2
<1>. HIDE DEF ns
<1>6. /\ state' \in [Workers -> Lifecycle] /\ acct' \in [Workers -> {"InUse", "Reclaimed", "Uncharged"}]
      /\ fn' \in [Workers -> Functions \cup {None}] /\ at' \in [Workers -> Place]
      /\ box' \in [Workers -> Workers \cup {None}] /\ sandbox_id' \in [Workers -> Workers \cup {None}]
      /\ worker_by_sandbox' \in [Workers -> Workers \cup {None}] /\ snapshots' \subseteq Workers
      /\ inuse' \in Nat /\ reclaimed' \in Nat
      /\ timers' \subseteq Workers /\ armed' \subseteq timers' /\ late' \subseteq Workers /\ deadlines' \subseteq Workers
      /\ \A v \in Workers : state'[v] = IF v = w THEN ns ELSE IF v \in E THEN "Dying" ELSE state[v]
      /\ timers' = (timers \ E) \cup (IF ns = "Idle" THEN {w} ELSE {})
      /\ deadlines' = (deadlines \ E) \cup (IF ns = "Idle" THEN {w} ELSE {})
      /\ Spawn(w, f, s, "starting")
  <2>1. "starting" \in Place /\ ns \in {"Active", "Idle"} /\ SpawnAndEvict(w, f, s, E, "starting", ns)
    BY <1>1, <1>2 DEF Place
  <2>2. SpawnedAs(w, f, s, E, "starting", ns)
    BY <2>1, SpawnAndEvictValue, Zenon
  <2>. QED BY <2>2 DEF SpawnedAs
<1>7. ChargedAt'
  BY <1>1, <1>2, <1>5, SpawnAndEvictMemory
<1>8. TypeOK'
  BY <1>1, <1>2, <1>4, <1>6 DEF BInv, TypeOK
<1>9. Fit(ns, "starting", op'[w], ctrl'[w], out'[w]) /\ Owning(w, s, s, "starting", exit'[w], ctrl'[w], out'[w])
  <2>1. op'[w] = None /\ ctrl'[w] = <<>> /\ out'[w] = <<>> /\ exit'[w] = exit[w]
    BY <1>1, <1>3, <1>4
  <2>2. Fit(ns, "starting", None, <<>>, <<>>)
    BY <1>2, FitSpawned
  <2>3. Owning(w, s, s, "starting", exit[w], <<>>, <<>>)
    BY <1>3, OwningSpawned
  <2>. QED BY <2>1, <2>2, <2>3
<1>10. \A v \in Workers \ {w} : op'[v] = op[v] /\ out'[v] = out[v] /\ exit'[v] = exit[v] /\ ctrl'[v] = Sent(E, "ShutDown")[v]
  <2>1. op' = op /\ out' = out /\ exit' = exit /\ ctrl' = Sent(E, "ShutDown")
    BY <1>1
  <2>. QED BY <2>1, Zenon
<1>11. ns \in {"Active", "Idle", "Dying"} /\ "starting" \in {"starting", "finished"} /\ trashed' = trashed
  BY <1>1, <1>2
<1>. QED BY <1>1, <1>6, <1>7, <1>8, <1>9, <1>10, <1>11, SpawnBooks, SMTT(30)

LEMMA RequestPrepBooks ==
    ASSUME BInv, NEW c \in Calls, NEW f \in Functions, NEW w \in Workers, NEW s \in Workers \cup {None},
           NEW E \in SUBSET Idle, RequestPrep(c, f, w, s, E) \/ RequestPrepUnheard(c, f, w, s, E)
    PROVE  BInv'
<1>0. PICK ns : ns = "Active"
  OBVIOUS
<1>a. PICK place : place = IF RequestPrep(c, f, w, s, E) THEN "starting" ELSE "finished"
  OBVIOUS
<1>1. /\ SpawnAndEvict(w, f, s, E, place, ns) /\ place \in {"starting", "finished"}
      /\ s \in snapshots \cup {None} /\ op' = [op EXCEPT ![w] = "PrepareSandbox"]
      /\ call' \in {[call EXCEPT ![c] = Done], [call EXCEPT ![c] = Waiting("PrepareSandbox", w)]}
      /\ cpu' \subseteq cpu \cup {w}
      /\ UNCHANGED <<mode, leaked, trashed, paused, inflight, invoked, snapped, overtaken>>
  BY <1>0, <1>a DEF RequestPrep, RequestPrepUnheard, cpuset_alloc, Orphans
<1>2. /\ place = "starting" => /\ ctrl' = [Sent(E, "ShutDown") EXCEPT ![w] = <<"PrepareSandbox">>]
                               /\ out' = out /\ exit' = exit
      /\ place = "finished" => /\ ctrl' = Sent(E, "ShutDown") /\ out' = [out EXCEPT ![w] = <<"ReapMe">>]
                               /\ exit' = [exit EXCEPT ![w] = IF s = None THEN "Gone" ELSE "Reusable"]
  BY <1>a DEF RequestPrep, RequestPrepUnheard
<1>3. at[w] = "unborn"
  BY <1>1 DEF SpawnAndEvict, Spawn
<1>4. state[w] = "None" /\ op[w] = None /\ ctrl[w] = <<>> /\ out[w] = <<>> /\ exit[w] \notin {"Reusable", "Trashed"} /\ w \notin E
  BY <1>3, Unborn
<1>5. /\ Sent(E, "ShutDown") \in [Workers -> Seq(ControlMessage)]
      /\ Sent(E, "ShutDown")[w] = <<>>
  BY <1>4, SentValue DEF BInv, TypeOK, ControlMessage
<1>6. <<"PrepareSandbox">> \in Seq(ControlMessage) /\ <<"ReapMe">> \in Seq(OutboundMessage)
  BY DEF ControlMessage, OutboundMessage
<1>7. /\ state' \in [Workers -> Lifecycle] /\ acct' \in [Workers -> {"InUse", "Reclaimed", "Uncharged"}]
      /\ fn' \in [Workers -> Functions \cup {None}] /\ at' \in [Workers -> Place]
      /\ box' \in [Workers -> Workers \cup {None}] /\ sandbox_id' \in [Workers -> Workers \cup {None}]
      /\ worker_by_sandbox' \in [Workers -> Workers \cup {None}] /\ snapshots' \subseteq Workers
      /\ inuse' \in Nat /\ reclaimed' \in Nat
      /\ timers' \subseteq Workers /\ armed' \subseteq timers' /\ late' \subseteq Workers /\ deadlines' \subseteq Workers
      /\ \A v \in Workers : state'[v] = IF v = w THEN ns ELSE IF v \in E THEN "Dying" ELSE state[v]
      /\ timers' = (timers \ E) \cup (IF ns = "Idle" THEN {w} ELSE {})
      /\ deadlines' = (deadlines \ E) \cup (IF ns = "Idle" THEN {w} ELSE {})
      /\ Spawn(w, f, s, place)
  <2>1. place \in Place /\ ns \in {"Active", "Idle"} /\ SpawnAndEvict(w, f, s, E, place, ns)
    BY <1>0, <1>1 DEF Place
  <2>2. SpawnedAs(w, f, s, E, place, ns)
    BY <2>1, SpawnAndEvictValue, Zenon
  <2>. QED BY <2>2 DEF SpawnedAs
<1>8. ChargedAt'
  BY <1>0, <1>1, SpawnAndEvictMemory
<1>9. /\ ctrl' \in [Workers -> Seq(ControlMessage)] /\ out' \in [Workers -> Seq(OutboundMessage)]
      /\ exit' \in [Workers -> SandboxExit \cup {None}]
  <2>. DEFINE p == Sent(E, "ShutDown")
              m == <<"PrepareSandbox">>
              r == <<"ReapMe">>
  <2>0. /\ out \in [Workers -> Seq(OutboundMessage)] /\ exit \in [Workers -> SandboxExit \cup {None}]
        /\ p \in [Workers -> Seq(ControlMessage)] /\ m \in Seq(ControlMessage) /\ r \in Seq(OutboundMessage)
    BY <1>5, <1>6 DEF BInv, TypeOK
  <2>. HIDE DEF p, m, r
  <2>1. CASE place = "starting"
    <3>1. ctrl' = [p EXCEPT ![w] = m] /\ out' = out /\ exit' = exit
      BY <1>2, <2>1 DEF p, m
    <3>. QED BY <2>0, <3>1
  <2>2. CASE place = "finished"
    <3>1. ctrl' = p /\ out' = [out EXCEPT ![w] = r] /\ exit' = [exit EXCEPT ![w] = IF s = None THEN "Gone" ELSE "Reusable"]
      BY <1>2, <2>2 DEF p, r
    <3>. QED BY <2>0, <3>1 DEF SandboxExit
  <2>. QED BY <1>1, <2>1, <2>2
<1>10. call' \in [Calls -> CallType] /\ op' \in [Workers -> PendingControlOp \cup {None}]
  <2>1. op' \in [Workers -> PendingControlOp \cup {None}]
    BY <1>1 DEF BInv, TypeOK, PendingControlOp
  <2>2. Done \in CallType /\ Waiting("PrepareSandbox", w) \in CallType /\ call \in [Calls -> CallType]
    BY DEF BInv, TypeOK, CallType, Done, Waiting, PendingControlOp
  <2>. QED BY <1>1, <2>1, <2>2
<1>11. TypeOK'
  BY <1>1, <1>7, <1>9, <1>10, SMTT(30) DEF BInv, TypeOK
<1>12. /\ op'[w] = "PrepareSandbox"
       /\ place = "starting" => ctrl'[w] = <<"PrepareSandbox">> /\ out'[w] = <<>> /\ exit'[w] = exit[w]
       /\ place = "finished" => /\ ctrl'[w] = <<>> /\ out'[w] = <<"ReapMe">>
                                /\ exit'[w] = IF s = None THEN "Gone" ELSE "Reusable"
  BY <1>1, <1>2, <1>4, <1>5 DEF BInv, TypeOK
<1>13. Fit(ns, place, op'[w], ctrl'[w], out'[w])
  BY <1>0, <1>1, <1>12, FitSpawned
<1>14. Owning(w, s, s, place, exit'[w], ctrl'[w], out'[w])
  <2>1. Owning(w, s, s, "starting", exit[w], <<"PrepareSandbox">>, <<>>)
    BY <1>4, OwningSpawned
  <2>2. \A e \in {"Gone", "Reusable"} : (e = "Reusable" => s # None) => Owning(w, s, s, "finished", e, <<>>, <<"ReapMe">>)
    BY OwningSpawned
  <2>. QED BY <1>1, <1>12, <2>1, <2>2
<1>15. \A v \in Workers \ {w} : op'[v] = op[v] /\ out'[v] = out[v] /\ exit'[v] = exit[v] /\ ctrl'[v] = Sent(E, "ShutDown")[v]
  <2>0. ASSUME NEW v \in Workers \ {w} PROVE op'[v] = op[v]
    BY <1>1 DEF BInv, TypeOK
  <2>. DEFINE p == Sent(E, "ShutDown")
              m == <<"PrepareSandbox">>
  <2>1. CASE place = "starting"
    <3>1. p \in [Workers -> Seq(ControlMessage)]
      BY <1>5
    <3>2. ctrl' = [p EXCEPT ![w] = m] /\ out' = out /\ exit' = exit
      BY <1>2, <2>1
    <3>. HIDE DEF p, m
    <3>3. \A v \in Workers \ {w} : ctrl'[v] = p[v]
      BY <3>1, <3>2
    <3>. QED BY <2>0, <3>2, <3>3 DEF p
  <2>2. CASE place = "finished"
    BY <1>2, <2>0, <2>2 DEF BInv, TypeOK
  <2>. QED BY <1>1, <2>1, <2>2
<1>16. /\ ns \in {"Active", "Idle", "Dying"} /\ place \in {"starting", "finished"}
       /\ s \in snapshots \cup {None} /\ trashed' = trashed
  BY <1>0, <1>1
<1>17. /\ \A v \in Workers : state'[v] = IF v = w THEN ns ELSE IF v \in E THEN "Dying" ELSE state[v]
       /\ timers' = (timers \ E) \cup (IF ns = "Idle" THEN {w} ELSE {})
       /\ deadlines' = (deadlines \ E) \cup (IF ns = "Idle" THEN {w} ELSE {})
       /\ Spawn(w, f, s, place)
  BY <1>7
<1>. QED BY <1>8, <1>11, <1>13, <1>14, <1>15, <1>16, <1>17, SpawnBooks

LEMMA RequestDestroyOrphanBooks ==
    ASSUME BInv, NEW c \in Calls, NEW s \in Workers, NEW w \in Workers, NEW heard \in BOOLEAN,
           RequestDestroyOrphan(c, s, w, heard)
    PROVE  BInv'
<1>. USE DEF timerVars, memVars
<1>. DEFINE place == IF heard THEN "starting" ELSE "finished"
            o2 == IF heard THEN "DestroySandbox" ELSE None
            c2 == IF heard THEN <<"DestroySandbox">> ELSE <<>>
            q2 == IF heard THEN <<>> ELSE <<"ReapMe">>
            e2 == IF heard THEN None ELSE "Reusable"
<1>1. /\ s \in snapshots /\ Spawn(w, fn[s], s, place) /\ place \in {"starting", "finished"}
      /\ state' = [state EXCEPT ![w] = "Dying"] /\ acct' = [acct EXCEPT ![w] = "Uncharged"]
      /\ ctrl' = [ctrl EXCEPT ![w] = c2] /\ out' = [out EXCEPT ![w] = q2] /\ exit' = [exit EXCEPT ![w] = e2]
      /\ op' = IF heard THEN [op EXCEPT ![w] = "DestroySandbox"] ELSE op
      /\ call' = [call EXCEPT ![c] = IF heard THEN Waiting("DestroySandbox", w) ELSE Done]
      /\ UNCHANGED <<mode, timerVars, cpu, memVars, trashed, paused, inflight, invoked, snapped, overtaken>>
  BY DEF RequestDestroyOrphan, Started
<1>2. at[w] = "unborn"
  BY <1>1 DEF Spawn
<1>3. state[w] = "None" /\ op[w] = None /\ w \notin Idle
  BY <1>2, Unborn
<1>4. /\ c2 \in Seq(ControlMessage) /\ q2 \in Seq(OutboundMessage) /\ e2 \in SandboxExit \cup {None}
  <2>1. /\ <<"DestroySandbox">> \in Seq(ControlMessage) /\ <<>> \in Seq(ControlMessage)
        /\ <<"ReapMe">> \in Seq(OutboundMessage) /\ <<>> \in Seq(OutboundMessage)
    BY DEF ControlMessage, OutboundMessage
  <2>2. None \in SandboxExit \cup {None} /\ "Reusable" \in SandboxExit \cup {None}
    BY DEF SandboxExit
  <2>. QED BY <2>1, <2>2
<1>5. Fit("Dying", place, o2, c2, q2) /\ Owning(w, s, s, place, e2, c2, q2)
  <2>1. None # "Reusable" /\ None # "Trashed" /\ s # None
    BY PoolAssumption DEF SandboxExit
  <2>2. CASE heard
    <3>1. Owning(w, s, s, "starting", None, <<"DestroySandbox">>, <<>>)
      BY <2>1, OwningSpawned
    <3>. QED BY <2>2, <3>1, FitSpawned
  <2>3. CASE ~heard
    <3>1. Owning(w, s, s, "finished", "Reusable", <<>>, <<"ReapMe">>)
      BY <2>1, OwningSpawned
    <3>. QED BY <2>3, <3>1, FitSpawned
  <2>. QED BY <2>2, <2>3
<1>6. op'[w] = o2
  BY <1>1, <1>3 DEF BInv, TypeOK
<1>. HIDE DEF place, o2, c2, q2, e2
<1>7. /\ fn' \in [Workers -> Functions \cup {None}] /\ at' \in [Workers -> Place]
      /\ box' \in [Workers -> Workers \cup {None}] /\ sandbox_id' \in [Workers -> Workers \cup {None}]
      /\ worker_by_sandbox' \in [Workers -> Workers \cup {None}] /\ snapshots' \subseteq Workers
  BY <1>1 DEF Spawn, BInv, TypeOK, Put, Place
<1>8. call' \in [Calls -> CallType] /\ op' \in [Workers -> PendingControlOp \cup {None}]
  BY <1>1 DEF BInv, TypeOK, CallType, Waiting, PendingControlOp
<1>9. TypeOK'
  BY <1>1, <1>4, <1>7, <1>8 DEF BInv, TypeOK, Lifecycle
<1>10. /\ \A v \in Workers : state'[v] = IF v = w THEN "Dying" ELSE state[v]
       /\ \A v \in Workers \ {w} : acct'[v] = acct[v] /\ at'[v] = at[v]
       /\ acct'[w] = "Uncharged"
  BY <1>1 DEF BInv, TypeOK, Spawn
<1>11. ChargedAt'
  <2>1. w \notin leaked
    BY <1>2 DEF BInv, ChargedAt
  <2>2. IsFiniteSet(Born') /\ \A v \in leaked' : at'[v] = "reaped"
    BY <1>1, <1>10, <2>1, BornOne DEF BInv, TypeOK, ChargedAt
  <2>3. MemoryExact'
    <3>1. Charged("InUse")' = Charged("InUse") /\ Charged("Reclaimed")' = Charged("Reclaimed")
      BY <1>1, <1>3, <1>10, <2>1 DEF Charged
    <3>2. mode = "running" => \A v \in Workers : state'[v] \in {"Idle", "Active"} => acct'[v] = "InUse"
      BY <1>10 DEF BInv, ChargedAt, MemoryExact
    <3>3. mode = "running" => inuse = Cardinality(Charged("InUse")) /\ reclaimed = Cardinality(Charged("Reclaimed"))
      BY DEF BInv, ChargedAt, MemoryExact
    <3>4. mode = "running" => inuse' = Cardinality(Charged("InUse")') /\ reclaimed' = Cardinality(Charged("Reclaimed")')
      BY <1>1, <3>1, <3>3, Zenon
    <3>. QED BY <1>1, <3>2, <3>4 DEF MemoryExact
  <2>. QED BY <2>2, <2>3 DEF ChargedAt
<1>12. /\ ctrl'[w] = c2 /\ out'[w] = q2 /\ exit'[w] = e2
       /\ \A v \in Workers \ {w} : op'[v] = op[v] /\ out'[v] = out[v] /\ exit'[v] = exit[v] /\ ctrl'[v] = Sent({}, "ShutDown")[v]
  BY <1>1 DEF BInv, TypeOK, Sent
<1>13. Fit("Dying", place, op'[w], ctrl'[w], out'[w]) /\ Owning(w, s, s, place, exit'[w], ctrl'[w], out'[w])
  BY <1>5, <1>6, <1>12
<1>14. /\ \A v \in Workers : state'[v] = IF v = w THEN "Dying" ELSE IF v \in {} THEN "Dying" ELSE state[v]
       /\ timers' = (timers \ {}) \cup (IF "Dying" = "Idle" THEN {w} ELSE {})
       /\ deadlines' = (deadlines \ {}) \cup (IF "Dying" = "Idle" THEN {w} ELSE {})
       /\ {} \in SUBSET Idle
  BY <1>1, <1>10
<1>. QED BY <1>1, <1>9, <1>11, <1>12, <1>13, <1>14, SpawnBooks

LEMMA RequestPrepReapedBooks ==
    ASSUME BInv, NEW c \in Calls, NEW f \in Functions, NEW w \in Workers, NEW E \in SUBSET Idle,
           RequestPrepReaped(c, f, w, E)
    PROVE  BInv'
<1>. USE DEF boxVars
<1>1. /\ at[w] = "unborn" /\ to_dying(E) /\ rearm(E, {}) /\ ctrl' = Sent(E, "ShutDown")
      /\ fn' = [fn EXCEPT ![w] = f] /\ at' = [at EXCEPT ![w] = "reaped"] /\ out' = [out EXCEPT ![w] = <<"ReapMe">>]
      /\ call' = [call EXCEPT ![c] = Done]
      /\ UNCHANGED <<mode, sandbox_id, worker_by_sandbox, cpu, leaked, boxVars, op, paused, inflight,
                     invoked, box, exit, snapped, overtaken>>
  BY DEF RequestPrepReaped
<1>2. /\ state[w] = "None" /\ op[w] = None /\ ctrl[w] = <<>> /\ w \notin E
      /\ Owning(w, sandbox_id[w], box[w], at[w], exit[w], ctrl[w], out[w])
  BY <1>1, Unborn, BooksOf DEF Books
<1>3. /\ state' \in [Workers -> Lifecycle] /\ acct' \in [Workers -> {"InUse", "Reclaimed", "Uncharged"}]
      /\ inuse' \in Nat /\ reclaimed' \in Nat /\ deadlines' \subseteq Workers
      /\ \A v \in Workers : state'[v] = IF v \in E THEN "Dying" ELSE state[v]
      /\ Idle' = Idle \ E
      /\ \A v \in E : v \in Workers /\ state[v] \in {"Idle", "Active"} /\ at[v] \notin {"unborn", "reaped"}
  BY <1>1, DyingValue DEF BInv
<1>4. /\ ctrl' \in [Workers -> Seq(ControlMessage)]
      /\ \A v \in Workers : ctrl'[v] = IF v \in E /\ at[v] # "finished" THEN Append(ctrl[v], "ShutDown") ELSE ctrl[v]
  <2>1. ctrl \in [Workers -> Seq(ControlMessage)] /\ "ShutDown" \in ControlMessage
    BY DEF BInv, TypeOK, ControlMessage
  <2>. QED BY <1>1, <2>1, SentValue
<1>5. timers' = timers \ E
  BY <1>1 DEF rearm
<1>6. armed' \subseteq timers' /\ late' \subseteq Workers
  BY <1>1, TimersValue DEF BInv
<1>7. /\ out' \in [Workers -> Seq(OutboundMessage)] /\ out'[w] = <<"ReapMe">>
      /\ \A v \in Workers \ {w} : out'[v] = out[v] /\ at'[v] = at[v]
      /\ at' \in [Workers -> Place] /\ at'[w] = "reaped"
  <2>1. <<"ReapMe">> \in Seq(OutboundMessage) /\ "reaped" \in Place
    BY DEF OutboundMessage, Place
  <2>. QED BY <1>1, <2>1 DEF BInv, TypeOK
<1>8. TypeOK'
  BY <1>1, <1>3, <1>4, <1>5, <1>6, <1>7 DEF BInv, TypeOK, CallType
<1>9. FitAt' /\ OwningAt'
  <2>1. ASSUME NEW v \in Workers \ {w}, v \notin E PROVE Alike(v)
    BY <1>1, <1>3, <1>4, <1>7, <2>1 DEF Alike, Keeps
  <2>2. ASSUME NEW v \in Workers \ {w}, v \in E PROVE Dies(v)
    <3>1. /\ state[v] \in {"Idle", "Active"} /\ state'[v] = "Dying"
          /\ ctrl'[v] = IF at[v] # "finished" THEN Append(ctrl[v], "ShutDown") ELSE ctrl[v]
      BY <1>3, <1>4, <2>2
    <3>. QED BY <1>1, <1>7, <3>1 DEF Dies, Keeps
  <2>3. Books(w)'
    <3>1. /\ state'[w] = "None" /\ op'[w] = None /\ ctrl'[w] = <<>>
          /\ sandbox_id'[w] = sandbox_id[w] /\ box'[w] = box[w] /\ exit'[w] = exit[w]
          /\ box[w] = sandbox_id[w] /\ exit[w] \in {"Reusable", "Trashed"} => box[w] # None
      BY <1>1, <1>2, <1>3, <1>4 DEF Owning
    <3>2. Fit("None", "reaped", None, <<>>, <<"ReapMe">>)
      BY FitSpawned
    <3>3. Owning(w, sandbox_id[w], box[w], "reaped", exit[w], <<>>, <<"ReapMe">>)
      <4>1. sandbox_id[w] = None /\ box[w] = None /\ exit[w] \notin {"Reusable", "Trashed"}
        BY <1>1, <1>2 DEF Owning
      <4>2. Owning(w, None, None, "reaped", exit[w], <<>>, <<"ReapMe">>)
        BY <4>1, OwningSpawned
      <4>. QED BY <4>1, <4>2
    <3>. QED BY <1>7, <3>1, <3>2, <3>3 DEF Books
  <2>4. \A v \in Workers : Alike(v) \/ Dies(v) \/ Books(v)'
    BY <2>1, <2>2, <2>3
  <2>. QED BY <2>4, BooksKept DEF BInv
<1>10. SharedAt'
  <2>1. \A v \in Workers : at[v] = "reaped" => at'[v] = "reaped"
    BY <1>7
  <2>. QED BY <1>1, <2>1, SharedKept DEF BInv
<1>11. IndexAt'
  <2>1. \A v \in Workers : state'[v] = "None" <=> state[v] = "None"
    BY <1>3
  <2>. QED BY <1>1, <2>1, IndexKept DEF BInv
<1>12. TimersAt'
  BY <1>1, <1>3, <1>5 DEF BInv, TimersAt, to_dying
<1>13. ChargedAt'
  <2>1. E \subseteq Idle \cup Active /\ (at[w] = "reaped" => at'[w] = "reaped")
    BY <1>1
  <2>. QED BY <1>1, <1>7, <2>1, DyingMemory DEF BInv
<1>. QED BY <1>8, <1>9, <1>10, <1>11, <1>12, <1>13 DEF BInv

LEMMA DispatchStepBooks ==
    ASSUME BInv, DispatchStep
    PROVE  BInv'
<1>. PICK f \in Functions :
        \/ \E w \in Workers : DispatchAborts(f, w)
        \/ \E w \in Workers, answered \in BOOLEAN :
               \/ DispatchIdle(f, w, answered)
               \/ \E s \in Workers \cup {None}, E \in SUBSET Idle : DispatchNew(f, w, s, E, answered)
        \/ \E E \in SUBSET Idle : DispatchDenied(f, E)
  BY DEF DispatchStep
<1>1. CASE \E w \in Workers, answered \in BOOLEAN : DispatchIdle(f, w, answered)
  BY <1>1, DispatchIdleBooks, Zenon
<1>2. CASE \E w \in Workers, answered \in BOOLEAN, s \in Workers \cup {None}, E \in SUBSET Idle :
              DispatchNew(f, w, s, E, answered)
  BY <1>2, DispatchNewBooks, Zenon
<1>3. CASE \E E \in SUBSET Idle : DispatchDenied(f, E)
  BY <1>3, DispatchDeniedBooks, Zenon
<1>4. CASE \E w \in Workers : DispatchAborts(f, w)
  BY <1>4, DispatchAbortsBooks, Zenon
<1>. QED BY <1>1, <1>2, <1>3, <1>4, Zenon

LEMMA ControlStepBooks ==
    ASSUME BInv, NEW c \in Calls, ControlStep(c)
    PROVE  BInv'
<1>1. CASE RequestRefused(c)
  BY <1>1, RequestRefusedBooks
<1>2. CASE \E s \in Workers, o \in {"DestroySandbox", "Snapshot"} : RequestJoins(c, s, o)
  BY <1>2, RequestJoinsBooks, Zenon
<1>3. CASE \E f \in Functions, s \in Workers \cup {None}, E \in SUBSET Idle : RequestPrepOutOfMemory(c, f, s, E)
  BY <1>3, RequestPrepOutOfMemoryBooks, Zenon
<1>4. CASE \E f \in Functions, s \in Workers \cup {None}, E \in SUBSET Idle, w \in Workers :
              RequestPrep(c, f, w, s, E) \/ RequestPrepUnheard(c, f, w, s, E)
  BY <1>4, RequestPrepBooks, Zenon
<1>5. CASE \E f \in Functions, w \in Workers, E \in SUBSET Idle : RequestPrepReaped(c, f, w, E)
  BY <1>5, RequestPrepReapedBooks, Zenon
<1>6. CASE \E s \in Workers, heard \in BOOLEAN, remove \in BOOLEAN : RequestDestroyLive(c, s, remove, heard)
  BY <1>6, RequestDestroyLiveBooks, Zenon
<1>7. CASE \E s \in Workers, heard \in BOOLEAN, w \in Workers : RequestDestroyOrphan(c, s, w, heard)
  BY <1>7, RequestDestroyOrphanBooks, Zenon
<1>8. CASE \E s \in Workers, heard \in BOOLEAN : RequestSnapshot(c, s, heard)
  BY <1>8, RequestSnapshotBooks, Zenon
<1>9. CASE \E s \in Workers : RequestDestroyDying(c, s)
  BY <1>9, RequestDestroyDyingBooks, Zenon
<1>. QED BY <1>1, <1>2, <1>3, <1>4, <1>5, <1>6, <1>7, <1>8, <1>9, Zenon DEF ControlStep

-----------------------------------------------------------------------------
(***************************************************************************)
(* The books are right, whatever the order of events.                      *)
(***************************************************************************)

LEMMA BInvInit == Init => BInv
<1>. SUFFICES ASSUME Init PROVE BInv
  OBVIOUS
<1>. USE DEF Init
<1>0. None \notin Workers /\ None \notin SandboxExit
  BY PoolAssumption
<1>1. TypeOK
  BY DEF TypeOK, Lifecycle, Place, CallType, New
<1>2. FitAt
  BY HasNothing DEF FitAt, Fit
<1>3. OwningAt
  BY <1>0, HasNothing DEF OwningAt, Owning, SandboxExit
<1>4. SharedAt
  BY <1>0 DEF SharedAt, Live
<1>5. IndexAt
  BY <1>0 DEF IndexAt
<1>6. TimersAt
  BY DEF TimersAt, Idle
<1>7. ChargedAt
  <2>1. Born = {} /\ Charged("InUse") = {} /\ Charged("Reclaimed") = {}
    BY DEF Born, Charged
  <2>2. IsFiniteSet({}) /\ Cardinality({}) = 0
    BY FS_EmptySet
  <2>3. IsFiniteSet(Born) /\ Cardinality(Charged("InUse")) = 0 /\ Cardinality(Charged("Reclaimed")) = 0
    BY <2>1, <2>2, Zenon
  <2>. QED BY <2>3 DEF ChargedAt, MemoryExact
<1>. QED BY <1>1, <1>2, <1>3, <1>4, <1>5, <1>6, <1>7 DEF BInv

LEMMA BInvStep == BInv /\ [Next]_vars => BInv'
<1>. SUFFICES ASSUME BInv, [Next]_vars PROVE BInv'
  OBVIOUS
<1>1. ASSUME NEW w \in Workers, WorkerStep(w) \/ MessageStep(w) \/ timer_run(w) \/ KeepAliveStep(w) \/ Forward(w)
      PROVE  BInv'
  <2>1. CASE WorkerStep(w)
    BY <2>1, WorkerStepBooks
  <2>2. CASE MessageStep(w)
    BY <2>2, MessageStepBooks
  <2>3. CASE timer_run(w)
    BY <2>3, timer_runBooks
  <2>4. CASE KeepAliveStep(w)
    BY <2>4, KeepAliveTimeoutBooks DEF KeepAliveStep
  <2>5. CASE Forward(w)
    BY <2>5, ForwardBooks
  <2>. QED BY <1>1, <2>1, <2>2, <2>3, <2>4, <2>5
<1>2. CASE DispatchStep
  BY <1>2, DispatchStepBooks
<1>3. CASE \E c \in Calls : ControlStep(c)
  BY <1>3, ControlStepBooks
<1>4. CASE LeaveLoop
  BY <1>4, LeaveLoopBooks
<1>5. CASE BeginShutdown
  BY <1>5, BeginShutdownBooks
<1>6. CASE FinishShutdown
  BY <1>6, FinishShutdownBooks
<1>7. CASE Exited \/ UNCHANGED vars
  BY <1>7, StutterBooks DEF Exited
<1>. QED BY <1>1, <1>2, <1>3, <1>4, <1>5, <1>6, <1>7 DEF Next

\* The three facts combined.
THEOREM SpecBooks == Spec => []BInv
  BY BInvInit, BInvStep, PTL DEF Spec

\* MemoryStats adds up while the Pool runs: `inuse' is the memory of the Idle and Active
\* Workers and `reclaimed' that of the Dying ones, each with that of the reaped Workers whose
\* resources leaked, through every eviction, timeout, failed spawn and failed dispatch.
THEOREM SpecMemoryExact == Spec => []MemoryExact
<1>1. BInv => MemoryExact
  BY DEF BInv, ChargedAt
<1>. QED BY <1>1, SpecBooks, PTL

\* No more than two control messages are ever queued for a Worker, so that the Pool, which
\* awaits each send, never waits for one: an order to begin something is given at most once
\* until it is answered, and an order to end is the last.
THEOREM SpecControlQueueBounded == Spec => []ControlQueueBounded
<1>1. BInv => ControlQueueBounded
  <2>. SUFFICES ASSUME BInv, NEW w \in Workers PROVE Len(ctrl[w]) <= 2
    BY DEF ControlQueueBounded
  <2>1. ctrl[w] \in Seq(ControlMessage) /\ Fit(state[w], at[w], op[w], ctrl[w], out[w])
    BY DEF BInv, TypeOK, FitAt
  <2>. QED BY <2>1, ShortQueue
<1>. QED BY <1>1, SpecBooks, PTL

\* A Sandbox has one owner: one Worker, the orphan snapshots or the trash, never two of them
\* and never two Workers, across spawns from snapshots, exits and reaping; and
\* worker_by_sandbox leads to exactly the tracked Workers that told the Pool of theirs.
THEOREM SpecSandboxOwnedOnce == Spec => []SandboxOwnedOnce
<1>1. BInv => SandboxOwnedOnce
  <2>. SUFFICES ASSUME BInv, NEW s \in Workers
                PROVE  /\ Cardinality(Owners(s)) <= 1
                       /\ s \in snapshots \cup trashed => Owners(s) = {}
                       /\ s \notin snapshots \cap trashed
                       /\ \A w \in Workers : worker_by_sandbox[s] = w <=> sandbox_id[w] = s /\ state[w] # "None"
                       /\ \A w \in Owners(s) : sandbox_id[w] = s \/ InQueue(out[w], {"SandboxId"})
    BY DEF SandboxOwnedOnce
  <2>1. Cardinality(Owners(s)) <= 1
    <3>1. \A v, w \in Owners(s) : v = w
      BY DEF BInv, SharedAt, Live, Owners
    <3>2. CASE Owners(s) = {}
      <4>1. Cardinality({}) = 0
        BY FS_EmptySet
      <4>. QED BY <3>2, <4>1
    <3>3. CASE Owners(s) # {}
      <4>. PICK w : w \in Owners(s)
        BY <3>3
      <4>1. Owners(s) = {w}
        BY <3>1
      <4>2. Cardinality({w}) = 1
        BY FS_Singleton
      <4>3. Cardinality(Owners(s)) = 1
        BY <4>1, <4>2, Zenon
      <4>. QED BY <4>3
    <3>. QED BY <3>2, <3>3
  <2>2. s \in snapshots \cup trashed => Owners(s) = {}
    BY DEF BInv, SharedAt, Live, Owners
  <2>3. s \notin snapshots \cap trashed
    BY DEF BInv, SharedAt
  <2>4. \A w \in Workers : worker_by_sandbox[s] = w <=> sandbox_id[w] = s /\ state[w] # "None"
    BY DEF BInv, IndexAt
  <2>5. ASSUME NEW w \in Owners(s) PROVE sandbox_id[w] = s \/ InQueue(out[w], {"SandboxId"})
    <3>1. w \in Workers /\ box[w] = s /\ at[w] # "reaped" /\ s # None
      BY PoolAssumption DEF Owners
    <3>2. sandbox_id[w] = box[w] \/ Has(out[w], "SandboxId")
      BY <3>1 DEF BInv, OwningAt, Owning
    <3>. QED BY <3>1, <3>2 DEF Has, InQueue
  <2>. QED BY <2>1, <2>2, <2>3, <2>4, <2>5
<1>. QED BY <1>1, SpecBooks, PTL

-----------------------------------------------------------------------------
(***************************************************************************)
(* What a step may leave as it is.                                         *)
(***************************************************************************)

\* The invocation and the cpuset of v are where they were.
Same(v) ==
    /\ inflight' = v <=> inflight = v
    /\ v \in invoked' <=> v \in invoked
    /\ v \in cpu' <=> v \in cpu

\* The Pool goes on, or leaves its loop.
GoesOn == mode' = mode \/ (mode = "running" /\ mode' = "stopping")

LEMMA AttendedAs ==
    ASSUME NEW w, Attended(w)
    PROVE  \E x, y, k \in BOOLEAN :
              /\ (x <=> inflight = w) /\ (y <=> w \in invoked) /\ (k <=> w \in cpu)
              /\ w \notin overtaken => Serving(mode, x, y, k, state[w], at[w], op[w], ctrl[w], out[w])
  BY DEF Attended, Serving, OneInvocation, Serves, Answers, Ready, Returns, UnderWay

LEMMA NowAttended ==
    ASSUME Grows, NEW w, NEW m, NEW x, NEW y, NEW k, NEW st, NEW a, NEW o, NEW c, NEW q,
           w \notin overtaken => Serving(m, x, y, k, st, a, o, c, q), mode' = m,
           inflight' = w <=> x, w \in invoked' <=> y, w \in cpu' <=> k,
           state'[w] = st, at'[w] = a, op'[w] = o, ctrl'[w] = c, out'[w] = q
    PROVE  Attended(w)'
  BY DEF Grows, Attended, Serving, OneInvocation, Serves, Answers, Ready, Returns, UnderWay

LEMMA ServiceKept ==
    ASSUME Grows, TypeOK, FitAt, ServingAt, GoesOn,
           \A v \in Workers : (Same(v) /\ (Alike(v) \/ Dies(v))) \/ Attended(v)'
    PROVE  ServingAt'
<1>1. ASSUME NEW v \in Workers, Same(v) PROVE Alike(v) \/ Dies(v) => Attended(v)'
  <2>. PICK x, y, k \in BOOLEAN :
          /\ (x <=> inflight = v) /\ (y <=> v \in invoked) /\ (k <=> v \in cpu)
          /\ v \notin overtaken => Serving(mode, x, y, k, state[v], at[v], op[v], ctrl[v], out[v])
    BY AttendedAs DEF ServingAt
  <2>1. (inflight' = v <=> x) /\ (v \in invoked' <=> y) /\ (v \in cpu' <=> k)
    BY <1>1 DEF Same
  <2>2. mode' = "running" => mode = "running"
    BY DEF GoesOn
  <2>3. CASE Alike(v)
    <3>1. v \notin overtaken => Serving(mode', x, y, k, state[v], at[v], op[v], ctrl[v], out[v])
      BY ServingStops DEF GoesOn
    <3>. QED BY <2>1, <2>3, <3>1, NowAttended DEF Alike, Keeps
  <2>4. CASE Dies(v)
    <3>1. PICK r \in {"ShutDown", "DestroySandbox"} :
              ctrl'[v] = IF at[v] # "finished" THEN Append(ctrl[v], r) ELSE ctrl[v]
      BY <2>4 DEF Dies
    <3>2. ctrl[v] \in Seq(ControlMessage) /\ Fit(state[v], at[v], op[v], ctrl[v], out[v]) /\ state[v] \in {"Idle", "Active"}
      BY <2>4 DEF TypeOK, FitAt, Dies
    <3>3. v \notin overtaken => Serving(mode', x, y, k, "Dying", at[v], op[v], ctrl'[v], out[v])
      <4>. SUFFICES ASSUME v \notin overtaken PROVE Serving(mode', x, y, k, "Dying", at[v], op[v], ctrl'[v], out[v])
        OBVIOUS
      <4>1. PICK d, o2, m2 : d = ctrl'[v] /\ o2 = op[v] /\ m2 = mode'
        OBVIOUS
      <4>2. /\ at[v] # "finished" => d = Append(ctrl[v], r)
            /\ at[v] = "finished" => d = ctrl[v]
            /\ o2 = op[v] \/ (op[v] = None /\ o2 = "DestroySandbox")
            /\ m2 = "running" => mode = "running"
        BY <2>2, <3>1, <4>1
      <4>3. Serving(m2, x, y, k, "Dying", at[v], o2, d, out[v])
        BY <3>2, <4>2, ServingDies
      <4>. QED BY <4>1, <4>3
    <3>4. /\ state'[v] = "Dying" /\ at'[v] = at[v] /\ op'[v] = op[v] /\ out'[v] = out[v]
          /\ mode' = mode' /\ ctrl'[v] = ctrl'[v]
      BY <2>4 DEF Dies, Keeps
    <3>. QED BY <2>1, <3>3, <3>4, NowAttended
  <2>. QED BY <2>3, <2>4
<1>. QED BY <1>1 DEF ServingAt

\* The calls that wait in another context still do.
LEMMA WaitsKept ==
    ASSUME WaitingAt, mode # "exited",
           \A c \in Calls :
              \/ call'[c] = Done
              \/ Awaits(c)'
              \/ /\ call'[c] = call[c]
                 /\ call[c].op \in {"PrepareSandbox", "DestroySandbox"} => op'[call[c].on] = op[call[c].on]
                 /\ call[c].op = "Snapshot" =>
                       /\ worker_by_sandbox'[call[c].on] = worker_by_sandbox[call[c].on]
                       /\ op'[worker_by_sandbox[call[c].on]] = op[worker_by_sandbox[call[c].on]]
    PROVE  WaitingAt'
<1>1. ASSUME NEW c \in Calls PROVE Awaits(c)'
  <2>1. Awaits(c)
    BY DEF WaitingAt
  <2>2. CASE call'[c] = Done
    BY <2>2 DEF Awaits, Done
  <2>. QED BY <2>1, <2>2 DEF Awaits
<1>. QED BY <1>1 DEF WaitingAt

\* A step of the Worker w leaves the others, and the Pool, alone.
LEMMA WorkerServes ==
    ASSUME Grows, RInv, NEW w \in Workers, UNCHANGED poolVars,
           \A v \in Workers \ {w} : /\ at'[v] = at[v] /\ ctrl'[v] = ctrl[v] /\ out'[v] = out[v]
                                    /\ exit'[v] = exit[v] /\ box'[v] = box[v]
                                    /\ v \in invoked' <=> v \in invoked,
           Attended(w)'
    PROVE  ServingAt' /\ WaitingAt'
<1>. USE DEF poolVars, storeVars, timerVars, memVars, boxVars, ctlVars
<1>1. \A v \in Workers \ {w} : Same(v) /\ Alike(v)
  BY DEF Same, Alike, Keeps
<1>2. ServingAt'
  BY <1>1, ServiceKept DEF RInv, BInv, GoesOn
<1>3. WaitingAt'
  BY DEF RInv, WaitingAt, Awaits
<1>. QED BY <1>2, <1>3

-----------------------------------------------------------------------------
(***************************************************************************)
(* The steps of the Workers.                                               *)
(***************************************************************************)

LEMMA Of ==
    ASSUME RInv, NEW w \in Workers
    PROVE  /\ Attended(w) /\ BInv /\ TypeOK
           /\ Fit(state[w], at[w], op[w], ctrl[w], out[w]) /\ at[w] \in Place
           /\ ctrl[w] \in Seq(ControlMessage) /\ out[w] \in Seq(OutboundMessage)
  BY BooksOf DEF RInv, BInv, ServingAt, Books

\* A call that waits waits for a Worker or a Sandbox.
LEMMA PendingOn ==
    ASSUME RInv, NEW c \in Calls, call[c].op \in PendingControlOp
    PROVE  call[c].on \in Workers
<1>1. call[c] \in CallType
  BY DEF RInv, BInv, TypeOK
<1>. QED BY <1>1 DEF CallType, New, Done, PendingControlOp

LEMMA WorkerInitServes ==
    ASSUME Grows, RInv, NEW w \in Workers, WorkerInit(w)
    PROVE  ServingAt' /\ WaitingAt'
<1>. PICK x, y, k \in BOOLEAN :
        /\ (x <=> inflight = w) /\ (y <=> w \in invoked) /\ (k <=> w \in cpu)
        /\ w \notin overtaken => Serving(mode, x, y, k, state[w], at[w], op[w], ctrl[w], out[w])
  BY Of, AttendedAs
<1>1. w \notin overtaken => Serving(mode, x, y, k, state[w], "loop", op[w], ctrl[w], out[w])
  BY ServingInit DEF WorkerInit
<1>2. Attended(w)'
  <2>1. mode' = mode /\ state' = state /\ op' = op /\ ctrl' = ctrl /\ out' = out /\ at'[w] = "loop"
    BY Of DEF WorkerInit, poolVars, storeVars, ctlVars, TypeOK
  <2>2. (inflight' = w <=> x) /\ (w \in invoked' <=> y) /\ (w \in cpu' <=> k)
    BY DEF WorkerInit, poolVars
  <2>. QED BY <1>1, <2>1, <2>2, NowAttended
<1>. QED BY <1>2, Of, WorkerServes DEF WorkerInit, TypeOK

LEMMA handle_requestServes ==
    ASSUME Grows, RInv, NEW w \in Workers, handle_request(w)
    PROVE  ServingAt' /\ WaitingAt'
<1>. PICK x, y, k \in BOOLEAN :
        /\ (x <=> inflight = w) /\ (y <=> w \in invoked) /\ (k <=> w \in cpu)
        /\ w \notin overtaken => Serving(mode, x, y, k, state[w], at[w], op[w], ctrl[w], out[w])
  BY Of, AttendedAs
<1>1. w \notin overtaken => Serving(mode, x, FALSE, k, state[w], "busy", op[w], ctrl[w], out[w])
  <2>. SUFFICES ASSUME w \notin overtaken PROVE Serving(mode, x, FALSE, k, state[w], "busy", op[w], ctrl[w], out[w])
    OBVIOUS
  <2>1. y /\ at[w] = "loop"
    BY DEF handle_request
  <2>2. /\ Serving(mode, x, y, k, state[w], "loop", op[w], ctrl[w], out[w])
        /\ Fit(state[w], "loop", op[w], ctrl[w], out[w])
    BY <2>1, Of
  <2>. QED BY <2>1, <2>2, ServingTakes
<1>2. Attended(w)'
  <2>1. mode' = mode /\ state' = state /\ op' = op /\ ctrl' = ctrl /\ out' = out /\ at'[w] = "busy"
    BY Of DEF handle_request, poolVars, storeVars, ctlVars, TypeOK
  <2>2. (inflight' = w <=> x) /\ w \notin invoked' /\ (w \in cpu' <=> k)
    BY DEF handle_request, poolVars
  <2>. QED BY <1>1, <2>1, <2>2, NowAttended
<1>. QED BY <1>2, Of, WorkerServes DEF handle_request, TypeOK

LEMMA create_sandboxServes ==
    ASSUME Grows, RInv, NEW w \in Workers, create_sandbox(w)
    PROVE  ServingAt' /\ WaitingAt'
<1>. PICK x, y, k \in BOOLEAN :
        /\ (x <=> inflight = w) /\ (y <=> w \in invoked) /\ (k <=> w \in cpu)
        /\ w \notin overtaken => Serving(mode, x, y, k, state[w], at[w], op[w], ctrl[w], out[w])
  BY Of, AttendedAs
<1>. PICK q : q = Append(out[w], "SandboxId")
  OBVIOUS
<1>1. w \notin overtaken => Serving(mode, x, y, k, state[w], at[w], op[w], ctrl[w], q)
  BY Of, ServingCreates DEF create_sandbox
<1>2. /\ out' = [out EXCEPT ![w] = q] /\ box' = [box EXCEPT ![w] = w]
      /\ UNCHANGED <<poolVars, at, invoked, ctrl, exit>>
  BY DEF create_sandbox
<1>3. Attended(w)'
  <2>1. mode' = mode /\ state' = state /\ op' = op /\ ctrl' = ctrl /\ at' = at /\ out'[w] = q
    BY <1>2, Of DEF poolVars, storeVars, ctlVars, TypeOK
  <2>2. (inflight' = w <=> x) /\ (w \in invoked' <=> y) /\ (w \in cpu' <=> k)
    BY <1>2 DEF poolVars
  <2>. QED BY <1>1, <2>1, <2>2, NowAttended
<1>. QED BY <1>2, <1>3, Of, WorkerServes DEF TypeOK

LEMMA RequestEndsServes ==
    ASSUME Grows, RInv, NEW w \in Workers, RequestEnds(w)
    PROVE  ServingAt' /\ WaitingAt'
<1>. PICK x, y, k \in BOOLEAN :
        /\ (x <=> inflight = w) /\ (y <=> w \in invoked) /\ (k <=> w \in cpu)
        /\ w \notin overtaken => Serving(mode, x, y, k, state[w], at[w], op[w], ctrl[w], out[w])
  BY Of, AttendedAs
<1>. PICK r : r = IF at[w] = "busy" THEN "NeedWork" ELSE "Prepared"
  OBVIOUS
<1>. PICK q : q = Append(out[w], r)
  OBVIOUS
<1>1. w \notin overtaken => Serving(mode, x, y, k, state[w], "loop", op[w], ctrl[w], q)
  <2>. SUFFICES ASSUME w \notin overtaken PROVE Serving(mode, x, y, k, state[w], "loop", op[w], ctrl[w], q)
    OBVIOUS
  <2>1. /\ at[w] \in {"busy", "preparing"} /\ out[w] \in Seq(OutboundMessage)
        /\ Fit(state[w], at[w], op[w], ctrl[w], out[w])
    BY Of DEF RequestEnds
  <2>2. Serving(mode, x, y, k, state[w], "loop", op[w], ctrl[w], Append(out[w], r))
    BY <2>1, ServingAnswers
  <2>. QED BY <2>2
<1>2. /\ out' = [out EXCEPT ![w] = q] /\ at' = [at EXCEPT ![w] = "loop"]
      /\ UNCHANGED <<poolVars, invoked, ctrl, box, exit>>
  BY DEF RequestEnds
<1>3. Attended(w)'
  <2>1. mode' = mode /\ state' = state /\ op' = op /\ ctrl' = ctrl /\ at'[w] = "loop" /\ out'[w] = q
    BY <1>2, Of DEF poolVars, storeVars, ctlVars, TypeOK
  <2>2. (inflight' = w <=> x) /\ (w \in invoked' <=> y) /\ (w \in cpu' <=> k)
    BY <1>2 DEF poolVars
  <2>. QED BY <1>1, <2>1, <2>2, NowAttended
<1>. QED BY <1>2, <1>3, Of, WorkerServes DEF TypeOK

LEMMA EndsServes ==
    ASSUME Grows, RInv, NEW w \in Workers,
           \/ WorkerInitFails(w)
           \/ \E e \in SandboxExit : RequestFails(w, e) \/ HandleShutDown(w, e) \/ HandleDestroySandbox(w, e)
    PROVE  ServingAt' /\ WaitingAt'
<1>. PICK x, y, k \in BOOLEAN :
        /\ (x <=> inflight = w) /\ (y <=> w \in invoked) /\ (k <=> w \in cpu)
        /\ w \notin overtaken => Serving(mode, x, y, k, state[w], at[w], op[w], ctrl[w], out[w])
  BY Of, AttendedAs
<1>1. PICK s \in {<<>>, <<"PrepFailed">>}, e \in SandboxExit :
         /\ Finish(w, s, e) /\ at[w] \in AtWork
         /\ s = <<>> \/ (s = <<"PrepFailed">> /\ at[w] = "preparing")
         /\ e \in {"Reusable", "Trashed"} => box[w] # None
         /\ at[w] = "loop" => state[w] = "Dying"
  BY Of, EndsBooks
<1>. PICK p : p = out'[w]
  OBVIOUS
<1>2. p = IF s = <<>> THEN Append(out[w], "ReapMe") ELSE Append(Append(out[w], "PrepFailed"), "ReapMe")
  BY <1>1, Of, FinishBooks
<1>3. w \notin overtaken => Serving(mode, x, FALSE, k, state[w], "finished", op[w], <<>>, p)
  <2>. SUFFICES ASSUME w \notin overtaken PROVE Serving(mode, x, FALSE, k, state[w], "finished", op[w], <<>>, p)
    OBVIOUS
  <2>1. \/ p = Append(out[w], "ReapMe")
        \/ at[w] = "preparing" /\ p = Append(Append(out[w], "PrepFailed"), "ReapMe")
    BY <1>1, <1>2
  <2>2. at[w] \in {"starting", "loop", "busy", "preparing"} /\ (at[w] = "loop" => state[w] = "Dying")
    BY <1>1 DEF AtWork
  <2>3. out[w] \in Seq(OutboundMessage) /\ Fit(state[w], at[w], op[w], ctrl[w], out[w])
    BY Of
  <2>4. CASE p = Append(out[w], "ReapMe")
    BY <2>2, <2>3, <2>4, ServingFinishes
  <2>5. CASE at[w] = "preparing" /\ p = Append(Append(out[w], "PrepFailed"), "ReapMe")
    BY <2>2, <2>3, <2>5, ServingFinishes
  <2>. QED BY <2>1, <2>4, <2>5
<1>4. /\ at' = [at EXCEPT ![w] = "finished"] /\ exit' = [exit EXCEPT ![w] = e] /\ ctrl' = [ctrl EXCEPT ![w] = <<>>]
      /\ invoked' = invoked \ {w} /\ UNCHANGED <<poolVars, box>>
  BY <1>1 DEF Finish
<1>5. \A v \in Workers \ {w} : out'[v] = out[v]
  BY <1>1, Of DEF Finish, TypeOK
<1>6. Attended(w)'
  <2>1. mode' = mode /\ state' = state /\ op' = op /\ ctrl'[w] = <<>> /\ at'[w] = "finished" /\ out'[w] = p
    BY <1>4, Of DEF poolVars, storeVars, ctlVars, TypeOK
  <2>2. (inflight' = w <=> x) /\ w \notin invoked' /\ (w \in cpu' <=> k)
    BY <1>4 DEF poolVars
  <2>. QED BY <1>3, <2>1, <2>2, NowAttended
<1>. QED BY <1>4, <1>5, <1>6, Of, WorkerServes DEF TypeOK

LEMMA ControlServes ==
    ASSUME Grows, RInv, NEW w \in Workers, handle_prepare_sandbox_request(w) \/ handle_snapshot_request(w)
    PROVE  ServingAt' /\ WaitingAt'
<1>. PICK x, y, k \in BOOLEAN :
        /\ (x <=> inflight = w) /\ (y <=> w \in invoked) /\ (k <=> w \in cpu)
        /\ w \notin overtaken => Serving(mode, x, y, k, state[w], at[w], op[w], ctrl[w], out[w])
  BY Of, AttendedAs
<1>. PICK c, q : c = Tail(ctrl[w]) /\ q = Append(out[w], "Snapshotted")
  OBVIOUS
<1>1. /\ at[w] = "loop" /\ ~y /\ ctrl[w] # <<>>
      /\ w \notin overtaken => Serving(mode, x, y, k, state[w], "loop", op[w], ctrl[w], out[w])
      /\ Fit(state[w], "loop", op[w], ctrl[w], out[w])
  BY Of DEF handle_prepare_sandbox_request, handle_snapshot_request, Control
<1>2. CASE handle_prepare_sandbox_request(w)
  <2>1. w \notin overtaken => Serving(mode, x, y, k, state[w], "preparing", op[w], c, out[w])
    BY <1>1, <1>2, Of, ServingPrepares DEF handle_prepare_sandbox_request, Control
  <2>2. /\ at' = [at EXCEPT ![w] = "preparing"] /\ ctrl' = [ctrl EXCEPT ![w] = c]
        /\ UNCHANGED <<poolVars, invoked, out, box, exit>>
    BY <1>2 DEF handle_prepare_sandbox_request
  <2>3. Attended(w)'
    <3>1. mode' = mode /\ state' = state /\ op' = op /\ out' = out /\ at'[w] = "preparing" /\ ctrl'[w] = c
      BY <2>2, Of DEF poolVars, storeVars, ctlVars, TypeOK
    <3>2. (inflight' = w <=> x) /\ (w \in invoked' <=> y) /\ (w \in cpu' <=> k)
      BY <2>2 DEF poolVars
    <3>. QED BY <2>1, <3>1, <3>2, NowAttended
  <2>. QED BY <2>2, <2>3, Of, WorkerServes DEF TypeOK
<1>3. CASE handle_snapshot_request(w)
  <2>1. w \notin overtaken' => ~x /\ w \notin overtaken
    BY <1>3 DEF handle_snapshot_request
  <2>0. w \notin overtaken' => Serving(mode, x, y, k, state[w], "loop", op[w], c, q)
    BY <2>1, <1>1, <1>3, Of, ServingSnapped DEF handle_snapshot_request, Control
  <2>2. /\ ctrl' = [ctrl EXCEPT ![w] = c] /\ out' = [out EXCEPT ![w] = q]
        /\ UNCHANGED <<poolVars, at, invoked, box, exit>>
    BY <1>3 DEF handle_snapshot_request
  <2>3. Attended(w)'
    <3>1. mode' = mode /\ state' = state /\ op' = op /\ at' = at /\ out'[w] = q /\ ctrl'[w] = c
      BY <2>2, Of DEF poolVars, storeVars, ctlVars, TypeOK
    <3>2. (inflight' = w <=> x) /\ (w \in invoked' <=> y) /\ (w \in cpu' <=> k)
      BY <2>2 DEF poolVars
    <3>3. CASE w \in overtaken'
      BY <3>3 DEF Attended
    <3>4. CASE w \notin overtaken'
      <4>1. Serving(mode, x, y, k, state[w], "loop", op[w], c, q)
        BY <2>0, <3>4
      <4>. QED BY <1>1, <3>1, <3>2, <4>1, NowAttended
    <3>. QED BY <3>3, <3>4
  <2>. QED BY <2>2, <2>3, Of, WorkerServes DEF TypeOK
<1>. QED BY <1>2, <1>3

LEMMA WorkerStepServes ==
    ASSUME Grows, RInv, NEW w \in Workers, WorkerStep(w)
    PROVE  ServingAt' /\ WaitingAt'
  BY WorkerInitServes, handle_requestServes, create_sandboxServes, RequestEndsServes, EndsServes, ControlServes
     DEF WorkerStep

-----------------------------------------------------------------------------
(***************************************************************************)
(* The Pool receives a message.                                            *)
(***************************************************************************)

\* The end of an invocation or of an operation: the Worker may be deactivated.
LEMMA HearsServes ==
    ASSUME Grows, RInv, NEW w \in Workers, NEW m \in {"NeedWork", "Prepared", "PrepFailed", "Snapshotted"},
           Receive(w, m), NEW D,
           \/ /\ deactivate_worker(w, D) /\ mode = "running" /\ m # "PrepFailed"
              /\ m = "NeedWork" => op[w] = None
           \/ UNCHANGED <<state, acct, inuse, reclaimed, timerVars, ctrl>>,
           m = "NeedWork" => UNCHANGED op, m # "NeedWork" => op' = [op EXCEPT ![w] = None],
           GoesOn, \A v \in Workers \ {w} : v \in cpu' <=> v \in cpu,
           w \in cpu' => w \in cpu /\ m = "Snapshotted",
           UNCHANGED <<sandbox_id, leaked, inflight, at, invoked, box, exit>>
    PROVE  ServingAt'
<1>. PICK x, y, k \in BOOLEAN :
        /\ (x <=> inflight = w) /\ (y <=> w \in invoked) /\ (k <=> w \in cpu)
        /\ w \notin overtaken => Serving(mode, x, y, k, state[w], at[w], op[w], ctrl[w], out[w])
  BY Of, AttendedAs
<1>0. PICK k2 \in BOOLEAN : k2 <=> w \in cpu'
  OBVIOUS
<1>. PICK m2 : m2 = mode'
  OBVIOUS
<1>. PICK q, r : q = out[w] /\ r = Tail(out[w])
  OBVIOUS
<1>1. /\ q # <<>> /\ Head(q) = m /\ r = Tail(q)
      /\ out'[w] = r /\ \A v \in Workers \ {w} : out'[v] = out[v]
  BY Of, Received
<1>2. /\ \A v \in Workers \ {w} : state'[v] = state[v] /\ ctrl'[v] = ctrl[v]
      /\ \/ state'[w] = state[w] /\ ctrl'[w] = ctrl[w]
         \/ state[w] = "Active" /\ state'[w] = "Idle" /\ ctrl'[w] = ctrl[w]
         \/ /\ state[w] = "Active" /\ state'[w] = "Dying"
            /\ ctrl'[w] = IF at[w] # "finished" THEN Append(ctrl[w], "ShutDown") ELSE ctrl[w]
  <2>1. mode' = "running" => mode = "running"
    BY DEF GoesOn
  <2>. QED BY <2>1, Of, Deactivated
<1>3. /\ op'[w] = IF m = "NeedWork" THEN op[w] ELSE None
      /\ \A v \in Workers \ {w} : op'[v] = op[v]
  BY Of DEF TypeOK
<1>4. /\ w \notin overtaken => Serving(mode, x, y, k, state[w], at[w], op[w], ctrl[w], q)
      /\ q \in Seq(OutboundMessage)
      /\ ctrl[w] \in Seq(ControlMessage) /\ Fit(state[w], at[w], op[w], ctrl[w], q)
      /\ m2 = "running" => mode = "running"
      /\ k2 => k /\ m = "Snapshotted"
  BY <1>0, Of DEF GoesOn
<1>5. ASSUME NEW st, NEW c, Serving(mode, x, y, k, st, at[w], op[w], c, q)
      PROVE  Serving(m2, x, y, k2, st, at[w], op'[w], c, r)
  <2>1. CASE m = "NeedWork"
    <3>1. Serving(m2, x, y, k2, st, at[w], op[w], c, r)
      BY <1>1, <1>4, <1>5, <2>1, ServingHears
    <3>. QED BY <1>3, <2>1, <3>1
  <2>2. CASE m # "NeedWork"
    <3>1. Serving(m2, x, y, k2, st, at[w], None, c, r)
      BY <1>1, <1>4, <1>5, <2>2, ServingEnds
    <3>. QED BY <1>3, <2>2, <3>1
  <2>. QED BY <2>1, <2>2
<1>6. w \notin overtaken => Serving(m2, x, y, k2, state'[w], at[w], op'[w], ctrl'[w], r)
  <2>. SUFFICES ASSUME w \notin overtaken PROVE Serving(m2, x, y, k2, state'[w], at[w], op'[w], ctrl'[w], r)
    OBVIOUS
  <2>1. CASE state'[w] = state[w] /\ ctrl'[w] = ctrl[w]
    BY <1>4, <1>5, <2>1
  <2>2. CASE state[w] = "Active" /\ state'[w] = "Idle" /\ ctrl'[w] = ctrl[w]
    <3>1. mode = "running" /\ m # "PrepFailed" /\ (m = "NeedWork" => op[w] = None)
      BY <2>2
    <3>2. m2 \in {"running", "stopping"} /\ op'[w] = None
      BY <1>3, <3>1 DEF GoesOn
    <3>3. /\ Serving("running", x, y, k, "Active", at[w], op[w], ctrl[w], q)
          /\ Fit("Active", at[w], op[w], ctrl[w], q)
      BY <1>4, <2>2, <3>1
    <3>4. /\ ctrl[w] \in Seq(ControlMessage) /\ q \in Seq(OutboundMessage) /\ q # <<>> /\ r = Tail(q)
          /\ Head(q) \in {"NeedWork", "Prepared", "Snapshotted"} /\ (Head(q) = "NeedWork" => op[w] = None)
          /\ k2 => k /\ Head(q) = "Snapshotted"
      BY <1>1, <1>4, <3>1
    <3>5. Serving(m2, x, y, k2, "Idle", at[w], None, ctrl[w], Tail(q))
      BY <3>2, <3>3, <3>4, ServingRests
    <3>. QED BY <2>2, <3>2, <3>4, <3>5
  <2>3. CASE /\ state[w] = "Active" /\ state'[w] = "Dying"
             /\ ctrl'[w] = IF at[w] # "finished" THEN Append(ctrl[w], "ShutDown") ELSE ctrl[w]
    <3>. PICK d : d = ctrl'[w]
      OBVIOUS
    <3>1. /\ at[w] # "finished" => d = Append(ctrl[w], "ShutDown")
          /\ at[w] = "finished" => d = ctrl[w]
          /\ state[w] \in {"Idle", "Active"} /\ "ShutDown" \in {"ShutDown", "DestroySandbox"}
      BY <2>3
    <3>2. Serving(mode, x, y, k, "Dying", at[w], op[w], d, q)
      BY <1>4, <3>1, ServingDies
    <3>. QED BY <1>5, <2>3, <3>2
  <2>. QED BY <1>2, <2>1, <2>2, <2>3
<1>7. Attended(w)'
  <2>1. (inflight' = w <=> x) /\ (w \in invoked' <=> y) /\ (w \in cpu' <=> k2) /\ mode' = m2 /\ at'[w] = at[w]
    BY <1>0
  <2>. QED BY <1>1, <1>6, <2>1, NowAttended
<1>8. \A v \in Workers \ {w} : Same(v) /\ Alike(v)
  BY <1>1, <1>2, <1>3 DEF Same, Alike, Keeps
<1>. QED BY <1>7, <1>8, ServiceKept DEF RInv, BInv

\* The operation that is pending on w ends, and those who wait for it are answered.
LEMMA EndsWaits ==
    ASSUME RInv, NEW w \in Workers, mode # "exited", op' = [op EXCEPT ![w] = None],
           \A c \in Calls :
              \/ call'[c] = Done
              \/ /\ call'[c] = call[c]
                 /\ call[c].op \in {"PrepareSandbox", "DestroySandbox"} => call[c].on # w
                 /\ call[c].op = "Snapshot" => worker_by_sandbox[call[c].on] # w,
           \A s \in Workers : worker_by_sandbox[s] \in {w, None} \/ worker_by_sandbox'[s] = worker_by_sandbox[s]
    PROVE  WaitingAt'
<1>1. ASSUME NEW c \in Calls, call[c].op \in PendingControlOp PROVE call[c].on \in Workers
  BY <1>1, PendingOn
<1>2. ASSUME NEW c \in Calls, call'[c] # Done
      PROVE  /\ call'[c] = call[c]
             /\ call[c].op \in {"PrepareSandbox", "DestroySandbox"} => op'[call[c].on] = op[call[c].on]
             /\ call[c].op = "Snapshot" =>
                   /\ worker_by_sandbox'[call[c].on] = worker_by_sandbox[call[c].on]
                   /\ op'[worker_by_sandbox[call[c].on]] = op[worker_by_sandbox[call[c].on]]
  <2>1. Awaits(c)
    BY DEF RInv, WaitingAt
  <2>2. call'[c] = call[c]
    BY <1>2
  <2>3. CASE call[c].op \in {"PrepareSandbox", "DestroySandbox"}
    <3>1. call[c].on \in Workers \ {w}
      BY <1>1, <1>2, <2>3 DEF PendingControlOp
    <3>. QED BY <2>2, <2>3, <3>1, Of DEF TypeOK
  <2>4. CASE call[c].op = "Snapshot"
    <3>1. call[c].on \in Workers /\ worker_by_sandbox[call[c].on] \notin {w, None}
      BY <1>1, <1>2, <2>1, <2>4 DEF PendingControlOp, Awaits
    <3>2. worker_by_sandbox[call[c].on] \in Workers \ {w}
      BY <3>1, Of DEF TypeOK
    <3>. QED BY <2>2, <2>4, <3>1, <3>2, Of DEF TypeOK
  <2>. QED BY <2>2, <2>3, <2>4
<1>. QED BY <1>2, WaitsKept DEF RInv

\* The calls in the context of an operation that is pending on w.
LEMMA InContext ==
    ASSUME RInv, NEW w \in Workers, mode # "exited", NEW c \in Calls
    PROVE  /\ call[c].op \in {"PrepareSandbox", "DestroySandbox"} /\ call[c].on = w =>
                 call[c] = Waiting(op[w], w)
           /\ call[c].op = "Snapshot" /\ worker_by_sandbox[call[c].on] = w =>
                 /\ op[w] = "Snapshot" /\ call[c] = Waiting("Snapshot", sandbox_id[w])
                 /\ sandbox_id[w] \in Workers /\ box[w] = sandbox_id[w]
<1>1. Awaits(c) /\ call[c] \in CallType /\ None \notin Workers /\ None \notin PendingControlOp
  BY Of, PoolAssumption DEF RInv, WaitingAt, TypeOK
<1>2. call[c].op \in PendingControlOp => call[c] \in [op : PendingControlOp, on : Workers]
  BY <1>1 DEF CallType, New, Done, PendingControlOp
<1>3. call[c].op \in PendingControlOp => call[c] = Waiting(call[c].op, call[c].on) /\ call[c].on \in Workers
  BY <1>2 DEF Waiting
<1>4. ASSUME call[c].op \in {"PrepareSandbox", "DestroySandbox"}, call[c].on = w
      PROVE  call[c] = Waiting(op[w], w)
  <2>1. op[w] = call[c].op
    BY <1>1, <1>4 DEF Awaits
  <2>. QED BY <1>3, <1>4, <2>1 DEF PendingControlOp
<1>5. ASSUME call[c].op = "Snapshot", worker_by_sandbox[call[c].on] = w
      PROVE  /\ op[w] = "Snapshot" /\ call[c] = Waiting("Snapshot", sandbox_id[w])
             /\ sandbox_id[w] \in Workers /\ box[w] = sandbox_id[w]
  <2>1. op[w] = "Snapshot" /\ call[c].on \in Workers /\ call[c] = Waiting("Snapshot", call[c].on)
    BY <1>1, <1>3, <1>5 DEF Awaits, PendingControlOp
  <2>2. sandbox_id[w] = call[c].on
    BY <1>5, <2>1, Of DEF BInv, IndexAt
  <2>3. box[w] = sandbox_id[w]
    BY <1>1, <2>1, <2>2, Of, BooksOf DEF Books, Owning
  <2>. QED BY <2>1, <2>2, <2>3
<1>. QED BY <1>4, <1>5

LEMMA update_sandbox_idServes ==
    ASSUME Grows, RInv, NEW w \in Workers, update_sandbox_id(w)
    PROVE  ServingAt' /\ WaitingAt'
<1>. PICK x, y, k \in BOOLEAN :
        /\ (x <=> inflight = w) /\ (y <=> w \in invoked) /\ (k <=> w \in cpu)
        /\ w \notin overtaken => Serving(mode, x, y, k, state[w], at[w], op[w], ctrl[w], out[w])
  BY Of, AttendedAs
<1>1. /\ Receive(w, "SandboxId") /\ worker_by_sandbox' = [worker_by_sandbox EXCEPT ![w] = w]
      /\ sandbox_id' = [sandbox_id EXCEPT ![w] = w] /\ mode \in {"running", "draining"}
      /\ UNCHANGED <<mode, state, cpu, ctlVars, inflight, at, invoked, ctrl, box, exit>>
  BY DEF update_sandbox_id, Up
<1>2. /\ out[w] # <<>> /\ Head(out[w]) = "SandboxId" /\ out'[w] = Tail(out[w])
      /\ \A v \in Workers \ {w} : out'[v] = out[v]
  BY <1>1, Of, Received
<1>3. w \notin overtaken => Serving(mode, x, y, k, state[w], at[w], op[w], ctrl[w], Tail(out[w]))
  <2>. SUFFICES ASSUME w \notin overtaken PROVE Serving(mode, x, y, k, state[w], at[w], op[w], ctrl[w], Tail(out[w]))
    OBVIOUS
  <2>1. out[w] \in Seq(OutboundMessage)
    BY Of
  <2>. QED BY <1>2, <2>1, ServingHears
<1>4. Attended(w)'
  <2>1. (inflight' = w <=> x) /\ (w \in invoked' <=> y) /\ (w \in cpu' <=> k)
    BY <1>1
  <2>2. mode' = mode /\ state'[w] = state[w] /\ at'[w] = at[w] /\ op'[w] = op[w] /\ ctrl'[w] = ctrl[w]
    BY <1>1 DEF ctlVars
  <2>. QED BY <1>2, <1>3, <2>1, <2>2, NowAttended
<1>5. \A v \in Workers \ {w} : Same(v) /\ Alike(v)
  BY <1>1, <1>2, Of DEF Same, Alike, Keeps, ctlVars, TypeOK
<1>6. ServingAt'
  BY <1>1, <1>4, <1>5, ServiceKept DEF RInv, BInv, GoesOn
<1>7. worker_by_sandbox[w] = None
  <2>1. sandbox_id[w] = None /\ box[w] = w /\ at[w] # "reaped"
    <3>1. Has(out[w], "SandboxId")
      BY <1>2, Of, HasTail
    <3>. QED BY <1>1, <3>1, Of, BooksOf, Tracked DEF Books, Owning, OutboundMessage
  <2>2. ASSUME NEW v \in Workers, sandbox_id[v] = w, state[v] # "None" PROVE FALSE
    <3>1. box[v] = w /\ at[v] # "reaped" /\ None \notin Workers
      BY <2>2, Of, BooksOf, PoolAssumption DEF Books, Fit, Owning
    <3>2. v = w
      BY <2>1, <3>1, Of DEF BInv, SharedAt, Live
    <3>. QED BY <2>1, <2>2, <3>1, <3>2
  <2>. QED BY <2>2, Of DEF BInv, IndexAt, TypeOK
<1>8. WaitingAt'
  <2>1. \A s \in Workers : s # w => worker_by_sandbox'[s] = worker_by_sandbox[s]
    BY <1>1, Of DEF TypeOK
  <2>2. ASSUME NEW c \in Calls PROVE Awaits(c)'
    <3>1. Awaits(c) /\ call' = call /\ op' = op
      BY <1>1, Of DEF RInv, WaitingAt, ctlVars
    <3>2. ASSUME call[c].op = "Snapshot" PROVE call[c].on \in Workers
      BY <3>2, PendingOn DEF PendingControlOp
    <3>. QED BY <1>7, <2>1, <3>1, <3>2 DEF Awaits
  <2>. QED BY <2>2 DEF WaitingAt
<1>. QED BY <1>6, <1>8

LEMMA on_need_workServes ==
    ASSUME Grows, RInv, NEW w \in Workers, on_need_work(w) \/ DrainNeedWork(w)
    PROVE  ServingAt' /\ WaitingAt'
<1>1. ServingAt'
  <2>. PICK m : m = "NeedWork"
    OBVIOUS
  <2>. PICK D : D = assign(fn[w])
    OBVIOUS
  <2>1. /\ Receive(w, m) /\ m = "NeedWork" /\ cpu' = cpu \ {w}
        /\ \/ deactivate_worker(w, D) /\ mode = "running" /\ op[w] = None
           \/ UNCHANGED <<state, acct, inuse, reclaimed, timerVars, ctrl>>
        /\ GoesOn
        /\ UNCHANGED <<op, sandbox_id, leaked, inflight, at, invoked, box, exit>>
    BY DEF on_need_work, DrainNeedWork, storeVars, memVars, boxVars, ctlVars, timerVars, cpuset_release, GoesOn
  <2>2. w \notin cpu' /\ \A v \in Workers \ {w} : v \in cpu' <=> v \in cpu
    BY <2>1
  <2>3. m \in {"NeedWork", "Prepared", "PrepFailed", "Snapshotted"} /\ m # "PrepFailed"
    BY <2>1
  <2>. QED BY <2>1, <2>2, <2>3, HearsServes
<1>2. WaitingAt'
  BY DEF on_need_work, DrainNeedWork, storeVars, ctlVars, RInv, WaitingAt, Awaits
<1>. QED BY <1>1, <1>2

LEMMA finalize_sandbox_preparationServes ==
    ASSUME Grows, RInv, NEW w \in Workers, NEW m \in {"Prepared", "PrepFailed"},
           finalize_sandbox_preparation(w, m) \/ DrainPreparation(w, m)
    PROVE  ServingAt' /\ WaitingAt'
<1>1. /\ Receive(w, m) /\ cpu' = cpu \ {w} /\ op' = [op EXCEPT ![w] = None] /\ mode \in {"running", "draining"}
      /\ call' = Answered({Waiting("PrepareSandbox", w)})
      /\ GoesOn
      /\ UNCHANGED <<sandbox_id, worker_by_sandbox, leaked, inflight, at, invoked, box, exit>>
  BY DEF finalize_sandbox_preparation, DrainPreparation, storeVars, memVars, boxVars, cpuset_release, GoesOn
<1>2. ServingAt'
  <2>. PICK D : D = assign(fn[w])
    OBVIOUS
  <2>1. \/ deactivate_worker(w, D) /\ mode = "running" /\ m # "PrepFailed"
        \/ UNCHANGED <<state, acct, inuse, reclaimed, timerVars, ctrl>>
    BY DEF finalize_sandbox_preparation, DrainPreparation, storeVars, memVars, timerVars
  <2>2. w \notin cpu' /\ \A v \in Workers \ {w} : v \in cpu' <=> v \in cpu
    BY <1>1
  <2>3. m \in {"NeedWork", "Prepared", "PrepFailed", "Snapshotted"} /\ m # "NeedWork"
    OBVIOUS
  <2>. QED BY <1>1, <2>1, <2>2, <2>3, HearsServes
<1>3. WaitingAt'
  <2>1. op[w] = "PrepareSandbox"
    <3>1. Has(out[w], m)
      BY <1>1, Of, Received, HasTail
    <3>. QED BY <3>1, Of DEF Fit
  <2>2. ASSUME NEW c \in Calls
        PROVE  \/ call'[c] = Done
               \/ /\ call'[c] = call[c]
                  /\ call[c].op \in {"PrepareSandbox", "DestroySandbox"} => call[c].on # w
                  /\ call[c].op = "Snapshot" => worker_by_sandbox[call[c].on] # w
    <3>1. call'[c] = IF call[c] \in {Waiting("PrepareSandbox", w)} THEN Done ELSE call[c]
      BY <1>1, Of, AnsweredValue
    <3>. QED BY <1>1, <2>1, <3>1, InContext
  <2>. QED BY <1>1, <2>2, EndsWaits
<1>. QED BY <1>2, <1>3

LEMMA finalize_snapshottingServes ==
    ASSUME Grows, RInv, NEW w \in Workers, finalize_snapshotting(w) \/ DrainSnapshot(w)
    PROVE  ServingAt' /\ WaitingAt'
<1>. PICK m : m = "Snapshotted"
  OBVIOUS
<1>1. /\ Receive(w, m) /\ m = "Snapshotted" /\ op' = [op EXCEPT ![w] = None] /\ mode \in {"running", "draining"}
      /\ call' = Answered({Waiting("Snapshot", box[w])})
      /\ GoesOn
      /\ UNCHANGED <<sandbox_id, worker_by_sandbox, cpu, leaked, inflight, at, invoked, box, exit>>
  BY DEF finalize_snapshotting, DrainSnapshot, storeVars, memVars, boxVars, GoesOn
<1>2. ServingAt'
  <2>. PICK D : D = IF box[w] \in paused THEN {TRUE} ELSE assign(fn[w])
    OBVIOUS
  <2>1. \/ deactivate_worker(w, D) /\ mode = "running"
        \/ UNCHANGED <<state, acct, inuse, reclaimed, timerVars, ctrl>>
    BY DEF finalize_snapshotting, DrainSnapshot, storeVars, memVars, timerVars
  <2>2. m \in {"NeedWork", "Prepared", "PrepFailed", "Snapshotted"} /\ m # "NeedWork" /\ m # "PrepFailed"
    BY <1>1
  <2>. QED BY <1>1, <2>1, <2>2, HearsServes
<1>3. WaitingAt'
  <2>1. op[w] = "Snapshot"
    <3>1. Has(out[w], m)
      BY <1>1, Of, Received, HasTail
    <3>. QED BY <1>1, <3>1, Of DEF Fit
  <2>2. ASSUME NEW c \in Calls
        PROVE  \/ call'[c] = Done
               \/ /\ call'[c] = call[c]
                  /\ call[c].op \in {"PrepareSandbox", "DestroySandbox"} => call[c].on # w
                  /\ call[c].op = "Snapshot" => worker_by_sandbox[call[c].on] # w
    <3>1. call'[c] = IF call[c] \in {Waiting("Snapshot", box[w])} THEN Done ELSE call[c]
      BY <1>1, Of, AnsweredValue
    <3>2. call[c].op \in {"PrepareSandbox", "DestroySandbox"} => call[c].on # w
      <4>1. Waiting(op[w], w).op = "Snapshot"
        BY <2>1 DEF Waiting
      <4>. QED BY <1>1, <4>1, InContext
    <3>. QED BY <1>1, <3>1, <3>2, InContext
  <2>. QED BY <1>1, <2>2, EndsWaits
<1>. QED BY <1>2, <1>3

LEMMA reap_workerServes ==
    ASSUME Grows, RInv, NEW w \in Workers, reap_worker(w)
    PROVE  ServingAt' /\ WaitingAt'
<1>. PICK x, y, k \in BOOLEAN :
        /\ (x <=> inflight = w) /\ (y <=> w \in invoked) /\ (k <=> w \in cpu)
        /\ w \notin overtaken => Serving(mode, x, y, k, state[w], at[w], op[w], ctrl[w], out[w])
  BY Of, AttendedAs
<1>1. /\ Receive(w, "ReapMe") /\ state[w] \in {"Active", "Dying"} /\ mode \in {"running", "draining"}
      /\ state' = [state EXCEPT ![w] = "None"] /\ at' = [at EXCEPT ![w] = "reaped"]
      /\ op' = [op EXCEPT ![w] = None] /\ cpu' = cpu \ {w}
      /\ worker_by_sandbox' = Put(worker_by_sandbox, {sandbox_id[w]}, None)
      /\ call' = Answered({Waiting("PrepareSandbox", w), Waiting("DestroySandbox", w),
                           Waiting("Snapshot", sandbox_id[w])} \ {Waiting("Snapshot", None)})
      /\ UNCHANGED <<mode, sandbox_id, inflight, invoked, ctrl, box, exit>>
  BY DEF reap_worker, EndControlOps, cpuset_release, Up
<1>2. /\ out[w] # <<>> /\ Head(out[w]) = "ReapMe" /\ out'[w] = Tail(out[w])
      /\ \A v \in Workers \ {w} : out'[v] = out[v]
  BY <1>1, Of, Received
<1>3. at[w] = "finished" /\ Tail(out[w]) = <<>>
  <2>1. out[w] \in Seq(OutboundMessage) /\ Fit(state[w], at[w], op[w], ctrl[w], out[w])
    BY Of
  <2>2. at[w] = "finished" /\ Fit("None", "reaped", None, ctrl[w], Tail(out[w]))
    BY <1>1, <1>2, <2>1, FitReaped
  <2>3. ~Has(Tail(out[w]), "ReapMe") /\ Tail(out[w]) \in Seq(OutboundMessage)
    <3>1. /\ Tail(out[w]) \in Seq(OutboundMessage)
          /\ \A u, v : Follows(out[w], u, v) <=> Follows(Tail(out[w]), u, v) \/ (Head(out[w]) = u /\ Has(Tail(out[w]), v))
      BY <1>2, <2>1, HasTail
    <3>2. ~Follows(out[w], "ReapMe", "ReapMe")
      BY <2>1 DEF Fit, OutboundMessage
    <3>. QED BY <1>2, <3>1, <3>2
  <2>4. \A n \in OutboundMessage : ~Has(Tail(out[w]), n)
    BY <2>2, <2>3 DEF Fit
  <2>. QED BY <2>2, <2>3, <2>4, NothingLeft
<1>4. w \notin overtaken => Serving(mode, x, y, FALSE, "None", "reaped", None, ctrl[w], <<>>)
  <2>. SUFFICES ASSUME w \notin overtaken PROVE Serving(mode, x, y, FALSE, "None", "reaped", None, ctrl[w], <<>>)
    OBVIOUS
  <2>1. Serving(mode, x, y, k, state[w], "finished", op[w], ctrl[w], out[w])
    BY <1>3
  <2>. QED BY <2>1, ServingReaped
<1>5. Attended(w)'
  <2>1. (inflight' = w <=> x) /\ (w \in invoked' <=> y) /\ w \notin cpu'
    BY <1>1
  <2>2. /\ mode' = mode /\ state'[w] = "None" /\ at'[w] = "reaped" /\ op'[w] = None /\ ctrl'[w] = ctrl[w]
        /\ out'[w] = <<>>
    BY <1>1, <1>2, <1>3, Of DEF TypeOK
  <2>. QED BY <1>4, <2>1, <2>2, NowAttended
<1>6. \A v \in Workers \ {w} : Same(v) /\ Alike(v)
  BY <1>1, <1>2, Of DEF Same, Alike, Keeps, TypeOK
<1>7. ServingAt'
  BY <1>1, <1>5, <1>6, ServiceKept DEF RInv, BInv, GoesOn
<1>8. WaitingAt'
  <2>1. ASSUME NEW c \in Calls
        PROVE  \/ call'[c] = Done
               \/ /\ call'[c] = call[c]
                  /\ call[c].op \in {"PrepareSandbox", "DestroySandbox"} => call[c].on # w
                  /\ call[c].op = "Snapshot" => worker_by_sandbox[call[c].on] # w
    <3>. PICK K : K = {Waiting("PrepareSandbox", w), Waiting("DestroySandbox", w),
                       Waiting("Snapshot", sandbox_id[w])} \ {Waiting("Snapshot", None)}
      OBVIOUS
    <3>1. call'[c] = IF call[c] \in K THEN Done ELSE call[c]
      BY <1>1, Of, AnsweredValue
    <3>2. None \notin Workers
      BY PoolAssumption
    <3>3. CASE call[c].op \in {"PrepareSandbox", "DestroySandbox"} /\ call[c].on = w
      <4>0. mode # "exited" /\ Waiting(op[w], w).op = op[w]
        BY <1>1 DEF Waiting
      <4>1. call[c] = Waiting(op[w], w) /\ op[w] = call[c].op
        BY <3>3, <4>0, InContext
      <4>2. call[c] \in K
        BY <3>3, <4>1 DEF Waiting
      <4>. QED BY <3>1, <4>2
    <3>4. CASE call[c].op = "Snapshot" /\ worker_by_sandbox[call[c].on] = w
      <4>1. call[c] = Waiting("Snapshot", sandbox_id[w]) /\ sandbox_id[w] \in Workers
        BY <1>1, <3>4, InContext
      <4>2. call[c] \in K
        BY <3>2, <4>1 DEF Waiting
      <4>. QED BY <3>1, <4>2
    <3>. QED BY <3>1, <3>3, <3>4
  <2>2. ASSUME NEW s \in Workers, worker_by_sandbox[s] \notin {w, None}
        PROVE  worker_by_sandbox'[s] = worker_by_sandbox[s]
    <3>1. worker_by_sandbox'[s] = IF s = sandbox_id[w] THEN None ELSE worker_by_sandbox[s]
      BY <1>1, Of DEF TypeOK, Put
    <3>2. s = sandbox_id[w] => worker_by_sandbox[s] = w
      BY <1>1, Of DEF BInv, IndexAt
    <3>. QED BY <2>2, <3>1, <3>2
  <2>. QED BY <1>1, <2>1, <2>2, EndsWaits
<1>. QED BY <1>7, <1>8

LEMMA ReapIgnoredServes ==
    ASSUME Grows, RInv, NEW w \in Workers, ReapIgnored(w)
    PROVE  ServingAt' /\ WaitingAt'
<1>. PICK x, y, k \in BOOLEAN :
        /\ (x <=> inflight = w) /\ (y <=> w \in invoked) /\ (k <=> w \in cpu)
        /\ w \notin overtaken => Serving(mode, x, y, k, state[w], at[w], op[w], ctrl[w], out[w])
  BY Of, AttendedAs
<1>1. /\ Receive(w, "ReapMe") /\ state[w] \in {"None", "Idle"} /\ mode \in {"running", "draining"}
      /\ UNCHANGED <<poolVars, at, invoked, ctrl, box, exit>>
  BY DEF ReapIgnored, Up
<1>2. /\ out[w] # <<>> /\ Head(out[w]) = "ReapMe" /\ out'[w] = Tail(out[w])
      /\ \A v \in Workers \ {w} : out'[v] = out[v]
  BY <1>1, Of, Received
<1>3. w \notin overtaken => Serving(mode, x, y, k, state[w], at[w], op[w], ctrl[w], Tail(out[w]))
  <2>. SUFFICES ASSUME w \notin overtaken PROVE Serving(mode, x, y, k, state[w], at[w], op[w], ctrl[w], Tail(out[w]))
    OBVIOUS
  <2>1. out[w] \in Seq(OutboundMessage) /\ Fit(state[w], at[w], op[w], ctrl[w], out[w])
    BY Of
  <2>. QED BY <1>1, <1>2, <2>1, ServingIgnored
<1>4. Attended(w)'
  <2>1. (inflight' = w <=> x) /\ (w \in invoked' <=> y) /\ (w \in cpu' <=> k)
    BY <1>1 DEF poolVars
  <2>2. mode' = mode /\ state'[w] = state[w] /\ at'[w] = at[w] /\ op'[w] = op[w] /\ ctrl'[w] = ctrl[w]
    BY <1>1 DEF poolVars, storeVars, ctlVars
  <2>. QED BY <1>2, <1>3, <2>1, <2>2, NowAttended
<1>. QED BY <1>1, <1>2, <1>4, WorkerServes

LEMMA MessageStepServes ==
    ASSUME Grows, RInv, NEW w \in Workers, MessageStep(w)
    PROVE  ServingAt' /\ WaitingAt'
  BY update_sandbox_idServes, on_need_workServes, finalize_sandbox_preparationServes, finalize_snapshottingServes,
     reap_workerServes, ReapIgnoredServes DEF MessageStep

-----------------------------------------------------------------------------
(***************************************************************************)
(* The Pool shuts Workers down.                                            *)
(***************************************************************************)

\* Operations are started where none was pending, and Sandboxes recorded that were not.
LEMMA StartsWaits ==
    ASSUME RInv, mode # "exited", \A v \in Workers : op[v] = None \/ op'[v] = op[v],
           \A s \in Workers : worker_by_sandbox[s] = None \/ worker_by_sandbox'[s] = worker_by_sandbox[s],
           \A c \in Calls : call'[c] = call[c] \/ call'[c] = Done \/ Awaits(c)'
    PROVE  WaitingAt'
<1>1. ASSUME NEW c \in Calls, call'[c] # Done, ~Awaits(c)'
      PROVE  /\ call'[c] = call[c]
             /\ call[c].op \in {"PrepareSandbox", "DestroySandbox"} => op'[call[c].on] = op[call[c].on]
             /\ call[c].op = "Snapshot" =>
                   /\ worker_by_sandbox'[call[c].on] = worker_by_sandbox[call[c].on]
                   /\ op'[worker_by_sandbox[call[c].on]] = op[worker_by_sandbox[call[c].on]]
  <2>1. Awaits(c) /\ call'[c] = call[c] /\ None \notin PendingControlOp
    BY <1>1, PoolAssumption DEF RInv, WaitingAt
  <2>2. call[c].op \in PendingControlOp => call[c].on \in Workers
    BY Of, PoolAssumption DEF RInv, BInv, TypeOK, CallType, New, Done, PendingControlOp
  <2>3. CASE call[c].op \in {"PrepareSandbox", "DestroySandbox"}
    BY <2>1, <2>2, <2>3 DEF Awaits, PendingControlOp
  <2>4. CASE call[c].op = "Snapshot"
    <3>1. call[c].on \in Workers /\ worker_by_sandbox[call[c].on] \in Workers
      BY <2>1, <2>2, <2>4 DEF Awaits, PendingControlOp, RInv, BInv, TypeOK
    <3>. QED BY <2>1, <2>4, <3>1 DEF Awaits, PendingControlOp
  <2>. QED BY <2>1, <2>3, <2>4
<1>. QED BY <1>1, WaitsKept DEF RInv

\* The Workers of S are sent the order r, the others see nothing.
LEMMA DyingSteps ==
    ASSUME BInv, NEW S, S \subseteq Idle \cup Active, to_dying(S),
           NEW r \in {"ShutDown", "DestroySandbox"}, ctrl' = Sent(S, r), UNCHANGED <<sandbox_id, at, out, box, exit>>
    PROVE  \A v \in Workers :
              /\ v \in S => /\ state[v] \in {"Idle", "Active"} /\ state'[v] = "Dying"
                            /\ ctrl'[v] = IF at[v] # "finished" THEN Append(ctrl[v], r) ELSE ctrl[v]
              /\ v \notin S => state'[v] = state[v] /\ ctrl'[v] = ctrl[v]
              /\ op'[v] = op[v] => Alike(v) \/ Dies(v)
<1>1. /\ \A v \in Workers : state'[v] = IF v \in S THEN "Dying" ELSE state[v]
      /\ \A v \in S : state[v] \in {"Idle", "Active"}
  BY DyingValue DEF BInv
<1>2. \A v \in Workers : ctrl'[v] = IF v \in S /\ at[v] # "finished" THEN Append(ctrl[v], r) ELSE ctrl[v]
  <2>1. ctrl \in [Workers -> Seq(ControlMessage)] /\ r \in ControlMessage
    BY DEF BInv, TypeOK, ControlMessage
  <2>. QED BY <2>1, SentValue
<1>3. ASSUME NEW v \in Workers, v \notin S, op'[v] = op[v] PROVE Alike(v)
  BY <1>1, <1>2, <1>3 DEF Alike, Keeps
<1>4. ASSUME NEW v \in Workers, v \in S, op'[v] = op[v] PROVE Dies(v)
  <2>1. /\ state[v] \in {"Idle", "Active"} /\ state'[v] = "Dying"
        /\ ctrl'[v] = IF at[v] # "finished" THEN Append(ctrl[v], r) ELSE ctrl[v]
    BY <1>1, <1>2, <1>4
  <2>. QED BY <1>4, <2>1 DEF Dies, Keeps
<1>. QED BY <1>1, <1>2, <1>3, <1>4

LEMMA DyingServes ==
    ASSUME Grows, RInv, NEW S, S \subseteq Idle \cup Active, to_dying(S),
           NEW r \in {"ShutDown", "DestroySandbox"}, ctrl' = Sent(S, r),
           UNCHANGED <<mode, sandbox_id, op, cpu, inflight, at, invoked, out, box, exit>>
    PROVE  ServingAt'
<1>1. \A v \in Workers : Alike(v) \/ Dies(v)
  BY DyingSteps DEF RInv
<1>2. \A v \in Workers : Same(v)
  BY DEF Same
<1>. QED BY <1>1, <1>2, ServiceKept DEF RInv, BInv, GoesOn

LEMMA QuietServes ==
    ASSUME Grows, RInv, UNCHANGED <<state, sandbox_id, worker_by_sandbox, cpu, op, inflight, at, invoked, ctrl, out, box, exit>>,
           mode # "exited", GoesOn, \A c \in Calls : call'[c] = call[c] \/ call'[c] = Done \/ Awaits(c)'
    PROVE  ServingAt' /\ WaitingAt'
<1>1. \A v \in Workers : Same(v) /\ Alike(v)
  BY DEF Same, Alike, Keeps
<1>2. ServingAt'
  BY <1>1, ServiceKept DEF RInv, BInv
<1>3. WaitingAt'
  BY StartsWaits
<1>. QED BY <1>2, <1>3

LEMMA timer_runServes ==
    ASSUME Grows, RInv, NEW w \in Workers, timer_run(w)
    PROVE  ServingAt' /\ WaitingAt'
<1>. USE DEF timer_run, storeVars, memVars, boxVars, ctlVars, workerVars
<1>1. CASE mode = "exited"
  <2>1. WaitingAt'
    BY <1>1 DEF WaitingAt
  <2>2. \A v \in Workers : Same(v) /\ Alike(v)
    BY DEF Same, Alike, Keeps
  <2>3. ServingAt'
    BY <2>2, ServiceKept DEF RInv, BInv, GoesOn
  <2>. QED BY <2>1, <2>3
<1>2. CASE mode # "exited"
  BY <1>2, QuietServes DEF GoesOn
<1>. QED BY <1>1, <1>2

LEMMA KeepAliveTimeoutServes ==
    ASSUME Grows, RInv, NEW w \in Workers, NEW stale \in BOOLEAN, KeepAliveTimeout(w, stale)
    PROVE  ServingAt' /\ WaitingAt'
<1>. USE DEF boxVars, ctlVars
<1>1. /\ mode = "running"
      /\ UNCHANGED <<mode, sandbox_id, worker_by_sandbox, cpu, op, call, inflight, at, invoked, out, box, exit>>
  BY DEF KeepAliveTimeout
<1>2. CASE w \in timers
  <2>1. to_dying({w}) /\ ctrl' = Sent({w}, "ShutDown")
    BY <1>2 DEF KeepAliveTimeout
  <2>2. {w} \subseteq Idle \cup Active
    BY <1>2 DEF RInv, BInv, TimersAt
  <2>3. ServingAt'
    BY <1>1, <2>1, <2>2, DyingServes
  <2>4. WaitingAt'
    BY <1>1, StartsWaits
  <2>. QED BY <2>3, <2>4
<1>3. CASE w \notin timers
  <2>1. state' = state /\ ctrl' = ctrl
    BY <1>3 DEF KeepAliveTimeout
  <2>. QED BY <1>1, <2>1, QuietServes DEF GoesOn
<1>. QED BY <1>2, <1>3

\* Eviction without a spawn.
LEMMA EvictOnlyServes ==
    ASSUME Grows, RInv, NEW E \in SUBSET Idle, mode = "running",
           \/ \E f : DispatchDenied(f, E)
           \/ \E c \in Calls : \E f, s : RequestPrepOutOfMemory(c, f, s, E)
    PROVE  ServingAt' /\ WaitingAt'
<1>1. /\ to_dying(E) /\ ctrl' = Sent(E, "ShutDown")
      /\ UNCHANGED <<mode, sandbox_id, worker_by_sandbox, op, cpu, inflight, at, invoked, out, box, exit>>
  BY DEF DispatchDenied, RequestPrepOutOfMemory, EvictOnly, ctlVars
<1>2. \A c \in Calls : call'[c] = call[c] \/ call'[c] = Done
  BY DEF DispatchDenied, RequestPrepOutOfMemory, ctlVars, RInv, BInv, TypeOK
<1>3. ServingAt'
  BY <1>1, DyingServes
<1>4. WaitingAt'
  BY <1>1, <1>2, StartsWaits
<1>. QED BY <1>3, <1>4

LEMMA BeginShutdownServes ==
    ASSUME Grows, RInv, BeginShutdown
    PROVE  ServingAt' /\ WaitingAt'
<1>. USE DEF boxVars, ctlVars
<1>. PICK S : S = Idle \cup Active
  OBVIOUS
<1>1. /\ to_dying(S) /\ ctrl' = Sent(S, "ShutDown") /\ mode = "stopping" /\ mode' = "draining"
      /\ UNCHANGED <<sandbox_id, worker_by_sandbox, cpu, op, call, inflight, at, invoked, out, box, exit>>
  <2>1. (Idle \cap timers) \cup Active = S
    BY DEF RInv, BInv, TimersAt
  <2>2. ASSUME NEW X, X = S, to_dying(X) /\ ctrl' = Sent(X, "ShutDown")
        PROVE  to_dying(S) /\ ctrl' = Sent(S, "ShutDown")
    BY <2>2
  <2>. QED BY <2>1, <2>2 DEF BeginShutdown
<1>2. \A v \in Workers :
         /\ v \in S => /\ state[v] \in {"Idle", "Active"} /\ state'[v] = "Dying"
                       /\ ctrl'[v] = IF at[v] # "finished" THEN Append(ctrl[v], "ShutDown") ELSE ctrl[v]
         /\ v \notin S => state'[v] = state[v] /\ ctrl'[v] = ctrl[v]
  BY <1>1, DyingSteps DEF RInv
<1>3. ASSUME NEW v \in Workers PROVE Attended(v)'
  <2>. PICK x, y, k \in BOOLEAN :
          /\ (x <=> inflight = v) /\ (y <=> v \in invoked) /\ (k <=> v \in cpu)
          /\ v \notin overtaken => Serving(mode, x, y, k, state[v], at[v], op[v], ctrl[v], out[v])
    BY Of, AttendedAs
  <2>. PICK d, st : d = ctrl'[v] /\ st = state'[v]
    OBVIOUS
  <2>1. v \notin overtaken => Serving("draining", x, y, k, st, at[v], op[v], d, out[v])
    <3>. SUFFICES ASSUME v \notin overtaken PROVE Serving("draining", x, y, k, st, at[v], op[v], d, out[v])
      OBVIOUS
    <3>1. CASE v \in S
      <4>. PICK m2, o2 : m2 = "draining" /\ o2 = op[v]
        OBVIOUS
      <4>1. /\ at[v] # "finished" => d = Append(ctrl[v], "ShutDown")
            /\ at[v] = "finished" => d = ctrl[v]
            /\ o2 = op[v] \/ (op[v] = None /\ o2 = "DestroySandbox")
            /\ m2 = "running" => mode = "running"
            /\ state[v] \in {"Idle", "Active"} /\ ctrl[v] \in Seq(ControlMessage)
            /\ Fit(state[v], at[v], op[v], ctrl[v], out[v])
            /\ "ShutDown" \in {"ShutDown", "DestroySandbox"}
        BY <1>2, <3>1, Of
      <4>2. Serving(m2, x, y, k, "Dying", at[v], o2, d, out[v])
        BY <4>1, ServingDies
      <4>. QED BY <1>2, <3>1, <4>2
    <3>2. CASE v \notin S
      <4>1. state[v] # "Idle" /\ st = state[v] /\ d = ctrl[v]
        BY <1>2, <3>2 DEF Idle
      <4>2. Serving("draining", x, y, k, state[v], at[v], op[v], ctrl[v], out[v])
        BY <4>1, ServingDrains
      <4>. QED BY <4>1, <4>2
    <3>. QED BY <3>1, <3>2
  <2>2. (inflight' = v <=> x) /\ (v \in invoked' <=> y) /\ (v \in cpu' <=> k)
    BY <1>1
  <2>. QED BY <1>1, <2>1, <2>2, NowAttended
<1>4. ServingAt'
  BY <1>3 DEF ServingAt
<1>5. WaitingAt'
  BY <1>1, StartsWaits
<1>. QED BY <1>4, <1>5

-----------------------------------------------------------------------------
(***************************************************************************)
(* Dispatches and calls that spawn nobody.                                 *)
(***************************************************************************)

LEMMA ForwardServes ==
    ASSUME Grows, RInv, NEW w \in Workers, Forward(w)
    PROVE  ServingAt' /\ WaitingAt'
<1>. PICK x, y, k \in BOOLEAN :
        /\ (x <=> inflight = w) /\ (y <=> w \in invoked) /\ (k <=> w \in cpu)
        /\ w \notin overtaken => Serving(mode, x, y, k, state[w], at[w], op[w], ctrl[w], out[w])
  BY Of, AttendedAs
<1>1. /\ inflight = w /\ inflight' = None /\ None \notin Workers
      /\ invoked' = IF at[w] \in {"finished", "reaped"} THEN invoked ELSE invoked \cup {w}
      /\ UNCHANGED <<mode, state, sandbox_id, worker_by_sandbox, cpu, op, call, at, ctrl, out, box, exit>>
  BY PoolAssumption DEF Forward, storeVars, ctlVars
<1>. PICK y2 \in BOOLEAN : y2 <=> w \in invoked'
  OBVIOUS
<1>2. w \notin overtaken => Serving(mode, FALSE, y2, k, state[w], at[w], op[w], ctrl[w], out[w])
  <2>. SUFFICES ASSUME w \notin overtaken PROVE Serving(mode, FALSE, y2, k, state[w], at[w], op[w], ctrl[w], out[w])
    OBVIOUS
  <2>1. /\ Serving(mode, TRUE, y, k, state[w], at[w], op[w], ctrl[w], out[w]) /\ at[w] \in Place
        /\ Fit(state[w], at[w], op[w], ctrl[w], out[w])
    BY <1>1, Of
  <2>2. at[w] \in {"finished", "reaped"} => (y2 <=> y)
    BY <1>1
  <2>3. at[w] \notin {"finished", "reaped"} => y2
    BY <1>1
  <2>. QED BY <2>1, <2>2, <2>3, ServingForwarded
<1>3. Attended(w)'
  <2>. PICK x2 \in BOOLEAN : x2 <=> inflight' = w
    OBVIOUS
  <2>1. x2 = FALSE /\ (w \in cpu' <=> k)
    BY <1>1
  <2>2. w \notin overtaken => Serving(mode, x2, y2, k, state[w], at[w], op[w], ctrl[w], out[w])
    BY <1>2, <2>1
  <2>3. (inflight' = w <=> x2) /\ (w \in invoked' <=> y2) /\ (w \in cpu' <=> k)
    BY <2>1
  <2>4. mode' = mode /\ state'[w] = state[w] /\ at'[w] = at[w] /\ op'[w] = op[w] /\ ctrl'[w] = ctrl[w] /\ out'[w] = out[w]
    BY <1>1
  <2>. QED BY <2>2, <2>3, <2>4, NowAttended
<1>4. \A v \in Workers \ {w} : Same(v) /\ Alike(v)
  BY <1>1 DEF Same, Alike, Keeps
<1>5. ServingAt'
  BY <1>1, <1>3, <1>4, ServiceKept DEF RInv, BInv, GoesOn
<1>6. WaitingAt'
  BY <1>1 DEF RInv, WaitingAt, Awaits
<1>. QED BY <1>5, <1>6

LEMMA LeaveLoopServes ==
    ASSUME Grows, RInv, LeaveLoop
    PROVE  ServingAt' /\ WaitingAt'
<1>1. /\ mode = "running" /\ mode' = "stopping" /\ inflight' \in {inflight, None} /\ None \notin Workers
      /\ UNCHANGED <<state, sandbox_id, worker_by_sandbox, cpu, op, call, at, invoked, ctrl, out, box, exit>>
  BY PoolAssumption DEF LeaveLoop, storeVars, ctlVars, workerVars
<1>2. ASSUME NEW v \in Workers PROVE Attended(v)'
  <2>. PICK x, y, k \in BOOLEAN :
          /\ (x <=> inflight = v) /\ (y <=> v \in invoked) /\ (k <=> v \in cpu)
          /\ v \notin overtaken => Serving(mode, x, y, k, state[v], at[v], op[v], ctrl[v], out[v])
    BY Of, AttendedAs
  <2>. PICK x2, k2 \in BOOLEAN : (x2 <=> inflight' = v) /\ (k2 <=> v \in cpu')
    OBVIOUS
  <2>1. /\ x2 => x
        /\ k2 => k
        /\ v \notin overtaken => Serving("running", x, y, k, state[v], at[v], op[v], ctrl[v], out[v])
    BY <1>1
  <2>2. v \notin overtaken => Serving("stopping", x2, y, k2, state[v], at[v], op[v], ctrl[v], out[v])
    BY <2>1, ServingStops
  <2>3. (inflight' = v <=> x2) /\ (v \in invoked' <=> y) /\ (v \in cpu' <=> k2)
    BY <1>1
  <2>. QED BY <1>1, <2>2, <2>3, NowAttended
<1>3. ServingAt'
  BY <1>2 DEF ServingAt
<1>4. WaitingAt'
  BY <1>1, StartsWaits
<1>. QED BY <1>3, <1>4

LEMMA DispatchAbortsServes ==
    ASSUME Grows, RInv, NEW f, NEW w \in Workers, DispatchAborts(f, w)
    PROVE  ServingAt' /\ WaitingAt' /\ w \in overtaken
<1>1. /\ mode = "running" /\ mode' = "aborted" /\ state[w] = "Idle" /\ w \in cpu
      /\ UNCHANGED <<state, sandbox_id, worker_by_sandbox, cpu, op, call, at, inflight, invoked, ctrl, out, box, exit>>
  BY DEF DispatchAborts, Dispatching, pick_idle_worker, Idle, storeVars, ctlVars, workerVars
<1>2. ASSUME NEW v \in Workers PROVE Attended(v)'
  <2>. PICK x, y, k \in BOOLEAN :
          /\ (x <=> inflight = v) /\ (y <=> v \in invoked) /\ (k <=> v \in cpu)
          /\ v \notin overtaken => Serving(mode, x, y, k, state[v], at[v], op[v], ctrl[v], out[v])
    BY Of, AttendedAs
  <2>1. v \notin overtaken => Serving("aborted", x, y, k, state[v], at[v], op[v], ctrl[v], out[v])
    BY <1>1, ServingAborts
  <2>2. (inflight' = v <=> x) /\ (v \in invoked' <=> y) /\ (v \in cpu' <=> k)
    BY <1>1
  <2>. QED BY <1>1, <2>1, <2>2, NowAttended
<1>3. ServingAt'
  BY <1>2 DEF ServingAt
<1>4. WaitingAt'
  BY <1>1, StartsWaits
<1>5. w \in overtaken
  <2>. PICK x, y, k \in BOOLEAN :
          /\ (x <=> inflight = w) /\ (y <=> w \in invoked) /\ (k <=> w \in cpu)
          /\ w \notin overtaken => Serving(mode, x, y, k, state[w], at[w], op[w], ctrl[w], out[w])
    BY Of, AttendedAs
  <2>. QED BY <1>1 DEF Serving, Ready
<1>. QED BY <1>3, <1>4, <1>5

LEMMA FinishShutdownServes ==
    ASSUME Grows, RInv, FinishShutdown
    PROVE  ServingAt' /\ WaitingAt'
<1>1. /\ mode' = "exited" /\ \A v \in Workers : state[v] = "None"
      /\ UNCHANGED <<state, cpu, op, inflight, at, invoked, ctrl, out>>
  BY DEF FinishShutdown, storeVars, workerVars
<1>2. ASSUME NEW v \in Workers PROVE Attended(v)'
  <2>. PICK x, y, k \in BOOLEAN :
          /\ (x <=> inflight = v) /\ (y <=> v \in invoked) /\ (k <=> v \in cpu)
          /\ v \notin overtaken => Serving(mode, x, y, k, state[v], at[v], op[v], ctrl[v], out[v])
    BY Of, AttendedAs
  <2>1. v \notin overtaken => Serving("exited", x, y, k, state[v], at[v], op[v], ctrl[v], out[v])
    <3>. SUFFICES ASSUME v \notin overtaken PROVE Serving("exited", x, y, k, state[v], at[v], op[v], ctrl[v], out[v])
      OBVIOUS
    <3>1. state[v] # "Idle" /\ "exited" # "running"
      BY <1>1
    <3>. QED BY <3>1, ServingDrains
  <2>2. (inflight' = v <=> x) /\ (v \in invoked' <=> y) /\ (v \in cpu' <=> k)
    BY <1>1
  <2>. QED BY <1>1, <2>1, <2>2, NowAttended
<1>3. ServingAt'
  BY <1>2 DEF ServingAt
<1>4. WaitingAt'
  BY <1>1 DEF WaitingAt
<1>. QED BY <1>3, <1>4

LEMMA RequestRefusedServes ==
    ASSUME Grows, RInv, NEW c \in Calls, RequestRefused(c)
    PROVE  ServingAt' /\ WaitingAt'
<1>1. \A d \in Calls : call'[d] = call[d] \/ call'[d] = Done
  BY DEF RequestRefused, RInv, BInv, TypeOK
<1>. QED BY <1>1, QuietServes DEF RequestRefused, storeVars, workerVars, GoesOn

LEMMA RequestJoinsServes ==
    ASSUME Grows, RInv, NEW c \in Calls, NEW s \in Workers, NEW o \in {"DestroySandbox", "Snapshot"}, RequestJoins(c, s, o)
    PROVE  ServingAt' /\ WaitingAt'
<1>. PICK w : w = worker_by_sandbox[s]
  OBVIOUS
<1>1. /\ w # None /\ op[w] = o /\ mode = "running"
      /\ call' = [call EXCEPT ![c] = Waiting(o, IF o = "Snapshot" THEN s ELSE w)]
      /\ UNCHANGED <<mode, storeVars, timerVars, cpu, memVars, boxVars, op, paused, inflight, workerVars>>
  BY DEF RequestJoins
<1>2. Awaits(c)'
  <2>1. call'[c] = Waiting(o, IF o = "Snapshot" THEN s ELSE w) /\ op' = op /\ worker_by_sandbox' = worker_by_sandbox
    BY <1>1 DEF RInv, BInv, TypeOK, storeVars
  <2>. QED BY <1>1, <2>1 DEF Awaits, Waiting
<1>3. \A d \in Calls : call'[d] = call[d] \/ Awaits(d)'
  BY <1>1, <1>2 DEF RInv, BInv, TypeOK
<1>. QED BY <1>1, <1>3, QuietServes DEF storeVars, workerVars, GoesOn

LEMMA StutterServes ==
    ASSUME Grows, RInv, UNCHANGED vars
    PROVE  ServingAt' /\ WaitingAt'
<1>. USE DEF vars, poolVars, storeVars, ctlVars, workerVars
<1>1. \A v \in Workers : Same(v) /\ Alike(v)
  BY DEF Same, Alike, Keeps
<1>2. ServingAt'
  BY <1>1, ServiceKept DEF RInv, BInv, GoesOn
<1>3. WaitingAt'
  BY DEF RInv, WaitingAt, Awaits
<1>. QED BY <1>2, <1>3

\* A call starts the operation o on w, or is answered.
LEMMA StartedWaits ==
    ASSUME RInv, mode # "exited", NEW c \in Calls, NEW w \in Workers, NEW heard \in BOOLEAN,
           NEW o \in {"PrepareSandbox", "DestroySandbox"}, op[w] = None,
           op' = IF heard THEN [op EXCEPT ![w] = o] ELSE op,
           call' = [call EXCEPT ![c] = IF heard THEN Waiting(o, w) ELSE Done],
           \A t \in Workers : worker_by_sandbox[t] = None \/ worker_by_sandbox'[t] = worker_by_sandbox[t]
    PROVE  /\ WaitingAt'
           /\ op'[w] = IF heard THEN o ELSE None
           /\ \A v \in Workers \ {w} : op'[v] = op[v]
<1>1. /\ op'[w] = IF heard THEN o ELSE None
      /\ \A v \in Workers \ {w} : op'[v] = op[v]
  BY DEF RInv, BInv, TypeOK
<1>2. \A d \in Calls : call'[d] = IF d # c THEN call[d] ELSE IF heard THEN Waiting(o, w) ELSE Done
  BY DEF RInv, BInv, TypeOK
<1>3. heard => Awaits(c)'
  BY <1>1, <1>2 DEF Awaits, Waiting
<1>4. \A v \in Workers : op[v] = None \/ op'[v] = op[v]
  BY <1>1
<1>5. \A d \in Calls : call'[d] = call[d] \/ call'[d] = Done \/ Awaits(d)'
  BY <1>2, <1>3
<1>6. WaitingAt'
  BY <1>4, <1>5, StartsWaits
<1>. QED BY <1>1, <1>6

LEMMA DispatchIdleServes ==
    ASSUME Grows, RInv, NEW f, NEW w \in Workers, NEW answered \in BOOLEAN, DispatchIdle(f, w, answered)
    PROVE  ServingAt' /\ WaitingAt'
<1>. USE DEF ctlVars, workerVars
<1>. PICK x, y, k \in BOOLEAN :
        /\ (x <=> inflight = w) /\ (y <=> w \in invoked) /\ (k <=> w \in cpu)
        /\ w \notin overtaken => Serving(mode, x, y, k, state[w], at[w], op[w], ctrl[w], out[w])
  BY Of, AttendedAs
<1>0. None \notin Workers
  BY PoolAssumption
<1>1. /\ w \in Idle /\ mode = "running" /\ inflight = None
      /\ UNCHANGED <<sandbox_id, worker_by_sandbox, ctlVars, workerVars>>
  BY DEF DispatchIdle, pick_idle_worker, Dispatching
<1>2. w \notin overtaken => Serving("running", x, y, k, "Idle", at[w], op[w], ctrl[w], out[w])
  BY <1>1 DEF Idle
<1>3. CASE answered
  <2>1. state' = [state EXCEPT ![w] = "Active"] /\ mode' = mode /\ inflight' = w /\ cpu' = cpu \cup {w}
    BY <1>3 DEF DispatchIdle, Reply, cpuset_alloc
  <2>2. w \notin overtaken => Serving("running", TRUE, y, TRUE, "Active", at[w], op[w], ctrl[w], out[w])
    BY <1>2, ServingDispatched
  <2>. PICK x2, k2 \in BOOLEAN : x2 = TRUE /\ k2 = TRUE
    OBVIOUS
  <2>3. w \notin overtaken => Serving("running", x2, y, k2, "Active", at[w], op[w], ctrl[w], out[w])
    BY <2>2
  <2>4. (inflight' = w <=> x2) /\ (w \in invoked' <=> y) /\ (w \in cpu' <=> k2)
    BY <1>1, <2>1
  <2>5. mode' = "running" /\ state'[w] = "Active" /\ at'[w] = at[w] /\ op'[w] = op[w] /\ ctrl'[w] = ctrl[w] /\ out'[w] = out[w]
    BY <1>1, <2>1, Of DEF TypeOK
  <2>6. Attended(w)'
    BY <2>3, <2>4, <2>5, NowAttended
  <2>7. \A v \in Workers \ {w} : Same(v) /\ Alike(v)
    BY <1>0, <1>1, <2>1, Of DEF Same, Alike, Keeps, TypeOK
  <2>8. ServingAt'
    BY <2>1, <2>6, <2>7, ServiceKept DEF RInv, BInv, GoesOn
  <2>9. WaitingAt'
    BY <1>1, StartsWaits
  <2>. QED BY <2>8, <2>9
<1>4. CASE ~answered
  <2>1. state' = state /\ mode' = "stopping" /\ inflight' = None /\ cpu' = cpu \ {w}
    BY <1>4 DEF DispatchIdle, Reply, cpuset_release
  <2>. PICK x2, k2 \in BOOLEAN : (x2 <=> inflight' = w) /\ (k2 <=> w \in cpu')
    OBVIOUS
  <2>2. /\ x2 => x
        /\ k2 => k
    BY <1>0, <2>1
  <2>3. w \notin overtaken => Serving("stopping", x2, y, k2, "Idle", at[w], op[w], ctrl[w], out[w])
    BY <1>2, <2>2, ServingStops
  <2>4. (inflight' = w <=> x2) /\ (w \in invoked' <=> y) /\ (w \in cpu' <=> k2)
    BY <1>1
  <2>5. mode' = "stopping" /\ state'[w] = "Idle" /\ at'[w] = at[w] /\ op'[w] = op[w] /\ ctrl'[w] = ctrl[w] /\ out'[w] = out[w]
    BY <1>1, <2>1 DEF Idle
  <2>6. Attended(w)'
    BY <2>3, <2>4, <2>5, NowAttended
  <2>7. \A v \in Workers \ {w} : Same(v) /\ Alike(v)
    BY <1>0, <1>1, <2>1 DEF Same, Alike, Keeps
  <2>8. ServingAt'
    BY <1>1, <2>1, <2>6, <2>7, ServiceKept DEF RInv, BInv, GoesOn
  <2>9. WaitingAt'
    BY <1>1, StartsWaits
  <2>. QED BY <2>8, <2>9
<1>. QED BY <1>3, <1>4

LEMMA RequestDestroyLiveServes ==
    ASSUME Grows, RInv, NEW c \in Calls, NEW s \in Workers, NEW remove \in BOOLEAN, NEW heard \in BOOLEAN,
           RequestDestroyLive(c, s, remove, heard)
    PROVE  ServingAt' /\ WaitingAt'
<1>0. PICK w : w = worker_by_sandbox[s]
  OBVIOUS
<1>. PICK r \in {"ShutDown", "DestroySandbox"} : r = IF remove THEN "DestroySandbox" ELSE "ShutDown"
  OBVIOUS
<1>1. /\ w # None /\ op[w] = None /\ w \in Idle \cup Active /\ mode = "running"
      /\ to_dying({w}) /\ ctrl' = Sent({w}, r)
      /\ op' = IF heard THEN [op EXCEPT ![w] = "DestroySandbox"] ELSE op
      /\ call' = [call EXCEPT ![c] = IF heard THEN Waiting("DestroySandbox", w) ELSE Done]
      /\ UNCHANGED <<mode, sandbox_id, worker_by_sandbox, cpu, inflight, at, invoked, out, box, exit>>
  BY <1>0 DEF RequestDestroyLive, Started, destroy_live_worker
<1>2. w \in Workers /\ {w} \subseteq Idle \cup Active
  BY <1>1 DEF Idle, Active
<1>3. /\ WaitingAt'
      /\ op'[w] = IF heard THEN "DestroySandbox" ELSE None
      /\ \A v \in Workers \ {w} : op'[v] = op[v]
  <2>. PICK o : o = "DestroySandbox"
    OBVIOUS
  <2>1. /\ o \in {"PrepareSandbox", "DestroySandbox"} /\ mode # "exited"
        /\ op' = IF heard THEN [op EXCEPT ![w] = o] ELSE op
        /\ call' = [call EXCEPT ![c] = IF heard THEN Waiting(o, w) ELSE Done]
        /\ \A t \in Workers : worker_by_sandbox'[t] = worker_by_sandbox[t]
    BY <1>1
  <2>. QED BY <1>1, <1>2, <2>1, StartedWaits
<1>4. \A v \in Workers :
         /\ v \in {w} => /\ state[v] \in {"Idle", "Active"} /\ state'[v] = "Dying"
                         /\ ctrl'[v] = IF at[v] # "finished" THEN Append(ctrl[v], r) ELSE ctrl[v]
         /\ op'[v] = op[v] => Alike(v) \/ Dies(v)
  BY <1>1, <1>2, DyingSteps DEF RInv
<1>5. \A v \in Workers : Same(v)
  BY <1>1 DEF Same
<1>6. Attended(w)'
  <2>. PICK x, y, k \in BOOLEAN :
          /\ (x <=> inflight = w) /\ (y <=> w \in invoked) /\ (k <=> w \in cpu)
          /\ w \notin overtaken => Serving(mode, x, y, k, state[w], at[w], op[w], ctrl[w], out[w])
    BY <1>2, Of, AttendedAs
  <2>. PICK d, o2, m2 : d = ctrl'[w] /\ o2 = op'[w] /\ m2 = mode
    OBVIOUS
  <2>1. /\ at[w] # "finished" => d = Append(ctrl[w], r)
        /\ at[w] = "finished" => d = ctrl[w]
        /\ o2 = op[w] \/ (op[w] = None /\ o2 = "DestroySandbox")
        /\ m2 = "running" => mode = "running"
        /\ state[w] \in {"Idle", "Active"} /\ ctrl[w] \in Seq(ControlMessage)
        /\ Fit(state[w], at[w], op[w], ctrl[w], out[w])
    BY <1>1, <1>2, <1>3, <1>4, Of
  <2>2. w \notin overtaken => Serving(m2, x, y, k, "Dying", at[w], o2, d, out[w])
    BY <2>1, ServingDies
  <2>3. (inflight' = w <=> x) /\ (w \in invoked' <=> y) /\ (w \in cpu' <=> k)
    BY <1>1
  <2>4. mode' = m2 /\ state'[w] = "Dying" /\ at'[w] = at[w] /\ op'[w] = o2 /\ ctrl'[w] = d /\ out'[w] = out[w]
    BY <1>1, <1>2, <1>4
  <2>. QED BY <2>2, <2>3, <2>4, NowAttended
<1>7. ServingAt'
  BY <1>1, <1>3, <1>4, <1>5, <1>6, ServiceKept DEF RInv, BInv, GoesOn
<1>. QED BY <1>3, <1>7

LEMMA RequestDestroyDyingServes ==
    ASSUME Grows, RInv, NEW c \in Calls, NEW s \in Workers, RequestDestroyDying(c, s)
    PROVE  ServingAt' /\ WaitingAt'
<1>0. PICK w : w = worker_by_sandbox[s]
  OBVIOUS
<1>. PICK o : o = "DestroySandbox"
  OBVIOUS
<1>1. /\ w # None /\ op[w] = None /\ state[w] = "Dying" /\ mode = "running" /\ mode # "exited"
      /\ op' = IF TRUE THEN [op EXCEPT ![w] = o] ELSE op
      /\ call' = [call EXCEPT ![c] = IF TRUE THEN Waiting(o, w) ELSE Done]
      /\ UNCHANGED <<mode, state, sandbox_id, worker_by_sandbox, cpu, inflight, at, invoked, ctrl, out, box, exit>>
  BY <1>0 DEF RequestDestroyDying, Started, storeVars, workerVars
<1>2. w \in Workers
  BY <1>0, <1>1 DEF RInv, BInv, TypeOK
<1>3. WaitingAt' /\ op'[w] = o /\ \A v \in Workers \ {w} : op'[v] = op[v]
  <2>. PICK heard \in BOOLEAN : heard = TRUE
    OBVIOUS
  <2>1. /\ o \in {"PrepareSandbox", "DestroySandbox"}
        /\ op' = IF heard THEN [op EXCEPT ![w] = o] ELSE op
        /\ call' = [call EXCEPT ![c] = IF heard THEN Waiting(o, w) ELSE Done]
        /\ \A t \in Workers : worker_by_sandbox'[t] = worker_by_sandbox[t]
    BY <1>1
  <2>. QED BY <1>1, <1>2, <2>1, StartedWaits
<1>4. Attended(w)'
  <2>. PICK x, y, k \in BOOLEAN :
          /\ (x <=> inflight = w) /\ (y <=> w \in invoked) /\ (k <=> w \in cpu)
          /\ w \notin overtaken => Serving(mode, x, y, k, state[w], at[w], op[w], ctrl[w], out[w])
    BY <1>2, Of, AttendedAs
  <2>1. w \notin overtaken => Serving(mode, x, y, k, "Dying", at[w], None, ctrl[w], out[w])
    BY <1>1
  <2>2. w \notin overtaken => Serving(mode, x, y, k, "Dying", at[w], o, ctrl[w], out[w])
    BY <2>1, ServingDestroys
  <2>3. (inflight' = w <=> x) /\ (w \in invoked' <=> y) /\ (w \in cpu' <=> k)
    BY <1>1
  <2>4. mode' = mode /\ state'[w] = "Dying" /\ at'[w] = at[w] /\ op'[w] = o /\ ctrl'[w] = ctrl[w] /\ out'[w] = out[w]
    BY <1>1, <1>3
  <2>. QED BY <2>2, <2>3, <2>4, NowAttended
<1>5. \A v \in Workers \ {w} : Same(v) /\ Alike(v)
  BY <1>1, <1>3 DEF Same, Alike, Keeps
<1>6. ServingAt'
  BY <1>1, <1>4, <1>5, ServiceKept DEF RInv, BInv, GoesOn
<1>. QED BY <1>3, <1>6

LEMMA RequestSnapshotServes ==
    ASSUME Grows, RInv, NEW c \in Calls, NEW s \in Workers, NEW heard \in BOOLEAN, RequestSnapshot(c, s, heard)
    PROVE  ServingAt' /\ WaitingAt'
<1>0. PICK w : w = worker_by_sandbox[s]
  OBVIOUS
<1>1. /\ w # None /\ op[w] = None /\ w \in Idle \cup Active /\ (heard \/ at[w] = "finished")
      /\ mode = "running"
      /\ state' = [state EXCEPT ![w] = "Active"] /\ ctrl' = Sent({w}, "CreateSnapshot")
      /\ op' = IF heard THEN [op EXCEPT ![w] = "Snapshot"] ELSE op
      /\ call' = [call EXCEPT ![c] = IF heard THEN Waiting("Snapshot", s) ELSE Done]
      /\ UNCHANGED <<mode, sandbox_id, worker_by_sandbox, cpu, inflight, at, invoked, out, box, exit>>
  BY <1>0 DEF RequestSnapshot, Started, MayBeHeard
<1>2. w \in Workers
  BY <1>1 DEF Idle, Active
<1>3. WaitingAt' /\ op'[w] = (IF heard THEN "Snapshot" ELSE None) /\ \A v \in Workers \ {w} : op'[v] = op[v]
  <2>1. op'[w] = (IF heard THEN "Snapshot" ELSE None) /\ \A v \in Workers \ {w} : op'[v] = op[v]
    BY <1>1, <1>2 DEF RInv, BInv, TypeOK
  <2>2. \A d \in Calls : call'[d] = IF d # c THEN call[d] ELSE IF heard THEN Waiting("Snapshot", s) ELSE Done
    BY <1>1 DEF RInv, BInv, TypeOK
  <2>3. heard => Awaits(c)'
    BY <1>0, <1>1, <2>1, <2>2 DEF Awaits, Waiting
  <2>4. \A v \in Workers : op[v] = None \/ op'[v] = op[v]
    BY <1>1, <2>1
  <2>5. \A d \in Calls : call'[d] = call[d] \/ call'[d] = Done \/ Awaits(d)'
    BY <2>2, <2>3
  <2>6. WaitingAt'
    BY <1>1, <2>4, <2>5, StartsWaits
  <2>. QED BY <2>1, <2>6
<1>4. /\ state'[w] = "Active" /\ state[w] \in {"Idle", "Active"}
      /\ ctrl'[w] = IF at[w] # "finished" THEN Append(ctrl[w], "CreateSnapshot") ELSE ctrl[w]
      /\ \A v \in Workers \ {w} : state'[v] = state[v] /\ ctrl'[v] = ctrl[v]
  <2>1. ctrl \in [Workers -> Seq(ControlMessage)] /\ "CreateSnapshot" \in ControlMessage
    BY Of DEF RInv, BInv, TypeOK, ControlMessage
  <2>2. \A v \in Workers : ctrl'[v] = IF v \in {w} /\ at[v] # "finished" THEN Append(ctrl[v], "CreateSnapshot") ELSE ctrl[v]
    BY <1>1, <2>1, SentValue
  <2>. QED BY <1>1, <1>2, <2>2 DEF RInv, BInv, TypeOK, Idle, Active
<1>5. Attended(w)'
  <2>. PICK x, y, k \in BOOLEAN :
          /\ (x <=> inflight = w) /\ (y <=> w \in invoked) /\ (k <=> w \in cpu)
          /\ w \notin overtaken => Serving(mode, x, y, k, state[w], at[w], op[w], ctrl[w], out[w])
    BY <1>2, Of, AttendedAs
  <2>. PICK d, o2 : d = ctrl'[w] /\ o2 = op'[w]
    OBVIOUS
  <2>1. /\ w \notin overtaken => Serving("running", x, y, k, state[w], at[w], None, ctrl[w], out[w])
        /\ (state[w] = "Idle" \/ state[w] = "Active") /\ ctrl[w] \in Seq(ControlMessage)
        /\ at[w] # "finished" => d = Append(ctrl[w], "CreateSnapshot")
        /\ at[w] = "finished" => d = ctrl[w]
        /\ o2 = "Snapshot" \/ (o2 = None /\ at[w] = "finished")
    BY <1>1, <1>2, <1>3, <1>4, Of
  <2>3. w \notin overtaken => Serving("running", x, y, k, "Active", at[w], o2, d, out[w])
    BY <2>1, ServingSnaps
  <2>4. (inflight' = w <=> x) /\ (w \in invoked' <=> y) /\ (w \in cpu' <=> k)
    BY <1>1
  <2>5. mode' = "running" /\ state'[w] = "Active" /\ at'[w] = at[w] /\ op'[w] = o2 /\ ctrl'[w] = d /\ out'[w] = out[w]
    BY <1>1, <1>4
  <2>. QED BY <2>3, <2>4, <2>5, NowAttended
<1>6. \A v \in Workers \ {w} : Same(v) /\ Alike(v)
  BY <1>1, <1>3, <1>4 DEF Same, Alike, Keeps
<1>7. ServingAt'
  BY <1>1, <1>5, <1>6, ServiceKept DEF RInv, BInv, GoesOn
<1>. QED BY <1>3, <1>7

-----------------------------------------------------------------------------
(***************************************************************************)
(* A Worker is spawned.                                                    *)
(***************************************************************************)

\* What becomes of the other Workers: those of E are told to end.
Others(w, E) ==
    \A v \in Workers \ {w} :
        /\ Same(v) /\ Keeps(v)
        /\ state'[v] = IF v \in E THEN "Dying" ELSE state[v]
        /\ ctrl'[v] = IF v \in E /\ at[v] # "finished" THEN Append(ctrl[v], "ShutDown") ELSE ctrl[v]

LEMMA NewServes ==
    ASSUME Grows, RInv, NEW w \in Workers, at[w] = "unborn", NEW E \in SUBSET Idle, mode = "running", GoesOn,
           Others(w, E), Attended(w)',
           \A s \in Workers : worker_by_sandbox[s] = None \/ worker_by_sandbox'[s] = worker_by_sandbox[s],
           \A c \in Calls : call'[c] = call[c] \/ call'[c] = Done \/ Awaits(c)'
    PROVE  ServingAt' /\ WaitingAt'
<1>1. ASSUME NEW v \in Workers \ {w} PROVE Same(v) /\ (Alike(v) \/ Dies(v))
  <2>1. CASE v \in E
    <3>1. /\ Keeps(v) /\ state[v] \in {"Idle", "Active"} /\ state'[v] = "Dying"
          /\ ctrl'[v] = IF at[v] # "finished" THEN Append(ctrl[v], "ShutDown") ELSE ctrl[v]
      BY <2>1 DEF Others, Idle
    <3>. QED BY <3>1 DEF Dies, Others
  <2>2. CASE v \notin E
    BY <2>2 DEF Others, Alike
  <2>. QED BY <2>1, <2>2
<1>2. ServingAt'
  BY <1>1, ServiceKept DEF RInv, BInv
<1>3. op[w] = None /\ \A v \in Workers \ {w} : op'[v] = op[v]
  BY Unborn DEF RInv, Others, Keeps
<1>4. WaitingAt'
  BY <1>3, StartsWaits
<1>. QED BY <1>2, <1>4

\* A Worker that is not spawned yet has nothing.
LEMMA UnbornServes ==
    ASSUME RInv, NEW w \in Workers, at[w] = "unborn", mode = "running"
    PROVE  inflight # w /\ w \notin invoked /\ w \notin cpu
<1>. PICK x, y, k \in BOOLEAN :
        /\ (x <=> inflight = w) /\ (y <=> w \in invoked) /\ (k <=> w \in cpu)
        /\ w \notin overtaken => Serving(mode, x, y, k, state[w], at[w], op[w], ctrl[w], out[w])
  BY Of, AttendedAs
<1>1. /\ Serving("running", x, y, k, state[w], "unborn", op[w], ctrl[w], out[w])
      /\ Fit(state[w], "unborn", op[w], ctrl[w], out[w])
  <2>1. w \notin overtaken
    BY DEF RInv, OvertakenAt
  <2>. QED BY <2>1, Of
<1>2. ~x /\ ~y /\ ~k
  BY <1>1, ServingUnborn
<1>. QED BY <1>2

\* A Worker is found by the Sandbox it is spawned around, by which nobody was found.
LEMMA SpawnPlaces ==
    ASSUME BInv, NEW w \in Workers, NEW f, NEW s \in snapshots \cup {None}, NEW place, Spawn(w, f, s, place)
    PROVE  /\ at[w] = "unborn" /\ at'[w] = place
           /\ \A v \in Workers \ {w} : at'[v] = at[v] /\ box'[v] = box[v] /\ sandbox_id'[v] = sandbox_id[v]
           /\ \A t \in Workers : worker_by_sandbox[t] = None \/ worker_by_sandbox'[t] = worker_by_sandbox[t]
<1>1. /\ at[w] = "unborn" /\ at'[w] = place
      /\ \A v \in Workers \ {w} : at'[v] = at[v] /\ box'[v] = box[v] /\ sandbox_id'[v] = sandbox_id[v]
      /\ \A t \in Workers : worker_by_sandbox'[t] = IF t = s THEN w ELSE worker_by_sandbox[t]
  BY DEF Spawn, BInv, TypeOK, Put
<1>2. ASSUME s \in Workers, worker_by_sandbox[s] # None PROVE FALSE
  <2>. PICK v \in Workers : v = worker_by_sandbox[s]
    BY <1>2 DEF BInv, TypeOK
  <2>1. sandbox_id[v] = s /\ state[v] # "None" /\ s # None
    BY <1>2, PoolAssumption DEF BInv, IndexAt
  <2>2. box[v] = s /\ at[v] # "reaped"
    BY <2>1, BooksOf DEF Books, Fit, Owning
  <2>. QED BY <1>2, <2>1, <2>2 DEF BInv, SharedAt, Live
<1>. QED BY <1>1, <1>2

LEMMA DispatchNewServes ==
    ASSUME Grows, RInv, NEW f \in Functions, NEW w \in Workers, NEW s \in Workers \cup {None}, NEW E \in SUBSET Idle,
           NEW answered \in BOOLEAN, DispatchNew(f, w, s, E, answered)
    PROVE  ServingAt' /\ WaitingAt'
<1>. USE DEF ctlVars
<1>0. None \notin Workers
  BY PoolAssumption
<1>. PICK ns : ns = IF answered THEN "Active" ELSE "Idle"
  OBVIOUS
<1>1. /\ SpawnAndEvict(w, f, s, E, "starting", ns) /\ Reply(w, answered) /\ mode = "running" /\ inflight = None
      /\ ctrl' = Sent(E, "ShutDown") /\ s \in snapshots \cup {None}
      /\ UNCHANGED <<leaked, trashed, ctlVars, invoked, out, exit, snapped>>
  BY DEF DispatchNew, MaySpawn, Dispatching, PreferSnapshot, Orphans
<1>2. SpawnedAs(w, f, s, E, "starting", ns)
  <2>1. BInv /\ "starting" \in Place /\ ns \in {"Active", "Idle"} /\ SpawnAndEvict(w, f, s, E, "starting", ns)
    BY <1>1 DEF Place, RInv
  <2>. QED BY <2>1, SpawnAndEvictValue, Zenon
<1>3. /\ at[w] = "unborn" /\ at'[w] = "starting"
      /\ \A v \in Workers \ {w} : at'[v] = at[v] /\ box'[v] = box[v] /\ sandbox_id'[v] = sandbox_id[v]
      /\ \A t \in Workers : worker_by_sandbox[t] = None \/ worker_by_sandbox'[t] = worker_by_sandbox[t]
  <2>1. BInv /\ Spawn(w, f, s, "starting")
    BY <1>2 DEF SpawnedAs, RInv
  <2>. QED BY <1>1, <2>1, SpawnPlaces
<1>4. \A v \in Workers : state'[v] = IF v = w THEN ns ELSE IF v \in E THEN "Dying" ELSE state[v]
  BY <1>2 DEF SpawnedAs
<1>5. /\ state[w] = "None" /\ op[w] = None /\ ctrl[w] = <<>> /\ out[w] = <<>> /\ w \notin E
      /\ inflight # w /\ w \notin invoked /\ w \notin cpu
  BY <1>1, <1>3, Unborn, UnbornServes DEF RInv
<1>6. \A v \in Workers : ctrl'[v] = IF v \in E /\ at[v] # "finished" THEN Append(ctrl[v], "ShutDown") ELSE ctrl[v]
  <2>1. ctrl \in [Workers -> Seq(ControlMessage)] /\ "ShutDown" \in ControlMessage
    BY DEF RInv, BInv, TypeOK, ControlMessage
  <2>. QED BY <1>1, <2>1, SentValue
<1>7. /\ answered => mode' = "running" /\ inflight' = w /\ cpu' = cpu \cup {w} /\ ns = "Active"
      /\ ~answered => mode' = "stopping" /\ inflight' = None /\ cpu' = cpu \ {w} /\ ns = "Idle"
  BY <1>1 DEF Reply, cpuset_alloc, cpuset_release
<1>8. Others(w, E)
  <2>1. \A v \in Workers \ {w} : Same(v)
    BY <1>0, <1>1, <1>7 DEF Same
  <2>2. \A v \in Workers \ {w} : Keeps(v)
    BY <1>1, <1>3 DEF Keeps
  <2>. QED BY <1>4, <1>6, <2>1, <2>2 DEF Others
<1>9. Attended(w)'
  <2>. PICK t, n \in BOOLEAN : t = TRUE /\ n = FALSE
    OBVIOUS
  <2>. PICK m1, m2 : m1 = "running" /\ m2 = "stopping"
    OBVIOUS
  <2>1. ~n
    OBVIOUS
  <2>2. /\ Serving("running", TRUE, n, TRUE, "Active", "starting", None, <<>>, <<>>)
        /\ Serving("stopping", n, n, n, "Idle", "starting", None, <<>>, <<>>)
    BY <2>1, ServingSpawned
  <2>3. /\ Serving(m1, t, n, t, "Active", "starting", None, <<>>, <<>>)
        /\ Serving(m2, n, n, n, "Idle", "starting", None, <<>>, <<>>)
    BY <2>2
  <2>4. /\ at'[w] = "starting" /\ op'[w] = None /\ ctrl'[w] = <<>> /\ out'[w] = <<>>
        /\ w \notin invoked' /\ state'[w] = ns
    BY <1>1, <1>3, <1>4, <1>5, <1>6
  <2>5. CASE answered
    <3>1. (inflight' = w <=> t) /\ (w \in invoked' <=> n) /\ (w \in cpu' <=> t) /\ mode' = m1 /\ state'[w] = "Active"
      BY <1>7, <2>4, <2>5
    <3>. QED BY <2>3, <2>4, <3>1, NowAttended
  <2>6. CASE ~answered
    <3>1. (inflight' = w <=> n) /\ (w \in invoked' <=> n) /\ (w \in cpu' <=> n) /\ mode' = m2 /\ state'[w] = "Idle"
      BY <1>0, <1>7, <2>4, <2>6
    <3>. QED BY <2>3, <2>4, <3>1, NowAttended
  <2>. QED BY <2>5, <2>6
<1>10. GoesOn /\ \A c \in Calls : call'[c] = call[c]
  BY <1>1, <1>7 DEF GoesOn
<1>. QED BY <1>1, <1>3, <1>8, <1>9, <1>10, NewServes

LEMMA RequestPrepServes ==
    ASSUME Grows, RInv, NEW c \in Calls, NEW f \in Functions, NEW w \in Workers, NEW s \in Workers \cup {None},
           NEW E \in SUBSET Idle, RequestPrep(c, f, w, s, E) \/ RequestPrepUnheard(c, f, w, s, E)
    PROVE  ServingAt' /\ WaitingAt'
<1>0. None \notin Workers
  BY PoolAssumption
<1>. PICK heard \in BOOLEAN : heard <=> RequestPrep(c, f, w, s, E)
  OBVIOUS
<1>. PICK place : place = IF heard THEN "starting" ELSE "finished"
  OBVIOUS
<1>1. /\ SpawnAndEvict(w, f, s, E, place, "Active") /\ mode = "running" /\ s \in snapshots \cup {None}
      /\ op' = [op EXCEPT ![w] = "PrepareSandbox"]
      /\ call' = [call EXCEPT ![c] = IF heard THEN Waiting("PrepareSandbox", w) ELSE Done]
      /\ UNCHANGED <<mode, inflight, invoked>>
  BY DEF RequestPrep, RequestPrepUnheard, Orphans
<1>2. /\ heard => /\ ctrl' = [Sent(E, "ShutDown") EXCEPT ![w] = <<"PrepareSandbox">>]
                  /\ cpu' = cpu \cup {w} /\ UNCHANGED <<out, exit>>
      /\ ~heard => /\ ctrl' = Sent(E, "ShutDown") /\ cpu' = cpu /\ out' = [out EXCEPT ![w] = <<"ReapMe">>]
                   /\ exit' = [exit EXCEPT ![w] = IF s = None THEN "Gone" ELSE "Reusable"]
  BY DEF RequestPrep, RequestPrepUnheard, cpuset_alloc
<1>3. SpawnedAs(w, f, s, E, place, "Active")
  <2>1. BInv /\ place \in Place /\ "Active" \in {"Active", "Idle"} /\ SpawnAndEvict(w, f, s, E, place, "Active")
    BY <1>1 DEF Place, RInv
  <2>. QED BY <2>1, SpawnAndEvictValue, Zenon
<1>4. /\ at[w] = "unborn" /\ at'[w] = place
      /\ \A v \in Workers \ {w} : at'[v] = at[v] /\ box'[v] = box[v] /\ sandbox_id'[v] = sandbox_id[v]
      /\ \A t \in Workers : worker_by_sandbox[t] = None \/ worker_by_sandbox'[t] = worker_by_sandbox[t]
  <2>1. BInv /\ Spawn(w, f, s, place)
    BY <1>3 DEF SpawnedAs, RInv
  <2>. QED BY <1>1, <2>1, SpawnPlaces
<1>5. \A v \in Workers : state'[v] = IF v = w THEN "Active" ELSE IF v \in E THEN "Dying" ELSE state[v]
  BY <1>3 DEF SpawnedAs
<1>6. /\ state[w] = "None" /\ op[w] = None /\ ctrl[w] = <<>> /\ out[w] = <<>> /\ w \notin E
      /\ inflight # w /\ w \notin invoked /\ w \notin cpu
  BY <1>1, <1>4, Unborn, UnbornServes DEF RInv
<1>7. /\ \A v \in Workers \ {w} :
            ctrl'[v] = IF v \in E /\ at[v] # "finished" THEN Append(ctrl[v], "ShutDown") ELSE ctrl[v]
      /\ ctrl'[w] = IF heard THEN <<"PrepareSandbox">> ELSE <<>>
  <2>. DEFINE p == Sent(E, "ShutDown")
              m == <<"PrepareSandbox">>
  <2>1. ctrl \in [Workers -> Seq(ControlMessage)] /\ "ShutDown" \in ControlMessage
    BY DEF RInv, BInv, TypeOK, ControlMessage
  <2>2. /\ p \in [Workers -> Seq(ControlMessage)]
        /\ \A v \in Workers : p[v] = IF v \in E /\ at[v] # "finished" THEN Append(ctrl[v], "ShutDown") ELSE ctrl[v]
    BY <2>1, SentValue
  <2>3. heard => ctrl' = [p EXCEPT ![w] = m]
    BY <1>2
  <2>4. ~heard => ctrl' = p
    BY <1>2
  <2>. HIDE DEF p, m
  <2>5. (\A v \in Workers \ {w} : ctrl'[v] = p[v]) /\ ctrl'[w] = IF heard THEN m ELSE p[w]
    BY <2>2, <2>3, <2>4
  <2>. QED BY <1>6, <2>2, <2>5 DEF m
<1>8. Others(w, E)
  <2>1. \A v \in Workers \ {w} : Same(v)
    BY <1>1, <1>2 DEF Same
  <2>2. \A v \in Workers \ {w} : op'[v] = op[v] /\ out'[v] = out[v] /\ exit'[v] = exit[v]
    BY <1>1, <1>2 DEF RInv, BInv, TypeOK
  <2>3. \A v \in Workers \ {w} : Keeps(v)
    BY <1>4, <2>2 DEF Keeps
  <2>. QED BY <1>5, <1>7, <2>1, <2>3 DEF Others
<1>9. Attended(w)'
  <2>. PICK x, y, k \in BOOLEAN : x = FALSE /\ y = FALSE /\ k = heard
    OBVIOUS
  <2>. PICK d, q : d = ctrl'[w] /\ q = out'[w]
    OBVIOUS
  <2>1. q = IF heard THEN <<>> ELSE <<"ReapMe">>
    BY <1>2, <1>6 DEF RInv, BInv, TypeOK
  <2>2. Serving("running", x, y, k, "Active", place, "PrepareSandbox", d, q)
    BY <1>7, <2>1, ServingSpawned
  <2>3. (inflight' = w <=> x) /\ (w \in invoked' <=> y) /\ (w \in cpu' <=> k)
    BY <1>1, <1>2, <1>6
  <2>4. mode' = "running" /\ state'[w] = "Active" /\ at'[w] = place /\ op'[w] = "PrepareSandbox" /\ ctrl'[w] = d /\ out'[w] = q
    BY <1>1, <1>4, <1>5 DEF RInv, BInv, TypeOK
  <2>. QED BY <2>2, <2>3, <2>4, NowAttended
<1>10. \A d \in Calls : call'[d] = call[d] \/ call'[d] = Done \/ Awaits(d)'
  <2>1. op'[w] = "PrepareSandbox" /\ \A d \in Calls : call'[d] = IF d # c THEN call[d] ELSE IF heard THEN Waiting("PrepareSandbox", w) ELSE Done
    BY <1>1 DEF RInv, BInv, TypeOK
  <2>. QED BY <2>1 DEF Awaits, Waiting
<1>11. GoesOn
  BY <1>1 DEF GoesOn
<1>. QED BY <1>1, <1>4, <1>8, <1>9, <1>10, <1>11, NewServes

LEMMA RequestPrepReapedServes ==
    ASSUME Grows, RInv, NEW c \in Calls, NEW f \in Functions, NEW w \in Workers, NEW E \in SUBSET Idle,
           RequestPrepReaped(c, f, w, E)
    PROVE  ServingAt' /\ WaitingAt'
<1>1. /\ at[w] = "unborn" /\ mode = "running" /\ to_dying(E) /\ ctrl' = Sent(E, "ShutDown")
      /\ at' = [at EXCEPT ![w] = "reaped"] /\ out' = [out EXCEPT ![w] = <<"ReapMe">>]
      /\ call' = [call EXCEPT ![c] = Done]
      /\ UNCHANGED <<mode, sandbox_id, worker_by_sandbox, cpu, op, inflight, invoked, box, exit>>
  BY DEF RequestPrepReaped
<1>2. /\ state[w] = "None" /\ op[w] = None /\ ctrl[w] = <<>> /\ w \notin E
      /\ inflight # w /\ w \notin invoked /\ w \notin cpu
  BY <1>1, Unborn, UnbornServes DEF RInv
<1>3. \A v \in Workers : state'[v] = IF v \in E THEN "Dying" ELSE state[v]
  BY <1>1, DyingValue DEF RInv, BInv
<1>4. \A v \in Workers : ctrl'[v] = IF v \in E /\ at[v] # "finished" THEN Append(ctrl[v], "ShutDown") ELSE ctrl[v]
  <2>1. ctrl \in [Workers -> Seq(ControlMessage)] /\ "ShutDown" \in ControlMessage
    BY DEF RInv, BInv, TypeOK, ControlMessage
  <2>. QED BY <1>1, <2>1, SentValue
<1>5. /\ at'[w] = "reaped" /\ out'[w] = <<"ReapMe">>
      /\ \A v \in Workers \ {w} : at'[v] = at[v] /\ out'[v] = out[v]
  BY <1>1 DEF RInv, BInv, TypeOK
<1>6. Others(w, E)
  <2>1. \A v \in Workers \ {w} : Same(v) /\ Keeps(v)
    BY <1>1, <1>5 DEF Same, Keeps
  <2>. QED BY <1>3, <1>4, <2>1 DEF Others
<1>7. Attended(w)'
  <2>. PICK x, y, k \in BOOLEAN : x = FALSE /\ y = FALSE /\ k = FALSE
    OBVIOUS
  <2>1. Serving("running", x, y, k, "None", "reaped", None, <<>>, <<"ReapMe">>)
    BY ServingSpawned
  <2>2. (inflight' = w <=> x) /\ (w \in invoked' <=> y) /\ (w \in cpu' <=> k)
    BY <1>1, <1>2
  <2>3. mode' = "running" /\ state'[w] = "None" /\ at'[w] = "reaped" /\ op'[w] = None /\ ctrl'[w] = <<>> /\ out'[w] = <<"ReapMe">>
    BY <1>1, <1>2, <1>3, <1>4, <1>5
  <2>. QED BY <2>1, <2>2, <2>3, NowAttended
<1>8. \A d \in Calls : call'[d] = call[d] \/ call'[d] = Done
  BY <1>1 DEF RInv, BInv, TypeOK
<1>. QED BY <1>1, <1>6, <1>7, <1>8, NewServes DEF GoesOn

LEMMA RequestDestroyOrphanServes ==
    ASSUME Grows, RInv, NEW c \in Calls, NEW s \in Workers, NEW w \in Workers, NEW heard \in BOOLEAN,
           RequestDestroyOrphan(c, s, w, heard)
    PROVE  ServingAt' /\ WaitingAt'
<1>. DEFINE place == IF heard THEN "starting" ELSE "finished"
            o2 == IF heard THEN "DestroySandbox" ELSE None
            c2 == IF heard THEN <<"DestroySandbox">> ELSE <<>>
            q2 == IF heard THEN <<>> ELSE <<"ReapMe">>
            e2 == IF heard THEN None ELSE "Reusable"
<1>1. /\ s \in snapshots \cup {None} /\ Spawn(w, fn[s], s, place) /\ mode = "running"
      /\ state' = [state EXCEPT ![w] = "Dying"]
      /\ ctrl' = [ctrl EXCEPT ![w] = c2] /\ out' = [out EXCEPT ![w] = q2] /\ exit' = [exit EXCEPT ![w] = e2]
      /\ op' = IF heard THEN [op EXCEPT ![w] = "DestroySandbox"] ELSE op
      /\ call' = [call EXCEPT ![c] = IF heard THEN Waiting("DestroySandbox", w) ELSE Done]
      /\ UNCHANGED <<mode, cpu, inflight, invoked>>
  BY DEF RequestDestroyOrphan, Started
<1>2. Serving("running", FALSE, FALSE, FALSE, "Dying", place, o2, c2, q2)
  BY ServingSpawned
<1>. HIDE DEF place, o2, c2, q2, e2
<1>3. /\ at[w] = "unborn" /\ at'[w] = place
      /\ \A v \in Workers \ {w} : at'[v] = at[v] /\ box'[v] = box[v] /\ sandbox_id'[v] = sandbox_id[v]
      /\ \A t \in Workers : worker_by_sandbox[t] = None \/ worker_by_sandbox'[t] = worker_by_sandbox[t]
  BY <1>1, SpawnPlaces DEF RInv
<1>4. /\ op[w] = None /\ w \notin Idle
      /\ inflight # w /\ w \notin invoked /\ w \notin cpu
  BY <1>1, <1>3, Unborn, UnbornServes DEF RInv
<1>5. /\ state'[w] = "Dying" /\ ctrl'[w] = c2 /\ out'[w] = q2 /\ op'[w] = o2
      /\ \A v \in Workers \ {w} : /\ state'[v] = state[v] /\ ctrl'[v] = ctrl[v] /\ out'[v] = out[v]
                                  /\ op'[v] = op[v] /\ exit'[v] = exit[v]
  BY <1>1, <1>4 DEF RInv, BInv, TypeOK, o2
<1>6. Others(w, {})
  <2>1. \A v \in Workers \ {w} : Same(v) /\ Keeps(v)
    BY <1>1, <1>3, <1>5 DEF Same, Keeps
  <2>. QED BY <1>5, <2>1 DEF Others
<1>7. Attended(w)'
  <2>. PICK x, y, k \in BOOLEAN : x = FALSE /\ y = FALSE /\ k = FALSE
    OBVIOUS
  <2>1. Serving("running", x, y, k, "Dying", place, o2, c2, q2)
    BY <1>2
  <2>2. (inflight' = w <=> x) /\ (w \in invoked' <=> y) /\ (w \in cpu' <=> k)
    BY <1>1, <1>4
  <2>3. mode' = "running" /\ state'[w] = "Dying" /\ at'[w] = place /\ op'[w] = o2 /\ ctrl'[w] = c2 /\ out'[w] = q2
    BY <1>1, <1>3, <1>5
  <2>. QED BY <2>1, <2>2, <2>3, NowAttended
<1>8. \A d \in Calls : call'[d] = call[d] \/ call'[d] = Done \/ Awaits(d)'
  <2>1. \A d \in Calls : call'[d] = IF d # c THEN call[d] ELSE IF heard THEN Waiting("DestroySandbox", w) ELSE Done
    BY <1>1 DEF RInv, BInv, TypeOK
  <2>2. heard => op'[w] = "DestroySandbox"
    BY <1>5 DEF o2
  <2>. QED BY <2>1, <2>2 DEF Awaits, Waiting
<1>9. {} \in SUBSET Idle /\ GoesOn
  BY <1>1 DEF GoesOn
<1>. QED BY <1>1, <1>3, <1>6, <1>7, <1>8, <1>9, NewServes

LEMMA DispatchStepServes ==
    ASSUME Grows, RInv, DispatchStep
    PROVE  ServingAt' /\ WaitingAt'
<1>. PICK f \in Functions :
        \/ \E w \in Workers : DispatchAborts(f, w)
        \/ \E w \in Workers, answered \in BOOLEAN :
               \/ DispatchIdle(f, w, answered)
               \/ \E s \in Workers \cup {None}, E \in SUBSET Idle : DispatchNew(f, w, s, E, answered)
        \/ \E E \in SUBSET Idle : DispatchDenied(f, E)
  BY DEF DispatchStep
<1>0. CASE \E w \in Workers : DispatchAborts(f, w)
  BY <1>0, DispatchAbortsServes, Zenon
<1>1. CASE \E w \in Workers, answered \in BOOLEAN : DispatchIdle(f, w, answered)
  BY <1>1, DispatchIdleServes, Zenon
<1>2. CASE \E w \in Workers, answered \in BOOLEAN, s \in Workers \cup {None}, E \in SUBSET Idle :
              DispatchNew(f, w, s, E, answered)
  BY <1>2, DispatchNewServes, Zenon
<1>3. CASE \E E \in SUBSET Idle : DispatchDenied(f, E)
  <2>1. PICK E \in SUBSET Idle : DispatchDenied(f, E)
    BY <1>3
  <2>2. mode = "running"
    BY <2>1 DEF DispatchDenied, MaySpawn, Dispatching
  <2>. QED BY <2>1, <2>2, EvictOnlyServes, Zenon
<1>. QED BY <1>0, <1>1, <1>2, <1>3, Zenon

LEMMA ControlStepServes ==
    ASSUME Grows, RInv, NEW c \in Calls, ControlStep(c)
    PROVE  ServingAt' /\ WaitingAt'
<1>1. CASE RequestRefused(c)
  BY <1>1, RequestRefusedServes
<1>2. CASE \E s \in Workers, o \in {"DestroySandbox", "Snapshot"} : RequestJoins(c, s, o)
  BY <1>2, RequestJoinsServes, Zenon
<1>3. CASE \E f \in Functions, s \in Workers \cup {None}, E \in SUBSET Idle : RequestPrepOutOfMemory(c, f, s, E)
  <2>1. PICK f \in Functions, s \in Workers \cup {None}, E \in SUBSET Idle : RequestPrepOutOfMemory(c, f, s, E)
    BY <1>3
  <2>2. mode = "running"
    BY <2>1 DEF RequestPrepOutOfMemory
  <2>. QED BY <2>1, <2>2, EvictOnlyServes, Zenon
<1>4. CASE \E f \in Functions, s \in Workers \cup {None}, E \in SUBSET Idle, w \in Workers :
              RequestPrep(c, f, w, s, E) \/ RequestPrepUnheard(c, f, w, s, E)
  BY <1>4, RequestPrepServes, Zenon
<1>5. CASE \E f \in Functions, w \in Workers, E \in SUBSET Idle : RequestPrepReaped(c, f, w, E)
  BY <1>5, RequestPrepReapedServes, Zenon
<1>6. CASE \E s \in Workers, heard \in BOOLEAN, remove \in BOOLEAN : RequestDestroyLive(c, s, remove, heard)
  BY <1>6, RequestDestroyLiveServes, Zenon
<1>7. CASE \E s \in Workers, heard \in BOOLEAN, w \in Workers : RequestDestroyOrphan(c, s, w, heard)
  BY <1>7, RequestDestroyOrphanServes, Zenon
<1>8. CASE \E s \in Workers, heard \in BOOLEAN : RequestSnapshot(c, s, heard)
  BY <1>8, RequestSnapshotServes, Zenon
<1>9. CASE \E s \in Workers : RequestDestroyDying(c, s)
  BY <1>9, RequestDestroyDyingServes, Zenon
<1>. QED BY <1>1, <1>2, <1>3, <1>4, <1>5, <1>6, <1>7, <1>8, <1>9, Zenon DEF ControlStep

-----------------------------------------------------------------------------
(***************************************************************************)
(* Every Worker is attended to, and every call.                            *)
(***************************************************************************)

LEMMA RInvInit == Init => RInv
<1>. SUFFICES ASSUME Init PROVE RInv
  OBVIOUS
<1>0. /\ mode = "running" /\ inflight = None /\ invoked = {} /\ cpu = {}
      /\ \A w \in Workers : /\ state[w] = "None" /\ at[w] = "unborn" /\ op[w] = None
                            /\ ctrl[w] = <<>> /\ out[w] = <<>>
      /\ \A c \in Calls : call[c] = New
  BY DEF Init
<1>1. BInv
  BY BInvInit
<1>2. ASSUME NEW w \in Workers PROVE Attended(w)
  <2>1. None \notin {"PrepareSandbox", "DestroySandbox", "Snapshot"} /\ inflight # w
    BY <1>0, PoolAssumption DEF PendingControlOp
  <2>2. w \notin invoked /\ w \notin cpu
    BY <1>0
  <2>3. Serving("running", inflight = w, w \in invoked, w \in cpu, "None", "unborn", None, <<>>, <<>>)
    BY <2>1, <2>2, HasNothing DEF Serving, OneInvocation, Serves, Answers, Ready, Returns, UnderWay
  <2>. QED BY <1>0, <2>3 DEF Attended
<1>3. WaitingAt
  BY <1>0 DEF WaitingAt, Awaits, New
<1>4. OvertakenAt
  BY DEF Init, OvertakenAt
<1>. QED BY <1>1, <1>2, <1>3, <1>4 DEF RInv, ServingAt

\* Who was overtaken stays so, who is was at its loop, and who was born stays born; only an
\* assertion that fails aborts the process.
Aging ==
    /\ Grows
    /\ \A v \in Workers : at'[v] = "unborn" => at[v] = "unborn" /\ (v \in overtaken' => v \in overtaken)
    /\ overtaken' \subseteq Workers
    /\ mode' = "aborted" => mode = "aborted"

LEMMA WorkerAges ==
    ASSUME BInv, NEW w \in Workers, WorkerStep(w)
    PROVE  Aging
<1>. USE DEF Aging, Grows, BInv, TypeOK, poolVars
<1>1. CASE WorkerInit(w) \/ handle_request(w) \/ create_sandbox(w) \/ RequestEnds(w)
  BY <1>1 DEF WorkerInit, handle_request, create_sandbox, RequestEnds
<1>2. CASE WorkerInitFails(w)
  BY <1>2 DEF WorkerInitFails, Finish
<1>3. CASE \E e \in SandboxExit : RequestFails(w, e) \/ HandleShutDown(w, e) \/ HandleDestroySandbox(w, e)
  BY <1>3 DEF RequestFails, HandleShutDown, HandleDestroySandbox, Finish
<1>4. CASE handle_prepare_sandbox_request(w) \/ handle_snapshot_request(w)
  BY <1>4 DEF handle_prepare_sandbox_request, handle_snapshot_request, Control
<1>. QED BY <1>1, <1>2, <1>3, <1>4 DEF WorkerStep

LEMMA PoolAges ==
    ASSUME BInv, NEW w \in Workers, MessageStep(w) \/ timer_run(w) \/ KeepAliveStep(w) \/ Forward(w)
    PROVE  Aging
<1>. USE DEF Aging, Grows, BInv, TypeOK
<1>1. CASE update_sandbox_id(w) \/ on_need_work(w) \/ DrainNeedWork(w)
  BY <1>1 DEF update_sandbox_id, on_need_work, DrainNeedWork
<1>2. CASE \E m \in {"Prepared", "PrepFailed"} : finalize_sandbox_preparation(w, m) \/ DrainPreparation(w, m)
  BY <1>2 DEF finalize_sandbox_preparation, DrainPreparation
<1>3. CASE finalize_snapshotting(w) \/ DrainSnapshot(w)
  BY <1>3 DEF finalize_snapshotting, DrainSnapshot
<1>4. CASE reap_worker(w) \/ ReapIgnored(w)
  BY <1>4 DEF reap_worker, ReapIgnored, poolVars
<1>5. CASE timer_run(w) \/ Forward(w)
  BY <1>5 DEF timer_run, Forward, workerVars
<1>6. CASE KeepAliveStep(w)
  BY <1>6 DEF KeepAliveStep, KeepAliveTimeout
<1>. QED BY <1>1, <1>2, <1>3, <1>4, <1>5, <1>6 DEF MessageStep

LEMMA SpawnAges ==
    ASSUME BInv, NEW w \in Workers, NEW f, NEW s, NEW place, place # "unborn", Spawn(w, f, s, place),
           UNCHANGED overtaken, mode' # "aborted"
    PROVE  Aging
  BY DEF Aging, Grows, BInv, TypeOK, Spawn

LEMMA DispatchAges ==
    ASSUME BInv, NEW f, NEW w \in Workers, NEW answered \in BOOLEAN,
           DispatchIdle(f, w, answered) \/ \E s, E : DispatchNew(f, w, s, E, answered) \/ DispatchDenied(f, E)
    PROVE  Aging
<1>1. CASE DispatchIdle(f, w, answered)
  BY <1>1 DEF DispatchIdle, Dispatching, Reply, workerVars, Aging, Grows, BInv, TypeOK
<1>2. CASE \E s, E : DispatchNew(f, w, s, E, answered)
  <2>1. PICK s, E : DispatchNew(f, w, s, E, answered)
    BY <1>2
  <2>2. Spawn(w, f, s, "starting") /\ UNCHANGED overtaken /\ mode' # "aborted"
    BY <2>1 DEF DispatchNew, MaySpawn, Dispatching, SpawnAndEvict, Reply
  <2>. QED BY <2>2, SpawnAges
<1>3. CASE \E E : DispatchDenied(f, E)
  BY <1>3 DEF DispatchDenied, Aging, Grows, BInv, TypeOK
<1>. QED BY <1>1, <1>2, <1>3

LEMMA ControlAges ==
    ASSUME BInv, NEW c \in Calls, ControlStep(c)
    PROVE  Aging
<1>1. CASE \/ RequestRefused(c) \/ \E s, o : RequestJoins(c, s, o) \/ RequestDestroyDying(c, s)
           \/ \E f, s, E : RequestPrepOutOfMemory(c, f, s, E)
  BY <1>1 DEF RequestRefused, RequestJoins, RequestDestroyDying, RequestPrepOutOfMemory, workerVars,
              Aging, Grows, BInv, TypeOK
<1>2. CASE \E f, s, E : \E w \in Workers : RequestPrep(c, f, w, s, E) \/ RequestPrepUnheard(c, f, w, s, E)
  <2>1. PICK f, s, E : \E w \in Workers : RequestPrep(c, f, w, s, E) \/ RequestPrepUnheard(c, f, w, s, E)
    BY <1>2
  <2>2. PICK w \in Workers : RequestPrep(c, f, w, s, E) \/ RequestPrepUnheard(c, f, w, s, E)
    BY <2>1
  <2>3. UNCHANGED <<mode, overtaken>> /\ mode = "running"
        /\ \E place \in {"starting", "finished"} : Spawn(w, f, s, place)
    BY <2>2 DEF RequestPrep, RequestPrepUnheard, SpawnAndEvict
  <2>. QED BY <2>3, SpawnAges
<1>3. CASE \E f, E : \E w \in Workers : RequestPrepReaped(c, f, w, E)
  BY <1>3 DEF RequestPrepReaped, Aging, Grows, BInv, TypeOK
<1>4. CASE \E s, heard : RequestSnapshot(c, s, heard) \/ \E remove : RequestDestroyLive(c, s, remove, heard)
  BY <1>4 DEF RequestSnapshot, RequestDestroyLive, Aging, Grows, BInv, TypeOK
<1>5. CASE \E s, heard : \E w \in Workers : RequestDestroyOrphan(c, s, w, heard)
  <2>1. PICK s, heard : \E w \in Workers : RequestDestroyOrphan(c, s, w, heard)
    BY <1>5
  <2>2. PICK w \in Workers : RequestDestroyOrphan(c, s, w, heard)
    BY <2>1
  <2>3. UNCHANGED <<mode, overtaken>> /\ mode = "running"
        /\ \E place \in {"starting", "finished"} : Spawn(w, fn[s], s, place)
    BY <2>2 DEF RequestDestroyOrphan
  <2>. QED BY <2>3, SpawnAges
<1>. QED BY <1>1, <1>2, <1>3, <1>4, <1>5, Zenon DEF ControlStep

LEMMA NextAges ==
    ASSUME BInv, [Next]_vars
    PROVE  Aging \/ \E f \in Functions, w \in Workers : DispatchAborts(f, w)
<1>1. CASE \E w \in Workers : WorkerStep(w)
  BY <1>1, WorkerAges, Zenon
<1>2. CASE \E w \in Workers : MessageStep(w) \/ timer_run(w) \/ KeepAliveStep(w) \/ Forward(w)
  BY <1>2, PoolAges, Zenon
<1>3. CASE DispatchStep
  <2>1. PICK f \in Functions :
           \/ \E w \in Workers : DispatchAborts(f, w)
           \/ \E w \in Workers, answered \in BOOLEAN :
                  \/ DispatchIdle(f, w, answered)
                  \/ \E s \in Workers \cup {None}, E \in SUBSET Idle : DispatchNew(f, w, s, E, answered)
           \/ \E E \in SUBSET Idle : DispatchDenied(f, E)
    BY <1>3 DEF DispatchStep
  <2>2. CASE \E w \in Workers, answered \in BOOLEAN :
                 DispatchIdle(f, w, answered) \/ \E s, E : DispatchNew(f, w, s, E, answered)
    BY <2>2, DispatchAges, Zenon
  <2>3. CASE \E E \in SUBSET Idle : DispatchDenied(f, E)
    BY <2>3 DEF DispatchDenied, MaySpawn, Dispatching, Aging, Grows, BInv, TypeOK
  <2>. QED BY <2>1, <2>2, <2>3, Zenon
<1>4. CASE \E c \in Calls : ControlStep(c)
  BY <1>4, ControlAges, Zenon
<1>5. CASE LeaveLoop \/ BeginShutdown \/ FinishShutdown \/ Exited \/ UNCHANGED vars
  BY <1>5 DEF LeaveLoop, BeginShutdown, FinishShutdown, Exited, vars, poolVars, workerVars,
              Aging, Grows, BInv, TypeOK
<1>. QED BY <1>1, <1>2, <1>3, <1>4, <1>5 DEF Next

LEMMA RInvStep == RInv /\ [Next]_vars => RInv'
<1>. SUFFICES ASSUME RInv, [Next]_vars PROVE RInv'
  OBVIOUS
<1>0. BInv'
  BY BInvStep DEF RInv
<1>a. CASE \E f \in Functions, w \in Workers : DispatchAborts(f, w)
  <2>1. PICK f \in Functions, w \in Workers : DispatchAborts(f, w)
    BY <1>a
  <2>2. overtaken' = overtaken /\ at' = at
    BY <2>1 DEF DispatchAborts, workerVars
  <2>3. Grows
    BY <2>2 DEF Grows
  <2>4. ServingAt' /\ WaitingAt' /\ w \in overtaken
    BY <2>1, <2>3, DispatchAbortsServes
  <2>5. OvertakenAt'
    BY <2>2, <2>4 DEF OvertakenAt, RInv
  <2>. QED BY <1>0, <2>4, <2>5 DEF RInv
<1>. SUFFICES ASSUME Aging PROVE RInv'
  BY <1>a, NextAges DEF RInv
<1>. Grows
  BY DEF Aging
<1>b. OvertakenAt'
  BY DEF OvertakenAt, RInv, Aging, Grows
<1>. SUFFICES ServingAt' /\ WaitingAt'
  BY <1>0, <1>b DEF RInv
<1>1. ASSUME NEW w \in Workers, WorkerStep(w) \/ MessageStep(w) \/ timer_run(w) \/ KeepAliveStep(w) \/ Forward(w)
      PROVE  ServingAt' /\ WaitingAt'
  <2>1. CASE WorkerStep(w)
    BY <2>1, WorkerStepServes
  <2>2. CASE MessageStep(w)
    BY <2>2, MessageStepServes
  <2>3. CASE timer_run(w)
    BY <2>3, timer_runServes
  <2>4. CASE KeepAliveStep(w)
    BY <2>4, KeepAliveTimeoutServes, Zenon DEF KeepAliveStep
  <2>5. CASE Forward(w)
    BY <2>5, ForwardServes
  <2>. QED BY <1>1, <2>1, <2>2, <2>3, <2>4, <2>5
<1>2. CASE DispatchStep
  BY <1>2, DispatchStepServes
<1>3. CASE \E c \in Calls : ControlStep(c)
  BY <1>3, ControlStepServes
<1>4. CASE LeaveLoop
  BY <1>4, LeaveLoopServes
<1>5. CASE BeginShutdown
  BY <1>5, BeginShutdownServes
<1>6. CASE FinishShutdown
  BY <1>6, FinishShutdownServes
<1>7. CASE Exited \/ UNCHANGED vars
  BY <1>7, StutterServes DEF Exited
<1>. QED BY <1>1, <1>2, <1>3, <1>4, <1>5, <1>6, <1>7 DEF Next

\* The three facts combined.
THEOREM SpecServes == Spec => []RInv
  BY RInvInit, RInvStep, PTL DEF Spec

\* While the Pool has not exited, every Idle Worker can be dispatched to: its timer and its
\* deadline exist, nothing else has one, it holds no cpuset, nothing is pending for it, queued
\* for it or unsaid by it, whatever dispatches, calls, timeouts and failures came before,
\* unless a snapshotting overtook an invocation of that Worker.
THEOREM SpecIdleIsReady == Spec => []IdleIsReady
<1>1. RInv => IdleIsReady
  <2>. SUFFICES ASSUME RInv, mode # "exited"
                PROVE  /\ timers = Idle /\ deadlines = Idle
                       /\ \A w \in Idle \ overtaken :
                              /\ w \notin cpu /\ op[w] = None
                              /\ at[w] \in {"starting", "loop"} \/ (at[w] = "finished" /\ mode = "stopping")
                              /\ w # inflight /\ w \notin invoked /\ ctrl[w] = <<>>
                              /\ ~InQueue(out[w], OutboundMessage \ {"ReapMe"})
    BY DEF IdleIsReady
  <2>1. timers = Idle /\ deadlines = Idle
    BY DEF RInv, BInv, TimersAt
  <2>2. ASSUME NEW w \in Idle \ overtaken
        PROVE  /\ w \notin cpu /\ op[w] = None
               /\ at[w] \in {"starting", "loop"} \/ (at[w] = "finished" /\ mode = "stopping")
               /\ w # inflight /\ w \notin invoked /\ ctrl[w] = <<>>
               /\ ~InQueue(out[w], OutboundMessage \ {"ReapMe"})
    <3>1. w \in Workers /\ state[w] = "Idle" /\ w \notin overtaken
      BY DEF Idle
    <3>2. PICK x, y, k \in BOOLEAN :
             /\ (x <=> inflight = w) /\ (y <=> w \in invoked) /\ (k <=> w \in cpu)
             /\ w \notin overtaken => Serving(mode, x, y, k, state[w], at[w], op[w], ctrl[w], out[w])
      BY <3>1, Of, AttendedAs
    <3>3. mode \in {"running", "stopping", "draining", "aborted"}
      BY DEF RInv, BInv, TypeOK
    <3>4. /\ ~k /\ op[w] = None /\ ctrl[w] = <<>>
          /\ at[w] \in {"starting", "loop"} \/ (at[w] = "finished" /\ mode = "stopping")
          /\ \A m \in OutboundMessage \ {"ReapMe"} : ~Has(out[w], m)
      BY <3>1, <3>2, <3>3 DEF Serving, Ready
    <3>5. ~x /\ ~y
      BY <3>1, <3>2 DEF Serving, OneInvocation, Serves
    <3>6. ~InQueue(out[w], OutboundMessage \ {"ReapMe"})
      BY <3>4 DEF Has, InQueue
    <3>. QED BY <3>2, <3>4, <3>5, <3>6
  <2>. QED BY <2>1, <2>2
<1>. QED BY <1>1, SpecServes, PTL

\* While the Pool runs, whoever holds a cpuset is tracked, serves or prepares, and is bound to
\* tell the Pool, which releases the cpuset: none is lost to a Worker that is gone or parked,
\* unless a snapshotting overtook an invocation of that Worker.
THEOREM SpecCpuComesBack == Spec => []CpuComesBack
<1>1. RInv => CpuComesBack
  <2>. SUFFICES ASSUME RInv, mode = "running", NEW w \in cpu \ overtaken
                PROVE  /\ state[w] \in {"Active", "Dying"}
                       /\ \/ w = inflight \/ w \in invoked
                          \/ at[w] \in {"busy", "preparing"}
                          \/ InQueue(ctrl[w], {"PrepareSandbox"})
                          \/ InQueue(out[w], {"NeedWork", "Prepared", "PrepFailed", "ReapMe"})
    BY DEF CpuComesBack
  <2>1. w \in Workers
    BY DEF RInv, BInv, TypeOK
  <2>2. PICK x, y, k \in BOOLEAN :
           /\ (x <=> inflight = w) /\ (y <=> w \in invoked) /\ (k <=> w \in cpu)
           /\ w \notin overtaken => Serving(mode, x, y, k, state[w], at[w], op[w], ctrl[w], out[w])
    BY <2>1, Of, AttendedAs
  <2>3. /\ state[w] \in {"Active", "Dying"}
        /\ x \/ y \/ at[w] \in {"busy", "preparing"} \/ Has(ctrl[w], "PrepareSandbox")
           \/ \E m \in {"NeedWork", "Prepared", "PrepFailed", "ReapMe"} : Has(out[w], m)
    BY <2>2 DEF Serving, Returns, Serves
  <2>4. /\ Has(ctrl[w], "PrepareSandbox") => InQueue(ctrl[w], {"PrepareSandbox"})
        /\ \A m \in {"NeedWork", "Prepared", "PrepFailed", "ReapMe"} :
               Has(out[w], m) => InQueue(out[w], {"NeedWork", "Prepared", "PrepFailed", "ReapMe"})
    BY DEF Has, InQueue
  <2>. QED BY <2>2, <2>3, <2>4
<1>. QED BY <1>1, SpecServes, PTL

\* No caller of the control plane waits in a context that nothing will end: while the Pool has
\* not exited, the Worker of the context has the operation pending, and the order, the work or
\* its answer is under way, unless a snapshotting overtook an invocation of that Worker.
THEOREM SpecNoWaiterStranded == Spec => []NoWaiterStranded
<1>1. RInv => NoWaiterStranded
  <2>. SUFFICES ASSUME RInv, mode # "exited", NEW c \in Calls, call[c].op \in PendingControlOp,
                       NEW o, o = call[c].op,
                       NEW w, w = IF o = "Snapshot" THEN worker_by_sandbox[call[c].on] ELSE call[c].on
                PROVE  /\ w # None /\ state[w] # "None" /\ op[w] = o
                       /\ \/ w \in overtaken
                          \/ InQueue(out[w], {"ReapMe"})
                          \/ o = "PrepareSandbox" /\ (at[w] = "preparing" \/ InQueue(ctrl[w], {"PrepareSandbox"})
                                                        \/ InQueue(out[w], {"Prepared", "PrepFailed"}))
                          \/ o = "DestroySandbox" /\ InQueue(ctrl[w], {"ShutDown", "DestroySandbox"})
                          \/ o = "Snapshot" /\ (InQueue(ctrl[w], {"CreateSnapshot"})
                                                  \/ InQueue(out[w], {"Snapshotted"}))
    BY DEF NoWaiterStranded
  <2>1. call[c].on \in Workers
    <3>1. call[c] \in CallType
      BY DEF RInv, BInv, TypeOK
    <3>2. call[c] # New /\ call[c] # Done
      BY DEF New, Done, PendingControlOp
    <3>3. call[c] \in [op : PendingControlOp, on : Workers]
      BY <3>1, <3>2 DEF CallType
    <3>. QED BY <3>3
  <2>2. w \in Workers /\ op[w] = o
    BY <2>1 DEF RInv, WaitingAt, Awaits, BInv, TypeOK, PendingControlOp
  <2>3. w # None /\ o # None
    BY <2>2, PoolAssumption
  <2>4. /\ state[w] # "None"
        /\ w \notin overtaken => UnderWay(at[w], o, ctrl[w], out[w])
    BY <2>2, <2>3, Of DEF Fit, Attended, Serving
  <2>. USE DEF Has, InQueue
  <2>5. CASE o = "PrepareSandbox"
    BY <2>2, <2>3, <2>4, <2>5 DEF UnderWay
  <2>6. CASE o = "DestroySandbox"
    BY <2>2, <2>3, <2>4, <2>6 DEF UnderWay
  <2>7. CASE o = "Snapshot"
    BY <2>2, <2>3, <2>4, <2>7 DEF UnderWay
  <2>. QED BY <2>5, <2>6, <2>7 DEF PendingControlOp
<1>. QED BY <1>1, SpecServes, PTL

\* The assertion in CpuSetManager::alloc fails only after a snapshotting has overtaken an
\* invocation: there is no other way to an Idle Worker with a cpuset.
THEOREM SpecAbortsOnlyOvertaken == Spec => [](mode = "aborted" => overtaken # {})
  BY SpecServes, PTL DEF RInv, OvertakenAt
=============================================================================
