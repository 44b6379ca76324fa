----------------------------- MODULE SubnetPool -----------------------------
(***************************************************************************)
(* FifoExactIpv4SubnetPool (crates/snaplace/src/network/ip_utils/          *)
(* subnet_pool/fifo_exact.rs), from which both TAP providers take the /31  *)
(* subnet of every sandbox.  Subnets never handed out come from an         *)
(* iterator, returned ones from a FIFO queue whose entries count only while*)
(* they are also in free_set; get() takes one subnet out of either.        *)
(*                                                                         *)
(* The subnets of the configured network are numbered 0 .. N-1 in the      *)
(* order of the iterator; Ipv4Net's order is the order of the numbers.     *)
(***************************************************************************)
EXTENDS Integers, Sequences

CONSTANTS
    N,         \* how many subnets the configured network has
    Nets,      \* the subnets that callers may name: also foreign ones
    NoSubnet,  \* get_next's None
    Careful,   \* do callers name only subnets that nobody holds?
    MaxQueue   \* bound: a subnet is returned only while free_q is shorter

Configured == 0 .. N-1

ASSUME SubnetAssumption ==
    /\ N \in Nat
    /\ Nets \subseteq Int /\ Configured \subseteq Nets
    /\ NoSubnet \notin Nets
    /\ Careful \in BOOLEAN
    /\ MaxQueue \in Nat

VARIABLES
    next,      \* what iter.peek() returns; N: nothing is left
    taken,     \* taken by get() ahead of the iterator
    free_q,    \* the returned subnets, with stale and duplicate entries
    free_set,  \* the returned subnets that are still free
    held       \* history: how many holders each subnet has

vars == <<next, taken, free_q, free_set, held>>

-----------------------------------------------------------------------------
(***************************************************************************)
(* The methods of the pool                                                 *)
(***************************************************************************)

\* The entries of the queue that are not stale.
Live == {i \in DOMAIN free_q : free_q[i] \in free_set}

\* What the iterator still has to give.
Untaken == {s \in next .. N-1 : s \notin taken}

\* get_next() returning s: the first live entry, else the first untaken subnet.
get_next(s) ==
    \/ \E i \in Live :
        /\ \A j \in Live : i <= j
        /\ s = free_q[i]
        /\ free_q' = SubSeq(free_q, i + 1, Len(free_q))
        /\ free_set' = free_set \ {s}
        /\ UNCHANGED <<next, taken>>
    \/ /\ Live = {}
       /\ free_q' = <<>>
       /\ \/ /\ s \in Untaken
             /\ \A t \in Untaken : s <= t
             /\ next' = s + 1
          \/ /\ Untaken = {} /\ s = NoSubnet
             /\ next' = N
       /\ UNCHANGED <<taken, free_set>>

\* Is s at or ahead of the iterator's head?
Ahead(s) == next < N /\ s >= next

\* Mutant: a returned subnet is always queued.
AlwaysQueue(s) ==
    /\ taken' = taken \ {s}
    /\ free_set' = free_set \cup {s}
    /\ free_q' = IF s \in free_set THEN free_q ELSE Append(free_q, s)
    /\ UNCHANGED next

\* Mutant: what get() once took is never queued.
NeverQueueTaken(s) ==
    /\ taken' = taken \ {s}
    /\ IF s \in taken \/ s \in free_set
       THEN UNCHANGED <<free_q, free_set>>
       ELSE /\ free_set' = free_set \cup {s}
            /\ free_q' = Append(free_q, s)
    /\ UNCHANGED next

\* give_back(s): a subnet that the iterator will still reach is left to it.
give_back(s) ==
    /\ taken' = taken \ {s}
    /\ IF s \in free_set \/ (s \in taken /\ Ahead(s))
       THEN UNCHANGED <<free_q, free_set>>
       ELSE /\ free_set' = free_set \cup {s}
            /\ free_q' = Append(free_q, s)
    /\ UNCHANGED next

\* Does get(s) return Ok?  At the iterator's head it does not look at taken.
GetOk(s) ==
    IF Ahead(s) THEN s = next \/ s \notin taken ELSE s \in free_set

\* get(s): SubnetNotFree changes nothing.
get(s) ==
    \/ /\ ~GetOk(s)
       /\ UNCHANGED <<next, taken, free_set>>
    \/ /\ GetOk(s) /\ Ahead(s) /\ s = next
       /\ next' = next + 1
       /\ UNCHANGED <<taken, free_set>>
    \/ /\ GetOk(s) /\ Ahead(s) /\ s > next
       /\ taken' = taken \cup {s}
       /\ UNCHANGED <<next, free_set>>
    \/ /\ GetOk(s) /\ ~Ahead(s)
       /\ free_set' = free_set \ {s}
       /\ UNCHANGED <<next, taken>>

-----------------------------------------------------------------------------
(***************************************************************************)
(* The callers, as the type's documentation wants them: they give back only*)
(* what get_next or get returned to them.                                  *)
(***************************************************************************)

\* A new sandbox needs any subnet.
Acquire ==
    \E s \in Nets \cup {NoSubnet} :
        /\ get_next(s)
        /\ held' = IF s = NoSubnet THEN held ELSE [held EXCEPT ![s] = @ + 1]

\* A snapshot that is reinstated needs the subnet it was taken with.
Request(s) ==
    /\ Careful => held[s] = 0
    /\ get(s)
    /\ held' = IF GetOk(s) THEN [held EXCEPT ![s] = @ + 1] ELSE held
    /\ UNCHANGED free_q

\* A sandbox is destroyed.
Release(s) ==
    /\ held[s] > 0
    /\ Len(free_q) < MaxQueue
    /\ give_back(s)
    /\ held' = [held EXCEPT ![s] = @ - 1]

Init ==
    /\ next = 0
    /\ taken = {}
    /\ free_q = <<>>
    /\ free_set = {}
    /\ held = [s \in Nets |-> 0]

Next ==
    \/ Acquire
    \/ \E s \in Nets : Request(s) \/ Release(s)

Spec == Init /\ [][Next]_vars

-----------------------------------------------------------------------------
TypeOK ==
    /\ next \in 0 .. N
    /\ taken \subseteq Nets
    /\ free_q \in Seq(Nets)
    /\ free_set \subseteq Nets
    /\ held \in [Nets -> Nat]

\* No two sandboxes have the same subnet: what get_next and get return is not
\* handed out again before it is given back.
NoDoubleHandout == \A s \in Nets : held[s] <= 1

\* get_next finds nothing (NoMoreIpv4Subnets) only when every subnet of the
\* configured network is held: none is lost between the iterator, the queue
\* with its stale entries, and the subnets taken ahead.
NoFalseExhaustion ==
    Live = {} /\ Untaken = {} => \A s \in Configured : held[s] > 0

\* A snapshot can be reinstated whenever nobody holds its subnet: get never
\* refuses a configured subnet that was given back or never handed out.
FreeIsObtainable == \A s \in Configured : held[s] = 0 => GetOk(s)
=============================================================================
