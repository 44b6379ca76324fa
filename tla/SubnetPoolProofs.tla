-------------------------- MODULE SubnetPoolProofs --------------------------
(***************************************************************************)
(* Proofs about SubnetPool, for a network of any size and any foreign      *)
(* subnets: with callers that name only subnets nobody holds, the pool     *)
(* hands out no subnet twice and loses none.                               *)
(*                                                                         *)
(* The argument is where a subnet is.  One that the iterator has not       *)
(* reached is marked taken exactly while it is held; one that it has passed*)
(* is held or in free_set, never both; and free_set never says more than   *)
(* the queue remembers.                                                    *)
(***************************************************************************)
EXTENDS SubnetPool, SequenceTheorems, TLAPS

\* A subnet has at most one holder; a marked one has exactly one.
Held1 == \A s \in Nets : held[s] \in {0, 1}
TakenHeld == \A s \in taken : held[s] = 1
\* Ahead of the iterator, the marks are exact.
AheadMarked == \A s \in Nets : Ahead(s) /\ held[s] = 1 => s \in taken
\* What is free is held by nobody and out of the iterator's reach.
FreeUnheld == \A s \in free_set : held[s] = 0 /\ ~Ahead(s)
\* Nothing that the iterator has passed is lost.
PassedKept == \A s \in Configured : s < next /\ held[s] = 0 => s \in free_set
\* Everything free has an entry in the queue.
FreeQueued == \A s \in free_set : \E i \in DOMAIN free_q : free_q[i] = s

Inv ==
    /\ TypeOK
    /\ Held1 /\ TakenHeld /\ AheadMarked /\ FreeUnheld /\ PassedKept /\ FreeQueued

LEMMA InitInv == Init => Inv
BY SubnetAssumption
DEF Init, Inv, TypeOK, Held1, TakenHeld, AheadMarked, FreeUnheld, PassedKept, FreeQueued,
    Ahead, Configured

\* What an entry of the queue's tail was in the queue.
LEMMA TailOfQueue ==
    ASSUME NEW q \in Seq(Nets), NEW i \in DOMAIN q
    PROVE  LET t == SubSeq(q, i + 1, Len(q)) IN
           /\ t \in Seq(Nets)
           /\ \A j \in DOMAIN q : j > i => \E k \in DOMAIN t : t[k] = q[j]
<1> DEFINE t == SubSeq(q, i + 1, Len(q))
<1>1. /\ Len(q) \in Nat /\ DOMAIN q = 1 .. Len(q) /\ i \in 1 .. Len(q)
  OBVIOUS
<1>2. /\ t \in Seq(Nets) /\ Len(t) = Len(q) - i
      /\ \A k \in 1 .. Len(t) : t[k] = q[i + k]
  BY SMTT(40), <1>1
<1>3. ASSUME NEW j \in DOMAIN q, j > i PROVE \E k \in DOMAIN t : t[k] = q[j]
  <2>1. j - i \in 1 .. Len(t) BY <1>1, <1>2, <1>3
  <2>2. t[j - i] = q[j] BY <1>1, <1>2, <2>1
  <2>3. DOMAIN t = 1 .. Len(t) BY <1>2
  <2> QED BY <2>1, <2>2, <2>3
<1> QED BY <1>2, <1>3

LEMMA AcquireInv ==
    ASSUME Inv, Acquire PROVE Inv'
<1> USE SubnetAssumption
<1> PICK s \in Nets \cup {NoSubnet} :
        /\ get_next(s)
        /\ held' = IF s = NoSubnet THEN held ELSE [held EXCEPT ![s] = @ + 1]
  BY DEF Acquire
<1>1. CASE \E i \in Live :
        /\ \A j \in Live : i <= j
        /\ s = free_q[i]
        /\ free_q' = SubSeq(free_q, i + 1, Len(free_q))
        /\ free_set' = free_set \ {s}
        /\ UNCHANGED <<next, taken>>
  <2> PICK i \in Live :
        /\ \A j \in Live : i <= j
        /\ s = free_q[i]
        /\ free_q' = SubSeq(free_q, i + 1, Len(free_q))
        /\ free_set' = free_set \ {s}
        /\ UNCHANGED <<next, taken>>
    BY <1>1
  <2>1. /\ free_q \in Seq(Nets) /\ i \in DOMAIN free_q /\ s \in free_set /\ s \in Nets
        /\ s # NoSubnet
    BY DEF Live, Inv, TypeOK
  <2>2. /\ free_q' \in Seq(Nets)
        /\ \A j \in DOMAIN free_q : j > i => \E k \in DOMAIN free_q' : free_q'[k] = free_q[j]
    BY <2>1, TailOfQueue
  <2>3. held' = [held EXCEPT ![s] = @ + 1] BY <2>1
  <2>4. held[s] = 0 /\ ~Ahead(s) BY <2>1 DEF Inv, FreeUnheld
  <2>5. \A t \in Nets : held'[t] = IF t = s THEN 1 ELSE held[t]
    BY <2>1, <2>3, <2>4 DEF Inv, TypeOK
  <2>6. \A t : Ahead(t)' <=> Ahead(t) BY DEF Ahead
  <2>14. held' \in [Nets -> Nat]
    <3>1. held \in [Nets -> Nat] BY DEF Inv, TypeOK
    <3> QED BY <2>1, <2>3, <2>4, <3>1
  <2>7. TypeOK' BY <2>2, <2>14, <2>1 DEF Inv, TypeOK
  <2>8. Held1' BY <2>5 DEF Inv, Held1
  <2>9. TakenHeld' BY <2>5 DEF Inv, TakenHeld, TypeOK
  <2>10. AheadMarked' BY <2>5, <2>6, <2>4 DEF Inv, AheadMarked
  <2>11. FreeUnheld' BY <2>5, <2>6 DEF Inv, FreeUnheld, TypeOK
  <2>12. PassedKept' BY <2>5 DEF Inv, PassedKept, Configured
  <2>13. FreeQueued'
    <3> SUFFICES ASSUME NEW t \in free_set' PROVE \E k \in DOMAIN free_q' : free_q'[k] = t
      BY DEF FreeQueued
    <3>1. PICK j \in DOMAIN free_q : free_q[j] = t BY DEF Inv, FreeQueued
    <3>2. j \in Live /\ i <= j /\ j # i BY <3>1 DEF Live
    <3>3. i \in Int /\ j \in Int BY <2>1, <3>1
    <3>4. j > i BY <3>2, <3>3
    <3> QED BY <2>2, <3>1, <3>4
  <2> QED BY <2>7, <2>8, <2>9, <2>10, <2>11, <2>12, <2>13 DEF Inv
<1>2. CASE /\ Live = {} /\ free_q' = <<>> /\ UNCHANGED <<taken, free_set>>
           /\ s \in Untaken /\ (\A t \in Untaken : s <= t) /\ next' = s + 1
  <2>1. /\ s \in next .. N-1 /\ s \notin taken /\ s \in Nets /\ s # NoSubnet
        /\ next \in 0 .. N
    BY <1>2 DEF Untaken, Inv, TypeOK, Configured
  <2>2. Ahead(s) BY <2>1 DEF Ahead
  <2>3. held[s] = 0 BY <2>1, <2>2 DEF Inv, Held1, AheadMarked
  <2>4. \A t \in Nets : held'[t] = IF t = s THEN 1 ELSE held[t]
    BY <2>1, <2>3 DEF Inv, TypeOK
  <2>5. held' \in [Nets -> Nat] BY <2>1 DEF Inv, TypeOK
  <2>6. free_set = {} BY <1>2 DEF Inv, FreeQueued, Live
  <2>7. \A t \in Nets : Ahead(t)' => Ahead(t) /\ t # s
    BY <1>2, <2>1 DEF Ahead
  <2>8. TypeOK' BY <1>2, <2>1, <2>5 DEF Inv, TypeOK
  <2>9. Held1' BY <2>4 DEF Inv, Held1
  <2>10. TakenHeld' BY <1>2, <2>1, <2>4 DEF Inv, TakenHeld, TypeOK
  <2>11. AheadMarked' BY <1>2, <2>4, <2>7 DEF Inv, AheadMarked
  <2>12. FreeUnheld' /\ FreeQueued' BY <1>2, <2>6 DEF FreeUnheld, FreeQueued
  <2>13. PassedKept'
    <3> SUFFICES ASSUME NEW t \in Configured, t < next', held'[t] = 0 PROVE t \in free_set
      BY <1>2 DEF PassedKept
    <3>1. t \in Nets /\ t # s /\ held[t] = 0 BY <2>4
    <3>2. t \in Int /\ s \in Int /\ next \in Int BY <2>1
    <3>3. t < s BY <1>2, <3>1, <3>2
    <3>4. CASE t < next BY <3>4, <3>1 DEF Inv, PassedKept
    <3>5. CASE t >= next
      <4>1. t \in next .. N-1 /\ t \notin Untaken BY <3>2, <3>3, <3>5, <1>2, <2>1
      <4>2. t \in taken BY <4>1 DEF Untaken
      <4> QED BY <4>2, <3>1 DEF Inv, TakenHeld
    <3> QED BY <3>2, <3>4, <3>5
  <2> QED BY <2>8, <2>9, <2>10, <2>11, <2>12, <2>13 DEF Inv
<1>3. CASE /\ Live = {} /\ free_q' = <<>> /\ UNCHANGED <<taken, free_set>>
           /\ Untaken = {} /\ s = NoSubnet /\ next' = N
  <2>1. held' = held BY <1>3
  <2>2. free_set = {} BY <1>3 DEF Inv, FreeQueued, Live
  <2>3. \A t : ~Ahead(t)' BY <1>3 DEF Ahead
  <2>4. TypeOK' BY <1>3, <2>1 DEF Inv, TypeOK
  <2>5. Held1' /\ TakenHeld' BY <1>3, <2>1 DEF Inv, Held1, TakenHeld
  <2>6. AheadMarked' BY <2>3 DEF AheadMarked
  <2>7. FreeUnheld' /\ FreeQueued' BY <1>3, <2>2 DEF FreeUnheld, FreeQueued
  <2>8. PassedKept'
    <3> SUFFICES ASSUME NEW t \in Configured, held[t] = 0 PROVE t \in free_set
      BY <1>3, <2>1 DEF PassedKept
    <3>1. t \in 0 .. N-1 /\ next \in 0 .. N BY DEF Configured, Inv, TypeOK
    <3>2. CASE t < next BY <3>2 DEF Inv, PassedKept
    <3>3. CASE t >= next
      <4>1. t \in next .. N-1 BY <3>1, <3>3
      <4>2. t \in taken BY <4>1, <1>3 DEF Untaken
      <4> QED BY <4>2 DEF Inv, TakenHeld
    <3> QED BY <3>1, <3>2, <3>3
  <2> QED BY <2>4, <2>5, <2>6, <2>7, <2>8 DEF Inv
<1> QED BY <1>1, <1>2, <1>3 DEF get_next

LEMMA RequestInv ==
    ASSUME Careful, Inv, NEW s \in Nets, Request(s) PROVE Inv'
<1> USE SubnetAssumption
<1>1. held[s] = 0 /\ free_q' = free_q BY DEF Request
<1>2. CASE ~GetOk(s)
  <2>1. vars' = vars BY <1>1, <1>2 DEF Request, get, vars
  <2> QED BY <2>1 DEF Inv, TypeOK, Held1, TakenHeld, AheadMarked, FreeUnheld, PassedKept,
                     FreeQueued, Ahead, vars
<1>3. CASE GetOk(s)
  <2>1. held' = [held EXCEPT ![s] = @ + 1] BY <1>3 DEF Request
  <2>2. held' \in [Nets -> Nat] /\ \A t \in Nets : held'[t] = IF t = s THEN 1 ELSE held[t]
    BY <1>1, <2>1 DEF Inv, TypeOK
  <2>3. Held1' BY <2>2 DEF Inv, Held1
  <2>4. next \in Int /\ N \in Int /\ s \in Int /\ next \in 0 .. N BY DEF Inv, TypeOK
  <2>5. CASE Ahead(s) /\ s = next
    <3>1. next' = next + 1 /\ UNCHANGED <<taken, free_set>>
      BY <1>3, <2>4, <2>5 DEF Request, get
    <3>2. next < N BY <2>5 DEF Ahead
    <3>3. \A t \in Nets : Ahead(t)' => Ahead(t) /\ t # s BY <2>4, <2>5, <3>1 DEF Ahead
    <3>4. TypeOK' BY <1>1, <2>2, <2>4, <3>1, <3>2 DEF Inv, TypeOK
    <3>5. TakenHeld' BY <2>2, <3>1 DEF Inv, TakenHeld, TypeOK
    <3>6. AheadMarked' BY <2>2, <3>1, <3>3 DEF Inv, AheadMarked
    <3>7. s \notin free_set BY <2>5 DEF Inv, FreeUnheld
    <3>8. FreeUnheld' BY <2>2, <3>1, <3>3, <3>7 DEF Inv, FreeUnheld, TypeOK
    <3>9. PassedKept'
      BY <2>2, <2>4, <2>5, <3>1 DEF Inv, PassedKept, Configured
    <3>10. FreeQueued' BY <1>1, <3>1 DEF Inv, FreeQueued
    <3> QED BY <2>3, <3>4, <3>5, <3>6, <3>8, <3>9, <3>10 DEF Inv
  <2>6. CASE Ahead(s) /\ s > next
    <3>1. taken' = taken \cup {s} /\ UNCHANGED <<next, free_set>>
      BY <1>3, <2>4, <2>6 DEF Request, get
    <3>2. \A t : Ahead(t)' <=> Ahead(t) BY <3>1 DEF Ahead
    <3>3. TypeOK' BY <1>1, <2>2, <3>1 DEF Inv, TypeOK
    <3>4. TakenHeld' BY <2>2, <3>1 DEF Inv, TakenHeld, TypeOK
    <3>5. AheadMarked' BY <2>2, <3>1, <3>2 DEF Inv, AheadMarked
    <3>6. s \notin free_set BY <2>6 DEF Inv, FreeUnheld
    <3>7. FreeUnheld' BY <2>2, <3>1, <3>2, <3>6 DEF Inv, FreeUnheld, TypeOK
    <3>8. PassedKept' BY <2>2, <3>1 DEF Inv, PassedKept, Configured
    <3>9. FreeQueued' BY <1>1, <3>1 DEF Inv, FreeQueued
    <3> QED BY <2>3, <3>3, <3>4, <3>5, <3>7, <3>8, <3>9 DEF Inv
  <2>7. CASE ~Ahead(s)
    <3>1. free_set' = free_set \ {s} /\ UNCHANGED <<next, taken>>
      BY <1>3, <2>7 DEF Request, get
    <3>2. \A t : Ahead(t)' <=> Ahead(t) BY <3>1 DEF Ahead
    <3>3. TypeOK' BY <1>1, <2>2, <3>1 DEF Inv, TypeOK
    <3>4. TakenHeld' BY <2>2, <3>1 DEF Inv, TakenHeld, TypeOK
    <3>5. AheadMarked' BY <2>2, <2>7, <3>1, <3>2 DEF Inv, AheadMarked
    <3>6. FreeUnheld' BY <2>2, <3>1, <3>2 DEF Inv, FreeUnheld, TypeOK
    <3>7. PassedKept' BY <2>2, <3>1 DEF Inv, PassedKept, Configured
    <3>8. FreeQueued' BY <1>1, <3>1 DEF Inv, FreeQueued
    <3> QED BY <2>3, <3>3, <3>4, <3>5, <3>6, <3>7, <3>8 DEF Inv
  <2>8. Ahead(s) => s = next \/ s > next BY <2>4 DEF Ahead
  <2> QED BY <2>5, <2>6, <2>7, <2>8
<1> QED BY <1>2, <1>3

LEMMA ReleaseInv ==
    ASSUME Inv, NEW s \in Nets, Release(s) PROVE Inv'
<1> USE SubnetAssumption
<1>1. /\ held[s] > 0 /\ held' = [held EXCEPT ![s] = @ - 1]
      /\ taken' = taken \ {s} /\ next' = next
  BY DEF Release, give_back
<1>2. held[s] = 1 BY <1>1 DEF Inv, Held1
<1>3. held' \in [Nets -> Nat] /\ \A t \in Nets : held'[t] = IF t = s THEN 0 ELSE held[t]
  BY <1>1, <1>2 DEF Inv, TypeOK
<1>4. s \notin free_set BY <1>2 DEF Inv, FreeUnheld
<1>5. \A t : Ahead(t)' <=> Ahead(t) BY <1>1 DEF Ahead
<1>6. Held1' BY <1>3 DEF Inv, Held1
<1>7. TakenHeld' BY <1>1, <1>3 DEF Inv, TakenHeld, TypeOK
<1>8. AheadMarked' BY <1>1, <1>3, <1>5 DEF Inv, AheadMarked
<1>9. CASE s \in taken /\ Ahead(s)
  <2>1. UNCHANGED <<free_q, free_set>> BY <1>9 DEF Release, give_back
  <2>2. TypeOK' BY <1>1, <1>3, <2>1 DEF Inv, TypeOK
  <2>3. FreeUnheld' BY <1>3, <1>5, <2>1 DEF Inv, FreeUnheld, TypeOK
  <2>4. next \in Int /\ s \in Int /\ s >= next BY <1>9 DEF Inv, TypeOK, Ahead
  <2>5. PassedKept' BY <1>1, <1>3, <2>1, <2>4 DEF Inv, PassedKept, Configured
  <2>6. FreeQueued' BY <2>1 DEF Inv, FreeQueued
  <2> QED BY <1>6, <1>7, <1>8, <2>2, <2>3, <2>5, <2>6 DEF Inv
<1>10. CASE ~(s \in taken /\ Ahead(s))
  <2>1. free_set' = free_set \cup {s} /\ free_q' = Append(free_q, s)
    BY <1>4, <1>10 DEF Release, give_back
  <2>2. ~Ahead(s) BY <1>2, <1>10 DEF Inv, AheadMarked
  <2>3. /\ free_q \in Seq(Nets) /\ Len(free_q) \in Nat
        /\ DOMAIN free_q = 1 .. Len(free_q)
    BY DEF Inv, TypeOK
  <2>4. /\ free_q' \in Seq(Nets) /\ DOMAIN free_q' = 1 .. Len(free_q) + 1
        /\ \A k \in DOMAIN free_q : free_q'[k] = free_q[k]
        /\ free_q'[Len(free_q) + 1] = s
    BY <2>1, <2>3
  <2>5. TypeOK' BY <1>1, <1>3, <2>1, <2>4 DEF Inv, TypeOK
  <2>6. FreeUnheld' BY <1>3, <1>5, <2>1, <2>2 DEF Inv, FreeUnheld, TypeOK
  <2>7. PassedKept' BY <1>1, <1>3, <2>1 DEF Inv, PassedKept, Configured
  <2>8. FreeQueued'
    <3> SUFFICES ASSUME NEW t \in free_set' PROVE \E k \in DOMAIN free_q' : free_q'[k] = t
      BY DEF FreeQueued
    <3>1. CASE t = s BY <2>3, <2>4, <3>1
    <3>2. CASE t \in free_set
      <4>1. PICK j \in DOMAIN free_q : free_q[j] = t BY <3>2 DEF Inv, FreeQueued
      <4>2. j \in DOMAIN free_q' BY <2>3, <2>4, <4>1
      <4> QED BY <2>4, <4>1, <4>2
    <3> QED BY <2>1, <3>1, <3>2
  <2> QED BY <1>6, <1>7, <1>8, <2>5, <2>6, <2>7, <2>8 DEF Inv
<1> QED BY <1>9, <1>10

\* Inv is an invariant of the pool under callers that name free subnets only.
THEOREM PoolInvariance ==
    ASSUME Careful PROVE Spec => []Inv
<1>1. ASSUME Inv, [Next]_vars PROVE Inv'
  <2>1. CASE Acquire BY <1>1, <2>1, AcquireInv
  <2>2. ASSUME NEW s \in Nets, Request(s) PROVE Inv' BY <1>1, <2>2, RequestInv
  <2>3. ASSUME NEW s \in Nets, Release(s) PROVE Inv' BY <1>1, <2>3, ReleaseInv
  <2>4. CASE UNCHANGED vars
    BY <1>1, <2>4 DEF Inv, TypeOK, Held1, TakenHeld, AheadMarked, FreeUnheld, PassedKept,
                      FreeQueued, Ahead, vars
  <2> QED BY <1>1, <2>1, <2>2, <2>3, <2>4 DEF Next
<1> QED BY InitInv, <1>1, PTL DEF Spec

\* No two sandboxes get one subnet (fifo_exact.rs: get_next, get, give_back),
\* whatever the size of the network, as long as get is not called for a subnet
\* that somebody holds.
THEOREM SubnetsExclusive ==
    ASSUME Careful PROVE Spec => []NoDoubleHandout
<1>1. Inv => NoDoubleHandout BY DEF Inv, Held1, NoDoubleHandout
<1> QED BY <1>1, PoolInvariance, PTL

\* The pool loses no subnet: get_next fails only when all are held, and get
\* succeeds for every configured subnet that nobody holds.
THEOREM SubnetsNotLost ==
    ASSUME Careful PROVE Spec => [](NoFalseExhaustion /\ FreeIsObtainable)
<1>1. ASSUME Inv PROVE NoFalseExhaustion
  <2> SUFFICES ASSUME Live = {}, Untaken = {}, NEW s \in Configured, ~(held[s] > 0)
               PROVE FALSE
    BY DEF NoFalseExhaustion
  <2>1. s \in 0 .. N-1 /\ next \in 0 .. N /\ N \in Nat /\ s \in Nets
    BY <1>1, SubnetAssumption DEF Configured, Inv, TypeOK
  <2>2. held[s] = 0 BY <1>1, <2>1 DEF Inv, Held1
  <2>3. free_set = {} BY <1>1 DEF Inv, FreeQueued, Live
  <2>4. s >= next BY <1>1, <2>1, <2>2, <2>3 DEF Inv, PassedKept
  <2>5. s \in taken BY <2>1, <2>4 DEF Untaken
  <2> QED BY <1>1, <2>2, <2>5 DEF Inv, TakenHeld
<1>2. ASSUME Inv PROVE FreeIsObtainable
  <2> SUFFICES ASSUME NEW s \in Configured, held[s] = 0 PROVE GetOk(s)
    BY DEF FreeIsObtainable
  <2>1. s \in 0 .. N-1 /\ next \in 0 .. N /\ N \in Nat /\ s \in Nets
    BY <1>2, SubnetAssumption DEF Configured, Inv, TypeOK
  <2>2. s \notin taken BY <1>2 DEF Inv, TakenHeld
  <2>3. CASE Ahead(s) BY <2>2, <2>3 DEF GetOk
  <2>4. CASE ~Ahead(s)
    <3>1. s < next BY <2>1, <2>4 DEF Ahead
    <3> QED BY <1>2, <2>4, <3>1 DEF Inv, PassedKept, GetOk
  <2> QED BY <2>3, <2>4
<1> QED BY <1>1, <1>2, PoolInvariance, PTL
=============================================================================
